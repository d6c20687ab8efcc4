\* One question by notification, with a bus that need not answer.
SPECIFICATION FairSpec
CONSTANTS
    Asks = {a1}
    Others = {o}
    Approvers = {"notification"}
    None = None
PROPERTIES AskEnds
CHECK_DEADLOCK FALSE
