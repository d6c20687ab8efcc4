\* Two receive loops on two ports, and a second with room for one of three messages.  Two
\* questions and a notification of another program, on any system, which stop when both are
\* answered and nothing is left on the screen.
SPECIFICATION ListenersFairSpec
CONSTANTS
    None = None
    Ports = {p1, p2}
    Loops = {l1, l2}
    MaxPushes = 1
    MaxBundle = 2
    MaxReceived = 3
    Asks = {a1, a2}
    Others = {o}
    Approvers = {"notification", "box", "dev", "null"}
INVARIANTS OneDatagramLate AnswerIsTheUsers ClickIsOnItsWay
PROPERTIES AskedLoopsEnd AskEndsIfBusAnswers
CHECK_DEADLOCK FALSE
