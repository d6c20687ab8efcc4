\* One plugin; everything may fail, and the daemon may be killed.
SPECIFICATION FairSpec
CONSTANTS
    a = a
    b = b
    k1 = k1
    k2 = k2
    a1 = a1
    a2 = a2
    a3 = a3
    a4 = a4
    b1 = b1
    Ids = {a}
    Keys = {k1, k2}
    Trees = {a1, a2, a3}
    Compiles = {a1, a3}
    PluginOf <- MCPluginOf
    KeyOf <- MCKeyOf
    VersionOf <- MCVersionOf
    SignedAt <- MCSignedAt
    None = None
    Wreck = Wreck
    Faults = {"temp", "rename", "remove", "save", "delete", "build", "crash"}
INVARIANTS ForgottenStaysForgotten SuccessMeansBuilt
PROPERTIES OnlyTrustedMovesIn KeyContinuity OperationEnds
