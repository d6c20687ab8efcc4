\* Two plugins; nothing fails but builds, for reasons of their own or because a tree
\* (a2) does not compile.
SPECIFICATION Spec
CONSTANTS
    a = a
    b = b
    k1 = k1
    k2 = k2
    a1 = a1
    a2 = a2
    a3 = a3
    a4 = a4
    b1 = b1
    Ids = {a, b}
    Keys = {k1, k2}
    Trees = {a1, a2, a3, a4, b1}
    Compiles = {a1, a3, a4, b1}
    PluginOf <- MCPluginOf
    KeyOf <- MCKeyOf
    VersionOf <- MCVersionOf
    SignedAt <- MCSignedAt
    None = None
    Wreck = Wreck
    Faults = {"build"}
INVARIANTS AllAgree
PROPERTIES ImplementsPluginSet
