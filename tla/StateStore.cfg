\* Two namespaces, one of them the bridge's, the other with two keys; the file has room
\* for one value, or for one beside a namespace a refused set left empty.
SPECIFICATION Spec
CONSTANTS
    Namespaces = {"bridge.plugins", "plugin"}
    Reserved = {"bridge.plugins"}
    k0 = k0
    k1 = k1
    k2 = k2
    Entries <- MCEntries
    small = small
    large = large
    huge = huge
    Values = {small, large, huge}
    Missing = Missing
    Torn = Torn
    NsBytes = 1
    Bytes <- MCBytes
    MaxValueBytes = 2
    MaxFileBytes = 3
SYMMETRY KeySymmetry
INVARIANTS AckedSetIsDurable
PROPERTIES ImplementsDurableMap
