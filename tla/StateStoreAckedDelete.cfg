\* A delete whose write failed, and the same delete again.
SPECIFICATION Spec
CONSTANTS
    Namespaces = {"plugin"}
    Reserved = {}
    k0 = k0
    k1 = k1
    k2 = k2
    Entries <- MCPluginEntries
    small = small
    large = large
    huge = huge
    Values = {small, huge}
    Missing = Missing
    Torn = Torn
    NsBytes = 1
    Bytes <- MCBytes
    MaxValueBytes = 2
    MaxFileBytes = 3
INVARIANTS AckedDeleteIsDurable
