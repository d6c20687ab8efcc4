\* Two processes, two builds with none or both of two plugins, every fault.
SPECIFICATION Spec
CONSTANTS
    Processes = {p1, p2}
    x = x
    y = y
    Ids = {x, y}
    Wanted <- SomeSets
    Sources <- SomeSources
    MaxBuilds = 2
    Faults = {"verify", "table", "spawn", "wait", "info", "map", "bundle", "clean"}
    None = None
SYMMETRY Alike
INVARIANTS LiveWasChecked ReportIsTrue MapNotOlder
\* The builds are bounded, and a killed process does not come back.
CHECK_DEADLOCK FALSE
