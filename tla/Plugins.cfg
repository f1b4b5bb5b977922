CONSTANTS
    calc = calc
    stats = stats
    docs = docs
    extra = extra
    x = x
    y = y
    s = s
    t = t
    CapIds <- AllIds
    Packages <- AllPackages
    Reviewed <- AllPackages
    Refused <- RefusedIds
    Builtins <- HostIds
    Probed <- HostIds
    Tasks = {s, t}
    Serves <- MathAndDocs
    Denied = {}
    RequireHealthy = FALSE
    MaxHistory = 1
    MaxOutcomes = 1
SPECIFICATION Spec
INVARIANTS
    OneOwner
    HandlersCurrent
    HandlerBehindActive
    InstalledIsWired
PROPERTIES
    RoutedCanRun
    HostUntouched
