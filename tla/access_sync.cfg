CONSTANTS
    None = None
    tick = tick
    sweep = sweep
    office = office
    anywhere = anywhere
    internal = internal
    public = public
    partners = partners
    Projects = {p1}
    Hosts = {h1, h2}
    Prefixes = {x1, x2}
    Ids = {i1}
    Presets = {internal, public, partners}
    Internal = internal
    Public = public
    Sources = {office, anywhere}
    World = anywhere
    Requests = {r1}
    Tick = tick
    Sweep = sweep
    Actors = {r1, tick, sweep}
    MaxDomains = 1
    InitPresets <- OnePreset
    PresetCidrs <- SomeCidrs
    RuleCidrs <- RuleSources
    MaxOps = 2
    MaxFaults = 1
    Edits = {"domain", "tls", "access", "rule", "preset"}
SPECIFICATION Spec
CHECK_DEADLOCK FALSE
INVARIANTS
    TypeOK
    NeverWorldOpen
    BareOnlyInDeploy
    InSync
    PlatformInSync
