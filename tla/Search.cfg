SPECIFICATION Spec
CONSTANTS
    Id = {1, 2, 3, 4, 5}
    Kinds = {"promise", "task", "schedule"}
    Tag = {"t"}
    Shapes <- TaggedOrPlain
    SearchStates = {"pending"}
    Limits = {0, None}
    DefaultLimit = 2
    MaxSearchLimit = 2
    PreloadLimit = 1
    Deadlines = {1}
    MaxTime = 1
    MaxChanges = 5
    None = None
CHECK_DEADLOCK FALSE
INVARIANTS
    WalkMissesNothing
    WalkGoesForward
    PreloadIsFirstOfBranch
