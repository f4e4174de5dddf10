SPECIFICATION StatsSpec
CONSTANTS
    Calls = {"c1", "c2"}
    Resets = {"r1", "r2"}
    Views = {"v"}
    MaxCalls = 3
INVARIANT
    CountsAddUp
PROPERTY
    ShownAddsUp
