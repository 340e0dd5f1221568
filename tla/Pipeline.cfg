\* Up to three bytes through a pipe that holds one: the first program is blocked
\* by a full pipe and by a reader that left; forks and execs that fail.
CONSTANTS
    MaxBytes = 3
    Capacity = 1
    ForksFail = TRUE
SPECIFICATION Spec
INVARIANTS
    EndMeansAll
PROPERTIES
    PipelineEnds
CHECK_DEADLOCK FALSE
