SPECIFICATION BenchSpec
CONSTANTS
    Task = {t1, t2, t3}
    NoTask = NoTask
    Spinner = t1
    Worker = t2
    Penalties = {5}
    Slice = 2
    Threshold = 1
    Granularity = 1
INVARIANTS BenchTypeOK PenaltiesDoNotAddUp CreditIsBounded
PROPERTIES EverybodyRuns PenaltyIsServed StopIsHeard
