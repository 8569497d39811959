SPECIFICATION Spec
CONSTANTS
    MaxSlots = 4
    SizeLimit = 5
    Counts = {0, 1, 2}
    Default = 2
INVARIANTS PoolKept OneAtATime OwnDisconnectIsClean CountExact
