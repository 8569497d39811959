SPECIFICATION FairSpec
CONSTANTS
    SlowFirst = 3
    SlowLast = 4
    MaxArgs = 4
    MaxAmount = 6
    MaxDup = 3
    ManualKeys = {{"amount"}, {"account", "pin", "identifier"}, {"username", "action"}}
    RemoveKeys = {{"amount", "username"}, {"account", "pin", "identifier"}}
INVARIANTS RequestAsDocumented AmountsAllowed AllAnsweredFirst
PROPERTIES CliEnds
