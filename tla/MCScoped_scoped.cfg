CONSTANTS
    MaxDepth = 3
    MaxUnits = 2
    MaxWrites = 2
    MaxLapses = 1
SPECIFICATION Spec
CONSTRAINT FewLapses
INVARIANTS
    UnitsAtomic
    TransactionGuarded
    FlagSound
    NoTerminate
    SyncScoped
