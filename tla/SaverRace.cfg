\* Two callers of one thread of a MemorySaver: one saves in the background,
\* the other puts its saves off to the end and deletes the thread.
SPECIFICATION Spec
CONSTANTS
    u1 = u1
    u2 = u2
    Caller <- MCCaller
    Spawner <- MCSpawner
    Deferrer <- MCDeferrer
    Deleter <- MCDeleter
    Asked = {0, 1}
    MaxCheckpoints = 3
    MaxClock = 2
INVARIANTS
    SaverTypeOK
    ForestDespiteRaces
PROPERTIES
    KeepsPromise
    InterruptFound
