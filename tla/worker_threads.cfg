\* A worker that shares its channel with another receiver, two starts.
SPECIFICATION FairSpec
CONSTANTS
    Worker = worker
    Receivers = {worker, other}
    MaxSent = 3
    MaxStarts = 2
INVARIANT TypeOK
INVARIANT NobodyOversleeps
INVARIANT DestructionIsSafe
INVARIANT FlagsAreTrue
PROPERTY KeepsPromise
PROPERTY JoinsReturn
\* The owner may do nothing more, and the object may be gone.
CHECK_DEADLOCK FALSE
