SPECIFICATION FairSpec
CONSTANTS
    p1 = p1
    p2 = p2
    c1 = c1
    c2 = c2
    k1 = k1
    i1 = i1
    i2 = i2
    Producers <- MCProducers
    Consumers <- MCConsumers
    Closers <- MCClosers
    Items <- MCItems
    NULL = NULL
    OK = OK
    MaxEnqueues = 3
INVARIANTS
    TypeOK
    ListShape
    TokenCount
PROPERTIES
    ImplementsFifo
    EveryItemLeaves
\* every consumer waits in Sem_wait once the queue is drained or invalid
CHECK_DEADLOCK FALSE
