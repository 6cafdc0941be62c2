\* Two producers and two consumers over a stack of two, with a semaphore whose
\* limit (3) the five pushes can reach.
CONSTANTS
    p1 = p1
    p2 = p2
    c1 = c1
    c2 = c2
    a = a
    b = b
    Producers <- ProducersDef
    Consumers <- ConsumersDef
    Items <- ItemsDef
    Capacity = 2
    MaxPermits = 3
    MaxPushes = 5
SPECIFICATION FairSpec
INVARIANTS TypeOK Accounting NoLostWakeup
PROPERTIES Drains ImplementsHandOff
CHECK_DEADLOCK FALSE
