CONSTANTS
    o1 = o1  customer = customer  w1 = w1  w2 = w2
    NoToken = NoToken
    Orders = {o1}
    Kinds = {customer}
    Workers = {w1, w2}
    MaxAttempts = 2
    Lock = 2
    Delay = 1
    Limit = 1
    Settled = 1
    Window = 3
    Cron = 1
    MaxStall = 1
    MaxRequeues = 1
SPECIFICATION FairSpec
INVARIANTS TypeOK OneSender SendsArePaid NoOrderForgotten
PROPERTIES KeepsPromise EveryMailSettled
