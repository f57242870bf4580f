SPECIFICATION Spec
CONSTANTS
    Callers = {c1, c2}
    Engines = {e1, default}
    Models = {m1}
    Requests <- MCRequests
    Clients = {x1, x2, x3}
    Default = default
    None = None
    NoClient = NoClient
    NoKey = NoKey
INVARIANTS
    PooledForItsKey
PROPERTIES
    PromiseKept
