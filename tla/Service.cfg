SPECIFICATION Spec
CONSTANTS
    s1 = s1
    s2 = s2
    webapp = webapp
    ann = ann
    bob = bob
    run = run
    NoName = NoName
    Slots = {s1, s2}
    Labels = {webapp}
    Ids = {ann, bob}
    Runs = {run}
    Requests <- MCRequests
    Deployments <- MCDeployments
    MaxCalls = 1
INVARIANTS
    EventsNameTheirCaller
    RecordedOnce
    CallsArePaidFor
    FailuresAreReadable
