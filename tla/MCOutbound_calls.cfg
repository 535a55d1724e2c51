SPECIFICATION FairSpec
INVARIANTS CallsSound OutcomesTrue
PROPERTIES ImplementsSpacing IssuedAreSent
CONSTANTS
    Requests = {r1, r2}
    Ops = {"read", "batch"}
    Outcomes = {"success", "rejected", "notFound", "serverError"}
    MaxItems = 2
    Interval = 2
    Retries = 1
    BaseDelay = 1
    MaxDelay = 1
    Horizon = 2
CHECK_DEADLOCK FALSE
