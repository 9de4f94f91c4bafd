SPECIFICATION Spec
CONSTANTS
    Addrs = {"a", "b"}
    Flash = "flash"
    Gateways = {"g"}
    Resolvers = {"r", "s"}
INVARIANTS TypeOK RestoreExact FailsOnlyWithNetsh
CHECK_DEADLOCK FALSE
