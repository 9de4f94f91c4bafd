SPECIFICATION Spec
CONSTANTS
    Addrs = {"a", "b"}
    Flash = "flash"
    Gateways = {"g"}
    Resolvers = {"r", "s"}
INVARIANTS DnsRestored
CHECK_DEADLOCK FALSE
