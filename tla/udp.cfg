SPECIFICATION LiveSpec
CONSTANTS
    Local = {l1, l2}
    ns1 = ns1
    ns2 = ns2
    peer = peer
    Inputs <- MCInputs
    NameServers = {ns1, ns2}
    Stranger = stranger
    Junk = junk
    None = None
    max_connections = 1
    udp_mtu = 2
    BUFFER_SIZE = 1
    LIMIT = 1
    Faults = {"memory", "error", "malformed"}
    MaxPackets = 3
    MaxReplies = 1
    MaxErrors = 1
CHECK_DEADLOCK FALSE
INVARIANTS
    AssertsHold
    RingSound
    Flowing
    Carried
    RepliesHome
PROPERTIES
    Forwarded
