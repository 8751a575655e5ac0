SPECIFICATION MCSpec
CONSTANTS
    Base = 5
    ARP_CACHE_SIZE = 2
    MAX_TCP_CONNS = 2
    Hosts = {1, 2, 3}
    Macs = {m1, m2}
    Ids = {4}
    LocalIp = 1
    RTL_RX_BUFFER_SIZE = 32
    RTL_MAX_PACKETS = 2
    Descriptors = 2
    FrameLen = {1, 8}
    MaxLength = {4, 255}
    MaxFrames = 3
INVARIANTS ArpKnows ChecksumGuards CardInStep
