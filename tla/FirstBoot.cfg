SPECIFICATION FairSpec
CONSTANTS
    Address <- MCAddress
    NoGateway = NoGateway
    LinkLocal = LinkLocal
    Ether1 = Ether1
    Ether2 = Ether2
    Hosts <- MCHosts
    Ports <- MCPorts
    FactoryPort = Ether1
    Timeout = 2
    MaxReboots = 1
INVARIANTS
    TypeOK
    DHCPIsConfirmed
    ForwardingPreserved
    ScriptIsIdempotent
PROPERTIES
    OtherPortsUntouched
    DetectionEnds
\* A refused plan, an aborted script and an applied plan are ends.
CHECK_DEADLOCK FALSE
