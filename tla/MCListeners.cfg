SPECIFICATION Spec
CONSTANTS
    Clients = {"c1", "c2"}
    Ports = {80, 443}
    HTTPS_PORT = 443
    LISTEN_BACKLOG = 1
    Queries <- MCQueries
    Probes <- MCProbes
    DnsQueue = 1
    MaxReadErrors = 1
    STACK_IP = "10.0.0.1"
    STACK_IP6 = "fd00::1"
INVARIANT OwnedOnce
INVARIANT AcceptedIsServed
INVARIANT SleepsOnlyWhenDrained
PROPERTY DnsAnswersDeserved
PROPERTY RefusedOnlyBeyondBacklog
PROPERTY EveryPacketHandled
