SPECIFICATION GpioSpec
CONSTANTS
    A = A
    B = B
    p1 = p1
    p2 = p2
    Contexts <- MCContexts
    Ports <- MCPorts
    Pins <- MCPins
    Uses <- MCUses
    Toggles <- MCToggles
INVARIANTS
    PinsAsCommanded
