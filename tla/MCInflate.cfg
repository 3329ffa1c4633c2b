SPECIFICATION Spec
CONSTANTS
    Window = 8
    MaxTokens = 4
    Streams <- MCStreams
INVARIANTS
    InflateExact
    DamageCaught
    WindowExact
