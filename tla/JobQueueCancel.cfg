\* One worker is enough: the race is with its own cancel handle.
CONSTANTS
    Jobs = {j1}
    Workers = {w1}
    MaxAttempts = 3
SPECIFICATION Spec
PROPERTIES
    CancelIsTerminal
