\* One client with the smallest buffer.
CONSTANTS
    Clients = {c1}
    MaxEvents = 2
    SendBuffer = 1
    Backlog = 1
SPECIFICATION Spec
CHECK_DEADLOCK FALSE
PROPERTIES
    SlowClientDropped
