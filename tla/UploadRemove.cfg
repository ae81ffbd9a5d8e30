\* One request is enough.
CONSTANTS
    Uploads = {u1}
SPECIFICATION Spec
CHECK_DEADLOCK FALSE
INVARIANTS
    ObjectUnreferenced
