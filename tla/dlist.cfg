SPECIFICATION Spec
CONSTANTS
    Node = {n1, n2, n3, n4}
    Mailbox = {in_box, out_box}
    PlainList = {list}
    NULL = NULL
INVARIANTS
    WellLinked
PROPERTIES
    IsQueue
CHECK_DEADLOCK FALSE
