SPECIFICATION Spec
CONSTANTS
    N = 3
    Slots = 2
    Nameless = {}
    Literal <- OneLiteral
PROPERTIES ImplementsOrder Finishes
