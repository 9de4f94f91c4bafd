SPECIFICATION Spec
CONSTANTS
    Paths = {1, 3}
    Place <- MCPlace
    Served <- MCServed
    Cloud = {1}
    Images = {"v1", "v2"}
    Adapters = {1, 2}
    Odd = {2}
INVARIANTS AlwaysServed
