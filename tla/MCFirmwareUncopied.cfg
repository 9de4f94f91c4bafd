SPECIFICATION Spec
CONSTANTS
    Paths = {2, 4}
    Place <- MCPlace
    Served <- MCServed
    Cloud = {2}
    Images = {"v1", "v2"}
    Adapters = {1, 2}
    Odd = {2}
INVARIANTS AlwaysServed
