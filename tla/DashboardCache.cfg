CONSTANTS
    Job = {j1, j2, j3}
    Drawing = {a, b}
SPECIFICATION Spec
SYMMETRY Symmetry
INVARIANT TypeOK
PROPERTY ShowsNewest
