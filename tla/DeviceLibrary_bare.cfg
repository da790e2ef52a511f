SPECIFICATION Spec
CONSTANTS
    Ids = {g1, g2}
    MaxRenders = 3
    MaxVisits = 2
INVARIANT Saved
SYMMETRY Symmetry
