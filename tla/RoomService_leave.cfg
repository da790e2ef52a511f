SPECIFICATION Spec
CONSTANTS
    Codes = {c1, c2}
    Games = {g1, g2}
    Players = {p, q, x, y}
    Anonymous = {x, y}
    NoDevice = NoDevice
    TTL = 1
    MaxTokens = 3
    MaxSeq = 1
PROPERTIES
    NoLateLeave
