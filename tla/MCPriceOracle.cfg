CONSTANTS
    v1 = v1
    v2 = v2
    v3 = v3
    a1 = a1
    f1 = f1
    b1 = b1
    b2 = b2
    b3 = b3
    b4 = b4
    c3 = c3
    d1 = d1
    d2 = d2
    d3 = d3
    d4 = d4
    d5 = d5
    e2 = e2
    e3 = e3
    e4 = e4
    e5 = e5
    e6 = e6
    Validators = {v1, v2, v3}
    Enabled = {v1, v2, v3}
    Power <- MCPower
    Blocks = {a1, f1, b1, b2, b3, b4, c3, d1, d2, d3, d4, d5, e2, e3, e4, e5, e6}
    Parent <- MCParent
    NoBlock = NoBlock
    Confirmation = 2
    Window = 3
    x1 = x1
    x2 = x2
    Exchange = {x1, x2}
    Quote <- MCQuote
    Fed = {v1}
    Prices = {4}
    EnableHeight = 1
    MaxHeight = 3
SPECIFICATION Spec
SYMMETRY Symmetry
CONSTRAINT Families
INVARIANTS HeadersAreSound
PROPERTIES ReplicasAgree BestOnlyExtends PriceIsBracketed
