SPECIFICATION FairSpec
CONSTANTS
    Heads = {h1, h2}
    Elements = {e1, e2, e3}
    Null = Null
    Arrays = {a1, a2}
    MinCapacity = 1
    SizeMax = 3
INVARIANTS
    RingsAreLists
    ArraysFit
PROPERTY AddEnds
