CONSTANTS
    g1 = g1
    g2 = g2
    s1 = s1
    p1 = p1
    None = None
    Gens = {g1, g2}
    NumUsers <- MCNumUsers
    Seeders = {s1}
    Pods = {p1}
    WarmMax = 2
SPECIFICATION Spec
INVARIANTS EmbeddingsAreOwn NamedWasCommitted RankerHasIndex
