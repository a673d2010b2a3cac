SPECIFICATION Spec
CONSTANTS
    p1 = p1
    p2 = p2
    v1 = v1
    v2 = v2
    c1 = c1
    Pairs = {p1, p2}
    Embeddings = {v1, v2}
    ZeroVector = ZeroVector
    Similar <- MCSimilar
    Limit = 1
    Callers = {c1}
    NoCaller = NoCaller
    NoPair = NoPair
    MaxCorrections = 2
PROPERTIES
    EmbeddingsKept
