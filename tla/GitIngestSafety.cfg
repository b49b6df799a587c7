SPECIFICATION Spec
CONSTANTS
    Callers = {g1, g2}
    Dirs = {d1, d2}
    Committed = {d1}
    Faulty = TRUE
    Nil = Nil
INVARIANT TypeOK
PROPERTY IngestIsAtomicStore
SYMMETRY Symmetric
