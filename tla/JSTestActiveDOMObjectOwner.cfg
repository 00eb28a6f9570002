\* Two implementation objects and three cells for wrappers: a wrapper can
\* die and be replaced while another implementation object has its own.
CONSTANTS
    Impls = {i1, i2}
    Wrappers = {w1, w2, w3}
    NoImpl = NoImpl
    NoWrapper = NoWrapper
    NotAWrapper = NotAWrapper

SPECIFICATION FairSpec

INVARIANTS
    TypeOK
    ReleasedOnce
    OneLiveWrapper

PROPERTY ImplFreed

