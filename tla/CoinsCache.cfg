SPECIFICATION Spec
CONSTANTS
    Txid = {t1, t2}
    Coins = {pruned, c1, c2}
    Pruned = pruned
    NotCached = notCached
    Block = {b1, b2}
    NullBlock = nullBlock
INVARIANTS CachesCoherent FlushAssert
PROPERTIES ImplementsCoinsView
