SPECIFICATION PoolSpec
CONSTANTS
    Tx <- MCTx
    Kind <- MCKind
    Inputs <- MCInputs
    Outs <- MCOuts
    CoinbaseHeight <- MCCoinbaseHeight
    COINBASE_MATURITY = 2
    MaxReorg = 2
    MaxHeight = 4
    MaxBlockTx = 3
    Peer = {p1, p2}
    BadTx = {"x"}
    LargeTx = {"c"}
    Refusable = {"a"}
    MaxOrphanTx = 2
    NoTx = NoTx
    NoPeer = NoPeer
INVARIANTS MempoolCheck OrphanMapsSound PunishedPeersSentBad
PROPERTY ReorgKeepsTransactions
SYMMETRY Peers
