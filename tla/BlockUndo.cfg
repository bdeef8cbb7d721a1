SPECIFICATION Spec
CONSTANTS
    Tx <- MCTx
    Kind <- MCKind
    Inputs <- MCInputs
    Outs <- MCOuts
    CoinbaseHeight <- MCCoinbaseHeight
    COINBASE_MATURITY = 2
    MaxReorg = 2
    MaxHeight = 6
    MaxBlockTx = 4
INVARIANTS UtxoMatchesChain TipCanBeDisconnected StakeSpentSound
