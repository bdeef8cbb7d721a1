SPECIFICATION Spec
CONSTANTS
    k1 = k1
    k2 = k2
    Karmanode = {k1, k2}
    Payee = {"p", "none"}
    NoPayee = "none"
    Height <- MCHeight
    Top <- MCTop
    Self = k1
    NoKarmanode = NoKarmanode
    Thread = {"message", "stake"}
    MessageHandler = "message"
    MNPAYMENTS_SIGNATURES_REQUIRED = 2
    AHEAD = 1
    FAR = 1
    WINDOW = 0
    LIMIT = 1
    MaxTip = 2
    MaxVotes = 3
    MaxExtra = 1
INVARIANTS TallyMatchesVotes ChosenPayeeAccepted
