CONSTANTS
    r1 = r1
    r2 = r2
    Requests = {r1, r2}
    Cases <- AllCases
    Actuals <- FewActuals
    Balance0 <- FewUnits
    TrustQuota <- MCTrustQuota
    MaxOpens = 2
SPECIFICATION FairSpec
INVARIANTS
    LedgerInv
    OpenHoldsPreConsumed
    SettledPaysActual
    ErrorHoldsNothing
    FailedHoldsNothing
    NeverOverRefunded
PROPERTIES
    GptOverdrawnOnlyBySettle
    RefundEnds
