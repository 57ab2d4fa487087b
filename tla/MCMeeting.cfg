SPECIFICATION FairSpec
CONSTANTS
  TrnFlags = {0}
  Junk = {0, 1}
  MaxTrn = 3
  MaxAppends = 4
INVARIANTS TypeOK LinksOK ChainNumbersOK SearchOK LogOK
PROPERTIES NumbersAreForGood IsConference RetrieveEnds
CHECK_DEADLOCK FALSE
