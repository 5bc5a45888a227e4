SPECIFICATION ReportSpec
CONSTANTS
  r1 = r1  r2 = r2  w1 = w1  w2 = w2
  MainRepo = {r1, r2}
  Bare = {r2}
  Linked = {w1, w2}
  OnDefault = {w2}
  Home <- HomeDef
  Found <- FoundDef
  Objects <- ObjectsDef
  Standing <- StandingDef
  NoFact = NoFact
  LooseLimit = 1
  PackLimit = 1
  MaxActs = 2
INVARIANTS ReportTypeOK OneStepIsSeen TotalsAgree
CHECK_DEADLOCK FALSE
