SPECIFICATION Spec
CONSTANTS
  b1 = b1  b2 = b2  b3 = b3
  none = none
  Batches <- MCBatches
  Assets = {a1, a2}
  NoAsset = none
  AnySource = none
  Unknown = none
  Content <- MCContent
  Workloads <- MCWorkloads
  Rules <- MCRules
  AdvisoryBundle <- MCAdvisories
  Words = {"accepted_risk"}
SYMMETRY AssetSymmetry
INVARIANTS
  TypeOK
  MissedOnlyInRace
  ShownWasAnnounced
  HistoryChains
  CeilingHolds
  ImportedIsDerived
  OneSourceIsNotEnough
PROPERTIES
  JudgementsKept
CHECK_DEADLOCK FALSE
