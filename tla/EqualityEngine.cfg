CONSTANTS
  Term <- MCTerm
  Sig <- MCSig
  Value <- MCValue
  First <- MCFirst
  Later <- MCLater
  Watched = {"fa", "gab_b"}
  True = "true"
  False = "false"
  MaxLevel = 2
  MaxFacts = 2
SPECIFICATION Spec
INVARIANTS
  ClassesIntact
  CongruenceComplete
  MergesJustified
  TriggersTold
  DisequalitiesExplained
  EvaluationCounts
PROPERTY PropagateEnds
