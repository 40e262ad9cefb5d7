SPECIFICATION ServicesSpec
CONSTANTS
  Completion = {c1}
  Prompts <- AllPrompts
  Deployments <- ProductionAndDevelopment
  Seal = {s1, s2}
  Content = {"policy"}
  NoContent = "empty"
  Place = {"here", "there"}
  Artifacts <- SomeArtifacts
  LastDay = 3
  Person = {"ada", "bela"}
  Founder = "ada"
  SeededTenants = 2
  Visit = {v1, v2}
  Scan = {x1, x2}
  Session = {"mine", "yours"}
  NoCookie = "no cookie"
  Site = {w1, w2}
  View = {q1}
  CacheLimit = 1
  Local = FALSE
  Library <- SomeControls
  RecordsCap = 6000
INVARIANTS NoNeedlessEgress SealedIsLocked IdNamesItsObject
  MembershipJustified LeadsBelong OwnReportIsFound AnsweredIsKept EscalatesByTotal WorstFirst
PROPERTIES BetterAnswersNeverHurt
CHECK_DEADLOCK FALSE
