\* Two targets of two and three requests; a request may cost more than was held.
SPECIFICATION PlansSpec
CONSTANTS
  None = None
  Targets = {"a", "b"}
  StageNames <- MCStages
  Requests <- MCRequests
  Reserve = 2
  Limit = 8
  Costs = {1, 4}
  Tasks <- MCTasks
  Domains <- MCDomains
  Catalog <- MCCatalog
  TasksOf <- MCTasksOf
  DomainsOf <- MCDomainsOf
  Paths <- MCPaths
  QuestionBytes <- MCQuestionBytes
  EvidenceBytes <- MCEvidenceBytes
  TARGET_BYTES = 14
  MAX_REASON_PACKETS = 2
  Units <- MCUnits
  Labels <- MCLabels
  Drawn = {}
  Passing <- MCPassing
  Collection <- MCCollection
  MaxReviews = 3
  Catalogue <- MCCatalogue
  Texts <- MCTexts
  RouteAnswers <- MCRouteAnswers
  ReasonAnswers <- MCReasonAnswers
  Absent = Absent
  Utterances <- MCUtterances
  MaxRows = 5
  Limits <- MCLimits
  MaxBytes = 4
  Unbound = Unbound
INVARIANTS
  OutcomeTellsRequests
  ReservationSuffices
  SelectedPolicyHolds
  HistoryReproduces
  AssessmentTellsOutcome
  
CHECK_DEADLOCK FALSE
