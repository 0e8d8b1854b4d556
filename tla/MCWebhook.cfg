SPECIFICATION Spec
CONSTANTS
  Submissions <- AllSubmissions
  Views <- AllViews
  Configs <- AllConfigs
  MaxAdmissions = 2
INVARIANTS InjectedPodAccepted StartOrderKept ProfilePodGated
PROPERTY InjectedOnce
CHECK_DEADLOCK FALSE
