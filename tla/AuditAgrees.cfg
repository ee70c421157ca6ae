SPECIFICATION Spec
CHECK_DEADLOCK FALSE
CONSTANTS
  Scenarios <- ScenariosMC
  PageSize = 2
INVARIANTS
    AuditNamesEveryRefusal
    RepositoryAdmitsNoFault
    VerifyReportsOneMoment
