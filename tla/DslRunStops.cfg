SPECIFICATION DslSpec
CONSTANTS
  Programs <- MCPrograms
  Root = "main"
  Outcomes = {"dict", "failedDict"}
  MaxOverdue = 1
INVARIANTS StopsOnFailure
