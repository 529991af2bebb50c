SPECIFICATION DslSpec
CONSTANTS
  Programs <- MCPrograms
  Root = "main"
  Outcomes = {"dict", "failedDict", "value", "raise"}
  MaxOverdue = 2
INVARIANTS DslTypeOK TopTellsAll IfsContain
PROPERTIES Ends
