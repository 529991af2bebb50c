SPECIFICATION DslSpec
CONSTANTS
  Programs <- MCPrograms
  Root = "main"
  Outcomes = {"dict", "failedObject"}
  MaxOverdue = 1
INVARIANTS TopTellsAll
