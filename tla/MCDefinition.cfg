SPECIFICATION CliSpec
CONSTANTS
  Shape <- MCShape
  Patterns <- MCPatterns
  Keys <- MCKeys
  Guards <- MCGuards
  Files <- MCFiles
  Services <- MCServices
  Options <- MCOptions
  CommandLines <- MCCommandLines
  Numbers <- MCNumbers
  MaxChain = 2
  MaxEdits = 2
INVARIANTS ServedAsValidated ServicesView CliTruth
CHECK_DEADLOCK FALSE
