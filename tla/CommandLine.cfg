SPECIFICATION Spec
CONSTANTS
  CommandLines <- MCCommandLines
  ConfigFiles <- MCConfigFiles
  Default <- MCDefault
  Numbers <- MCNumbers
  Batches <- MCBatches
  Lengths <- MCLengths
  MaxInvocations = 3
INVARIANTS
  OptionsTakePrecedence
  OutputsInOrder
  ResultsAreOfTheTrace
  LookupsAreNearest
