SPECIFICATION Spec
CONSTANTS
  Argument <- MCArgument
  MaxArguments = 4
  MaxSummarized = 0
  Width = 3
  Capacity = 3
  DefaultNumbers <- MCDefaultNumbers
  Time = {0, 1, 2}
  Lengths <- MCLengths
INVARIANTS
  AcceptedConfigsAreMeant
  RefusalsHaveACause
  PercentilesAreRanks
  MediansSummarizeTrials
PROPERTY SamplesDrawPercentiles
CHECK_DEADLOCK FALSE
