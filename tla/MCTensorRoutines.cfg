SPECIFICATION Spec
CONSTANTS
  Names <- MCNames
  Layout <- MCLayout
  PerAggregator = 4
  Programs <- MCPrograms
  Given <- MCGiven
  FileNames <- MCFileNames
  LocalNames <- MCLocalNames
  Machines <- MCMachines
INVARIANT AsIfSequential
INVARIANT ReturnsMeaning
PROPERTY AllReturn
