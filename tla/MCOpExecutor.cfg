\* Two given sets of tensors, six statements, three updates, two calls of execute.
CONSTANTS
  Shapes <- MCShapes
  Statements <- MCStatements
  Program <- MCProgram
  Given <- MCGiven
  MaxUpdates = 3
  MaxCalls = 2
SPECIFICATION Spec
PROPERTIES LazySpec AllocatedOnce ValuesHold CheapestOrder
