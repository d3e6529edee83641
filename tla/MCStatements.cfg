CONSTANTS
  Procs = 2
  StatementsIn <- MCStatementsIn
SPECIFICATION Spec
INVARIANTS FormulaHolds BlocksExist LoopsVisitAll
\* The statement ends.
CHECK_DEADLOCK FALSE
