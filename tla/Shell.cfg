SPECIFICATION Spec
CONSTANTS
  Commands <- MCCommands
  Lines <- MCLines
  Meaning <- MCMeaning
  Scripts <- MCScripts
  MAX_BLOCK_LINES = 2
  MAX_SEGMENTS = 4
  MaxNesting = 1
  MaxAllocated = 6
  MaxScripts = 2
  MaxPages = 2
  NoTerm = NoTerm
  Names = {"x", "y", "z"}
  DIGITS <- MCDigits
  INT_BITS = 3
  MAX_VARIABLES = 2
  MaxText = 1
INVARIANTS CallsCleanUp PipelineOwnData
PROPERTIES LineEnds VariablesAreMap AddsUp
CHECK_DEADLOCK FALSE
