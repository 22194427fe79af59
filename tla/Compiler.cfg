SPECIFICATION CompilerSpec
CONSTANTS
  NULL = NULL
  TMP = TMP
  Locals = {x}
  Kinds = {"use", "num", "str", "plus", "call", "if", "while", "break", "continue", "return"}
  MaxStatements = 4
  MaxDepth = 2
INVARIANTS
    BlocksWellFormed
  LoadsSeeLastAssignment
  TypesAccurate
    InferenceConverges
