SPECIFICATION CompilerSpec
CONSTANTS
  NULL = NULL
  TMP = TMP
  Locals = {x}
  Kinds = {"num", "plus", "call", "if"}
  MaxStatements = 4
  MaxDepth = 2
INVARIANT IntrinsicsOnNumbers
