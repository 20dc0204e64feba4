SPECIFICATION Spec
CONSTANTS
  Parser <- luaY_parser
  Reader <- luaU_undump
  MAXINDEXRK = 1
  LFIELDS_PER_FLUSH = 2
  MAXARG_C = 1
  StackSize = 40
  Programs <- ConstantPrograms
  Precompiled = {}
  MaxDepth = 4
  Args <- MCArgs
PROPERTY RunsAsWritten
