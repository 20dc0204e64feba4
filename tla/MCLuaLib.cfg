SPECIFICATION LibSpec
CONSTANTS
  LUA_MAXCAPTURES = 3
  Calls <- MCCalls
  Arrays <- MCArrays
  AnyArrays <- MCAnyArrays
INVARIANTS
  TextKept
PROPERTIES
  MatchesAsPromised
  SortsAndKeeps
