SPECIFICATION Spec
CONSTANTS
  Pimds <- MCPimds
  Foreign <- MCForeign
  Prios <- MCPrios
INVARIANTS
  TieBroken
