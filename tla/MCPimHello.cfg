SPECIFICATION Spec
CONSTANTS
  Pimds <- MCPimds
  Foreign <- MCForeign
  Prios <- MCPrios
INVARIANTS
  RoleUpToDate
  NoUsurper
  RegisterOnlyAsDR
