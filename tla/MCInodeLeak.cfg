CONSTANTS
  Procs <- MCProcs
  Inums <- MCInums
  Names = {"x"}
  Paths <- MCPaths
  Calls <- MCCalls
  DataBlocks = {1}
SPECIFICATION Spec
INVARIANT OrphansAreHeld
