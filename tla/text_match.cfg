CONSTANTS
  Letters = {"a", "/", "."}
  Signs = {"a", "*"}
  MaxText = 3
  MaxBoth = 4
SPECIFICATION TextSpec
INVARIANT MatchGlobs
CHECK_DEADLOCK FALSE
