SPECIFICATION Spec
CONSTANTS
  TokenName <- MCTokenName
  Words <- MCWords
  Grouped <- MCGrouped
  SnakeCase <- MCSnakeCase
  Sources <- MCSources
INVARIANTS AugmentedBindsLikeAssignment RefusedOnlyUndeclared ConversionsUnambiguous BoxesAgree
PROPERTIES Ends
CHECK_DEADLOCK FALSE
