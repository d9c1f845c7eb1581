SPECIFICATION Spec
CONSTANTS
  None = None
  Users = {u1, u2}
  Names = {web, ssh}
INVARIANTS
  RoutedToOwnProxy
CHECK_DEADLOCK FALSE
