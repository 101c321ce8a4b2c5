CONSTANTS
  snake_case <- MCsnake_case
  Length <- MCLength
  QuerySet <- MCQuerySet
SPECIFICATION Spec
INVARIANTS
  UsesResolved
  NoRedefinition
  AccessorsReachTheirColumn
  DescribedIsExecuted
  LayoutKept
CHECK_DEADLOCK FALSE
