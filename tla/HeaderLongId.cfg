CONSTANTS
  snake_case <- MCsnake_case
  Length <- MCLength
  QuerySet <- LongIds
SPECIFICATION Spec
INVARIANT RemarkWritten
CHECK_DEADLOCK FALSE
