SPECIFICATION Spec
CONSTANTS
  Group = 2
  Int32Range = 4
  Int64Range = 16
  MaxItems = 2
  Thread = {1, 2}
  Task <- Events
  Exit = Exit
  max_queue = 1
  Session = {1, 2}
  MaxRequests = 3
  Code = {1}
  MaxIncidents = 1
CHECK_DEADLOCK FALSE
INVARIANTS
  ReadsRight
  WritesRight
  QueueAccounted
  FreedUnused
  SessionInStep
PROPERTIES
  RequestAnswered
