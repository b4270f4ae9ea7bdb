SPECIFICATION MCSpec
CONSTANTS
  u1 = u1
  u2 = u2
  Users = {u1, u2}
  Creds = 2
  MaxEdits = 2
  MaxFaults = 1
  MaxOrders = 1
INVARIANTS TypeOK Reconciled TemplateApplied
PROPERTIES StopHolds Recovers Converges
CHECK_DEADLOCK FALSE
