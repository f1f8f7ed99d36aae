SPECIFICATION BudgetSpec
CONSTANTS
  Steps = 2
  Amounts = {1, 3}
  Limits = {4, 6}
  MaxExecutions = 3
  MaxReports = 4
  MaxFailures = 1
CHECK_DEADLOCK FALSE
INVARIANTS UsageIsBilled
PROPERTIES OneCallAboveCeiling CeilingHolds
