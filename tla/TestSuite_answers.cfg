SPECIFICATION AnsweringSpec
CONSTANTS
  Tests <- MCTests
INVARIANTS SummaryAgrees PassedPortsOn
PROPERTIES Completes
CHECK_DEADLOCK FALSE
