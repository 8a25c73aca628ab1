SPECIFICATION Spec
CONSTANTS
  Tablets = {1, 2}
  Claimants = {1}
  EligibleChoices = {{1}, {1, 2}}
  Strategies = {"Immediate"}
  Templates = {"a", "b"}
  MaxEvents = 2
INVARIANTS TypeOK OneRestartPerChange
PROPERTIES GracefulReplacement
