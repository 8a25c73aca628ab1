SPECIFICATION FairSpec
CONSTANTS
  Tablets = {1, 2}
  Claimants = {1}
  EligibleChoices = {{1, 2}}
  Strategies = {"Immediate", "External"}
  Templates = {"a", "b"}
  MaxEvents = 1
PROPERTIES RolloutCompletes
