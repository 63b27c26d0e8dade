SPECIFICATION MCSpec
CONSTANTS
  Repos = {"a", "b"}
  Conditions <- AllConditions
  Idle <- JustAdded
  ReposPlans <- MCReposPlans
  MaxLinks = 2
  Capacity = 3
  MaxShown = 4
  InitialBackfill = 2
  EventsPlans <- MCEventsPlans
INVARIANTS ReposInv ShowsTruth TimelineInv CaughtUp
CHECK_DEADLOCK FALSE
