SPECIFICATION Spec
CONSTANTS
  Capacity = 3
  Repos = {"r1", "r2"}
  Plans <- MCPlans
  OnlyRepo = "r1"
  Limit = 1
INVARIANTS LogInv SinceIsExact RemembersEvents FollowsExactly
CHECK_DEADLOCK FALSE
