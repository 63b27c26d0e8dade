SPECIFICATION LiveSpec
CONSTANTS
  r1 = r1
  c1 = c1
  c2 = c2
  Repos <- OneRepo
  Clients <- TwoClients
  Plans <- MCPlans
  MaxHandles = 3
  MaxEdits = 1
INVARIANTS WatchersInv PauseAgrees GitSerialized ConfigFollowed
PROPERTIES TakesTurns TurnsCome
CHECK_DEADLOCK FALSE
