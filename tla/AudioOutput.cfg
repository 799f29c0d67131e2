SPECIFICATION FairSpec
CONSTANTS
  EventLoop = EventLoop
  Users = {u1}
  BtDepth = 2
  EventDepth = 1
  I2sDepth = 2
  MayTimeOut = TRUE
CONSTRAINT Told
INVARIANTS TypeOK FollowsTarget OneOutput
PROPERTIES FallsBack
