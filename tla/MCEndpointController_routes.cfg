\* Two applications, one of which is also a static service.
SPECIFICATION FairSpec
CONSTANTS
  Apps = {a1, a2}
  Static = {a2}
  MaxFaults = 1
  MaxLag = 2
  MaxChanges = 3
PROPERTY StatusFollowsApps
PROPERTY RouteFollowsApps
PROPERTY DeletionCompletes
PROPERTY ImplementsLifecycle
CHECK_DEADLOCK FALSE
