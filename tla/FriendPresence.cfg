SPECIFICATION Spec
CONSTANTS
    ForceEvery = 2
    Mishaps = {"silent", "refused", "unopened", "detached", "unready", "restart", "failed"}
    MaxMishaps = 1
    Published = {"online", "busy", "offline"}
PROPERTIES GoneIsSeen StatusIsSeen WatchReturns
