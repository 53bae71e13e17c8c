CONSTANTS
    stream = stream  gy = gy  gz = gz
    Sites <- Deployments
    Services = {"message-bus", "ocs-rating", "pcef-core", "ue-emulator"}
    Calls = {stream, gy, gz}
    From <- Froms
    Within <- Handlers
    After <- Befores
SPECIFICATION FairSpec
CHECK_DEADLOCK FALSE
INVARIANT DrainedIsIdle
INVARIANT NoOrphans
PROPERTY SignalledExits
PROPERTY CallsSettle
