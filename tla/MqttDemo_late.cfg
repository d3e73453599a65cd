CONSTANTS
    MqttMaxCnts = {2}
    Foreigns = {1}
SPECIFICATION Spec
INVARIANT
    FreedIsUnused
CHECK_DEADLOCK FALSE
