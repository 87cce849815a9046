CONSTANTS
    v1 = v1
    v2 = v2
    Value = {v1, v2}
    MaxPush = 5
SPECIFICATION QueueFairSpec
CHECK_DEADLOCK FALSE
PROPERTIES
    IsChannel
    AllDelivered
