SPECIFICATION CeSpec
CONSTANT MaxListeners = 2
INVARIANT AllListenersInvoked
CHECK_DEADLOCK FALSE
