SPECIFICATION Spec
PROPERTIES EveryOperationEnds WatchersTold Delivered  Wakes
CHECK_DEADLOCK FALSE
