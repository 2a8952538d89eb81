SPECIFICATION LiveSpec
CONSTANTS
    Cap = 1
    MaxEvents = 2
    Garbled = {}
    Stoppers = {s1}
    Watcher = Watcher
    Unwatches = FALSE
    JoinsReader = TRUE
PROPERTIES
    LossEndsSubscription
CHECK_DEADLOCK FALSE
