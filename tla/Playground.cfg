\* Three requests, streamed or not, which the user may interrupt.
SPECIFICATION Spec
CONSTANTS
    Modes <- BothModes
    MaxRequests = 3
    MaxInterrupted = 1
INVARIANTS OwnAnswer IdleIsSettled
PROPERTIES ErrorSticks AnswerSettles
CHECK_DEADLOCK FALSE
