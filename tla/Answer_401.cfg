SPECIFICATION Spec
CONSTANTS
    Protos = {"chat", "responses", "anthropic"}
    Providers = {"ta3", "custom", "wb"}
    MaxEmpty = 1
    MaxLines = 2
    MaxAgain = 1
    Finishes = {"stop"}
    Digits401 = TRUE
CHECK_DEADLOCK FALSE
INVARIANTS NothingBeforeRetry
