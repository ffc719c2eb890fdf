SPECIFICATION FairSpec
CONSTANTS
    Protos = {"chat", "responses", "anthropic"}
    Providers = {"ta3", "custom", "wb"}
    MaxEmpty = 1
    MaxLines = 3
    MaxAgain = 1
    Finishes = {"stop", "max_tokens", "tool_use"}
    Digits401 = TRUE
CHECK_DEADLOCK FALSE
INVARIANTS AnswerInv RetryUnread StreamTrue StreamMatchesJson
PROPERTIES RequestEnds
