\* Executors with one or two policies of zero, two or four attempts.
INIT RetryInit
NEXT RetryNext
CONSTANTS
    Word = {"timeout", "429"}
    NetworkWord = {"timeout"}
    TemporaryWord = {"429"}
    Attempts = {0, 2, 4}
    InitialInterval = 1
    MaxInterval = 3
    MaxPower = 7
    powFloat <- Doubling
    Wide = 8
INVARIANT AttemptsAsConfigured
\* An execution ends.
CHECK_DEADLOCK FALSE
