CONSTANTS
    MaxGpus = 2
    MaxLines = 3
    Inputs <- MCInputs
    AllowNonUtf8 = FALSE
    MaxRestarts = 0

SPECIFICATION Spec

INVARIANT EveryQuestionAnswerable

\* The wizard process exits when it ends (aborted, panicked, or reboot advised).
CHECK_DEADLOCK FALSE
