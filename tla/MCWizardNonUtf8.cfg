CONSTANTS
    MaxGpus = 2
    MaxLines = 3
    Inputs <- MCInputs
    AllowNonUtf8 = TRUE
    MaxRestarts = 0

SPECIFICATION Spec

PROPERTY RewritePreservesOtherLines

\* The wizard process exits when it ends (aborted, panicked, or reboot advised).
CHECK_DEADLOCK FALSE
