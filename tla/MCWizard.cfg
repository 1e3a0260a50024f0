CONSTANTS
    MaxGpus = 2
    MaxLines = 3
    Inputs <- MCInputs
    AllowNonUtf8 = FALSE
    MaxRestarts = 1

SPECIFICATION Spec

INVARIANT AutoSuccessMeansModulesLoaded
PROPERTY RewritePreservesOtherLines

\* The wizard process exits when it ends (aborted, panicked, or reboot advised).
CHECK_DEADLOCK FALSE
