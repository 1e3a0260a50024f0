--------------------------- MODULE MCSetupWizard ---------------------------
(* SetupWizard for TLC: what the user may type.                            *)
EXTENDS SetupWizard

\* y and n, the numerals of two GPUs, an existing path, end of input.
MCInputs == {"y", "n", "0", "1", "/dev/sdb", "eof"}
=============================================================================
