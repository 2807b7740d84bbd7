--------------------------- MODULE MCAttemptReport ---------------------------
EXTENDS AttemptReport

CONSTANTS k1, k2

MCLines ==
  [subject : 1 .. MaxTargets, verdict : {"valid", "invalid"}]
    \cup [subject : {k1}, verdict : {"valid", "missing", "other"}]
    \cup [subject : {k2}, verdict : {"valid", "invalid"}]

=============================================================================
