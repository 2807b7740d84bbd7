--------------------------- MODULE MCValidationRun ---------------------------
EXTENDS ValidationRun

CONSTANT k1

MCLines ==
  [subject : 1 .. MaxTargets, verdict : {"valid", "invalid"}]
    \cup [subject : {k1}, verdict : {"valid", "invalid", "missing", "other"}]

=============================================================================
