---------------------------- MODULE MCAuditedRun ------------------------------
EXTENDS AuditedRun

Uniform(k) == [d \in Dimensions |-> k]

\* A clear pass and a critical failure.
MCScoreSet == {Uniform(5), Uniform(1)}
=============================================================================
