------------------------------ MODULE MCAuditLog ------------------------------
EXTENDS AuditLog

CONSTANTS p1, p2, l1, l2

\* Two threads of one process, and another process.
MCWriters == {<<p1, l1>>, <<p1, l2>>, <<p2, l1>>}
=============================================================================
