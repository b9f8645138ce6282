----------------------------- MODULE MCPipeline -------------------------------
EXTENDS Pipeline

Uniform(k) == [d \in Dimensions |-> k]

\* One vector per case of the rule: a clear pass, a borderline mean, a low
\* mean, a high mean with one critical dimension.
MCScoreSet ==
  {Uniform(5), [Uniform(4) EXCEPT ![1] = 3], Uniform(2), [Uniform(5) EXCEPT ![1] = 1]}
=============================================================================
