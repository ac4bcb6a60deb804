----------------------------- MODULE MCPipeline -----------------------------
(* Model-checking instances of Pipeline.                                     *)
EXTENDS Pipeline

CONSTANTS c1, c2, c3

\* Two queries; the second one finds a company of the first one again.
TwoQueries == [j \in Jobs |-> <<<<c1, c2>>, <<c2, c3>>>>]

=============================================================================
