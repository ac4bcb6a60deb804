--------------------------- MODULE MCEffectLedger ---------------------------
(* Model-checking instances of EffectLedger.                                 *)
EXTENDS EffectLedger

CONSTANTS free, paid

\* A free provider, then a paid one: the order of Apollo and Hunter.
FreeThenPaid == <<free, paid>>
OnlyPaid == <<paid>>
HunterPrice == [p \in Providers |-> IF p = paid THEN 1 ELSE 0]

=============================================================================
