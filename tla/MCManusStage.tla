---------------------------- MODULE MCManusStage ----------------------------
(* Model-checking instances of ManusStage.                                   *)
EXTENDS ManusStage

CONSTANTS c1, c2

TwoCities == <<c1, c2>>
Usage == [c \in Cities |-> 3]

=============================================================================
