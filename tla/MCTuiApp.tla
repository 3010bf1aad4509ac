------------------------------ MODULE MCTuiApp ------------------------------
(* TuiApp on two ids that share a prefix, and on names that collide with   *)
(* what else a target can mean: "abc1" is also an id, "abc" also the       *)
(* prefix of both.                                                         *)
EXTENDS TuiApp

MCIds == {"abc1", "abc2"}
MCNames == {"abc", "abc1"}
MCTargets == MCIds \cup MCNames \cup {"zzz"}

(* Every id starts with itself, both with "abc". *)
MCAbbrev == [t \in MCTargets |-> IF t = "abc" THEN MCIds ELSE MCIds \cap {t}]

MCSnaggable == {"abc2"}

=============================================================================
