---------------------------- MODULE MCSnagDaemon ----------------------------
(* SnagDaemon with model values.  A target is a session's whole id or a    *)
(* name: SessionRegistry's own run covers prefixes and collisions.         *)
EXTENDS SnagDaemon, TLC

MCTargets == Ids \cup Names
MCAbbrev == [t \in MCTargets |-> Ids \cap {t}]

ClientSymmetry == Permutations(Clients)
IdSymmetry == Permutations(Ids)
=============================================================================
