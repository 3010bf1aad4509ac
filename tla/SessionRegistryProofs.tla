------------------------ MODULE SessionRegistryProofs ------------------------
(***************************************************************************)
(* What the registry promises for every set of ids, names and targets:     *)
(* its two maps agree (IndexConsistent), a target designates at most one   *)
(* live session (ResolvesToOneLive) and does not slide from one to another *)
(* by itself (TargetStable).                                               *)
(*                                                                         *)
(* RegistryInv is inductive: the index can be kept in step by looking at   *)
(* the session's own name only because both maps agreed before.            *)
(***************************************************************************)
EXTENDS SessionRegistry, TLAPS

RegistryInv == RegistryTypeOK /\ IndexConsistent

(* A new session under a free name, or none, keeps the maps in step. *)
LEMMA InsertKeepsInv ==
    ASSUME RegistryAssumption, RegistryInv,
           NEW i \in Ids \ sessions, NEW n \in Names \cup {NoName},
           ~IsName(n), Insert(i, n)
    PROVE  RegistryInv'
<1> USE DEF RegistryAssumption, RegistryInv, RegistryTypeOK, IndexConsistent,
            Insert, IsName, HasName
<1>1. RegistryTypeOK'
  OBVIOUS
<1>2. \A m \in Names, j \in Ids :
          name_index'[m] = j <=> (j \in sessions' /\ name'[j] = m)
  OBVIOUS
<1>3. \A j \in Ids \ sessions' : name'[j] = NoName
  OBVIOUS
<1>4. QED
  BY <1>1, <1>2, <1>3

(* Taking a session out takes its name, and no other, out of the index. *)
LEMMA RemoveKeepsInv ==
    ASSUME RegistryAssumption, RegistryInv, NEW i \in sessions, Remove(i)
    PROVE  RegistryInv'
<1> USE DEF RegistryAssumption, RegistryInv, RegistryTypeOK, IndexConsistent, Remove
<1>1. RegistryTypeOK'
  OBVIOUS
<1>2. \A m \in Names, j \in Ids :
          name_index'[m] = j <=> (j \in sessions' /\ name'[j] = m)
  OBVIOUS
<1>3. \A j \in Ids \ sessions' : name'[j] = NoName
  OBVIOUS
<1>4. QED
  BY <1>1, <1>2, <1>3

(* A rename moves one entry of the index. *)
LEMMA RenameKeepsInv ==
    ASSUME RegistryAssumption, RegistryInv,
           NEW t \in Targets, NEW n \in Names, Rename(t, n)
    PROVE  RegistryInv'
<1> USE DEF RegistryAssumption, RegistryInv, RegistryTypeOK, IndexConsistent
<1>1. PICK i \in sessions : /\ name_index' = Reindex(name[i], n, i)
                            /\ name' = [name EXCEPT ![i] = n]
  BY DEF Rename
<1>2. ~HasName(n) /\ sessions' = sessions
  BY DEF Rename
<1>3. RegistryTypeOK'
  BY <1>1, <1>2 DEF Reindex
<1>4. \A m \in Names, j \in Ids :
          name_index'[m] = j <=> (j \in sessions' /\ name'[j] = m)
  BY <1>1, <1>2 DEF Reindex, HasName
<1>5. \A j \in Ids \ sessions' : name'[j] = NoName
  BY <1>1, <1>2
<1>6. QED
  BY <1>3, <1>4, <1>5

LEMMA RegistryInitInv == RegistryAssumption /\ RegistryInit => RegistryInv
  BY DEF RegistryAssumption, RegistryInit, RegistryInv, RegistryTypeOK, IndexConsistent

LEMMA RegistryStepKeepsInv ==
    ASSUME RegistryAssumption, RegistryInv, [RegistryNext]_registryVars
    PROVE  RegistryInv'
<1>1. CASE InsertNew
  <2>1. PICK i \in Ids \ sessions, n \in {NoName} \cup {m \in Names : ~HasName(m)} :
            Insert(i, n)
    BY <1>1 DEF InsertNew
  <2>2. n \in Names \cup {NoName} /\ ~IsName(n)
    BY <2>1 DEF IsName, RegistryAssumption
  <2>3. QED
    BY <2>1, <2>2, InsertKeepsInv
<1>2. CASE RemoveTarget
  BY <1>2, RemoveKeepsInv DEF RemoveTarget
<1>3. CASE RenameTarget
  BY <1>3, RenameKeepsInv DEF RenameTarget
<1>4. CASE UNCHANGED registryVars
  BY <1>4 DEF registryVars, RegistryInv, RegistryTypeOK, IndexConsistent
<1>5. QED
  BY <1>1, <1>2, <1>3, <1>4 DEF RegistryNext

(* The two maps of the registry agree in every reachable state: insert,    *)
(* remove and rename (registry.rs) keep the name index in step with the    *)
(* names the sessions carry.                                               *)
THEOREM RegistryInvariant == RegistrySpec => [](RegistryTypeOK /\ IndexConsistent)
<1>1. RegistryInit => RegistryInv
  BY RegistryInitInv, RegistryAssumption
<1>2. RegistryInv /\ [RegistryNext]_registryVars => RegistryInv'
  BY RegistryStepKeepsInv, RegistryAssumption
<1>3. QED
  BY <1>1, <1>2, PTL DEF RegistrySpec, RegistryInv

(* What resolve answers is one id, of a session that is in the registry. *)
LEMMA InvResolvesToOneLive ==
    ASSUME RegistryAssumption, RegistryInv
    PROVE  ResolvesToOneLive
<1> SUFFICES ASSUME NEW t \in Targets, NEW i \in Ids, NEW j \in Ids,
                    Resolves(t, i), Resolves(t, j)
             PROVE  i = j /\ i \in sessions
  BY DEF ResolvesToOneLive
<1>1. CASE IsName(t)
  BY <1>1 DEF Resolves, IsName, RegistryInv, IndexConsistent
<1>2. CASE ~IsName(t) /\ t \in sessions
  BY <1>2 DEF Resolves
<1>3. CASE ~IsName(t) /\ t \notin sessions
  BY <1>3 DEF Resolves, Abbreviated
<1>4. QED
  BY <1>1, <1>2, <1>3

(* A target designates at most one session, and a live one: what kill,     *)
(* attach and send act on (resolve, registry.rs).                          *)
THEOREM RegistryResolvesToOneLive == RegistrySpec => []ResolvesToOneLive
<1>1. RegistryInv => ResolvesToOneLive
  BY InvResolvesToOneLive, RegistryAssumption
<1>2. QED
  BY <1>1, RegistryInvariant, PTL DEF RegistryInv

-----------------------------------------------------------------------------

(* What TargetStable says of one step. *)
Slides(t, i, j) ==
    \/ i \notin sessions'
    \/ name'[j] = t /\ name[j] # t
    \/ name[i] = t /\ name'[i] # t

LEMMA InsertStable ==
    ASSUME RegistryAssumption, RegistryInv,
           NEW k \in Ids \ sessions, NEW n \in Names \cup {NoName},
           ~IsName(n), Insert(k, n),
           NEW t \in Targets, NEW i \in Ids, NEW j \in Ids,
           Resolves(t, i), Resolves(t, j)', i # j
    PROVE  Slides(t, i, j)
<1> USE DEF RegistryAssumption, RegistryInv, RegistryTypeOK, IndexConsistent,
            Insert, IsName, HasName
<1>1. CASE t = n /\ n \in Names
  BY <1>1 DEF Resolves, Slides
<1>2. CASE ~(t = n /\ n \in Names) /\ IsName(t)
  BY <1>2 DEF Resolves
<1>3. CASE ~(t = n /\ n \in Names) /\ ~IsName(t)
  <2>1. ~IsName(t)'
    BY <1>3
  <2>2. CASE t \in sessions
    BY <2>1, <2>2, <1>3 DEF Resolves
  <2>3. CASE t \notin sessions
    BY <2>1, <2>3, <1>3 DEF Resolves, Abbreviated
  <2>4. QED
    BY <2>2, <2>3
<1>4. QED
  BY <1>1, <1>2, <1>3

LEMMA RemoveStable ==
    ASSUME RegistryAssumption, RegistryInv, NEW k \in sessions, Remove(k),
           NEW t \in Targets, NEW i \in Ids, NEW j \in Ids,
           Resolves(t, i), Resolves(t, j)', i # j
    PROVE  Slides(t, i, j)
<1> USE DEF RegistryAssumption, RegistryInv, RegistryTypeOK, IndexConsistent, Remove
<1>1. CASE IsName(t)
  BY <1>1 DEF Resolves, Slides, IsName, HasName
<1>2. CASE ~IsName(t)
  <2>1. ~IsName(t)'
    BY <1>2 DEF IsName, HasName
  <2>2. CASE t \in sessions
    BY <2>1, <2>2, <1>2 DEF Resolves, Slides
  <2>3. CASE t \notin sessions
    BY <2>1, <2>3, <1>2 DEF Resolves, Abbreviated
  <2>4. QED
    BY <2>2, <2>3
<1>3. QED
  BY <1>1, <1>2

LEMMA RenameStable ==
    ASSUME RegistryAssumption, RegistryInv,
           NEW u \in Targets, NEW n \in Names, Rename(u, n),
           NEW t \in Targets, NEW i \in Ids, NEW j \in Ids,
           Resolves(t, i), Resolves(t, j)', i # j
    PROVE  Slides(t, i, j)
<1> USE DEF RegistryAssumption, RegistryInv, RegistryTypeOK, IndexConsistent
<1>1. PICK k \in sessions : /\ name_index' = Reindex(name[k], n, k)
                            /\ name' = [name EXCEPT ![k] = n]
  BY DEF Rename
<1>2. ~HasName(n) /\ sessions' = sessions
  BY DEF Rename
<1>3. CASE t = n
  BY <1>1, <1>2, <1>3 DEF Resolves, IsName, HasName, Reindex, Slides
<1>4. CASE t # n /\ IsName(t)
  BY <1>1, <1>2, <1>4 DEF Resolves, IsName, HasName, Reindex, Slides
<1>5. CASE t # n /\ ~IsName(t)
  <2>1. ~IsName(t)'
    BY <1>1, <1>5 DEF IsName, HasName, Reindex
  <2>2. QED
    BY <2>1, <1>2, <1>5 DEF Resolves, Abbreviated
<1>6. QED
  BY <1>3, <1>4, <1>5

(* What TargetStable says of every target. *)
Stable == \A t \in Targets, i, j \in Ids :
              Resolves(t, i) /\ Resolves(t, j)' /\ i # j => Slides(t, i, j)

LEMMA RegistryStepStable ==
    ASSUME RegistryAssumption, RegistryInv, RegistryNext
    PROVE  Stable
<1> SUFFICES ASSUME NEW t \in Targets, NEW i \in Ids, NEW j \in Ids,
                    Resolves(t, i), Resolves(t, j)', i # j
             PROVE  Slides(t, i, j)
  BY DEF Stable
<1>1. CASE InsertNew
  <2>1. PICK k \in Ids \ sessions, n \in {NoName} \cup {m \in Names : ~HasName(m)} :
            Insert(k, n)
    BY <1>1 DEF InsertNew
  <2>2. n \in Names \cup {NoName} /\ ~IsName(n)
    BY <2>1 DEF IsName, RegistryAssumption
  <2>3. QED
    BY <2>1, <2>2, InsertStable
<1>2. CASE RemoveTarget
  BY <1>2, RemoveStable DEF RemoveTarget
<1>3. CASE RenameTarget
  BY <1>3, RenameStable DEF RenameTarget
<1>4. QED
  BY <1>1, <1>2, <1>3 DEF RegistryNext

(* From one command to the next a target does not slide from a live        *)
(* session to another unless a name was given or taken: resolve depends on *)
(* nothing else that insert, remove and rename change.                     *)
THEOREM RegistryTargetStable == RegistrySpec => TargetStable
<1>1. RegistryInv /\ [RegistryNext]_registryVars => [Stable]_registryVars
  BY RegistryStepStable, RegistryAssumption
<1>2. [][Stable]_registryVars => TargetStable
  BY DEF TargetStable, Stable, Slides
<1>3. QED
  BY <1>1, <1>2, RegistryInvariant, PTL DEF RegistrySpec, RegistryInv

==============================================================================
