--------------------------- MODULE SessionRegistry ---------------------------
(***************************************************************************)
(* The daemon's session registry (src/src/daemon/registry.rs): the map     *)
(* from session ids to sessions, and the index from names to ids that is   *)
(* kept beside it.  Everything a user types to designate a session (kill,  *)
(* attach, send, ...) goes through resolve, so the two maps must agree.    *)
(*                                                                         *)
(* This module is also the abstract specification of the registry: the     *)
(* daemon (SnagDaemon) extends it and is shown to implement RegistrySpec.  *)
(***************************************************************************)

CONSTANTS
    Ids,        \* session ids: 8 random bytes, in hex
    Names,      \* valid session names (validate_session_name)
    Targets,    \* what a user may type to designate a session
    Abbrev,     \* Abbrev[t]: the ids that t, of 3 characters or more, starts
                \* (ids have one length: an id starts no other id)
    NoId,       \* None : Option<SessionId>
    NoName      \* None : Option<String>

ASSUME RegistryAssumption ==
    /\ NoId \notin Ids
    /\ NoName \notin Names
    /\ Abbrev \in [Targets -> SUBSET Ids]
    /\ \A t \in Targets \cap Ids : Abbrev[t] \subseteq {t}

VARIABLES
    sessions,   \* the keys of SessionRegistry.sessions
    name,       \* Session.name of each session, NoName for the other ids
    name_index  \* SessionRegistry.name_index, NoId for the names it lacks

registryVars == <<sessions, name, name_index>>

RegistryTypeOK ==
    /\ sessions \subseteq Ids
    /\ name \in [Ids -> Names \cup {NoName}]
    /\ name_index \in [Names -> Ids \cup {NoId}]

RegistryInit ==
    /\ sessions = {}
    /\ name = [i \in Ids |-> NoName]
    /\ name_index = [n \in Names |-> NoId]

-----------------------------------------------------------------------------

HasName(n) == name_index[n] # NoId

IsName(t) == t \in Names /\ HasName(t)

Abbreviated(t) == Abbrev[t] \cap sessions

(* Mutant: the first of several matching ids answers an ambiguous prefix. *)
ResolvesFirstMatch(t, i) ==
    \/ IsName(t) /\ i = name_index[t]
    \/ ~IsName(t) /\ t \in sessions /\ i = t
    \/ /\ ~IsName(t) /\ t \notin sessions /\ Abbreviated(t) # {}
       /\ i = CHOOSE j \in Abbreviated(t) : TRUE

(* resolve(t) = Ok(i): a name first, then a whole id, then a prefix that   *)
(* only one session has.  No i resolves t when resolve returns an error.   *)
Resolves(t, i) ==
    \/ IsName(t) /\ i = name_index[t]
    \/ ~IsName(t) /\ t \in sessions /\ i = t
    \/ ~IsName(t) /\ t \notin sessions /\ Abbreviated(t) = {i}

(* Mutant: the session is indexed even when it has no name. *)
InsertIndexesNone(i, n) ==
    /\ sessions' = sessions \cup {i}
    /\ name' = [name EXCEPT ![i] = n]
    /\ name_index' = [m \in Names \cup {n} |-> IF m = n THEN i ELSE name_index[m]]

(* insert indexes the name without looking at what the index holds: its    *)
(* callers test has_name first.                                            *)
Insert(i, n) ==
    /\ sessions' = sessions \cup {i}
    /\ name' = [name EXCEPT ![i] = n]
    /\ name_index' = [m \in Names |-> IF m = n THEN i ELSE name_index[m]]

(* Mutant: the name of a removed session stays in the index. *)
RemoveKeepsName(i) ==
    /\ sessions' = sessions \ {i}
    /\ name' = [name EXCEPT ![i] = NoName]
    /\ UNCHANGED name_index

Remove(i) ==
    /\ sessions' = sessions \ {i}
    /\ name' = [name EXCEPT ![i] = NoName]
    /\ name_index' = [m \in Names |-> IF m = name[i] THEN NoId ELSE name_index[m]]

(* Mutant: rename leaves the old name in the index. *)
ReindexKeepsOld(old, n, i) == [m \in Names |-> IF m = n THEN i ELSE name_index[m]]

Reindex(old, n, i) ==
    [m \in Names |-> IF m = n THEN i ELSE IF m = old THEN NoId ELSE name_index[m]]

Rename(t, n) ==
    /\ ~HasName(n)
    /\ \E i \in sessions :
          /\ Resolves(t, i)
          /\ name_index' = Reindex(name[i], n, i)
          /\ name' = [name EXCEPT ![i] = n]
    /\ UNCHANGED sessions

InsertNew ==
    \E i \in Ids \ sessions, n \in {NoName} \cup {m \in Names : ~HasName(m)} :
        Insert(i, n)

RemoveTarget == \E t \in Targets, i \in sessions : Resolves(t, i) /\ Remove(i)

RenameTarget == \E t \in Targets, n \in Names : Rename(t, n)

RegistryNext == InsertNew \/ RemoveTarget \/ RenameTarget

RegistrySpec == RegistryInit /\ [][RegistryNext]_registryVars

-----------------------------------------------------------------------------

(* The name index and the sessions' own names say the same thing: a name   *)
(* is indexed to i exactly when the live session i carries it.  insert,    *)
(* remove and rename each update both maps by hand; a name left behind     *)
(* would answer "already in use" for ever, or designate a dead session.    *)
IndexConsistent ==
    /\ \A n \in Names, i \in Ids :
          name_index[n] = i <=> (i \in sessions /\ name[i] = n)
    /\ \A i \in Ids \ sessions : name[i] = NoName

(* What a target designates is one live session: resolve never answers an  *)
(* id that is gone, nor two ids for the same target.                       *)
ResolvesToOneLive ==
    \A t \in Targets, i, j \in Ids :
        Resolves(t, i) /\ Resolves(t, j) => i = j /\ i \in sessions

(* Between two commands a target never slides from a live session to       *)
(* another one by itself: it does only when somebody gave the other        *)
(* session that very name, or took the name away from the first.  A script *)
(* that kills what it inspected relies on it.  (Registering a session      *)
(* whose id shares the prefix makes the prefix ambiguous, an error.)       *)
TargetStable ==
    [][\A t \in Targets, i, j \in Ids :
          Resolves(t, i) /\ Resolves(t, j)' /\ i # j =>
              \/ i \notin sessions'
              \/ name'[j] = t /\ name[j] # t
              \/ name[i] = t /\ name'[i] # t]_registryVars

==============================================================================
