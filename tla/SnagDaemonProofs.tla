-------------------------- MODULE SnagDaemonProofs --------------------------
(***************************************************************************)
(* What holds of the daemon for every set of ids, clients, terminals and   *)
(* names: its types; that it implements the registry's specification, so   *)
(* that the theorems of SessionRegistryProofs hold of it too; who is       *)
(* attached where (from ViewersInv); and the sessions and the shells       *)
(* behind them (from LifeInv).                                             *)
(***************************************************************************)
EXTENDS SnagDaemon, SessionRegistryProofs

LEMMA InitType == Init => DaemonTypeOK
<1> SUFFICES ASSUME Init PROVE DaemonTypeOK
  OBVIOUS
<1> USE DEF Init, Ttys
<1>1. RegistryTypeOK
  BY DEF RegistryInit, RegistryTypeOK
<1>2. /\ fresh \subseteq Ids /\ sessions \cap fresh = {}
      /\ state \in [Ids -> Codes \cup {Running}]
      /\ pts \in [Ids -> Ttys]
      /\ attached_clients \in [Ids -> SUBSET Clients]
      /\ captured \subseteq Ids
  BY DEF RegistryInit
<1>3. /\ session_id \in [Clients -> Ids \cup {NoId}]
      /\ read_only \in [Clients -> BOOLEAN]
      /\ last_size \in [Clients -> Sizes \cup {NoSize}]
      /\ peer_tty \in [Clients -> Ttys \cup {Outside}]
      /\ phase \in [Clients -> {"new", "ready", "attached", "following",
                                "leaving", "closing", "gone"}]
      /\ notice \in [Clients -> SUBSET {"stolen", "exited"}]
  OBVIOUS
<1>4. /\ shell \in [Ttys -> {"none", "alive", "zombie", "reaped"}]
      /\ exit_code \in [Ids -> Codes]
      /\ hup \subseteq Ids /\ snagged \subseteq Wrapped
      /\ winsize \in [Ttys -> Sizes \cup {NoSize}]
      /\ sigchld \in BOOLEAN
  BY DaemonAssumption DEF DaemonAssumption
<1>5. /\ reader \in [Ids -> {"none", "reading", "eof", "done"}]
      /\ child_exited \subseteq Ids
      /\ stop_queued \in BOOLEAN /\ grace_deadline \in BOOLEAN
      /\ daemon \in {"running", "terminated", "stopped", "expired"}
  OBVIOUS
<1>6. QED
  BY <1>1, <1>2, <1>3, <1>4, <1>5 DEF DaemonTypeOK

(* The variables a set of dying shells touches keep their types. *)
LEMMA DieType ==
    ASSUME DaemonTypeOK, NEW ys, Die(ys)
    PROVE  /\ shell' \in [Ttys -> {"none", "alive", "zombie", "reaped"}]
           /\ exit_code' \in [Ids -> Codes]
           /\ sigchld' \in BOOLEAN
  BY DEF DaemonTypeOK, Die

LEMMA NotifyType ==
    ASSUME DaemonTypeOK, NEW cs, NEW event \in {"stolen", "exited"}, Notify(cs, event)
    PROVE  notice' \in [Clients -> SUBSET {"stolen", "exited"}]
  BY DEF DaemonTypeOK, Notify

LEMMA InsertType ==
    ASSUME RegistryTypeOK, NEW i \in Ids, NEW n \in Names \cup {NoName}, Insert(i, n)
    PROVE  RegistryTypeOK'
  BY DEF RegistryTypeOK, Insert

LEMMA ForgetType ==
    ASSUME DaemonTypeOK, NEW i \in sessions, Forget(i)
    PROVE  /\ RegistryTypeOK'
           /\ sessions' \subseteq sessions /\ fresh' = fresh
           /\ state' \in [Ids -> Codes \cup {Running}]
           /\ pts' \in [Ids -> Ttys]
           /\ attached_clients' \in [Ids -> SUBSET Clients]
           /\ captured' \subseteq Ids
  BY DEF DaemonTypeOK, RegistryTypeOK, Forget, Remove, Teardown, Ttys

(* The steps of one client keep the types. *)
LEMMA ClientStepType ==
    ASSUME DaemonTypeOK, NEW c \in Clients, ClientStep(c)
    PROVE  DaemonTypeOK'
<1> USE DaemonAssumption
    DEF DaemonTypeOK, RegistryTypeOK, Receives, AfterMessage, Ttys, registryVars,
        sessionVars, clientVars, processVars, eventVars, daemonVars
<1>1. CASE Connect(c)
  BY <1>1 DEF Connect
<1>2. CASE Close(c) \/ Quit(c)
  BY <1>2 DEF Close, Quit
<1>3. CASE ClientDisconnected(c)
  BY <1>3 DEF ClientDisconnected, Usr2, Die, AttachedWithout, DaemonAssumption
<1>4. CASE Query(c) \/ DaemonStop(c)
  BY <1>4 DEF Query, DaemonStop
<1>5. CASE SessionDetach(c)
  BY <1>5 DEF SessionDetach, Usr2, Die, AttachedWithout, SizedOthers, DaemonAssumption
<1>6. ASSUME NEW size \in Sizes, Resize(c, size)
      PROVE  DaemonTypeOK'
  BY <1>6 DEF Resize
<1>7. ASSUME NEW i \in Ids, NEW n \in Names \cup {NoName}, SessionNew(c, i, n)
      PROVE  DaemonTypeOK'
  BY <1>7, InsertType DEF SessionNew, Insert
<1>8. ASSUME NEW i \in Ids, NEW n \in Names \cup {NoName}, SessionRegister(c, i, n)
      PROVE  DaemonTypeOK'
  BY <1>8, InsertType DEF SessionRegister, Insert
<1>9. ASSUME NEW t \in Targets, SessionKill(c, t)
      PROVE  DaemonTypeOK'
  BY <1>9, ForgetType DEF SessionKill
<1>10. ASSUME NEW t \in Targets, SessionUnregister(c, t)
       PROVE  DaemonTypeOK'
  BY <1>10, ForgetType DEF SessionUnregister
<1>11. ASSUME NEW i \in sessions, NEW ro \in BOOLEAN, NEW cs \in SUBSET Clients,
              Attach(c, i, ro, cs)
       PROVE  DaemonTypeOK'
  BY <1>11, NotifyType DEF Attach, Holders, Usr1, Die, DaemonAssumption, RegistryTypeOK
<1>12. ASSUME NEW t \in Targets, SessionSteal(c, t)
       PROVE  DaemonTypeOK'
  <2>1. PICK i \in sessions : \E w \in Writers(i) : Attach(c, i, FALSE, {w})
    BY <1>12 DEF SessionSteal
  <2>2. PICK w \in Writers(i) : Attach(c, i, FALSE, {w})
    BY <2>1
  <2>3. {w} \in SUBSET Clients
    BY <2>2 DEF Writers
  <2>4. QED
    BY <1>11, <2>2, <2>3
<1>13. ASSUME NEW t \in Targets, Follow(c, t)
       PROVE  DaemonTypeOK'
  BY <1>13 DEF Follow, RegistryTypeOK
<1>14. ASSUME NEW t \in Targets, NEW ro \in BOOLEAN, SessionAttach(c, t, ro)
       PROVE  DaemonTypeOK'
  BY <1>11, <1>14 DEF SessionAttach
<1>15. ASSUME NEW t \in Targets, NEW n \in Names, SessionRename(c, t, n)
       PROVE  DaemonTypeOK'
  BY <1>15 DEF SessionRename, Rename, Reindex, RegistryTypeOK
<1> HIDE DEF DaemonTypeOK
<1>16. QED
  BY <1>1, <1>2, <1>3, <1>4, <1>5, <1>6, <1>7, <1>8, <1>9, <1>10, <1>12, <1>13,
     <1>14, <1>15 DEF ClientStep

(* So do the daemon's own steps, *)
LEMMA DaemonStepType ==
    ASSUME DaemonTypeOK, DaemonStep
    PROVE  DaemonTypeOK'
<1> USE DEF DaemonTypeOK, Ttys, registryVars, RegistryTypeOK,
            sessionVars, clientVars, processVars, eventVars, daemonVars
<1>1. CASE SigChld
  <2>1. PICK reaper \in [Reapable -> sessions] :
            /\ \A y \in Reapable : pts[reaper[y]] = y
            /\ state' = StateReaped(reaper)
            /\ child_exited' = child_exited \cup {reaper[y] : y \in Reapable}
    BY <1>1 DEF SigChld
  <2>2. state' \in [Ids -> Codes \cup {Running}]
    <3> SUFFICES ASSUME NEW i \in Ids, \E y \in DOMAIN reaper : reaper[y] = i
                 PROVE  exit_code[pts[i]] \in Codes
      BY <2>1 DEF StateReaped
    <3>1. QED
      BY <2>1 DEF Reapable
  <2>3. child_exited' \subseteq Ids
    BY <2>1
  <2>4. shell' \in [Ttys -> {"none", "alive", "zombie", "reaped"}]
    BY <1>1 DEF SigChld
  <2>5. QED
    BY <1>1, <2>2, <2>3, <2>4 DEF SigChld
<1>2. ASSUME NEW how \in {"terminated", "stopped", "expired"}, Exit(how),
             captured' \subseteq captured
      PROVE  DaemonTypeOK'
  BY <1>2 DEF Exit
<1>3. CASE Shutdown \/ SigTerm \/ GraceExpire
  BY <1>2, <1>3 DEF Shutdown, SigTerm, GraceExpire
<1>4. ASSUME NEW i \in Ids, PtyEofSend(i)
      PROVE  DaemonTypeOK'
  BY <1>4 DEF PtyEofSend
<1>5. ASSUME NEW i \in Ids, NEW code \in Codes, SessionExited(i, code),
             reader' \in [Ids -> {"none", "reading", "eof", "done"}],
             child_exited' \subseteq Ids
      PROVE  DaemonTypeOK'
  BY <1>5, NotifyType DEF SessionExited
<1>6. ASSUME NEW i \in Ids, PtyEof(i)
      PROVE  DaemonTypeOK'
  BY <1>5, <1>6, DaemonAssumption DEF PtyEof, DaemonAssumption
<1>7. ASSUME NEW i \in Ids, ChildExited(i)
      PROVE  DaemonTypeOK'
  BY <1>5, <1>7, DaemonAssumption DEF ChildExited, DaemonAssumption
<1>8. QED
  BY <1>1, <1>3, <1>4, <1>6, <1>7 DEF DaemonStep

(* and with the exits of the shells, every step does. *)
LEMMA NextType ==
    ASSUME DaemonTypeOK, [Next]_vars
    PROVE  DaemonTypeOK'
<1>1. ASSUME NEW y \in Ttys, ShellExit(y)
      PROVE  DaemonTypeOK'
  BY <1>1, DieType DEF ShellExit, DaemonTypeOK, RegistryTypeOK, registryVars,
     sessionVars, clientVars, eventVars, daemonVars
<1>2. CASE UNCHANGED vars
  BY <1>2 DEF vars, DaemonTypeOK, RegistryTypeOK, registryVars, sessionVars,
     clientVars, processVars, eventVars, daemonVars
<1>3. QED
  BY <1>1, <1>2, ClientStepType, DaemonStepType DEF Next

(* The state of the daemon, its clients and their shells is well formed in *)
(* every reachable state; no id is both registered and still to be drawn.  *)
THEOREM DaemonTypeCorrect == Spec => []DaemonTypeOK
  BY InitType, NextType, PTL DEF Spec

-----------------------------------------------------------------------------
(* The daemon implements the registry. *)

(* A handler that inserts has drawn an id that no session has, and has     *)
(* found the name free.                                                    *)
LEMMA InsertImplements ==
    ASSUME DaemonTypeOK, NEW i \in fresh, NEW n \in Names \cup {NoName},
           ~IsName(n), Insert(i, n)
    PROVE  InsertNew
<1>1. i \in Ids \ sessions
  BY DEF DaemonTypeOK
<1>2. n \in {NoName} \cup {m \in Names : ~HasName(m)}
  BY DEF IsName
<1>3. QED
  BY <1>1, <1>2 DEF InsertNew

(* One handler, at most one operation of the registry. *)
LEMMA ClientStepImplements ==
    ASSUME DaemonTypeOK, NEW c \in Clients, ClientStep(c)
    PROVE  [RegistryNext]_registryVars
<1> USE DEF registryVars
<1>1. CASE Connect(c) \/ Close(c) \/ Quit(c) \/ ClientDisconnected(c)
  BY <1>1 DEF Connect, Close, Quit, ClientDisconnected
<1>2. CASE Query(c) \/ SessionDetach(c) \/ DaemonStop(c)
  BY <1>2 DEF Query, SessionDetach, DaemonStop
<1>3. ASSUME NEW size \in Sizes, Resize(c, size)
      PROVE  UNCHANGED registryVars
  BY <1>3 DEF Resize
<1>4. ASSUME NEW i \in Ids, NEW n \in Names \cup {NoName},
             SessionNew(c, i, n) \/ SessionRegister(c, i, n)
      PROVE  InsertNew
  BY <1>4, InsertImplements DEF SessionNew, SessionRegister
<1>5. ASSUME NEW t \in Targets, SessionKill(c, t) \/ SessionUnregister(c, t)
      PROVE  RemoveTarget
  BY <1>5 DEF SessionKill, SessionUnregister, Forget, RemoveTarget
<1>6. ASSUME NEW t \in Targets, SessionSteal(c, t) \/ Follow(c, t)
      PROVE  UNCHANGED registryVars
  BY <1>6 DEF SessionSteal, Follow, Attach
<1>7. ASSUME NEW t \in Targets, NEW ro \in BOOLEAN, SessionAttach(c, t, ro)
      PROVE  UNCHANGED registryVars
  BY <1>7 DEF SessionAttach, Attach
<1>8. ASSUME NEW t \in Targets, NEW n \in Names, SessionRename(c, t, n)
      PROVE  RenameTarget
  BY <1>8 DEF SessionRename, RenameTarget
<1> HIDE DEF registryVars
<1>9. QED
  BY <1>1, <1>2, <1>3, <1>4, <1>5, <1>6, <1>7, <1>8 DEF ClientStep, RegistryNext

LEMMA NextImplements ==
    ASSUME DaemonTypeOK, [Next]_vars
    PROVE  [RegistryNext]_registryVars
<1>1. ASSUME NEW y \in Ttys, ShellExit(y)
      PROVE  UNCHANGED registryVars
  BY <1>1 DEF ShellExit, registryVars
<1>2. CASE DaemonStep
  BY <1>2 DEF DaemonStep, SigChld, Shutdown, SigTerm, GraceExpire, Exit, PtyEofSend,
     PtyEof, ChildExited, SessionExited, registryVars
<1>3. CASE UNCHANGED vars
  BY <1>3 DEF vars
<1>4. QED
  BY <1>1, <1>2, <1>3, ClientStepImplements DEF Next

(* Whatever the handlers, the exits and the timers do, the registry sees   *)
(* only its own operations, on ids that are free and names that are free:  *)
(* the daemon implements RegistrySpec.                                     *)
THEOREM DaemonImplementsRegistry == Spec => RegistrySpec
<1>1. Init => RegistryInit
  BY DEF Init
<1>2. DaemonTypeOK /\ [Next]_vars => [RegistryNext]_registryVars
  BY NextImplements
<1>3. QED
  BY <1>1, <1>2, DaemonTypeCorrect, PTL DEF Spec, RegistrySpec

(* Hence, in the running daemon, the name index agrees with the sessions,  *)
THEOREM DaemonIndexConsistent == Spec => []IndexConsistent
  BY DaemonImplementsRegistry, RegistryInvariant, PTL

(* a target designates one live session,                                   *)
THEOREM DaemonResolvesToOneLive == Spec => []ResolvesToOneLive
  BY DaemonImplementsRegistry, RegistryResolvesToOneLive, PTL

(* and keeps doing so from one command to the next.                        *)
THEOREM DaemonTargetStable == Spec => TargetStable
  BY DaemonImplementsRegistry, RegistryTargetStable, PTL

-----------------------------------------------------------------------------
(***************************************************************************)
(* Who is attached where, for every number of clients and sessions: the    *)
(* sessions' lists and the clients' own records agree, at most one client  *)
(* types into a session, and what a client is told is true.                *)
(*                                                                         *)
(* ViewersInv is inductive.  Two facts carry the rest: the session a       *)
(* client last attached to is never one that is yet to be created, so that *)
(* a record left behind by a kill cannot meet a session again; and a       *)
(* client that was told something is past its only attach.                 *)
(***************************************************************************)
RecordsOld == \A c \in Clients : session_id[c] \notin fresh

ToldAfterAttach ==
    \A c \in Clients : notice[c] # {} => phase[c] \notin {"new", "ready"}

ViewersInv ==
    /\ AttachConsistent
    /\ OneTypist
    /\ NoticeTruthful
    /\ RecordsOld
    /\ ToldAfterAttach

LEMMA InitViewers == Init => ViewersInv
  BY RegistryAssumption DEF Init, RegistryInit, ViewersInv, AttachConsistent, OneTypist,
     NoticeTruthful, RecordsOld, ToldAfterAttach, CanType, RegistryAssumption

(* A step that leaves the attach lists, the clients and the set of         *)
(* sessions alone, and makes no exited session run again.                  *)
LEMMA FrameViewers ==
    ASSUME ViewersInv, UNCHANGED <<sessions, attached_clients, session_id, read_only>>,
           fresh' = fresh,
           \A c \in Clients : notice'[c] = notice[c],
           \A c \in Clients : phase[c] # phase'[c] =>
               \/ phase[c] = "new"
               \/ phase'[c] \in {"leaving", "closing"},
           \A i \in sessions : Exited(i) => Exited(i)'
    PROVE  ViewersInv'
  BY DEF ViewersInv, AttachConsistent, OneTypist, NoticeTruthful, RecordsOld,
     ToldAfterAttach, CanType, Exited

(* A client that leaves is taken off the one list it was on. *)
LEMMA LeaveViewers ==
    ASSUME DaemonTypeOK, ViewersInv, NEW c \in Clients,
           phase[c] \in {"leaving", "closing"},
           attached_clients' = AttachedWithout(c),
           session_id' = [session_id EXCEPT ![c] = NoId],
           phase'[c] \in {"closing", "gone"},
           notice'[c] \subseteq notice[c],
           \A d \in Clients \ {c} : /\ phase'[d] = phase[d] /\ notice'[d] = notice[d]
                                  /\ read_only'[d] = read_only[d],
           UNCHANGED <<sessions, state, fresh>>
    PROVE  ViewersInv'
<1> USE RegistryAssumption
    DEF DaemonTypeOK, ViewersInv, RegistryTypeOK, RegistryAssumption
<1>1. AttachConsistent'
  BY DEF AttachConsistent, AttachedWithout
<1>2. OneTypist'
  BY DEF OneTypist, CanType
<1>3. NoticeTruthful'
  BY DEF NoticeTruthful, Exited
<1>4. RecordsOld' /\ ToldAfterAttach'
  BY DEF RecordsOld, ToldAfterAttach
<1>5. QED
  BY <1>1, <1>2, <1>3, <1>4

(* A client that is ready is on no list, has no record and was told        *)
(* nothing.                                                                *)
LEMMA ReadyUnattached ==
    ASSUME ViewersInv, NEW c \in Clients, phase[c] = "ready"
    PROVE  session_id[c] = NoId /\ notice[c] = {}
  BY DEF ViewersInv, AttachConsistent, ToldAfterAttach

(* An attach joins one list, and the evicted writers leave it with their   *)
(* records.                                                                *)
LEMMA AttachViewers ==
    ASSUME DaemonTypeOK, ViewersInv, NEW c \in Clients, phase[c] = "ready",
           NEW i \in sessions, NEW ro \in BOOLEAN, NEW cs \in SUBSET attached_clients[i],
           ro \/ Writers(i) \subseteq cs,
           Attach(c, i, ro, cs)
    PROVE  ViewersInv'
<1> USE RegistryAssumption DEF RegistryAssumption, DaemonTypeOK, RegistryTypeOK, registryVars
<1>1. session_id[c] = NoId /\ notice[c] = {}
  BY ReadyUnattached
<1>2. /\ UNCHANGED <<sessions, fresh, state>>
      /\ attached_clients' = [attached_clients EXCEPT ![i] = (@ \ cs) \cup {c}]
      /\ session_id' = [x \in Clients |-> IF x = c THEN i
                                         ELSE IF x \in cs THEN NoId ELSE session_id[x]]
      /\ read_only' = [read_only EXCEPT ![c] = ro]
      /\ phase' = [phase EXCEPT ![c] = "attached"]
  BY DEF Attach, Holders
<1>3. \A d \in Clients : notice'[d] = notice[d] \/ (d \in cs /\ notice'[d] = notice[d] \cup {"stolen"})
  BY DEF Attach, Notify
<1>4. c \notin cs /\ \A d \in cs : session_id[d] = i
  BY <1>1 DEF ViewersInv, AttachConsistent
<1>5. AttachConsistent'
  BY <1>1, <1>2, <1>4 DEF ViewersInv, AttachConsistent
<1>6. OneTypist'
  BY <1>2, <1>4 DEF ViewersInv, AttachConsistent, OneTypist, CanType, Writers
<1>7. NoticeTruthful'
  BY <1>1, <1>2, <1>3, <1>4 DEF ViewersInv, NoticeTruthful, Exited
<1>8. RecordsOld'
  BY <1>2 DEF ViewersInv, RecordsOld
<1>9. ToldAfterAttach'
  <2>1. \A d \in cs : d \in Clients /\ phase[d] \notin {"new", "ready"}
    BY <1>4 DEF ViewersInv, AttachConsistent
  <2>2. QED
    BY <1>2, <1>3, <2>1 DEF ViewersInv, ToldAfterAttach
<1>10. QED
  BY <1>5, <1>6, <1>7, <1>8, <1>9 DEF ViewersInv

(* A follower joins one list and types nothing. *)
LEMMA FollowViewers ==
    ASSUME DaemonTypeOK, ViewersInv, NEW c \in Clients, NEW t \in Targets, Follow(c, t)
    PROVE  ViewersInv'
<1> USE RegistryAssumption DEF RegistryAssumption, DaemonTypeOK, RegistryTypeOK, registryVars
<1>1. session_id[c] = NoId /\ notice[c] = {}
  BY ReadyUnattached DEF Follow, Receives
<1>2. PICK i \in sessions :
          /\ attached_clients' = [attached_clients EXCEPT ![i] = @ \cup {c}]
          /\ session_id' = [session_id EXCEPT ![c] = i]
  BY DEF Follow
<1>3. /\ UNCHANGED <<sessions, fresh, state, notice>>
      /\ read_only' = [read_only EXCEPT ![c] = TRUE]
      /\ phase' = [phase EXCEPT ![c] = "following"]
  BY DEF Follow
<1>4. AttachConsistent'
  BY <1>1, <1>2, <1>3 DEF ViewersInv, AttachConsistent
<1>5. OneTypist'
  BY <1>2, <1>3 DEF ViewersInv, OneTypist, CanType
<1>6. NoticeTruthful' /\ RecordsOld' /\ ToldAfterAttach'
  BY <1>1, <1>2, <1>3 DEF ViewersInv, NoticeTruthful, RecordsOld, ToldAfterAttach, Exited
<1>7. QED
  BY <1>4, <1>5, <1>6 DEF ViewersInv

(* A removed session takes its list with it. *)
LEMMA ForgetViewers ==
    ASSUME DaemonTypeOK, ViewersInv, NEW i \in sessions, Forget(i),
           UNCHANGED <<session_id, read_only, phase, notice>>
    PROVE  ViewersInv'
<1> USE DEF DaemonTypeOK, RegistryTypeOK
<1>1. /\ sessions' = sessions \ {i} /\ UNCHANGED fresh
      /\ state' = [state EXCEPT ![i] = Running]
      /\ attached_clients' = [attached_clients EXCEPT ![i] = {}]
  BY DEF Forget, Remove
<1>2. AttachConsistent' /\ RecordsOld' /\ ToldAfterAttach'
  BY <1>1 DEF ViewersInv, AttachConsistent, RecordsOld, ToldAfterAttach
<1>3. OneTypist' /\ NoticeTruthful'
  BY <1>1 DEF ViewersInv, OneTypist, CanType, NoticeTruthful, Exited
<1>4. QED
  BY <1>2, <1>3 DEF ViewersInv

(* Nobody is attached to a session that did not exist. *)
LEMMA InsertViewers ==
    ASSUME DaemonTypeOK, ViewersInv, NEW i \in fresh, NEW n, Insert(i, n),
           fresh' = fresh \ {i},
           UNCHANGED <<attached_clients, session_id, read_only, phase, notice, state>>
    PROVE  ViewersInv'
<1> USE DEF DaemonTypeOK, RegistryTypeOK
<1>1. sessions' = sessions \cup {i} /\ i \notin sessions /\ i \in Ids
  BY DEF Insert
<1>2. \A c \in Clients : session_id[c] # i
  BY DEF ViewersInv, RecordsOld
<1>3. AttachConsistent' /\ RecordsOld' /\ ToldAfterAttach'
  BY <1>1, <1>2 DEF ViewersInv, AttachConsistent, RecordsOld, ToldAfterAttach
<1>4. OneTypist' /\ NoticeTruthful'
  BY <1>1, <1>2 DEF ViewersInv, OneTypist, CanType, NoticeTruthful, Exited
<1>5. QED
  BY <1>3, <1>4 DEF ViewersInv

LEMMA ClientStepViewers ==
    ASSUME DaemonTypeOK, ViewersInv, NEW c \in Clients, ClientStep(c)
    PROVE  ViewersInv'
<1> USE DEF registryVars, sessionVars, clientVars
<1>1. CASE Connect(c) \/ Close(c) \/ Quit(c)
  BY <1>1, FrameViewers DEF Connect, Close, Quit, Receives, DaemonTypeOK, Exited
<1>2. CASE ClientDisconnected(c)
  BY <1>2, LeaveViewers DEF ClientDisconnected, Receives, DaemonTypeOK
<1>3. CASE SessionDetach(c)
  BY <1>3, LeaveViewers DEF SessionDetach, Receives, DaemonTypeOK
<1>4. CASE Query(c) \/ DaemonStop(c)
  BY <1>4, FrameViewers DEF Query, DaemonStop, Exited
<1>5. ASSUME NEW size \in Sizes, Resize(c, size)
      PROVE  ViewersInv'
  BY <1>5, FrameViewers DEF Resize, Exited
<1>6. ASSUME NEW i \in Ids, NEW n \in Names \cup {NoName}, SessionNew(c, i, n)
      PROVE  ViewersInv'
  BY <1>6, InsertViewers DEF SessionNew
<1>7. ASSUME NEW i \in Ids, NEW n \in Names \cup {NoName}, SessionRegister(c, i, n)
      PROVE  ViewersInv'
  BY <1>7, InsertViewers DEF SessionRegister
<1>8. ASSUME NEW t \in Targets, SessionKill(c, t) \/ SessionUnregister(c, t)
      PROVE  ViewersInv'
  BY <1>8, ForgetViewers DEF SessionKill, SessionUnregister
<1>9. ASSUME NEW t \in Targets, SessionSteal(c, t)
      PROVE  ViewersInv'
  <2>1. PICK i \in sessions : \E w \in Writers(i) : Attach(c, i, FALSE, {w})
    BY <1>9 DEF SessionSteal
  <2>2. PICK w \in Writers(i) : Attach(c, i, FALSE, {w})
    BY <2>1
  <2>3. Writers(i) \subseteq {w}
    BY <2>2 DEF ViewersInv, OneTypist, CanType, Writers, AttachConsistent,
       DaemonTypeOK, RegistryTypeOK
  <2>4. {w} \in SUBSET attached_clients[i]
    BY <2>2 DEF Writers
  <2>5. phase[c] = "ready"
    BY <1>9 DEF SessionSteal, Receives
  <2>6. QED
    BY <2>2, <2>3, <2>4, <2>5, AttachViewers
<1>10. ASSUME NEW t \in Targets, NEW ro \in BOOLEAN, SessionAttach(c, t, ro)
       PROVE  ViewersInv'
  <2>1. PICK i \in sessions : /\ ro \/ Writers(i) = {}
                              /\ Attach(c, i, ro, {})
    BY <1>10 DEF SessionAttach
  <2>2. phase[c] = "ready"
    BY <1>10 DEF SessionAttach, Receives
  <2>3. QED
    BY <2>1, <2>2, AttachViewers
<1>11. ASSUME NEW t \in Targets, Follow(c, t)
       PROVE  ViewersInv'
  BY <1>11, FollowViewers
<1>12. ASSUME NEW t \in Targets, NEW n \in Names, SessionRename(c, t, n)
       PROVE  ViewersInv'
  BY <1>12, FrameViewers DEF SessionRename, Rename, Exited
<1> HIDE DEF registryVars, sessionVars, clientVars
<1>13. QED
  BY <1>1, <1>2, <1>3, <1>4, <1>5, <1>6, <1>7, <1>8, <1>9, <1>10, <1>11, <1>12
     DEF ClientStep

LEMMA DaemonStepViewers ==
    ASSUME DaemonTypeOK, ViewersInv, DaemonStep
    PROVE  ViewersInv'
<1> USE RegistryAssumption, DaemonAssumption
    DEF registryVars, sessionVars, clientVars, DaemonTypeOK, RegistryTypeOK,
        RegistryAssumption, DaemonAssumption
<1>1. CASE SigChld
  <2>1. PICK reaper \in [Reapable -> sessions] :
            /\ \A y \in Reapable : pts[reaper[y]] = y
            /\ state' = StateReaped(reaper)
    BY <1>1 DEF SigChld
  <2>2. \A i \in sessions : Exited(i) => Exited(i)'
    BY <2>1 DEF StateReaped, Exited, Reapable
  <2>3. QED
    BY <1>1, <2>2, FrameViewers DEF SigChld
<1>2. ASSUME NEW how, Exit(how)
      PROVE  ViewersInv'
  BY <1>2 DEF Exit, ViewersInv, AttachConsistent, OneTypist, CanType, NoticeTruthful,
     RecordsOld, ToldAfterAttach
<1>3. CASE Shutdown \/ SigTerm \/ GraceExpire
  BY <1>2, <1>3 DEF Shutdown, SigTerm, GraceExpire
<1>4. ASSUME NEW i \in Ids, PtyEofSend(i)
      PROVE  ViewersInv'
  BY <1>4, FrameViewers DEF PtyEofSend, Exited
<1>5. ASSUME NEW i \in Ids, NEW code \in Codes, SessionExited(i, code)
      PROVE  ViewersInv'
  <2>1. /\ UNCHANGED <<sessions, fresh, attached_clients, session_id, read_only, phase>>
        /\ state' = [state EXCEPT ![i] = IF i \in sessions THEN code ELSE @]
    BY <1>5 DEF SessionExited
  <2>2. \A d \in Clients :
            \/ notice'[d] = notice[d]
            \/ d \in attached_clients[i] /\ notice'[d] = notice[d] \cup {"exited"}
    BY <1>5 DEF SessionExited, Notify
  <2>3. AttachConsistent' /\ OneTypist' /\ RecordsOld'
    BY <2>1 DEF ViewersInv, AttachConsistent, OneTypist, CanType, RecordsOld
  <2>4. \A d \in attached_clients[i] :
            d \in Clients /\ session_id[d] = i /\ i \in sessions
                          /\ phase[d] \notin {"new", "ready"}
    BY DEF ViewersInv, AttachConsistent
  <2>5. NoticeTruthful'
    BY <2>1, <2>2, <2>4 DEF ViewersInv, NoticeTruthful, Exited
  <2>6. ToldAfterAttach'
    BY <2>1, <2>2, <2>4 DEF ViewersInv, ToldAfterAttach
  <2>7. QED
    BY <2>3, <2>5, <2>6 DEF ViewersInv
<1>6. ASSUME NEW i \in Ids, PtyEof(i) \/ ChildExited(i)
      PROVE  ViewersInv'
  BY <1>5, <1>6 DEF PtyEof, ChildExited
<1>7. QED
  BY <1>1, <1>3, <1>4, <1>6 DEF DaemonStep

LEMMA NextViewers ==
    ASSUME DaemonTypeOK, ViewersInv, [Next]_vars
    PROVE  ViewersInv'
<1>1. ASSUME NEW y \in Ttys, ShellExit(y)
      PROVE  ViewersInv'
  BY <1>1, FrameViewers DEF ShellExit, registryVars, sessionVars, clientVars, Exited
<1>2. CASE UNCHANGED vars
  BY <1>2, FrameViewers DEF vars, registryVars, sessionVars, clientVars, Exited
<1>3. QED
  BY <1>1, <1>2, ClientStepViewers, DaemonStepViewers DEF Next

(* The inductive invariant the theorems below are parts of: the two sides  *)
(* of every attachment (server.rs 573-689) and what the clients were told. *)
THEOREM ViewersInvariant == Spec => []ViewersInv
  BY InitViewers, NextViewers, DaemonTypeCorrect, PTL DEF Spec

(* The session's list, which gets the output, and the client's record,     *)
(* which its input goes by, agree after any mix of attach, steal, follow,  *)
(* detach, disconnect, kill and exit.                                      *)
THEOREM DaemonAttachConsistent == Spec => []AttachConsistent
  BY ViewersInvariant, PTL DEF ViewersInv

(* At most one client's input reaches a session.                           *)
THEOREM DaemonOneTypist == Spec => []OneTypist
  BY ViewersInvariant, PTL DEF ViewersInv

(* A client is told "stolen" only when its input goes nowhere, and         *)
(* "exited" only of a session that has.                                    *)
THEOREM DaemonNoticeTruthful == Spec => []NoticeTruthful
  BY ViewersInvariant, PTL DEF ViewersInv

-----------------------------------------------------------------------------

(* What NoSilentEviction says of one step. *)
EvictsAloud ==
    \A i \in sessions \cap sessions' :
        \A c \in attached_clients[i] \ attached_clients'[i] :
            \/ phase[c] \in {"leaving", "closing"}
            \/ "stolen" \in notice'[c] \/ c \in Slow
            \/ daemon' # "running"

(* An attach takes off a list only the writers it notifies. *)
LEMMA AttachEvictsAloud ==
    ASSUME DaemonTypeOK, NEW c \in Clients, NEW i \in sessions, NEW ro,
           NEW cs \in SUBSET attached_clients[i], Attach(c, i, ro, cs)
    PROVE  EvictsAloud
  BY DEF DaemonTypeOK, RegistryTypeOK, Attach, Notify, EvictsAloud

LEMMA StepEvictsAloud ==
    ASSUME DaemonTypeOK, Next
    PROVE  EvictsAloud
<1> USE DEF DaemonTypeOK, RegistryTypeOK, sessionVars
<1>1. CASE UNCHANGED attached_clients
  BY <1>1 DEF EvictsAloud
<1>2. ASSUME NEW i \in sessions, Forget(i)
      PROVE  EvictsAloud
  BY <1>2 DEF Forget, Remove, EvictsAloud
<1>3. ASSUME NEW c \in Clients, SessionDetach(c) \/ ClientDisconnected(c)
      PROVE  EvictsAloud
  BY <1>3 DEF SessionDetach, ClientDisconnected, Receives, AttachedWithout, EvictsAloud
<1>4. ASSUME NEW c \in Clients, NEW t \in Targets,
             SessionKill(c, t) \/ SessionUnregister(c, t)
      PROVE  EvictsAloud
  BY <1>2, <1>4 DEF SessionKill, SessionUnregister
<1>5. ASSUME NEW c \in Clients, NEW t \in Targets, Follow(c, t)
      PROVE  EvictsAloud
  BY <1>5 DEF Follow, EvictsAloud
<1>6. ASSUME NEW c \in Clients, NEW t \in Targets, NEW ro \in BOOLEAN,
             SessionAttach(c, t, ro)
      PROVE  EvictsAloud
  BY <1>6, AttachEvictsAloud DEF SessionAttach
<1>7. ASSUME NEW c \in Clients, NEW t \in Targets, SessionSteal(c, t)
      PROVE  EvictsAloud
  BY <1>7, AttachEvictsAloud DEF SessionSteal, Writers
<1>8. CASE Shutdown \/ SigTerm \/ GraceExpire
  BY <1>8 DEF Shutdown, SigTerm, GraceExpire, Exit, EvictsAloud
<1>9. ASSUME NEW c \in Clients,
             \/ Connect(c) \/ Close(c) \/ Quit(c) \/ Query(c) \/ DaemonStop(c)
             \/ \E size \in Sizes : Resize(c, size)
             \/ \E i \in Ids, n \in Names \cup {NoName} :
                   SessionNew(c, i, n) \/ SessionRegister(c, i, n)
             \/ \E t \in Targets, n \in Names : SessionRename(c, t, n)
      PROVE  EvictsAloud
  BY <1>1, <1>9 DEF Connect, Close, Quit, Query, DaemonStop, Resize, SessionNew,
     SessionRegister, SessionRename
<1>10. ASSUME NEW y \in Ttys, ShellExit(y)
       PROVE  EvictsAloud
  BY <1>1, <1>10 DEF ShellExit
<1>11. ASSUME SigChld \/ \E i \in Ids : PtyEofSend(i) \/ PtyEof(i) \/ ChildExited(i)
       PROVE  EvictsAloud
  BY <1>1, <1>11 DEF SigChld, PtyEofSend, PtyEof, ChildExited, SessionExited
<1> HIDE DEF DaemonTypeOK, RegistryTypeOK, sessionVars
<1>12. ASSUME NEW c \in Clients, ClientStep(c)
       PROVE  EvictsAloud
  BY <1>3, <1>4, <1>5, <1>6, <1>7, <1>9, <1>12 DEF ClientStep
<1>13. QED
  BY <1>8, <1>10, <1>11, <1>12 DEF Next, DaemonStep

(* A client that loses its attachment to a session that lives on was       *)
(* leaving by itself, or is told, unless its channel is full or the daemon *)
(* ends.                                                                   *)
THEOREM DaemonNoSilentEviction == Spec => NoSilentEviction
<1>1. DaemonTypeOK /\ [Next]_vars => [EvictsAloud]_vars
  BY StepEvictsAloud
<1>2. [][EvictsAloud]_vars => NoSilentEviction
  BY DEF NoSilentEviction, EvictsAloud
<1>3. QED
  BY <1>1, <1>2, DaemonTypeCorrect, PTL DEF Spec

-----------------------------------------------------------------------------
(* The assumption under which nobody is attached to the session of his own *)
(* terminal: SessionRegister does not look for a session that already has  *)
(* it, and of two the search for loops sees only one.                      *)
OneSessionPerTerminal == \A i, j \in sessions : pts[i] = pts[j] => i = j

(* A step in which nobody begins to be attached: who is so stays where he  *)
(* is, and what sessions were there stay behind their terminals.           *)
LEMMA FrameNoSelf ==
    ASSUME NoSelfAttach, RecordsOld,
           sessions' \subseteq sessions \cup fresh,
           \A i \in sessions \cap sessions' : pts'[i] = pts[i],
           \A c \in Clients :
               phase'[c] = "attached" /\ session_id'[c] \in sessions' =>
                   /\ phase[c] = "attached"
                   /\ session_id'[c] = session_id[c] /\ peer_tty'[c] = peer_tty[c]
    PROVE  NoSelfAttach'
  BY DEF NoSelfAttach, RecordsOld

(* The walk that looks for loops begins at the session it is to attach to, *)
(* so that it finds the session of the client's own terminal there.        *)
LEMMA OwnTerminalIsLoop ==
    ASSUME OneSessionPerTerminal, NEW c \in Clients, NEW i \in sessions,
           pts[i] = peer_tty[c], NEW f \in FindByPts
    PROVE  LoopFound(f, c, i)
<1>1. peer_tty[c] \in DOMAIN f /\ f[peer_tty[c]] \in sessions
      /\ pts[f[peer_tty[c]]] = peer_tty[c]
  BY DEF FindByPts
<1>2. f[peer_tty[c]] = i
  BY <1>1 DEF OneSessionPerTerminal
<1>3. QED
  BY <1>1, <1>2 DEF LoopFound

LEMMA AttachNoSelf ==
    ASSUME DaemonTypeOK, ViewersInv, OneSessionPerTerminal, NoSelfAttach,
           NEW c \in Clients, NEW i \in sessions, NEW ro, NEW cs \in SUBSET attached_clients[i],
           MayAttach(c, i), Attach(c, i, ro, cs)
    PROVE  NoSelfAttach'
<1>1. pts[i] # peer_tty[c]
  BY OwnTerminalIsLoop DEF MayAttach
<1>2. /\ UNCHANGED <<sessions, pts, peer_tty>>
      /\ session_id' = [x \in Clients |-> IF x = c THEN i
                                         ELSE IF x \in cs THEN NoId ELSE session_id[x]]
      /\ phase' = [phase EXCEPT ![c] = "attached"]
  BY DEF Attach, Holders, registryVars
<1>3. NoId \notin sessions
  BY RegistryAssumption DEF RegistryAssumption, DaemonTypeOK, RegistryTypeOK
<1>4. ASSUME NEW d \in Clients, phase'[d] = "attached", session_id'[d] \in sessions'
      PROVE  pts'[session_id'[d]] # peer_tty'[d]
  <2>1. CASE d = c
    BY <1>1, <1>2, <2>1
  <2>2. CASE d # c
    <3>1. phase[d] = "attached" /\ session_id'[d] = session_id[d]
      BY <1>2, <1>3, <1>4, <2>2 DEF DaemonTypeOK
    <3>2. QED
      BY <1>2, <1>4, <3>1 DEF NoSelfAttach
  <2>3. QED
    BY <2>1, <2>2
<1>5. QED
  BY <1>4 DEF NoSelfAttach

LEMMA StepNoSelf ==
    ASSUME DaemonTypeOK, ViewersInv, OneSessionPerTerminal, NoSelfAttach, [Next]_vars
    PROVE  NoSelfAttach'
<1> USE RegistryAssumption
    DEF RegistryAssumption, DaemonTypeOK, RegistryTypeOK, registryVars, sessionVars,
        clientVars
<1>1. RecordsOld
  BY DEF ViewersInv
<1>2. CASE UNCHANGED <<sessions, pts, session_id, peer_tty, phase>>
  BY <1>1, <1>2, FrameNoSelf
<1>3. ASSUME NEW c \in Clients, Connect(c) \/ Close(c) \/ Quit(c) \/ ClientDisconnected(c)
      PROVE  NoSelfAttach'
  BY <1>1, <1>3, FrameNoSelf DEF Connect, Close, Quit, ClientDisconnected, Receives
<1>4. ASSUME NEW c \in Clients, SessionDetach(c)
      PROVE  NoSelfAttach'
  BY <1>1, <1>4, FrameNoSelf DEF SessionDetach, Receives
<1>5. ASSUME NEW c \in Clients, NEW i \in Ids, NEW n \in Names \cup {NoName},
             SessionNew(c, i, n) \/ SessionRegister(c, i, n)
      PROVE  NoSelfAttach'
  <2>1. /\ UNCHANGED <<session_id, peer_tty, phase>>
        /\ i \in fresh /\ sessions' = sessions \cup {i} /\ i \notin sessions
        /\ \A k \in sessions : pts'[k] = pts[k]
    BY <1>5 DEF SessionNew, SessionRegister, Insert
  <2>2. QED
    BY <1>1, <2>1, FrameNoSelf
<1>6. ASSUME NEW c \in Clients, NEW t \in Targets, SessionKill(c, t) \/ SessionUnregister(c, t)
      PROVE  NoSelfAttach'
  <2>1. PICK i \in sessions : Forget(i)
    BY <1>6 DEF SessionKill, SessionUnregister
  <2>2. sessions' = sessions \ {i} /\ \A k \in sessions' : pts'[k] = pts[k]
    BY <2>1 DEF Forget, Remove
  <2>3. UNCHANGED <<session_id, peer_tty, phase>>
    BY <1>6 DEF SessionKill, SessionUnregister
  <2>4. QED
    BY <1>1, <2>2, <2>3, FrameNoSelf
<1>7. ASSUME NEW c \in Clients, NEW t \in Targets, NEW ro \in BOOLEAN, SessionAttach(c, t, ro)
      PROVE  NoSelfAttach'
  BY <1>7, AttachNoSelf DEF SessionAttach
<1>8. ASSUME NEW c \in Clients, NEW t \in Targets, SessionSteal(c, t)
      PROVE  NoSelfAttach'
  BY <1>8, AttachNoSelf DEF SessionSteal, Writers
<1>9. ASSUME NEW c \in Clients, NEW t \in Targets, Follow(c, t)
      PROVE  NoSelfAttach'
  <2>1. /\ UNCHANGED <<sessions, pts, peer_tty>>
        /\ phase' = [phase EXCEPT ![c] = "following"]
        /\ \A d \in Clients \ {c} : session_id'[d] = session_id[d]
    BY <1>9 DEF Follow
  <2>2. QED
    BY <1>1, <2>1, FrameNoSelf
<1>10. CASE Shutdown \/ SigTerm \/ GraceExpire
  <2>1. UNCHANGED <<sessions, pts>> /\ phase' = [c \in Clients |-> "gone"]
    BY <1>10 DEF Shutdown, SigTerm, GraceExpire, Exit
  <2>2. QED
    BY <1>1, <2>1, FrameNoSelf
<1>11. ASSUME NEW c \in Clients,
              \/ Query(c) \/ DaemonStop(c)
              \/ \E size \in Sizes : Resize(c, size)
              \/ \E t \in Targets, n \in Names : SessionRename(c, t, n)
       PROVE  NoSelfAttach'
  BY <1>2, <1>11 DEF Query, DaemonStop, Resize, SessionRename, Rename
<1>12. ASSUME \/ \E y \in Ttys : ShellExit(y)
              \/ SigChld
              \/ \E i \in Ids : PtyEofSend(i) \/ PtyEof(i) \/ ChildExited(i)
       PROVE  NoSelfAttach'
  BY <1>2, <1>12 DEF ShellExit, SigChld, PtyEofSend, PtyEof, ChildExited, SessionExited
<1>13. CASE UNCHANGED vars
  BY <1>2, <1>13 DEF vars
<1> HIDE DEF DaemonTypeOK, RegistryTypeOK, registryVars, sessionVars, clientVars
<1>14. ASSUME NEW c \in Clients, ClientStep(c)
       PROVE  NoSelfAttach'
  BY <1>3, <1>4, <1>5, <1>6, <1>7, <1>8, <1>9, <1>11, <1>14 DEF ClientStep
<1>15. QED
  BY <1>10, <1>12, <1>13, <1>14 DEF Next, DaemonStep

(* As long as no terminal was registered twice, nobody is attached to the  *)
(* session that runs in his own terminal: find_by_pts then has one answer, *)
(* with which detect_attach_cycle (server.rs 1189-1239) meets the target.  *)
THEOREM DaemonNoSelfAttach == Spec /\ []OneSessionPerTerminal => []NoSelfAttach
<1>1. Init => NoSelfAttach
  BY DEF Init, NoSelfAttach
<1>2. DaemonTypeOK /\ ViewersInv /\ OneSessionPerTerminal /\ NoSelfAttach /\ [Next]_vars
        => NoSelfAttach'
  BY StepNoSelf
<1>3. QED
  BY <1>1, <1>2, DaemonTypeCorrect, ViewersInvariant, PTL DEF Spec

-----------------------------------------------------------------------------
(***************************************************************************)
(* Sessions and the shells behind them, for every number of sessions and   *)
(* terminals: no live shell is listed as exited, the grace timer runs only *)
(* when every shell has ended, none is abandoned, and the capture files    *)
(* belong to registered sessions.                                          *)
(*                                                                         *)
(* LifeInv is inductive.  That an exit may be recorded late rests on what  *)
(* is queued staying true until it is handled (EofsTrue, ExitsTrue), which *)
(* holds because a terminal never gets a second shell: an id that is still *)
(* to be drawn has left no trace anywhere (UnbornClean).                   *)
(***************************************************************************)
AbsentBlank == \A i \in Ids \ sessions : state[i] = Running /\ pts[i] = i

UnbornClean ==
    \A i \in fresh :
        /\ shell[i] = "none" /\ reader[i] = "none" /\ i \notin child_exited
        /\ \A k \in sessions : pts[k] # i

(* An adopted session has no reader and no child of its own. *)
AdoptedBare ==
    \A i \in sessions : Registered(i) => reader[i] = "none" /\ shell[i] = "none"

EofsTrue ==
    \A i \in sessions : reader[i] \in {"eof", "done"} => ~Alive(i)

ExitsTrue == \A i \in sessions \cap child_exited : ~Alive(pts[i])

Records == AbsentBlank /\ UnbornClean /\ AdoptedBare /\ EofsTrue /\ ExitsTrue

LifeInv ==
    /\ Records
    /\ ExitedIsDead
    /\ GraceOnlyWhenIdle
    /\ NoAbandonedShell
    /\ CapturesOwned

LEMMA InitLife == Init => LifeInv
<1> SUFFICES ASSUME Init PROVE LifeInv
  OBVIOUS
<1> USE DaemonAssumption DEF DaemonAssumption, Init, RegistryInit, Ttys, Alive
<1>1. Records
  BY DEF Records, AbsentBlank, UnbornClean, AdoptedBare, EofsTrue, ExitsTrue
<1>2. ExitedIsDead /\ GraceOnlyWhenIdle /\ NoAbandonedShell /\ CapturesOwned
  BY DEF ExitedIsDead, GraceOnlyWhenIdle, NoAbandonedShell, CapturesOwned
<1>3. QED
  BY <1>1, <1>2 DEF LifeInv

(* Shells that die come to life nowhere, and where there was none, none    *)
(* dies.                                                                   *)
LEMMA DieEnds ==
    ASSUME DaemonTypeOK, NEW ys, \A y \in ys : Alive(y), Die(ys)
    PROVE  /\ \A y \in Ttys : Alive(y)' => Alive(y)
           /\ \A y \in Ttys : shell[y] = "none" => shell'[y] = "none"
  BY DEF DaemonTypeOK, Die, Alive

(* A step that leaves the sessions and the queues alone and gives life to  *)
(* no shell.                                                               *)
LEMMA FrameLife ==
    ASSUME DaemonTypeOK, LifeInv,
           UNCHANGED <<sessions, fresh, state, pts, captured, hup, reader,
                       child_exited, daemon>>,
           grace_deadline' => grace_deadline,
           \A y \in Ttys : Alive(y)' => Alive(y),
           \A y \in Ttys : shell[y] = "none" => shell'[y] = "none"
    PROVE  LifeInv'
<1> USE DEF DaemonTypeOK, RegistryTypeOK, LifeInv, Records, Ttys
<1>1. AbsentBlank' /\ UnbornClean' /\ AdoptedBare'
  BY DEF AbsentBlank, UnbornClean, AdoptedBare, Registered
<1>2. EofsTrue' /\ ExitsTrue'
  BY DEF EofsTrue, ExitsTrue
<1>3. ExitedIsDead' /\ GraceOnlyWhenIdle'
  BY DEF ExitedIsDead, GraceOnlyWhenIdle, Exited
<1>4. NoAbandonedShell' /\ CapturesOwned'
  BY DEF NoAbandonedShell, CapturesOwned, Registered
<1>5. QED
  BY <1>1, <1>2, <1>3, <1>4

(* The same, when the shells and the timer do not change at all. *)
LEMMA QuietLife ==
    ASSUME DaemonTypeOK, LifeInv,
           UNCHANGED <<sessions, fresh, state, pts, captured, hup, reader,
                       child_exited, daemon, shell>>,
           grace_deadline' => grace_deadline
    PROVE  LifeInv'
  BY FrameLife DEF Alive

(* A spawned session starts with a shell that no other session has. *)
LEMMA NewLife ==
    ASSUME DaemonTypeOK, LifeInv, NEW c, NEW i \in Ids, NEW n, SessionNew(c, i, n)
    PROVE  LifeInv'
<1> USE DEF DaemonTypeOK, RegistryTypeOK, LifeInv, Records, Ttys
<1>1. /\ i \in fresh /\ i \notin sessions /\ sessions' = sessions \cup {i}
      /\ fresh' = fresh \ {i}
      /\ shell' = [shell EXCEPT ![i] = "alive"]
      /\ reader' = [reader EXCEPT ![i] = "reading"]
      /\ daemon = "running" /\ daemon' = daemon
      /\ UNCHANGED <<state, pts, captured, hup, child_exited>>
      /\ ~grace_deadline'
  BY DEF SessionNew, Insert, Receives, AfterMessage
<1>2. state[i] = Running /\ pts[i] = i /\ i \notin child_exited
  BY <1>1 DEF AbsentBlank, UnbornClean
<1>3. \A k \in sessions : pts[k] # i
  BY <1>1 DEF UnbornClean
<1>4. AbsentBlank' /\ UnbornClean' /\ AdoptedBare'
  BY <1>1, <1>2, <1>3 DEF AbsentBlank, UnbornClean, AdoptedBare, Registered
<1>5. EofsTrue' /\ ExitsTrue'
  BY <1>1, <1>2, <1>3 DEF EofsTrue, ExitsTrue, Alive
<1>6. ExitedIsDead'
  BY <1>1, <1>2, <1>3 DEF ExitedIsDead, Exited, Alive
<1>7. GraceOnlyWhenIdle'
  BY <1>1 DEF GraceOnlyWhenIdle
<1>8. NoAbandonedShell' /\ CapturesOwned'
  BY <1>1, <1>2 DEF NoAbandonedShell, CapturesOwned, Registered, Alive
<1>9. QED
  BY <1>4, <1>5, <1>6, <1>7, <1>8

(* An adopted session takes a live terminal, which is not its own id's. *)
LEMMA RegisterLife ==
    ASSUME DaemonTypeOK, LifeInv, NEW c \in Clients, NEW i \in Ids, NEW n,
           SessionRegister(c, i, n)
    PROVE  LifeInv'
<1> DEFINE y == peer_tty[c]
<1> USE DaemonAssumption
    DEF DaemonTypeOK, RegistryTypeOK, LifeInv, Records, Ttys, DaemonAssumption
<1>1. /\ i \in fresh /\ i \notin sessions /\ sessions' = sessions \cup {i}
      /\ fresh' = fresh \ {i}
      /\ pts' = [pts EXCEPT ![i] = y]
      /\ captured' \in {captured, captured \cup {i}}
      /\ daemon = "running" /\ daemon' = daemon
      /\ UNCHANGED <<state, shell, hup, reader, child_exited>>
      /\ ~grace_deadline'
  BY DEF SessionRegister, Insert, Receives, AfterMessage, processVars, eventVars
<1>2. y \in Ttys /\ Alive(y)
  BY DEF SessionRegister
<1>3. y # i /\ y \notin fresh
  BY <1>1, <1>2 DEF UnbornClean, Alive
<1>4. state[i] = Running /\ shell[i] = "none" /\ reader[i] = "none" /\ i \notin child_exited
  BY <1>1 DEF AbsentBlank, UnbornClean
<1>5. AbsentBlank' /\ UnbornClean'
  BY <1>1, <1>3 DEF AbsentBlank, UnbornClean
<1>6. AdoptedBare' /\ EofsTrue' /\ ExitsTrue'
  BY <1>1, <1>4 DEF AdoptedBare, EofsTrue, ExitsTrue, Registered, Alive
<1>7. ExitedIsDead' /\ GraceOnlyWhenIdle'
  BY <1>1, <1>4 DEF ExitedIsDead, GraceOnlyWhenIdle, Exited, Alive
<1>8. NoAbandonedShell' /\ CapturesOwned'
  BY <1>1, <1>3, <1>4 DEF NoAbandonedShell, CapturesOwned, Registered, Alive
<1>9. QED
  BY <1>5, <1>6, <1>7, <1>8

(* A removed session leaves no shell behind that was not hung up: it was   *)
(* spawned and is hung up now, or it was adopted and had none of its own.  *)
LEMMA ForgetLife ==
    ASSUME DaemonTypeOK, LifeInv, NEW i \in sessions, Forget(i),
           daemon = "running",
           UNCHANGED <<shell, reader, child_exited, daemon>>,
           hup' = (IF Registered(i) THEN hup ELSE hup \cup {i}),
           grace_deadline' => grace_deadline
    PROVE  LifeInv'
<1> USE DEF DaemonTypeOK, RegistryTypeOK, LifeInv, Records, Ttys
<1>1. /\ sessions' = sessions \ {i} /\ fresh' = fresh
      /\ state' = [state EXCEPT ![i] = Running]
      /\ pts' = [pts EXCEPT ![i] = i]
      /\ captured' = captured \ {i}
  BY DEF Forget, Remove, Teardown
<1>2. AbsentBlank' /\ UnbornClean' /\ AdoptedBare'
  BY <1>1 DEF AbsentBlank, UnbornClean, AdoptedBare, Registered
<1>3. EofsTrue' /\ ExitsTrue'
  BY <1>1 DEF EofsTrue, ExitsTrue, Alive
<1>4. ExitedIsDead' /\ GraceOnlyWhenIdle'
  BY <1>1 DEF ExitedIsDead, GraceOnlyWhenIdle, Exited, Alive
<1>5. NoAbandonedShell'
  BY <1>1 DEF NoAbandonedShell, AdoptedBare, Alive
<1>6. CapturesOwned'
  BY <1>1 DEF CapturesOwned, Registered
<1>7. QED
  BY <1>2, <1>3, <1>4, <1>5, <1>6

(* Waiting for children finds shells that have ended. *)
LEMMA SigChldLife ==
    ASSUME DaemonTypeOK, LifeInv, SigChld
    PROVE  LifeInv'
<1> USE DEF DaemonTypeOK, RegistryTypeOK, LifeInv, Records, Ttys
<1>1. PICK reaper \in [Reapable -> sessions] :
          /\ \A y \in Reapable : pts[reaper[y]] = y
          /\ state' = StateReaped(reaper)
          /\ child_exited' = child_exited \cup {reaper[y] : y \in Reapable}
  BY DEF SigChld
<1>2. /\ shell' = [y \in Ttys |-> IF y \in Reapable THEN "reaped" ELSE shell[y]]
      /\ daemon = "running"
      /\ UNCHANGED <<sessions, fresh, pts, captured, hup, reader, daemon, grace_deadline>>
  BY DEF SigChld, registryVars, daemonVars
<1>3. \A y \in Reapable : y \in Ids /\ shell[y] = "zombie"
  BY DEF Reapable
<1>4. \A y \in Ttys : Alive(y)' <=> Alive(y)
  BY <1>2, <1>3 DEF Alive
<1>5. \A i \in sessions : state'[i] = state[i] \/ ~Alive(pts[i])
  BY <1>1, <1>3 DEF StateReaped, Alive
<1>6. \A i \in Ids \ sessions : state'[i] = state[i]
  BY <1>1 DEF StateReaped
<1>7. AbsentBlank' /\ UnbornClean' /\ AdoptedBare'
  <2>1. AbsentBlank'
    BY <1>2, <1>6 DEF AbsentBlank
  <2>2. \A i \in fresh : i \notin child_exited' /\ shell'[i] = "none"
    BY <1>1, <1>2, <1>3 DEF UnbornClean
  <2>3. \A i \in Ids : shell[i] = "none" => shell'[i] = "none"
    BY <1>2, <1>3
  <2>4. UnbornClean'
    BY <1>2, <2>2 DEF UnbornClean
  <2>5. AdoptedBare'
    BY <1>2, <2>3 DEF AdoptedBare, Registered
  <2>6. QED
    BY <2>1, <2>4, <2>5
<1>8. EofsTrue' /\ ExitsTrue'
  <2>1. EofsTrue'
    BY <1>2, <1>4 DEF EofsTrue
  <2>2. \A y \in Reapable : ~Alive(pts[reaper[y]])
    BY <1>1, <1>3 DEF Alive
  <2>3. \A i \in sessions \cap child_exited' : ~Alive(pts[i])
    BY <1>1, <2>2 DEF ExitsTrue
  <2>4. QED
    BY <1>2, <1>4, <2>1, <2>3 DEF ExitsTrue
<1>9. ExitedIsDead'
  BY <1>2, <1>4, <1>5 DEF ExitedIsDead, Exited
<1>10. GraceOnlyWhenIdle'
  <2>1. \A i \in sessions : Exited(i) => Exited(i)'
    BY <1>1, <1>3, DaemonAssumption DEF StateReaped, Exited, DaemonAssumption
  <2>2. QED
    BY <1>2, <1>4, <2>1 DEF GraceOnlyWhenIdle
<1>11. NoAbandonedShell' /\ CapturesOwned'
  BY <1>2, <1>4 DEF NoAbandonedShell, CapturesOwned, Registered
<1>12. QED
  BY <1>7, <1>8, <1>9, <1>10, <1>11

(* The end of a pty is seen when its shell has ended, or of a session that *)
(* is gone.                                                                *)
LEMMA EofLife ==
    ASSUME DaemonTypeOK, LifeInv, NEW i \in Ids, PtyEofSend(i)
    PROVE  LifeInv'
<1> USE DEF DaemonTypeOK, RegistryTypeOK, LifeInv, Records, Ttys
<1>1. /\ reader' = [reader EXCEPT ![i] = "eof"] /\ reader[i] = "reading"
      /\ i \in sessions => ~Alive(i)
      /\ UNCHANGED <<sessions, fresh, state, pts, captured, hup, shell, child_exited,
                     daemon, grace_deadline>>
  BY DEF PtyEofSend, registryVars, sessionVars, processVars, daemonVars
<1>2. AbsentBlank' /\ UnbornClean' /\ AdoptedBare'
  BY <1>1 DEF AbsentBlank, UnbornClean, AdoptedBare, Registered
<1>3. EofsTrue' /\ ExitsTrue'
  BY <1>1 DEF EofsTrue, ExitsTrue, Alive
<1>4. ExitedIsDead' /\ GraceOnlyWhenIdle' /\ NoAbandonedShell' /\ CapturesOwned'
  BY <1>1 DEF ExitedIsDead, GraceOnlyWhenIdle, NoAbandonedShell, CapturesOwned,
     Exited, Registered, Alive
<1>5. QED
  BY <1>2, <1>3, <1>4

(* An exit that is recorded is that of a shell that has ended, and the     *)
(* timer starts only if that was the last session running.                 *)
LEMMA ExitedLife ==
    ASSUME DaemonTypeOK, LifeInv, NEW i \in Ids, NEW code \in Codes,
           SessionExited(i, code),
           i \in sessions => ~Alive(pts[i]),
           \A k \in Ids : reader'[k] = reader[k] \/ (reader[k] = "eof" /\ reader'[k] = "done"),
           child_exited' \subseteq child_exited
    PROVE  LifeInv'
<1> USE DEF DaemonTypeOK, RegistryTypeOK, LifeInv, Records, Ttys
<1>1. /\ state' = [state EXCEPT ![i] = IF i \in sessions THEN code ELSE @]
      /\ grace_deadline' = (grace_deadline \/ \A j \in sessions : state'[j] # Running)
      /\ daemon = "running"
      /\ UNCHANGED <<sessions, fresh, pts, captured, hup, shell, daemon>>
  BY DEF SessionExited, registryVars, processVars
<1>2. AbsentBlank' /\ UnbornClean' /\ AdoptedBare'
  BY <1>1 DEF AbsentBlank, UnbornClean, AdoptedBare, Registered
<1>3. EofsTrue' /\ ExitsTrue'
  BY <1>1 DEF EofsTrue, ExitsTrue, Alive
<1>4. ExitedIsDead'
  BY <1>1 DEF ExitedIsDead, Exited, Alive
<1>5. GraceOnlyWhenIdle'
  <2>1. CASE grace_deadline
    BY <1>1, <2>1, DaemonAssumption
       DEF GraceOnlyWhenIdle, Exited, Alive, DaemonAssumption
  <2>2. CASE ~grace_deadline
    BY <1>1, <1>4, <2>2 DEF GraceOnlyWhenIdle, ExitedIsDead, Exited
  <2>3. QED
    BY <2>1, <2>2
<1>6. NoAbandonedShell' /\ CapturesOwned'
  BY <1>1 DEF NoAbandonedShell, CapturesOwned, Registered, Alive
<1>7. QED
  BY <1>2, <1>3, <1>4, <1>5, <1>6

(* When the daemon ends every shell it spawned is hung up. *)
LEMMA ExitLife ==
    ASSUME DaemonTypeOK, LifeInv, NEW how, Exit(how),
           how = "expired" => grace_deadline,
           captured' = (IF how = "terminated" THEN captured \ sessions ELSE captured)
    PROVE  LifeInv'
<1> USE DEF DaemonTypeOK, RegistryTypeOK, LifeInv, Records, Ttys
<1>1. /\ daemon = "running" /\ daemon' = how /\ ~grace_deadline'
      /\ hup' = hup \cup {i \in sessions : ~Registered(i)}
      /\ reader' = [i \in Ids |-> "none"] /\ child_exited' = {}
      /\ UNCHANGED <<sessions, fresh, state, pts, shell>>
  BY DEF Exit, registryVars
<1>2. AbsentBlank' /\ UnbornClean' /\ AdoptedBare'
  BY <1>1 DEF AbsentBlank, UnbornClean, AdoptedBare, Registered
<1>3. EofsTrue' /\ ExitsTrue'
  BY <1>1 DEF EofsTrue, ExitsTrue
<1>4. ExitedIsDead' /\ GraceOnlyWhenIdle'
  BY <1>1 DEF ExitedIsDead, GraceOnlyWhenIdle, Exited, Alive
<1>5. NoAbandonedShell'
  BY <1>1 DEF NoAbandonedShell, AdoptedBare, Alive
<1>6. CapturesOwned'
  BY <1>1 DEF CapturesOwned, Registered
<1>7. QED
  BY <1>2, <1>3, <1>4, <1>5, <1>6

(* Signals end the plain shells that are alive. *)
LEMMA UsrEnds ==
    ASSUME DaemonTypeOK, NEW ys, Usr1(ys) \/ Usr2(ys)
    PROVE  /\ \A y \in Ttys : Alive(y)' => Alive(y)
           /\ \A y \in Ttys : shell[y] = "none" => shell'[y] = "none"
<1>1. Die({y \in ys \ Wrapped : Alive(y)})
  BY DEF Usr1, Usr2
<1>2. QED
  BY <1>1, DieEnds

LEMMA AttachLife ==
    ASSUME DaemonTypeOK, LifeInv, NEW c, NEW i, NEW ro, NEW cs, Attach(c, i, ro, cs)
    PROVE  LifeInv'
  BY FrameLife, UsrEnds DEF Attach, AfterMessage, registryVars, eventVars

LEMMA ClientStepLife ==
    ASSUME DaemonTypeOK, LifeInv, NEW c \in Clients, ClientStep(c)
    PROVE  LifeInv'
<1> USE DEF AfterMessage, registryVars, sessionVars, clientVars, processVars, eventVars,
            daemonVars
<1>1. CASE Connect(c) \/ Close(c) \/ Quit(c) \/ Query(c) \/ DaemonStop(c)
  <2>1. CASE Connect(c) \/ Close(c) \/ Quit(c)
    BY <2>1, QuietLife DEF Connect, Close, Quit
  <2>2. CASE Query(c) \/ DaemonStop(c)
    BY <2>2, QuietLife DEF Query, DaemonStop
  <2>3. QED
    BY <1>1, <2>1, <2>2
<1>2. CASE ClientDisconnected(c)
  BY <1>2, FrameLife, UsrEnds DEF ClientDisconnected
<1>3. CASE SessionDetach(c)
  BY <1>3, FrameLife, UsrEnds DEF SessionDetach
<1>4. ASSUME NEW size \in Sizes, Resize(c, size)
      PROVE  LifeInv'
  BY <1>4, QuietLife DEF Resize
<1>5. ASSUME NEW i \in Ids, NEW n \in Names \cup {NoName},
             SessionNew(c, i, n) \/ SessionRegister(c, i, n)
      PROVE  LifeInv'
  BY <1>5, NewLife, RegisterLife
<1>6. ASSUME NEW t \in Targets, SessionKill(c, t)
      PROVE  LifeInv'
  BY <1>6, ForgetLife DEF SessionKill, Receives
<1>7. ASSUME NEW t \in Targets, SessionUnregister(c, t)
      PROVE  LifeInv'
  BY <1>7, ForgetLife DEF SessionUnregister, Receives
<1>8. ASSUME NEW t \in Targets, SessionSteal(c, t)
      PROVE  LifeInv'
  BY <1>8, AttachLife DEF SessionSteal
<1>9. ASSUME NEW t \in Targets, NEW ro \in BOOLEAN, SessionAttach(c, t, ro)
      PROVE  LifeInv'
  BY <1>9, AttachLife DEF SessionAttach
<1>10. ASSUME NEW t \in Targets, Follow(c, t)
       PROVE  LifeInv'
  BY <1>10, QuietLife DEF Follow
<1>11. ASSUME NEW t \in Targets, NEW n \in Names, SessionRename(c, t, n)
       PROVE  LifeInv'
  BY <1>11, QuietLife DEF SessionRename, Rename
<1> HIDE DEF AfterMessage, registryVars, sessionVars, clientVars, processVars, eventVars,
             daemonVars
<1>12. QED
  BY <1>1, <1>2, <1>3, <1>4, <1>5, <1>6, <1>7, <1>8, <1>9, <1>10, <1>11 DEF ClientStep

LEMMA DaemonStepLife ==
    ASSUME DaemonTypeOK, LifeInv, DaemonStep
    PROVE  LifeInv'
<1>1. CASE SigChld
  BY <1>1, SigChldLife
<1>2. CASE Shutdown \/ SigTerm \/ GraceExpire
  BY <1>2, ExitLife DEF Shutdown, SigTerm, GraceExpire
<1>3. ASSUME NEW i \in Ids, PtyEofSend(i)
      PROVE  LifeInv'
  BY <1>3, EofLife
<1>4. ASSUME NEW i \in Ids, PtyEof(i)
      PROVE  LifeInv'
  <2>1. i \in sessions => ~Alive(pts[i])
    <3> SUFFICES ASSUME i \in sessions PROVE ~Alive(pts[i])
      OBVIOUS
    <3>1. reader[i] = "eof"
      BY <1>4 DEF PtyEof
    <3>2. pts[i] = i
      BY <3>1 DEF LifeInv, Records, AdoptedBare, Registered
    <3>3. QED
      BY <3>1, <3>2 DEF LifeInv, Records, EofsTrue
  <2>2. QED
    BY <1>4, <2>1, ExitedLife, DaemonAssumption DEF PtyEof, DaemonTypeOK, DaemonAssumption
<1>5. ASSUME NEW i \in Ids, ChildExited(i)
      PROVE  LifeInv'
  <2>1. i \in sessions => ~Alive(pts[i])
    BY <1>5 DEF ChildExited, LifeInv, Records, ExitsTrue
  <2>2. (IF pts[i] \in Ids THEN exit_code[pts[i]] ELSE Zero) \in Codes
    BY DaemonAssumption DEF DaemonTypeOK, DaemonAssumption
  <2>3. QED
    BY <1>5, <2>1, <2>2, ExitedLife DEF ChildExited
<1>6. QED
  BY <1>1, <1>2, <1>3, <1>4, <1>5 DEF DaemonStep

LEMMA NextLife ==
    ASSUME DaemonTypeOK, LifeInv, [Next]_vars
    PROVE  LifeInv'
<1> USE DEF registryVars, sessionVars, clientVars, processVars, eventVars, daemonVars
<1>1. ASSUME NEW y \in Ttys, ShellExit(y)
      PROVE  LifeInv'
  <2>1. /\ \A z \in Ttys : Alive(z)' => Alive(z)
        /\ \A z \in Ttys : shell[z] = "none" => shell'[z] = "none"
    BY <1>1, DieEnds DEF ShellExit
  <2>2. QED
    BY <1>1, <2>1, FrameLife DEF ShellExit
<1>2. CASE UNCHANGED vars
  BY <1>2, QuietLife DEF vars
<1>3. QED
  BY <1>1, <1>2, ClientStepLife, DaemonStepLife DEF Next

(* The inductive invariant the theorems below are parts of: the states of  *)
(* sessions and shells and the exit events queued (server.rs 169-223).     *)
THEOREM LifeInvariant == Spec => []LifeInv
  BY InitLife, NextLife, DaemonTypeCorrect, PTL DEF Spec

(* A session is listed as exited only when no shell lives behind it,       *)
(* whichever of SIGCHLD and the end of the pty told the daemon, and        *)
(* however late.                                                           *)
THEOREM DaemonExitedIsDead == Spec => []ExitedIsDead
  BY LifeInvariant, PTL DEF LifeInv

(* The grace timer never runs, and the daemon never expires, over a live   *)
(* shell.                                                                  *)
THEOREM DaemonGraceOnlyWhenIdle == Spec => []GraceOnlyWhenIdle
  BY LifeInvariant, PTL DEF LifeInv

(* Kill, stop, expiry and SIGTERM leave no spawned shell behind that was   *)
(* not hung up.                                                            *)
THEOREM DaemonNoAbandonedShell == Spec => []NoAbandonedShell
  BY LifeInvariant, PTL DEF LifeInv

(* No capture file outlives its session, nor any a daemon that ends on     *)
(* SIGTERM.                                                                *)
THEOREM DaemonCapturesOwned == Spec => []CapturesOwned
  BY LifeInvariant, PTL DEF LifeInv

=============================================================================
