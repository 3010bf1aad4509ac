----------------------------- MODULE SnagDaemon -----------------------------
(***************************************************************************)
(* The snag daemon (src/src/daemon/server.rs): one event loop that owns    *)
(* the registry, the sessions and the connected clients, and handles one   *)
(* event at a time.  Around it run the tasks that feed the loop (the PTY   *)
(* readers, the SIGCHLD and SIGTERM streams, the grace timer), the client  *)
(* processes (src/src/cli/commands.rs) and the shells behind the ptys.     *)
(*                                                                         *)
(* A handler runs to completion between two events, so each is one action. *)
(* Every task sends its events in order, and the order in which the loop   *)
(* takes the events of different tasks is arbitrary: what is queued is     *)
(* kept per source (reader, child_exited, stop_queued, and for a client    *)
(* its phase) instead of in one queue.                                     *)
(*                                                                         *)
(* Output bytes are left out.  A terminal is named by its slave device: a  *)
(* spawned session's by the session's id, the others are in Terminals.     *)
(***************************************************************************)
EXTENDS SessionRegistry

CONSTANTS
    Clients,     \* client ids, one per connection, never reused
    Terminals,   \* terminals of terminal emulators, outside the daemon
    Wrapped,     \* the terminals whose shell runs under `snag wrap`
    Registrable, \* the terminals where `snag register` may be run
    Slow,        \* clients that may let their 64-frame channel fill up
    Codes,       \* exit codes of shells
    Zero,        \* the code PtyEof records
    Running,     \* SessionState::Running; Exited(c) is the code c itself
    Sizes,       \* window sizes
    NoSize,      \* no size known: last_size = None, a pty never resized
    Outside      \* a client's terminal when it is no session's and no pty

Ttys == Ids \cup Terminals

ASSUME DaemonAssumption ==
    /\ Ids \cap Terminals = {}
    /\ Wrapped \subseteq Terminals
    /\ Registrable \subseteq Ttys
    /\ Slow \subseteq Clients
    /\ Zero \in Codes
    /\ Running \notin Codes
    /\ NoSize \notin Sizes
    /\ Outside \notin Ttys

VARIABLES
    fresh,            \* ids generate_session_id has not returned yet
    \* Session, per id (its initial value for an id that is not registered)
    state, pts, attached_clients,
    captured,         \* sessions with capture_path = Some
    \* AttachedClient, per client, and the client process
    session_id, read_only, last_size,
    peer_tty,         \* /proc/<peer_pid>/fd/0
    phase,            \* where the client process stands, see DaemonTypeOK
    notice,           \* SessionEvents on their way to the client
    \* the shells and the kernel, per terminal
    shell,            \* "none", "alive", "zombie", "reaped"
    exit_code,        \* what wait returns for a spawned shell
    hup,              \* spawned shells that were hung up
    snagged,          \* wrapped terminals whose last signal was SIGUSR1
    winsize,          \* the terminal's window size
    sigchld,          \* a SIGCHLD is pending
    \* events on their way to the loop
    reader,           \* the PTY read task: "none", "reading", "eof", "done"
    child_exited,     \* sessions with a ChildExited queued
    stop_queued,      \* a Shutdown is queued
    \* the loop itself
    grace_deadline,   \* grace_deadline.is_some()
    daemon            \* "running", "terminated", "stopped", "expired"

sessionVars == <<fresh, state, pts, attached_clients, captured>>
clientVars  == <<session_id, read_only, last_size, peer_tty, phase, notice>>
processVars == <<shell, exit_code, hup, snagged, winsize, sigchld>>
eventVars   == <<reader, child_exited, stop_queued>>
daemonVars  == <<grace_deadline, daemon>>
vars == <<registryVars, sessionVars, clientVars, processVars, eventVars, daemonVars>>

DaemonTypeOK ==
    /\ RegistryTypeOK
    /\ fresh \subseteq Ids /\ sessions \cap fresh = {}
    /\ state \in [Ids -> Codes \cup {Running}]
    /\ pts \in [Ids -> Ttys]
    /\ attached_clients \in [Ids -> SUBSET Clients]
    /\ captured \subseteq Ids
    /\ session_id \in [Clients -> Ids \cup {NoId}]
    /\ read_only \in [Clients -> BOOLEAN]
    /\ last_size \in [Clients -> Sizes \cup {NoSize}]
    /\ peer_tty \in [Clients -> Ttys \cup {Outside}]
    /\ phase \in [Clients -> {"new", "ready", "attached", "following",
                              "leaving", "closing", "gone"}]
    /\ notice \in [Clients -> SUBSET {"stolen", "exited"}]
    /\ shell \in [Ttys -> {"none", "alive", "zombie", "reaped"}]
    /\ exit_code \in [Ids -> Codes]
    /\ hup \subseteq Ids
    /\ snagged \subseteq Wrapped
    /\ winsize \in [Ttys -> Sizes \cup {NoSize}]
    /\ sigchld \in BOOLEAN
    /\ reader \in [Ids -> {"none", "reading", "eof", "done"}]
    /\ child_exited \subseteq Ids
    /\ stop_queued \in BOOLEAN
    /\ grace_deadline \in BOOLEAN
    /\ daemon \in {"running", "terminated", "stopped", "expired"}

(* run_daemon starts with an empty registry, no client and no deadline;    *)
(* the terminals outside run a shell each.                                 *)
Init ==
    /\ RegistryInit
    /\ fresh = Ids
    /\ state = [i \in Ids |-> Running]
    /\ pts = [i \in Ids |-> i]
    /\ attached_clients = [i \in Ids |-> {}]
    /\ captured = {}
    /\ session_id = [c \in Clients |-> NoId]
    /\ read_only = [c \in Clients |-> FALSE]
    /\ last_size = [c \in Clients |-> NoSize]
    /\ peer_tty = [c \in Clients |-> Outside]
    /\ phase = [c \in Clients |-> "new"]
    /\ notice = [c \in Clients |-> {}]
    /\ shell = [y \in Ttys |-> IF y \in Terminals THEN "alive" ELSE "none"]
    /\ exit_code = [i \in Ids |-> Zero]
    /\ hup = {}
    /\ snagged = {}
    /\ winsize = [y \in Ttys |-> NoSize]
    /\ sigchld = FALSE
    /\ reader = [i \in Ids |-> "none"]
    /\ child_exited = {}
    /\ stop_queued = FALSE
    /\ grace_deadline = FALSE
    /\ daemon = "running"

-----------------------------------------------------------------------------
(* What the handlers are made of *)

Alive(y) == shell[y] = "alive"

(* Session.registered: the session was adopted, not spawned. *)
Registered(i) == pts[i] # i

Hosted(y) == {i \in sessions : pts[i] = y}

Exited(i) == state[i] # Running

(* Mutant: the filter on read_only is the wrong way round. *)
WritersSwapped(i) == {c \in attached_clients[i] : read_only[c]}

Writers(i) == {c \in attached_clients[i] : ~read_only[c]}

(* The message loop: the client's process is in phase p and its next       *)
(* message is being handled.                                               *)
Receives(c, p) == daemon = "running" /\ phase[c] = p

(* Mutant: a message does not reset the grace timer. *)
AfterMessageKeeps == grace_deadline' = grace_deadline

(* The end of the ClientMessage branch. *)
AfterMessage == grace_deadline' = (grace_deadline /\ sessions' = {})

(* Mutant: nobody is told. *)
NotifyNone(cs, event) == UNCHANGED notice

(* try_send of a SessionEvent to each of cs: lost when the channel is full. *)
Notify(cs, event) ==
    \E lost \in SUBSET (cs \cap Slow) :
        notice' = [c \in Clients |->
                      notice[c] \cup (IF c \in cs \ lost THEN {event} ELSE {})]

(* The shells of the terminals ys end.  A spawned one is the daemon's      *)
(* child: it stays a zombie, and a SIGCHLD is pending.                     *)
Die(ys) ==
    /\ shell' = [y \in Ttys |-> IF y \notin ys THEN shell[y]
                                ELSE IF y \in Ids THEN "zombie" ELSE "reaped"]
    /\ \E code \in Codes :
          exit_code' = [i \in Ids |-> IF i \in ys THEN code ELSE exit_code[i]]
    /\ sigchld' = (sigchld \/ ys \cap Ids # {})

(* The terminals whose shell the daemon signals for the sessions is. *)
SignalledBy(is) == {pts[i] : i \in {j \in is : Registered(j)}}

(* Mutant: every signalled terminal counts as in snag mode. *)
Usr1Unchecked(ys) ==
    /\ snagged' = snagged \cup ys
    /\ Die({y \in ys \ Wrapped : Alive(y)})

(* SIGUSR1 and SIGUSR2 to the shell pids of the terminals ys.  `snag wrap` *)
(* handles them; in a plain shell their default action is to terminate.    *)
Usr1(ys) ==
    /\ snagged' = snagged \cup (ys \cap Wrapped)
    /\ Die({y \in ys \ Wrapped : Alive(y)})

Usr2(ys) ==
    /\ snagged' = snagged \ ys
    /\ Die({y \in ys \ Wrapped : Alive(y)})

(* Mutant: a client that goes stays in its session's list. *)
AttachedStill(c) == attached_clients

(* The attach lists once client c is taken off its session's, if any. *)
AttachedWithout(c) ==
    [i \in Ids |-> IF i \in sessions /\ i = session_id[c]
                   THEN attached_clients[i] \ {c} ELSE attached_clients[i]]

(* The session c leaves without any client, if there is one. *)
LeftEmpty(c) ==
    {i \in sessions : i = session_id[c] /\ attached_clients[i] \subseteq {c}}

-----------------------------------------------------------------------------
(* Connections *)

(* A client process starts in some terminal and connects. *)
Connect(c) ==
    /\ Receives(c, "new")
    /\ \E y \in {Outside} \cup {z \in Ttys : Alive(z)} :
          peer_tty' = [peer_tty EXCEPT ![c] = y]
    /\ phase' = [phase EXCEPT ![c] = "ready"]
    /\ UNCHANGED <<registryVars, sessionVars, session_id, read_only, last_size,
                   notice, processVars, eventVars, daemonVars>>

(* The client's process ends without a word more: a one-shot command that  *)
(* has its answer, a refused attach, Ctrl-C on a follower, a crash.        *)
Close(c) ==
    /\ daemon = "running"
    /\ phase[c] \in {"ready", "attached", "following"}
    /\ phase' = [phase EXCEPT ![c] = "closing"]
    /\ UNCHANGED <<registryVars, sessionVars, session_id, read_only, last_size,
                   peer_tty, notice, processVars, eventVars, daemonVars>>

(* cmd_attach leaves its loop, on the detach key or on a SessionEvent, and *)
(* sends a SessionDetach before it closes.                                 *)
Quit(c) ==
    /\ Receives(c, "attached")
    /\ phase' = [phase EXCEPT ![c] = "leaving"]
    /\ UNCHANGED <<registryVars, sessionVars, session_id, read_only, last_size,
                   peer_tty, notice, processVars, eventVars, daemonVars>>

(* The same on a SessionEvent, which also ends `snag output --follow`. *)
LeaveOnNotice(c) == notice[c] # {} /\ (Quit(c) \/ (phase[c] = "following" /\ Close(c)))

ClientDisconnected(c) ==
    /\ Receives(c, "closing")
    /\ attached_clients' = AttachedWithout(c)
    /\ Usr2(SignalledBy(LeftEmpty(c)))
    /\ phase' = [phase EXCEPT ![c] = "gone"]
    /\ session_id' = [session_id EXCEPT ![c] = NoId]
    /\ read_only' = [read_only EXCEPT ![c] = FALSE]
    /\ last_size' = [last_size EXCEPT ![c] = NoSize]
    /\ peer_tty' = [peer_tty EXCEPT ![c] = Outside]
    /\ notice' = [notice EXCEPT ![c] = {}]
    /\ UNCHANGED <<registryVars, fresh, state, pts, captured, hup, winsize,
                   eventVars, daemonVars>>

(* Messages whose handlers change no session: list, info, status, cwd, ps, *)
(* grep, send, output without follow, PtyInput, and every refused request. *)
Query(c) ==
    /\ daemon = "running"
    /\ phase[c] \in {"ready", "attached"}
    /\ UNCHANGED <<registryVars, sessionVars, clientVars, processVars, eventVars,
                   daemon>>
    /\ AfterMessage

-----------------------------------------------------------------------------
(* Sessions come and go *)

(* A shell is spawned on a new pty and its reader started. *)
SessionNew(c, i, n) ==
    /\ Receives(c, "ready")
    /\ i \in fresh
    /\ ~IsName(n)
    /\ Insert(i, n)
    /\ fresh' = fresh \ {i}
    /\ shell' = [shell EXCEPT ![i] = "alive"]
    /\ reader' = [reader EXCEPT ![i] = "reading"]
    /\ UNCHANGED <<state, pts, attached_clients, captured, clientVars, exit_code,
                   hup, snagged, winsize, sigchld, child_exited, stop_queued, daemon>>
    /\ AfterMessage

(* The shell of the client's terminal is registered: its pty's master is   *)
(* found in some process, the emulator's or the daemon itself, and taken.  *)
(* Nothing looks for a session that already has that terminal.  The file   *)
(* that captures its output may fail to be created.                        *)
SessionRegister(c, i, n) ==
    LET y == peer_tty[c] IN
    /\ Receives(c, "ready")
    /\ i \in fresh
    /\ ~IsName(n)
    /\ y \in Registrable /\ Alive(y)
    /\ y \in Terminals \/ Hosted(y) # {}
    /\ Insert(i, n)
    /\ fresh' = fresh \ {i}
    /\ pts' = [pts EXCEPT ![i] = y]
    /\ captured' \in {captured, captured \cup {i}}
    /\ UNCHANGED <<state, attached_clients, clientVars, processVars, eventVars, daemon>>
    /\ AfterMessage

(* Mutant: the capture file outlives the session. *)
TeardownKeeps(i) == UNCHANGED captured

(* teardown_output_capture: capture_path.take(), for the session i. *)
Teardown(i) == captured' = captured \ {i}

(* Mutant: the session goes and its name stays in the index. *)
ForgetKeepsName(i) ==
    /\ sessions' = sessions \ {i}
    /\ name' = [name EXCEPT ![i] = NoName]
    /\ state' = [state EXCEPT ![i] = Running]
    /\ pts' = [pts EXCEPT ![i] = i]
    /\ attached_clients' = [attached_clients EXCEPT ![i] = {}]
    /\ Teardown(i)
    /\ UNCHANGED <<name_index, fresh>>

(* registry.remove drops the Session: its fields are gone with it. *)
Forget(i) ==
    /\ Remove(i)
    /\ state' = [state EXCEPT ![i] = Running]
    /\ pts' = [pts EXCEPT ![i] = i]
    /\ attached_clients' = [attached_clients EXCEPT ![i] = {}]
    /\ Teardown(i)
    /\ UNCHANGED fresh

(* The clients that are attached are neither told nor taken off. *)
SessionKill(c, t) ==
    /\ Receives(c, "ready")
    /\ \E i \in sessions :
          /\ Resolves(t, i)
          /\ Forget(i)
          /\ hup' = IF Registered(i) THEN hup ELSE hup \cup {i}
    /\ UNCHANGED <<clientVars, shell, exit_code, snagged, winsize, sigchld,
                   eventVars, daemon>>
    /\ AfterMessage

(* Mutant: unregister takes a spawned session too. *)
SessionUnregisterAny(c, t) ==
    /\ Receives(c, "ready")
    /\ \E i \in sessions : Resolves(t, i) /\ Forget(i)
    /\ UNCHANGED <<clientVars, processVars, eventVars, daemon>>
    /\ AfterMessage

(* Only an adopted session: its shell goes on without the daemon. *)
SessionUnregister(c, t) ==
    /\ Receives(c, "ready")
    /\ \E i \in sessions : Resolves(t, i) /\ Registered(i) /\ Forget(i)
    /\ UNCHANGED <<clientVars, processVars, eventVars, daemon>>
    /\ AfterMessage

SessionRename(c, t, n) ==
    /\ Receives(c, "ready")
    /\ Rename(t, n)
    /\ UNCHANGED <<sessionVars, clientVars, processVars, eventVars, daemon>>
    /\ AfterMessage

DaemonStop(c) ==
    /\ Receives(c, "ready")
    /\ stop_queued' = TRUE
    /\ UNCHANGED <<registryVars, sessionVars, clientVars, processVars, reader,
                   child_exited, daemon>>
    /\ AfterMessage

-----------------------------------------------------------------------------
(* Attaching *)

(* find_by_pts scans a hash map: of two sessions on one terminal, either   *)
(* may be found.                                                           *)
FindByPts ==
    {f \in [{pts[i] : i \in sessions} -> sessions] :
        \A y \in DOMAIN f : pts[f[y]] = y}

(* The session a writer attached to a sits in: the walk goes from a to b.  *)
(* A process that is gone has no /proc entry, and the walk ends there.     *)
Step(f, a, b) ==
    \E w \in Writers(a) :
        phase[w] # "closing" /\ peer_tty[w] \in DOMAIN f /\ b = f[peer_tty[w]]

(* Mutant: the walk starts behind the target and does not look at it. *)
LoopFoundBehind(f, c, i) ==
    /\ peer_tty[c] \in DOMAIN f
    /\ \A S \in SUBSET sessions :
          (\A a \in S \cup {i}, b \in sessions : Step(f, a, b) => b \in S)
              => f[peer_tty[c]] \in S

(* detect_attach_cycle: the walk that starts at i meets the session that   *)
(* client c runs in, that is, every set closed under the walk holds it.    *)
LoopFound(f, c, i) ==
    /\ peer_tty[c] \in DOMAIN f
    /\ \A S \in SUBSET sessions :
          i \in S /\ (\A a \in S, b \in sessions : Step(f, a, b) => b \in S)
              => f[peer_tty[c]] \in S

MayAttach(c, i) == \E f \in FindByPts : ~LoopFound(f, c, i)

(* Mutant: the evicted client keeps its session_id. *)
HoldersKept(c, i, evicted) == [session_id EXCEPT ![c] = i]

(* Every client's session_id once c is attached to i. *)
Holders(c, i, evicted) ==
    [x \in Clients |-> IF x = c THEN i ELSE IF x \in evicted THEN NoId ELSE session_id[x]]

Attach(c, i, ro, evicted) ==
    /\ attached_clients' = [attached_clients EXCEPT ![i] = (@ \ evicted) \cup {c}]
    /\ session_id' = Holders(c, i, evicted)
    /\ read_only' = [read_only EXCEPT ![c] = ro]
    /\ Notify(evicted, "stolen")
    /\ Usr1(SignalledBy({i}))
    /\ phase' = [phase EXCEPT ![c] = "attached"]
    /\ UNCHANGED <<registryVars, fresh, state, pts, captured, last_size, peer_tty,
                   hup, winsize, eventVars, daemon>>
    /\ AfterMessage

(* A read-only attach, or the session has no writer. *)
SessionAttach(c, t, ro) ==
    /\ Receives(c, "ready")
    /\ \E i \in sessions :
          /\ Resolves(t, i)
          /\ MayAttach(c, i)
          /\ ro \/ Writers(i) = {}
          /\ Attach(c, i, ro, {})

(* --force: the writer found is evicted. *)
SessionSteal(c, t) ==
    /\ Receives(c, "ready")
    /\ \E i \in sessions :
          /\ Resolves(t, i)
          /\ MayAttach(c, i)
          /\ \E w \in Writers(i) : Attach(c, i, FALSE, {w})

(* `snag output --follow`: attached read-only, with neither the search for *)
(* loops nor the signal to the shell.                                      *)
Follow(c, t) ==
    /\ Receives(c, "ready")
    /\ \E i \in sessions :
          /\ Resolves(t, i)
          /\ attached_clients' = [attached_clients EXCEPT ![i] = @ \cup {c}]
          /\ session_id' = [session_id EXCEPT ![c] = i]
    /\ read_only' = [read_only EXCEPT ![c] = TRUE]
    /\ phase' = [phase EXCEPT ![c] = "following"]
    /\ UNCHANGED <<registryVars, fresh, state, pts, captured, last_size, peer_tty,
                   notice, processVars, eventVars, daemon>>
    /\ AfterMessage

(* The clients that stay when c leaves, of those whose size is known. *)
SizedOthers(c) ==
    {d \in Clients \ {c} : /\ session_id[c] \in sessions
                           /\ d \in attached_clients[session_id[c]]
                           /\ last_size[d] # NoSize}

SessionDetach(c) ==
    /\ Receives(c, "leaving")
    /\ session_id' = [session_id EXCEPT ![c] = NoId]
    /\ attached_clients' = AttachedWithout(c)
    /\ Usr2(SignalledBy(LeftEmpty(c)))
    /\ IF SizedOthers(c) = {}
       THEN UNCHANGED winsize
       ELSE \E d \in SizedOthers(c) :
               winsize' = [winsize EXCEPT ![pts[session_id[c]]] = last_size[d]]
    /\ phase' = [phase EXCEPT ![c] = "closing"]
    /\ UNCHANGED <<registryVars, fresh, state, pts, captured, read_only, last_size,
                   peer_tty, notice, hup, eventVars, daemon>>
    /\ AfterMessage

Resize(c, size) ==
    /\ Receives(c, "attached")
    /\ last_size' = [last_size EXCEPT ![c] = size]
    /\ winsize' = IF session_id[c] \in sessions
                  THEN [winsize EXCEPT ![pts[session_id[c]]] = size]
                  ELSE winsize
    /\ UNCHANGED <<registryVars, sessionVars, session_id, read_only, peer_tty, phase,
                   notice, shell, exit_code, hup, snagged, sigchld, eventVars, daemon>>
    /\ AfterMessage

-----------------------------------------------------------------------------
(* Shells end *)

ShellExit(y) ==
    /\ daemon = "running"
    /\ Alive(y)
    /\ Die({y})
    /\ UNCHANGED <<registryVars, sessionVars, clientVars, hup, snagged, winsize,
                   eventVars, daemonVars>>

(* The read task meets the end of the pty: no process holds the slave any  *)
(* more.  (Of a removed session it reads a closed descriptor.)             *)
PtyEofSend(i) ==
    /\ daemon = "running"
    /\ reader[i] = "reading"
    /\ i \in sessions => ~Alive(i)
    /\ reader' = [reader EXCEPT ![i] = "eof"]
    /\ UNCHANGED <<registryVars, sessionVars, clientVars, processVars, child_exited,
                   stop_queued, daemonVars>>

(* Mutant: only sessions that still run are waited for. *)
ReapableRunning ==
    {y \in Ids : shell[y] = "zombie" /\ \E i \in Hosted(y) : ~Exited(i)}

(* The children that have ended and that some session in the registry has. *)
Reapable == {y \in Ids : shell[y] = "zombie" /\ Hosted(y) # {}}

(* Mutant: the code of a child is recorded for every session. *)
StateReapedAll(reaper) ==
    [i \in Ids |-> IF i \in sessions /\ DOMAIN reaper # {} THEN Zero ELSE state[i]]

(* The states once session reaper[y] has waited for the child y. *)
StateReaped(reaper) ==
    [i \in Ids |-> IF \E y \in DOMAIN reaper : reaper[y] = i
                   THEN exit_code[pts[i]] ELSE state[i]]

(* The SIGCHLD branch waits for the child of every session in the registry. *)
(* Of two sessions with one child, the first that waits gets the code.      *)
SigChld ==
    /\ daemon = "running"
    /\ sigchld
    /\ sigchld' = FALSE
    /\ \E reaper \in [Reapable -> sessions] :
          /\ \A y \in Reapable : pts[reaper[y]] = y
          /\ state' = StateReaped(reaper)
          /\ child_exited' = child_exited \cup {reaper[y] : y \in Reapable}
    /\ shell' = [y \in Ttys |-> IF y \in Reapable THEN "reaped" ELSE shell[y]]
    /\ UNCHANGED <<registryVars, fresh, pts, attached_clients, captured, clientVars,
                   exit_code, hup, snagged, winsize, reader, stop_queued, daemonVars>>

(* PtyEof and ChildExited share one handler: the code is recorded and the  *)
(* clients told, if the session is still there; the timer starts, whether  *)
(* it is or not, when every session that remains has exited.               *)
SessionExited(i, code) ==
    /\ daemon = "running"
    /\ state' = [state EXCEPT ![i] = IF i \in sessions THEN code ELSE @]
    /\ Notify(attached_clients[i], "exited")
    /\ grace_deadline' = (grace_deadline \/ \A j \in sessions : state'[j] # Running)
    /\ UNCHANGED <<registryVars, fresh, pts, attached_clients, captured, session_id,
                   read_only, last_size, peer_tty, phase, processVars, stop_queued,
                   daemon>>

PtyEof(i) ==
    /\ reader[i] = "eof"
    /\ reader' = [reader EXCEPT ![i] = "done"]
    /\ SessionExited(i, Zero)
    /\ UNCHANGED child_exited

(* The code waited for is that of the session's shell. *)
ChildExited(i) ==
    /\ i \in child_exited
    /\ child_exited' = child_exited \ {i}
    /\ SessionExited(i, IF pts[i] \in Ids THEN exit_code[pts[i]] ELSE Zero)
    /\ UNCHANGED reader

-----------------------------------------------------------------------------
(* The daemon ends *)

(* The process goes, with its queues and its descriptors: the clients read *)
(* the end of their stream and leave, the kernel hangs up the shells it    *)
(* spawned.  The registry is kept to say which sessions were there.        *)
Exit(how) ==
    /\ daemon = "running"
    /\ daemon' = how
    /\ hup' = hup \cup {i \in sessions : ~Registered(i)}
    /\ attached_clients' = [i \in Ids |-> {}]
    /\ session_id' = [c \in Clients |-> NoId]
    /\ read_only' = [c \in Clients |-> FALSE]
    /\ last_size' = [c \in Clients |-> NoSize]
    /\ peer_tty' = [c \in Clients |-> Outside]
    /\ phase' = [c \in Clients |-> "gone"]
    /\ notice' = [c \in Clients |-> {}]
    /\ reader' = [i \in Ids |-> "none"]
    /\ child_exited' = {}
    /\ stop_queued' = FALSE
    /\ sigchld' = FALSE
    /\ grace_deadline' = FALSE
    /\ UNCHANGED <<registryVars, fresh, state, pts, shell, exit_code, snagged, winsize>>

Shutdown == stop_queued /\ Exit("stopped") /\ UNCHANGED captured

(* SIGTERM hangs up the spawned shells itself and tears the captures down. *)
SigTerm == Exit("terminated") /\ captured' = captured \ sessions

GraceExpire == grace_deadline /\ Exit("expired") /\ UNCHANGED captured

-----------------------------------------------------------------------------

ClientStep(c) ==
    \/ Connect(c) \/ Close(c) \/ Quit(c) \/ ClientDisconnected(c)
    \/ Query(c) \/ SessionDetach(c) \/ DaemonStop(c)
    \/ \E size \in Sizes : Resize(c, size)
    \/ \E i \in Ids, n \in Names \cup {NoName} :
          SessionNew(c, i, n) \/ SessionRegister(c, i, n)
    \/ \E t \in Targets :
          \/ SessionKill(c, t) \/ SessionUnregister(c, t)
          \/ SessionSteal(c, t) \/ Follow(c, t)
          \/ \E ro \in BOOLEAN : SessionAttach(c, t, ro)
          \/ \E n \in Names : SessionRename(c, t, n)

DaemonStep ==
    \/ SigChld \/ Shutdown \/ SigTerm \/ GraceExpire
    \/ \E i \in Ids : PtyEofSend(i) \/ PtyEof(i) \/ ChildExited(i)

Next ==
    \/ \E c \in Clients : ClientStep(c)
    \/ \E y \in Ttys : ShellExit(y)
    \/ DaemonStep

Spec == Init /\ [][Next]_vars

(* Weak fairness where the code schedules: every task of the current-thread *)
(* runtime runs again and again, an event that is queued is handled, the   *)
(* timer fires, a client's own loop reads what it is sent.  Not for the    *)
(* users: no shell has to exit, no client has to send or to leave, and the *)
(* end of a pty may never come (a background job can hold the slave).      *)
Fairness ==
    /\ WF_vars(SigChld) /\ WF_vars(Shutdown) /\ WF_vars(GraceExpire)
    /\ \A i \in Ids : WF_vars(PtyEof(i)) /\ WF_vars(ChildExited(i))
    /\ \A c \in Clients :
          /\ WF_vars(SessionDetach(c)) /\ WF_vars(ClientDisconnected(c))
          /\ WF_vars(LeaveOnNotice(c))

FairSpec == Spec /\ Fairness

-----------------------------------------------------------------------------
(* Safety *)

(* The two records of who is attached where agree: the session's list,     *)
(* which gets the output, and the client's session_id, which gets the      *)
(* input.  Attach, steal, follow, detach, disconnect and kill each update  *)
(* one or both by hand; only clients that attached hold a session_id.      *)
AttachConsistent ==
    /\ \A i \in Ids, c \in Clients :
          c \in attached_clients[i] <=> (i \in sessions /\ session_id[c] = i)
    /\ \A c \in Clients :
          session_id[c] # NoId =>
              phase[c] \in {"attached", "following", "leaving", "closing"}

(* handle_pty_input would write what client c types to session i. *)
CanType(c, i) == session_id[c] = i /\ i \in sessions /\ ~read_only[c]

(* At any time at most one client's input reaches a session, whatever      *)
(* attaches, steals, kills and crashes came before: the guard of           *)
(* handle_session_attach looks at the attach lists, handle_pty_input at    *)
(* the clients' own fields.                                                *)
OneTypist ==
    \A i \in Ids, c, d \in Clients : CanType(c, i) /\ CanType(d, i) => c = d

(* A client is told "stolen" only once its input goes nowhere, and         *)
(* "exited" only if the session it is still attached to has ended: on      *)
(* either message cmd_attach gives the terminal back to the user.          *)
NoticeTruthful ==
    \A c \in Clients :
        /\ "stolen" \in notice[c] => session_id[c] = NoId
        /\ "exited" \in notice[c] /\ session_id[c] \in sessions
              => Exited(session_id[c])

(* Nobody is attached, with a terminal that echoes, to the session that    *)
(* runs in that very terminal: what it prints would be printed to it       *)
(* again.  (While no terminal was registered twice, see the README.)       *)
NoSelfAttach ==
    \A c \in Clients :
        phase[c] = "attached" /\ session_id[c] \in sessions
            => pts[session_id[c]] # peer_tty[c]

(* No step takes a client off a live session behind its back: it is        *)
(* leaving by itself, or is told (if its channel has room).                *)
NoSilentEviction ==
    [][\A i \in sessions \cap sessions' :
          \A c \in attached_clients[i] \ attached_clients'[i] :
              \/ phase[c] \in {"leaving", "closing"}
              \/ "stolen" \in notice'[c] \/ c \in Slow
              \/ daemon' # "running"]_vars

(* A session listed as exited has no live shell behind it, though the      *)
(* record comes from two sources, wait and the end of the pty.             *)
ExitedIsDead == \A i \in sessions : Exited(i) => ~Alive(pts[i])

(* The grace timer runs, and fires, only when every session left has       *)
(* exited: a late PtyEof or ChildExited of an old session cannot start the *)
(* clock under a new one, and auto-exit takes no live shell down.          *)
GraceOnlyWhenIdle ==
    grace_deadline \/ daemon = "expired" =>
        \A i \in sessions : Exited(i) /\ ~Alive(pts[i])

(* A spawned shell that outlives its session, or the daemon, was hung up:  *)
(* none runs on without anyone to attach to it.                            *)
NoAbandonedShell ==
    \A i \in Ids : Alive(i) /\ (i \notin sessions \/ daemon # "running") => i \in hup

(* No capture file outlives its session: each is that of a registered      *)
(* session, kill and unregister remove theirs, and SIGTERM leaves none.    *)
CapturesOwned ==
    /\ captured \subseteq {i \in sessions : Registered(i)}
    /\ daemon = "terminated" => captured = {}

-----------------------------------------------------------------------------
(* Liveness, under FairSpec *)

(* The exit of a spawned shell is recorded while its session is there. *)
ExitRecorded ==
    \A i \in Ids :
        shell[i] = "zombie" /\ i \in sessions /\ daemon = "running"
            ~> shell[i] = "reaped" \/ i \notin sessions \/ daemon # "running"

(* A client attached to a session whose shell has ended, and is not waited *)
(* for yet, does not stay attached to it: it is told and leaves, however   *)
(* the events and the client's own moves interleave.                       *)
ViewersReleased ==
    \A i \in Ids, c \in Clients \ Slow :
        c \in attached_clients[i] /\ shell[i] = "zombie" /\ ~Exited(i)
            ~> c \notin attached_clients[i] \/ daemon # "running"

-----------------------------------------------------------------------------
(* What the repository says and the code does not keep *)

(* server.rs:1189 and 1192: attaching never closes a loop of sessions each *)
(* shown in the next one's terminal.  (Session a views b when a client in  *)
(* a's terminal is attached to b as a writer.)                             *)
Views(a, b) == \E w \in Writers(b) : peer_tty[w] = pts[a]

NoAttachLoop ==
    \A S \in SUBSET sessions \ {{}} :
        \E a \in S : \A b \in S : ~Views(a, b)

(* server.rs:27: the session's exit code is the one waited for. *)
ExitCodeKept ==
    daemon = "running" /\ child_exited = {} =>
        \A i \in sessions :
            ~Registered(i) /\ shell[i] = "reaped" => state[i] = exit_code[i]

(* commands.rs:491: a client attached to a session that is killed is told  *)
(* and leaves, "[Session killed by snag]".                                 *)
KilledViewersLeave ==
    \A c \in Clients :
        session_id[c] \in Ids \ sessions
            ~> session_id[c] = NoId \/ daemon # "running"

(* README.md:297 and server.rs:189: when every session there was has       *)
(* exited, the daemon exits by itself (unless a session starts).           *)
DaemonAutoExits ==
    (sessions # {} /\ \A i \in sessions : Exited(i))
        ~> daemon # "running" \/ \E i \in sessions : ~Exited(i)

(* commands.rs:844-849: attaching to a registered shell works, and leaves  *)
(* the shell running.                                                      *)
AttachSparesShell ==
    [][\A c \in Clients :
          phase[c] = "ready" /\ phase'[c] = "attached" => shell' = shell]_vars

=============================================================================
