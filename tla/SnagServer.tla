----------------------------- MODULE SnagServer -----------------------------
(***************************************************************************)
(* How a client comes to be answered: daemons that start, find or replace  *)
(* each other's socket file and end (src/src/cli/commands.rs, run_daemon   *)
(* in src/src/daemon/server.rs), clients that connect and start a daemon   *)
(* when there is none (src/src/client.rs), and the bounded channel of      *)
(* events between a daemon's tasks and its loop.                           *)
(*                                                                         *)
(* events[d] holds the channel and, behind its Capacity places, the        *)
(* senders that wait for one, which get places in the order they asked.    *)
(* The loop is the only receiver, and a sender too: it sends Shutdown to   *)
(* itself when told to stop, and ChildExited on a SIGCHLD.                 *)
(*                                                                         *)
(* What a request does is SnagDaemon's: here it opens a session, stops the *)
(* daemon, or only is answered.  A session has a pty that is read, and a   *)
(* shell that may end.                                                     *)
(***************************************************************************)
EXTENDS Naturals, Sequences

CONSTANTS
    Daemons,    \* daemon processes; each starts at most once
    Clients,    \* client processes, one request each
    Stoppers,   \* those that ask the daemon to stop; the others may open a session
    Capacity,   \* of the channel of events, 256 in the code
    NoDaemon    \* no file at the socket's path; no daemon connected to

(* A daemon that starts connects first, to see whether one is running. *)
Peers == Clients \cup Daemons

ASSUME ServerAssumption ==
    /\ Clients \cap Daemons = {}
    /\ Stoppers \subseteq Clients
    /\ Capacity \in Nat \ {0}
    /\ NoDaemon \notin Daemons

VARIABLES
    path,       \* the daemon that bound the socket file, dead or alive
    daemon,     \* where each daemon stands, see ServerTypeOK
    events,     \* the channel of events and who waits to send into it
    known,      \* the clients map
    hosting,    \* whether a shell that lives runs in a session
    client,     \* where each client process stands
    conn,       \* where the connection of each peer stands
    server,     \* the daemon it is to
    raced       \* two daemons once were both between looking for a daemon
                \* that runs and binding their socket

loopVars == <<events, known, hosting>>
peerVars == <<client, conn, server>>
vars == <<path, daemon, loopVars, peerVars, raced>>

Kinds == {"connection", "message", "disconnected", "pty", "child", "shutdown"}

Event(kind, from) == [kind |-> kind, from |-> from]

ServerTypeOK ==
    /\ path \in Daemons \cup {NoDaemon}
    /\ daemon \in [Daemons -> {"off", "starting", "checked", "removed", "running",
                               "stuck", "closing", "gone"}]
    /\ events \in [Daemons -> Seq([kind : Kinds, from : Peers])]
    /\ known \in [Daemons -> SUBSET Peers]
    /\ hosting \in [Daemons -> BOOLEAN]
    /\ client \in [Clients -> {"idle", "retrying", "waiting", "done", "lost", "failed"}]
    /\ conn \in [Peers -> {"none", "backlog", "accepted", "open", "asked",
                           "answering", "answered", "ending", "closed"}]
    /\ server \in [Peers -> Daemons \cup {NoDaemon}]
    /\ \A p \in Peers : server[p] = NoDaemon <=> conn[p] = "none"
    /\ raced \in BOOLEAN

Init ==
    /\ path = NoDaemon
    /\ daemon = [d \in Daemons |-> "off"]
    /\ events = [d \in Daemons |-> <<>>]
    /\ known = [d \in Daemons |-> {}]
    /\ hosting = [d \in Daemons |-> FALSE]
    /\ client = [c \in Clients |-> "idle"]
    /\ conn = [p \in Peers |-> "none"]
    /\ server = [p \in Peers |-> NoDaemon]
    /\ raced = FALSE

-----------------------------------------------------------------------------
(* The socket file *)

(* The process is there, and listens. *)
Up(d) == daemon[d] \in {"running", "stuck", "closing"}

(* Its tasks run too: between the end of the loop and that of the process  *)
(* the one thread does not get to them.                                    *)
Active(d) == daemon[d] \in {"running", "stuck"}

(* UnixStream::connect succeeds: the file is that of a listening socket. *)
Reachable == path # NoDaemon /\ Up(path)

(* Mutant: nobody is on the other side. *)
ConnectToNobody(p, d) == conn' = [conn EXCEPT ![p] = "backlog"] /\ UNCHANGED server

(* The connection of p waits to be accepted. *)
ConnectTo(p, d) ==
    /\ conn' = [conn EXCEPT ![p] = "backlog"]
    /\ server' = [server EXCEPT ![p] = d]

-----------------------------------------------------------------------------
(* A daemon starts *)

(* By hand; or by a client, see StartDaemon. *)
Start(d) ==
    /\ daemon[d] = "off"
    /\ daemon' = [daemon EXCEPT ![d] = "starting"]
    /\ UNCHANGED <<path, loopVars, peerVars, raced>>

Binding == {d \in Daemons : daemon[d] \in {"checked", "removed"}}

(* Mutant: it starts whether one is running or not. *)
CheckNothing(d) ==
    /\ daemon[d] = "starting"
    /\ daemon' = [daemon EXCEPT ![d] = "checked"]
    /\ raced' = (raced \/ Binding # {})
    /\ UNCHANGED <<path, loopVars, peerVars>>

(* cmd_daemon_start: "daemon is already running".  The daemon that is gets *)
(* a connection, closed at once.                                           *)
Check(d) ==
    /\ daemon[d] = "starting"
    /\ IF Reachable
       THEN /\ daemon' = [daemon EXCEPT ![d] = "gone"]
            /\ ConnectTo(d, path)
            /\ UNCHANGED raced
       ELSE /\ daemon' = [daemon EXCEPT ![d] = "checked"]
            /\ raced' = (raced \/ Binding # {})
            /\ UNCHANGED <<conn, server>>
    /\ UNCHANGED <<path, loopVars, client>>

(* "Remove stale socket": whatever file is there. *)
RemoveStale(d) ==
    /\ daemon[d] = "checked"
    /\ path' = NoDaemon
    /\ daemon' = [daemon EXCEPT ![d] = "removed"]
    /\ UNCHANGED <<loopVars, peerVars, raced>>

(* bind fails if there is a file again. *)
Bind(d) ==
    /\ daemon[d] = "removed"
    /\ IF path = NoDaemon
       THEN path' = d /\ daemon' = [daemon EXCEPT ![d] = "running"]
       ELSE path' = path /\ daemon' = [daemon EXCEPT ![d] = "gone"]
    /\ UNCHANGED <<loopVars, peerVars, raced>>

-----------------------------------------------------------------------------
(* The tasks that feed the loop *)

(* The task that sent the last of the events in S waits for it to get a    *)
(* place, and does nothing else meanwhile.                                 *)
Waits(d, S) == \E k \in DOMAIN events[d] : k > Capacity /\ events[d][k] \in S

Send(d, event) == events' = [events EXCEPT ![d] = Append(@, event)]

(* Mutant: the connection is served before the loop knows of it. *)
AcceptAndServe(p) ==
    LET d == server[p] IN
    /\ conn[p] = "backlog" /\ Active(d)
    /\ ~Waits(d, [kind : {"connection"}, from : Peers])
    /\ Send(d, Event("connection", p))
    /\ conn' = [conn EXCEPT ![p] = "open"]
    /\ UNCHANGED <<path, daemon, known, hosting, client, server, raced>>

(* The task that accepts has one connection in hand at a time. *)
Accept(p) ==
    LET d == server[p] IN
    /\ conn[p] = "backlog" /\ Active(d)
    /\ ~Waits(d, [kind : {"connection"}, from : Peers])
    /\ Send(d, Event("connection", p))
    /\ conn' = [conn EXCEPT ![p] = "accepted"]
    /\ UNCHANGED <<path, daemon, known, hosting, client, server, raced>>

(* handle_client_connection reads the request ... *)
ReadRequest(p) ==
    LET d == server[p] IN
    /\ conn[p] = "open" /\ p \in Clients /\ Active(d)
    /\ Send(d, Event("message", p))
    /\ conn' = [conn EXCEPT ![p] = "asked"]
    /\ UNCHANGED <<path, daemon, known, hosting, client, server, raced>>

(* A daemon closes the connection that it only tried; a client leaves when *)
(* it is answered, or before.                                              *)
Closed(p) == p \in Clients => client[p] \in {"done", "lost"}

(* Mutant: the end is reported only of connections that asked something. *)
ReadEndIfAsked(p) ==
    LET d == server[p] IN
    /\ conn[p] \in {"asked", "answering", "answered"}
    /\ Closed(p) /\ Active(d)
    /\ ~Waits(d, {Event("message", p)})
    /\ Send(d, Event("disconnected", p))
    /\ conn' = [conn EXCEPT ![p] = "ending"]
    /\ UNCHANGED <<path, daemon, known, hosting, client, server, raced>>

(* ... and then the end of the stream, or at once when the client leaves   *)
(* without having asked, as the user interface does.                       *)
ReadEnd(p) ==
    LET d == server[p] IN
    /\ conn[p] \in {"open", "asked", "answering", "answered"}
    /\ Closed(p) /\ Active(d)
    /\ ~Waits(d, {Event("message", p)})
    /\ Send(d, Event("disconnected", p))
    /\ conn' = [conn EXCEPT ![p] = "ending"]
    /\ UNCHANGED <<path, daemon, known, hosting, client, server, raced>>

(* pty_read_loop; its events are sent in the daemon's own name. *)
ReadPty(d) ==
    /\ hosting[d] /\ Active(d)
    /\ ~Waits(d, {Event("pty", d)})
    /\ Send(d, Event("pty", d))
    /\ UNCHANGED <<path, daemon, known, hosting, peerVars, raced>>

(* The write task of p, to a client that still reads. *)
WriteReply(p) ==
    LET d == server[p] IN
    /\ conn[p] = "answering" /\ Active(d)
    /\ conn' = [conn EXCEPT ![p] = "answered"]
    /\ client' = [client EXCEPT ![p] = IF @ = "waiting" THEN "done" ELSE @]
    /\ UNCHANGED <<path, daemon, loopVars, server, raced>>

-----------------------------------------------------------------------------
(* The loop *)

(* The loop sends to itself, behind the events in rest: when they fill the *)
(* channel it waits for a place that only it could make.                   *)
SendSelf(d, rest, kind) ==
    /\ events' = [events EXCEPT ![d] = Append(rest, Event(kind, d))]
    /\ daemon' = IF Len(rest) < Capacity THEN daemon
                 ELSE [daemon EXCEPT ![d] = "stuck"]

Next1(d) == Head(events[d])

Receive(d, kind) ==
    /\ daemon[d] = "running"
    /\ events[d] # <<>>
    /\ Next1(d).kind = kind

Taken(d) == events' = [events EXCEPT ![d] = Tail(@)]

NewConnection(d) ==
    /\ Receive(d, "connection")
    /\ Taken(d)
    /\ known' = [known EXCEPT ![d] = @ \cup {Next1(d).from}]
    /\ conn' = [conn EXCEPT ![Next1(d).from] = "open"]
    /\ UNCHANGED <<path, daemon, hosting, client, server, raced>>

(* The response goes into the client's channel, for its write task. *)
Answer(p) ==
    conn' = IF conn[p] = "asked" THEN [conn EXCEPT ![p] = "answering"] ELSE conn

ClientMessage(d) ==
    /\ Receive(d, "message")
    /\ IF Next1(d).from \in Stoppers
       THEN SendSelf(d, Tail(events[d]), "shutdown") /\ UNCHANGED hosting
       ELSE /\ Taken(d) /\ UNCHANGED daemon
            /\ hosting' \in {hosting, [hosting EXCEPT ![d] = TRUE]}
    /\ IF daemon'[d] = "stuck" THEN UNCHANGED conn ELSE Answer(Next1(d).from)
    /\ UNCHANGED <<path, known, client, server, raced>>

ClientDisconnected(d) ==
    /\ Receive(d, "disconnected")
    /\ Taken(d)
    /\ known' = [known EXCEPT ![d] = @ \ {Next1(d).from}]
    /\ conn' = [conn EXCEPT ![Next1(d).from] = "closed"]
    /\ UNCHANGED <<path, daemon, hosting, client, server, raced>>

(* PtyData, PtyEof and ChildExited change nothing that is modelled here. *)
PtyOrChild(d) ==
    /\ Receive(d, "pty") \/ Receive(d, "child")
    /\ Taken(d)
    /\ UNCHANGED <<path, daemon, known, hosting, peerVars, raced>>

(* The SIGCHLD branch: the shell has ended and is waited for. *)
SigChld(d) ==
    /\ daemon[d] = "running"
    /\ hosting[d]
    /\ hosting' = [hosting EXCEPT ![d] = FALSE]
    /\ SendSelf(d, events[d], "child")
    /\ UNCHANGED <<path, known, peerVars, raced>>

(* Mutant: the daemon stays for its sessions. *)
ShutdownUnlessHosting(d) ==
    /\ Receive(d, "shutdown")
    /\ Taken(d)
    /\ daemon' = IF hosting[d] THEN daemon ELSE [daemon EXCEPT ![d] = "closing"]
    /\ UNCHANGED <<path, known, hosting, peerVars, raced>>

Shutdown(d) ==
    /\ Receive(d, "shutdown")
    /\ Taken(d)
    /\ daemon' = [daemon EXCEPT ![d] = "closing"]
    /\ UNCHANGED <<path, known, hosting, peerVars, raced>>

(* SIGTERM, or the end of the grace period. *)
LeaveLoop(d) ==
    /\ daemon[d] = "running"
    /\ daemon' = [daemon EXCEPT ![d] = "closing"]
    /\ UNCHANGED <<path, loopVars, peerVars, raced>>

(* The process with its channel, its map and its descriptors. *)
End(d) ==
    /\ daemon' = [daemon EXCEPT ![d] = "gone"]
    /\ events' = [events EXCEPT ![d] = <<>>]
    /\ known' = [known EXCEPT ![d] = {}]
    /\ hosting' = [hosting EXCEPT ![d] = FALSE]
    /\ conn' = [p \in Peers |-> IF server[p] = d THEN "closed" ELSE conn[p]]
    /\ UNCHANGED <<client, server, raced>>

(* Whatever file is at the path is removed. *)
Exit(d) == daemon[d] = "closing" /\ path' = NoDaemon /\ End(d)

(* Killed: the file stays. *)
Crash(d) == daemon[d] \notin {"off", "gone"} /\ End(d) /\ UNCHANGED path

-----------------------------------------------------------------------------
(* The clients *)

Connect(c) ==
    /\ client[c] \in {"idle", "retrying"}
    /\ Reachable
    /\ ConnectTo(c, path)
    /\ client' = [client EXCEPT ![c] = "waiting"]
    /\ UNCHANGED <<path, daemon, loopVars, raced>>

(* No daemon answers: one is started.  (In the model no new process may be *)
(* left for it; the client tries on all the same.)                         *)
StartDaemon(c) ==
    /\ client[c] = "idle"
    /\ ~Reachable
    /\ client' = [client EXCEPT ![c] = "retrying"]
    /\ IF \E d \in Daemons : daemon[d] = "off"
       THEN \E d \in Daemons : /\ daemon[d] = "off"
                               /\ daemon' = [daemon EXCEPT ![d] = "starting"]
       ELSE UNCHANGED daemon
    /\ UNCHANGED <<path, loopVars, conn, server, raced>>

(* Mutant: the client tries until it can connect. *)
NeverGiveUp(c) == FALSE

(* The twentieth try. *)
GiveUp(c) ==
    /\ client[c] = "retrying"
    /\ ~Reachable
    /\ client' = [client EXCEPT ![c] = "failed"]
    /\ UNCHANGED <<path, daemon, loopVars, conn, server, raced>>

(* ConnectionLost, or the user interrupts the command. *)
Lose(c) ==
    /\ client[c] = "waiting"
    /\ client' = [client EXCEPT ![c] = "lost"]
    /\ UNCHANGED <<path, daemon, loopVars, conn, server, raced>>

ConnectionLost(c) == conn[c] = "closed" /\ Lose(c)

-----------------------------------------------------------------------------

Starting(d) == Check(d) \/ RemoveStale(d) \/ Bind(d)

Handle(d) ==
    \/ NewConnection(d) \/ ClientMessage(d) \/ ClientDisconnected(d)
    \/ PtyOrChild(d) \/ Shutdown(d)

Next ==
    \/ \E d \in Daemons :
          \/ Start(d) \/ Starting(d) \/ Handle(d) \/ SigChld(d) \/ ReadPty(d)
          \/ LeaveLoop(d) \/ Exit(d) \/ Crash(d)
    \/ \E p \in Peers : Accept(p) \/ ReadRequest(p) \/ ReadEnd(p)
    \/ \E c \in Clients : \/ WriteReply(c) \/ Connect(c) \/ StartDaemon(c)
                          \/ GiveUp(c) \/ Lose(c)

Spec == Init /\ [][Next]_vars

(* The tasks of a daemon that lives run, a client retries and gives up,    *)
(* and reads the end of its stream.  No shell has to print or to end, no   *)
(* user to start, interrupt or signal anything.                            *)
Fairness ==
    /\ \A d \in Daemons :
          WF_vars(Starting(d)) /\ WF_vars(Handle(d)) /\ WF_vars(Exit(d))
    /\ \A p \in Peers :
          WF_vars(Accept(p)) /\ WF_vars(ReadRequest(p)) /\ WF_vars(ReadEnd(p))
    /\ \A c \in Clients :
          /\ WF_vars(WriteReply(c)) /\ WF_vars(ConnectionLost(c))
          /\ WF_vars(Connect(c) \/ StartDaemon(c) \/ GiveUp(c))

FairSpec == Spec /\ Fairness

-----------------------------------------------------------------------------

(* While no two start-ups overlapped, a daemon that runs is the one that   *)
(* clients reach: files that crashed daemons leave, daemons that come and  *)
(* go and starts beside a running one do not orphan it, with its sessions. *)
SocketOwned ==
    ~raced => \A d \in Daemons : Active(d) => path = d

(* server.rs:54, of the file a daemon removes before it binds its own:     *)
(* "Remove stale socket".                                                  *)
OnlyStaleRemoved ==
    [][\A d \in Daemons : daemon[d] = "checked" /\ daemon'[d] = "removed" => ~Reachable]_vars

(* The events of a connection reach the loop in the order connection,      *)
(* message, disconnection, though they are sent by two tasks: no handler   *)
(* is run for a client the loop does not know.                             *)
EventsInOrder ==
    \A d \in Daemons : \A k \in DOMAIN events[d] :
        LET p == events[d][k].from IN
        events[d][k].kind \in {"message", "disconnected"} =>
            /\ p \in known[d]
            /\ \A j \in 1 .. k - 1 :
                  events[d][j] \notin {Event("connection", p), Event("disconnected", p)}

(* The daemon p is connected to waits for itself. *)
ServerStuck(p) == server[p] \in Daemons /\ daemon[server[p]] = "stuck"

(* It has ended. *)
Ended(p) == server[p] \in Daemons /\ daemon[server[p]] = "gone"

(* Whoever runs a command comes to an end with it: an answer, a lost       *)
(* connection, or no daemon; unless the daemon it asked waits for itself.  *)
ClientsAnswered ==
    \A c \in Clients :
        client[c] \in {"retrying", "waiting"}
            ~> client[c] \in {"done", "lost", "failed"} \/ ServerStuck(c)

(* A daemon whose stop was answered ends, unless it waits for itself. *)
StopEnds ==
    \A c \in Stoppers :
        client[c] = "done" ~> Ended(c) \/ ServerStuck(c)

(* A connection that was closed is forgotten, the one of a daemon that     *)
(* found another running too: the map of clients does not fill up.         *)
Remembered(p) == server[p] \in Daemons /\ p \in known[server[p]]

Forgotten ==
    \A p \in Peers :
        Remembered(p) /\ Closed(p) ~> ~Remembered(p) \/ ServerStuck(p)

=============================================================================
