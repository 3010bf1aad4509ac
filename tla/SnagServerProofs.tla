-------------------------- MODULE SnagServerProofs --------------------------
(* Safety of SnagServer, for any number of daemons and clients and any     *)
(* capacity of the channel: the socket belongs to the daemon that runs,    *)
(* and the events of a connection reach the loop in order.                 *)
EXTENDS SnagServer, TLAPS

-----------------------------------------------------------------------------
(* The inductive invariant *)

(* Whoever is between looking for a daemon and binding found none.         *)
StartsApart ==
    ~raced =>
        /\ \A d \in Daemons : Up(d) => path = d
        /\ \A d \in Binding, e \in Daemons : ~Up(e)
        /\ \A d, e \in Binding : d = e

(* Nobody is connected before connecting. *)
Unconnected ==
    /\ \A c \in Clients : client[c] \in {"idle", "retrying"} => conn[c] = "none"
    /\ \A d \in Daemons : daemon[d] \in {"off", "starting"} => conn[d] = "none"

Served == {"open", "asked", "answering", "answered", "ending"}

KnownAreServed ==
    \A d \in Daemons, p \in Peers :
        p \in known[d] <=> server[p] = d /\ conn[p] \in Served

(* Event k of d is about the connection of p, and of this kind. *)
At(d, k, kind, p) == events[d][k].kind = kind /\ events[d][k].from = p

ConnectionNew(d, p) ==
    \A k \in DOMAIN events[d] :
        At(d, k, "connection", p) =>
            /\ server[p] = d /\ conn[p] = "accepted"
            /\ \A j \in DOMAIN events[d] : At(d, j, "connection", p) => j = k

MessagesServed(d, p) ==
    \A k \in DOMAIN events[d] :
        At(d, k, "message", p) => server[p] = d /\ conn[p] \in Served \ {"open"}

EndLast(d, p) ==
    \A k \in DOMAIN events[d] :
        At(d, k, "disconnected", p) =>
            /\ server[p] = d /\ conn[p] = "ending"
            /\ \A j \in DOMAIN events[d] :
                  At(d, j, "message", p) \/ At(d, j, "disconnected", p) => j <= k

Ordered(d, p) == ConnectionNew(d, p) /\ MessagesServed(d, p) /\ EndLast(d, p)

EventsInv ==
    KnownAreServed /\ \A d \in Daemons, p \in Peers : Ordered(d, p)

ServerInv ==
    ServerTypeOK /\ StartsApart /\ Unconnected /\ EventsInv

ConnStates == {"none", "backlog", "accepted", "open", "asked", "answering", "answered",
               "ending", "closed"}

LEMMA InitInv == Init => ServerInv
  <1> SUFFICES ASSUME Init PROVE ServerInv
    OBVIOUS
  <1>1. ServerTypeOK
    <2>1. \A T : <<>> \in Seq(T)
      OBVIOUS
    <2> QED BY <2>1 DEF Init, ServerTypeOK
  <1>2. StartsApart /\ Unconnected
    BY DEF Init, StartsApart, Up, Binding, Unconnected, Peers
  <1>3. KnownAreServed
    BY DEF Init, KnownAreServed, Served
  <1>4. \A d \in Daemons, p \in Peers : Ordered(d, p)
    BY DEF Init, Ordered, ConnectionNew, MessagesServed, EndLast
  <1> QED BY <1>1, <1>2, <1>3, <1>4 DEF ServerInv, EventsInv

-----------------------------------------------------------------------------
(* Types *)

EventSet == [kind : Kinds, from : Peers]

LEMMA EventType ==
  ASSUME NEW kind \in Kinds, NEW p \in Peers
  PROVE  Event(kind, p) \in EventSet
  BY DEF Event, EventSet

LEMMA EventsTyped ==
  ServerTypeOK => events \in [Daemons -> Seq(EventSet)]
  BY DEF ServerTypeOK, EventSet

(* What the tasks and the loop do to the channel keeps it one. *)
LEMMA SentTyped ==
  ASSUME ServerTypeOK, NEW d \in Daemons, NEW e \in EventSet, Send(d, e)
  PROVE  events' \in [Daemons -> Seq(EventSet)]
  BY EventsTyped DEF Send

LEMMA TakenTyped ==
  ASSUME ServerTypeOK, NEW d \in Daemons, events[d] # <<>>, Taken(d)
  PROVE  events' \in [Daemons -> Seq(EventSet)]
  <1>1. Tail(events[d]) \in Seq(EventSet)
    BY EventsTyped
  <1> QED BY <1>1, EventsTyped DEF Taken

LEMMA HeadTyped ==
  ASSUME ServerTypeOK, NEW d \in Daemons, events[d] # <<>>
  PROVE  /\ Next1(d) \in EventSet /\ Next1(d).from \in Peers
         /\ Next1(d) = events[d][1] /\ 1 \in DOMAIN events[d]
  <1>1. events[d] \in Seq(EventSet)
    BY EventsTyped
  <1>2. Next1(d) = events[d][1] /\ 1 \in DOMAIN events[d] /\ Next1(d) \in EventSet
    BY <1>1 DEF Next1
  <1> QED BY <1>2 DEF EventSet

LEMMA SelfTyped ==
  ASSUME ServerTypeOK, NEW d \in Daemons, NEW rest \in Seq(EventSet),
         NEW kind \in Kinds, SendSelf(d, rest, kind)
  PROVE  /\ events' \in [Daemons -> Seq(EventSet)]
         /\ \/ daemon' = daemon
            \/ daemon' = [daemon EXCEPT ![d] = "stuck"]
  <1>1. Event(kind, d) \in EventSet
    BY EventType DEF Peers
  <1>2. Append(rest, Event(kind, d)) \in Seq(EventSet)
    BY <1>1
  <1> QED BY <1>2, EventsTyped DEF SendSelf

LEMMA EndTyped ==
  ASSUME ServerTypeOK, NEW d \in Daemons, End(d), path' \in Daemons \cup {NoDaemon}
  PROVE  ServerTypeOK'
  <1>1. events' \in [Daemons -> Seq(EventSet)]
    <2>1. <<>> \in Seq(EventSet)
      OBVIOUS
    <2> QED BY <2>1, EventsTyped DEF End
  <1>2. \A p \in Peers : server'[p] = NoDaemon <=> conn'[p] = "none"
    BY ServerAssumption DEF ServerTypeOK, End
  <1> QED BY <1>1, <1>2 DEF ServerTypeOK, End, EventSet

LEMMA TypeStep == ServerInv /\ [Next]_vars => ServerTypeOK'
  <1> SUFFICES ASSUME ServerInv, [Next]_vars PROVE ServerTypeOK'
    OBVIOUS
  <1>0. ServerTypeOK
    BY DEF ServerInv
  <1> USE ServerAssumption, <1>0
  <1>1. ASSUME NEW d \in Daemons, Start(d) PROVE ServerTypeOK'
    BY <1>1 DEF Start, ServerTypeOK, loopVars, peerVars
  <1>2. ASSUME NEW d \in Daemons, Check(d) PROVE ServerTypeOK'
    <2>1. raced' \in BOOLEAN
      BY <1>2 DEF Check, ServerTypeOK
    <2>2. CASE Reachable
      <3>1. /\ daemon' = [daemon EXCEPT ![d] = "gone"]
            /\ path \in Daemons /\ d \in Peers
            /\ conn' = [conn EXCEPT ![d] = "backlog"]
            /\ server' = [server EXCEPT ![d] = path]
        BY <1>2, <2>2 DEF Check, Reachable, ConnectTo, ServerTypeOK, Peers
      <3>2. conn' \in [Peers -> ConnStates]
        BY <3>1 DEF ServerTypeOK, ConnStates
      <3>3. \A q \in Peers : server'[q] = NoDaemon <=> conn'[q] = "none"
        BY <3>1 DEF ServerTypeOK
      <3>4. server' \in [Peers -> Daemons \cup {NoDaemon}]
        BY <3>1 DEF ServerTypeOK
      <3>5. UNCHANGED <<path, events, known, hosting, client>>
        BY <1>2 DEF Check, loopVars
      <3> QED BY <2>1, <3>1, <3>2, <3>3, <3>4, <3>5 DEF ServerTypeOK, ConnStates
    <2>3. CASE ~Reachable
      BY <1>2, <2>1, <2>3 DEF Check, ServerTypeOK, loopVars
    <2> QED BY <2>2, <2>3
  <1>3. ASSUME NEW d \in Daemons, RemoveStale(d) PROVE ServerTypeOK'
    BY <1>3 DEF RemoveStale, ServerTypeOK, loopVars, peerVars
  <1>4. ASSUME NEW d \in Daemons, Bind(d) PROVE ServerTypeOK'
    BY <1>4 DEF Bind, ServerTypeOK, loopVars, peerVars
  <1>5. ASSUME NEW d \in Daemons, NewConnection(d) PROVE ServerTypeOK'
    <2>1. events' \in [Daemons -> Seq(EventSet)]
      BY <1>5, TakenTyped DEF NewConnection, Receive
    <2>2. /\ Next1(d).from \in Peers
          /\ server[Next1(d).from] = d
      BY <1>5, HeadTyped DEF NewConnection, Receive, ServerInv, EventsInv, Ordered, ConnectionNew, At
    <2> QED BY <1>5, <2>1, <2>2 DEF NewConnection, ServerTypeOK, EventSet
  <1>6. ASSUME NEW d \in Daemons, ClientMessage(d) PROVE ServerTypeOK'
    <2>1. events' \in [Daemons -> Seq(EventSet)] /\ Next1(d).from \in Peers
      <3>1. Tail(events[d]) \in Seq(EventSet)
        BY <1>6, EventsTyped DEF ClientMessage, Receive
      <3>2. "shutdown" \in Kinds
        BY DEF Kinds
      <3> QED BY <1>6, <3>1, <3>2, SelfTyped, TakenTyped, HeadTyped
              DEF ClientMessage, Receive
    <2>2. daemon' = daemon \/ daemon' = [daemon EXCEPT ![d] = "stuck"]
      BY <1>6 DEF ClientMessage, SendSelf
    <2>3. conn' = conn \/ (conn[Next1(d).from] = "asked"
                          /\ conn' = [conn EXCEPT ![Next1(d).from] = "answering"])
      BY <1>6 DEF ClientMessage, Answer
    <2>4. hosting' \in [Daemons -> BOOLEAN]
      BY <1>6 DEF ClientMessage, ServerTypeOK
    <2> QED BY <1>6, <2>1, <2>2, <2>3, <2>4 DEF ClientMessage, ServerTypeOK, EventSet
  <1>7. ASSUME NEW d \in Daemons, ClientDisconnected(d) PROVE ServerTypeOK'
    <2>1. events' \in [Daemons -> Seq(EventSet)]
      BY <1>7, TakenTyped DEF ClientDisconnected, Receive
    <2>2. /\ Next1(d).from \in Peers
          /\ server[Next1(d).from] = d
      BY <1>7, HeadTyped DEF ClientDisconnected, Receive, ServerInv, EventsInv, Ordered, EndLast, At
    <2> QED BY <1>7, <2>1, <2>2 DEF ClientDisconnected, ServerTypeOK, EventSet
  <1>8. ASSUME NEW d \in Daemons, PtyOrChild(d) PROVE ServerTypeOK'
    <2>1. events' \in [Daemons -> Seq(EventSet)]
      BY <1>8, TakenTyped DEF PtyOrChild, Receive
    <2> QED BY <1>8, <2>1 DEF PtyOrChild, ServerTypeOK, EventSet, peerVars
  <1>9. ASSUME NEW d \in Daemons, Shutdown(d) PROVE ServerTypeOK'
    <2>1. events' \in [Daemons -> Seq(EventSet)]
      BY <1>9, TakenTyped DEF Shutdown, Receive
    <2> QED BY <1>9, <2>1 DEF Shutdown, ServerTypeOK, EventSet, peerVars
  <1>10. ASSUME NEW d \in Daemons, SigChld(d) PROVE ServerTypeOK'
    <2>1. events[d] \in Seq(EventSet) /\ "child" \in Kinds
      BY EventsTyped DEF Kinds
    <2>2. /\ events' \in [Daemons -> Seq(EventSet)]
          /\ daemon' = daemon \/ daemon' = [daemon EXCEPT ![d] = "stuck"]
      BY <1>10, <2>1, SelfTyped DEF SigChld
    <2> QED BY <1>10, <2>2 DEF SigChld, ServerTypeOK, EventSet, peerVars
  <1>11. ASSUME NEW d \in Daemons, ReadPty(d) PROVE ServerTypeOK'
    <2>1. Event("pty", d) \in EventSet
      BY EventType DEF Kinds, Peers
    <2>2. events' \in [Daemons -> Seq(EventSet)]
      BY <1>11, <2>1, SentTyped DEF ReadPty
    <2> QED BY <1>11, <2>2 DEF ReadPty, ServerTypeOK, EventSet, peerVars
  <1>12. ASSUME NEW d \in Daemons, LeaveLoop(d) PROVE ServerTypeOK'
    BY <1>12 DEF LeaveLoop, ServerTypeOK, loopVars, peerVars
  <1>13. ASSUME NEW d \in Daemons, Exit(d) \/ Crash(d) PROVE ServerTypeOK'
    BY <1>13, EndTyped DEF Exit, Crash, ServerTypeOK
  <1>14. ASSUME NEW p \in Peers, Accept(p) \/ ReadRequest(p) \/ ReadEnd(p)
         PROVE  ServerTypeOK'
    <2>1. server[p] \in Daemons
      BY <1>14 DEF Accept, ReadRequest, ReadEnd, ServerTypeOK
    <2>2. \A kind \in Kinds : Event(kind, p) \in EventSet
      BY EventType
    <2>3. events' \in [Daemons -> Seq(EventSet)]
      BY <1>14, <2>1, <2>2, SentTyped DEF Accept, ReadRequest, ReadEnd, Kinds
    <2>4. /\ \E s \in {"accepted", "asked", "ending"} : conn' = [conn EXCEPT ![p] = s]
          /\ \A q \in Peers : conn'[q] = "none" <=> conn[q] = "none"
      BY <1>14 DEF Accept, ReadRequest, ReadEnd, ServerTypeOK
    <2>5. UNCHANGED <<path, daemon, known, hosting, client, server, raced>>
      BY <1>14 DEF Accept, ReadRequest, ReadEnd
    <2>6. conn' \in [Peers -> ConnStates]
      BY <2>4 DEF ServerTypeOK, ConnStates
    <2>7. \A q \in Peers : server'[q] = NoDaemon <=> conn'[q] = "none"
      BY <2>4, <2>5 DEF ServerTypeOK
    <2> QED BY <2>3, <2>5, <2>6, <2>7 DEF ServerTypeOK, EventSet, ConnStates
  <1>15. ASSUME NEW c \in Clients, WriteReply(c) PROVE ServerTypeOK'
    BY <1>15 DEF WriteReply, ServerTypeOK, loopVars, Peers
  <1>16. ASSUME NEW c \in Clients, Connect(c) PROVE ServerTypeOK'
    BY <1>16 DEF Connect, Reachable, ConnectTo, ServerTypeOK, loopVars, Peers
  <1>17. ASSUME NEW c \in Clients, StartDaemon(c) PROVE ServerTypeOK'
    BY <1>17 DEF StartDaemon, ServerTypeOK, loopVars
  <1>18. ASSUME NEW c \in Clients, GiveUp(c) \/ Lose(c) PROVE ServerTypeOK'
    BY <1>18 DEF GiveUp, Lose, ServerTypeOK, loopVars
  <1>19. CASE UNCHANGED vars
    BY <1>19 DEF vars, loopVars, peerVars, ServerTypeOK
  <1> QED
    BY <1>1, <1>2, <1>3, <1>4, <1>5, <1>6, <1>7, <1>8, <1>9, <1>10, <1>11, <1>12, <1>13,
       <1>14, <1>15, <1>16, <1>17, <1>18, <1>19 DEF Next, Starting, Handle

-----------------------------------------------------------------------------
(* Starting and ending *)

(* The loop and the tasks of a daemon leave the file and the start-ups alone. *)
LEMMA LoopKeepsStarts ==
  ASSUME ServerTypeOK, StartsApart, NEW d \in Daemons, UNCHANGED <<path, raced>>,
         \/ daemon' = daemon
         \/ daemon[d] = "running" /\ \E s \in {"stuck", "closing"} :
               daemon' = [daemon EXCEPT ![d] = s]
         \/ daemon[d] = "off" /\ daemon' = [daemon EXCEPT ![d] = "starting"]
  PROVE  StartsApart'
  <1>1. \A e \in Daemons : Up(e)' <=> Up(e)
    BY DEF Up, ServerTypeOK
  <1>2. Binding' = Binding
    BY DEF Binding, ServerTypeOK
  <1> QED BY <1>1, <1>2 DEF StartsApart

LEMMA StartsStep == ServerTypeOK /\ StartsApart /\ [Next]_vars => StartsApart'
  <1> SUFFICES ASSUME ServerTypeOK, StartsApart, [Next]_vars PROVE StartsApart'
    OBVIOUS
  <1>1. ASSUME NEW d \in Daemons, Start(d) PROVE StartsApart'
    BY <1>1, LoopKeepsStarts DEF Start
  <1>2. ASSUME NEW d \in Daemons, Check(d) PROVE StartsApart'
    <2>1. CASE Reachable
      BY <1>2, <2>1 DEF Check, StartsApart, Up, Binding, ServerTypeOK
    <2>2. CASE ~Reachable /\ ~raced'
      <3>1. ~raced /\ Binding = {}
        BY <1>2, <2>2 DEF Check
      <3>2. \A e \in Daemons : ~Up(e)
        BY <2>2, <3>1, ServerAssumption DEF StartsApart, Reachable
      <3>3. daemon' = [daemon EXCEPT ![d] = "checked"]
        BY <1>2, <2>2 DEF Check
      <3>4. \A e \in Daemons : ~Up(e)'
        BY <3>2, <3>3 DEF Up, ServerTypeOK
      <3>5. Binding' \subseteq {d}
        BY <3>1, <3>3 DEF Binding, ServerTypeOK
      <3> QED BY <3>4, <3>5 DEF StartsApart
    <2>3. CASE raced'
      BY <2>3 DEF StartsApart
    <2> QED BY <2>1, <2>2, <2>3
  <1>3. ASSUME NEW d \in Daemons, RemoveStale(d) PROVE StartsApart'
    BY <1>3 DEF RemoveStale, StartsApart, Up, Binding, ServerTypeOK
  <1>4. ASSUME NEW d \in Daemons, Bind(d) PROVE StartsApart'
    <2>1. CASE path = NoDaemon /\ ~raced
      <3>1. Binding = {d} /\ \A e \in Daemons : ~Up(e)
        BY <1>4, <2>1 DEF Bind, Binding, StartsApart
      <3>2. path' = d /\ daemon' = [daemon EXCEPT ![d] = "running"]
        BY <1>4, <2>1 DEF Bind
      <3>3. Binding' = {}
        BY <3>1, <3>2 DEF Binding, ServerTypeOK
      <3>4. \A e \in Daemons : Up(e)' => e = d
        BY <3>1, <3>2 DEF Up, ServerTypeOK
      <3> QED BY <3>2, <3>3, <3>4 DEF StartsApart
    <2>2. CASE path # NoDaemon
      BY <1>4, <2>2 DEF Bind, StartsApart, Up, Binding, ServerTypeOK
    <2>3. CASE raced
      BY <1>4, <2>3 DEF Bind, StartsApart
    <2> QED BY <2>1, <2>2, <2>3
  <1>5. ASSUME NEW d \in Daemons, Handle(d) PROVE StartsApart'
    BY <1>5, LoopKeepsStarts
       DEF Handle, NewConnection, ClientMessage, ClientDisconnected, PtyOrChild, Shutdown,
           Receive, SendSelf
  <1>6. ASSUME NEW d \in Daemons, SigChld(d) \/ ReadPty(d) \/ LeaveLoop(d)
        PROVE  StartsApart'
    BY <1>6, LoopKeepsStarts DEF SigChld, ReadPty, LeaveLoop, SendSelf
  <1>7. ASSUME NEW d \in Daemons, Exit(d) PROVE StartsApart'
    BY <1>7 DEF Exit, End, StartsApart, Up, Binding, ServerTypeOK
  <1>8. ASSUME NEW d \in Daemons, Crash(d) PROVE StartsApart'
    BY <1>8 DEF Crash, End, StartsApart, Up, Binding, ServerTypeOK
  <1>9. ASSUME NEW c \in Clients, StartDaemon(c) PROVE StartsApart'
    BY <1>9, LoopKeepsStarts DEF StartDaemon, StartsApart, Up, Binding, ServerTypeOK
  <1>10. ASSUME UNCHANGED <<path, daemon, raced>> PROVE StartsApart'
    BY <1>10 DEF StartsApart, Up, Binding, ServerTypeOK
  <1>11. ASSUME NEW p \in Peers, Accept(p) \/ ReadRequest(p) \/ ReadEnd(p)
         PROVE  StartsApart'
    BY <1>10, <1>11 DEF Accept, ReadRequest, ReadEnd
  <1>12. ASSUME NEW c \in Clients,
                WriteReply(c) \/ Connect(c) \/ GiveUp(c) \/ Lose(c)
         PROVE  StartsApart'
    BY <1>10, <1>12 DEF WriteReply, Connect, GiveUp, Lose
  <1>13. CASE UNCHANGED vars
    BY <1>10, <1>13 DEF vars
  <1> QED
    BY <1>1, <1>2, <1>3, <1>4, <1>5, <1>6, <1>7, <1>8, <1>9, <1>11, <1>12, <1>13
       DEF Next, Starting

(* Nobody is connected before connecting: connections are made with the    *)
(* step that leaves these states, and other steps change those there are.  *)
LEMMA UnconnectedStep ==
  ASSUME ServerInv, [Next]_vars
  PROVE  Unconnected'
  <1> USE ServerAssumption DEF ServerInv
  <1>1. ASSUME \A c \in Clients : client'[c] \in {"idle", "retrying"} =>
                                   client[c] \in {"idle", "retrying"},
               \A d \in Daemons : daemon'[d] \in {"off", "starting"} =>
                                   daemon[d] \in {"off", "starting"},
               \A p \in Peers : conn[p] = "none" => conn'[p] = "none"
        PROVE  Unconnected'
    BY <1>1 DEF Unconnected, Peers
  <1>2. ASSUME NEW d \in Daemons, Start(d) PROVE Unconnected'
    BY <1>1, <1>2 DEF Start, ServerTypeOK, peerVars
  <1>3. ASSUME NEW d \in Daemons, Check(d) PROVE Unconnected'
    <2>1. daemon' \in {[daemon EXCEPT ![d] = "gone"], [daemon EXCEPT ![d] = "checked"]}
          /\ UNCHANGED client
      BY <1>3 DEF Check
    <2>2. conn' = conn \/ conn' = [conn EXCEPT ![d] = "backlog"]
      BY <1>3 DEF Check, ConnectTo
    <2>3. d \in Peers \ Clients
      BY DEF Peers
    <2> QED BY <2>1, <2>2, <2>3 DEF Unconnected, ServerTypeOK, Peers
  <1>4. ASSUME NEW d \in Daemons, RemoveStale(d) \/ Bind(d) \/ LeaveLoop(d)
        PROVE  Unconnected'
    BY <1>1, <1>4 DEF RemoveStale, Bind, LeaveLoop, ServerTypeOK, peerVars
  <1>5. ASSUME NEW d \in Daemons, NewConnection(d) PROVE Unconnected'
    <2>1. /\ Next1(d).from \in Peers
          /\ conn[Next1(d).from] = "accepted"
      BY <1>5, HeadTyped DEF NewConnection, Receive, EventsInv, Ordered, ConnectionNew, At
    <2> QED BY <1>1, <1>5, <2>1 DEF NewConnection, ServerTypeOK
  <1>6. ASSUME NEW d \in Daemons, ClientMessage(d) PROVE Unconnected'
    <2>1. daemon' = daemon \/ daemon' = [daemon EXCEPT ![d] = "stuck"]
      BY <1>6 DEF ClientMessage, SendSelf
    <2>2. conn' = conn \/ (conn[Next1(d).from] = "asked"
                          /\ conn' = [conn EXCEPT ![Next1(d).from] = "answering"])
      BY <1>6 DEF ClientMessage, Answer
    <2> QED BY <1>1, <1>6, <2>1, <2>2 DEF ClientMessage, ServerTypeOK
  <1>7. ASSUME NEW d \in Daemons, ClientDisconnected(d) PROVE Unconnected'
    <2>1. /\ Next1(d).from \in Peers
          /\ conn[Next1(d).from] = "ending"
      BY <1>7, HeadTyped DEF ClientDisconnected, Receive, EventsInv, Ordered, EndLast, At
    <2> QED BY <1>1, <1>7, <2>1 DEF ClientDisconnected, ServerTypeOK
  <1>8. ASSUME NEW d \in Daemons, PtyOrChild(d) \/ Shutdown(d) \/ ReadPty(d) \/ SigChld(d)
        PROVE  Unconnected'
    BY <1>1, <1>8
       DEF PtyOrChild, Shutdown, ReadPty, SigChld, SendSelf, ServerTypeOK, peerVars
  <1>9. ASSUME NEW d \in Daemons, Exit(d) \/ Crash(d) PROVE Unconnected'
    BY <1>1, <1>9 DEF Exit, Crash, End, ServerTypeOK
  <1>10. ASSUME NEW p \in Peers, Accept(p) \/ ReadRequest(p) \/ ReadEnd(p)
         PROVE  Unconnected'
    BY <1>1, <1>10 DEF Accept, ReadRequest, ReadEnd, ServerTypeOK
  <1>11. ASSUME NEW c \in Clients, WriteReply(c) PROVE Unconnected'
    BY <1>1, <1>11 DEF WriteReply, ServerTypeOK, Peers
  <1>12. ASSUME NEW c \in Clients, Connect(c) PROVE Unconnected'
    BY <1>12 DEF Connect, ConnectTo, Unconnected, ServerTypeOK, Peers
  <1>13. ASSUME NEW c \in Clients, StartDaemon(c) PROVE Unconnected'
    BY <1>1, <1>13 DEF StartDaemon, ServerTypeOK
  <1>14. ASSUME NEW c \in Clients, GiveUp(c) \/ Lose(c) PROVE Unconnected'
    BY <1>1, <1>14 DEF GiveUp, Lose, ServerTypeOK
  <1>15. CASE UNCHANGED vars
    BY <1>1, <1>15 DEF vars, peerVars
  <1> QED
    BY <1>2, <1>3, <1>4, <1>5, <1>6, <1>7, <1>8, <1>9, <1>10, <1>11, <1>12, <1>13, <1>14,
       <1>15 DEF Next, Starting, Handle

-----------------------------------------------------------------------------
(* The order of the events *)

(* d's events lost the first n, and at most new was put behind them. *)
Shifted(d, n, new) ==
    \A k \in DOMAIN events'[d] :
        \/ k + n \in DOMAIN events[d] /\ events'[d][k] = events[d][k + n]
        \/ events'[d][k] = new /\ \A j \in DOMAIN events'[d] : j <= k

OthersKept(d) == \A e \in Daemons \ {d} : events'[e] = events[e]

LEMMA SentShifts ==
  ASSUME ServerTypeOK, NEW d \in Daemons, NEW e \in EventSet, Send(d, e)
  PROVE  Shifted(d, 0, e) /\ OthersKept(d)
  <1>1. events[d] \in Seq(EventSet) /\ events'[d] = Append(events[d], e)
    BY EventsTyped DEF Send
  <1>2. Shifted(d, 0, e)
    BY <1>1 DEF Shifted
  <1> QED BY <1>2, EventsTyped DEF Send, OthersKept

LEMMA TakenShifts ==
  ASSUME ServerTypeOK, NEW d \in Daemons, events[d] # <<>>, Taken(d), NEW e
  PROVE  Shifted(d, 1, e) /\ OthersKept(d)
  <1>1. events[d] \in Seq(EventSet) /\ events'[d] = Tail(events[d])
    BY EventsTyped DEF Taken
  <1>2. Shifted(d, 1, e)
    BY <1>1 DEF Shifted
  <1> QED BY <1>2, EventsTyped DEF Taken, OthersKept

LEMMA SelfShifts ==
  ASSUME ServerTypeOK, NEW d \in Daemons, NEW kind \in Kinds
  PROVE  /\ SendSelf(d, events[d], kind)
                => Shifted(d, 0, Event(kind, d)) /\ OthersKept(d)
         /\ events[d] # <<>> /\ SendSelf(d, Tail(events[d]), kind)
                => Shifted(d, 1, Event(kind, d)) /\ OthersKept(d)
  <1>1. Event(kind, d) \in EventSet
    BY EventType DEF Peers
  <1>2. ASSUME SendSelf(d, events[d], kind)
        PROVE  Shifted(d, 0, Event(kind, d)) /\ OthersKept(d)
    BY <1>1, <1>2, SentShifts DEF SendSelf, Send
  <1>3. ASSUME events[d] # <<>>, SendSelf(d, Tail(events[d]), kind)
        PROVE  Shifted(d, 1, Event(kind, d)) /\ OthersKept(d)
    <2>1. /\ events[d] \in Seq(EventSet)
          /\ events'[d] = Append(Tail(events[d]), Event(kind, d))
      BY <1>3, EventsTyped DEF SendSelf
    <2>2. Shifted(d, 1, Event(kind, d))
      BY <1>1, <1>3, <2>1 DEF Shifted
    <2> QED BY <1>3, <2>2, EventsTyped DEF SendSelf, OthersKept
  <1> QED BY <1>2, <1>3

LEMMA Indices ==
  ServerTypeOK => \A d \in Daemons : \A k \in DOMAIN events[d] : k \in Nat /\ k >= 1
  BY EventsTyped

Connecting == {"connection", "message", "disconnected"}

(* Of the events of p some went from the front and none came. *)
NoNews(d, p) ==
    \E n \in {0, 1} : \A k \in DOMAIN events'[d] :
        \/ k + n \in DOMAIN events[d] /\ events'[d][k] = events[d][k + n]
        \/ ~(events'[d][k].kind \in Connecting /\ events'[d][k].from = p)

(* Where the connection of p goes without an event. *)
Unremarked(p) ==
    \/ conn'[p] = conn[p]
    \/ conn[p] = "asked" /\ conn'[p] = "answering"
    \/ conn[p] = "answering" /\ conn'[p] = "answered"

LEMMA KeptOrder ==
  ASSUME ServerTypeOK', NEW d \in Daemons, NEW p \in Peers, Ordered(d, p), NoNews(d, p),
         \/ server'[p] = server[p] /\ Unremarked(p)
         \/ server[p] # d
  PROVE  Ordered(d, p)'
  <1>1. PICK n \in {0, 1} : \A j \in DOMAIN events'[d] :
            \/ j + n \in DOMAIN events[d] /\ events'[d][j] = events[d][j + n]
            \/ ~(events'[d][j].kind \in Connecting /\ events'[d][j].from = p)
    BY DEF NoNews
  <1>2. \A j \in DOMAIN events'[d] : j \in Nat
    BY DEF ServerTypeOK
  <1>3. ConnectionNew(d, p)'
    BY <1>1, <1>2 DEF Ordered, ConnectionNew, At, Connecting, Unremarked
  <1>4. MessagesServed(d, p)'
    BY <1>1, <1>2 DEF Ordered, MessagesServed, At, Connecting, Unremarked, Served
  <1>5. EndLast(d, p)'
    BY <1>1, <1>2 DEF Ordered, EndLast, At, Connecting, Unremarked
  <1> QED BY <1>3, <1>4, <1>5 DEF Ordered

(* A step without an event of a connection. *)
LEMMA QuietStep ==
  ASSUME ServerTypeOK, ServerTypeOK', EventsInv, UNCHANGED known,
         \A d \in Daemons, p \in Peers : NoNews(d, p),
         \A p \in Peers :
            \/ server'[p] = server[p] /\ Unremarked(p)
            \/ conn[p] = "none" /\ conn'[p] = "backlog"
  PROVE  EventsInv'
  <1>1. KnownAreServed'
    BY DEF EventsInv, KnownAreServed, Served, Unremarked
  <1>2. ASSUME NEW d \in Daemons, NEW p \in Peers PROVE Ordered(d, p)'
    <2>1. conn[p] = "none" => server[p] # d
      BY ServerAssumption DEF ServerTypeOK
    <2> QED BY <2>1, KeptOrder DEF EventsInv
  <1> QED BY <1>1, <1>2 DEF EventsInv

(* The step of the connection p that tells of one kind of event. *)
LEMMA NewsStep ==
  ASSUME ServerTypeOK, ServerTypeOK', EventsInv, NEW p \in Peers, server[p] \in Daemons,
         NEW kind \in Connecting, Send(server[p], Event(kind, p)),
         UNCHANGED <<known, server>>, NEW s, conn' = [conn EXCEPT ![p] = s],
         \/ kind = "connection" /\ conn[p] = "backlog" /\ s = "accepted"
         \/ kind = "message" /\ conn[p] = "open" /\ s = "asked"
         \/ kind = "disconnected" /\ conn[p] \in Served \ {"ending"} /\ s = "ending"
  PROVE  EventsInv'
  <1> DEFINE d == server[p]
  <1>1. Event(kind, p) \in EventSet
    BY EventType DEF Kinds, Connecting
  <1>2. Shifted(d, 0, Event(kind, p)) /\ OthersKept(d)
    BY <1>1, SentShifts
  <1>3. KnownAreServed'
    BY DEF EventsInv, KnownAreServed, Served, ServerTypeOK
  <1>4. ASSUME NEW e \in Daemons, NEW q \in Peers, e # d \/ q # p
        PROVE  Ordered(e, q)'
    <2>1. NoNews(e, q)
      <3>1. CASE e = d
        BY <1>2, <1>4, <3>1 DEF NoNews, Shifted, Event
      <3>2. CASE e # d
        BY <1>2, <3>2, Indices DEF NoNews, OthersKept
      <3> QED BY <3>1, <3>2
    <2>2. server[q] # e \/ (server'[q] = server[q] /\ Unremarked(q))
      BY <1>4 DEF Unremarked, ServerTypeOK
    <2> QED BY <2>1, <2>2, KeptOrder DEF EventsInv
  <1>5. Ordered(d, p)'
    <2>1. \A k \in DOMAIN events'[d] : k \in Nat
      BY DEF ServerTypeOK
    <2>2. \A k \in DOMAIN events'[d] :
              \/ k \in DOMAIN events[d] /\ events'[d][k] = events[d][k]
              \/ /\ events'[d][k].kind = kind /\ events'[d][k].from = p
                 /\ \A j \in DOMAIN events'[d] : j <= k
      BY <1>2, <2>1 DEF Shifted, Event
    <2>3. Ordered(d, p) /\ conn'[p] = s
      BY DEF EventsInv, ServerTypeOK
    <2>4. ConnectionNew(d, p)'
      BY <2>1, <2>2, <2>3 DEF Ordered, ConnectionNew, At, Served
    <2>5. MessagesServed(d, p)'
      BY <2>1, <2>2, <2>3 DEF Ordered, MessagesServed, At, Served
    <2>6. EndLast(d, p)'
      BY <2>1, <2>2, <2>3 DEF Ordered, EndLast, At, Served
    <2> QED BY <2>4, <2>5, <2>6 DEF Ordered
  <1> QED BY <1>3, <1>4, <1>5 DEF EventsInv

(* Only the loop's own events come, and some may go. *)
LEMMA ShiftIsNoNews ==
  ASSUME ServerTypeOK, NEW d \in Daemons, NEW n \in {0, 1}, NEW new,
         Shifted(d, n, new), new.kind \notin Connecting, OthersKept(d)
  PROVE  \A e \in Daemons, p \in Peers : NoNews(e, p)
  <1> SUFFICES ASSUME NEW e \in Daemons, NEW p \in Peers PROVE NoNews(e, p)
    OBVIOUS
  <1>1. CASE e = d
    BY <1>1 DEF NoNews, Shifted
  <1>2. CASE e # d
    BY <1>2, Indices DEF NoNews, OthersKept
  <1> QED BY <1>1, <1>2

LEMMA TakenIsNoNews ==
  ASSUME ServerTypeOK, NEW d \in Daemons, events[d] # <<>>, Taken(d)
  PROVE  \A e \in Daemons, p \in Peers : NoNews(e, p)
  <1>1. Shifted(d, 1, Event("child", d)) /\ OthersKept(d)
    BY TakenShifts
  <1> QED BY <1>1, ShiftIsNoNews DEF Event, Connecting

LEMMA SelfIsNoNews ==
  ASSUME ServerTypeOK, NEW d \in Daemons, NEW kind \in {"child", "shutdown"},
         \/ SendSelf(d, events[d], kind)
         \/ events[d] # <<>> /\ SendSelf(d, Tail(events[d]), kind)
  PROVE  \A e \in Daemons, p \in Peers : NoNews(e, p)
  <1>1. \E n \in {0, 1} : Shifted(d, n, Event(kind, d)) /\ OthersKept(d)
    BY SelfShifts DEF Kinds
  <1> QED BY <1>1, ShiftIsNoNews DEF Event, Connecting

LEMMA SameIsNoNews ==
  ASSUME ServerTypeOK, UNCHANGED events
  PROVE  \A d \in Daemons, p \in Peers : NoNews(d, p)
  BY Indices DEF NoNews

LEMMA NewConnectionOrder ==
  ASSUME ServerTypeOK, ServerTypeOK', EventsInv, NEW d \in Daemons, NewConnection(d)
  PROVE  EventsInv'
  <1>0. PICK p \in Peers : p = Next1(d).from
    BY HeadTyped DEF NewConnection, Receive
  <1>1. /\ events[d] # <<>> /\ Taken(d)
        /\ 1 \in DOMAIN events[d] /\ At(d, 1, "connection", p)
    BY <1>0, HeadTyped DEF NewConnection, Receive, At
  <1>2. /\ server[p] = d /\ conn[p] = "accepted"
        /\ \A j \in DOMAIN events[d] : At(d, j, "connection", p) => j = 1
    BY <1>1 DEF EventsInv, Ordered, ConnectionNew
  <1>3. /\ conn' = [conn EXCEPT ![p] = "open"] /\ UNCHANGED server
        /\ known' = [known EXCEPT ![d] = @ \cup {p}]
    BY <1>0 DEF NewConnection
  <1>4. KnownAreServed'
    BY <1>1, <1>2, <1>3 DEF EventsInv, KnownAreServed, Served, ServerTypeOK
  <1>5. \A e \in Daemons, q \in Peers : NoNews(e, q)
    BY <1>1, TakenIsNoNews
  <1>6. ASSUME NEW e \in Daemons, NEW q \in Peers, e # d \/ q # p
        PROVE  Ordered(e, q)'
    <2>1. server[q] # e \/ (server'[q] = server[q] /\ Unremarked(q))
      BY <1>1, <1>2, <1>3, <1>6 DEF Unremarked, ServerTypeOK
    <2> QED BY <1>5, <2>1, KeptOrder DEF EventsInv
  <1>7. Ordered(d, p)'
    <2>1. \A k \in DOMAIN events'[d] :
              k \in Nat /\ k >= 1 /\ k + 1 \in DOMAIN events[d] /\ events'[d][k] = events[d][k + 1]
      BY <1>1, EventsTyped DEF Taken
    <2>2. \A k \in DOMAIN events'[d] :
              ~(events'[d][k].kind \in Connecting /\ events'[d][k].from = p)
      BY <1>1, <1>2, <2>1
         DEF EventsInv, Ordered, ConnectionNew, MessagesServed, EndLast, At, Served, Connecting
    <2> QED BY <2>2 DEF Ordered, ConnectionNew, MessagesServed, EndLast, At, Connecting
  <1> QED BY <1>4, <1>6, <1>7 DEF EventsInv

LEMMA DisconnectedOrder ==
  ASSUME ServerTypeOK, ServerTypeOK', EventsInv, NEW d \in Daemons, ClientDisconnected(d)
  PROVE  EventsInv'
  <1>0. PICK p \in Peers : p = Next1(d).from
    BY HeadTyped DEF ClientDisconnected, Receive
  <1>1. /\ events[d] # <<>> /\ Taken(d)
        /\ 1 \in DOMAIN events[d] /\ At(d, 1, "disconnected", p)
    BY <1>0, HeadTyped DEF ClientDisconnected, Receive, At
  <1>2. /\ server[p] = d /\ conn[p] = "ending"
        /\ \A j \in DOMAIN events[d] :
              At(d, j, "message", p) \/ At(d, j, "disconnected", p) => j <= 1
    BY <1>1 DEF EventsInv, Ordered, EndLast
  <1>3. /\ conn' = [conn EXCEPT ![p] = "closed"] /\ UNCHANGED server
        /\ known' = [known EXCEPT ![d] = @ \ {p}]
    BY <1>0 DEF ClientDisconnected
  <1>4. KnownAreServed'
    BY <1>1, <1>2, <1>3 DEF EventsInv, KnownAreServed, Served, ServerTypeOK
  <1>5. \A e \in Daemons, q \in Peers : NoNews(e, q)
    BY <1>1, TakenIsNoNews
  <1>6. ASSUME NEW e \in Daemons, NEW q \in Peers, e # d \/ q # p
        PROVE  Ordered(e, q)'
    <2>1. server[q] # e \/ (server'[q] = server[q] /\ Unremarked(q))
      BY <1>1, <1>2, <1>3, <1>6 DEF Unremarked, ServerTypeOK
    <2> QED BY <1>5, <2>1, KeptOrder DEF EventsInv
  <1>7. Ordered(d, p)'
    <2>1. \A k \in DOMAIN events'[d] :
              k \in Nat /\ k >= 1 /\ k + 1 \in DOMAIN events[d] /\ events'[d][k] = events[d][k + 1]
      BY <1>1, EventsTyped DEF Taken
    <2>2. \A k \in DOMAIN events'[d] :
              ~(events'[d][k].kind \in Connecting /\ events'[d][k].from = p)
      BY <1>1, <1>2, <2>1
         DEF EventsInv, Ordered, ConnectionNew, MessagesServed, EndLast, At, Served, Connecting
    <2> QED BY <2>2 DEF Ordered, ConnectionNew, MessagesServed, EndLast, At, Connecting
  <1> QED BY <1>4, <1>6, <1>7 DEF EventsInv

LEMMA EndOrder ==
  ASSUME ServerTypeOK, ServerTypeOK', EventsInv, NEW d \in Daemons, End(d)
  PROVE  EventsInv'
  <1>1. KnownAreServed'
    BY DEF End, EventsInv, KnownAreServed, Served, ServerTypeOK
  <1>2. ASSUME NEW e \in Daemons, NEW p \in Peers PROVE Ordered(e, p)'
    <2>1. CASE e = d
      BY <2>1 DEF End, Ordered, ConnectionNew, MessagesServed, EndLast, ServerTypeOK
    <2>2. CASE e # d
      <3>1. NoNews(e, p)
        BY <2>2, Indices DEF End, NoNews, ServerTypeOK
      <3>2. server[p] # e \/ (server'[p] = server[p] /\ Unremarked(p))
        BY <2>2 DEF End, Unremarked, ServerTypeOK
      <3> QED BY <3>1, <3>2, KeptOrder DEF EventsInv
    <2> QED BY <2>1, <2>2
  <1> QED BY <1>1, <1>2 DEF EventsInv

LEMMA EventsStep ==
  ASSUME ServerInv, ServerTypeOK', [Next]_vars
  PROVE  EventsInv'
  <1> USE DEF ServerInv
  <1>1. ASSUME UNCHANGED <<events, known, conn, server>> PROVE EventsInv'
    BY <1>1, SameIsNoNews, QuietStep DEF Unremarked
  <1>2. ASSUME NEW d \in Daemons,
               Start(d) \/ RemoveStale(d) \/ Bind(d) \/ LeaveLoop(d)
        PROVE  EventsInv'
    BY <1>1, <1>2 DEF Start, RemoveStale, Bind, LeaveLoop, loopVars, peerVars
  <1>3. ASSUME NEW d \in Daemons, Check(d) PROVE EventsInv'
    <2>1. UNCHANGED <<events, known>>
      BY <1>3 DEF Check, loopVars
    <2>2. conn[d] = "none"
      BY <1>3 DEF Check, Unconnected
    <2>3. \A p \in Peers :
              \/ server'[p] = server[p] /\ Unremarked(p)
              \/ conn[p] = "none" /\ conn'[p] = "backlog"
      BY <1>3, <2>2 DEF Check, ConnectTo, Unremarked, ServerTypeOK
    <2> QED BY <2>1, <2>3, SameIsNoNews, QuietStep
  <1>4. ASSUME NEW c \in Clients, Connect(c) PROVE EventsInv'
    <2>1. UNCHANGED <<events, known>>
      BY <1>4 DEF Connect, loopVars
    <2>2. conn[c] = "none"
      BY <1>4 DEF Connect, Unconnected
    <2>3. \A p \in Peers :
              \/ server'[p] = server[p] /\ Unremarked(p)
              \/ conn[p] = "none" /\ conn'[p] = "backlog"
      BY <1>4, <2>2 DEF Connect, ConnectTo, Unremarked, ServerTypeOK
    <2> QED BY <2>1, <2>3, SameIsNoNews, QuietStep
  <1>5. ASSUME NEW d \in Daemons, PtyOrChild(d) \/ Shutdown(d) PROVE EventsInv'
    <2>1. events[d] # <<>> /\ Taken(d) /\ UNCHANGED <<known, conn, server>>
      BY <1>5 DEF PtyOrChild, Shutdown, Receive, peerVars
    <2> QED BY <2>1, TakenIsNoNews, QuietStep DEF Unremarked
  <1>6. ASSUME NEW d \in Daemons, ClientMessage(d) PROVE EventsInv'
    <2>1. \A e \in Daemons, p \in Peers : NoNews(e, p)
      BY <1>6, TakenIsNoNews, SelfIsNoNews DEF ClientMessage, Receive
    <2>2. \A p \in Peers : Unremarked(p)
      BY <1>6 DEF ClientMessage, Answer, Unremarked, ServerTypeOK
    <2> QED BY <1>6, <2>1, <2>2, QuietStep DEF ClientMessage
  <1>7. ASSUME NEW d \in Daemons, SigChld(d) PROVE EventsInv'
    <2>1. UNCHANGED <<known, conn, server>>
      BY <1>7 DEF SigChld, peerVars
    <2>2. \A e \in Daemons, p \in Peers : NoNews(e, p)
      BY <1>7, SelfIsNoNews DEF SigChld
    <2> QED BY <2>1, <2>2, QuietStep DEF Unremarked
  <1>8. ASSUME NEW d \in Daemons, ReadPty(d) PROVE EventsInv'
    <2>1. UNCHANGED <<known, conn, server>>
      BY <1>8 DEF ReadPty, peerVars
    <2>2. Event("pty", d) \in EventSet
      BY EventType DEF Kinds, Peers
    <2>3. Shifted(d, 0, Event("pty", d)) /\ OthersKept(d)
      BY <1>8, <2>2, SentShifts DEF ReadPty
    <2>4. \A e \in Daemons, p \in Peers : NoNews(e, p)
      BY <2>3, ShiftIsNoNews DEF Event, Connecting
    <2> QED BY <2>1, <2>4, QuietStep DEF Unremarked
  <1>9. ASSUME NEW d \in Daemons, NewConnection(d) \/ ClientDisconnected(d)
        PROVE  EventsInv'
    BY <1>9, NewConnectionOrder, DisconnectedOrder
  <1>10. ASSUME NEW d \in Daemons, Exit(d) \/ Crash(d) PROVE EventsInv'
    BY <1>10, EndOrder DEF Exit, Crash
  <1>11. ASSUME NEW p \in Peers, Accept(p) \/ ReadRequest(p) \/ ReadEnd(p)
         PROVE  EventsInv'
    <2>1. server[p] \in Daemons
      BY <1>11 DEF Accept, ReadRequest, ReadEnd, ServerTypeOK
    <2>2. CASE Accept(p)
      BY <2>1, <2>2, NewsStep DEF Accept, Connecting
    <2>3. CASE ReadRequest(p)
      BY <2>1, <2>3, NewsStep DEF ReadRequest, Connecting
    <2>4. CASE ReadEnd(p)
      BY <2>1, <2>4, NewsStep DEF ReadEnd, Connecting, Served
    <2> QED BY <1>11, <2>2, <2>3, <2>4
  <1>12. ASSUME NEW c \in Clients, WriteReply(c) PROVE EventsInv'
    <2>1. UNCHANGED <<events, known, server>>
      BY <1>12 DEF WriteReply, loopVars
    <2>2. \A p \in Peers : Unremarked(p)
      BY <1>12 DEF WriteReply, Unremarked, ServerTypeOK
    <2> QED BY <2>1, <2>2, SameIsNoNews, QuietStep
  <1>13. ASSUME NEW c \in Clients, StartDaemon(c) \/ GiveUp(c) \/ Lose(c)
         PROVE  EventsInv'
    BY <1>1, <1>13 DEF StartDaemon, GiveUp, Lose, loopVars
  <1>14. CASE UNCHANGED vars
    BY <1>1, <1>14 DEF vars, loopVars, peerVars
  <1> QED
    BY <1>2, <1>3, <1>4, <1>5, <1>6, <1>7, <1>8, <1>9, <1>10, <1>11, <1>12, <1>13, <1>14
       DEF Next, Starting, Handle

-----------------------------------------------------------------------------
(* The theorems *)

LEMMA ServerInvariant == Spec => []ServerInv
  <1>1. ServerInv /\ [Next]_vars => ServerInv'
    <2> SUFFICES ASSUME ServerInv, [Next]_vars PROVE ServerInv'
      OBVIOUS
    <2>1. ServerTypeOK'
      BY TypeStep
    <2>2. StartsApart'
      BY StartsStep DEF ServerInv
    <2>3. Unconnected'
      BY UnconnectedStep
    <2>4. EventsInv'
      BY <2>1, EventsStep
    <2> QED BY <2>1, <2>2, <2>3, <2>4 DEF ServerInv
  <1> QED BY InitInv, <1>1, PTL DEF Spec

(* The channel holds events of known kinds only, and whoever is connected  *)
(* is connected to a daemon.                                               *)
THEOREM ServerTypeCorrect == Spec => []ServerTypeOK
  BY ServerInvariant, PTL DEF ServerInv

(* However many daemons are started, killed and stopped, the one that runs *)
(* is reachable at the socket, as long as no two starts overlap.           *)
THEOREM ServerSocketOwned == Spec => []SocketOwned
  <1>1. ServerInv => SocketOwned
    BY DEF ServerInv, StartsApart, SocketOwned, Active, Up
  <1> QED BY <1>1, ServerInvariant, PTL

(* No handler runs for a client the loop does not know, for any number of  *)
(* connections and any capacity of the channel.                            *)
THEOREM ServerEventsInOrder == Spec => []EventsInOrder
  <1>1. ASSUME ServerInv PROVE EventsInOrder
    <2> USE <1>1 DEF ServerInv
    <2> SUFFICES ASSUME NEW d \in Daemons, NEW k \in DOMAIN events[d],
                        events[d][k].kind \in {"message", "disconnected"}
                 PROVE  LET p == events[d][k].from IN
                        /\ p \in known[d]
                        /\ \A j \in 1 .. k - 1 :
                              events[d][j] \notin {Event("connection", p),
                                                   Event("disconnected", p)}
      BY DEF EventsInOrder
    <2> DEFINE p == events[d][k].from
    <2>1. p \in Peers
      <3>1. events[d] \in Seq(EventSet)
        BY EventsTyped
      <3>2. events[d][k] \in EventSet
        BY <3>1
      <3> QED BY <3>2 DEF EventSet
    <2>2. Ordered(d, p) /\ (At(d, k, "message", p) \/ At(d, k, "disconnected", p))
      BY <2>1 DEF EventsInv, At
    <2>3. server[p] = d /\ conn[p] \in Served /\ conn[p] # "accepted"
      BY <2>2 DEF Ordered, MessagesServed, EndLast, Served
    <2>4. p \in known[d]
      BY <2>1, <2>3 DEF EventsInv, KnownAreServed
    <2>5. ASSUME NEW j \in 1 .. k - 1
          PROVE  events[d][j] \notin {Event("connection", p), Event("disconnected", p)}
      <3>1. j \in DOMAIN events[d] /\ ~(k <= j)
        BY EventsTyped
      <3>2. ~At(d, j, "connection", p)
        BY <2>2, <2>3, <3>1 DEF Ordered, ConnectionNew
      <3>3. ~At(d, j, "disconnected", p)
        BY <2>2, <3>1 DEF Ordered, EndLast
      <3> QED BY <3>2, <3>3 DEF At, Event
    <2> QED BY <2>4, <2>5
  <1> QED BY <1>1, ServerInvariant, PTL

=============================================================================
