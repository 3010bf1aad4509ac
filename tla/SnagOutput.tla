----------------------------- MODULE SnagOutput -----------------------------
(***************************************************************************)
(* The way of a session's output: read from its pty, taken by the event    *)
(* loop of the daemon, written to the scrollback and sent to the attached  *)
(* clients (src/src/daemon/server.rs), which print it                      *)
(* (src/src/cli/commands.rs).  SnagDaemon has the sessions and who may     *)
(* attach; here there is one session, and the bytes.                       *)
(*                                                                         *)
(* Between the loop and a client lie a channel of 64 frames, the task that *)
(* writes them out and a socket: chan is all three, and Room what they     *)
(* hold.  Output and notices are sent only if there is room; the response  *)
(* to a request is awaited, and the loop does nothing else meanwhile.      *)
(* The other way go the keys and sizes of `snag attach`, through the       *)
(* socket and the task that reads it to the channel of events: requests    *)
(* counts them, and a client that finds no room for one waits in its write *)
(* and reads no frame until the loop has taken one.                        *)
(*                                                                         *)
(* The shell prints any bytes.  Of their values only the place in a        *)
(* character matters: Width is the number of bytes of the character that a *)
(* byte begins in UTF-8, 0 for a continuation byte, and more than 4 for a  *)
(* byte that begins none.                                                  *)
(***************************************************************************)
EXTENDS RingBuffer

Seqs == INSTANCE SequencesExt

CONSTANTS
    Clients,
    Room,       \* frames on the way to one client
    Lines,      \* the arguments of --lines
    Width,
    Mark,       \* U+FFFD, what from_utf8_lossy puts for a broken character
    NoClient,
    Backlog,    \* requests on the way from one client to the loop
    MaxStream,  \* bound of the model: bytes the shell prints
    Typists     \* bound of the model: clients that type or are resized

ASSUME OutputAssumption ==
    /\ NoClient \notin Clients /\ Typists \subseteq Clients
    /\ {Room, Backlog} \subseteq Nat \ {0} /\ MaxStream \in Nat
    /\ Lines \subseteq Nat
    /\ Width \in [Byte -> 0 .. 5] /\ Mark \notin Byte

VARIABLES
    stream,     \* ghost: all that was read of the pty
    attached,   \* the session's attached_clients
    chan,       \* the frames on their way to a client
    awaiting,   \* the response the loop is sending, and to whom
    mode,       \* where a client is in its command
    selecting,  \* clients that run `snag attach`, the others `snag output --follow`
    screen,     \* what a client has printed, followed as long as it misses nothing
    requests,   \* keys and sizes of a client that the loop has yet to take
    stalled,    \* clients that wait for room to write one more
    start,      \* ghost: where in the stream its screen begins
    joined,     \* ghost: where in the stream it was when the client attached
    lost,       \* ghost: a frame for it found no room
    torn        \* the client has lost its place between two frames

daemonSide == <<stream, attached>>
clientSide == <<mode, selecting, screen, torn>>
upstream == <<requests, stalled>>
span == <<start, joined>>
vars == <<ring, daemonSide, chan, awaiting, clientSide, upstream, span, lost>>

Frames ==
    [kind : {"output", "response", "ok", "stolen", "exited"},
     data : Seq(Byte \cup {Mark})]

Frame(kind, data) == [kind |-> kind, data |-> data]

Idle == [client |-> NoClient, frame |-> Frame("ok", <<>>)]

OutputTypeOK ==
    /\ RingTypeOK
    /\ stream \in Seq(Byte) /\ Len(stream) <= MaxStream
    /\ attached \subseteq Clients
    /\ chan \in [Clients -> Seq(Frames)]
    /\ \A c \in Clients : Len(chan[c]) <= Room
    /\ awaiting \in [client : Clients, frame : Frames] \cup {Idle}
    /\ mode \in [Clients -> {"off", "asking", "viewing", "quitting", "leaving"}]
    /\ selecting \subseteq Clients
    /\ screen \in [Clients -> Seq(Byte \cup {Mark})]
    /\ requests \in [Clients -> 0 .. Backlog]
    /\ stalled \subseteq Clients
    /\ start \in [Clients -> 0 .. MaxStream]
    /\ joined \in [Clients -> 0 .. MaxStream]
    /\ lost \subseteq Clients
    /\ torn \subseteq selecting

OutputInit ==
    /\ RingInit
    /\ stream = <<>> /\ attached = {}
    /\ chan = [c \in Clients |-> <<>>]
    /\ awaiting = Idle
    /\ mode = [c \in Clients |-> "off"]
    /\ screen = [c \in Clients |-> <<>>]
    /\ requests = [c \in Clients |-> 0]
    /\ start = [c \in Clients |-> 0] /\ joined = [c \in Clients |-> 0]
    /\ selecting = {} /\ stalled = {} /\ lost = {} /\ torn = {}

-----------------------------------------------------------------------------
(* Helpers *)

(* Mutant: one frame too many. *)
HasRoomOneMore(c) == Len(chan[c]) <= Room

HasRoom(c) == Len(chan[c]) < Room

(* The screens of cs are not followed any further. *)
Forget(cs) ==
    /\ screen' = [c \in Clients |-> IF c \in cs THEN <<>> ELSE screen[c]]
    /\ start' = [c \in Clients |-> IF c \in cs THEN 0 ELSE start[c]]
    /\ joined' = [c \in Clients |-> IF c \in cs THEN 0 ELSE joined[c]]

(* The receiving end of c's channel goes with its connection: what is sent *)
(* to a client that has left is dropped.                                   *)
Open(c) == mode[c] # "leaving"

(* try_send of one frame to each of cs. *)
TrySend(cs, frame) ==
    LET full == {c \in cs : Open(c) /\ ~HasRoom(c)}
    IN  /\ chan' = [c \in Clients |->
                      IF c \in cs \ full /\ Open(c)
                      THEN Append(chan[c], frame) ELSE chan[c]]
        /\ lost' = lost \cup full
        /\ Forget(full)

(* The loop takes an event only when no response keeps it. *)
LoopFree == awaiting = Idle

(* The response to c: sent at once, or the loop waits for room. *)
Respond(c, frame) ==
    IF ~Open(c) THEN UNCHANGED <<chan, awaiting>>
    ELSE IF HasRoom(c)
    THEN /\ chan' = [chan EXCEPT ![c] = Append(@, frame)]
         /\ UNCHANGED awaiting
    ELSE /\ awaiting' = [client |-> c, frame |-> frame]
         /\ UNCHANGED chan

(* A character begins at s[i], and all its bytes are there. *)
Whole(s, i) ==
    /\ Width[s[i]] \in 1 .. 4 /\ i + Width[s[i]] - 1 <= Len(s)
    /\ \A j \in i + 1 .. i + Width[s[i]] - 1 : Width[s[j]] = 0

(* Where the character begins of which s[k] is a later byte. *)
Lead(s, k) ==
    {i \in 1 .. k - 1 :
        /\ Width[s[i]] \in 2 .. 4 /\ k - i < Width[s[i]]
        /\ \A j \in i + 1 .. k : Width[s[j]] = 0}

InWhole(s, k) == \E i \in {k} \cup Lead(s, k) : Whole(s, i)

(* Mutant: each byte is converted by itself. *)
LossyBytewise(s) == [k \in DOMAIN s |-> IF Width[s[k]] = 1 THEN s[k] ELSE Mark]

(* from_utf8_lossy: one Mark for what there is of a character that is cut  *)
(* short, and one for each byte that belongs to none.  (That a few leads   *)
(* allow only some continuation bytes is left out.)                        *)
Lossy(s) ==
    Seqs!FlattenSeq([k \in DOMAIN s |->
        IF InWhole(s, k) THEN <<s[k]>>
        ELSE IF Lead(s, k) # {} THEN <<>> ELSE <<Mark>>])

-----------------------------------------------------------------------------
(* The event loop *)

(* Mutant: the scrollback is sent as it was before the newest bytes. *)
SnapshotShort == SubSeq(AllBytes, 1, Len(AllBytes) - 1)

(* The scrollback an attach answers with. *)
Snapshot == AllBytes

(* One read of the pty, or of the file that captures a registered shell,   *)
(* ends anywhere in what the shell prints.                                 *)
MayRead(data) == Len(stream) + Len(data) <= MaxStream

(* What was read goes to the scrollback and to every attached client that  *)
(* has room for it.                                                        *)
PtyData(data) ==
    /\ LoopFree
    /\ MayRead(data)
    /\ stream' = stream \o data
    /\ Write(data)
    /\ TrySend(attached, Frame("output", data))
    /\ UNCHANGED <<attached, awaiting, mode, selecting, torn, upstream>>

(* The session's list gains c, whose first frame is the response, output.  *)
Begin(c, output) ==
    /\ start' = [start EXCEPT ![c] = Len(stream) - Len(output)]
    /\ joined' = [joined EXCEPT ![c] = Len(stream)]
    /\ mode' = [mode EXCEPT ![c] = "asking"]
    /\ UNCHANGED <<ring, stream, awaiting, screen, torn, upstream>>

(* `snag attach` when nobody is, or with --force: the client that is       *)
(* attached is told and taken off.                                         *)
SessionAttach(c) ==
    LET evicted == attached \cap selecting
        told    == {d \in evicted : Open(d) /\ HasRoom(d)}
    IN  /\ LoopFree /\ mode[c] = "off"
        /\ selecting' = selecting \cup {c}
        /\ attached' = (attached \ evicted) \cup {c}
        /\ chan' = [d \in Clients |->
                      IF d = c THEN <<Frame("response", Lossy(Snapshot))>>
                      ELSE IF d \in told THEN Append(chan[d], Frame("stolen", <<>>))
                      ELSE chan[d]]
        /\ lost' = lost \cup {d \in evicted : Open(d) /\ ~HasRoom(d)}
        /\ Begin(c, Snapshot)

(* `snag output --follow`, with --lines n or without. *)
SessionOutput(c) ==
    \E output \in {AllBytes} \cup {LastNLines(n) : n \in Lines} :
        /\ LoopFree /\ mode[c] = "off"
        /\ attached' = attached \cup {c}
        /\ chan' = [chan EXCEPT ![c] = <<Frame("response", Lossy(output))>>]
        /\ Begin(c, output)
        /\ UNCHANGED <<selecting, lost>>

(* A PtyInput or Resize that c sent, perhaps before it left: an Ok to the  *)
(* client, whatever became of the input.  The write that c waits in gets   *)
(* the room: another request, or the last one, which tells that it leaves. *)
ClientMessage(c) ==
    /\ LoopFree /\ requests[c] > 0
    /\ requests' = [requests EXCEPT ![c] =
                        IF c \in stalled /\ mode[c] = "viewing" THEN @ ELSE @ - 1]
    /\ stalled' = stalled \ {c}
    /\ Respond(c, Frame("ok", <<>>))
    /\ UNCHANGED <<ring, daemonSide, clientSide, span, lost>>

(* PtyEof or ChildExited, in either order and perhaps both: what the pty   *)
(* still holds when the child is waited for is read after the notice.      *)
SessionExited ==
    /\ LoopFree
    /\ TrySend(attached, Frame("exited", <<>>))
    /\ UNCHANGED <<ring, daemonSide, awaiting, mode, selecting, torn, upstream>>

(* The send that kept the loop completes. *)
ResponseSent ==
    /\ ~LoopFree /\ Open(awaiting.client) /\ HasRoom(awaiting.client)
    /\ chan' = [chan EXCEPT ![awaiting.client] = Append(@, awaiting.frame)]
    /\ awaiting' = Idle
    /\ UNCHANGED <<ring, daemonSide, clientSide, upstream, span, lost>>

(* Mutant: the loop waits for a client that has gone. *)
NeverFails == FALSE

(* The write task ends on a closed socket, and with it the channel. *)
SendFails == ~LoopFree /\ mode[awaiting.client] = "leaving"

ResponseDropped ==
    /\ SendFails
    /\ awaiting' = Idle
    /\ UNCHANGED <<ring, daemonSide, chan, clientSide, upstream, span, lost>>

(* What `snag attach` sends when it leaves, after its requests; nobody     *)
(* reads the answer.                                                       *)
SessionDetach(c) ==
    /\ LoopFree /\ c \in selecting \ stalled /\ requests[c] = 0
    /\ mode[c] \in {"quitting", "leaving"}
    /\ attached' = attached \ {c}
    /\ UNCHANGED <<ring, stream, awaiting, chan, clientSide, upstream, span, lost>>

(* The client's connection has ended; the same client may come again.      *)
ClientDisconnected(c) ==
    /\ LoopFree /\ mode[c] = "leaving" /\ requests[c] = 0
    /\ attached' = attached \ {c}
    /\ mode' = [mode EXCEPT ![c] = "off"]
    /\ lost' = lost \ {c} /\ torn' = torn \ {c}
    /\ selecting' = selecting \ {c}
    /\ UNCHANGED <<ring, stream, awaiting, chan, screen, upstream, span>>

-----------------------------------------------------------------------------
(* The clients *)

(* Mutant: frames are read before the response only. *)
ReadsOnce(c) == mode[c] = "asking" /\ chan[c] # <<>>

Reads(c) == mode[c] \in {"asking", "viewing"} /\ chan[c] # <<>>

(* The client's end of the socket goes, and what was on its way with it.   *)
Close(c) ==
    /\ mode' = [mode EXCEPT ![c] = "leaving"]
    /\ chan' = [chan EXCEPT ![c] = <<>>]
    /\ stalled' = stalled \ {c}
    /\ Forget({c})

(* A key, or a new size of the terminal: select! drops the branch that     *)
(* reads and the write is awaited in the other one.                        *)
SendRequest(c) ==
    /\ mode[c] = "viewing" /\ c \in (selecting \cap Typists) \ stalled
    /\ IF requests[c] < Backlog
       THEN requests' = [requests EXCEPT ![c] = @ + 1] /\ UNCHANGED stalled
       ELSE stalled' = stalled \cup {c} /\ UNCHANGED requests
    /\ UNCHANGED <<ring, daemonSide, chan, awaiting, clientSide, span, lost>>

(* The client leaves its loop, with rest unread.  `snag attach` awaits the *)
(* write of its last request before it closes the socket.                  *)
Quit(c, rest) ==
    IF c \in selecting /\ requests[c] = Backlog
    THEN /\ mode' = [mode EXCEPT ![c] = "quitting"]
         /\ chan' = [chan EXCEPT ![c] = rest]
         /\ stalled' = stalled \cup {c}
         /\ Forget({c})
    ELSE Close(c)

(* The first frame is the response to the command; then c prints output,   *)
(* skips what answers its own requests, and leaves on a notice.            *)
ReadFrame(c) ==
    /\ Reads(c) /\ c \notin torn \cup stalled
    /\ LET frame == Head(chan[c])
       IN  IF frame.kind \in {"stolen", "exited"}
           THEN Quit(c, Tail(chan[c]))
           ELSE /\ chan' = [chan EXCEPT ![c] = Tail(@)]
                /\ mode' = [mode EXCEPT ![c] = "viewing"]
                /\ screen' = [screen EXCEPT ![c] =
                                 IF c \in lost THEN <<>> ELSE @ \o frame.data]
                /\ UNCHANGED <<stalled, span>>
    /\ UNCHANGED <<ring, daemonSide, awaiting, selecting, torn, requests, lost>>

(* A key pressed when a frame has arrived in part: select! drops the       *)
(* read_frame that waits for the rest, and the bytes it had taken.         *)
ReadCancelled(c) ==
    /\ mode[c] = "viewing" /\ Reads(c) /\ c \in selecting \ (torn \cup stalled)
    /\ torn' = torn \cup {c}
    /\ Forget({c})
    /\ UNCHANGED <<ring, daemonSide, chan, awaiting, mode, selecting, upstream, lost>>

(* From then on c takes bytes of a payload for the head of a frame: it     *)
(* swallows them, or finds a length that is too large and gives up.        *)
ReadTorn(c) ==
    /\ Reads(c) /\ c \in torn \ stalled
    /\ \/ Quit(c, Tail(chan[c]))
       \/ /\ chan' = [chan EXCEPT ![c] = Tail(@)]
          /\ UNCHANGED <<mode, screen, stalled, span>>
    /\ UNCHANGED <<ring, daemonSide, awaiting, selecting, torn, requests, lost>>

(* The user leaves: a key of `snag attach`.                                *)
Leave(c) ==
    /\ mode[c] = "viewing" /\ c \in selecting \ stalled
    /\ Quit(c, chan[c])
    /\ UNCHANGED <<ring, daemonSide, awaiting, selecting, torn, requests, lost>>

(* The last request is written and the client ends.                        *)
Exit(c) ==
    /\ mode[c] = "quitting" /\ c \notin stalled
    /\ Close(c)
    /\ UNCHANGED <<ring, daemonSide, awaiting, selecting, torn, requests, lost>>

(* The client dies, or is interrupted, as `snag output --follow` is.       *)
Die(c) ==
    /\ mode[c] \in {"asking", "viewing", "quitting"}
    /\ Close(c)
    /\ UNCHANGED <<ring, daemonSide, awaiting, selecting, torn, requests, lost>>

-----------------------------------------------------------------------------
(* Specification *)

OutputNext ==
    \/ \E data \in Chunks : PtyData(data)
    \/ SessionExited \/ ResponseSent \/ ResponseDropped
    \/ \E c \in Clients :
          \/ SessionAttach(c) \/ SessionOutput(c) \/ ClientMessage(c)
          \/ SessionDetach(c) \/ ClientDisconnected(c) \/ SendRequest(c)
          \/ ReadFrame(c) \/ ReadTorn(c) \/ ReadCancelled(c)
          \/ Leave(c) \/ Exit(c) \/ Die(c)

OutputSpec == OutputInit /\ [][OutputNext]_vars

(* The runtime resumes a send that can go on and a client that can end.    *)
(* A client that is in its select! again and again, with a frame to read,  *)
(* takes one some time, however many keys come between (select! picks at   *)
(* random); the loop takes what is sent to it in the order it was sent.    *)
(* Nobody has to type, attach or print.                                    *)
FairOutputSpec ==
    /\ OutputSpec
    /\ WF_vars(ResponseSent) /\ WF_vars(ResponseDropped)
    /\ \A c \in Clients :
          /\ SF_vars(ReadFrame(c)) /\ SF_vars(ReadTorn(c))
          /\ SF_vars(ClientMessage(c)) /\ WF_vars(Exit(c))

-----------------------------------------------------------------------------
(* Properties *)

(* The clients that have missed nothing yet. *)
Followed == {c \in Clients \ (lost \cup torn) : mode[c] \in {"asking", "viewing"}}

(* All that c has printed or will print of what was sent to it so far. *)
View(c) ==
    screen[c] \o Seqs!FlattenSeq([k \in DOMAIN chan[c] |-> chan[c][k].data])

(* The text of the scrollback that c was given. *)
Opening(c) == Lossy(SubSeq(stream, start[c] + 1, joined[c]))

(* What c shows if it is sent all that was printed up to the byte end. *)
ViewUpTo(c, end) == Opening(c) \o SubSeq(stream, joined[c] + 1, end)

(* The scrollback a client is given and the output it is sent afterwards   *)
(* fit: unless a frame was dropped, or the client lost its place, they are *)
(* one piece of what the shell printed, without a gap or a repetition, of  *)
(* which only the scrollback is converted, and while the client is         *)
(* attached nothing newer is missing.                                      *)
ViewContiguous ==
    \A c \in Followed :
        \E end \in joined[c] .. Len(stream) :
            /\ View(c) = ViewUpTo(c, end)
            /\ c \in attached => end = Len(stream)

(* s ends within the character that begins at s[i]. *)
Unfinished(s, i) ==
    /\ Width[s[i]] \in 2 .. 4 /\ i + Width[s[i]] - 1 > Len(s)
    /\ \A j \in i + 1 .. Len(s) : Width[s[j]] = 0

(* Every byte of s belongs to a character, the last of which may be cut. *)
WellFormed(s) ==
    \A k \in DOMAIN s :
        \E i \in {k} \cup Lead(s, k) : Whole(s, i) \/ Unfinished(s, i)

(* Converting the scrollback to a string damages no more of well-formed    *)
(* output than the two characters it cuts: the rest of the first, when the *)
(* buffer wrapped inside it, and the last, of which the end was not read   *)
(* yet and is shown by itself when it comes.                               *)
MarksAtEdges ==
    WellFormed(stream) =>
        \A c \in Followed :
            LET given == SubSeq(stream, start[c] + 1, joined[c])
            IN  \A k \in DOMAIN Opening(c) :
                    Opening(c)[k] = Mark =>
                        k = Len(Opening(c)) \/ \A j \in 1 .. k : Width[given[j]] = 0

(* `--lines n` gives the last n lines of the scrollback and the unfinished *)
(* one after them, from the start of a line, or all if there are fewer.    *)
LinesAsAsked == \A n \in Lines \cup {0} : LastLines(AllBytes, LastNLines(n), n)

(* The loop waits for room in the channel of a client that waits for the   *)
(* loop to take a request: neither goes on until the client is killed.     *)
Deadlocked == awaiting.client \in stalled

(* A response that found no room is sent once the client reads on, or      *)
(* given up once it is gone.  One thing alone can keep the loop for ever,  *)
(* and every session and client with it: a client that types into a full   *)
(* socket while its own channel is full.                                   *)
LoopGoesOn == ~LoopFree ~> LoopFree \/ Deadlocked

(* What the shell has printed is on the screen of every attached client    *)
(* once the shell pauses (in the model: at MaxStream at the latest),       *)
(* unless the client leaves, misses a frame or loses its place, or the     *)
(* loop and a client wait for each other.                                  *)
OutputShown ==
    \A c \in Clients :
        c \in attached \cap Followed
            ~> c \notin Followed \/ Deadlocked \/ screen[c] = ViewUpTo(c, Len(stream))

(* codec.rs:482-492, what is written as frames is read as frames: no       *)
(* client loses its place between two of them.                             *)
FramesReadWhole == torn = {}

=============================================================================
