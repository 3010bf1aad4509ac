-------------------------- MODULE SnagOutputProofs --------------------------
(***************************************************************************)
(* The output path for any number of clients, any size of scrollback, of   *)
(* channel and of chunk.                                                   *)
(*                                                                         *)
(* OutputInv, the types and that the buffer holds no more bytes than were  *)
(* printed, is inductive: what attach and output answer with is a          *)
(* scrollback in the sense of module Scrollback, whatever the clients do   *)
(* (KeepsTail).  ViewsOK is inductive on top of it: what a client is shown *)
(* is the converted scrollback and what was printed after it; UpstreamOK,  *)
(* that the requests of a client which is gone have all been taken, sees   *)
(* to it that it comes again as if for the first time.  Adding a frame at  *)
(* one end of a channel and taking one from the other are brought down to  *)
(* concatenation, which needs an induction over FlattenSeq (FlattenAppend, *)
(* FlattenTail).  Of the conversion, Lossy, only its type is used.         *)
(***************************************************************************)
EXTENDS SnagOutput, RingBufferProofs

OutputInv == OutputTypeOK /\ len <= Len(stream)

-----------------------------------------------------------------------------
(* Flattening.  FlattenSeq is a recursive function; along is what it does  *)
(* step by step.                                                           *)

Along(seqs, f, n) ==
    /\ f[0] = <<>>
    /\ \A k \in 1 .. n : f[k] = f[k - 1] \o seqs[k]

LEMMA AlongExists ==
    ASSUME NEW S, NEW seqs \in Seq(Seq(S))
    PROVE  \E f \in [0 .. Len(seqs) -> Seq(S)] : Along(seqs, f, Len(seqs))
<1> DEFINE Q == Seq(S)
           n == Len(seqs)
           step == [k \in Nat |-> [s \in Q |-> IF k \in 1 .. n THEN s \o seqs[k] ELSE s]]
<1>1. n \in Nat /\ \A k \in 1 .. n : seqs[k] \in Q
  BY LenProperties, ElementOfSeq
<1>2. <<>> \in Q /\ \A s, t \in Q : s \o t \in Q
  BY EmptySeq, ConcatProperties
<1> HIDE DEF Q, n
<1>3. step \in [Nat -> [Q -> Q]]
  BY <1>1, <1>2
<1>4. \A k \in 1 .. n : \A s \in Q : step[k][s] = s \o seqs[k]
  BY <1>1
<1> HIDE DEF step
<1>5. PICK f \in [0 .. n -> Q] : Recursive(f, <<>>, step, n)
  BY <1>1, <1>2, <1>3, RecursionExists
<1>6. \A k \in 1 .. n : f[k - 1] \in Q
  BY <1>1, <1>5
<1>7. Along(seqs, f, n)
  BY <1>4, <1>5, <1>6 DEF Recursive, Along
<1>8. QED
  BY <1>7 DEF n, Q

LEMMA AlongUnique ==
    ASSUME NEW seqs, NEW n \in Nat, NEW f, NEW g, Along(seqs, f, n), Along(seqs, g, n)
    PROVE  f[n] = g[n]
<1> DEFINE T == {k \in Nat : k <= n => f[k] = g[k]}
<1>1. 0 \in T
  BY DEF Along
<1>2. ASSUME NEW k \in Nat, k \in T
      PROVE  k + 1 \in T
  <2>1. SUFFICES ASSUME k + 1 <= n
                 PROVE  f[k + 1] = g[k + 1]
    OBVIOUS
  <2>2. f[k] = g[k] /\ k + 1 \in 1 .. n /\ (k + 1) - 1 = k
    BY <1>2, <2>1
  <2>3. QED
    BY <2>2 DEF Along
<1> HIDE DEF T
<1>3. Nat \subseteq T
  BY <1>1, <1>2, SetInduction
<1>4. QED
  BY <1>3 DEF T

LEMMA FlattenIsAlong ==
    ASSUME NEW S, NEW seqs \in Seq(Seq(S)), NEW f, Along(seqs, f, Len(seqs))
    PROVE  Seqs!FlattenSeq(seqs) = f[Len(seqs)] /\ f[Len(seqs)] \in Seq(S)
<1> DEFINE Q == Seq(S)
           n == Len(seqs)
<1>1. n \in Nat /\ \A k \in 1 .. n : seqs[k] \in Q /\ <<>> \o seqs[k] = seqs[k]
  BY LenProperties, ElementOfSeq, ConcatEmptySeq
<1>2. PICK g \in [0 .. n -> Q] : Along(seqs, g, n)
  BY AlongExists
<1>3. n = 0 => seqs = <<>>
  BY EmptySeq
<1>4. Seqs!FlattenSeq(seqs) =
        IF n = 0 THEN seqs
        ELSE (CHOOSE h : h = [i \in 1 .. n |->
                                IF i = 1 THEN seqs[i] ELSE h[i - 1] \o seqs[i]])[n]
  BY DEF Seqs!FlattenSeq
<1>5. Along(seqs, f, n)
  OBVIOUS
<1> HIDE DEF Q, n
<1>6. f[n] = g[n] /\ g[n] \in Q
  BY <1>1, <1>2, <1>5, AlongUnique
<1>7. CASE n = 0
  BY <1>2, <1>3, <1>4, <1>6, <1>7 DEF Along, n, Q
<1>8. CASE n # 0
  <2> DEFINE Rec(h) == h = [i \in 1 .. n |-> IF i = 1 THEN seqs[i] ELSE h[i - 1] \o seqs[i]]
             flat == CHOOSE h : Rec(h)
             r == [i \in 1 .. n |-> g[i]]
  <2>1. Rec(r)
    <3>1. ASSUME NEW i \in 1 .. n
          PROVE  g[i] = IF i = 1 THEN seqs[i] ELSE r[i - 1] \o seqs[i]
      <4>1. g[i] = g[i - 1] \o seqs[i] /\ g[0] = <<>>
        BY <1>2 DEF Along
      <4>2. CASE i = 1
        <5>1. i - 1 = 0
          BY <4>2
        <5>2. g[i] = <<>> \o seqs[i]
          BY <4>1, <5>1
        <5>3. QED
          BY <1>1, <4>2, <5>2
      <4>3. CASE i # 1
        <5>1. i - 1 \in 1 .. n
          BY <1>1, <4>3
        <5>2. r[i - 1] = g[i - 1]
          BY <5>1
        <5>3. QED
          BY <4>1, <4>3, <5>2
      <4>4. QED
        BY <4>2, <4>3
    <3>2. QED
      BY <3>1
  <2>2. Rec(flat)
    BY <2>1
  <2> DEFINE h == [k \in 0 .. n |-> IF k = 0 THEN <<>> ELSE flat[k]]
  <2>3. Along(seqs, h, n)
    <3>1. ASSUME NEW k \in 1 .. n
          PROVE  h[k] = h[k - 1] \o seqs[k]
      <4>1. flat[k] = IF k = 1 THEN seqs[k] ELSE flat[k - 1] \o seqs[k]
        BY <2>2, Zenon
      <4> HIDE DEF flat
      <4>2. h[k] = flat[k] /\ h[k - 1] = IF k = 1 THEN <<>> ELSE flat[k - 1]
        BY <1>1
      <4>3. QED
        BY <1>1, <4>1, <4>2
    <3>2. h[0] = <<>>
      BY <1>1
    <3>3. QED
      BY <3>1, <3>2 DEF Along
  <2>4. h[n] = flat[n]
    BY <1>1, <1>8
  <2>5. Seqs!FlattenSeq(seqs) = flat[n]
    BY <1>4, <1>8
  <2> HIDE DEF h, flat
  <2>6. h[n] = f[n]
    BY <1>1, <1>5, <2>3, AlongUnique
  <2>7. QED
    BY <1>6, <2>4, <2>5, <2>6 DEF n, Q
<1>9. QED
  BY <1>7, <1>8

(* What is appended to the sequences goes to the end. *)
LEMMA FlattenAppend ==
    ASSUME NEW S, NEW seqs \in Seq(Seq(S)), NEW s \in Seq(S)
    PROVE  Seqs!FlattenSeq(Append(seqs, s)) = Seqs!FlattenSeq(seqs) \o s
<1> DEFINE Q == Seq(S)
           n == Len(seqs)
           more == Append(seqs, s)
<1>1. /\ more \in Seq(Seq(S)) /\ Len(more) = n + 1 /\ n \in Nat
      /\ \A k \in 1 .. n : more[k] = seqs[k]
      /\ more[n + 1] = s
  BY AppendProperties, LenProperties
<1>2. PICK f \in [0 .. n + 1 -> Q] : Along(more, f, n + 1)
  BY <1>1, AlongExists
<1>3. /\ Along(seqs, f, n) => Seqs!FlattenSeq(seqs) = f[n]
      /\ Seqs!FlattenSeq(more) = f[n + 1]
  BY <1>1, <1>2, FlattenIsAlong
<1> HIDE DEF Q, n, more
<1>4. Along(seqs, f, n)
  <2>1. ASSUME NEW k \in 1 .. n
        PROVE  f[k] = f[k - 1] \o seqs[k]
    <3>1. k \in 1 .. n + 1 /\ more[k] = seqs[k]
      BY <1>1
    <3>2. QED
      BY <1>2, <3>1 DEF Along
  <2>2. QED
    BY <1>2, <2>1 DEF Along
<1>5. f[n + 1] = f[n] \o s
  <2>1. n + 1 \in 1 .. n + 1 /\ (n + 1) - 1 = n
    BY <1>1
  <2>2. QED
    BY <1>1, <1>2, <2>1 DEF Along
<1>6. QED
  BY <1>3, <1>4, <1>5 DEF more

(* The first of the sequences is what the whole begins with. *)
LEMMA FlattenTail ==
    ASSUME NEW S, NEW seqs \in Seq(Seq(S)), seqs # <<>>
    PROVE  Seqs!FlattenSeq(seqs) = Head(seqs) \o Seqs!FlattenSeq(Tail(seqs))
<1> DEFINE Q == Seq(S)
           rest == Tail(seqs)
           n == Len(rest)
           first == Head(seqs)
<1>1. /\ rest \in Seq(Seq(S)) /\ n \in Nat /\ Len(seqs) = n + 1
      /\ \A k \in 1 .. n : rest[k] = seqs[k + 1] /\ rest[k] \in Q
      /\ first = seqs[1] /\ first \in Q
  BY HeadTailProperties, LenProperties, ElementOfSeq
<1>2. PICK f \in [0 .. n + 1 -> Q] : Along(seqs, f, n + 1)
  BY <1>1, AlongExists
<1>3. PICK g \in [0 .. n -> Q] : Along(rest, g, n)
  BY <1>1, AlongExists
<1>4. Seqs!FlattenSeq(seqs) = f[n + 1] /\ Seqs!FlattenSeq(rest) = g[n]
  BY <1>1, <1>2, <1>3, FlattenIsAlong
<1>5. first \o <<>> = first /\ <<>> \o first = first
  BY <1>1, ConcatEmptySeq
<1>10. ASSUME NEW s \in Q, NEW t \in Q
       PROVE  (first \o s) \o t = first \o (s \o t)
  <2>1. first \in Seq(S) /\ s \in Seq(S) /\ t \in Seq(S)
    BY <1>1, <1>10
  <2> HIDE DEF first, Q
  <2>2. QED
    BY ONLY <2>1, ConcatAssociative
<1> HIDE DEF Q, n, rest, first
<1> DEFINE T == {k \in Nat : k <= n => f[k + 1] = first \o g[k]}
<1>6. 0 \in T
  <2>1. 1 \in 1 .. n + 1 /\ 1 - 1 = 0
    BY <1>1
  <2>2. f[1] = f[0] \o seqs[1] /\ f[0] = <<>> /\ g[0] = <<>>
    BY <1>2, <1>3, <2>1 DEF Along
  <2>3. QED
    BY <1>1, <1>5, <2>2
<1>7. ASSUME NEW k \in Nat, k \in T
      PROVE  k + 1 \in T
  <2>1. SUFFICES ASSUME k + 1 <= n
                 PROVE  f[(k + 1) + 1] = first \o g[k + 1]
    OBVIOUS
  <2>0. n \in Nat
    BY <1>1
  <2>2. f[k + 1] = first \o g[k]
    BY <1>7, <2>0, <2>1
  <2>3. f[k + 2] = f[k + 1] \o seqs[k + 2]
    <3>1. k + 2 \in 1 .. n + 1 /\ (k + 2) - 1 = k + 1
      BY <1>1, <2>1
    <3>2. QED
      BY <1>2, <3>1 DEF Along
  <2>4. k + 1 \in 1 .. n /\ (k + 1) - 1 = k /\ (k + 1) + 1 = k + 2 /\ k \in 0 .. n
    BY <1>1, <2>1
  <2>5. g[k + 1] = g[k] \o rest[k + 1] /\ rest[k + 1] = seqs[k + 2]
    BY <1>1, <1>3, <2>4 DEF Along
  <2>6. g[k] \in Q /\ rest[k + 1] \in Q
    BY <1>1, <1>3, <2>4
  <2>7. QED
    BY <1>10, <2>2, <2>3, <2>4, <2>5, <2>6
<1>8. n \in T
  <2> HIDE DEF T
  <2>1. QED
    BY <1>1, <1>6, <1>7, SetInduction
<1>9. QED
  BY <1>1, <1>4, <1>8 DEF rest, first

LEMMA FlattenType ==
    ASSUME NEW S, NEW seqs \in Seq(Seq(S))
    PROVE  Seqs!FlattenSeq(seqs) \in Seq(S)
BY AlongExists, FlattenIsAlong

LEMMA FlattenEmpty == Seqs!FlattenSeq(<<>>) = <<>>
BY EmptySeq DEF Seqs!FlattenSeq

-----------------------------------------------------------------------------
(* Types *)

(* Frames are frames: the notices and the ok carry no text. *)
LEMMA FrameType ==
    ASSUME NEW kind \in {"output", "response", "ok", "stolen", "exited"},
           NEW data \in Seq(Byte \cup {Mark})
    PROVE  Frame(kind, data) \in Frames
BY DEF Frame, Frames

LEMMA BareFrameType ==
    ASSUME NEW kind \in {"output", "response", "ok", "stolen", "exited"}
    PROVE  Frame(kind, <<>>) \in Frames
<1>1. <<>> \in Seq(Byte \cup {Mark})
  BY EmptySeq
<1>2. QED
  BY <1>1, FrameType

(* Bytes are text, and from_utf8_lossy makes text. *)
LEMMA BytesAreText ==
    ASSUME NEW s \in Seq(Byte)
    PROVE  s \in Seq(Byte \cup {Mark})
BY SeqMonotonic

LEMMA LossyType ==
    ASSUME NEW s \in Seq(Byte)
    PROVE  Lossy(s) \in Seq(Byte \cup {Mark})
<1> DEFINE Q == Seq(Byte \cup {Mark})
           piece(k) == IF InWhole(s, k) THEN <<s[k]>>
                       ELSE IF Lead(s, k) # {} THEN <<>> ELSE <<Mark>>
           pieces == [k \in DOMAIN s |-> piece(k)]
<1>1. Len(s) \in Nat /\ DOMAIN s = 1 .. Len(s) /\ \A k \in 1 .. Len(s) : s[k] \in Byte
  BY LenProperties, ElementOfSeq
<1>2. \A k \in 1 .. Len(s) : <<s[k]>> \in Q /\ <<>> \in Q /\ <<Mark>> \in Q
  BY <1>1, EmptySeq
<1>3. \A k \in 1 .. Len(s) : piece(k) \in Q
  BY <1>2
<1> HIDE DEF Q, piece
<1>4. pieces \in Seq(Q)
  BY <1>1, <1>3
<1>5. Lossy(s) = Seqs!FlattenSeq(pieces)
  BY DEF Lossy, piece
<1> HIDE DEF pieces
<1>6. QED
  BY <1>4, <1>5, FlattenType DEF Q

(* What --lines selects is a part of the scrollback. *)
LEMMA LastNLinesType ==
    ASSUME RingAssumption, RingTypeOK, NEW n
    PROVE  LastNLines(n) \in Seq(Byte) /\ Len(LastNLines(n)) <= len
<1>1. AllBytes \in Seq(Byte) /\ Len(AllBytes) = len /\ len \in Nat
  BY AllBytesFromEnd DEF FromEnd, RingTypeOK, RingAssumption
<1> DEFINE all == AllBytes
           cut == Cut(all, n)
           from == IF cut = {} THEN 0 ELSE CHOOSE i \in cut : TRUE
<1>2. cut \subseteq 1 .. len
  BY <1>1 DEF Cut, NewlinesFrom
<1>3. from \in 0 .. len
  BY <1>1, <1>2
<1>4. LastNLines(n) = IF n = 0 THEN <<>> ELSE SubSeq(all, from + 1, Len(all))
  BY DEF LastNLines
<1> HIDE DEF from, cut, all
<1>5. SubSeq(all, from + 1, len) \in Seq(Byte) /\ Len(SubSeq(all, from + 1, len)) <= len
  <2>1. \A k \in from + 1 .. len : all[k] \in Byte
    BY <1>1, <1>3, ElementOfSeq DEF all
  <2>2. from + 1 \in Int /\ len \in Int
    BY <1>1, <1>3
  <2>3. QED
    BY <1>3, <2>1, <2>2, SubSeqProperties
<1>6. <<>> \in Seq(Byte) /\ Len(<<>>) <= len
  BY <1>1, EmptySeq
<1>7. QED
  BY <1>1, <1>4, <1>5, <1>6 DEF all

-----------------------------------------------------------------------------

(* The parts of the type that an operation on the clients concerns. *)
ChanOK(ch) == ch \in [Clients -> Seq(Frames)] /\ \A c \in Clients : Len(ch[c]) <= Room

ScreenOK(sc, st, jn) ==
    /\ sc \in [Clients -> Seq(Byte \cup {Mark})]
    /\ st \in [Clients -> 0 .. MaxStream]
    /\ jn \in [Clients -> 0 .. MaxStream]

Modes == {"off", "asking", "viewing", "quitting", "leaving"}

(* A frame is appended only to a channel that has room for it. *)
LEMMA AppendKeepsChan ==
    ASSUME OutputAssumption, ChanOK(chan), NEW f \in Frames, NEW cs \in SUBSET Clients,
           \A c \in cs : HasRoom(c),
           chan' = [c \in Clients |-> IF c \in cs THEN Append(chan[c], f) ELSE chan[c]]
    PROVE  ChanOK(chan')
<1> USE DEF ChanOK, HasRoom, OutputAssumption
<1>1. \A c \in Clients : chan[c] \in Seq(Frames) /\ Len(chan[c]) \in Nat
  BY LenProperties
<1>2. ASSUME NEW c \in cs
      PROVE  Append(chan[c], f) \in Seq(Frames) /\ Len(Append(chan[c], f)) <= Room
  <2>1. /\ Append(chan[c], f) \in Seq(Frames)
        /\ Len(Append(chan[c], f)) = Len(chan[c]) + 1
    BY <1>1, AppendProperties
  <2>2. QED
    BY <1>1, <2>1
<1>3. \A c \in Clients : /\ chan'[c] \in Seq(Frames)
                         /\ Len(chan'[c]) <= Room
  BY <1>1, <1>2
<1>4. QED
  BY <1>3

LEMMA ForgetKeepsScreens ==
    ASSUME OutputAssumption, ScreenOK(screen, start, joined), NEW cs, Forget(cs)
    PROVE  ScreenOK(screen', start', joined')
<1>1. <<>> \in Seq(Byte \cup {Mark})
  BY EmptySeq
<1>2. 0 \in 0 .. MaxStream
  BY DEF OutputAssumption
<1>3. QED
  BY <1>1, <1>2 DEF ScreenOK, Forget

LEMMA TrySendType ==
    ASSUME OutputAssumption, OutputTypeOK,
           NEW cs \in SUBSET Clients, NEW f \in Frames, TrySend(cs, f)
    PROVE  ChanOK(chan') /\ ScreenOK(screen', start', joined') /\ lost' \subseteq Clients
<1> DEFINE full == {c \in cs : Open(c) /\ ~HasRoom(c)}
           sent == {c \in cs \ full : Open(c)}
<1>1. ChanOK(chan) /\ ScreenOK(screen, start, joined) /\ lost \subseteq Clients
  BY DEF OutputTypeOK, ChanOK, ScreenOK
<1>2. ChanOK(chan')
  <2>1. /\ chan' = [c \in Clients |-> IF c \in sent THEN Append(chan[c], f) ELSE chan[c]]
        /\ sent \in SUBSET Clients /\ \A c \in sent : HasRoom(c)
    BY DEF TrySend
  <2> HIDE DEF sent
  <2>2. QED
    BY <1>1, <2>1, AppendKeepsChan
<1>3. ScreenOK(screen', start', joined')
  BY <1>1, ForgetKeepsScreens DEF TrySend
<1>4. QED
  BY <1>1, <1>2, <1>3 DEF TrySend

(* The client that is sent a response before its first, and the loop. *)
LEMMA RespondType ==
    ASSUME OutputAssumption, OutputTypeOK,
           NEW c \in Clients, NEW f \in Frames, Respond(c, f)
    PROVE  ChanOK(chan') /\ awaiting' \in [client : Clients, frame : Frames] \cup {Idle}
<1>1. ChanOK(chan)
  BY DEF OutputTypeOK, ChanOK
<1>2. CASE ~Open(c)
  BY <1>1, <1>2 DEF Respond, OutputTypeOK
<1>3. CASE Open(c) /\ HasRoom(c)
  <2>1. /\ chan' = [d \in Clients |-> IF d \in {c} THEN Append(chan[d], f) ELSE chan[d]]
        /\ UNCHANGED awaiting
    BY <1>3 DEF Respond, OutputTypeOK
  <2>2. ChanOK(chan')
    BY <1>1, <1>3, <2>1, AppendKeepsChan
  <2>3. QED
    BY <2>1, <2>2 DEF OutputTypeOK
<1>4. CASE Open(c) /\ ~HasRoom(c)
  BY <1>1, <1>4 DEF Respond, OutputTypeOK
<1>5. QED
  BY <1>2, <1>3, <1>4

(* A client that closes has nothing on its way to it. *)
LEMMA CloseType ==
    ASSUME OutputAssumption, OutputTypeOK, NEW c \in Clients, Close(c)
    PROVE  /\ ChanOK(chan') /\ ScreenOK(screen', start', joined')
           /\ mode' \in [Clients -> Modes] /\ stalled' \subseteq Clients
<1>1. /\ ChanOK(chan) /\ ScreenOK(screen, start, joined)
      /\ mode \in [Clients -> Modes] /\ stalled \subseteq Clients
  BY DEF OutputTypeOK, ChanOK, ScreenOK, Modes
<1>2. <<>> \in Seq(Frames) /\ Len(<<>>) <= Room
  BY EmptySeq DEF OutputAssumption
<1>3. ChanOK(chan')
  BY <1>1, <1>2 DEF Close, ChanOK
<1>4. ScreenOK(screen', start', joined')
  BY <1>1, ForgetKeepsScreens DEF Close
<1>5. QED
  BY <1>1, <1>3, <1>4 DEF Close, Modes

(* One that has to wait with its last request keeps its channel. *)
LEMMA QuitType ==
    ASSUME OutputAssumption, OutputTypeOK, NEW c \in Clients,
           NEW rest \in Seq(Frames), Len(rest) <= Room,
           Quit(c, rest)
    PROVE  /\ ChanOK(chan') /\ ScreenOK(screen', start', joined')
           /\ mode' \in [Clients -> Modes] /\ stalled' \subseteq Clients
<1>1. CASE Close(c)
  BY <1>1, CloseType
<1>2. CASE c \in selecting /\ requests[c] = Backlog
  <2>1. /\ ChanOK(chan) /\ ScreenOK(screen, start, joined)
        /\ mode \in [Clients -> Modes] /\ stalled \subseteq Clients
    BY DEF OutputTypeOK, ChanOK, ScreenOK, Modes
  <2>2. /\ mode' = [mode EXCEPT ![c] = "quitting"]
        /\ chan' = [chan EXCEPT ![c] = rest]
        /\ stalled' = stalled \cup {c} /\ Forget({c})
    BY <1>2 DEF Quit
  <2>3. ChanOK(chan')
    BY <2>1, <2>2 DEF ChanOK
  <2>4. ScreenOK(screen', start', joined')
    BY <2>1, <2>2, ForgetKeepsScreens
  <2>5. QED
    BY <1>2, <2>1, <2>2, <2>3, <2>4 DEF Modes
<1>3. QED
  BY <1>1, <1>2 DEF Quit

(* Taking the first frame leaves a channel of frames. *)
LEMMA TakeType ==
    ASSUME OutputAssumption, OutputTypeOK, NEW c \in Clients, chan[c] # <<>>,
           chan' = [chan EXCEPT ![c] = Tail(@)]
    PROVE  /\ ChanOK(chan')
           /\ Head(chan[c]) \in Frames
           /\ Head(chan[c]).data \in Seq(Byte \cup {Mark})
<1>1. ChanOK(chan) /\ chan[c] \in Seq(Frames) /\ Len(chan[c]) \in Nat
  BY LenProperties DEF OutputTypeOK, ChanOK
<1>2. /\ Head(chan[c]) \in Frames /\ Tail(chan[c]) \in Seq(Frames)
      /\ Len(Tail(chan[c])) = Len(chan[c]) - 1
  BY <1>1, HeadTailProperties
<1>3. Len(Tail(chan[c])) <= Room
  BY <1>1, <1>2 DEF ChanOK, OutputAssumption
<1>4. ChanOK(chan')
  BY <1>1, <1>2, <1>3 DEF ChanOK
<1>5. QED
  BY <1>2, <1>4 DEF Frames

-----------------------------------------------------------------------------

(* What an action has to show when it leaves the scrollback alone. *)
RestOK ==
    /\ attached \subseteq Clients
    /\ awaiting \in [client : Clients, frame : Frames] \cup {Idle}
    /\ mode \in [Clients -> Modes]
    /\ selecting \subseteq Clients /\ lost \subseteq Clients
    /\ torn \subseteq selecting
    /\ requests \in [Clients -> 0 .. Backlog] /\ stalled \subseteq Clients

ScrollOK ==
    /\ RingTypeOK
    /\ stream \in Seq(Byte) /\ Len(stream) <= MaxStream
    /\ len <= Len(stream)

LEMMA InvParts ==
    OutputInv <=> /\ ScrollOK /\ RestOK
                  /\ ChanOK(chan) /\ ScreenOK(screen, start, joined)
BY DEF OutputInv, OutputTypeOK, ScrollOK, RestOK, ChanOK, ScreenOK, Modes

LEMMA InvPartsNext ==
    OutputInv' <=> /\ ScrollOK' /\ RestOK'
                   /\ ChanOK(chan') /\ ScreenOK(screen', start', joined')
BY DEF OutputInv, OutputTypeOK, ScrollOK, RestOK, ChanOK, ScreenOK, Modes

LEMMA ScrollStays ==
    ASSUME ScrollOK, UNCHANGED <<ring, stream>>
    PROVE  ScrollOK'
BY DEF ScrollOK, RingTypeOK, ring

LEMMA OutputInitInv ==
    ASSUME OutputInit
    PROVE  OutputInv
<1> USE RingAssumption, OutputAssumption DEF RingAssumption, OutputAssumption
<1>1. ScrollOK
  BY EmptySeq DEF OutputInit, RingInit, ScrollOK, RingTypeOK
<1>2. RestOK
  BY DEF OutputInit, RestOK, Modes
<1>3. ChanOK(chan) /\ ScreenOK(screen, start, joined)
  <2>1. <<>> \in Seq(Frames) /\ Len(<<>>) = 0 /\ <<>> \in Seq(Byte \cup {Mark})
    BY EmptySeq
  <2>2. QED
    BY <2>1 DEF OutputInit, ChanOK, ScreenOK
<1>4. QED
  BY <1>1, <1>2, <1>3, InvParts

(* A chunk: as much is added to the stream as the buffer may grow by. *)
LEMMA PtyDataInv ==
    ASSUME OutputInv, NEW data \in Chunks, PtyData(data)
    PROVE  OutputInv'
<1>1. data \in Seq(Byte) /\ Len(data) \in Nat /\ Write(data)
  BY RingAssumption, LenProperties DEF RingAssumption, PtyData
<1>2. ScrollOK /\ RestOK /\ OutputTypeOK
  BY InvParts DEF OutputInv
<1>3. RingTypeOK'
  BY <1>1, <1>2, RingAssumption, WriteKeepsType DEF ScrollOK
<1>4. /\ stream' \in Seq(Byte) /\ Len(stream') = Len(stream) + Len(data)
      /\ Len(stream) \in Nat
  BY <1>1, <1>2, ConcatProperties, LenProperties DEF PtyData, ScrollOK
<1>5. len' <= Len(stream')
  <2>1. CASE Capacity = 0
    BY <1>1, <1>2, <1>4, <2>1 DEF Write, ring, ScrollOK, RingTypeOK
  <2>2. CASE Capacity # 0
    <3>1. Capacity \in Nat /\ len \in Nat /\ len <= Len(stream)
      BY <1>2, RingAssumption DEF ScrollOK, RingTypeOK, RingAssumption
    <3>2. Len(Kept(data)) \in Nat /\ Len(Kept(data)) <= Len(data)
      <4>1. CASE Len(data) > Capacity
        <5>1. Kept(data) = SubSeq(data, Len(data) - Capacity + 1, Len(data))
          BY <4>1 DEF Kept
        <5>2. \A k \in Len(data) - Capacity + 1 .. Len(data) : data[k] \in Byte
          BY <1>1, <3>1, <4>1, ElementOfSeq
        <5>3. Len(Kept(data)) = Capacity
          BY <1>1, <2>2, <3>1, <4>1, <5>1, <5>2, SubSeqProperties
        <5>4. QED
          BY <3>1, <4>1, <5>3
      <4>2. CASE ~(Len(data) > Capacity)
        BY <1>1, <4>2 DEF Kept
      <4>3. QED
        BY <4>1, <4>2
    <3>3. len' = Grown(Kept(data))
      BY <1>1, <2>2 DEF Write
    <3>4. QED
      BY <1>1, <1>4, <3>1, <3>2, <3>3 DEF Grown
  <2>3. QED
    BY <2>1, <2>2
<1>6. ScrollOK'
  BY <1>3, <1>4, <1>5, OutputAssumption DEF ScrollOK, PtyData, MayRead, OutputAssumption
<1>7. ChanOK(chan') /\ ScreenOK(screen', start', joined') /\ lost' \subseteq Clients
  <2>1. Frame("output", data) \in Frames
    BY <1>1, BytesAreText, FrameType
  <2>2. QED
    BY <1>2, <2>1, OutputAssumption, TrySendType DEF PtyData, RestOK
<1>8. RestOK'
  BY <1>2, <1>7 DEF RestOK, PtyData, upstream
<1>9. QED
  BY <1>6, <1>7, <1>8, InvPartsNext

-----------------------------------------------------------------------------

(* A new client's channel holds the response alone; its screen begins as   *)
(* far back in the stream as the response is long.                         *)
LEMMA BeginType ==
    ASSUME OutputInv, NEW c \in Clients, NEW output \in Seq(Byte),
           Len(output) <= len, Begin(c, output)
    PROVE  /\ ScrollOK' /\ ScreenOK(screen', start', joined')
           /\ mode' \in [Clients -> Modes]
           /\ <<Frame("response", Lossy(output))>> \in Seq(Frames)
           /\ Len(<<Frame("response", Lossy(output))>>) <= Room
<1>1. ScrollOK /\ RestOK /\ ScreenOK(screen, start, joined)
  BY InvParts
<1>2. ScrollOK'
  BY <1>1, ScrollStays DEF Begin
<1>3. ScreenOK(screen', start', joined')
  <2>1. Len(output) \in Nat /\ Len(stream) \in Nat /\ len \in Nat
    BY <1>1, LenProperties, RingAssumption DEF ScrollOK, RingTypeOK, RingAssumption
  <2>2. Len(stream) - Len(output) \in 0 .. MaxStream /\ Len(stream) \in 0 .. MaxStream
    BY <1>1, <2>1, OutputAssumption DEF ScrollOK, OutputAssumption
  <2>3. QED
    BY <1>1, <2>2 DEF Begin, ScreenOK
<1>4. mode' \in [Clients -> Modes]
  BY <1>1 DEF Begin, RestOK, Modes
<1>5. Frame("response", Lossy(output)) \in Frames
  BY LossyType, FrameType
<1>6. QED
  BY <1>2, <1>3, <1>4, <1>5, OutputAssumption DEF OutputAssumption

LEMMA SessionAttachInv ==
    ASSUME OutputInv, NEW c \in Clients, SessionAttach(c)
    PROVE  OutputInv'
<1> DEFINE evicted == attached \cap selecting
           told == {d \in evicted : Open(d) /\ HasRoom(d)}
           first == <<Frame("response", Lossy(Snapshot))>>
<1>1. RestOK /\ ChanOK(chan)
  BY InvParts
<1>2. Snapshot \in Seq(Byte) /\ Len(Snapshot) <= len
  BY RingAssumption, AllBytesFromEnd, InvParts
     DEF Snapshot, FromEnd, ScrollOK, RingTypeOK, RingAssumption
<1>3. /\ ScrollOK' /\ ScreenOK(screen', start', joined')
      /\ mode' \in [Clients -> Modes]
      /\ first \in Seq(Frames) /\ Len(first) <= Room
  BY <1>2, BeginType DEF SessionAttach
<1>4. ASSUME NEW d \in told
      PROVE  /\ Append(chan[d], Frame("stolen", <<>>)) \in Seq(Frames)
             /\ Len(Append(chan[d], Frame("stolen", <<>>))) <= Room
  <2>1. chan[d] \in Seq(Frames) /\ Len(chan[d]) \in Nat /\ Len(chan[d]) < Room
    BY <1>1, LenProperties DEF ChanOK, RestOK, HasRoom
  <2>2. Frame("stolen", <<>>) \in Frames
    BY BareFrameType
  <2>3. QED
    BY <2>1, <2>2, AppendProperties, OutputAssumption DEF OutputAssumption
<1>5. ChanOK(chan')
  <2>1. chan' = [d \in Clients |->
                   IF d = c THEN first
                   ELSE IF d \in told THEN Append(chan[d], Frame("stolen", <<>>))
                   ELSE chan[d]]
    BY DEF SessionAttach
  <2> HIDE DEF first, told
  <2>2. QED
    BY <1>1, <1>3, <1>4, <2>1 DEF ChanOK
<1>6. RestOK'
  BY <1>1, <1>3 DEF RestOK, SessionAttach, Begin, upstream
<1>7. QED
  BY <1>3, <1>5, <1>6, InvPartsNext

LEMMA SessionOutputInv ==
    ASSUME OutputInv, NEW c \in Clients, SessionOutput(c)
    PROVE  OutputInv'
<1>1. RestOK /\ ChanOK(chan) /\ RingTypeOK
  BY InvParts DEF ScrollOK
<1>2. PICK output \in {AllBytes} \cup {LastNLines(n) : n \in Lines} :
        /\ attached' = attached \cup {c}
        /\ chan' = [chan EXCEPT ![c] = <<Frame("response", Lossy(output))>>]
        /\ Begin(c, output)
        /\ UNCHANGED <<selecting, lost>>
  BY DEF SessionOutput
<1>3. output \in Seq(Byte) /\ Len(output) <= len
  <2>1. AllBytes \in Seq(Byte) /\ Len(AllBytes) <= len
    BY <1>1, RingAssumption, AllBytesFromEnd DEF FromEnd, RingTypeOK, RingAssumption
  <2>2. \A n \in Lines : LastNLines(n) \in Seq(Byte) /\ Len(LastNLines(n)) <= len
    BY <1>1, RingAssumption, LastNLinesType
  <2>3. QED
    BY <1>2, <2>1, <2>2
<1>4. /\ ScrollOK' /\ ScreenOK(screen', start', joined')
      /\ mode' \in [Clients -> Modes]
      /\ <<Frame("response", Lossy(output))>> \in Seq(Frames)
      /\ Len(<<Frame("response", Lossy(output))>>) <= Room
  BY <1>2, <1>3, BeginType
<1>5. ChanOK(chan')
  BY <1>1, <1>2, <1>4 DEF ChanOK
<1>6. RestOK'
  BY <1>1, <1>2, <1>4 DEF RestOK, Begin, upstream
<1>7. QED
  BY <1>4, <1>5, <1>6, InvPartsNext

(* What passes between the loop and the clients leaves the scrollback,     *)
(* and what the shell printed, as they are.                                *)
LEMMA OthersLeaveScroll ==
    ASSUME NEW c \in Clients,
           \/ SessionExited \/ ResponseSent \/ ResponseDropped
           \/ SessionAttach(c) \/ SessionOutput(c) \/ ClientMessage(c)
           \/ SessionDetach(c) \/ ClientDisconnected(c) \/ SendRequest(c)
           \/ ReadFrame(c) \/ ReadTorn(c) \/ ReadCancelled(c)
           \/ Leave(c) \/ Exit(c) \/ Die(c)
    PROVE  UNCHANGED <<ring, stream>>
BY DEF SessionExited, ResponseSent, ResponseDropped, SessionAttach, SessionOutput,
       Begin, ClientMessage, SessionDetach, ClientDisconnected, SendRequest, ReadFrame,
       ReadTorn, ReadCancelled, Leave, Exit, Die, daemonSide

LEMMA ClientMessageInv ==
    ASSUME OutputInv, NEW c \in Clients, ClientMessage(c)
    PROVE  OutputInv'
<1>1. ScrollOK /\ RestOK /\ ScreenOK(screen, start, joined) /\ OutputTypeOK
  BY InvParts DEF OutputInv
<1>2. ChanOK(chan') /\ awaiting' \in [client : Clients, frame : Frames] \cup {Idle}
  BY <1>1, OutputAssumption, BareFrameType, RespondType DEF ClientMessage
<1>3. ScrollOK'
  BY <1>1, ScrollStays DEF ClientMessage, daemonSide
<1>4. requests' \in [Clients -> 0 .. Backlog] /\ stalled' \subseteq Clients
  <2>1. requests \in [Clients -> 0 .. Backlog] /\ stalled \subseteq Clients
    BY <1>1 DEF RestOK
  <2>2. requests[c] \in 0 .. Backlog /\ requests[c] > 0 /\ Backlog \in Nat
    BY <2>1, OutputAssumption DEF ClientMessage, OutputAssumption
  <2>3. requests[c] - 1 \in 0 .. Backlog
    BY <2>2
  <2>4. QED
    BY <2>1, <2>2, <2>3 DEF ClientMessage
<1>5. RestOK' /\ ScreenOK(screen', start', joined')
  BY <1>1, <1>2, <1>4 DEF RestOK, ScreenOK, ClientMessage, daemonSide, clientSide, span
<1>6. QED
  BY <1>2, <1>3, <1>5, InvPartsNext

(* A request is counted, or its client waits. *)
LEMMA SendRequestInv ==
    ASSUME OutputInv, NEW c \in Clients, SendRequest(c)
    PROVE  OutputInv'
<1>1. ScrollOK /\ RestOK /\ ChanOK(chan) /\ ScreenOK(screen, start, joined)
  BY InvParts
<1>2. ScrollOK'
  BY <1>1, ScrollStays DEF SendRequest, daemonSide
<1>3. requests' \in [Clients -> 0 .. Backlog] /\ stalled' \subseteq Clients
  <2>1. requests \in [Clients -> 0 .. Backlog] /\ stalled \subseteq Clients
    BY <1>1 DEF RestOK
  <2>2. requests[c] \in 0 .. Backlog /\ Backlog \in Nat
    BY <2>1, OutputAssumption DEF OutputAssumption
  <2>3. requests[c] < Backlog => requests[c] + 1 \in 0 .. Backlog
    BY <2>2
  <2>4. QED
    BY <2>1, <2>3 DEF SendRequest
<1>4. RestOK' /\ ChanOK(chan') /\ ScreenOK(screen', start', joined')
  BY <1>1, <1>3 DEF RestOK, ChanOK, ScreenOK, SendRequest, daemonSide, clientSide, span
<1>5. QED
  BY <1>2, <1>4, InvPartsNext

LEMMA SessionExitedInv ==
    ASSUME OutputInv, SessionExited
    PROVE  OutputInv'
<1>1. ScrollOK /\ RestOK /\ OutputTypeOK
  BY InvParts DEF OutputInv
<1>2. ChanOK(chan') /\ ScreenOK(screen', start', joined') /\ lost' \subseteq Clients
  BY <1>1, OutputAssumption, BareFrameType, TrySendType DEF SessionExited, RestOK
<1>3. ScrollOK'
  BY <1>1, ScrollStays DEF SessionExited, daemonSide
<1>4. RestOK'
  BY <1>1, <1>2 DEF RestOK, SessionExited, daemonSide, upstream
<1>5. QED
  BY <1>2, <1>3, <1>4, InvPartsNext

(* A response that waited is sent as any frame is: when there is room. *)
LEMMA ResponseSentInv ==
    ASSUME OutputInv, ResponseSent
    PROVE  OutputInv'
<1>1. ScrollOK /\ RestOK /\ ChanOK(chan) /\ ScreenOK(screen, start, joined)
  BY InvParts
<1>2. awaiting.client \in Clients /\ awaiting.frame \in Frames
  BY <1>1 DEF ResponseSent, LoopFree, RestOK
<1>3. ChanOK(chan')
  <2>1. chan' = [d \in Clients |-> IF d \in {awaiting.client}
                                   THEN Append(chan[d], awaiting.frame) ELSE chan[d]]
    BY <1>1 DEF ResponseSent, ChanOK
  <2>2. \A d \in {awaiting.client} : HasRoom(d)
    BY DEF ResponseSent
  <2>3. QED
    BY <1>1, <1>2, <2>1, <2>2, OutputAssumption, AppendKeepsChan
<1>4. ScrollOK'
  BY <1>1, ScrollStays DEF ResponseSent, daemonSide
<1>5. RestOK' /\ ScreenOK(screen', start', joined')
  BY <1>1 DEF RestOK, ScreenOK, ResponseSent, daemonSide, clientSide, upstream, span
<1>6. QED
  BY <1>3, <1>4, <1>5, InvPartsNext

LEMMA ResponseDroppedInv ==
    ASSUME OutputInv, ResponseDropped
    PROVE  OutputInv'
<1>1. ScrollOK /\ RestOK /\ ChanOK(chan) /\ ScreenOK(screen, start, joined)
  BY InvParts
<1>2. ScrollOK'
  BY <1>1, ScrollStays DEF ResponseDropped, daemonSide
<1>3. RestOK' /\ ChanOK(chan') /\ ScreenOK(screen', start', joined')
  BY <1>1 DEF RestOK, ChanOK, ScreenOK, ResponseDropped, daemonSide, clientSide, upstream, span
<1>4. QED
  BY <1>2, <1>3, InvPartsNext

LEMMA SessionDetachInv ==
    ASSUME OutputInv, NEW c \in Clients, SessionDetach(c)
    PROVE  OutputInv'
<1>1. ScrollOK /\ RestOK /\ ChanOK(chan) /\ ScreenOK(screen, start, joined)
  BY InvParts
<1>2. ScrollOK'
  BY <1>1, ScrollStays DEF SessionDetach
<1>3. RestOK' /\ ChanOK(chan') /\ ScreenOK(screen', start', joined')
  BY <1>1 DEF RestOK, ChanOK, ScreenOK, SessionDetach, clientSide, upstream, span
<1>4. QED
  BY <1>2, <1>3, InvPartsNext

LEMMA ClientDisconnectedInv ==
    ASSUME OutputInv, NEW c \in Clients, ClientDisconnected(c)
    PROVE  OutputInv'
<1>1. ScrollOK /\ RestOK /\ ChanOK(chan) /\ ScreenOK(screen, start, joined)
  BY InvParts
<1>2. ScrollOK'
  BY <1>1, ScrollStays DEF ClientDisconnected
<1>3. RestOK' /\ ChanOK(chan') /\ ScreenOK(screen', start', joined')
  BY <1>1 DEF RestOK, ChanOK, ScreenOK, ClientDisconnected, upstream, span, Modes
<1>4. QED
  BY <1>2, <1>3, InvPartsNext

(* What a client leaves unread when it takes the first frame and quits. *)
LEMMA RestType ==
    ASSUME OutputAssumption, OutputTypeOK, NEW c \in Clients, chan[c] # <<>>
    PROVE  Tail(chan[c]) \in Seq(Frames) /\ Len(Tail(chan[c])) <= Room
<1>1. chan[c] \in Seq(Frames) /\ Len(chan[c]) \in Nat /\ Len(chan[c]) <= Room
  BY LenProperties DEF OutputTypeOK
<1>2. Tail(chan[c]) \in Seq(Frames) /\ Len(Tail(chan[c])) = Len(chan[c]) - 1
  BY <1>1, HeadTailProperties
<1>3. QED
  BY <1>1, <1>2, OutputAssumption DEF OutputAssumption

(* A notice ends the client; any other frame is taken and printed. *)
LEMMA ReadFrameInv ==
    ASSUME OutputInv, NEW c \in Clients, ReadFrame(c)
    PROVE  OutputInv'
<1>1. ScrollOK /\ RestOK /\ ScreenOK(screen, start, joined) /\ OutputTypeOK
  BY InvParts DEF OutputInv
<1>2. ScrollOK'
  BY <1>1, ScrollStays DEF ReadFrame, daemonSide
<1> DEFINE frame == Head(chan[c])
<1>3. /\ ChanOK(chan') /\ ScreenOK(screen', start', joined')
      /\ mode' \in [Clients -> Modes] /\ stalled' \subseteq Clients
  <2>1. CASE frame.kind \in {"stolen", "exited"}
    <3>1. Quit(c, Tail(chan[c])) /\ chan[c] # <<>>
      BY <2>1 DEF ReadFrame, Reads
    <3>2. QED
      BY <1>1, <3>1, OutputAssumption, RestType, QuitType
  <2>2. CASE frame.kind \notin {"stolen", "exited"}
    <3>1. /\ chan' = [chan EXCEPT ![c] = Tail(@)] /\ chan[c] # <<>>
          /\ mode' = [mode EXCEPT ![c] = "viewing"]
          /\ screen' = [screen EXCEPT ![c] =
                           IF c \in lost THEN <<>> ELSE @ \o frame.data]
          /\ UNCHANGED <<stalled, start, joined>>
      BY <2>2 DEF ReadFrame, Reads, span
    <3>2. ChanOK(chan') /\ frame.data \in Seq(Byte \cup {Mark})
      BY <1>1, <3>1, OutputAssumption, TakeType
    <3>3. <<>> \in Seq(Byte \cup {Mark})
      BY EmptySeq
    <3>4. screen[c] \o frame.data \in Seq(Byte \cup {Mark})
      BY <1>1, <3>2, ConcatProperties DEF ScreenOK
    <3>5. ScreenOK(screen', start', joined')
      BY <1>1, <3>1, <3>3, <3>4 DEF ScreenOK
    <3>6. QED
      BY <1>1, <3>1, <3>2, <3>5 DEF RestOK, Modes
  <2>3. QED
    BY <2>1, <2>2
<1>4. RestOK'
  BY <1>1, <1>3 DEF RestOK, ReadFrame, daemonSide
<1>5. QED
  BY <1>2, <1>3, <1>4, InvPartsNext

LEMMA ReadTornInv ==
    ASSUME OutputInv, NEW c \in Clients, ReadTorn(c)
    PROVE  OutputInv'
<1>1. ScrollOK /\ RestOK /\ ScreenOK(screen, start, joined) /\ OutputTypeOK
  BY InvParts DEF OutputInv
<1>2. ScrollOK' /\ chan[c] # <<>>
  BY <1>1, ScrollStays DEF ReadTorn, Reads, daemonSide
<1>3. /\ ChanOK(chan') /\ ScreenOK(screen', start', joined')
      /\ mode' \in [Clients -> Modes] /\ stalled' \subseteq Clients
  <2>1. CASE Quit(c, Tail(chan[c]))
    BY <1>1, <1>2, <2>1, OutputAssumption, RestType, QuitType
  <2>2. CASE /\ chan' = [chan EXCEPT ![c] = Tail(@)]
             /\ UNCHANGED <<mode, screen, stalled, span>>
    <3>1. ChanOK(chan')
      BY <1>1, <1>2, <2>2, OutputAssumption, TakeType
    <3>2. QED
      BY <1>1, <2>2, <3>1 DEF RestOK, ScreenOK, span
  <2>3. QED
    BY <2>1, <2>2 DEF ReadTorn
<1>4. RestOK'
  BY <1>1, <1>3 DEF RestOK, ReadTorn, daemonSide
<1>5. QED
  BY <1>2, <1>3, <1>4, InvPartsNext

LEMMA ReadCancelledInv ==
    ASSUME OutputInv, NEW c \in Clients, ReadCancelled(c)
    PROVE  OutputInv'
<1>1. ScrollOK /\ RestOK /\ ChanOK(chan) /\ ScreenOK(screen, start, joined)
  BY InvParts
<1>2. ScrollOK'
  BY <1>1, ScrollStays DEF ReadCancelled, daemonSide
<1>3. ScreenOK(screen', start', joined')
  BY <1>1, OutputAssumption, ForgetKeepsScreens DEF ReadCancelled
<1>4. RestOK' /\ ChanOK(chan')
  BY <1>1 DEF RestOK, ChanOK, ReadCancelled, daemonSide, upstream
<1>5. QED
  BY <1>2, <1>3, <1>4, InvPartsNext

(* The ways in which a client ends. *)
LEMMA ClosedInv ==
    ASSUME OutputInv, NEW c \in Clients,
           Close(c) \/ Quit(c, chan[c]),
           UNCHANGED <<ring, daemonSide, awaiting, selecting, torn, requests, lost>>
    PROVE  OutputInv'
<1>1. ScrollOK /\ RestOK /\ OutputTypeOK
  BY InvParts DEF OutputInv
<1>2. ScrollOK'
  BY <1>1, ScrollStays DEF daemonSide
<1>3. /\ ChanOK(chan') /\ ScreenOK(screen', start', joined')
      /\ mode' \in [Clients -> Modes] /\ stalled' \subseteq Clients
  <2>1. CASE Close(c)
    BY <1>1, <2>1, OutputAssumption, CloseType
  <2>2. CASE Quit(c, chan[c])
    <3>1. chan[c] \in Seq(Frames) /\ Len(chan[c]) <= Room
      BY <1>1 DEF OutputTypeOK
    <3>2. QED
      BY <1>1, <2>2, <3>1, OutputAssumption, QuitType
  <2>3. QED
    BY <2>1, <2>2
<1>4. RestOK'
  BY <1>1, <1>3 DEF RestOK, daemonSide
<1>5. QED
  BY <1>2, <1>3, <1>4, InvPartsNext

LEMMA OutputNextInv ==
    ASSUME OutputInv, [OutputNext]_vars
    PROVE  OutputInv'
<1>1. CASE UNCHANGED vars
  BY <1>1 DEF vars, daemonSide, clientSide, upstream, span, ring, OutputInv,
             OutputTypeOK, RingTypeOK
<1>2. ASSUME NEW data \in Chunks, PtyData(data)
      PROVE  OutputInv'
  BY <1>2, PtyDataInv
<1>3. CASE SessionExited \/ ResponseSent \/ ResponseDropped
  BY <1>3, SessionExitedInv, ResponseSentInv, ResponseDroppedInv
<1>4. ASSUME NEW c \in Clients,
             \/ SessionAttach(c) \/ SessionOutput(c) \/ ClientMessage(c)
             \/ SessionDetach(c) \/ ClientDisconnected(c) \/ SendRequest(c)
             \/ ReadFrame(c) \/ ReadTorn(c) \/ ReadCancelled(c)
      PROVE  OutputInv'
  BY <1>4, SessionAttachInv, SessionOutputInv, ClientMessageInv, SessionDetachInv,
     ClientDisconnectedInv, SendRequestInv, ReadFrameInv, ReadTornInv, ReadCancelledInv
<1>5. ASSUME NEW c \in Clients, Leave(c) \/ Exit(c) \/ Die(c)
      PROVE  OutputInv'
  BY <1>5, ClosedInv DEF Leave, Exit, Die
<1>6. QED
  BY <1>1, <1>2, <1>3, <1>4, <1>5 DEF OutputNext

LEMMA OutputInvariant ==
    OutputSpec => []OutputInv
<1>1. OutputInit => OutputInv
  BY OutputInitInv
<1>2. OutputInv /\ [OutputNext]_vars => OutputInv'
  BY OutputNextInv
<1>3. QED
  BY <1>1, <1>2, PTL DEF OutputSpec

(* No channel ever holds more frames than it has room for, a response the  *)
(* loop waits with is a frame for a client, and a screen begins at a place *)
(* in what the shell printed (server.rs 129-132 and 156-168).              *)
THEOREM OutputTypeCorrect ==
    OutputSpec => []OutputTypeOK
<1>1. OutputInv => OutputTypeOK
  BY DEF OutputInv
<1>2. QED
  BY <1>1, OutputInvariant, PTL

(* Whatever the clients do, what all_bytes gives an attach is the last     *)
(* Capacity bytes of what the shell printed: the whole output path         *)
(* implements the scrollback (server.rs:159, 639).                         *)
THEOREM OutputKeepsTail ==
    OutputSpec => KeepsTail
<1>1. OutputInit => Scroll!Init
  BY DEF OutputInit, RingInit, Scroll!Init, AllBytes
<1>2. OutputInv /\ [OutputNext]_vars => [\E data \in Chunks : Scroll!Keep(data)]_AllBytes
  <2>1. ASSUME OutputInv, NEW data \in Chunks, PtyData(data)
        PROVE  Scroll!Keep(data)
    <3>1. RingTypeOK /\ Write(data) /\ data \in Seq(Byte)
      BY <2>1, InvParts, RingAssumption DEF ScrollOK, PtyData, RingAssumption
    <3>2. QED
      BY <3>1, RingAssumption, WriteKeepsLast DEF Scroll!Keep
  <2>2. ASSUME UNCHANGED ring
        PROVE  UNCHANGED AllBytes
    BY <2>2 DEF ring, AllBytes, Start, Slice
  <2>3. ASSUME SessionExited \/ ResponseSent \/ ResponseDropped
        PROVE  UNCHANGED ring
    BY <2>3 DEF SessionExited, ResponseSent, ResponseDropped
  <2>4. ASSUME NEW c \in Clients,
               \/ SessionAttach(c) \/ SessionOutput(c) \/ ClientMessage(c)
               \/ SessionDetach(c) \/ ClientDisconnected(c) \/ SendRequest(c)
               \/ ReadFrame(c) \/ ReadTorn(c) \/ ReadCancelled(c)
               \/ Leave(c) \/ Exit(c) \/ Die(c)
        PROVE  UNCHANGED ring
    BY <2>4, OthersLeaveScroll
  <2>5. ASSUME UNCHANGED vars
        PROVE  UNCHANGED ring
    BY <2>5 DEF vars
  <2>6. QED
    BY <2>1, <2>2, <2>3, <2>4, <2>5 DEF OutputNext
<1>3. QED
  BY <1>1, <1>2, OutputInvariant, PTL DEF OutputSpec, KeepsTail, Scroll!Spec

(* For every n the answer to --lines n is the last n lines of what the     *)
(* scrollback holds and the unfinished one after them (ringbuf.rs:67-91).  *)
THEOREM OutputLinesAsAsked ==
    OutputSpec => []LinesAsAsked
<1>1. OutputInv => LinesAsAsked
  <2>1. SUFFICES ASSUME OutputInv, NEW n \in Lines \cup {0}
                 PROVE  LastLines(AllBytes, LastNLines(n), n)
    BY DEF LinesAsAsked
  <2>2. n \in Nat /\ RingTypeOK
    BY <2>1, InvParts, OutputAssumption DEF OutputAssumption, ScrollOK
  <2>3. QED
    BY <2>2, RingAssumption, LastNLinesSelects
<1>2. QED
  BY <1>1, OutputInvariant, PTL

-----------------------------------------------------------------------------
(* Views: the screen, and the payloads of the frames on their way to it.   *)

Text == Byte \cup {Mark}

Payloads(ch) == [k \in DOMAIN ch |-> ch[k].data]

Shown(sc, ch) == sc \o Seqs!FlattenSeq(Payloads(ch))

LEMMA ViewIsShown == \A c : View(c) = Shown(screen[c], chan[c])
BY DEF View, Shown, Payloads

LEMMA PayloadsType ==
    ASSUME NEW ch \in Seq(Frames)
    PROVE  /\ Payloads(ch) \in Seq(Seq(Text)) /\ Len(Payloads(ch)) = Len(ch)
           /\ \A k \in 1 .. Len(ch) : Payloads(ch)[k] = ch[k].data
<1> DEFINE Q == Seq(Text)
<1>1. Len(ch) \in Nat /\ DOMAIN ch = 1 .. Len(ch)
  BY LenProperties
<1>2. ASSUME NEW k \in 1 .. Len(ch)
      PROVE  ch[k].data \in Q
  <2>1. ch[k] \in Frames
    BY ElementOfSeq
  <2>2. QED
    BY <2>1 DEF Frames, Text
<1> HIDE DEF Q
<1>3. Payloads(ch) \in [1 .. Len(ch) -> Q]
  BY <1>1, <1>2 DEF Payloads
<1>4. Payloads(ch) \in Seq(Q) /\ Len(Payloads(ch)) = Len(ch)
  BY <1>1, <1>3
<1>5. QED
  BY <1>1, <1>4 DEF Q, Payloads

LEMMA PayloadsAppend ==
    ASSUME NEW ch \in Seq(Frames), NEW f \in Frames
    PROVE  Payloads(Append(ch, f)) = Append(Payloads(ch), f.data)
<1> DEFINE Q == Seq(Text)
           new == Payloads(Append(ch, f))
           old == Payloads(ch)
           n == Len(ch)
<1>1. /\ Append(ch, f) \in Seq(Frames) /\ Len(Append(ch, f)) = n + 1 /\ n \in Nat
      /\ \A k \in 1 .. n : Append(ch, f)[k] = ch[k]
      /\ Append(ch, f)[n + 1] = f
  BY AppendProperties, LenProperties
<1>2. /\ new \in Seq(Q) /\ Len(new) = n + 1
      /\ \A k \in 1 .. n + 1 : new[k] = Append(ch, f)[k].data
  BY <1>1, PayloadsType
<1>3. /\ old \in Seq(Q) /\ Len(old) = n
      /\ \A k \in 1 .. n : old[k] = ch[k].data
  BY PayloadsType
<1>4. f.data \in Q
  BY DEF Frames, Text
<1> HIDE DEF new, old, n, Q
<1>5. /\ Append(old, f.data) \in Seq(Q) /\ Len(Append(old, f.data)) = n + 1
      /\ \A k \in 1 .. n : Append(old, f.data)[k] = old[k]
      /\ Append(old, f.data)[n + 1] = f.data
  BY <1>3, <1>4, AppendProperties
<1>6. ASSUME NEW k \in 1 .. n + 1
      PROVE  new[k] = Append(old, f.data)[k]
  <2>1. CASE k = n + 1
    BY <1>1, <1>2, <1>5, <2>1
  <2>2. CASE k # n + 1
    <3>1. k \in 1 .. n
      BY <1>1, <2>2
    <3>2. QED
      BY <1>1, <1>2, <1>3, <1>5, <3>1
  <2>3. QED
    BY <2>1, <2>2
<1>7. new = Append(old, f.data)
  BY <1>2, <1>5, <1>6, SeqEqual
<1>8. QED
  BY <1>7 DEF new, old

LEMMA PayloadsTail ==
    ASSUME NEW ch \in Seq(Frames), ch # <<>>
    PROVE  /\ Payloads(ch) # <<>>
           /\ Head(Payloads(ch)) = Head(ch).data
           /\ Tail(Payloads(ch)) = Payloads(Tail(ch))
<1> DEFINE Q == Seq(Text)
           all == Payloads(ch)
           rest == Payloads(Tail(ch))
           n == Len(ch)
<1>1. /\ Tail(ch) \in Seq(Frames) /\ Len(Tail(ch)) = n - 1 /\ n \in Nat \ {0}
      /\ \A k \in 1 .. n - 1 : Tail(ch)[k] = ch[k + 1]
      /\ Head(ch) = ch[1]
  BY HeadTailProperties, EmptySeq
<1>2. /\ all \in Seq(Q) /\ Len(all) = n
      /\ \A k \in 1 .. n : all[k] = ch[k].data
  BY PayloadsType
<1>3. /\ rest \in Seq(Q) /\ Len(rest) = n - 1
      /\ \A k \in 1 .. n - 1 : rest[k] = Tail(ch)[k].data
  BY <1>1, PayloadsType
<1> HIDE DEF all, rest, n, Q
<1>4. all # <<>>
  BY <1>1, <1>2, EmptySeq
<1>5. /\ Tail(all) \in Seq(Q) /\ Len(Tail(all)) = n - 1
      /\ \A k \in 1 .. n - 1 : Tail(all)[k] = all[k + 1]
      /\ Head(all) = all[1]
  BY <1>2, <1>4, HeadTailProperties
<1>6. ASSUME NEW k \in 1 .. n - 1
      PROVE  Tail(all)[k] = rest[k]
  <2>1. k + 1 \in 1 .. n
    BY <1>1
  <2>2. QED
    BY <1>1, <1>2, <1>3, <1>5, <2>1
<1>7. Tail(all) = rest
  BY <1>3, <1>5, <1>6, SeqEqual
<1>8. Head(all) = Head(ch).data
  BY <1>1, <1>2, <1>5
<1>9. QED
  BY <1>4, <1>7, <1>8 DEF all, rest

LEMMA ShownType ==
    ASSUME NEW sc \in Seq(Text), NEW ch \in Seq(Frames)
    PROVE  Shown(sc, ch) \in Seq(Text)
<1>1. Seqs!FlattenSeq(Payloads(ch)) \in Seq(Text)
  BY PayloadsType, FlattenType
<1>2. QED
  BY <1>1, ConcatProperties DEF Shown

(* A frame that is sent will be shown after everything else. *)
LEMMA ShownAppend ==
    ASSUME NEW sc \in Seq(Text), NEW ch \in Seq(Frames), NEW f \in Frames
    PROVE  Shown(sc, Append(ch, f)) = Shown(sc, ch) \o f.data
<1> DEFINE flat == Seqs!FlattenSeq(Payloads(ch))
           data == f.data
<1>1. data \in Seq(Text)
  BY DEF Frames, Text
<1>2. flat \in Seq(Text)
  BY PayloadsType, FlattenType
<1>3. Seqs!FlattenSeq(Payloads(Append(ch, f))) = flat \o data
  BY <1>1, PayloadsType, PayloadsAppend, FlattenAppend
<1> HIDE DEF flat, data
<1>4. (sc \o flat) \o data = sc \o (flat \o data)
  BY ONLY sc \in Seq(Text), <1>1, <1>2, ConcatAssociative
<1>5. QED
  BY <1>3, <1>4 DEF Shown, flat, data

(* Printing the first frame changes nothing of what is shown in the end. *)
LEMMA ShownTake ==
    ASSUME NEW sc \in Seq(Text), NEW ch \in Seq(Frames), ch # <<>>
    PROVE  Shown(sc \o Head(ch).data, Tail(ch)) = Shown(sc, ch)
<1> DEFINE flat == Seqs!FlattenSeq(Payloads(Tail(ch)))
           first == Head(ch).data
<1>1. Head(ch) \in Frames /\ Tail(ch) \in Seq(Frames)
  BY HeadTailProperties
<1>2. flat \in Seq(Text) /\ first \in Seq(Text)
  BY <1>1, PayloadsType, FlattenType DEF Frames, Text
<1>3. Seqs!FlattenSeq(Payloads(ch)) = first \o flat
  <2>1. /\ Payloads(ch) \in Seq(Seq(Text)) /\ Payloads(ch) # <<>>
        /\ Head(Payloads(ch)) = first /\ Tail(Payloads(ch)) = Payloads(Tail(ch))
    BY PayloadsType, PayloadsTail
  <2>2. QED
    BY <2>1, FlattenTail
<1> HIDE DEF flat, first
<1>4. (sc \o first) \o flat = sc \o (first \o flat)
  BY ONLY sc \in Seq(Text), <1>2, ConcatAssociative
<1>5. QED
  BY <1>3, <1>4 DEF Shown, flat, first

(* A client that begins is shown the response. *)
LEMMA ShownFirst ==
    ASSUME NEW f \in Frames
    PROVE  Shown(<<>>, <<f>>) = f.data
<1>1. <<>> \in Seq(Frames) /\ <<>> \in Seq(Text) /\ Append(<<>>, f) = <<f>>
  BY EmptySeq
<1>2. f.data \in Seq(Text)
  BY DEF Frames, Text
<1>3. Payloads(<<>>) = <<>>
  <2>1. Payloads(<<>>) \in Seq(Seq(Text)) /\ Len(Payloads(<<>>)) = 0
    BY <1>1, EmptySeq, PayloadsType
  <2>2. QED
    BY <2>1, EmptySeq
<1>4. Shown(<<>>, <<>>) = <<>>
  BY <1>1, <1>3, FlattenEmpty, ConcatEmptySeq DEF Shown
<1>5. QED
  BY <1>1, <1>2, <1>4, ShownAppend, ConcatEmptySeq

-----------------------------------------------------------------------------
(* Pieces of what the shell printed. *)

SuffixOf(s, t) ==
    /\ Len(s) <= Len(t)
    /\ \A k \in 1 .. Len(s) : s[k] = t[Len(t) - Len(s) + k]

(* A view: what was printed between from and at, converted, and after that *)
(* up to end as it is.                                                     *)
ViewTo(from, at, end, text) ==
    Lossy(SubSeq(text, from + 1, at)) \o SubSeq(text, at + 1, end)

LEMMA SubSeqType ==
    ASSUME NEW s \in Seq(Byte), NEW from \in Nat, NEW to \in Nat, to <= Len(s)
    PROVE  SubSeq(s, from + 1, to) \in Seq(Byte)
<1>1. \A k \in from + 1 .. to : s[k] \in Byte
  BY LenProperties, ElementOfSeq
<1>2. from + 1 \in Int /\ to \in Int
  OBVIOUS
<1>3. QED
  BY <1>1, <1>2, SubSeqProperties

(* What is printed later changes no piece of what was printed before. *)
LEMMA SubSeqStays ==
    ASSUME NEW s \in Seq(Byte), NEW data \in Seq(Byte), NEW from \in Nat,
           NEW to \in Nat, to <= Len(s)
    PROVE  SubSeq(s \o data, from + 1, to) = SubSeq(s, from + 1, to)
<1> DEFINE more == s \o data
           first == from + 1
           old == SubSeq(s, first, to)
           new == SubSeq(more, first, to)
<1>1. Len(s) \in Nat /\ Len(data) \in Nat /\ first \in Int /\ to \in Int
  BY LenProperties
<1>2. /\ more \in Seq(Byte) /\ Len(more) = Len(s) + Len(data)
      /\ \A k \in 1 .. Len(s) + Len(data) :
            more[k] = IF k <= Len(s) THEN s[k] ELSE data[k - Len(s)]
  BY ConcatProperties
<1> HIDE DEF more
<1>3. \A k \in first .. to : s[k] \in Byte /\ more[k] = s[k]
  BY <1>1, <1>2, ElementOfSeq
<1> HIDE DEF first
<1>4. \A k \in first .. to : more[k] \in Byte
  BY <1>3
<1>5. /\ old \in Seq(Byte) /\ Len(old) = IF first <= to THEN to - first + 1 ELSE 0
      /\ \A k \in 1 .. to - first + 1 : old[k] = s[first + k - 1]
  BY <1>1, <1>3, SubSeqProperties
<1>6. /\ new \in Seq(Byte) /\ Len(new) = IF first <= to THEN to - first + 1 ELSE 0
      /\ \A k \in 1 .. to - first + 1 : new[k] = more[first + k - 1]
  BY <1>1, <1>4, SubSeqProperties
<1> HIDE DEF old, new
<1>7. ASSUME NEW k \in 1 .. Len(old)
      PROVE  old[k] = new[k]
  <2>1. k \in 1 .. to - first + 1 /\ first + k - 1 \in first .. to
    BY <1>1, <1>5
  <2>2. QED
    BY <1>3, <1>5, <1>6, <2>1
<1>8. old = new
  BY <1>5, <1>6, <1>7, SeqEqual
<1>9. QED
  BY <1>8 DEF old, new, first, more

LEMMA SubSeqAfter ==
    ASSUME NEW s \in Seq(Byte), NEW at \in Nat, NEW n \in Nat, at <= n, n <= Len(s)
    PROVE  LET part == SubSeq(s, at + 1, n)
           IN  /\ part \in Seq(Byte) /\ Len(part) = n - at
               /\ \A k \in 1 .. n - at : part[k] = s[at + k]
<1> DEFINE part == SubSeq(s, at + 1, n)
<1>1. Len(s) \in Nat /\ \A k \in 1 .. Len(s) : s[k] \in Byte
  BY LenProperties, ElementOfSeq
<1>2. at + 1 \in Int /\ n \in Int /\ \A k \in at + 1 .. n : s[k] \in Byte
  BY <1>1
<1>3. /\ part \in Seq(Byte)
      /\ Len(part) = IF at + 1 <= n THEN n - (at + 1) + 1 ELSE 0
      /\ \A k \in 1 .. n - (at + 1) + 1 : part[k] = s[(at + 1) + k - 1]
  BY <1>2, SubSeqProperties
<1> HIDE DEF part
<1>4. \A k \in 1 .. n - at : k \in 1 .. n - (at + 1) + 1 /\ (at + 1) + k - 1 = at + k
  BY <1>1
<1>5. /\ part \in Seq(Byte) /\ Len(part) = n - at
      /\ \A k \in 1 .. n - at : part[k] = s[at + k]
  BY <1>3, <1>4
<1>6. QED
  BY <1>5 DEF part

(* The newest piece grows by what is printed. *)
LEMMA SubSeqGrows ==
    ASSUME NEW s \in Seq(Byte), NEW data \in Seq(Byte), NEW at \in Nat, at <= Len(s)
    PROVE  SubSeq(s \o data, at + 1, Len(s \o data)) = SubSeq(s, at + 1, Len(s)) \o data
<1> DEFINE more == s \o data
           n == Len(s)
           d == Len(data)
           old == SubSeq(s, at + 1, n)
           new == SubSeq(more, at + 1, n + d)
           all == old \o data
<1>1. n \in Nat /\ d \in Nat /\ \A k \in 1 .. n : s[k] \in Byte
  BY LenProperties, ElementOfSeq
<1>2. /\ more \in Seq(Byte) /\ Len(more) = n + d
      /\ \A k \in 1 .. n + d : more[k] = IF k <= n THEN s[k] ELSE data[k - n]
  BY ConcatProperties
<1> HIDE DEF more, n, d
<1>3. at <= n /\ n <= Len(s) /\ n + d \in Nat /\ at <= n + d
  BY <1>1 DEF n
<1>4. /\ old \in Seq(Byte) /\ Len(old) = n - at
      /\ \A k \in 1 .. n - at : old[k] = s[at + k]
  BY <1>1, <1>3, SubSeqAfter
<1>5. /\ new \in Seq(Byte) /\ Len(new) = (n + d) - at
      /\ \A k \in 1 .. (n + d) - at : new[k] = more[at + k]
  BY <1>2, <1>3, SubSeqAfter
<1> HIDE DEF old, new
<1>6. /\ all \in Seq(Byte) /\ Len(all) = n - at + d
      /\ \A k \in 1 .. n - at + d :
            all[k] = IF k <= n - at THEN old[k] ELSE data[k - (n - at)]
  <2>1. /\ all \in Seq(Byte) /\ Len(all) = Len(old) + Len(data)
        /\ \A k \in 1 .. Len(old) + Len(data) :
              all[k] = IF k <= Len(old) THEN old[k] ELSE data[k - Len(old)]
    BY <1>4, ConcatProperties
  <2> HIDE DEF all
  <2>2. QED
    BY <1>4, <2>1 DEF d
<1> HIDE DEF all
<1>7. ASSUME NEW k \in 1 .. (n + d) - at
      PROVE  new[k] = all[k]
  <2>1. /\ at + k \in 1 .. n + d /\ k \in 1 .. n - at + d
        /\ (at + k) - n = k - (n - at) /\ (at + k <= n <=> k <= n - at)
        /\ (k <= n - at => k \in 1 .. n - at)
    BY <1>1
  <2>2. QED
    BY <1>2, <1>4, <1>5, <1>6, <2>1
<1>8. Len(new) = Len(all) /\ Len(new) = (n + d) - at
  BY <1>1, <1>5, <1>6
<1>9. new = all
  BY <1>5, <1>6, <1>7, <1>8, SeqEqual
<1>10. QED
  BY <1>2, <1>9 DEF new, all, old, more, n, d

LEMMA ViewStays ==
    ASSUME NEW s \in Seq(Byte), NEW data \in Seq(Byte), NEW from \in Nat,
           NEW at \in Nat, NEW end \in Nat, at <= Len(s), end <= Len(s)
    PROVE  ViewTo(from, at, end, s \o data) = ViewTo(from, at, end, s)
BY SubSeqStays DEF ViewTo

(* A view that reaches the end, and is sent what is printed, still does.   *)
LEMMA ViewGrows ==
    ASSUME NEW s \in Seq(Byte), NEW data \in Seq(Byte), NEW from \in Nat,
           NEW at \in Nat, at <= Len(s)
    PROVE  ViewTo(from, at, Len(s \o data), s \o data)
              = ViewTo(from, at, Len(s), s) \o data
<1> DEFINE given == Lossy(SubSeq(s, from + 1, at))
           live == SubSeq(s, at + 1, Len(s))
<1>1. Len(s) \in Nat
  BY LenProperties
<1>2. given \in Seq(Text)
  BY SubSeqType, LossyType DEF Text
<1>3. live \in Seq(Text) /\ data \in Seq(Text)
  BY <1>1, SubSeqType, BytesAreText DEF Text
<1>4. /\ SubSeq(s \o data, from + 1, at) = SubSeq(s, from + 1, at)
      /\ SubSeq(s \o data, at + 1, Len(s \o data)) = live \o data
  BY SubSeqStays, SubSeqGrows
<1>5. ViewTo(from, at, Len(s \o data), s \o data) = given \o (live \o data)
  BY <1>4 DEF ViewTo
<1>6. ViewTo(from, at, Len(s), s) = given \o live
  BY DEF ViewTo
<1> HIDE DEF given, live
<1>7. (given \o live) \o data = given \o (live \o data)
  BY ONLY <1>2, <1>3, ConcatAssociative
<1>8. QED
  BY <1>5, <1>6, <1>7

(* The view of one that has been given the end of what was printed. *)
LEMMA ViewBegins ==
    ASSUME NEW output \in Seq(Byte), NEW s \in Seq(Byte), SuffixOf(output, s)
    PROVE  ViewTo(Len(s) - Len(output), Len(s), Len(s), s) = Lossy(output)
<1> DEFINE n == Len(s)
           from == n - Len(output)
           given == SubSeq(s, from + 1, n)
<1>1. n \in Nat /\ Len(output) \in Nat /\ from \in Nat
  BY LenProperties DEF SuffixOf
<1>2. given = output
  <2>1. from + 1 \in Int /\ n \in Int /\ \A k \in from + 1 .. n : s[k] \in Byte
    BY <1>1, ElementOfSeq
  <2> HIDE DEF n
  <2>2. /\ given \in Seq(Byte)
        /\ Len(given) = IF from + 1 <= n THEN n - (from + 1) + 1 ELSE 0
        /\ \A k \in 1 .. n - (from + 1) + 1 : given[k] = s[(from + 1) + k - 1]
    BY <2>1, SubSeqProperties
  <2>3. \A k \in 1 .. Len(output) :
           k \in 1 .. n - (from + 1) + 1 /\ (from + 1) + k - 1 = n - Len(output) + k
    BY <1>1
  <2> HIDE DEF given
  <2>4. Len(given) = Len(output)
    BY <1>1, <2>2 DEF from
  <2>5. \A k \in 1 .. Len(output) : given[k] = output[k]
    <3>1. \A k \in 1 .. Len(output) : output[k] = s[n - Len(output) + k]
      BY DEF SuffixOf, n
    <3> HIDE DEF from
    <3>2. QED
      BY <2>2, <2>3, <3>1
  <2>6. QED
    BY <2>2, <2>4, <2>5, SeqEqual
<1>3. SubSeq(s, n + 1, n) = <<>>
  BY <1>1, SubSeqEmpty
<1>4. Lossy(output) \in Seq(Text)
  BY LossyType DEF Text
<1>5. ViewTo(from, n, n, s) = Lossy(given) \o SubSeq(s, n + 1, n)
  BY DEF ViewTo
<1> HIDE DEF given
<1>6. ViewTo(from, n, n, s) = Lossy(output) \o <<>>
  BY <1>2, <1>3, <1>5
<1>7. Lossy(output) \o <<>> = Lossy(output)
  BY <1>4, ConcatEmptySeq
<1>8. QED
  BY <1>6, <1>7

LEMMA SuffixOfSuffix ==
    ASSUME NEW r \in Seq(Byte), NEW s \in Seq(Byte), NEW t \in Seq(Byte),
           SuffixOf(r, s), SuffixOf(s, t)
    PROVE  SuffixOf(r, t)
<1>1. Len(r) \in Nat /\ Len(s) \in Nat /\ Len(t) \in Nat
  BY LenProperties
<1>2. ASSUME NEW k \in 1 .. Len(r)
      PROVE  r[k] = t[Len(t) - Len(r) + k]
  <2>1. /\ Len(s) - Len(r) + k \in 1 .. Len(s)
        /\ Len(t) - Len(s) + (Len(s) - Len(r) + k) = Len(t) - Len(r) + k
    BY <1>1 DEF SuffixOf
  <2>2. QED
    BY <2>1 DEF SuffixOf
<1>3. Len(r) <= Len(t)
  BY <1>1 DEF SuffixOf
<1>4. QED
  BY <1>2, <1>3 DEF SuffixOf

(* What the scrollback keeps of one that ends what was printed does so.    *)
LEMMA LastOfSuffix ==
    ASSUME NEW s \in Seq(Byte), NEW t \in Seq(Byte), SuffixOf(s, t),
           NEW data \in Seq(Byte), NEW n \in Nat
    PROVE  SuffixOf(Scroll!LastOf(n, s \o data), t \o data)
<1> DEFINE short == s \o data
           long == t \o data
           kept == Scroll!LastOf(n, short)
<1>1. /\ Len(s) \in Nat /\ Len(t) \in Nat /\ Len(data) \in Nat
      /\ short \in Seq(Byte) /\ long \in Seq(Byte)
      /\ Len(short) = Len(s) + Len(data) /\ Len(long) = Len(t) + Len(data)
  BY LenProperties, ConcatProperties
<1>2. \A k \in 1 .. Len(s) + Len(data) :
         short[k] = IF k <= Len(s) THEN s[k] ELSE data[k - Len(s)]
  BY ConcatProperties
<1>3. \A k \in 1 .. Len(t) + Len(data) :
         long[k] = IF k <= Len(t) THEN t[k] ELSE data[k - Len(t)]
  BY ConcatProperties
<1> HIDE DEF short, long
<1>4. SuffixOf(short, long)
  <2>1. ASSUME NEW k \in 1 .. Len(short)
        PROVE  short[k] = long[Len(long) - Len(short) + k]
    <3>1. /\ Len(long) - Len(short) + k = Len(t) - Len(s) + k
          /\ Len(t) - Len(s) + k \in 1 .. Len(t) + Len(data)
          /\ (Len(t) - Len(s) + k) - Len(t) = k - Len(s)
          /\ k <= Len(s) <=> Len(t) - Len(s) + k <= Len(t)
      BY <1>1 DEF SuffixOf
    <3>2. k <= Len(s) => s[k] = t[Len(t) - Len(s) + k]
      BY <1>1 DEF SuffixOf
    <3>3. QED
      BY <1>1, <1>2, <1>3, <3>1, <3>2
  <2>2. QED
    BY <1>1, <2>1 DEF SuffixOf
<1>5. kept \in Seq(Byte) /\ SuffixOf(kept, short)
  <2>1. CASE Len(short) > n
    <3>1. kept = SubSeq(short, Len(short) - n + 1, Len(short))
      BY <2>1 DEF Scroll!LastOf
    <3>2. /\ Len(short) - n + 1 \in Int /\ Len(short) \in Int
          /\ \A k \in Len(short) - n + 1 .. Len(short) : short[k] \in Byte
      BY <1>1, <2>1, ElementOfSeq
    <3>3. /\ kept \in Seq(Byte) /\ Len(kept) = n
          /\ \A k \in 1 .. n : kept[k] = short[(Len(short) - n + 1) + k - 1]
      <4> DEFINE first == Len(short) - n + 1
                 size == Len(short)
      <4>0. first \in Int /\ size \in Int /\ \A k \in first .. size : short[k] \in Byte
        BY <3>2
      <4> HIDE DEF first, size
      <4>1. /\ SubSeq(short, first, size) \in Seq(Byte)
            /\ Len(SubSeq(short, first, size)) = IF first <= size THEN size - first + 1 ELSE 0
            /\ \A k \in 1 .. size - first + 1 :
                  SubSeq(short, first, size)[k] = short[first + k - 1]
        BY <4>0, SubSeqProperties
      <4>2. size - first + 1 = n /\ (n # 0 => first <= size)
            /\ (n = 0 => ~(first <= size))
        BY <1>1 DEF first, size
      <4>3. kept = SubSeq(short, first, size)
        BY <3>1 DEF first, size
      <4> HIDE DEF kept
      <4>4. kept \in Seq(Byte) /\ Len(kept) = n
        BY <4>0, <4>1, <4>2, <4>3
      <4>5. \A k \in 1 .. n : kept[k] = short[first + k - 1]
        BY <4>1, <4>2, <4>3
      <4>6. QED
        BY <4>4, <4>5 DEF first, size
    <3>4. \A k \in 1 .. n : (Len(short) - n + 1) + k - 1 = Len(short) - n + k
      BY <1>1
    <3> HIDE DEF kept
    <3>5. \A k \in 1 .. n : kept[k] = short[Len(short) - n + k]
      BY <3>3, <3>4
    <3>6. Len(kept) <= Len(short) /\ Len(kept) = n
      BY <1>1, <2>1, <3>3
    <3>7. \A k \in 1 .. Len(kept) : kept[k] = short[Len(short) - Len(kept) + k]
      BY <3>5, <3>6
    <3>8. QED
      BY <3>3, <3>6, <3>7 DEF SuffixOf
  <2>2. CASE ~(Len(short) > n)
    <3>1. kept = short
      BY <2>2 DEF Scroll!LastOf
    <3>2. \A k \in 1 .. Len(short) : Len(short) - Len(short) + k = k
      BY <1>1
    <3> HIDE DEF kept
    <3>3. Len(kept) <= Len(short)
      BY <1>1, <3>1
    <3>4. QED
      BY <1>1, <3>1, <3>2, <3>3 DEF SuffixOf
  <2>3. QED
    BY <2>1, <2>2
<1> HIDE DEF kept
<1>6. SuffixOf(kept, long)
  BY <1>1, <1>4, <1>5, SuffixOfSuffix
<1>7. QED
  BY <1>6 DEF kept, short, long

(* What --lines selects ends what was printed as the scrollback does. *)
LEMMA LastNLinesSuffix ==
    ASSUME RingAssumption, RingTypeOK, NEW n \in Nat
    PROVE  LastNLines(n) \in Seq(Byte) /\ SuffixOf(LastNLines(n), AllBytes)
<1> DEFINE all == AllBytes
           lines == LastNLines(n)
           size == Len(all)
           first == size - Len(lines) + 1
<1>1. /\ all \in Seq(Byte) /\ size = len /\ size \in Nat
      /\ lines \in Seq(Byte) /\ Len(lines) <= len /\ Len(lines) \in Nat
  BY AllBytesFromEnd, LastNLinesType, LenProperties DEF FromEnd
<1>2. lines = SubSeq(all, first, size)
  BY LastNLinesSelects DEF LastLines
<1> HIDE DEF all, lines, size
<1>3. first \in Int /\ size \in Int /\ first >= 1
      /\ \A k \in 1 .. size : all[k] \in Byte
  BY <1>1, ElementOfSeq DEF size
<1>4. \A k \in 1 .. size - first + 1 : SubSeq(all, first, size)[k] = all[first + k - 1]
  <2>1. \A k \in first .. size : all[k] \in Byte
    BY <1>1, <1>3
  <2> HIDE DEF first
  <2>2. QED
    BY <1>3, <2>1, SubSeqProperties
<1>5. \A k \in 1 .. Len(lines) : k \in 1 .. size - first + 1
                                 /\ first + k - 1 = size - Len(lines) + k
  BY <1>1
<1> HIDE DEF first
<1>6. \A k \in 1 .. Len(lines) : lines[k] = all[size - Len(lines) + k]
  BY <1>2, <1>4, <1>5
<1>7. QED
  BY <1>1, <1>6 DEF SuffixOf, all, lines, size

-----------------------------------------------------------------------------
(* ViewsOK is inductive.  A view is what it should be because the response *)
(* is the end of what was printed when it was made, and because frames     *)
(* other than output carry no text; nothing is left over from an earlier   *)
(* visit of the same client.                                               *)

StreamOK == SuffixOf(AllBytes, stream)

LoopOK ==
    /\ awaiting.frame.data = <<>>
    /\ ~LoopFree => mode[awaiting.client] # "off"

GoneOK(c) ==
    /\ mode[c] \in {"off", "leaving"} => chan[c] = <<>> /\ screen[c] = <<>>
    /\ mode[c] = "off" => c \notin attached

ViewOK(c) ==
    c \in Followed =>
        \E end \in joined[c] .. Len(stream) :
            /\ View(c) = ViewTo(start[c], joined[c], end, stream)
            /\ c \in attached => end = Len(stream)

ViewsOK == StreamOK /\ LoopOK /\ \A c \in Clients : GoneOK(c) /\ ViewOK(c)

LEMMA ClientTypes ==
    ASSUME OutputInv, NEW c \in Clients
    PROVE  /\ screen[c] \in Seq(Text) /\ chan[c] \in Seq(Frames) /\ start[c] \in Nat
           /\ stream \in Seq(Byte) /\ Len(stream) \in Nat /\ joined[c] \in Nat
           /\ View(c) = Shown(screen[c], chan[c]) /\ View(c) \in Seq(Text)
<1>1. /\ screen[c] \in Seq(Text) /\ chan[c] \in Seq(Frames)
      /\ start[c] \in Nat /\ joined[c] \in Nat
      /\ stream \in Seq(Byte) /\ Len(stream) \in Nat
  BY LenProperties, OutputAssumption DEF OutputInv, OutputTypeOK, Text, OutputAssumption
<1>2. QED
  BY <1>1, ViewIsShown, ShownType

LEMMA BareShown ==
    ASSUME NEW sc \in Seq(Text), NEW ch \in Seq(Frames), NEW f \in Frames, f.data = <<>>
    PROVE  Shown(sc, Append(ch, f)) = Shown(sc, ch)
<1>1. Shown(sc, ch) \in Seq(Text)
  BY ShownType
<1>2. Shown(sc, Append(ch, f)) = Shown(sc, ch) \o <<>>
  BY ShownAppend
<1>3. Shown(sc, ch) \o <<>> = Shown(sc, ch)
  BY <1>1, ConcatEmptySeq
<1>4. QED
  BY <1>2, <1>3

LEMMA BareFrame ==
    ASSUME NEW kind \in {"output", "response", "ok", "stolen", "exited"}
    PROVE  Frame(kind, <<>>) \in Frames /\ Frame(kind, <<>>).data = <<>>
BY BareFrameType DEF Frame

LEMMA StreamStays ==
    ASSUME StreamOK, UNCHANGED <<ring, stream>>
    PROVE  StreamOK'
<1>1. AllBytes' = AllBytes /\ stream' = stream
  BY DEF AllBytes, Start, Slice, ring
<1>2. SuffixOf(AllBytes, stream)' <=> SuffixOf(AllBytes, stream)
  BY <1>1 DEF SuffixOf
<1>3. QED
  BY <1>2 DEF StreamOK

LEMMA LoopStays ==
    ASSUME LoopOK, OutputInv, UNCHANGED awaiting,
           LoopFree \/ \A d \in Clients : mode'[d] = "off" => mode[d] = "off"
    PROVE  LoopOK'
BY DEF LoopOK, LoopFree, Idle, OutputInv, OutputTypeOK

(* What c will have been shown does not change. *)
LEMMA ViewKept ==
    ASSUME NEW c \in Clients, ViewOK(c), UNCHANGED stream,
           c \in Followed' =>
              /\ c \in Followed /\ start'[c] = start[c] /\ joined'[c] = joined[c]
              /\ Shown(screen'[c], chan'[c]) = Shown(screen[c], chan[c])
              /\ c \in attached' => c \in attached
    PROVE  ViewOK(c)'
<1>1. View(c) = Shown(screen[c], chan[c]) /\ View(c)' = Shown(screen'[c], chan'[c])
  BY DEF View, Shown, Payloads
<1>2. SUFFICES ASSUME c \in Followed'
               PROVE  \E end \in joined'[c] .. Len(stream') :
                          /\ View(c)' = ViewTo(start'[c], joined'[c], end, stream')
                          /\ c \in attached' => end = Len(stream')
  BY DEF ViewOK
<1>3. /\ View(c)' = View(c) /\ c \in Followed
      /\ start'[c] = start[c] /\ joined'[c] = joined[c]
  BY <1>1, <1>2
<1>4. QED
  BY <1>2, <1>3 DEF ViewOK

(* Nothing happens to c. *)
LEMMA ClientStays ==
    ASSUME NEW c \in Clients, GoneOK(c), ViewOK(c), UNCHANGED stream,
           chan'[c] = chan[c], screen'[c] = screen[c], start'[c] = start[c],
           joined'[c] = joined[c], mode'[c] = mode[c], c \in attached' => c \in attached,
           c \in lost => c \in lost', c \in torn => c \in torn'
    PROVE  GoneOK(c)' /\ ViewOK(c)'
<1>1. GoneOK(c)'
  BY DEF GoneOK
<1>2. c \in Followed' => c \in Followed
  BY DEF Followed
<1>3. QED
  BY <1>1, <1>2, ViewKept

(* What a try_send may do to c: send, find no room, or pass it over. *)
LEMMA TrySendTo ==
    ASSUME OutputInv, NEW c \in Clients, NEW f, TrySend(attached, f)
    PROVE  \/ /\ c \in attached /\ Open(c)
              /\ chan'[c] = Append(chan[c], f) /\ screen'[c] = screen[c]
              /\ start'[c] = start[c] /\ joined'[c] = joined[c]
              /\ (c \in lost' <=> c \in lost)
           \/ /\ c \in attached /\ Open(c) /\ c \in lost'
           \/ /\ c \notin attached \/ ~Open(c)
              /\ chan'[c] = chan[c] /\ screen'[c] = screen[c]
              /\ start'[c] = start[c] /\ joined'[c] = joined[c]
              /\ (c \in lost' <=> c \in lost)
BY DEF TrySend, Forget

LEMMA PtyDataViews ==
    ASSUME OutputInv, ViewsOK, NEW data \in Chunks, PtyData(data)
    PROVE  ViewsOK'
<1>1. /\ data \in Seq(Byte) /\ Write(data) /\ stream \in Seq(Byte)
      /\ stream' = stream \o data /\ RingTypeOK /\ attached' = attached
      /\ mode' = mode /\ torn' = torn
  BY RingAssumption DEF RingAssumption, PtyData, OutputInv, OutputTypeOK
<1>2. StreamOK'
  <2>2. AllBytes' = Scroll!LastOf(Capacity, AllBytes \o data)
    BY <1>1, RingAssumption, WriteKeepsLast
  <2>3. AllBytes \in Seq(Byte) /\ Capacity \in Nat /\ SuffixOf(AllBytes, stream)
    BY <1>1, RingAssumption, AllBytesFromEnd DEF FromEnd, RingAssumption, ViewsOK, StreamOK
  <2>4. SuffixOf(Scroll!LastOf(Capacity, AllBytes \o data), stream \o data)
    BY <1>1, <2>3, LastOfSuffix
  <2>5. SuffixOf(AllBytes', stream')
    BY <1>1, <2>2, <2>4
  <2>6. QED
    BY <2>5 DEF StreamOK, SuffixOf
<1>3. LoopOK'
  BY <1>1, LoopStays DEF PtyData, ViewsOK
<1>4. ASSUME NEW c \in Clients
      PROVE  GoneOK(c)' /\ ViewOK(c)'
  <2> DEFINE f == Frame("output", data)
  <2>1. f \in Frames /\ f.data = data
    BY <1>1, BytesAreText, FrameType DEF Frame
  <2>2. TrySend(attached, f) /\ GoneOK(c) /\ ViewOK(c)
    BY DEF PtyData, ViewsOK
  <2>3. /\ screen[c] \in Seq(Text) /\ chan[c] \in Seq(Frames) /\ start[c] \in Nat
        /\ joined[c] \in Nat /\ Len(stream) \in Nat
        /\ View(c) = Shown(screen[c], chan[c]) /\ View(c) \in Seq(Text)
        /\ View(c)' = Shown(screen'[c], chan'[c])
    BY ClientTypes DEF View, Shown, Payloads
  <2> HIDE DEF f
  <2>4. CASE /\ c \in attached /\ Open(c)
             /\ chan'[c] = Append(chan[c], f) /\ screen'[c] = screen[c]
             /\ start'[c] = start[c] /\ joined'[c] = joined[c]
             /\ (c \in lost' <=> c \in lost)
    <3>1. GoneOK(c)'
      BY <1>1, <2>2, <2>4 DEF GoneOK, Open
    <3>2. View(c)' = View(c) \o data
      BY <2>1, <2>3, <2>4, ShownAppend
    <3>3. ASSUME c \in Followed'
          PROVE  /\ Len(stream') \in joined'[c] .. Len(stream')
                 /\ View(c)' = ViewTo(start'[c], joined'[c], Len(stream'), stream')
      <4>1. c \in Followed
        BY <1>1, <2>4, <3>3 DEF Followed
      <4>2. joined[c] <= Len(stream) /\ View(c) = ViewTo(start[c], joined[c], Len(stream), stream)
        BY <2>2, <2>3, <2>4, <4>1 DEF ViewOK
      <4>3. View(c) \o data
              = ViewTo(start[c], joined[c], Len(stream \o data), stream \o data)
        <5>1. ViewTo(start[c], joined[c], Len(stream \o data), stream \o data)
                = ViewTo(start[c], joined[c], Len(stream), stream) \o data
          BY <1>1, <2>3, <4>2, ViewGrows
        <5>2. QED
          BY <4>2, <5>1
      <4>4. Len(stream \o data) \in joined[c] .. Len(stream \o data)
        BY <1>1, <2>3, <4>2, ConcatProperties, LenProperties
      <4>5. QED
        BY <1>1, <2>4, <3>2, <4>3, <4>4
    <3>4. ViewOK(c)'
      BY <3>3 DEF ViewOK
    <3>5. QED
      BY <3>1, <3>4
  <2>5. CASE c \in attached /\ Open(c) /\ c \in lost'
    <3>1. GoneOK(c)'
      BY <1>1, <2>2, <2>5 DEF GoneOK, Open
    <3>2. QED
      BY <2>5, <3>1 DEF ViewOK, Followed
  <2>6. CASE /\ c \notin attached \/ ~Open(c)
             /\ chan'[c] = chan[c] /\ screen'[c] = screen[c]
             /\ start'[c] = start[c] /\ joined'[c] = joined[c]
             /\ (c \in lost' <=> c \in lost)
    <3>1. GoneOK(c)'
      BY <1>1, <2>2, <2>6 DEF GoneOK
    <3>2. View(c)' = View(c)
      BY <2>3, <2>6
    <3>3. ASSUME c \in Followed'
          PROVE  /\ \E end \in joined'[c] .. Len(stream') :
                       View(c)' = ViewTo(start'[c], joined'[c], end, stream')
                 /\ c \notin attached'
      <4>1. c \in Followed /\ c \notin attached
        BY <1>1, <2>6, <3>3 DEF Followed, Open
      <4>2. PICK end \in joined[c] .. Len(stream) :
              View(c) = ViewTo(start[c], joined[c], end, stream)
        BY <2>2, <4>1 DEF ViewOK
      <4>3. end \in Nat /\ end <= Len(stream) /\ joined[c] <= Len(stream)
        BY <2>3, <4>2
      <4>4. View(c) = ViewTo(start[c], joined[c], end, stream \o data)
        BY <1>1, <2>3, <4>2, <4>3, ViewStays
      <4>5. end \in joined[c] .. Len(stream \o data)
        BY <1>1, <2>3, <4>2, <4>3, ConcatProperties, LenProperties
      <4>6. QED
        BY <1>1, <2>6, <3>2, <4>1, <4>4, <4>5
    <3>4. ViewOK(c)'
      BY <3>3 DEF ViewOK
    <3>5. QED
      BY <3>1, <3>4
  <2>7. QED
    BY <2>2, <2>4, <2>5, <2>6, TrySendTo
<1>5. QED
  BY <1>2, <1>3, <1>4 DEF ViewsOK

(* A client that begins finds its screen and its channel empty.  output is *)
(* the end of what was printed, and the response is output converted.      *)
LEMMA BeginViews ==
    ASSUME OutputInv, ViewsOK, NEW c \in Clients, NEW output \in Seq(Byte),
           SuffixOf(output, stream), Begin(c, output), mode[c] = "off",
           chan'[c] = <<Frame("response", Lossy(output))>>
    PROVE  GoneOK(c)' /\ ViewOK(c)' /\ StreamOK'
<1> DEFINE f == Frame("response", Lossy(output))
<1>1. /\ screen'[c] = <<>> /\ mode'[c] = "asking" /\ stream' = stream
      /\ start'[c] = Len(stream) - Len(output) /\ joined'[c] = Len(stream)
      /\ stream \in Seq(Byte)
  BY DEF Begin, ViewsOK, GoneOK, OutputInv, OutputTypeOK, StreamOK
<1>2. f \in Frames /\ f.data = Lossy(output)
  BY LossyType, FrameType DEF Frame
<1>3. View(c)' = Lossy(output)
  <2>1. View(c)' = Shown(screen'[c], chan'[c])
    BY DEF View, Shown, Payloads
  <2>2. Shown(<<>>, <<f>>) = f.data
    BY <1>2, ShownFirst
  <2>3. QED
    BY <1>1, <1>2, <2>1, <2>2
<1>4. Lossy(output) = ViewTo(Len(stream) - Len(output), Len(stream), Len(stream), stream)
  BY <1>1, ViewBegins
<1>5. Len(stream) \in Nat
  BY <1>1, LenProperties
<1>6. /\ View(c)' = ViewTo(start'[c], joined'[c], Len(stream'), stream')
      /\ Len(stream') \in joined'[c] .. Len(stream')
  BY <1>1, <1>3, <1>4, <1>5
<1>7. ViewOK(c)'
  BY <1>6 DEF ViewOK
<1>8. GoneOK(c)'
  BY <1>1 DEF GoneOK
<1>9. StreamOK'
  BY StreamStays DEF Begin, ViewsOK
<1>10. QED
  BY <1>7, <1>8, <1>9

LEMMA SessionAttachViews ==
    ASSUME OutputInv, ViewsOK, NEW c \in Clients, SessionAttach(c)
    PROVE  ViewsOK'
<1> DEFINE evicted == attached \cap selecting
           told == {d \in evicted : Open(d) /\ HasRoom(d)}
           f == Frame("stolen", <<>>)
<1>1. /\ Begin(c, Snapshot) /\ mode[c] = "off" /\ LoopFree
      /\ attached' = (attached \ evicted) \cup {c}
      /\ lost \subseteq lost'
      /\ chan' = [d \in Clients |->
                      IF d = c THEN <<Frame("response", Lossy(Snapshot))>>
                      ELSE IF d \in told THEN Append(chan[d], f) ELSE chan[d]]
  BY DEF SessionAttach
<1>2. Snapshot \in Seq(Byte) /\ SuffixOf(Snapshot, stream)
  BY RingAssumption, AllBytesFromEnd, InvParts
     DEF Snapshot, FromEnd, ScrollOK, ViewsOK, StreamOK
<1> HIDE DEF told, f
<1>3. GoneOK(c)' /\ ViewOK(c)' /\ StreamOK'
  BY <1>1, <1>2, BeginViews
<1>4. ASSUME NEW d \in Clients, d # c
      PROVE  GoneOK(d)' /\ ViewOK(d)'
  <2>1. /\ stream' = stream /\ screen' = screen /\ torn' = torn
        /\ mode'[d] = mode[d] /\ start'[d] = start[d] /\ joined'[d] = joined[d]
        /\ d \in attached' => d \in attached
        /\ d \in lost => d \in lost'
    BY <1>1, <1>4 DEF Begin, OutputInv, OutputTypeOK
  <2>2. GoneOK(d) /\ ViewOK(d)
    BY DEF ViewsOK
  <2>3. CASE d \in told
    <3>1. d \in attached /\ Open(d) /\ chan'[d] = Append(chan[d], f)
      BY <1>1, <1>4, <2>3 DEF told
    <3>2. GoneOK(d)'
      BY <2>1, <2>2, <3>1 DEF GoneOK, Open
    <3>3. Shown(screen[d], Append(chan[d], f)) = Shown(screen[d], chan[d])
      BY ClientTypes, BareFrame, BareShown DEF f
    <3>4. d \in Followed' => d \in Followed
      BY <2>1 DEF Followed
    <3>5. QED
      BY <2>1, <2>2, <3>1, <3>2, <3>3, <3>4, ViewKept
  <2>4. CASE d \notin told
    <3>1. chan'[d] = chan[d]
      BY <1>1, <1>4, <2>4
    <3>2. QED
      BY <2>1, <2>2, <3>1, ClientStays
  <2>5. QED
    BY <2>3, <2>4
<1>5. LoopOK'
  BY <1>1, LoopStays DEF Begin, ViewsOK
<1>6. QED
  BY <1>3, <1>4, <1>5 DEF ViewsOK

LEMMA SessionOutputViews ==
    ASSUME OutputInv, ViewsOK, NEW c \in Clients, SessionOutput(c)
    PROVE  ViewsOK'
<1>1. PICK output \in {AllBytes} \cup {LastNLines(n) : n \in Lines} :
        /\ LoopFree /\ mode[c] = "off"
        /\ attached' = attached \cup {c}
        /\ chan' = [chan EXCEPT ![c] = <<Frame("response", Lossy(output))>>]
        /\ Begin(c, output)
        /\ UNCHANGED <<selecting, lost>>
  BY DEF SessionOutput
<1>2. output \in Seq(Byte) /\ SuffixOf(output, stream)
  <2>1. RingTypeOK /\ stream \in Seq(Byte)
    BY DEF OutputInv, OutputTypeOK
  <2>2. AllBytes \in Seq(Byte) /\ SuffixOf(AllBytes, stream)
    BY <2>1, RingAssumption, AllBytesFromEnd DEF FromEnd, ViewsOK, StreamOK
  <2>3. ASSUME NEW n \in Lines
        PROVE  LastNLines(n) \in Seq(Byte) /\ SuffixOf(LastNLines(n), stream)
    <3>1. LastNLines(n) \in Seq(Byte) /\ SuffixOf(LastNLines(n), AllBytes)
      BY <2>1, RingAssumption, OutputAssumption, LastNLinesSuffix DEF OutputAssumption
    <3>2. QED
      BY <2>1, <2>2, <3>1, SuffixOfSuffix
  <2>4. QED
    BY <1>1, <2>2, <2>3
<1>3. GoneOK(c)' /\ ViewOK(c)' /\ StreamOK'
  <2>1. chan'[c] = <<Frame("response", Lossy(output))>>
    BY <1>1 DEF OutputInv, OutputTypeOK
  <2>2. QED
    BY <1>1, <1>2, <2>1, BeginViews
<1>4. ASSUME NEW d \in Clients, d # c
      PROVE  GoneOK(d)' /\ ViewOK(d)'
  <2>1. /\ stream' = stream /\ screen' = screen /\ torn' = torn /\ lost' = lost
        /\ chan'[d] = chan[d] /\ mode'[d] = mode[d] /\ start'[d] = start[d] /\ joined'[d] = joined[d]
        /\ d \in attached' => d \in attached
    BY <1>1, <1>4 DEF Begin, OutputInv, OutputTypeOK
  <2>2. QED
    BY <2>1, ClientStays DEF ViewsOK
<1>5. LoopOK'
  BY <1>1, LoopStays DEF Begin, ViewsOK
<1>6. QED
  BY <1>3, <1>4, <1>5 DEF ViewsOK

-----------------------------------------------------------------------------

(* A client that is not there has no request on its way: the loop sees the *)
(* end of a connection after all that came over it.                        *)
UpstreamOK == \A c \in Clients : mode[c] = "off" => requests[c] = 0

LEMMA UpstreamStays ==
    ASSUME UpstreamOK, UNCHANGED requests,
           \A d \in Clients : mode'[d] = "off" => mode[d] = "off"
    PROVE  UpstreamOK'
BY DEF UpstreamOK

LEMMA UpstreamInit ==
    ASSUME OutputInit
    PROVE  UpstreamOK
BY DEF OutputInit, UpstreamOK

LEMMA UpstreamNext ==
    ASSUME OutputInv, UpstreamOK, [OutputNext]_vars
    PROVE  UpstreamOK'
<1>1. /\ mode \in [Clients -> Modes] /\ requests \in [Clients -> 0 .. Backlog]
      /\ Backlog \in Nat
  BY OutputAssumption DEF OutputInv, OutputTypeOK, OutputAssumption, Modes
<1>2. CASE UNCHANGED vars
  BY <1>2, UpstreamStays DEF vars, clientSide, upstream
<1>3. CASE \E data \in Chunks : PtyData(data)
  BY <1>3, UpstreamStays DEF PtyData, upstream
<1>4. CASE SessionExited \/ ResponseSent \/ ResponseDropped
  BY <1>4, UpstreamStays DEF SessionExited, ResponseSent, ResponseDropped, clientSide, upstream
<1>5. ASSUME NEW c \in Clients, SessionAttach(c) \/ SessionOutput(c)
      PROVE  UpstreamOK'
  <2>1. mode' = [mode EXCEPT ![c] = "asking"] /\ UNCHANGED requests
    BY <1>5 DEF SessionAttach, SessionOutput, Begin, upstream
  <2>2. QED
    BY <1>1, <2>1, UpstreamStays
<1>6. ASSUME NEW c \in Clients, ClientMessage(c)
      PROVE  UpstreamOK'
  BY <1>1, <1>6 DEF ClientMessage, clientSide, UpstreamOK
<1>7. ASSUME NEW c \in Clients, SessionDetach(c) \/ ReadCancelled(c)
      PROVE  UpstreamOK'
  BY <1>7, UpstreamStays DEF SessionDetach, ReadCancelled, clientSide, upstream
<1>8. ASSUME NEW c \in Clients, ClientDisconnected(c)
      PROVE  UpstreamOK'
  BY <1>1, <1>8 DEF ClientDisconnected, upstream, UpstreamOK
<1>9. ASSUME NEW c \in Clients, SendRequest(c)
      PROVE  UpstreamOK'
  BY <1>1, <1>9 DEF SendRequest, clientSide, UpstreamOK
<1>10. ASSUME NEW c \in Clients,
              ReadFrame(c) \/ ReadTorn(c) \/ Leave(c) \/ Exit(c) \/ Die(c)
       PROVE  UpstreamOK'
  <2>1. /\ UNCHANGED requests
        /\ \/ \E m \in {"viewing", "quitting", "leaving"} : mode' = [mode EXCEPT ![c] = m]
           \/ UNCHANGED mode
    BY <1>10 DEF ReadFrame, ReadTorn, Leave, Exit, Die, Quit, Close
  <2>2. QED
    BY <1>1, <2>1, UpstreamStays
<1>11. QED
  BY <1>2, <1>3, <1>4, <1>5, <1>6, <1>7, <1>8, <1>9, <1>10 DEF OutputNext

(* A frame without text changes no view. *)
LEMMA BareSentViews ==
    ASSUME OutputInv, ViewsOK, NEW c \in Clients, NEW f \in Frames, f.data = <<>>,
           mode[c] # "off", Open(c), chan' = [chan EXCEPT ![c] = Append(@, f)],
           UNCHANGED <<stream, screen, start, joined, mode, attached, lost, torn>>
    PROVE  \A d \in Clients : GoneOK(d)' /\ ViewOK(d)'
<1> SUFFICES ASSUME NEW d \in Clients
             PROVE  GoneOK(d)' /\ ViewOK(d)'
  OBVIOUS
<1>1. GoneOK(d) /\ ViewOK(d) /\ chan \in [Clients -> Seq(Frames)]
  BY DEF ViewsOK, OutputInv, OutputTypeOK
<1>2. CASE d = c
  <2>1. chan'[d] = Append(chan[d], f)
    BY <1>1, <1>2
  <2>2. GoneOK(d)'
    BY <1>1, <1>2 DEF GoneOK, Open
  <2>3. Shown(screen[d], Append(chan[d], f)) = Shown(screen[d], chan[d])
    BY ClientTypes, BareShown
  <2>4. d \in Followed' => d \in Followed
    BY DEF Followed
  <2>5. QED
    BY <1>1, <2>1, <2>2, <2>3, <2>4, ViewKept
<1>3. CASE d # c
  <2>1. chan'[d] = chan[d]
    BY <1>1, <1>3
  <2>2. QED
    BY <1>1, <2>1, ClientStays
<1>4. QED
  BY <1>2, <1>3

LEMMA ClientMessageViews ==
    ASSUME OutputInv, UpstreamOK, ViewsOK, NEW c \in Clients, ClientMessage(c)
    PROVE  ViewsOK'
<1> DEFINE f == Frame("ok", <<>>)
<1>1. /\ UNCHANGED <<ring, stream, attached, mode, screen, torn, start, joined, lost>>
      /\ LoopFree /\ mode[c] # "off" /\ Respond(c, f)
  <2>1. requests[c] # 0
    BY DEF ClientMessage, OutputInv, OutputTypeOK
  <2>2. QED
    BY <2>1 DEF ClientMessage, UpstreamOK, daemonSide, clientSide, span
<1>2. f \in Frames /\ f.data = <<>>
  BY BareFrame
<1>3. StreamOK'
  BY <1>1, StreamStays DEF ViewsOK
<1>4. LoopOK /\ \A d \in Clients : GoneOK(d) /\ ViewOK(d)
  BY DEF ViewsOK
<1> HIDE DEF f
<1>5. LoopOK'
  <2>1. CASE UNCHANGED awaiting
    BY <1>1, <1>4, <2>1, LoopStays
  <2>2. CASE awaiting' = [client |-> c, frame |-> f]
    BY <1>1, <1>2, <2>2 DEF LoopOK
  <2>3. QED
    BY <1>1, <2>1, <2>2 DEF Respond
<1>6. \A d \in Clients : GoneOK(d)' /\ ViewOK(d)'
  <2>1. CASE UNCHANGED chan
    BY <1>1, <1>4, <2>1, ClientStays
  <2>2. CASE Open(c) /\ chan' = [chan EXCEPT ![c] = Append(@, f)]
    BY <1>1, <1>2, <2>2, BareSentViews
  <2>3. QED
    BY <1>1, <2>1, <2>2 DEF Respond
<1>7. QED
  BY <1>3, <1>5, <1>6 DEF ViewsOK

LEMMA SessionExitedViews ==
    ASSUME OutputInv, ViewsOK, SessionExited
    PROVE  ViewsOK'
<1> DEFINE f == Frame("exited", <<>>)
<1>1. /\ UNCHANGED <<ring, stream, attached, awaiting, mode, torn>>
      /\ TrySend(attached, f)
  BY DEF SessionExited, daemonSide
<1>2. f \in Frames /\ f.data = <<>>
  BY BareFrame
<1>3. StreamOK' /\ LoopOK'
  BY <1>1, StreamStays, LoopStays DEF ViewsOK
<1> HIDE DEF f
<1>4. ASSUME NEW c \in Clients
      PROVE  GoneOK(c)' /\ ViewOK(c)'
  <2>1. GoneOK(c) /\ ViewOK(c)
    BY DEF ViewsOK
  <2>2. CASE /\ c \in attached /\ Open(c)
             /\ chan'[c] = Append(chan[c], f) /\ screen'[c] = screen[c]
             /\ start'[c] = start[c] /\ joined'[c] = joined[c]
             /\ (c \in lost' <=> c \in lost)
    <3>1. GoneOK(c)'
      BY <1>1, <2>1, <2>2 DEF GoneOK, Open
    <3>2. Shown(screen[c], Append(chan[c], f)) = Shown(screen[c], chan[c])
      BY <1>2, ClientTypes, BareShown
    <3>3. c \in Followed' => c \in Followed
      BY <1>1, <2>2 DEF Followed
    <3>4. QED
      BY <1>1, <2>1, <2>2, <3>1, <3>2, <3>3, ViewKept
  <2>3. CASE c \in attached /\ Open(c) /\ c \in lost'
    <3>1. GoneOK(c)'
      BY <1>1, <2>1, <2>3 DEF GoneOK, Open
    <3>2. QED
      BY <2>3, <3>1 DEF ViewOK, Followed
  <2>4. CASE /\ chan'[c] = chan[c] /\ screen'[c] = screen[c]
             /\ start'[c] = start[c] /\ joined'[c] = joined[c]
             /\ (c \in lost' <=> c \in lost)
    BY <1>1, <2>1, <2>4, ClientStays
  <2>5. QED
    BY <1>1, <2>2, <2>3, <2>4, TrySendTo
<1>5. QED
  BY <1>3, <1>4 DEF ViewsOK

LEMMA ResponseSentViews ==
    ASSUME OutputInv, ViewsOK, ResponseSent
    PROVE  ViewsOK'
<1> DEFINE c == awaiting.client
           f == awaiting.frame
<1>1. /\ UNCHANGED <<ring, stream, attached, mode, screen, torn, start, joined, lost>>
      /\ ~LoopFree /\ Open(c) /\ awaiting' = Idle
      /\ chan' = [chan EXCEPT ![c] = Append(@, f)]
  BY DEF ResponseSent, daemonSide, clientSide, span
<1>2. c \in Clients /\ f \in Frames /\ f.data = <<>> /\ mode[c] # "off"
  BY <1>1 DEF OutputInv, OutputTypeOK, LoopFree, ViewsOK, LoopOK
<1>3. StreamOK'
  BY <1>1, StreamStays DEF ViewsOK
<1>4. LoopOK'
  BY <1>1 DEF LoopOK, LoopFree, Idle, Frame
<1> HIDE DEF c, f
<1>5. \A d \in Clients : GoneOK(d)' /\ ViewOK(d)'
  BY <1>1, <1>2, BareSentViews
<1>6. QED
  BY <1>3, <1>4, <1>5 DEF ViewsOK

LEMMA ResponseDroppedViews ==
    ASSUME OutputInv, ViewsOK, ResponseDropped
    PROVE  ViewsOK'
<1>1. /\ UNCHANGED <<ring, stream, attached, chan, mode, screen, torn, start, joined, lost>>
      /\ awaiting' = Idle
  BY DEF ResponseDropped, daemonSide, clientSide, span
<1>2. StreamOK'
  BY <1>1, StreamStays DEF ViewsOK
<1>3. LoopOK'
  BY <1>1 DEF LoopOK, LoopFree, Idle, Frame
<1>4. \A d \in Clients : GoneOK(d)' /\ ViewOK(d)'
  BY <1>1, ClientStays DEF ViewsOK
<1>5. QED
  BY <1>2, <1>3, <1>4 DEF ViewsOK

LEMMA SessionDetachViews ==
    ASSUME OutputInv, ViewsOK, NEW c \in Clients, SessionDetach(c)
    PROVE  ViewsOK'
<1>1. /\ UNCHANGED <<ring, stream, awaiting, chan, mode, screen, torn, start, joined, lost>>
      /\ attached' = attached \ {c}
  BY DEF SessionDetach, clientSide, span
<1>2. StreamOK' /\ LoopOK'
  BY <1>1, StreamStays, LoopStays DEF ViewsOK
<1>3. \A d \in Clients : GoneOK(d)' /\ ViewOK(d)'
  BY <1>1, ClientStays DEF ViewsOK
<1>4. QED
  BY <1>2, <1>3 DEF ViewsOK

LEMMA ClientDisconnectedViews ==
    ASSUME OutputInv, ViewsOK, NEW c \in Clients, ClientDisconnected(c)
    PROVE  ViewsOK'
<1>1. /\ UNCHANGED <<ring, stream, awaiting, chan, screen, start, joined>>
      /\ LoopFree /\ mode[c] = "leaving"
      /\ attached' = attached \ {c} /\ lost' = lost \ {c} /\ torn' = torn \ {c}
      /\ mode' = [mode EXCEPT ![c] = "off"]
  BY DEF ClientDisconnected, span
<1>2. StreamOK' /\ LoopOK'
  BY <1>1, StreamStays, LoopStays DEF ViewsOK
<1>3. ASSUME NEW d \in Clients
      PROVE  GoneOK(d)' /\ ViewOK(d)'
  <2>1. GoneOK(d) /\ ViewOK(d) /\ mode \in [Clients -> Modes]
    BY DEF ViewsOK, OutputInv, OutputTypeOK, Modes
  <2>2. CASE d = c
    BY <1>1, <2>1, <2>2 DEF GoneOK, ViewOK, Followed
  <2>3. CASE d # c
    BY <1>1, <2>1, <2>3, ClientStays
  <2>4. QED
    BY <2>2, <2>3
<1>4. QED
  BY <1>2, <1>3 DEF ViewsOK

LEMMA SendRequestViews ==
    ASSUME OutputInv, ViewsOK, NEW c \in Clients, SendRequest(c)
    PROVE  ViewsOK'
<1>1. UNCHANGED <<ring, stream, attached, awaiting, chan, mode, screen, torn, start, joined, lost>>
  BY DEF SendRequest, daemonSide, clientSide, span
<1>2. StreamOK' /\ LoopOK'
  BY <1>1, StreamStays, LoopStays DEF ViewsOK
<1>3. \A d \in Clients : GoneOK(d)' /\ ViewOK(d)'
  BY <1>1, ClientStays DEF ViewsOK
<1>4. QED
  BY <1>2, <1>3 DEF ViewsOK

(* A client that leaves its loop shows nothing, and one that has closed    *)
(* leaves nothing behind.                                                  *)
LEMMA GoingViews ==
    ASSUME OutputInv, ViewsOK, NEW c \in Clients, NEW m \in {"quitting", "leaving"},
           NEW rest, m = "leaving" => rest = <<>>,
           mode' = [mode EXCEPT ![c] = m], chan' = [chan EXCEPT ![c] = rest], Forget({c}),
           UNCHANGED <<ring, daemonSide, awaiting, torn, lost>>
    PROVE  ViewsOK'
<1>1. /\ screen' = [d \in Clients |-> IF d \in {c} THEN <<>> ELSE screen[d]]
      /\ start' = [d \in Clients |-> IF d \in {c} THEN 0 ELSE start[d]]
      /\ joined' = [d \in Clients |-> IF d \in {c} THEN 0 ELSE joined[d]]
      /\ stream' = stream /\ attached' = attached
  BY DEF Forget, daemonSide
<1>2. mode \in [Clients -> Modes] /\ chan \in [Clients -> Seq(Frames)]
  BY DEF OutputInv, OutputTypeOK, Modes
<1>3. StreamOK' /\ LoopOK'
  BY <1>1, <1>2, StreamStays, LoopStays DEF ViewsOK, daemonSide
<1>4. ASSUME NEW d \in Clients
      PROVE  GoneOK(d)' /\ ViewOK(d)'
  <2>1. GoneOK(d) /\ ViewOK(d)
    BY DEF ViewsOK
  <2>2. CASE d = c
    <3>1. mode'[d] = m /\ chan'[d] = rest /\ screen'[d] = <<>>
      BY <1>1, <1>2, <2>2
    <3>2. QED
      BY <3>1 DEF GoneOK, ViewOK, Followed
  <2>3. CASE d # c
    <3>1. mode'[d] = mode[d] /\ chan'[d] = chan[d] /\ screen'[d] = screen[d]
          /\ start'[d] = start[d] /\ joined'[d] = joined[d]
      BY <1>1, <1>2, <2>3
    <3>2. QED
      BY <1>1, <2>1, <3>1, ClientStays
  <2>4. QED
    BY <2>2, <2>3
<1>5. QED
  BY <1>3, <1>4 DEF ViewsOK

LEMMA QuitViews ==
    ASSUME OutputInv, ViewsOK, NEW c \in Clients, NEW rest, Quit(c, rest) \/ Close(c),
           UNCHANGED <<ring, daemonSide, awaiting, torn, lost>>
    PROVE  ViewsOK'
<1>1. CASE Close(c)
  BY <1>1, GoingViews DEF Close
<1>2. CASE Quit(c, rest) /\ ~Close(c)
  <2>1. /\ mode' = [mode EXCEPT ![c] = "quitting"]
        /\ chan' = [chan EXCEPT ![c] = rest] /\ Forget({c})
    BY <1>2 DEF Quit
  <2>2. QED
    BY <2>1, GoingViews
<1>3. QED
  BY <1>1, <1>2

LEMMA ReadFrameViews ==
    ASSUME OutputInv, ViewsOK, NEW c \in Clients, ReadFrame(c)
    PROVE  ViewsOK'
<1> DEFINE frame == Head(chan[c])
<1>1. /\ UNCHANGED <<ring, daemonSide, awaiting, torn, lost>>
      /\ chan[c] # <<>> /\ mode[c] \in {"asking", "viewing"}
  BY DEF ReadFrame, Reads
<1>2. CASE frame.kind \in {"stolen", "exited"}
  BY <1>1, <1>2, QuitViews DEF ReadFrame
<1>3. CASE frame.kind \notin {"stolen", "exited"}
  <2>1. /\ chan' = [chan EXCEPT ![c] = Tail(@)]
        /\ mode' = [mode EXCEPT ![c] = "viewing"]
        /\ screen' = [screen EXCEPT ![c] =
                         IF c \in lost THEN <<>> ELSE @ \o frame.data]
        /\ start' = start /\ joined' = joined
    BY <1>3 DEF ReadFrame, span
  <2>2. /\ mode \in [Clients -> Modes]
        /\ chan \in [Clients -> Seq(Frames)]
        /\ screen \in [Clients -> Seq(Text)]
    BY DEF OutputInv, OutputTypeOK, Text, Modes
  <2>3. StreamOK' /\ LoopOK'
    BY <1>1, <2>1, <2>2, StreamStays, LoopStays DEF ViewsOK, daemonSide
  <2>4. ASSUME NEW d \in Clients
        PROVE  GoneOK(d)' /\ ViewOK(d)'
    <3>1. GoneOK(d) /\ ViewOK(d)
      BY DEF ViewsOK
    <3>2. stream' = stream /\ attached' = attached
      BY <1>1 DEF daemonSide
    <3>3. CASE d = c
      <4>1. /\ mode'[d] = "viewing" /\ chan'[d] = Tail(chan[d])
            /\ d \notin lost => screen'[d] = screen[d] \o Head(chan[d]).data
        BY <2>1, <2>2, <3>3
      <4>2. GoneOK(d)'
        BY <4>1 DEF GoneOK
      <4>3. Shown(screen[d] \o Head(chan[d]).data, Tail(chan[d])) = Shown(screen[d], chan[d])
        BY <1>1, <3>3, ClientTypes, ShownTake
      <4>4. d \in Followed' => d \in Followed /\ d \notin lost
        BY <1>1, <3>3 DEF Followed
      <4>5. QED
        BY <2>1, <3>1, <3>2, <4>1, <4>2, <4>3, <4>4, ViewKept
    <3>4. CASE d # c
      <4>1. mode'[d] = mode[d] /\ chan'[d] = chan[d]
            /\ screen'[d] = screen[d] /\ start'[d] = start[d] /\ joined'[d] = joined[d]
        BY <2>1, <2>2, <3>4
      <4>2. QED
        BY <1>1, <3>1, <3>2, <4>1, ClientStays
    <3>5. QED
      BY <3>3, <3>4
  <2>5. QED
    BY <2>3, <2>4 DEF ViewsOK
<1>4. QED
  BY <1>2, <1>3

LEMMA ReadTornViews ==
    ASSUME OutputInv, ViewsOK, NEW c \in Clients, ReadTorn(c)
    PROVE  ViewsOK'
<1>1. /\ UNCHANGED <<ring, daemonSide, awaiting, torn, lost>> /\ c \in torn
      /\ mode[c] \in {"asking", "viewing"}
  BY DEF ReadTorn, Reads
<1>2. CASE Quit(c, Tail(chan[c]))
  BY <1>1, <1>2, QuitViews
<1>3. CASE chan' = [chan EXCEPT ![c] = Tail(@)] /\ UNCHANGED <<mode, screen, span>>
  <2>1. StreamOK' /\ LoopOK'
    BY <1>1, <1>3, StreamStays, LoopStays DEF ViewsOK, daemonSide, span
  <2>2. ASSUME NEW d \in Clients
        PROVE  GoneOK(d)' /\ ViewOK(d)'
    <3>1. GoneOK(d) /\ ViewOK(d) /\ stream' = stream /\ attached' = attached
          /\ chan \in [Clients -> Seq(Frames)]
      BY <1>1 DEF ViewsOK, daemonSide, OutputInv, OutputTypeOK
    <3>2. CASE d = c
      BY <1>1, <1>3, <3>1, <3>2 DEF GoneOK, ViewOK, Followed
    <3>3. CASE d # c
      <4>1. chan'[d] = chan[d]
        BY <1>3, <3>1, <3>3
      <4>2. QED
        BY <1>1, <1>3, <3>1, <4>1, ClientStays DEF span
    <3>4. QED
      BY <3>2, <3>3
  <2>3. QED
    BY <2>1, <2>2 DEF ViewsOK
<1>4. QED
  BY <1>2, <1>3 DEF ReadTorn

LEMMA ReadCancelledViews ==
    ASSUME OutputInv, ViewsOK, NEW c \in Clients, ReadCancelled(c)
    PROVE  ViewsOK'
<1>1. /\ UNCHANGED <<ring, daemonSide, chan, awaiting, mode, lost>>
      /\ torn' = torn \cup {c} /\ mode[c] = "viewing"
      /\ screen' = [d \in Clients |-> IF d \in {c} THEN <<>> ELSE screen[d]]
      /\ start' = [d \in Clients |-> IF d \in {c} THEN 0 ELSE start[d]]
      /\ joined' = [d \in Clients |-> IF d \in {c} THEN 0 ELSE joined[d]]
  BY DEF ReadCancelled, Forget
<1>2. StreamOK' /\ LoopOK'
  BY <1>1, StreamStays, LoopStays DEF ViewsOK, daemonSide
<1>3. ASSUME NEW d \in Clients
      PROVE  GoneOK(d)' /\ ViewOK(d)'
  <2>1. GoneOK(d) /\ ViewOK(d) /\ stream' = stream /\ attached' = attached
    BY <1>1 DEF ViewsOK, daemonSide
  <2>2. CASE d = c
    BY <1>1, <2>1, <2>2 DEF GoneOK, ViewOK, Followed
  <2>3. CASE d # c
    <3>1. screen'[d] = screen[d] /\ start'[d] = start[d] /\ joined'[d] = joined[d]
      BY <1>1, <2>3
    <3>2. QED
      BY <1>1, <2>1, <3>1, ClientStays
  <2>4. QED
    BY <2>2, <2>3
<1>4. QED
  BY <1>2, <1>3 DEF ViewsOK

LEMMA LeaveViews ==
    ASSUME OutputInv, ViewsOK, NEW c \in Clients, Leave(c) \/ Exit(c) \/ Die(c)
    PROVE  ViewsOK'
BY QuitViews DEF Leave, Exit, Die

LEMMA ViewsInit ==
    ASSUME OutputInit
    PROVE  ViewsOK
<1>1. stream = <<>> /\ AllBytes = <<>> /\ Len(<<>>) = 0
  BY DEF OutputInit, RingInit, AllBytes
<1>2. StreamOK
  BY <1>1 DEF StreamOK, SuffixOf
<1>3. LoopOK
  BY DEF OutputInit, LoopOK, LoopFree, Idle, Frame
<1>4. \A c \in Clients : GoneOK(c) /\ ViewOK(c)
  BY DEF OutputInit, GoneOK, ViewOK, Followed
<1>5. QED
  BY <1>2, <1>3, <1>4 DEF ViewsOK

LEMMA ViewsNext ==
    ASSUME OutputInv, UpstreamOK, ViewsOK, [OutputNext]_vars
    PROVE  ViewsOK'
<1>1. CASE UNCHANGED vars
  <2>1. UNCHANGED <<ring, stream, attached, awaiting, chan, mode, screen, torn, start, joined, lost>>
    BY <1>1 DEF vars, daemonSide, clientSide, span
  <2>2. StreamOK' /\ LoopOK'
    BY <2>1, StreamStays, LoopStays DEF ViewsOK
  <2>3. \A d \in Clients : GoneOK(d)' /\ ViewOK(d)'
    BY <2>1, ClientStays DEF ViewsOK
  <2>4. QED
    BY <2>2, <2>3 DEF ViewsOK
<1>2. ASSUME NEW data \in Chunks, PtyData(data)
      PROVE  ViewsOK'
  BY <1>2, PtyDataViews
<1>3. CASE SessionExited \/ ResponseSent \/ ResponseDropped
  BY <1>3, SessionExitedViews, ResponseSentViews, ResponseDroppedViews
<1>4. ASSUME NEW c \in Clients,
             \/ SessionAttach(c) \/ SessionOutput(c) \/ ClientMessage(c)
             \/ SessionDetach(c) \/ ClientDisconnected(c) \/ SendRequest(c)
             \/ ReadFrame(c) \/ ReadTorn(c) \/ ReadCancelled(c)
             \/ Leave(c) \/ Exit(c) \/ Die(c)
      PROVE  ViewsOK'
  BY <1>4, SessionAttachViews, SessionOutputViews, ClientMessageViews, SessionDetachViews,
     ClientDisconnectedViews, SendRequestViews, ReadFrameViews, ReadTornViews,
     ReadCancelledViews, LeaveViews
<1>5. QED
  BY <1>1, <1>2, <1>3, <1>4 DEF OutputNext

LEMMA ViewsInvariant ==
    OutputSpec => [](OutputInv /\ ViewsOK)
<1> DEFINE Inv == OutputInv /\ UpstreamOK /\ ViewsOK
<1>1. OutputInit => Inv
  BY OutputInitInv, UpstreamInit, ViewsInit
<1>2. Inv /\ [OutputNext]_vars => Inv'
  BY OutputNextInv, UpstreamNext, ViewsNext
<1>3. QED
  BY <1>1, <1>2, PTL DEF OutputSpec

(* The scrollback a client is given, converted, and the output it is sent  *)
(* afterwards are one piece of what the shell printed, for any number of   *)
(* clients, any sizes and any bytes, unless a frame was dropped            *)
(* (server.rs:156-168, 637-657).                                           *)
THEOREM OutputViewContiguous ==
    OutputSpec => []ViewContiguous
<1>1. OutputInv /\ ViewsOK => ViewContiguous
  <2>1. SUFFICES ASSUME OutputInv, ViewsOK, NEW c \in Followed
                 PROVE  \E end \in joined[c] .. Len(stream) :
                            /\ View(c) = ViewUpTo(c, end)
                            /\ c \in attached => end = Len(stream)
    BY DEF ViewContiguous
  <2>2. c \in Clients
    BY DEF Followed
  <2>3. ViewOK(c)
    BY <2>1, <2>2 DEF ViewsOK
  <2>4. \A end : ViewUpTo(c, end) = ViewTo(start[c], joined[c], end, stream)
    BY DEF ViewUpTo, Opening, ViewTo
  <2>5. QED
    BY <2>3, <2>4 DEF ViewOK
<1>2. QED
  BY <1>1, ViewsInvariant, PTL

=============================================================================
