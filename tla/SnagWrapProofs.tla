--------------------------- MODULE SnagWrapProofs ---------------------------
(***************************************************************************)
(* snag wrap for any amount of output and any window sizes.                *)
(*                                                                         *)
(* What is shown is a beginning of the output (ScreenOK); the mode will be *)
(* the right one for the clients there are once the flags are looked at in *)
(* the order in which the loop comes to them (ModeOK, ModeToBe), which     *)
(* turns round when it has passed SNAGGED and not yet UNSNAGGED; and the   *)
(* loop ends only when there is no more to read (EndOK).                   *)
(***************************************************************************)
EXTENDS SnagWrap, SequenceTheorems, TLAPS

(* The type, by the kind of reasoning its parts need. *)
CountsOK ==
    /\ printed \in 0 .. MaxOut
    /\ captured \in 0 .. printed
    /\ tty_bytes_written \in 0 .. captured
    /\ shown \in Seq(1 .. MaxOut)

ClientsOK ==
    registered \in BOOLEAN /\ attached \in BOOLEAN /\ followed \in BOOLEAN

FlagsOK ==
    /\ alive \in BOOLEAN /\ capture \in BOOLEAN
    /\ readable \in BOOLEAN /\ hup \in BOOLEAN /\ is_snagged \in BOOLEAN
    /\ SIGWINCH_RECEIVED \in BOOLEAN /\ SNAGGED \in BOOLEAN
    /\ UNSNAGGED \in BOOLEAN /\ overtaken \in BOOLEAN

PlaceOK ==
    /\ outer \in Sizes /\ inner \in Sizes
    /\ pc \in {"poll", "winch", "resize", "snag", "unsnag", "read", "drain", "done"}

(* A screen on which the first bytes of the output are, in order. *)
Ordered(s) == \A k \in 1 .. Len(s) : s[k] = k

ScreenOK ==
    capture =>
        /\ Ordered(shown)
        /\ ~is_snagged => Len(shown) = captured
        /\ pc # "done" => Len(shown) = tty_bytes_written

(* The mode once the flags that are set have been looked at. *)
ModeToBe ==
    IF pc = "unsnag" THEN SNAGGED \/ (~UNSNAGGED /\ is_snagged)
    ELSE ~UNSNAGGED /\ (SNAGGED \/ is_snagged)

ModeOK ==
    ~overtaken /\ registered =>
        /\ attached => ModeToBe
        /\ ModeToBe => attached \/ followed

EndOK == (hup => ~alive) /\ (pc = "done" => ~alive /\ captured = printed)

WrapInv ==
    /\ CountsOK /\ FlagsOK /\ ClientsOK /\ PlaceOK
    /\ ScreenOK /\ ModeOK /\ SizeFollows /\ EndOK

-----------------------------------------------------------------------------

(* The bytes from one position to another, as a sequence. *)
LEMMA BytesType ==
    ASSUME NEW max \in Nat, NEW from \in 1 .. max + 1, NEW to \in 0 .. max, from <= to + 1
    PROVE  /\ Bytes(from, to) \in Seq(1 .. max)
           /\ Len(Bytes(from, to)) = to - from + 1
           /\ \A k \in 1 .. to - from + 1 : Bytes(from, to)[k] = from + k - 1
<1>1. to - from + 1 \in Nat
  OBVIOUS
<1>2. Bytes(from, to) \in [1 .. to - from + 1 -> 1 .. max]
  BY <1>1 DEF Bytes
<1>3. Bytes(from, to) \in Seq(1 .. max)
  BY <1>1, <1>2, SeqDef
<1>4. Len(Bytes(from, to)) = to - from + 1
  BY <1>1, <1>2, <1>3, LenProperties
<1>5. QED
  BY <1>3, <1>4 DEF Bytes

(* Appending bytes makes the screen longer by as many. *)
LEMMA ShownGrows ==
    ASSUME NEW max \in Nat, NEW s \in Seq(1 .. max), NEW from \in 0 .. max,
           NEW to \in from .. max
    PROVE  /\ s \o Bytes(from + 1, to) \in Seq(1 .. max)
           /\ Len(s \o Bytes(from + 1, to)) = Len(s) + (to - from)
           /\ Len(s) \in Nat
           /\ \A k \in 1 .. Len(s) + (to - from) :
                 (s \o Bytes(from + 1, to))[k] =
                     IF k <= Len(s) THEN s[k] ELSE from + (k - Len(s))
<1> DEFINE new == Bytes(from + 1, to)
<1>1. /\ new \in Seq(1 .. max) /\ Len(new) = to - from
      /\ \A k \in 1 .. to - from : new[k] = from + k
  <2>1. from + 1 \in 1 .. max + 1 /\ to \in 0 .. max /\ from + 1 <= to + 1
    OBVIOUS
  <2>2. /\ new \in Seq(1 .. max) /\ Len(new) = to - (from + 1) + 1
        /\ \A k \in 1 .. to - (from + 1) + 1 : new[k] = from + 1 + k - 1
    BY <2>1, BytesType
  <2>3. to - (from + 1) + 1 = to - from /\ \A k \in Int : from + 1 + k - 1 = from + k
    OBVIOUS
  <2> HIDE DEF new
  <2>4. QED
    BY <2>2, <2>3
<1>2. Len(s) \in Nat
  BY LenProperties
<1> HIDE DEF new
<1>3. s \o new \in Seq(1 .. max) /\ Len(s \o new) = Len(s) + (to - from)
  <2>1. s \o new \in Seq(1 .. max) /\ Len(s \o new) = Len(s) + Len(new)
    BY <1>1, ConcatProperties
  <2>2. QED
    BY <1>1, <2>1
<1>4. ASSUME NEW k \in 1 .. Len(s) + (to - from)
      PROVE  (s \o new)[k] = IF k <= Len(s) THEN s[k] ELSE from + (k - Len(s))
  <2>1. (s \o new)[k] = IF k <= Len(s) THEN s[k] ELSE new[k - Len(s)]
    BY <1>1, <1>2, <1>3, <1>4, ConcatProperties
  <2>2. QED
    BY <1>1, <1>2, <1>4, <2>1
<1>5. QED
  BY <1>2, <1>3, <1>4 DEF new

(* Bytes that follow what is shown go on where the screen ended. *)
LEMMA ShownContinues ==
    ASSUME NEW max \in Nat, NEW s \in Seq(1 .. max), NEW from \in 0 .. max,
           NEW to \in from .. max,
           Len(s) = from, Ordered(s)
    PROVE  /\ Len(s \o Bytes(from + 1, to)) = to
           /\ Ordered(s \o Bytes(from + 1, to))
<1> DEFINE all == s \o Bytes(from + 1, to)
<1>1. /\ Len(all) = Len(s) + (to - from)
      /\ \A k \in 1 .. Len(s) + (to - from) :
            all[k] = IF k <= Len(s) THEN s[k] ELSE from + (k - Len(s))
  BY ShownGrows
<1>2. Len(s) + (to - from) = to
  OBVIOUS
<1> HIDE DEF all
<1>3. Ordered(all)
  BY <1>1, <1>2 DEF Ordered
<1>4. QED
  BY <1>1, <1>2, <1>3 DEF all

LEMMA WrapInitInv ==
    ASSUME WrapInit
    PROVE  WrapInv
<1>1. <<>> \in Seq(1 .. MaxOut) /\ Len(<<>>) = 0
  BY EmptySeq
<1>2. CountsOK
  BY <1>1, WrapAssumption DEF WrapInit, CountsOK, WrapAssumption
<1>5. FlagsOK /\ ClientsOK /\ PlaceOK
  BY DEF WrapInit, FlagsOK, ClientsOK, PlaceOK
<1>3. ScreenOK
  BY <1>1 DEF WrapInit, ScreenOK, Ordered
<1>4. ModeOK /\ SizeFollows /\ EndOK
  BY DEF WrapInit, ModeOK, ModeToBe, SizeFollows, EndOK
<1>6. QED
  BY <1>2, <1>3, <1>4, <1>5 DEF WrapInv

LEMMA WorldInv ==
    ASSUME WrapInv, ShellPrints \/ ShellEnds \/ Winch
    PROVE  WrapInv'
<1>1. /\ UNCHANGED <<registered, attached, followed, capture, SNAGGED, UNSNAGGED, pc,
                     readable, hup, is_snagged, tty_bytes_written, captured, shown, overtaken>>
      /\ alive' = alive \/ alive' = FALSE
      /\ SIGWINCH_RECEIVED' = SIGWINCH_RECEIVED \/ SIGWINCH_RECEIVED' = TRUE
  BY DEF ShellPrints, ShellEnds, Winch, clients, flags, relay
<1>2. CountsOK' /\ PlaceOK'
  BY <1>1, WrapAssumption
     DEF ShellPrints, ShellEnds, Winch, WrapInv, CountsOK, PlaceOK, WrapAssumption
<1>3. FlagsOK' /\ ClientsOK'
  <2>1. FlagsOK /\ ClientsOK
    BY DEF WrapInv
  <2>2. alive' \in BOOLEAN
    BY <1>1, <2>1 DEF FlagsOK
  <2>3. SIGWINCH_RECEIVED' \in BOOLEAN
    BY <1>1, <2>1 DEF FlagsOK
  <2>4. /\ capture' \in BOOLEAN /\ readable' \in BOOLEAN /\ hup' \in BOOLEAN
        /\ is_snagged' \in BOOLEAN /\ overtaken' \in BOOLEAN
        /\ SNAGGED' \in BOOLEAN /\ UNSNAGGED' \in BOOLEAN
    BY <1>1, <2>1 DEF FlagsOK
  <2>5. ClientsOK'
    BY <1>1, <2>1 DEF ClientsOK
  <2>6. QED
    BY <2>2, <2>3, <2>4, <2>5 DEF FlagsOK
<1>4. ScreenOK'
  BY <1>1 DEF WrapInv, ScreenOK
<1>5. ModeOK'
  BY <1>1 DEF WrapInv, ModeOK, ModeToBe
<1>6. SizeFollows'
  BY <1>1 DEF ShellPrints, ShellEnds, Winch, flags, WrapInv, SizeFollows
<1>7. EndOK'
  BY <1>1 DEF ShellPrints, ShellEnds, Winch, WrapInv, EndOK, FlagsOK
<1>8. QED
  BY <1>2, <1>3, <1>4, <1>5, <1>6, <1>7 DEF WrapInv

(* What the daemon does is to send signals, and to remove the file.        *)
LEMMA DaemonInv ==
    ASSUME WrapInv, Attach \/ Follow \/ Detach \/ Unfollow \/ SessionRemoved \/ DaemonEnds
    PROVE  WrapInv'
<1> USE DEF Attach, Follow, Detach, Unfollow, SessionRemoved, DaemonEnds, TakenOff,
            Usr1, Usr2, flags, relay
<1>1. CountsOK' /\ PlaceOK' /\ UNCHANGED <<alive, hup, pc, captured, printed>>
  BY DEF WrapInv, CountsOK, PlaceOK
<1>2. FlagsOK' /\ ClientsOK'
  <2>1. UNCHANGED <<alive, readable, hup, is_snagged, SIGWINCH_RECEIVED>>
    OBVIOUS
  <2>2. capture' \in {capture, FALSE} /\ SNAGGED' \in {SNAGGED, TRUE}
        /\ UNSNAGGED' \in {UNSNAGGED, TRUE}
    OBVIOUS
  <2>3. overtaken' \in BOOLEAN
    BY DEF WrapInv, FlagsOK
  <2>4. /\ registered' \in {registered, FALSE}
        /\ attached' \in {attached, TRUE, FALSE} /\ followed' \in {followed, TRUE, FALSE}
    OBVIOUS
  <2>5. FlagsOK /\ ClientsOK
    BY DEF WrapInv
  <2>6. FlagsOK'
    BY ONLY <2>1, <2>2, <2>3, <2>5 DEF FlagsOK
  <2>7. ClientsOK'
    BY ONLY <2>4, <2>5 DEF ClientsOK
  <2>8. QED
    BY <2>6, <2>7
<1>3. ScreenOK'
  <2>1. UNCHANGED <<shown, is_snagged, captured, pc, tty_bytes_written>>
    OBVIOUS
  <2>2. capture' \in {capture, FALSE}
    OBVIOUS
  <2>3. ScreenOK
    BY DEF WrapInv
  <2>4. CASE capture' = capture
    BY ONLY <2>1, <2>3, <2>4 DEF ScreenOK
  <2>5. CASE capture' = FALSE
    BY ONLY <2>1, <2>3, <2>5 DEF ScreenOK
  <2>6. QED
    BY ONLY <2>2, <2>4, <2>5
<1>4. ModeOK'
  <2>1. CASE Attach
    BY <2>1 DEF WrapInv, ModeOK, ModeToBe, FlagsOK
  <2>2. CASE Follow
    BY <2>2 DEF WrapInv, ModeOK, ModeToBe, FlagsOK
  <2>3. CASE Detach
    BY <2>3 DEF WrapInv, ModeOK, ModeToBe, FlagsOK
  <2>4. CASE Unfollow
    BY <2>4 DEF WrapInv, ModeOK, ModeToBe, FlagsOK
  <2>5. CASE SessionRemoved \/ DaemonEnds
    BY <2>5 DEF ModeOK
  <2>6. QED
    BY <2>1, <2>2, <2>3, <2>4, <2>5
<1>5. SizeFollows'
  BY DEF WrapInv, SizeFollows
<1>6. EndOK'
  BY <1>1 DEF WrapInv, EndOK
<1>7. QED
  BY <1>1, <1>2, <1>3, <1>4, <1>5, <1>6 DEF WrapInv

LEMMA FlagsInv ==
    ASSUME WrapInv, Poll \/ TakeWinch \/ PassSize \/ TakeSnag
    PROVE  WrapInv'
<1> USE DEF Poll, TakeWinch, PassSize, TakeSnag, world, clients, flags, relay
<1>1. CountsOK' /\ PlaceOK'
  BY WrapAssumption DEF WrapInv, CountsOK, PlaceOK, WrapAssumption
<1>2. FlagsOK' /\ ClientsOK'
  <2>1. UNCHANGED <<alive, capture, registered, attached, followed, UNSNAGGED, overtaken>>
    OBVIOUS
  <2>2. readable' \in BOOLEAN /\ hup' \in BOOLEAN
    <3>1. CASE Poll
      BY <3>1
    <3>2. CASE TakeWinch \/ PassSize \/ TakeSnag
      BY <3>2 DEF WrapInv, FlagsOK
    <3>3. QED
      BY <3>1, <3>2
  <2>3. /\ is_snagged' \in BOOLEAN /\ SNAGGED' \in {SNAGGED, FALSE}
        /\ SIGWINCH_RECEIVED' \in {SIGWINCH_RECEIVED, FALSE}
    BY DEF WrapInv, FlagsOK
  <2>4. QED
    BY <2>1, <2>2, <2>3 DEF WrapInv, FlagsOK, ClientsOK
<1>3. ScreenOK'
  BY DEF WrapInv, ScreenOK
<1>4. ModeOK'
  <2>1. CASE Poll \/ TakeWinch \/ PassSize
    <3>1. UNCHANGED <<registered, attached, followed, SNAGGED, UNSNAGGED, is_snagged, overtaken>>
          /\ pc # "unsnag" /\ pc' # "unsnag"
      BY <2>1
    <3>2. QED
      BY <3>1 DEF WrapInv, ModeOK, ModeToBe
  <2>2. CASE TakeSnag
    <3>1. /\ UNCHANGED <<registered, attached, followed, UNSNAGGED, overtaken>>
          /\ pc = "snag" /\ pc' = "unsnag" /\ ~SNAGGED'
          /\ is_snagged' <=> is_snagged \/ SNAGGED
      BY <2>2
    <3>2. QED
      BY <3>1 DEF WrapInv, ModeOK, ModeToBe
  <2>3. QED
    BY <2>1, <2>2
<1>5. SizeFollows'
  BY DEF WrapInv, SizeFollows, PlaceOK
<1>6. EndOK'
  BY DEF WrapInv, EndOK, FlagsOK
<1>7. QED
  BY <1>1, <1>2, <1>3, <1>4, <1>5, <1>6 DEF WrapInv

(* Resuming shows what was read and not shown, which is all. *)
LEMMA TakeUnsnagInv ==
    ASSUME WrapInv, TakeUnsnag
    PROVE  WrapInv'
<1>1. CASE UNSNAGGED /\ is_snagged /\ capture
  <2>1. /\ is_snagged' = FALSE /\ UNSNAGGED' = FALSE /\ inner' = outer /\ pc' = "read"
        /\ shown' = shown \o Bytes(tty_bytes_written + 1, captured)
        /\ tty_bytes_written' = captured
        /\ pc = "unsnag"
        /\ UNCHANGED <<world, SIGWINCH_RECEIVED, SNAGGED, readable, hup, captured,
                       overtaken>>
    BY <1>1 DEF TakeUnsnag, Resume, Replay
  <2>2. /\ MaxOut \in Nat /\ shown \in Seq(1 .. MaxOut)
        /\ tty_bytes_written \in 0 .. MaxOut /\ captured \in tty_bytes_written .. MaxOut
    BY WrapAssumption DEF WrapAssumption, WrapInv, CountsOK
  <2>3. Len(shown) = tty_bytes_written /\ Ordered(shown)
    BY <1>1, <2>1 DEF WrapInv, ScreenOK
  <2>4. shown' \in Seq(1 .. MaxOut) /\ Len(shown') = captured /\ Ordered(shown')
    <3> DEFINE more == shown \o Bytes(tty_bytes_written + 1, captured)
    <3>1. more \in Seq(1 .. MaxOut)
      BY <2>2, ShownGrows
    <3>2. Len(more) = captured /\ Ordered(more)
      BY <2>2, <2>3, ShownContinues
    <3> HIDE DEF more
    <3>3. shown' = more
      BY <2>1 DEF more
    <3>4. QED
      BY <3>1, <3>2, <3>3
  <2>5. CountsOK'
    BY <2>1, <2>4 DEF world, clients, WrapInv, CountsOK
  <2>6. FlagsOK' /\ ClientsOK' /\ PlaceOK'
    BY <2>1 DEF world, clients, WrapInv, FlagsOK, ClientsOK, PlaceOK
  <2>7. ScreenOK'
    BY <2>1, <2>4 DEF ScreenOK
  <2>8. ModeOK' /\ SizeFollows' /\ EndOK'
    BY <1>1, <2>1 DEF world, clients, WrapInv, ModeOK, ModeToBe, SizeFollows, EndOK, FlagsOK
  <2>9. QED
    BY <2>5, <2>6, <2>7, <2>8 DEF WrapInv
<1>2. CASE UNSNAGGED /\ is_snagged /\ ~capture
  <2>1. /\ is_snagged' = FALSE /\ UNSNAGGED' = FALSE /\ inner' = outer /\ pc' = "read"
        /\ pc = "unsnag"
        /\ UNCHANGED <<world, SIGWINCH_RECEIVED, SNAGGED, readable, hup, captured,
                       overtaken, shown, tty_bytes_written>>
    BY <1>2 DEF TakeUnsnag, Resume
  <2>2. CountsOK' /\ PlaceOK'
    BY <2>1 DEF world, clients, WrapInv, CountsOK, PlaceOK
  <2>3. FlagsOK' /\ ClientsOK'
    BY <2>1 DEF world, clients, WrapInv, FlagsOK, ClientsOK
  <2>4. ScreenOK' /\ ModeOK' /\ SizeFollows' /\ EndOK'
    BY <1>2, <2>1 DEF world, clients, WrapInv, ScreenOK, ModeOK, ModeToBe, SizeFollows, EndOK, FlagsOK
  <2>5. QED
    BY <2>2, <2>3, <2>4 DEF WrapInv
<1>3. CASE ~(UNSNAGGED /\ is_snagged)
  <2>1. /\ UNSNAGGED' = FALSE /\ pc' = "read" /\ pc = "unsnag"
        /\ UNCHANGED <<world, inner, SIGWINCH_RECEIVED, SNAGGED, readable, hup, captured,
                       overtaken, shown, tty_bytes_written, is_snagged>>
    BY <1>3 DEF TakeUnsnag
  <2>2. CountsOK' /\ PlaceOK'
    BY <2>1 DEF world, clients, WrapInv, CountsOK, PlaceOK
  <2>3. FlagsOK' /\ ClientsOK'
    BY <2>1 DEF world, clients, WrapInv, FlagsOK, ClientsOK
  <2>4. ScreenOK' /\ ModeOK' /\ SizeFollows' /\ EndOK'
    BY <1>3, <2>1 DEF world, clients, WrapInv, ScreenOK, ModeOK, ModeToBe, SizeFollows, EndOK, FlagsOK
  <2>5. QED
    BY <2>2, <2>3, <2>4 DEF WrapInv
<1>4. QED
  BY <1>1, <1>2, <1>3

LEMMA ReadInv ==
    ASSUME WrapInv, Read
    PROVE  WrapInv'
<1>1. /\ pc = "read" /\ pc' = "drain"
      /\ UNCHANGED <<world, inner, flags, readable, hup, is_snagged, overtaken>>
  BY DEF Read
<1>2. /\ MaxOut \in Nat /\ shown \in Seq(1 .. MaxOut) /\ captured \in 0 .. MaxOut
      /\ tty_bytes_written \in 0 .. captured /\ printed \in captured .. MaxOut
  BY WrapAssumption DEF WrapAssumption, WrapInv, CountsOK
<1>3. CountsOK' /\ ScreenOK'
  <2>1. CASE UNCHANGED <<shown, tty_bytes_written, captured>>
    BY <1>1, <2>1 DEF world, clients, WrapInv, CountsOK, ScreenOK
  <2>2. ASSUME NEW n \in captured + 1 .. printed, captured' = n, is_snagged,
               UNCHANGED <<shown, tty_bytes_written>>
        PROVE  CountsOK' /\ ScreenOK'
    BY <1>1, <1>2, <2>2 DEF world, clients, WrapInv, CountsOK, ScreenOK
  <2>3. ASSUME NEW n \in captured + 1 .. printed, captured' = n, ~is_snagged,
               shown' = shown \o Bytes(captured + 1, n),
               tty_bytes_written' = tty_bytes_written + (n - captured)
        PROVE  CountsOK' /\ ScreenOK'
    <3> DEFINE more == shown \o Bytes(captured + 1, n)
    <3>0. n \in captured .. MaxOut
      BY <1>2
    <3>1. more \in Seq(1 .. MaxOut) /\ Len(more) = Len(shown) + (n - captured)
      BY <1>2, <3>0, ShownGrows
    <3>2. CountsOK'
      BY <1>1, <1>2, <2>3, <3>0, <3>1 DEF world, clients, CountsOK
    <3>3. ASSUME capture
          PROVE  Ordered(shown') /\ Len(shown') = n /\ tty_bytes_written' = n
      <4>1. Len(shown) = captured /\ tty_bytes_written = captured /\ Ordered(shown)
        BY <1>1, <2>3, <3>3 DEF WrapInv, ScreenOK
      <4>2. Len(more) = n /\ Ordered(more)
        BY <1>2, <3>0, <4>1, ShownContinues
      <4> HIDE DEF more
      <4>3. captured + (n - captured) = n
        BY <1>2, <3>0
      <4>4. shown' = more
        BY <2>3 DEF more
      <4>5. QED
        BY <2>3, <4>1, <4>2, <4>3, <4>4
    <3>4. ScreenOK'
      BY <1>1, <2>3, <3>3 DEF world, clients, ScreenOK
    <3>5. QED
      BY <3>2, <3>4
  <2>4. QED
    BY <2>1, <2>2, <2>3 DEF Read, RelayTo
<1>4. FlagsOK' /\ ClientsOK' /\ PlaceOK'
  BY <1>1 DEF world, clients, flags, WrapInv, FlagsOK, ClientsOK, PlaceOK
<1>5. ModeOK' /\ SizeFollows' /\ EndOK'
  BY <1>1 DEF world, clients, flags, WrapInv, ModeOK, ModeToBe, SizeFollows, EndOK
<1>6. QED
  BY <1>3, <1>4, <1>5 DEF WrapInv

LEMMA DrainInv ==
    ASSUME WrapInv, Drain
    PROVE  WrapInv'
<1>1. /\ pc = "drain" /\ pc' = IF hup THEN "done" ELSE "poll"
      /\ UNCHANGED <<world, inner, flags, readable, hup, is_snagged, tty_bytes_written,
                     overtaken>>
  BY DEF Drain
<1>2. /\ MaxOut \in Nat /\ shown \in Seq(1 .. MaxOut) /\ captured \in 0 .. MaxOut
      /\ tty_bytes_written \in 0 .. captured /\ printed \in captured .. MaxOut
  BY WrapAssumption DEF WrapAssumption, WrapInv, CountsOK
<1>3. CountsOK' /\ ScreenOK'
  <2>1. CASE ~hup
    BY <1>1, <2>1 DEF Drain, world, WrapInv, CountsOK, ScreenOK
  <2>2. CASE hup /\ is_snagged
    BY <1>1, <1>2, <2>2 DEF Drain, world, WrapInv, CountsOK, ScreenOK
  <2>3. CASE hup /\ ~is_snagged
    <3>1. shown' = shown \o Bytes(captured + 1, printed) /\ captured' = printed
      BY <2>3 DEF Drain
    <3> DEFINE more == shown \o Bytes(captured + 1, printed)
    <3>2. more \in Seq(1 .. MaxOut) /\ Len(more) = Len(shown) + (printed - captured)
      BY <1>2, ShownGrows
    <3>3. CountsOK'
      BY <1>1, <1>2, <3>1, <3>2 DEF world, clients, CountsOK
    <3>4. ASSUME capture
          PROVE  Ordered(shown') /\ Len(shown') = printed
      <4>1. Len(shown) = captured /\ Ordered(shown)
        BY <2>3, <3>4 DEF WrapInv, ScreenOK
      <4>2. Len(more) = printed /\ Ordered(more)
        BY <1>2, <4>1, ShownContinues
      <4> HIDE DEF more
      <4>3. shown' = more
        BY <3>1 DEF more
      <4>4. QED
        BY <4>2, <4>3
    <3>5. ScreenOK'
      BY <1>1, <2>3, <3>1, <3>4 DEF world, clients, ScreenOK
    <3>6. QED
      BY <3>3, <3>5
  <2>4. QED
    BY <2>1, <2>2, <2>3
<1>4. FlagsOK' /\ ClientsOK' /\ PlaceOK'
  BY <1>1 DEF world, clients, flags, WrapInv, FlagsOK, ClientsOK, PlaceOK
<1>5. ModeOK' /\ SizeFollows'
  BY <1>1 DEF world, clients, flags, WrapInv, ModeOK, ModeToBe, SizeFollows
<1>6. EndOK'
  <2>1. CASE hup
    BY <1>1, <2>1 DEF Drain, world, WrapInv, EndOK
  <2>2. CASE ~hup
    BY <1>1, <2>2 DEF Drain, world, WrapInv, EndOK
  <2>3. QED
    BY <2>1, <2>2
<1>7. QED
  BY <1>3, <1>4, <1>5, <1>6 DEF WrapInv

LEMMA WrapInvariant ==
    WrapSpec => []WrapInv
<1>1. WrapInit => WrapInv
  BY WrapInitInv
<1>2. WrapInv /\ [WrapNext]_vars => WrapInv'
  <2>1. ASSUME WrapInv, UNCHANGED vars
        PROVE  WrapInv'
    <3>1. UNCHANGED <<world, inner, flags, pc, relay, overtaken>>
      BY <2>1 DEF vars
    <3>2. CountsOK' /\ FlagsOK' /\ ClientsOK' /\ PlaceOK'
      BY <2>1, <3>1 DEF world, clients, flags, relay, WrapInv, CountsOK, FlagsOK, ClientsOK, PlaceOK
    <3>3. ScreenOK' /\ ModeOK' /\ SizeFollows' /\ EndOK'
      BY <2>1, <3>1
         DEF world, clients, flags, relay, WrapInv, ScreenOK, ModeOK, ModeToBe, SizeFollows, EndOK
    <3>4. QED
      BY <3>2, <3>3 DEF WrapInv
  <2>2. ASSUME WrapInv, WrapNext
        PROVE  WrapInv'
    BY <2>2, WorldInv, DaemonInv, FlagsInv, TakeUnsnagInv, ReadInv, DrainInv DEF WrapNext, Loop
  <2>3. QED
    BY <2>1, <2>2
<1>3. QED
  BY <1>1, <1>2, PTL DEF WrapSpec

-----------------------------------------------------------------------------

(* The loop counts what it shows and what it captures without ever being   *)
(* ahead of the shell (commands.rs:137, 215-219, 257-261).                 *)
THEOREM WrapTypeCorrect ==
    WrapSpec => []WrapTypeOK
<1>1. WrapInv => WrapTypeOK
  BY DEF WrapInv, CountsOK, FlagsOK, ClientsOK, PlaceOK, WrapTypeOK
<1>2. QED
  BY <1>1, WrapInvariant, PTL

(* Replays and relayed output join without a gap or a repetition, for any  *)
(* number of attaches and any amount of output (commands.rs:209-264).      *)
THEOREM WrapScreenInOrder ==
    WrapSpec => []ScreenInOrder
<1>1. WrapInv => ScreenInOrder
  <2>1. ASSUME WrapInv
        PROVE  DOMAIN shown = 1 .. Len(shown)
    BY <2>1, LenProperties DEF WrapInv, CountsOK
  <2>2. QED
    BY <2>1 DEF WrapInv, ScreenOK, Ordered, ScreenInOrder
<1>2. QED
  BY <1>1, WrapInvariant, PTL

(* The terminal of a session that the daemon has is snagged as its list of *)
(* clients asks, unless the loop looked at the later of two signals first  *)
(* (commands.rs:196-211, server.rs:143-151, 633-637, 664-672).             *)
THEOREM WrapModeFollows ==
    WrapSpec => []ModeFollows
<1>1. WrapInv => ModeFollows
  BY DEF WrapInv, FlagsOK, ModeOK, ModeToBe, ModeFollows
<1>2. QED
  BY <1>1, WrapInvariant, PTL

(* No resize is lost between the flag and the ioctl (commands.rs:182-194). *)
THEOREM WrapSizeFollows ==
    WrapSpec => []SizeFollows
<1>1. WrapInv => SizeFollows
  BY DEF WrapInv
<1>2. QED
  BY <1>1, WrapInvariant, PTL

(* The loop ends only with everything read, and, unless it was snagged,    *)
(* shown (commands.rs:266-282).                                            *)
THEOREM WrapEndsComplete ==
    WrapSpec => []EndsComplete
<1>1. WrapInv => EndsComplete
  BY DEF WrapInv, ScreenOK, EndOK, EndsComplete
<1>2. QED
  BY <1>1, WrapInvariant, PTL

=============================================================================
