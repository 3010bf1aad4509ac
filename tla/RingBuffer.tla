----------------------------- MODULE RingBuffer -----------------------------
(***************************************************************************)
(* The scrollback of a session (src/src/daemon/ringbuf.rs): a fixed buffer *)
(* written round and round.  write_pos is where the next byte goes and len *)
(* how many bytes are held; what lies outside the held part is stale.      *)
(* `clear` is called nowhere and left out.                                 *)
(***************************************************************************)
EXTENDS Integers, Sequences, FiniteSets

CONSTANTS
    Byte,       \* the bytes a shell prints
    Newline,    \* b'\n'
    Chunks,     \* what one read of the pty may return
    Capacity    \* scrollback_bytes of the configuration

ASSUME RingAssumption ==
    /\ Capacity \in Nat
    /\ {0, Newline} \subseteq Byte
    /\ Chunks \subseteq Seq(Byte)

VARIABLES
    buf,
    write_pos,
    len

ring == <<buf, write_pos, len>>

RingTypeOK ==
    /\ buf \in [0 .. Capacity - 1 -> Byte]
    /\ len \in 0 .. Capacity
    /\ IF Capacity = 0 THEN write_pos = 0 ELSE write_pos \in 0 .. Capacity - 1

RingInit ==
    /\ buf = [i \in 0 .. Capacity - 1 |-> 0]
    /\ write_pos = 0
    /\ len = 0

-----------------------------------------------------------------------------
(* Writing *)

(* Of data larger than the buffer only the tail is written. *)
Kept(data) ==
    IF Len(data) > Capacity
    THEN SubSeq(data, Len(data) - Capacity + 1, Len(data))
    ELSE data

(* Mutant: what remains is copied from the start of the data again. *)
CopiedTwice(data) ==
    [i \in 0 .. Capacity - 1 |->
        IF i >= write_pos /\ i - write_pos < Len(data)
        THEN data[i - write_pos + 1]
        ELSE IF i < Len(data) - (Capacity - write_pos) THEN data[i + 1] ELSE buf[i]]

(* A first copy goes from write_pos up to the end of the buffer at most,   *)
(* what remains to the start of it.                                        *)
Copied(data) ==
    LET first_chunk == Capacity - write_pos
    IN  [i \in 0 .. Capacity - 1 |->
            IF i >= write_pos /\ i - write_pos < Len(data)
            THEN data[i - write_pos + 1]
            ELSE IF i < Len(data) - first_chunk
                 THEN data[first_chunk + i + 1]
                 ELSE buf[i]]

(* (write_pos + data.len()) % cap. *)
Advance(data) == (write_pos + Len(data)) % Capacity

(* (len + data.len()).min(cap). *)
Grown(data) == IF len + Len(data) > Capacity THEN Capacity ELSE len + Len(data)

Write(data) ==
    IF Capacity = 0
    THEN UNCHANGED ring
    ELSE LET kept == Kept(data)
         IN  /\ buf' = Copied(kept)
             /\ write_pos' = Advance(kept)
             /\ len' = Grown(kept)

RingSpec == RingInit /\ [][\E data \in Chunks : Write(data)]_ring

-----------------------------------------------------------------------------
(* Reading *)

(* buf[from .. to], the upper end excluded. *)
Slice(from, to) == [k \in 1 .. to - from |-> buf[from + k - 1]]

(* Where the oldest byte held is. *)
Start ==
    IF len = Capacity THEN write_pos
    ELSE IF write_pos >= len THEN write_pos - len
         ELSE Capacity - (len - write_pos)

(* The two slices of as_slices, one after the other. *)
AllBytes ==
    IF len = 0 THEN <<>>
    ELSE IF len < Capacity /\ Start < write_pos
         THEN Slice(Start, write_pos)
         ELSE Slice(Start, Capacity) \o Slice(0, write_pos)

(* The newlines of s from position i on. *)
NewlinesFrom(s, i) == {j \in i .. Len(s) : s[j] = Newline}

(* Mutant: counts the newline that ends the last line as one between lines. *)
CutShort(all, n) ==
    {i \in NewlinesFrom(all, 1) : Cardinality(NewlinesFrom(all, i)) = n}

(* The scan from the end stops at the newline before the n-th last line.   *)
Cut(all, n) ==
    {i \in NewlinesFrom(all, 1) : Cardinality(NewlinesFrom(all, i)) = n + 1}

LastNLines(n) ==
    LET all == AllBytes
        cut == Cut(all, n)
        from == IF cut = {} THEN 0 ELSE CHOOSE i \in cut : TRUE
    IN  IF n = 0 THEN <<>> ELSE SubSeq(all, from + 1, Len(all))

-----------------------------------------------------------------------------
(* What the buffer promises *)

(* lines are the last n lines of all and the unfinished one after them.    *)
LastLines(all, lines, n) ==
    LET from == Len(all) - Len(lines)
    IN  /\ lines = SubSeq(all, from + 1, Len(all))
        /\ Cardinality(NewlinesFrom(lines, 1)) <= n
        /\ n = 0 => lines = <<>>
        /\ n > 0 /\ from > 0 =>
              /\ all[from] = Newline
              /\ Cardinality(NewlinesFrom(lines, 1)) = n

Scroll == INSTANCE Scrollback WITH tail <- AllBytes

(* Whatever the sizes of the writes and wherever they wrap, the buffer     *)
(* reads back as the last Capacity bytes of all that was written.          *)
KeepsTail == Scroll!Spec

=============================================================================
