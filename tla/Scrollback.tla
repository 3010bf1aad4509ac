----------------------------- MODULE Scrollback -----------------------------
(***************************************************************************)
(* What a session's scrollback promises (README.md:290, "Scrollback buffer *)
(* size in bytes"): the last Capacity bytes of everything the session has  *)
(* printed, in order.                                                      *)
(***************************************************************************)
EXTENDS Integers, Sequences

CONSTANTS
    Chunks,     \* what one write may append
    Capacity    \* the size of the scrollback

VARIABLE tail   \* the bytes kept, oldest first

(* The last n elements of s, or s if it has no more. *)
LastOf(n, s) == IF Len(s) > n THEN SubSeq(s, Len(s) - n + 1, Len(s)) ELSE s

Init == tail = <<>>

Keep(data) == tail' = LastOf(Capacity, tail \o data)

Spec == Init /\ [][\E data \in Chunks : Keep(data)]_tail

=============================================================================
