---------------------------- MODULE MCSnagOutput ----------------------------
(* A small instance of SnagOutput: bytes, and the reads of the pty.  194   *)
(* begins a character of two bytes and 240 one of four, of which the later *)
(* bytes are not told apart.                                               *)
EXTENDS SnagOutput

MCByte == {0, Newline, 194, 240, 128}

MCWidth ==
    [byte \in MCByte |->
        CASE byte = 194 -> 2 [] byte = 240 -> 4 [] byte = 128 -> 0 [] OTHER -> 1]

(* A whole character and the beginning of one, and its rest in a read that *)
(* is longer than the scrollback, which keeps the last two of its bytes.   *)
(* In other orders, or twice, the reads are not UTF-8.                     *)
MCChunks == {<<194, 128, 240>>, <<128, 128, 128, Newline, 0>>}

(* For the run about frames that are torn. *)
MCBytes == {<<0>>}

=============================================================================
