------------------------------ MODULE SnagWrap ------------------------------
(***************************************************************************)
(* `snag wrap` (src/src/cli/commands.rs, cmd_wrap): a relay between the    *)
(* terminal it was started in and a shell on an inner pty.  While a remote *)
(* client is attached the daemon has it "snagged": the terminal shows a    *)
(* message on its alternate screen, output goes to the capture file only,  *)
(* and what was missed is replayed from that file when the client leaves.  *)
(*                                                                         *)
(* The signal handlers set flags and may run between any two steps of the  *)
(* loop; the loop polls, then looks at each flag, then relays.  Output is  *)
(* numbered byte by byte as the shell prints it.  Input is relayed         *)
(* whatever the mode is and left out; the terminal itself does not go.     *)
(*                                                                         *)
(* Of the daemon there is the one session that has the wrapper's pid.  It  *)
(* sends SIGUSR1 on every attach, and SIGUSR2 when the list of clients,    *)
(* in which followers are too, becomes empty; it sends nothing when the    *)
(* session is killed or unregistered, and nothing when it ends itself.     *)
(***************************************************************************)
EXTENDS Integers, Sequences

CONSTANTS
    Sizes,      \* window sizes
    MaxOut      \* bound of the model: bytes the shell prints

ASSUME WrapAssumption == MaxOut \in Nat /\ Sizes # {}

VARIABLES
    \* the shell, the daemon and the terminal
    printed,            \* bytes the shell has printed
    alive,              \* somebody holds the inner pty open
    registered,         \* the daemon has the session
    attached,           \* a `snag attach` client of it is there
    followed,           \* a `snag output --follow` client of it is there
    capture,            \* the capture file is at its path
    outer, inner,       \* the window sizes of the terminal and of the inner pty
    \* the flags of the signal handlers
    SIGWINCH_RECEIVED, SNAGGED, UNSNAGGED,
    \* the relay loop
    pc,
    readable, hup,      \* what poll returned for the inner pty
    is_snagged,
    tty_bytes_written,
    captured,           \* bytes read of the inner pty, and written to the file
    shown,              \* the output on the terminal's main screen
    overtaken           \* ghost: a signal was looked at before an earlier one

clients == <<registered, attached, followed>>
world == <<printed, alive, clients, capture, outer>>
flags == <<SIGWINCH_RECEIVED, SNAGGED, UNSNAGGED>>
relay == <<readable, hup, is_snagged, tty_bytes_written, captured, shown>>
vars == <<world, inner, flags, pc, relay, overtaken>>

WrapTypeOK ==
    /\ printed \in 0 .. MaxOut
    /\ captured \in 0 .. printed
    /\ tty_bytes_written \in 0 .. captured
    /\ shown \in Seq(1 .. MaxOut)
    /\ outer \in Sizes /\ inner \in Sizes
    /\ alive \in BOOLEAN /\ capture \in BOOLEAN
    /\ registered \in BOOLEAN /\ attached \in BOOLEAN /\ followed \in BOOLEAN
    /\ readable \in BOOLEAN /\ hup \in BOOLEAN /\ is_snagged \in BOOLEAN
    /\ SIGWINCH_RECEIVED \in BOOLEAN /\ SNAGGED \in BOOLEAN
    /\ UNSNAGGED \in BOOLEAN /\ overtaken \in BOOLEAN
    /\ pc \in {"poll", "winch", "resize", "snag", "unsnag", "read", "drain", "done"}

(* The inner pty starts with the terminal's size. *)
WrapInit ==
    /\ printed = 0 /\ captured = 0 /\ tty_bytes_written = 0 /\ shown = <<>>
    /\ outer \in Sizes /\ inner = outer
    /\ alive = TRUE /\ capture = TRUE /\ registered = TRUE
    /\ attached = FALSE /\ followed = FALSE
    /\ is_snagged = FALSE /\ overtaken = FALSE
    /\ readable = FALSE /\ hup = FALSE
    /\ SIGWINCH_RECEIVED = FALSE /\ SNAGGED = FALSE /\ UNSNAGGED = FALSE
    /\ pc = "poll"

-----------------------------------------------------------------------------
(* Around the loop *)

ShellPrints ==
    /\ alive /\ printed < MaxOut
    /\ printed' = printed + 1
    /\ UNCHANGED <<alive, clients, capture, outer, inner, flags, pc, relay, overtaken>>

ShellEnds ==
    /\ alive
    /\ alive' = FALSE
    /\ UNCHANGED <<printed, clients, capture, outer, inner, flags, pc, relay, overtaken>>

(* SIGUSR1, of which a SIGUSR2 that still waits will be looked at later,   *)
(* unless the loop is just there.                                          *)
Usr1 ==
    /\ SNAGGED' = TRUE
    /\ overtaken' = (overtaken \/ (UNSNAGGED /\ pc # "unsnag"))
    /\ UNCHANGED UNSNAGGED

(* SIGUSR2, before which a SIGUSR1 that still waits will be looked at,     *)
(* unless the loop has just passed it.                                     *)
Usr2 ==
    /\ UNSNAGGED' = TRUE
    /\ overtaken' = (overtaken \/ (SNAGGED /\ pc = "unsnag"))
    /\ UNCHANGED SNAGGED

(* Mutant: SIGUSR2 whoever is left on the list. *)
TakenOffAnyway(others) ==
    IF registered THEN Usr2 ELSE UNCHANGED <<SNAGGED, UNSNAGGED, overtaken>>

(* A client is taken off the session's list, if the session is there. *)
TakenOff(others) ==
    IF registered /\ ~others THEN Usr2 ELSE UNCHANGED <<SNAGGED, UNSNAGGED, overtaken>>

(* A client attaches, be it the first or not, by force or not. *)
Attach ==
    /\ pc # "done" /\ registered
    /\ attached' = TRUE
    /\ Usr1
    /\ UNCHANGED <<printed, alive, registered, followed, capture, outer, inner,
                   SIGWINCH_RECEIVED, pc, relay>>

(* `snag output --follow` joins the same list, without a signal. *)
Follow ==
    /\ pc # "done" /\ registered /\ ~followed
    /\ followed' = TRUE
    /\ UNCHANGED <<printed, alive, registered, attached, capture, outer, inner, flags, pc,
                   relay, overtaken>>

(* The last of the attached clients leaves, or the last of the followers,  *)
(* whether the session is still there or not.                              *)
Detach ==
    /\ pc # "done" /\ attached
    /\ attached' = FALSE
    /\ TakenOff(followed)
    /\ UNCHANGED <<printed, alive, registered, followed, capture, outer, inner,
                   SIGWINCH_RECEIVED, pc, relay>>

Unfollow ==
    /\ pc # "done" /\ followed
    /\ followed' = FALSE
    /\ TakenOff(attached)
    /\ UNCHANGED <<printed, alive, registered, attached, capture, outer, inner,
                   SIGWINCH_RECEIVED, pc, relay>>

(* The session is killed or unregistered: the daemon removes the capture   *)
(* file, and the loop writes on into a file that has no name.  The clients *)
(* are not told and stay.                                                  *)
SessionRemoved ==
    /\ registered
    /\ registered' = FALSE /\ capture' = FALSE
    /\ UNCHANGED <<printed, alive, attached, followed, outer, inner, flags, pc, relay,
                   overtaken>>

(* The daemon ends, and the clients find their connections closed.  On     *)
(* SIGTERM it removes the file; stopped, idle or killed it leaves it.      *)
DaemonEnds ==
    /\ registered
    /\ registered' = FALSE /\ attached' = FALSE /\ followed' = FALSE
    /\ capture' \in {capture, FALSE}
    /\ UNCHANGED <<printed, alive, outer, inner, flags, pc, relay, overtaken>>

(* The user, or the daemon for a client, changes the terminal's size. *)
Winch ==
    /\ pc # "done"
    /\ outer' \in Sizes \ {outer}
    /\ SIGWINCH_RECEIVED' = TRUE
    /\ UNCHANGED <<printed, alive, clients, capture, inner, SNAGGED, UNSNAGGED, pc,
                   relay, overtaken>>

-----------------------------------------------------------------------------
(* The relay loop *)

(* poll returns what is ready; with nothing ready it times out, or a       *)
(* signal interrupts it, which comes to the same.                          *)
Poll ==
    /\ pc = "poll"
    /\ readable' = (captured < printed)
    /\ hup' = ~alive
    /\ pc' = "winch"
    /\ UNCHANGED <<world, inner, flags, is_snagged, tty_bytes_written, captured, shown,
                   overtaken>>

(* Mutant: a resize is taken note of and not passed on in snag mode. *)
TakeWinchUnlessSnagged ==
    /\ pc = "winch"
    /\ SIGWINCH_RECEIVED' = FALSE
    /\ pc' = IF SIGWINCH_RECEIVED /\ ~is_snagged THEN "resize" ELSE "snag"
    /\ UNCHANGED <<world, inner, SNAGGED, UNSNAGGED, relay, overtaken>>

TakeWinch ==
    /\ pc = "winch"
    /\ SIGWINCH_RECEIVED' = FALSE
    /\ pc' = IF SIGWINCH_RECEIVED THEN "resize" ELSE "snag"
    /\ UNCHANGED <<world, inner, SNAGGED, UNSNAGGED, relay, overtaken>>

PassSize ==
    /\ pc = "resize"
    /\ inner' = outer
    /\ pc' = "snag"
    /\ UNCHANGED <<world, flags, relay, overtaken>>

(* Mutant: the flag is read and stays set. *)
TakeSnagLoads ==
    /\ pc = "snag"
    /\ is_snagged' = (is_snagged \/ SNAGGED)
    /\ pc' = "unsnag"
    /\ UNCHANGED <<world, inner, flags, readable, hup, tty_bytes_written, captured, shown,
                   overtaken>>

(* The message goes to the alternate screen. *)
TakeSnag ==
    /\ pc = "snag"
    /\ SNAGGED' = FALSE
    /\ is_snagged' = (is_snagged \/ SNAGGED)
    /\ pc' = "unsnag"
    /\ UNCHANGED <<world, inner, SIGWINCH_RECEIVED, UNSNAGGED, readable, hup,
                   tty_bytes_written, captured, shown, overtaken>>

(* The bytes from, from + 1, ... to of the output. *)
Bytes(from, to) == [k \in 1 .. to - from + 1 |-> from + k - 1]

(* Mutant: what was replayed is not counted as written. *)
ReplayUncounted ==
    /\ shown' = shown \o Bytes(tty_bytes_written + 1, captured)
    /\ UNCHANGED tty_bytes_written

(* Mutant: the whole file is counted as replayed. *)
ReplayCountedTwice ==
    /\ shown' = shown \o Bytes(tty_bytes_written + 1, captured)
    /\ tty_bytes_written' = tty_bytes_written + captured

(* The file from tty_bytes_written on. *)
Replay ==
    /\ shown' = shown \o Bytes(tty_bytes_written + 1, captured)
    /\ tty_bytes_written' = captured

(* The main screen is back, and what it missed is appended if the file can *)
(* be opened.                                                              *)
Resume ==
    /\ is_snagged' = FALSE
    /\ IF capture THEN Replay ELSE UNCHANGED <<shown, tty_bytes_written>>
    /\ inner' = outer

TakeUnsnag ==
    /\ pc = "unsnag"
    /\ UNSNAGGED' = FALSE
    /\ IF UNSNAGGED /\ is_snagged THEN Resume
       ELSE UNCHANGED <<is_snagged, shown, tty_bytes_written, inner>>
    /\ pc' = "read"
    /\ UNCHANGED <<world, SIGWINCH_RECEIVED, SNAGGED, readable, hup, captured, overtaken>>

(* The bytes up to n, for the terminal. *)
RelayTo(n) ==
    IF is_snagged THEN UNCHANGED <<shown, tty_bytes_written>>
    ELSE /\ shown' = shown \o Bytes(captured + 1, n)
         /\ tty_bytes_written' = tty_bytes_written + (n - captured)

(* One read, of some of what there is. *)
Read ==
    /\ pc = "read"
    /\ IF readable
       THEN \E n \in captured + 1 .. printed : RelayTo(n) /\ captured' = n
       ELSE UNCHANGED <<shown, tty_bytes_written, captured>>
    /\ pc' = "drain"
    /\ UNCHANGED <<world, inner, flags, readable, hup, is_snagged, overtaken>>

(* Mutant: what is left when the shell has ended is not read. *)
DrainNothing ==
    /\ pc = "drain"
    /\ UNCHANGED <<shown, captured>>
    /\ pc' = IF hup THEN "done" ELSE "poll"
    /\ UNCHANGED <<world, inner, flags, readable, hup, is_snagged, tty_bytes_written,
                   overtaken>>

(* On hang-up all that is left goes to the terminal, on whichever screen   *)
(* it is, and the loop ends.                                               *)
Drain ==
    /\ pc = "drain"
    /\ IF hup
       THEN /\ shown' = IF is_snagged THEN shown ELSE shown \o Bytes(captured + 1, printed)
            /\ captured' = printed
            /\ pc' = "done"
       ELSE /\ UNCHANGED <<shown, captured>>
            /\ pc' = "poll"
    /\ UNCHANGED <<world, inner, flags, readable, hup, is_snagged, tty_bytes_written,
                   overtaken>>

-----------------------------------------------------------------------------

Loop ==
    \/ Poll \/ TakeWinch \/ PassSize \/ TakeSnag \/ TakeUnsnag \/ Read \/ Drain

WrapNext ==
    \/ ShellPrints \/ ShellEnds \/ Winch
    \/ Attach \/ Follow \/ Detach \/ Unfollow \/ SessionRemoved \/ DaemonEnds
    \/ Loop

WrapSpec == WrapInit /\ [][WrapNext]_vars

(* poll returns after 100 ms at the latest, and the loop goes on.  The     *)
(* shell, the daemon and the user owe nothing.                             *)
FairWrapSpec == WrapSpec /\ WF_vars(Loop)

-----------------------------------------------------------------------------
(* Properties *)

(* The terminal shows the shell's output in order, without a gap or a      *)
(* repetition, however often the session was snagged and wherever between  *)
(* two reads; outside of snag mode nothing that was read is missing.       *)
(* (While the file that is replayed from is there.)                        *)
ScreenInOrder ==
    capture =>
        /\ \A k \in DOMAIN shown : shown[k] = k
        /\ ~is_snagged => Len(shown) = captured

(* While the daemon has the session and no signal is left to look at, the  *)
(* terminal is snagged if a client is attached, and only if one is, or was *)
(* and a follower keeps the list from being empty (server.rs:144, 633,     *)
(* 666), unless two signals came so close that the loop looked at the      *)
(* later one first.                                                        *)
ModeFollows ==
    pc = "poll" /\ registered /\ ~SNAGGED /\ ~UNSNAGGED /\ ~overtaken =>
        /\ attached => is_snagged
        /\ is_snagged => attached \/ followed

(* A change of the terminal's size is never lost: the inner pty has it, or *)
(* a SIGWINCH is still to be looked at, whenever it came.                  *)
SizeFollows == inner = outer \/ SIGWINCH_RECEIVED \/ pc = "resize"

(* When the shell has ended its last words are on the terminal, unless it  *)
(* ended while snagged, or what it said while snagged was lost with the    *)
(* capture file.                                                           *)
EndsComplete ==
    pc = "done" /\ capture /\ ~is_snagged => Len(shown) = printed

(* Once the last client of the session has left, followers too, the        *)
(* terminal resumes and shows all that it missed.  Not if the session was  *)
(* killed or unregistered before, or the daemon ended, for then nobody     *)
(* sends SIGUSR2; not if the signals came too close (overtaken); and not   *)
(* if the shell ends first.                                                *)
Resumes ==
    ~attached /\ ~followed
        ~> \/ ~is_snagged /\ Len(shown) = printed
           \/ attached \/ followed \/ ~registered \/ overtaken \/ pc = "done"

(* commands.rs:203-205, what a snagged terminal shows: "This session is    *)
(* being controlled remotely.  It will resume when the remote client       *)
(* detaches."  (That a follower who stays keeps it snagged is not counted.)*)
ResumesAsTold ==
    ~attached ~> ~is_snagged \/ attached \/ followed \/ pc = "done"

=============================================================================
