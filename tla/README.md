# snag in TLA+

snag is a PTY session multiplexer in Rust. A daemon, `snagd`, owns shell
sessions; `snag` commands list, attach to, watch, rename and kill them over a Unix
socket; shells that were started elsewhere can be registered, and are then reached
through a stolen master descriptor and the relay `snag wrap`. A TUI sits on the
same protocol.

This directory holds a model of it in TLA+: the registry, the daemon's event loop,
the path of the output, the scrollback buffer, the relay, the way from a command to its
answer and the user interface; runs of the model
checker TLC over small instances; and proofs, checked by TLAPS, of the safety
properties for every value of the constants.

Paths below are those of the repository: `server.rs`, `registry.rs`, `session.rs`, `pty.rs`
and `ringbuf.rs` are under `src/daemon/`, `commands.rs` is `src/cli/commands.rs`,
`codec.rs` is `src/protocol/codec.rs`.

## The system

### Components

| component | state | operations | correct means |
|---|---|---|---|
| session registry (`registry.rs`) | `sessions: id -> Session`, `name_index: name -> id` | `insert`, `remove`, `rename`, `resolve` (a name, then a whole id, then a unique prefix), `find_by_pts` | the two maps agree; a target designates at most one live session and does not slide to another |
| session (`session.rs`) | id, name, shell, pid, pts, master fd, `state`, `attached_clients`, scrollback, `registered`, `capture_path` | changed by the handlers | what it says of its shell and its clients is true |
| daemon loop and handlers (`server.rs`) | the registry, `clients: id -> AttachedClient`, `grace_deadline`, a bounded channel of events | one branch of `select!` at a time: connection, message, disconnection, pty data, end of pty, child exit, shutdown, SIGTERM, SIGCHLD, grace timer; 18 kinds of request | one typist per session, nobody evicted unheard, no shell abandoned, exits recorded, stops when told |
| connection tasks (`server.rs`, `handle_client_connection`) | a channel of 64 frames per client, a write task | read requests, write frames, report the end | a client that does not read harms only itself |
| attach client (`commands.rs`, `cmd_attach`, `cmd_output`) | raw mode, the detach key's state, the frame reader | print frames, send keys, resize, detach, leave on a `SessionEvent` | what is shown is what the shell printed; the terminal is given back |
| PTY and process control (`pty.rs`) | kernel: ptys, children, signals | spawn, hang up, wait, resize | no zombie is left, no shell outlives its session |
| scrollback (`ringbuf.rs`) | `buf`, `write_pos`, `len` | `write`, `as_slices`, `all_bytes`, `last_n_lines` | reads back as the last bytes written, in order |
| PTY adoption (`adopt.rs`) | none | find a terminal's master in `/proc`, `pidfd_getfd` | the right master |
| frame codec (`codec.rs`) | none | one byte of kind, four of length, payload | frames are read as they were written |
| `snag wrap` (`commands.rs`, `cmd_wrap`) | three signal flags, `is_snagged`, `tty_bytes_written`, the capture file | relay, switch screens, replay, resize | the terminal shows all output once and in order |
| shell hook, one-shot commands (`commands.rs`) | none | register, send, list, kill, ... | one request, one response |
| client connection, daemon start (`client.rs`, `server.rs`) | socket and pid files | connect, start a daemon, wait for the socket | a daemon that runs is reachable; every command ends |
| TUI (`src/tui/`) | session list, selection index, mode | refresh, move, act on the selected session | a key acts on the session that is shown as selected |
| output formatting, configuration, errors | none | | |

### How they interact

Clients send requests over the socket; a task per connection turns them into events of
the one loop, which handles an event to the end, answers the client through that
client's channel, and never runs two handlers at once. `snag attach` writes keys and sizes in the
loop in which it reads frames, and reads none while it waits to write. Output reaches the loop as
`PtyData` from a task per pty, and leaves it through the channels of the attached
clients. The kernel tells the loop of ended children by SIGCHLD, and of the end of a
pty through the reader, independently and in either order. The loop tells `snag wrap`
by SIGUSR1 and SIGUSR2 when a client attaches and when the last one leaves; the
relay and the daemon share the capture file.

### What is hard

- Who is attached is recorded twice, in the session (`attached_clients`) and in the
  client (`session_id`, `read_only`), and seven handlers update one or both by hand.
- One exit is reported by two sources, whose events also meet sessions that were
  killed meanwhile and a grace timer that other events arm and disarm.
- Clients die or leave at any point; notices travel behind the changes they announce,
  and are dropped when a channel is full.
- A client is given the scrollback and then live output, and the two have to fit.
- The loop awaits the sending of a response: a slow client can hold it, and a client that
  types waits for the loop.
- What is signalled to `snag wrap` follows from who is on a list in which followers are too, and
  ends when the session is removed.
- `snag wrap` takes signals between any two of its steps, and counts what it has shown
  against a file that it writes, and that the daemon deletes.

`PROJECT.json` lists the hazards one by one, at their lines, with the properties
that cover them.

## Modules

```
SessionRegistry  <- SnagDaemon  <- MCSnagDaemon      (extended by)
Scrollback  ==implemented by==>  RingBuffer  <- SnagOutput  <- MCSnagOutput
SessionRegistry  <- TuiApp  <- MCTuiApp
SnagServer
SnagWrap
```

**SessionRegistry** (`registry.rs`). `sessions`, `name` and `name_index`; `Insert`,
`Remove`, `Rename` and `Resolve` are the methods, with the checks that their callers
make before them as guards. A target is a member of `Targets`; `Abbrev` says which
ids begin with it, so that no string is taken apart.

**SnagDaemon** (`server.rs`, the clients of `commands.rs`). One action per request
that changes something (`SessionNew`, `SessionRegister`, `SessionKill`,
`SessionUnregister`, `SessionAttach`, `SessionSteal`, `Follow`, `SessionDetach`,
`SessionRename`, `Resize`, `DaemonStop`), `Query` for those that only answer, one
per branch of the loop (`Connect`, `ClientDisconnected`, `PtyEof`, `ChildExited`,
`Shutdown`, `SigTerm`, `SigChld`, `GraceExpire`), and what happens around the loop:
shells that end (`ShellExit`), readers that see it (`PtyEofSend`), clients that
leave or die (`Close`, `Quit`). It extends SessionRegistry: the handlers change the
two maps through its operators, and the refinement `RegistrySpec` says that nothing
else does.

- A session's state is `Running` or an exit code; its `pts` is its own id when it was
  spawned and another terminal when it was registered.
- `phase` is where a client process stands: `new` (not connected), `ready` (a
  connection whose next message may be anything), `attached`, `following`, `leaving`
  (its detach is on the way), `closing` (its end is on the way), `gone`.
- The channel of events is kept per source (`reader`, `child_exited`, `stop_queued`,
  `phase`): each source's events stay in order, and between sources any order is possible.
- A SessionEvent that is under way is in `notice`; to a client in `Slow` it may be lost.
- A step that kills a shell (`Die`) leaves a zombie and a pending SIGCHLD, which
  coalesce as signals do.
- Ids are not reused (eight random bytes).

**Scrollback** is what a scrollback promises: it holds the last `Capacity` bytes
written. **RingBuffer** (`ringbuf.rs`) is the circular buffer, and `KeepsTail`, an
INSTANCE of Scrollback with what `all_bytes` returns for its content, is the refinement.

**SnagOutput** (`server.rs`, `codec.rs`, `commands.rs`) is the way of the bytes of one
session: `PtyData` writes the scrollback and sends a frame to whoever is attached;
`SessionAttach` and `SessionOutput` answer with the scrollback, converted by
`from_utf8_lossy`; an attach steals from a writer. The shell prints any bytes. `Width` says of
each how long the character is that it begins in UTF-8, if it begins one; `Lossy` puts one mark for
the beginning of a character that is cut short and one for each byte that belongs to none. `chan` is
channel, write task and socket of a client together. Between `Respond` and `ResponseSent` or
`ResponseDropped` the loop handles nothing (`LoopFree`). A client reads frame by frame
(`ReadFrame`); a key pressed when a frame is there in part makes it lose its place
(`ReadCancelled`, `ReadTorn`). The other way, `requests` counts the keys and sizes that the loop has
yet to take (`SendRequest`, `ClientMessage`). Who finds no room for one is `stalled` in its write and
reads nothing, and if the loop waits for room in that client's channel both are `Deadlocked`.
`Quit`, `Exit` and `Die` are the ways to leave: `snag attach` writes a last request, and may have to
wait for it. `stream`, `start`, `joined` and `lost` are ghosts: what was printed, where a screen begins
in it, where it was when the client attached, who missed a frame.

**SnagWrap** (`commands.rs`, `cmd_wrap`; of `server.rs` what it signals) is the relay loop, one action
per point at which a signal handler may run between: `Poll`, `TakeWinch`, `PassSize`, `TakeSnag`,
`TakeUnsnag`, `Read`, `Drain`. Around it the shell prints and ends, the terminal is resized, and the
clients of the one session come and go: every `Attach` sends SIGUSR1; `Detach` and `Unfollow`
send SIGUSR2 if they empty the list and the session is still there (`TakenOff`); `Follow` sends
nothing. `SessionRemoved` (kill, unregister) takes session and capture file away and sends nothing, nor
does `DaemonEnds`. Output is numbered as it is printed, so that a gap or a repetition on the screen
shows. `overtaken` is a ghost: a signal was looked at before an earlier one.

**SnagServer** (`client.rs`, `cmd_daemon_start` and the one-shot commands of `commands.rs`,
`run_daemon` and `handle_client_connection` of `server.rs`) is how a command comes to be
answered. Daemons look for a daemon that runs (`Check`), remove the socket file and bind their own
(`RemoveStale`, `Bind`), and take the file away when they end (`Exit`), or leave it when they
are killed (`Crash`). Clients connect, or start a daemon and try again until they give up; they may leave at
any time, before they have asked for anything too, as the interface's first connection does.
A daemon's tasks feed the loop through the bounded channel `events`: arrivals (`Accept`),
requests (`ReadRequest`), ends of connections (`ReadEnd`), output (`ReadPty`); and the loop is a
sender too, of `Shutdown` and `ChildExited` (`SendSelf`). Whoever finds the channel full
waits behind its `Capacity` places; if that is the loop, it is `stuck`, for nobody else
receives. What a request does is left to SnagDaemon: here it may open a session, stop the daemon, or
only be answered. SnagDaemon in turn takes each source's events in order, in any
order between the sources, and never finds the loop stuck.

**TuiApp** (`src/tui/`) is the user interface on top of SessionRegistry: the list in the order in which the
daemon's hash map iterates (`order`), the position of the selected session in the filtered list,
the preview. The loop draws, waits for a key or half a second (`poll`), makes a request
of the selected session's id (`RequestServed`, `RequestUnserved`), and asks for the list and the
preview again (`RefreshSessions`, `RefreshPreview`): each a connection of its own, so that
others change the registry, or the daemon is replaced (`Restart`), between any two
(`Others`). The output that comes back is that of the session which the daemon resolves the id to
(`Answers`): one that has the id for a name, if there is one. The keys go to the daemon that `--socket`
names and the refreshes to the default one; `SocketGiven` says that they are two, and the default one is
then taken to have no sessions. `drawn`, `served`, `toggled` and `previewName` are ghosts: the marked row
on the screen, the session that the last request was carried out on, whether `h` was pressed since the last
preview, and the name that the session of the preview had when it was asked for. A key is read
and acted on in one step, after the drawing: what is typed ahead during a refresh acts on the row
marked after it.

**The MC modules** give the constants their values. **The Proofs modules** hold the
theorems, each on the module of its name: SessionRegistryProofs, SnagDaemonProofs (which cites those of
the registry, as TuiAppProofs does), RingBufferProofs, SnagOutputProofs (which cites those of
the ring buffer), SnagServerProofs, SnagWrapProofs, TuiAppProofs. **InductionLemmas** has what they
need of induction, see Proofs.

## Runs

The runs that pass:

| run | asks | instance |
|---|---|---|
| `viewers` | who is attached, who may type, who is told what; are exits recorded and clients released | 1 id, 2 clients, one of them slow to read; a wrapped terminal that may be registered |
| `sessions` | life and death of sessions, shells, captures, timer; refinement of the registry | 2 ids (symmetric), 1 name, 1 client, 1 plain terminal; all terminals may register, the spawned ones included; exit codes 0 and 1; 1 window size |
| `output` | scrollback and live output fit; what the conversion damages; lines; the scrollback's promise; the loop goes on; output is shown | 2 clients, one of them types; scrollback of 4 bytes, channels of 1 frame and of 1 request, 8 bytes in reads of 3 and of 5: characters of 2 and of 4 bytes, whole and cut in two, ends of lines, a read longer than the scrollback, output that is no UTF-8 |
| `server` | is the daemon that runs reachable, do events keep their order, does every command end | 2 daemons, 2 clients, one of which asks the daemon to stop; a channel of 1 event |
| `tui` | does a key act on the session that is marked; does the screen catch up; do the registry's maps agree, and does a target stay where it was | ids `abc1` and `abc2`, names `abc` (a prefix of both) and `abc1` (an id), targets these and `zzz`; `abc2` may be attached to from within another session |
| `wrap` | does the relay keep output in order, is the terminal snagged when somebody is attached, does it catch up | 3 bytes, 2 window sizes; clients and followers come and go any number of times |

Why these are enough to be worth running. A session has one id for life and an
attachment is between one client and one session, so that two clients on one
session already give a writer with a follower or a thief, either of whom leaves or
dies meanwhile (what a third would see is safety, and proved for any number); two sessions and a terminal give killed and living sessions side by
side, one adopted from the other, and names that are freed and taken again. A channel
of one frame is full as soon as its client does not read, and with a request on its way that is already what it
takes for a client and the loop to wait for each other; a scrollback of four bytes wraps in the middle of a
character of four, and is overrun by one read; in the relay three bytes allow one shown, one missed and one in flight. Two daemons are one that
runs or has crashed and one that starts beside or after it; a channel of one event is full as
soon as another is sent, with up to four senders waiting. Two sessions
make a list in which the marked one moves, disappears or is hidden. The bounds of
the models are `MaxStream`, `MaxOut`, `Typists` (who types in SnagOutput) and the sizes of the sets above; connections,
`Clients`, are used once each in SnagDaemon and SnagServer and again and again in SnagOutput. The proofs
take what safety rests on beyond them. Symmetry is used in the run
`sessions` alone, which has no liveness, and only over sets of which no member is named.
`CHECK_DEADLOCK FALSE` wherever the system may rightly come to rest: a daemon that
has stopped, a relay that has ended, a shell that has printed all the model lets it.

### Fairness

- SnagDaemon (`Fairness`, in `viewers`, `killed_viewers`, `auto_exit`): the loop's own
  branches for what is queued or due (`select!` polls its branches in random order, so
  that none is starved), a client's detach and disconnection once sent, and a client's
  reading of its notices. Not: that shells exit, that users type or leave, that the end of a
  pty comes at all (a background job may hold it open).
- SnagOutput (`FairOutputSpec`): the send that is awaited is resumed, a client that has written its last
  request ends, and, strongly, a client which is in its `select!` again and again with a frame to read takes
  one some time (`select!` picks at random among the branches that are ready, so that keys do not starve it),
  and the loop takes a request some time among others'. A client that waits to write owes nothing: that it and
  the loop can wait for each other is in the model, is reached by the run, and is what `LoopGoesOn` and
  `OutputShown` except. That a client which neither reads nor ends (a stopped process) holds
  the whole daemon is assumed away, and is a hazard listed in `PROJECT.json`.
- SnagServer (`FairSpec`): a daemon that starts goes on, its loop handles what it is sent and its
  tasks run (one thread, but all of them await), a client tries, gives up after twenty
  tries, and sees the end of its stream. Not: that shells print or end, or that anybody starts, signals
  or interrupts anything.
- TuiApp (`FairTuiSpec`): the interface's own loop, and that a request is answered or
  fails (`ClientsAnswered`). Not: that keys are pressed, that a user who attached comes back, or
  that errors happen.
- SnagWrap (`FairWrapSpec`): the relay loop, whose `poll` times out after 100 ms.

### What the code does not keep

Six runs each check one statement that a comment, a document or a test makes, and TLC
finds a behaviour of the code that contradicts it. The findings in `PROJECT.json` quote
the statements.

| run | property | what happens |
|---|---|---|
| `attach_loop` | `NoAttachLoop` | from inside s1 a client attaches to s2, then from inside s2 another to s1: the search for loops (`server.rs:1225`) walks from a session to those that view it instead of those it views |
| `killed_viewers` | `KilledViewersLeave` | `kill` removes the session and tells the attached clients nothing (`server.rs:483`); nothing ever will |
| `auto_exit` | `DaemonAutoExits` | after the last shell has exited one more message disarms the grace timer (`server.rs:134`), and nothing arms it again |
| `attach_usr1` | `AttachSparesShell` | an attach sends SIGUSR1 to a shell that the hook registered without `snag wrap` (`server.rs:635`): the default action terminates it |
| `torn_read` | `FramesReadWhole` | `read_frame` in a `select!` (`commands.rs:479`) is dropped half-way when a key is pressed, with the bytes it had read |
| `wrap_resume` | `ResumesAsTold` | the snagged terminal is told "It will resume when the remote client detaches." (`commands.rs:203`); when the session was killed or unregistered meanwhile, or the daemon has ended, nobody sends SIGUSR2 and it does not; nor when both signals come between the looks at the two flags (`commands.rs:197`, `:209`), so that the later one is looked at first |

Three more statements are in the modules, each with a configuration with which TLC finds it violated:

| configuration | property | what happens |
|---|---|---|
| `SnagDaemon_exitcode.cfg` (MCSnagDaemon) | `ExitCodeKept` | the child is waited for and its code recorded; then the end of the pty comes and writes 0 over it (`server.rs:176`) |
| `TuiApp_socket.cfg` (MCTuiApp) | `SocketOverrides` | `--socket` is to "Override the default socket path" (`cli/mod.rs:13`); the keys obey it, list and preview do not (`tui/mod.rs:206`, `:228`) |
| `SnagServer_stale.cfg` (SnagServer) | `OnlyStaleRemoved` | "Remove stale socket" (`server.rs:54`) removes whatever is there: of two daemons that start at once, the second takes the first one's live socket away |

More does not hold and is promised by no text; the properties state what
they except, and the hazards name the lines: a client whose channel is full misses
output and notices; the last output may come after the notice that the shell has
ended; a client that types into a full socket while its own channel is full holds the loop for ever, and
everybody with it (`server.rs:131`, `commands.rs:534`, `:545`: neither side reads while it waits to write); a
follower who stays when the last writer leaves keeps the terminal snagged, as the list is not empty;
what a snagged terminal missed is not replayed when the
capture file is gone or the shell ends meanwhile; and a terminal can be registered
twice. For the last reason `NoSelfAttach` is a property of terminals with
one session: `handle_session_attach` finds *a* session of the client's terminal, and
a client may attach to the other. The run `viewers`, with one id, has no such
terminal; the theorem `DaemonNoSelfAttach` says that they are the only exception.

Of daemons and their clients: two start-ups that overlap remove each other's live socket, and one
daemon runs on with its sessions, unreachable (`OnlyStaleRemoved`; `SocketOwned` is about the others). A loop that sends to itself while its
channel is full waits for ever, and everybody with it (`server.rs:218` and `:350`; the three
liveness properties except its clients). The answer to `snag daemon stop` is lost when the
loop leaves before the write task has run; the client is then told of a lost connection.

Of the user interface: with the filter on, the clamp (`tui/mod.rs:213`) counts hidden sessions, the
selection may fall past the end and the keys are dead until it is moved; after `h` the preview is
another session's until the next refresh; when a session is named like the id of another, keys and
preview of the other are about that one (`KeyHitsMarked` and `PreviewOfMarked` state it); a key typed
during a refresh acts on what is marked after it; what is typed after `r` or `s` goes to the session
selected at Enter; an error that is passed on with `?` leaves the terminal in raw mode and on the
alternate screen; and the list is not scrolled, so that the marked row may be below its last line.
`KeyHitsMarked` is about the row that is marked, visible or not.

## Proofs

TLAPS proves, for all values of the constants that satisfy the assumptions below, the
type invariants and all safety invariants and action properties the passing
runs check but `MarksAtEdges`; `NoSelfAttach` with a condition on the behaviour (`OneSessionPerTerminal`), because
without it the code does not keep it.

Assumptions on the constants, all checked by TLC in the runs:

- `RegistryAssumption`: the null values are no ids and no names; a target that is a whole
  id abbreviates no other one (ids have one length).
- `DaemonAssumption`: ids, terminals and null values are apart; the wrapped and the
  registrable terminals and the slow clients are such; 0 is an exit code.
- `RingAssumption`: the capacity is a natural number (0 included), the chunks are
  sequences of bytes.
- `OutputAssumption`: a channel has room for a frame and for a request; the mark is no byte; a byte begins a
  character of 1 to 4 bytes or none.
- `ServerAssumption`: clients are no daemons, the stoppers are clients, the channel has a place.
- `TuiAssumption`: the sessions that may be attached to from within another are sessions; a whole id
  is a target. `SocketGiven` may be either.
- `WrapAssumption`: the bound on the output is a natural number, there is a window size.

The arguments:

- **Registry.** `RegistryInv`, the types and `IndexConsistent`, is inductive: `remove`
  and `rename` clear the index entry of the name the *session* carries, which is the right
  one only because the maps agreed before. That a target designates one live session,
  and that it moves only when a name is given away, follow from it step by step.
- **The daemon implements the registry.** Every handler inserts, removes, renames or
  leaves both maps alone, so that `Spec => RegistrySpec`, and with it the
  registry's theorems hold of the daemon.
- **Viewers.** `AttachConsistent`, `OneTypist` and `NoticeTruthful` are not inductive: a
  client of a killed session keeps its `session_id`, and could meet a new session of
  that id. `ViewersInv` adds that no record names an id yet to be drawn
  (`RecordsOld`), and that whoever was told something is past its only attach
  (`ToldAfterAttach`). `NoSilentEviction` is then proved action by action.
  `NoSelfAttach` holds of behaviours in which no terminal ever has two sessions
  (`OneSessionPerTerminal`, which the shell hook sees to, `commands.rs:779`, and the daemon does not):
  then `find_by_pts` has one answer for the client's terminal, and the walk of
  `detect_attach_cycle` begins there. The hypothesis is about the whole behaviour, as a session may be
  registered a second time in any step; only attaching needs it.
- **Life cycle.** `ExitedIsDead` and `GraceOnlyWhenIdle` depend on events that are handled long
  after they were sent. `LifeInv` adds that what is queued stays true until then
  (`EofsTrue`, `ExitsTrue`), because a terminal never gets a second shell
  (`UnbornClean`, `AdoptedBare`, `AbsentBlank`).
- **Ring buffer.** The refinement is proved counting from the end: the k-th byte from the
  end of what is read back is the k-th before the write position
  (`AllBytesFromEnd`), and a write moves it as it should in each of the code's cases:
  a chunk longer than the buffer, one that wraps, one that does not
  (`WriteKeepsLast`).
- **Lines.** `LinesAsAsked` says of `last_n_lines` what a user means by the last n lines (`LastLines`), while the code
  walks back over the newlines (`Cut`). That the walk stops at a newline with n behind it, if
  there are as many, is by induction over their number (`CutExists`).
- **Output.** `OutputInv` adds to the types that the buffer never holds more than was
  printed. Every action but `PtyData` leaves buffer and stream alone, and `PtyData` is a
  write of the ring buffer, so that the output path implements Scrollback too.
  `ViewContiguous` is about a client's screen and channel end to end, `View`. `ViewsOK`, inductive with
  `OutputInv`, says that what the buffer reads back is the end of the stream (`StreamOK`); that a response the loop
  holds for want of room carries no text and is for a client that is there
  (`LoopOK`); that nothing is left on the screen or in the channel of a client that is gone (`GoneOK`), which
  may come again; and that a view is the piece of the stream that was converted, and after it the stream as it is
  (`ViewOK`). A frame that is read only moves the border between two parts of one sequence: this is
  what the lemmas on flattened sequences are for. That a client which comes again meets none of its old
  requests is `UpstreamOK`. Of `Lossy` only its type is used.
- **Server.** `SocketOwned` needs that whoever is between looking and binding found nobody, and is alone
  (`StartsApart`). `EventsInOrder` needs to know where each connection stands when one of its events is
  in the channel: an arrival is the only one and of a connection not yet served
  (`ConnectionNew`), a request of one that is (`MessagesServed`), an end the last of its
  connection's events (`EndLast`); and that the loop knows exactly those that are served
  (`KnownAreServed`). Every step but six adds no such event and takes some from the front, which keeps
  all three (`KeptOrder`). Types are not inductive by themselves: that a connection an event
  names was made at all is `Ordered`.
- **Wrap.** `WrapInv` says what the screen holds at each point of the loop
  (`ScreenOK`), what the flags and the mode together will come to (`ModeToBe`, which
  turns round between the two flags) and that this is what the clients of a session that is still there ask
  for (`ModeOK`), and that the loop ends only with nothing left to read (`EndOK`).
- **User interface.** `TuiInv` says that the position is inside the unfiltered list (`InRange`), that the screen shows
  the selection the next key acts on (`DrawnOK`), that whatever moves the selection leads to a new preview
  before the next drawing, of a session that is the marked one or had its id for a name (`PreviewOK`), and that a request is about a session that was marked (`RequestOK`).
  The request names a whole id: `IndexConsistent` gives that it designates a session of that name or
  that very session, `RegistryAssumption` that it is no prefix of another (`AnswerBearsId`). The filtered list and the daemon's
  order are kept by lemmas on `Keep`: its elements, its order, and that it changes nothing when all pass.
  The registry's step lemmas carry its own properties through the interface's requests and through the
  replacement of the daemon, which is no step of the registry.

Induction over data. The library's induction theorems take a predicate, which the provers at hand cannot put
in. InductionLemmas states induction as a fact about a *set* of numbers (`SetInduction`, from the
library's theorem that `<` is well-founded), and the existence of a function defined by
recursion along 0..n (`RecursionExists`). Each proof that needs it defines the set of numbers of which
its claim is true. `Keep`, `FlattenSeq` and the counting of newlines are reached in this way.

Only model-checked: liveness (`ExitRecorded`, `ViewersReleased`, `LoopGoesOn`, `OutputShown`,
`Resumes`, `ClientsAnswered`, `StopEnds`, `Forgotten`, `CatchesUp`), which is beyond TLAPS here, and `MarksAtEdges`,
which is about what `Lossy` makes of a whole sequence at a time. TLC refutes each of the nine
statements that the code does not keep; nothing is proved of when they hold.

## Not modelled

- The alternate-screen flag that `PtyData` maintains, which only chooses a placeholder for the preview: a model
  of it would be of the bytes of six escape sequences.
- A descriptor that is closed while the task that reads it still runs, and the
  reuse of its number.
- What the shell reads: keys, `send`, and their relay, which do not depend on the rest
  beyond who may type (`OneTypist`); that a write to a full pty is cut short.
- That `connect` may fail for another reason than a missing daemon (a full backlog), and that binding and
  listening are two steps.
- The pid file, which is written and removed and never read; `snagd.log`, directories and permissions.
- `/proc`, `pidfd_getfd`, fork and exec: I/O, used as what they provide. The scan of `adopt.rs` is a
  sequence of reads of a changing `/proc`; what SnagDaemon uses of it is that a master is
  found for a terminal that somebody holds.
- MessagePack, argument parsing, tables and JSON output, configuration, error texts,
  what `ui.rs` draws beyond the marked row (`sanitize_for_preview`, `shorten_path`, layout), the
  interface's terminal mode: formatting without state the rest depends on.

## Plan

The model's safety properties are proved, but for `MarksAtEdges`, whose proof would need how the positions of a
sequence move when it is flattened. What else may be stated is more than the runs ask: that a step which
attaches a client in its own terminal's session is one of a terminal with two sessions, without
a condition on the behaviour; and, of the findings, the conditions under which their
statements hold (an exit code kept when the end of the pty comes first, a shell spared when it runs under
`snag wrap`), and a second daemon with sessions of its own behind the interface's refreshes.
