------------------------------- MODULE TuiApp -------------------------------
(***************************************************************************)
(* The terminal user interface (src/src/tui/): a list of the sessions, one *)
(* of them marked by its position, a preview of its output, and keys that  *)
(* act on it.  The program asks the daemon for the list and the preview    *)
(* after each key that may have changed them, and every half second        *)
(* without a key; in between, the registry changes under it.               *)
(*                                                                         *)
(* Each request is a connection of its own, so that the daemon may handle  *)
(* others' requests, or have been replaced, between any two of them: each  *)
(* is a step here.  What is typed into the input line is chosen when it is *)
(* used, and output is known by the session it is of.                      *)
(*                                                                         *)
(* Keys go to the daemon of --socket, the refreshes to the default one.    *)
(* When that is another daemon it is taken to have no sessions.            *)
(***************************************************************************)
EXTENDS SessionRegistry, Naturals, Sequences

Seqs == INSTANCE SequencesExt

CONSTANTS
    Snaggable,  \* the sessions that somebody may be attached to from another
    SocketGiven \* --socket names another daemon than the default one

(* What the interface sends as a target is a whole id.                     *)
ASSUME TuiAssumption ==
    Snaggable \subseteq Ids /\ Ids \subseteq Targets /\ SocketGiven \in BOOLEAN

VARIABLES
    order,        \* the order in which the daemon's map of sessions iterates
    \* App
    list,         \* sessions: the ids, as last listed
    snagged,      \* those of them with snagged_by = Some
    selected, input_mode, hide_snagged,
    preview,      \* preview_raw: the session whose output it is, NoId when empty
    previewName,  \* ghost: the name that this session had when it was asked
    \* the screen
    drawn,        \* the rows with the marker, when last drawn
    \* where run_tui stands
    pc,           \* see TuiTypeOK
    from_key,     \* the refresh follows a key: an error ends the program
    request,      \* what the key asks of the daemon
    served,       \* the session that the last request was carried out on
    toggled       \* the filter was switched and the preview not yet refreshed

previewVars == <<preview, previewName>>
appVars == <<list, snagged, selected, input_mode, hide_snagged, previewVars>>
loopVars == <<drawn, pc, from_key, request, served, toggled>>
tuiVars == <<registryVars, order, appVars, loopVars>>

Requests == [op : {"none", "new", "kill", "rename", "send", "attach"},
             target : Ids \cup {NoId}]
NoRequest == [op |-> "none", target |-> NoId]

TuiTypeOK ==
    /\ RegistryTypeOK
    /\ order \in Seqs!SetToSeqs(sessions)
    /\ list \in Seq(Ids) /\ Seqs!IsInjective(list)
    /\ snagged \subseteq Snaggable
    /\ selected \in Nat
    /\ input_mode \in {"Normal", "Rename", "Send"}
    /\ hide_snagged \in BOOLEAN
    /\ preview \in Ids \cup {NoId}
    /\ previewName \in Names \cup {NoName}
    /\ drawn \subseteq Ids
    /\ pc \in {"draw", "poll", "request", "attached", "sessions", "preview",
               "quit", "failed"}
    /\ from_key \in BOOLEAN
    /\ request \in Requests
    /\ request # NoRequest <=> pc = "request"
    /\ served \in Ids \cup {NoId}
    /\ toggled \in BOOLEAN

(* run_tui begins with both refreshes. *)
TuiInit ==
    /\ RegistryInit
    /\ order = <<>>
    /\ list = <<>> /\ snagged = {}
    /\ selected = 0
    /\ input_mode = "Normal"
    /\ hide_snagged = FALSE
    /\ preview = NoId /\ previewName = NoName
    /\ drawn = {}
    /\ pc = "sessions" /\ from_key = TRUE
    /\ request = NoRequest
    /\ served = NoId
    /\ toggled = FALSE

-----------------------------------------------------------------------------
(* App *)

(* The elements of s that are in S, in their order: SelectSeq, of which    *)
(* the provers know no definition.                                         *)
Keep(s, S) ==
    LET kept[k \in 0 .. Len(s)] ==
            IF k = 0 THEN <<>>
            ELSE IF s[k] \in S THEN Append(kept[k - 1], s[k]) ELSE kept[k - 1]
    IN  kept[Len(s)]

VisibleWhen(hide) == Keep(list, IF hide THEN Ids \ snagged ELSE Ids)

Visible == VisibleWhen(hide_snagged)

(* Mutant: the position is looked up in the list without the filter. *)
SelectedInList == IF selected < Len(list) THEN list[selected + 1] ELSE NoId

(* selected_id: a position of the visible sessions, from 0; it may be past *)
(* their end, for refresh_sessions does not look at the filter.            *)
SelectedId == IF selected < Len(Visible) THEN Visible[selected + 1] ELSE NoId

(* The rows that ui::draw gives the marker. *)
Marked == {Visible[k] : k \in {j \in DOMAIN Visible : j - 1 = selected}}

(* Mutant: a position just past the end is left there. *)
ClampedLate(len) == IF selected > len /\ len > 0 THEN len - 1 ELSE selected

Clamped(len) == IF selected >= len /\ len > 0 THEN len - 1 ELSE selected

-----------------------------------------------------------------------------
(* The keys *)

Key(modes) == pc = "poll" /\ input_mode \in modes

(* A key without effect, a character for the input line, a resize. *)
OtherEvent ==
    /\ pc = "poll"
    /\ pc' = "draw"
    /\ UNCHANGED <<registryVars, order, appVars, drawn, from_key, request, served,
                   toggled>>

PressQuit ==
    /\ Key({"Normal"})
    /\ pc' = "quit"
    /\ UNCHANGED <<registryVars, order, appVars, drawn, from_key, request, served,
                   toggled>>

SelectNext == (selected + 1) % Len(Visible)

SelectPrev == IF selected = 0 THEN Len(Visible) - 1 ELSE selected - 1

PressMove ==
    /\ Key({"Normal"})
    /\ IF Visible = <<>> THEN UNCHANGED selected
       ELSE selected' \in {SelectNext, SelectPrev}
    /\ pc' = "preview" /\ from_key' = TRUE
    /\ UNCHANGED <<registryVars, order, list, snagged, input_mode, hide_snagged,
                   previewVars, drawn, request, served, toggled>>

PressToggle ==
    /\ Key({"Normal"})
    /\ hide_snagged' = ~hide_snagged
    /\ selected' = Clamped(Len(VisibleWhen(~hide_snagged)))
    /\ toggled' = TRUE
    /\ pc' = "draw"
    /\ UNCHANGED <<registryVars, order, list, snagged, input_mode, previewVars, drawn,
                   from_key, request, served>>

(* A request about the selected session is made out; n needs none. *)
Ask(op, id) ==
    /\ request' = [op |-> op, target |-> id]
    /\ pc' = "request"
    /\ UNCHANGED <<registryVars, order, list, snagged, selected, hide_snagged,
                   previewVars, drawn, from_key, served, toggled>>

PressNew == Key({"Normal"}) /\ Ask("new", NoId) /\ UNCHANGED input_mode

(* x and Enter *)
PressKillOrAttach ==
    /\ Key({"Normal"})
    /\ SelectedId # NoId
    /\ \E op \in {"kill", "attach"} : Ask(op, SelectedId)
    /\ UNCHANGED input_mode

(* r and s *)
PressInput ==
    /\ Key({"Normal"})
    /\ SelectedId # NoId
    /\ input_mode' \in {"Rename", "Send"}
    /\ pc' = "draw"
    /\ UNCHANGED <<registryVars, order, list, snagged, selected, hide_snagged,
                   previewVars, drawn, from_key, request, served, toggled>>

(* Enter on the input line, for the session selected by then. *)
Confirm ==
    /\ Key({"Rename", "Send"})
    /\ SelectedId # NoId
    /\ Ask(IF input_mode = "Rename" THEN "rename" ELSE "send", SelectedId)
    /\ input_mode' = "Normal"

(* Esc, or Enter on an empty line or without a selected session. *)
Cancel ==
    /\ Key({"Rename", "Send"})
    /\ input_mode' = "Normal"
    /\ pc' = "draw"
    /\ UNCHANGED <<registryVars, order, list, snagged, selected, hide_snagged,
                   previewVars, drawn, from_key, request, served, toggled>>

PressKey ==
    \/ OtherEvent \/ PressQuit \/ PressMove \/ PressToggle \/ PressNew
    \/ PressKillOrAttach \/ PressInput \/ Confirm \/ Cancel

-----------------------------------------------------------------------------
(* The requests, as the daemon handles them *)

(* A new session goes anywhere in the daemon's hash map, which may be      *)
(* rebuilt for it; a session removed leaves the others in their order.     *)
Reorder ==
    order' \in IF sessions' \subseteq sessions
               THEN {Keep(order, sessions')}
               ELSE Seqs!SetToSeqs(sessions')

Serve(i) ==
    \/ request.op = "kill" /\ Remove(i)
    \/ request.op = "rename" /\ \E n \in Names :
          /\ ~HasName(n)
          /\ name_index' = Reindex(name[i], n, i)
          /\ name' = [name EXCEPT ![i] = n]
          /\ UNCHANGED sessions
    \/ request.op \in {"send", "attach"} /\ UNCHANGED registryVars

AfterRequest(next) ==
    /\ request' = NoRequest
    /\ pc' = next
    /\ from_key' = TRUE
    /\ UNCHANGED <<appVars, drawn, toggled>>

RequestServed ==
    /\ pc = "request"
    /\ \/ request.op = "new" /\ UNCHANGED served
          /\ \E i \in Ids \ sessions : Insert(i, NoName)
       \/ /\ request.op # "new"
          /\ \E i \in sessions : Resolves(request.target, i) /\ Serve(i) /\ served' = i
    /\ Reorder
    /\ AfterRequest(IF request.op = "attach" THEN "attached" ELSE "sessions")

(* Refused, or lost with the daemon: `let _ =` drops the one and mostly    *)
(* the other.  When it is refused, cmd_attach ends the program.            *)
RequestUnserved ==
    /\ pc = "request"
    /\ UNCHANGED <<registryVars, order, served>>
    /\ AfterRequest(IF request.op = "attach" THEN "failed" ELSE "sessions")

(* The user detaches: back into the interface. *)
Detach ==
    /\ pc = "attached"
    /\ pc' = "sessions"
    /\ UNCHANGED <<registryVars, order, appVars, drawn, from_key, request, served,
                   toggled>>

(* An error passed on with `?`: no daemon could be started, or the one     *)
(* asked is gone.  (The terminal stays in raw mode.)                       *)
Fail ==
    /\ pc \in {"request", "attached"} \/ (pc \in {"sessions", "preview"} /\ from_key)
    /\ pc' = "failed"
    /\ request' = NoRequest
    /\ UNCHANGED <<registryVars, order, appVars, drawn, from_key, served, toggled>>

(* Mutant: the periodic refresh waits for the input line to be left. *)
TimeoutNormal ==
    /\ Key({"Normal"})
    /\ pc' = "sessions" /\ from_key' = FALSE
    /\ UNCHANGED <<registryVars, order, appVars, drawn, request, served, toggled>>

(* Half a second without a key, in any mode. *)
Timeout ==
    /\ pc = "poll"
    /\ pc' = "sessions" /\ from_key' = FALSE
    /\ UNCHANGED <<registryVars, order, appVars, drawn, request, served, toggled>>

(* refresh_sessions: the map's order, and whoever is attached by then. *)
Listed == IF SocketGiven THEN <<>> ELSE order

RefreshSessions ==
    /\ pc = "sessions"
    /\ list' = Listed
    /\ snagged' \in SUBSET (Snaggable \cap {Listed[k] : k \in DOMAIN Listed})
    /\ selected' = Clamped(Len(Listed))
    /\ served' = NoId
    /\ pc' = "preview"
    /\ UNCHANGED <<registryVars, order, input_mode, hide_snagged, previewVars,
                   drawn, from_key, request, toggled>>

AfterPreview ==
    /\ toggled' = FALSE
    /\ pc' = "draw"
    /\ UNCHANGED <<registryVars, order, list, snagged, selected, input_mode,
                   hide_snagged, drawn, from_key, request, served>>

(* The session whose output the daemon answers with when it is asked for   *)
(* that of i: the one that has i for a name, if there is one.              *)
Answers(i) == {j \in sessions : Resolves(i, j)}

(* Mutant: what cannot be shown any more is left on the screen. *)
RefreshPreviewKeeps ==
    /\ pc = "preview"
    /\ IF SelectedId = NoId
       THEN preview' = NoId /\ previewName' = NoName
       ELSE IF Answers(SelectedId) = {} THEN UNCHANGED previewVars
       ELSE \E j \in Answers(SelectedId) : preview' = j /\ previewName' = name[j]
    /\ AfterPreview

(* refresh_preview: empty without a selected session, or when it is gone. *)
RefreshPreview ==
    /\ pc = "preview"
    /\ IF SelectedId = NoId \/ Answers(SelectedId) = {}
       THEN preview' = NoId /\ previewName' = NoName
       ELSE \E j \in Answers(SelectedId) : preview' = j /\ previewName' = name[j]
    /\ AfterPreview

(* An error in the periodic refresh is dropped. *)
RefreshFails ==
    /\ ~from_key
    /\ \/ /\ pc = "sessions" /\ pc' = "preview"
          /\ UNCHANGED <<registryVars, order, appVars, drawn, from_key, request,
                         served, toggled>>
       \/ pc = "preview" /\ preview' = NoId /\ previewName' = NoName /\ AfterPreview

Draw ==
    /\ pc = "draw"
    /\ drawn' = Marked
    /\ pc' = "poll"
    /\ UNCHANGED <<registryVars, order, appVars, from_key, request, served, toggled>>

(* The daemon ends; the next to connect starts another. *)
Restart ==
    /\ sessions' = {}
    /\ name' = [i \in Ids |-> NoName]
    /\ name_index' = [n \in Names |-> NoId]

Others ==
    /\ RegistryNext \/ Restart
    /\ Reorder
    /\ UNCHANGED <<appVars, loopVars>>

Refresh == Timeout \/ RefreshSessions \/ RefreshPreview

TuiNext ==
    \/ PressKey \/ RequestServed \/ RequestUnserved \/ Detach \/ Fail
    \/ Refresh \/ RefreshFails \/ Draw \/ Others

TuiSpec == TuiInit /\ [][TuiNext]_tuiVars

(* The interface's own loop goes on; no key has to be pressed, nobody has  *)
(* to detach, and no error has to happen.                                  *)
TuiFairness ==
    /\ WF_tuiVars(Timeout) /\ WF_tuiVars(RefreshSessions)
    /\ WF_tuiVars(RefreshPreview) /\ WF_tuiVars(Draw)
    /\ WF_tuiVars(RequestServed \/ RequestUnserved)

FairTuiSpec == TuiSpec /\ TuiFairness

-----------------------------------------------------------------------------

(* A key acts on the session that was marked on the screen when it was     *)
(* read, whatever lists and positions have become meanwhile; or on one     *)
(* that somebody gave the marked session's id for a name.  (A key typed    *)
(* during a refresh is read after the screen has been drawn anew.)         *)
KeyHitsMarked ==
    [][served' \notin {served, NoId} =>
          served' \in drawn \/ name[served'] \in drawn]_tuiVars

(* While nothing is filtered, a list of sessions always has one of them    *)
(* marked, however many went since the last list: the keys that act on the *)
(* selected session are never dead.                                        *)
SomeoneMarked ==
    pc = "poll" /\ list # <<>> /\ ~hide_snagged => drawn # {}

(* The preview, drawn under the name of the session marked, is that        *)
(* session's, or empty, or the output of a session that had the marked     *)
(* one's id for a name when it was asked for; never what is left of an     *)
(* earlier selection.  (After `h` it may be, until the next refresh.)      *)
PreviewOfMarked ==
    pc = "poll" /\ ~toggled => preview = NoId \/ {preview, previewName} \cap drawn # {}

(* What is shown catches up: if from some time on nobody presses a key,    *)
(* nobody else changes the registry and no request fails, then the list    *)
(* comes to be the daemon's and the preview that of the session that the   *)
(* marked id designates, in the middle of an input too.  (With --socket it *)
(* does not: see SocketOverrides.)                                         *)
CaughtUp ==
    /\ list = order
    /\ pc = "poll" => IF drawn = {} THEN preview = NoId
                      ELSE \A i \in drawn : preview \in Answers(i)

CatchesUp ==
    <>[][Refresh \/ Draw]_tuiVars
        => <>[](pc \in {"attached", "quit", "failed"} \/ CaughtUp)

(* cli/mod.rs:13, of --socket: "Override the default socket path".  The    *)
(* list comes to be that of the daemon which the keys act on.              *)
SocketOverrides ==
    <>[][Refresh \/ Draw]_tuiVars
        => <>[](pc \in {"attached", "quit", "failed"} \/ list = order)

=============================================================================
