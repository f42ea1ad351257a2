----------------------------- MODULE AgentTools -----------------------------
(***************************************************************************)
(* The two hosts of the tools an agent calls, McpToolRegistry::Call in     *)
(* both.  The binary is started as one of them:                            *)
(*                                                                         *)
(* - "window": the chat panel of the editor.  A turn of the conversation   *)
(*   (ChatSession.cc) runs on a background queue, asks the language model, *)
(*   and reaches the open document only through blocks it dispatches to    *)
(*   the main queue and waits for (MainThreadBackend in ChatPanelView.mm,  *)
(*   McpLiveBackend.cc and its callbacks in main.mm), while the user edits *)
(*   and navigates on the main thread;                                     *)
(* - "server": --mcp-serve, an accept loop on a thread of its own          *)
(*   (HttpServer.cc, McpServer.cc) whose tools run the commands of Cli.cc  *)
(*   on the stored project (McpProjectBackend.cc), and a main thread that  *)
(*   waits for a signal and stops it.  It holds the session lock, so the   *)
(*   tools are alone on the project.                                       *)
(*                                                                         *)
(* A timeline is the set of markers on it and an edit adds or removes one; *)
(* what the other tools do to a document is the matter of Operations.      *)
(***************************************************************************)
EXTENDS Integers, Sequences, SequencesExt, FiniteSets

CONSTANTS
    Hosts,          \* the ways the binary is started, among "window", "server"
    Timelines,      \* the identifiers a timeline may have
    FirstTimelines, \* the timelines of the project when it is opened
    None,           \* no timeline named
    Strict,         \* CMRequireExplicitTimeline of the preferences
    MaxIterations,  \* kMaxToolIterations
    Requests,       \* sequences of tool uses one answer of the model asks for
    MaxTurns,       \* bound: messages sent in the panel, clients of the server
    MaxUserSteps,   \* bound: edits, navigations and settings of the user
    MaxFaults       \* bound: commits to the disk that fail

\* A use of a tool: the tool, and the timeline it names.
ToolUse == [tool : {"add", "remove", "undo", "redo", "create", "read", "unknown"},
        timeline : Timelines \cup {None}]

ASSUME RequestsAssumption == Requests \subseteq Seq(ToolUse)
ASSUME BoundsAssumption ==
    /\ MaxIterations \in Nat \ {0}
    /\ MaxTurns \in Nat /\ MaxUserSteps \in Nat /\ MaxFaults \in Nat
ASSUME NoneAssumption == None \notin Timelines
ASSUME FirstAssumption == FirstTimelines \subseteq Timelines /\ FirstTimelines # {}

VARIABLES
    host,       \* which of the hosts this process is
    stored,     \* the project committed to the disk: timeline -> [marks, log]
    active,     \* state->activeTimelineId
    open,       \* state->document and state->editLog: [marks, log]
    queue,      \* blocks of the main dispatch queue
    inFlight,   \* _turnInFlight of the panel
    session,    \* which ChatSession _session points to
    shown,      \* the sessions of the entries the panel shows
    messages,   \* messages_ of the session: whose, and for how many tools
    turn,       \* the thread that runs the tools: see Idle
    landing,    \* history: the edit that has just been saved, see Saved
    server,     \* running_, listen_fd_ and the accept thread
    budget      \* what is left of the bounds, and the next marker

vars == <<host, stored, active, open, queue, inFlight, session, shown,
          messages, turn, landing, server, budget>>
documents == <<stored, active, open>>
panel == <<inFlight, session, shown>>

-----------------------------------------------------------------------------
\* Documents and their journals.

\* A timeline's journal: the operations applied and the ones undone.
EmptyLog == [applied |-> <<>>, undone |-> <<>>]

\* ApplyOperation of an edit: adding a marker, or removing one that exists.
ApplyEdit(marks, op) ==
    IF op.kind = "add" THEN marks \cup {op.mark} ELSE marks \ {op.mark}

\* The operation that takes it back.
InverseEdit(op) ==
    [op EXCEPT !.kind = IF op.kind = "add" THEN "remove" ELSE "add"]

\* EditLog::Apply
Applied(d, op) ==
    [marks |-> ApplyEdit(d.marks, op),
     log |-> [applied |-> Append(d.log.applied, op), undone |-> <<>>]]

\* EditLog::Undo
Undone(d) ==
    [marks |-> ApplyEdit(d.marks, InverseEdit(Last(d.log.applied))),
     log |-> [applied |-> Front(d.log.applied),
              undone |-> Append(d.log.undone, Last(d.log.applied))]]

\* EditLog::Redo
Redone(d) ==
    [marks |-> ApplyEdit(d.marks, Last(d.log.undone)),
     log |-> [applied |-> Append(d.log.applied, Last(d.log.undone)),
              undone |-> Front(d.log.undone)]]

\* A tool that edits a timeline: what it makes of a document d when it built
\* its operation from the snapshot it took of it before; the empty set when
\* the tool or the journal refuses.  A removal names a marker of the snapshot.
Edited(tool, d, snapshot, mark) ==
    CASE tool = "add"    -> {Applied(d, [kind |-> "add", mark |-> mark])}
      [] tool = "remove" -> {Applied(d, [kind |-> "remove", mark |-> m]) :
                                 m \in snapshot \cap d.marks}
      [] tool = "undo"   -> IF d.log.applied = <<>> THEN {} ELSE {Undone(d)}
      [] tool = "redo"   -> IF d.log.undone = <<>> THEN {} ELSE {Redone(d)}
      [] OTHER           -> {}

\* IsTimelineEditingTool
Editing(use) == use.tool \in {"add", "remove", "undo", "redo", "create"}

\* A commit to the disk: it succeeds, or it fails while the budget allows.
Commits == {TRUE} \cup (IF budget.faults > 0 THEN {FALSE} ELSE {})

\* The budget after commits of which some failed.
Spent(oks) ==
    [budget EXCEPT !.faults = IF FALSE \in oks THEN @ - 1 ELSE @]

-----------------------------------------------------------------------------
\* The main thread of the window.

\* persistEdits: the project takes the open document and its journal.
Persisted == [stored EXCEPT ![active] = open]

\* activateTimelineIdentifier: the open document is persisted first, and the
\* window stays where it is when that fails.
Activate(id, project, ok) ==
    IF id = active \/ ~ok
    THEN UNCHANGED <<active, open>>
    ELSE active' = id /\ open' = project[id]

\* A timeline chosen in the list of the project.
Navigate(id) ==
    /\ host = "window"
    /\ budget.user > 0
    /\ id \in DOMAIN stored \ {active}
    /\ \E ok \in Commits :
        /\ stored' = IF ok THEN Persisted ELSE stored
        /\ Activate(id, stored, ok)
        /\ budget' = [Spent({ok}) EXCEPT !.user = @ - 1]
    /\ UNCHANGED <<host, queue, panel, messages, turn, landing, server>>

\* An edit of the user: applyAndPersistTimelineOperation works on copies, and
\* keeps them only when the commit succeeds.
UserEdit(tool) ==
    /\ host = "window"
    /\ budget.user > 0
    /\ \E ok \in Commits : \E d \in Edited(tool, open, open.marks, budget.mark) :
        /\ open' = IF ok THEN d ELSE open
        /\ stored' = IF ok THEN [stored EXCEPT ![active] = d] ELSE stored
        /\ budget' = [Spent({ok}) EXCEPT !.user = @ - 1, !.mark = @ + 1]
    /\ UNCHANGED <<host, active, queue, panel, messages, turn, landing, server>>

\* Mutant: the settings may be changed during a turn.
ConfigureAnytime == TRUE

\* The test at the head of showConfigurationWindow.
MayConfigure == ~inFlight

\* showConfigurationWindow: refused during a turn, it replaces the session and
\* empties the panel.
Configure ==
    /\ host = "window"
    /\ MayConfigure
    /\ budget.user > 0
    /\ session' = session + 1
    /\ shown' = {}
    /\ messages' = <<>>
    /\ budget' = [budget EXCEPT !.user = @ - 1]
    /\ UNCHANGED <<host, documents, queue, inFlight, turn, landing, server>>

\* What the thread of the tools keeps: its step and whether it waits for a
\* block of the main queue, the session it runs, the rounds done, the tools
\* still to run, their results, and the markers of the snapshot.
Idle == [pc |-> "idle", waits |-> FALSE, session |-> 0, round |-> 0,
         uses |-> <<>>, results |-> <<>>, snapshot |-> {}]

\* sendPressed: one turn at a time, run on a background queue.
Send ==
    /\ host = "window"
    /\ ~inFlight
    /\ budget.turns > 0
    /\ inFlight' = TRUE
    /\ turn' = [Idle EXCEPT !.pc = "start", !.session = session]
    /\ budget' = [budget EXCEPT !.turns = @ - 1]
    /\ UNCHANGED <<host, documents, queue, session, shown, messages, landing, server>>

\* A block a turn dispatches to the main queue: an entry of the transcript, a
\* call of the backend, or the end of the turn.
Block(kind) == [kind |-> kind, session |-> turn.session]

\* A block the background queue left without waiting for it: an entry of the
\* transcript, or the end of the turn.
RunAsync ==
    /\ queue # <<>>
    /\ Head(queue).kind # "call"
    /\ queue' = Tail(queue)
    /\ IF Head(queue).kind = "end"
       THEN inFlight' = FALSE /\ shown' = shown
       ELSE inFlight' = inFlight /\ shown' = shown \cup {Head(queue).session}
    /\ UNCHANGED <<host, documents, session, messages, turn, landing, server, budget>>

\* The main thread has reached the block the tool waits for at its step pc.
Calling(pc) ==
    /\ queue # <<>>
    /\ Head(queue).kind = "call"
    /\ turn.pc = pc
    /\ queue' = Tail(queue)

\* The block is over: the thread goes on, with a result when it has one.
Resume(pc) == [turn EXCEPT !.pc = pc, !.waits = FALSE]
Result(r) == [Resume("result") EXCEPT !.results = Append(@, r)]

\* The edit that has just been saved: the timeline named and the one changed.
NoEdit == [named |-> None, landed |-> None]
Saved(use, t, ok) == IF ok THEN [named |-> use.timeline, landed |-> t] ELSE NoEdit

\* SelectTimelineForEdit of the panel's backend, which keeps the default of
\* McpBackend: the timeline named must be the one that is open.
RunSelect ==
    /\ Calling("select")
    /\ turn' = IF Head(turn.uses).timeline = active
               THEN Resume("snapshot") ELSE Result("error")
    /\ UNCHANGED <<host, documents, panel, messages, landing, server, budget>>

\* SnapshotDocument: the copy of the document the tool builds its operation on.
RunSnapshot ==
    /\ Calling("snapshot")
    /\ turn' = [Resume("dispatch") EXCEPT !.snapshot = open.marks]
    /\ UNCHANGED <<host, documents, panel, messages, landing, server, budget>>

\* A tool that reads.
RunRead ==
    /\ Calling("dispatch")
    /\ ~Editing(Head(turn.uses))
    /\ turn' = Result("ok")
    /\ UNCHANGED <<host, documents, panel, messages, landing, server, budget>>

\* Mutant: the journal is kept.
RestoredMarks(d) == [d EXCEPT !.marks = stored[active].marks]

\* The callback of an edit whose commit failed: the document and the journal of
\* the last generation are brought back.
Restored(d) == stored[active]

\* ApplyOperation, Undo and Redo of McpLiveBackend: the journal changes the
\* open document, then the callback persists it, and restores the document
\* and the journal from the last generation when the commit fails.  The tool
\* is answered ok either way.
RunEdit ==
    LET use == Head(turn.uses)
        edits == Edited(use.tool, open, turn.snapshot, budget.mark)
    IN  /\ Calling("dispatch")
        /\ Editing(use) /\ use.tool # "create"
        /\ \/ /\ edits = {}
              /\ turn' = Result("error")
              /\ UNCHANGED <<documents, landing, budget>>
           \/ \E d \in edits : \E ok \in Commits :
              /\ open' = IF ok THEN d ELSE Restored(d)
              /\ stored' = IF ok THEN [stored EXCEPT ![active] = d] ELSE stored
              /\ turn' = Result("ok")
              /\ landing' = Saved(use, active, ok)
              /\ budget' = [Spent({ok}) EXCEPT !.mark = @ + 1]
              /\ UNCHANGED active
        /\ UNCHANGED <<host, panel, messages, server>>

\* ApplyProjectEdit of the window: the open document is persisted, the project
\* with its new timeline is committed, and that timeline is activated, which
\* persists the document again.  Each of the three may fail, and the project
\* may refuse the operation.
RunCreate ==
    /\ Calling("dispatch")
    /\ Head(turn.uses).tool = "create"
    /\ \E failed \in {"refused"} \cup (IF DOMAIN stored = Timelines THEN {} ELSE {"none"})
                     \cup IF budget.faults = 0 \/ DOMAIN stored = Timelines THEN {}
                          ELSE {"persist", "commit", "activate"} :
       \E id \in IF failed = "refused" THEN {None} ELSE Timelines \ DOMAIN stored :
        LET made == [t \in DOMAIN stored \cup {id} |->
                        IF t = id THEN [marks |-> {}, log |-> EmptyLog] ELSE Persisted[t]]
            created == failed \in {"none", "activate"}
        IN  /\ stored' = CASE failed = "persist" -> stored
                           [] created -> made
                           [] OTHER -> Persisted
            /\ IF created THEN Activate(id, made, failed = "none")
                          ELSE UNCHANGED <<active, open>>
            /\ turn' = Result(IF failed = "none" THEN "ok" ELSE "error")
            /\ budget' = Spent({failed \in {"none", "refused"}})
    /\ UNCHANGED <<host, panel, messages, landing, server>>

RunCall == RunSelect \/ RunSnapshot \/ RunRead \/ RunEdit \/ RunCreate

-----------------------------------------------------------------------------
\* The turn of the conversation, on the background queue of the window.

\* SubmitUserMessage
SubmitUserMessage ==
    /\ turn.pc = "start"
    /\ queue' = Append(queue, Block("entry"))
    /\ messages' = Append(messages, [role |-> "user", tools |-> 0])
    /\ turn' = [turn EXCEPT !.pc = "send"]
    /\ UNCHANGED <<host, documents, panel, landing, server, budget>>

\* Mutant: a failed request leaves the turn without its last block.
SendFailsSilently ==
    /\ turn.pc = "send"
    /\ queue' = Append(queue, Block("entry"))
    /\ turn' = Idle
    /\ UNCHANGED <<host, documents, panel, messages, landing, server, budget>>

\* The request to the model fails: transport, status or malformed answer.
SendFails ==
    /\ turn.pc = "send"
    /\ queue' = Append(queue, Block("entry"))
    /\ turn' = [turn EXCEPT !.pc = "end"]
    /\ UNCHANGED <<host, documents, panel, messages, landing, server, budget>>

\* The model answers with the tools it wants to use; with none, the turn ends.
Reply(uses) ==
    /\ turn.pc = "send"
    /\ messages' = Append(messages, [role |-> "assistant", tools |-> Len(uses)])
    /\ turn' = [turn EXCEPT !.pc = IF uses = <<>> THEN "end" ELSE "call",
                            !.uses = uses, !.results = <<>>]
    /\ queue' = Append(queue, Block("entry"))
    /\ UNCHANGED <<host, documents, panel, landing, server, budget>>

\* The next tool: its entry is shown, and McpToolRegistry::Call starts.  A tool
\* that does not exist is refused there.  A timeline is selected when one is
\* named; the default of McpBackend accepts an edit that names none, whatever
\* the preference.
CallTool ==
    LET use == Head(turn.uses)
    IN  /\ turn.pc = "call"
        /\ turn' = CASE use.tool = "unknown" -> Result("error")
                     [] Editing(use) /\ use.timeline # None -> Resume("select")
                     [] OTHER -> Resume("snapshot")
        /\ queue' = Append(queue, Block("entry"))
        /\ UNCHANGED <<host, documents, panel, messages, landing, server, budget>>

\* dispatch_sync: a call of the backend becomes a block of the main queue, and
\* the thread waits for it.
DispatchSync ==
    /\ host = "window"
    /\ turn.pc \in {"select", "snapshot", "dispatch"}
    /\ ~turn.waits
    /\ queue' = Append(queue, Block("call"))
    /\ turn' = [turn EXCEPT !.waits = TRUE]
    /\ UNCHANGED <<host, documents, panel, messages, landing, server, budget>>

\* Mutant: the results of the last round are dropped when the turn is cut.
RepliedUnlessCut(rest, ends) ==
    IF rest # <<>> \/ ends THEN messages
    ELSE Append(messages, [role |-> "results", tools |-> Len(turn.results)])

\* The results go back to the model together, once the last tool has run.
Replied(rest, ends) ==
    IF rest # <<>> THEN messages
    ELSE Append(messages, [role |-> "results", tools |-> Len(turn.results)])

\* The result of a tool is shown.  After the last one the model is asked again,
\* unless the rounds are used up.
ToolResult ==
    LET rest == Tail(turn.uses)
        round == turn.round + 1
        ends == rest = <<>> /\ round = MaxIterations
    IN  /\ turn.pc = "result"
        /\ turn' = [turn EXCEPT !.uses = rest, !.snapshot = {},
                                !.results = IF rest = <<>> THEN <<>> ELSE @,
                                !.round = IF rest = <<>> THEN round ELSE @,
                                !.pc = CASE rest # <<>> -> "call"
                                         [] ends -> "end"
                                         [] OTHER -> "send"]
        /\ messages' = Replied(rest, ends)
        /\ queue' = queue \o <<Block("entry")>>
                          \o (IF ends THEN <<Block("entry")>> ELSE <<>>)
        /\ landing' = NoEdit
        /\ UNCHANGED <<host, documents, panel, server, budget>>

\* The turn is over: the block that lets the next one start is dispatched.
EndTurn ==
    /\ turn.pc = "end"
    /\ queue' = Append(queue, Block("end"))
    /\ turn' = Idle
    /\ UNCHANGED <<host, documents, panel, messages, landing, server, budget>>

-----------------------------------------------------------------------------
\* The server.  Its state: running_, whether the listening socket is open, the
\* step of the accept thread, and what its client has done: nothing yet, sent a
\* whole request, or closed the connection.

\* A client connects and the loop accepts it.
Accept ==
    /\ host = "server"
    /\ server.pc = "accept"
    /\ server.listening
    /\ budget.turns > 0
    /\ server' = [server EXCEPT !.pc = "read", !.client = "silent"]
    /\ landing' = NoEdit
    /\ budget' = [budget EXCEPT !.turns = @ - 1]
    /\ UNCHANGED <<host, documents, queue, panel, messages, turn>>

\* accept fails once the socket is closed, and the loop ends.
AcceptEnds ==
    /\ host = "server"
    /\ server.pc = "accept"
    /\ ~server.listening
    /\ server' = [server EXCEPT !.pc = "done"]
    /\ UNCHANGED <<host, documents, queue, panel, messages, turn, landing, budget>>

\* The client sends its request, or gives up.
ClientActs(does) ==
    /\ host = "server"
    /\ server.client = "silent"
    /\ server' = [server EXCEPT !.client = does]
    /\ UNCHANGED <<host, documents, queue, panel, messages, turn, landing, budget>>

\* The loop closes the connection and accepts the next, unless it is stopped.
Closed == [server EXCEPT !.pc = IF server.running THEN "accept" ELSE "done",
                         !.client = "none"]

\* A request that never reaches a tool: the client closed in the middle of it,
\* or it is malformed, too large, for another path or method, a notification,
\* or a method other than tools/call.  It is answered and nothing changes.
RequestRefused ==
    /\ server.pc = "read"
    /\ server.client \in {"closed", "other"}
    /\ server' = Closed
    /\ UNCHANGED <<host, documents, queue, panel, messages, turn, landing, budget>>

\* SelectTimelineForEdit of McpProjectBackend: the timeline of the call, the
\* active one of the project when none is named and the preference allows it.
Selected(use) ==
    IF use.timeline = None
    THEN IF Strict THEN {} ELSE {active}
    ELSE {use.timeline} \cap DOMAIN stored

\* tools/call of an edit: the project is loaded, the timeline selected, and the
\* command applies the operation to it and commits.
ToolsCall(use) ==
    /\ server.pc = "read"
    /\ server.client = "sent"
    /\ Editing(use) /\ use.tool # "create"
    /\ \/ /\ \A id \in Selected(use) :
             Edited(use.tool, stored[id], stored[id].marks, budget.mark) = {}
          /\ UNCHANGED <<stored, landing, budget>>
       \/ \E id \in Selected(use) : \E ok \in Commits :
          \E d \in Edited(use.tool, stored[id], stored[id].marks, budget.mark) :
          /\ stored' = IF ok THEN [stored EXCEPT ![id] = d] ELSE stored
          /\ landing' = Saved(use, id, ok)
          /\ budget' = [Spent({ok}) EXCEPT !.mark = @ + 1]
    /\ server' = Closed
    /\ UNCHANGED <<host, active, open, queue, panel, messages, turn>>

\* A signal ends the loop of the main thread, which calls Stop: running_ first.
StopFlag ==
    /\ host = "server"
    /\ server.running
    /\ server' = [server EXCEPT !.running = FALSE]
    /\ UNCHANGED <<host, documents, queue, panel, messages, turn, landing, budget>>

\* Mutant: the listening socket stays open.
StopSocketForgotten == FALSE

\* Then the listening socket; the accept thread is joined.
StopSocket ==
    /\ host = "server"
    /\ ~server.running /\ server.listening
    /\ server' = [server EXCEPT !.listening = FALSE]
    /\ UNCHANGED <<host, documents, queue, panel, messages, turn, landing, budget>>

-----------------------------------------------------------------------------
\* The specification.

Init ==
    /\ host \in Hosts
    /\ stored = [t \in FirstTimelines |-> [marks |-> {}, log |-> EmptyLog]]
    /\ active \in FirstTimelines
    /\ open = [marks |-> {}, log |-> EmptyLog]
    /\ queue = <<>>
    /\ inFlight = FALSE
    /\ session = 1
    /\ shown = {}
    /\ messages = <<>>
    /\ turn = Idle
    /\ landing = NoEdit
    /\ server = [running |-> host = "server", listening |-> host = "server",
                 pc |-> "accept", client |-> "none"]
    /\ budget = [turns |-> MaxTurns, user |-> MaxUserSteps, faults |-> MaxFaults,
                 mark |-> 1]

\* The thread of the tools: it runs the turn until it is over.
Turn ==
    \/ SubmitUserMessage \/ SendFails \/ \E uses \in Requests : Reply(uses)
    \/ CallTool \/ DispatchSync \/ ToolResult \/ EndTurn

\* The main queue of the window.
MainQueue == RunAsync \/ RunCall

\* What the user does on the main thread, between two blocks.
User ==
    \/ \E id \in Timelines : Navigate(id)
    \/ \E tool \in {"add", "undo"} : UserEdit(tool)
    \/ Configure
    \/ Send

\* The uses a client of the server may ask for: the ones of the model.
Uses == UNION {ToSet(uses) : uses \in Requests}

\* The accept thread.
AcceptLoop ==
    AcceptEnds \/ RequestRefused \/ \E use \in Uses : ToolsCall(use)

Clients == Accept \/ \E does \in {"sent", "other", "closed"} : ClientActs(does)

Next == Turn \/ MainQueue \/ User \/ AcceptLoop \/ Clients \/ StopFlag \/ StopSocket

\* The scheduler runs a thread that can run, and the main thread takes the next
\* block of its queue; a request to the model ends, if only by its timeout of
\* 120 seconds.  Nothing makes a client send, or a user act.
Fairness ==
    /\ WF_vars(Turn)
    /\ WF_vars(MainQueue)
    /\ WF_vars(AcceptLoop)
    /\ WF_vars(StopSocket)

Spec == Init /\ [][Next]_vars /\ Fairness

-----------------------------------------------------------------------------
\* Properties.

\* The markers a journal leaves when it is applied from the beginning: those
\* whose last operation adds them.
Replayed(applied) ==
    {applied[i].mark : i \in {i \in DOMAIN applied :
        /\ applied[i].kind = "add"
        /\ \A j \in i + 1..Len(applied) : applied[j].mark # applied[i].mark}}

\* The window never holds an edit the project has not: between two blocks of
\* the main thread the open document and its journal are the committed ones,
\* and the journal, applied from the beginning, gives the document, whoever
\* edited it and whichever commits failed.
NothingUnsaved ==
    /\ host = "window" => open = stored[active]
    /\ \A t \in DOMAIN stored :
        stored[t].marks = Replayed(stored[t].log.applied)

\* When the model is asked, every tool it asked for has been answered, in the
\* message that follows and before anything else is said.
EveryToolAnswered ==
    turn.pc = "send" =>
        \A i \in DOMAIN messages :
            messages[i].role = "assistant" /\ messages[i].tools > 0 =>
                /\ i < Len(messages)
                /\ messages[i + 1] = [messages[i] EXCEPT !.role = "results"]

\* The panel shows the entries of its session only, and a turn runs the session
\* the panel holds: a change of the settings never frees the session under a
\* running turn, nor shows the end of a conversation that is gone.
PanelShowsItsSession ==
    /\ shown \subseteq {session}
    /\ turn.pc # "idle" => turn.session = session

\* Every turn ends and lets the next one start: the thread and the main queue
\* never wait for each other, and a model that never stops asking is cut.
TurnEnds == inFlight ~> ~inFlight

\* A signal stops the server, unless a client holds its connection in silence:
\* nothing bounds the time of a read.
ServerStops ==
    (host = "server" /\ ~server.running) ~> (server.pc = "done" \/ server.client = "silent")

\* With the preference set, an edit an agent makes names the timeline it
\* changes, in the window as over MCP.
EditsNameTheirTimeline == Strict => landing.named = landing.landed
=============================================================================
