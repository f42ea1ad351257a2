--------------------------- MODULE ProjectHistory ---------------------------
(***************************************************************************)
(* A project, the journals that undo and redo it, and what is durable of   *)
(* both: the application (AppState and its handlers, main.mm), the         *)
(* one-shot commands (Cli.cc), the journals (EditLog.cc), the project      *)
(* operations (Operations.cc), the autosave (ProjectRecovery.cc) and what  *)
(* a save stores (ProjectStorage.cc).                                      *)
(*                                                                         *)
(* There are two kinds of journal.  An EditLog per timeline holds timeline *)
(* operations, most with the exact tracks before and after them, the rest  *)
(* with a compact inverse.  The ProjectEditLog holds project operations,   *)
(* each with the whole project before and after it.                        *)
(*                                                                         *)
(* Every value a user gives (an edit, a name, an imported rush, a place in *)
(* a bin) is a fresh token.  A timeline has one track, and its contents    *)
(* are the edits made to it.  A save is one step with the outcomes that    *)
(* AtomicGeneration allows: the whole generation is stored, or nothing is. *)
(***************************************************************************)
EXTENDS Naturals, Sequences

CONSTANTS
  Timeline,   \* ULIDs of timelines
  Initial,    \* the timelines of the package as it was created
  Token,      \* values that operations bring in, each used once
  None,
  Commands,   \* when commands run: a subset of {"closed", "open"}
  MaxHistory, \* bound: entries that commands let a project journal grow to
  MaxFaults   \* bound: saves that fail or are interrupted, or leave their autosave

ASSUME HistoryConstants ==
  /\ Initial \subseteq Timeline /\ Initial # {}
  /\ Commands \subseteq {"closed", "open"}
  /\ MaxHistory \in Nat /\ MaxFaults \in Nat
  /\ None \notin Timeline \cup Token
  /\ Timeline \cap Token = {}

VARIABLES
  disk,       \* the durable generation: project, logs, plog
  autosave,   \* the recovery envelope beside the project, or None
  state,      \* AppState of the running application, or Closed
  outcome,    \* what the last save of the application returned
  used,       \* tokens and timelines that were brought in
  faults

vars == <<disk, autosave, state, outcome, used, faults>>

Closed == None

-----------------------------------------------------------------------------
(* Project (Project.cc): its timelines, and the library and the places in  *)
(* the bins that they share.                                               *)

Sequence    == [edits : SUBSET Token, name : Token \cup {None}]
NewSequence == [edits |-> {}, name |-> None]

Project ==
  [timelines : SUBSET Timeline, active : Timeline,
   sequence : [Timeline -> Sequence],
   library : SUBSET Token, placement : Token \cup {None}]

MakeDocument(p, t) == [sequence |-> p.sequence[t], library |-> p.library]

CommitDocument(p, t, document) ==
  [p EXCEPT !.sequence[t] = document.sequence, !.library = document.library]

(* Journals, newest entry first.                                           *)

EmptyLog == [applied |-> <<>>, undone |-> <<>>]

\* Mutant: a new entry leaves what was undone before it to be redone.
ApplyKeepingUndone(log, entry) ==
  [log EXCEPT !.applied = <<entry>> \o @]

Apply(log, entry) == [applied |-> <<entry>> \o log.applied, undone |-> <<>>]

Undo(log) == [applied |-> Tail(log.applied),
              undone  |-> <<Head(log.applied)>> \o log.undone]

Redo(log) == [applied |-> <<Head(log.undone)>> \o log.applied,
              undone  |-> Tail(log.undone)]

(* Timeline operations: an exact one writes the tracks it recorded, a      *)
(* compact one is refused when it does not find what it is about.          *)

TimelineEntry(edits, x, exact) ==
  [edit |-> x, exact |-> exact, before |-> edits, after |-> edits \cup {x}]

Undoable(log, edits) ==
  /\ log.applied # <<>>
  /\ Head(log.applied).exact \/ Head(log.applied).edit \in edits

UndoneEdits(log, edits) ==
  LET entry == Head(log.applied)
  IN  IF entry.exact THEN entry.before ELSE edits \ {entry.edit}

Redoable(log, edits) ==
  /\ log.undone # <<>>
  /\ Head(log.undone).exact \/ Head(log.undone).edit \notin edits

RedoneEdits(log, edits) ==
  LET entry == Head(log.undone)
  IN  IF entry.exact THEN entry.after ELSE edits \cup {entry.edit}

(* Project operations.                                                     *)

ProjectEntry(kind, before, after) ==
  [kind |-> kind, before |-> before, after |-> after]

Rename(p, t, x)   == [p EXCEPT !.sequence[t].name = x]
SetBin(p, x)      == [p EXCEPT !.placement = x]
Relink(p, x)      == [p EXCEPT !.library = @ \cup {x}]
SetActive(p, t)   == [p EXCEPT !.active = t]
AddTimeline(p, t) == [p EXCEPT !.timelines = @ \cup {t}]

RemoveTimeline(p, t, front) ==
  [p EXCEPT !.timelines = @ \ {t}, !.sequence[t] = NewSequence,
            !.active = IF @ = t THEN front ELSE @]

-----------------------------------------------------------------------------
(* What a save stores: the journals it is given, the ones it is not given  *)
(* as they are, a new one for a new timeline, none for a removed one.      *)

\* Mutant: only the journals of the write set are stored.
StoreGivenLogs(old, envelope) == envelope

Stored(old, envelope) ==
  [envelope EXCEPT !.logs =
     [t \in envelope.project.timelines |->
        IF t \in DOMAIN envelope.logs THEN envelope.logs[t]
        ELSE IF t \in DOMAIN old.logs THEN old.logs[t]
        ELSE EmptyLog]]

\* "base" is the durable generation at the time (a history field); "newer"
\* compares the modification times of the autosave and of the project.
Autosave(envelope, newer) ==
  [envelope |-> envelope, newer |-> newer, base |-> disk]

Fault == faults < MaxFaults /\ faults' = faults + 1

ValidateTimelineLogs(envelope) ==
  DOMAIN envelope.logs = envelope.project.timelines

\* commitProjectCandidate: write the autosave, commit, discard the autosave.
Save(envelope) ==
  \/ /\ ~ValidateTimelineLogs(envelope)
     /\ outcome' = "refused"
     /\ UNCHANGED <<disk, autosave, faults>>
  \/ /\ ValidateTimelineLogs(envelope)
     /\ outcome' = "saved"
     /\ disk' = Stored(disk, envelope)
     /\ \/ autosave' = None /\ UNCHANGED faults
        \/ autosave' = Autosave(envelope, FALSE) /\ Fault
  \/ /\ ValidateTimelineLogs(envelope)
     /\ outcome' = "failed"
     /\ autosave' \in {autosave, Autosave(envelope, TRUE)}
     /\ UNCHANGED disk
     /\ Fault
  \/ /\ ValidateTimelineLogs(envelope)
     /\ outcome' = "stopped"
     /\ \/ /\ autosave' \in {autosave, Autosave(envelope, TRUE)}
           /\ UNCHANGED disk
        \/ /\ autosave' \in {None, Autosave(envelope, FALSE)}
           /\ disk' = Stored(disk, envelope)
     /\ Fault

-----------------------------------------------------------------------------
(* The application.  A handler stages its change, saves it and publishes   *)
(* it only when the save succeeded.                                        *)

With(logs, t, log) ==
  [u \in DOMAIN logs \cup {t} |-> IF u = t THEN log ELSE logs[u]]

\* What commitProjectCandidate saves: every journal of the session.
Candidate(p, log, plog, rewound) ==
  [project |-> p, logs |-> With(state.logs, state.active, log),
   plog |-> plog, rewound |-> rewound]

\* Save, then publish "next", give the change up, or be gone.
Commit(envelope, next) ==
  /\ Save(envelope)
  /\ state' = CASE outcome' = "saved"   -> next
                [] outcome' = "stopped" -> Closed
                [] OTHER                -> [state EXCEPT !.pending = None]

\* persistStagedDocument: the session after it, and the save that leads on to
\* "next".
Staged(document, log) ==
  [state EXCEPT !.project = CommitDocument(@, state.active, document),
                !.logs = With(@, state.active, log)]

PersistStagedDocument(document, log, next) ==
  Commit(Candidate(CommitDocument(state.project, state.active, document), log,
                   state.plog, state.rewound),
         next)

\* persistEdits, once the handler has put "document" into the session.
PersistEdits(document) ==
  PersistStagedDocument(document, state.log,
    [Staged(document, state.log) EXCEPT !.document = document,
                                        !.domain = "Timeline"])

\* applyAndPersistTimelineOperation, menuUndo and menuRedo on a timeline.
PersistEdit(edits, log) ==
  LET document == [state.document EXCEPT !.sequence.edits = edits]
  IN  PersistStagedDocument(document, log,
        [Staged(document, log) EXCEPT !.document = document, !.log = log,
                                      !.domain = "Timeline"])

Fresh(x) == x \notin used /\ used' = used \cup {x}

Idle == state # Closed /\ state.pending = None

EditTimeline(x, exact) ==
  /\ Idle
  /\ Fresh(x)
  /\ LET edits == state.document.sequence.edits
     IN  PersistEdit(edits \cup {x},
                     Apply(state.log, TimelineEntry(edits, x, exact)))

\* Imported rushes and finished proxies enter the document without an
\* operation; persistEdits saves it.
ImportMedia(x) ==
  /\ Idle
  /\ Fresh(x)
  /\ PersistEdits([state.document EXCEPT !.library = @ \cup {x}])

SaveProjectPressed == Idle /\ PersistEdits(state.document) /\ UNCHANGED used

\* activateTimelineIdentifier: saves, then shows timeline t; the history that
\* Cmd+Z goes to stays what it was.
ActivateTimeline(t) ==
  /\ state # Closed /\ state.pending \in {None, t}
  /\ t \in state.project.timelines /\ t # state.active
  /\ LET saved == Staged(state.document, state.log)
         log   == IF t \in DOMAIN state.logs THEN state.logs[t] ELSE EmptyLog
     IN  PersistStagedDocument(state.document, state.log,
           [saved EXCEPT !.active = t, !.log = log, !.logs = With(@, t, log),
                         !.document = MakeDocument(saved.project, t),
                         !.pending = None])
  /\ UNCHANGED used

\* A project operation of the application; "document" is the one it shows
\* when the operation is saved.
ChangeProject(kind, p, document) ==
  LET plog == Apply(state.plog, ProjectEntry(kind, state.project, p))
  IN  Commit(Candidate(p, state.log, plog, state.rewound),
             [state EXCEPT !.project = p, !.plog = plog,
                           !.document = document, !.domain = "Project"])

\* Mutant: the document keeps the name the active timeline had.
RenameBehindDocument(t, x) ==
  /\ Idle
  /\ t \in state.project.timelines
  /\ Fresh(x)
  /\ ChangeProject("rename", Rename(state.project, t, x), state.document)

RenameItem(t, x) ==
  /\ Idle
  /\ t \in state.project.timelines
  /\ Fresh(x)
  /\ LET p == Rename(state.project, t, x)
     IN  ChangeProject("rename", p, IF t = state.active THEN MakeDocument(p, t)
                                    ELSE state.document)

MoveTimelineToBin(x) ==
  /\ Idle
  /\ Fresh(x)
  /\ ChangeProject("bin", SetBin(state.project, x), state.document)

RelinkMedia(x) ==
  /\ Idle
  /\ Fresh(x)
  /\ LET p == Relink(state.project, x)
     IN  ChangeProject("relink", p, MakeDocument(p, state.active))

\* createTimelinePressed: persistEdits comes first, ...
CreateTimelinePressed(t) ==
  /\ Idle
  /\ Fresh(t)
  /\ PersistStagedDocument(state.document, state.log,
       [Staged(state.document, state.log) EXCEPT !.domain = "Timeline",
                                                 !.pending = t])

\* ... then the new timeline is saved; ActivateTimeline follows.
AddPendingTimeline ==
  /\ state # Closed /\ state.pending \in Timeline \ state.project.timelines
  /\ ChangeProject("add", AddTimeline(state.project, state.pending),
                   state.document)
  /\ UNCHANGED used

\* createTimelineFromSelectedMedia saves the new timeline at once.
CreateTimelineFromSelectedMedia(t, x) ==
  /\ Idle
  /\ t \notin state.project.timelines
  /\ t \notin used /\ x \notin used /\ used' = used \cup {t, x}
  /\ LET p == [AddTimeline(state.project, t) EXCEPT !.sequence[t].edits = {x}]
         plog == Apply(state.plog, ProjectEntry("add", state.project, p))
     IN  Commit(Candidate(p, state.log, plog, state.rewound),
                [state EXCEPT !.project = p, !.plog = plog,
                              !.domain = "Project", !.pending = t])

(* Cmd+Z and Cmd+Shift+Z.                                                  *)

\* The stack that Cmd+Z (or Cmd+Shift+Z) takes from: the project's, when the
\* last change was one of the project, or when the timeline has none.
ProjectHistoryFirst(timelineStack, projectStack) ==
  projectStack # <<>> /\ (state.domain = "Project" \/ timelineStack = <<>>)

\* Timelines whose edits a whole project replaces (a history value).
Rewound(from, to) ==
  {t \in Timeline : to.sequence[t].edits # from.sequence[t].edits}

\* The session once project p of an undone or redone entry is saved:
\* refreshAfterProjectRename, or refreshAfterProjectMutation.
Refreshed(kind, p) ==
  LET active == IF kind = "rename" \/ state.active \in p.timelines
                THEN state.active ELSE p.active
      log    == IF kind = "rename" THEN state.log
                ELSE IF active \in DOMAIN state.logs THEN state.logs[active]
                ELSE EmptyLog
  IN  [state EXCEPT !.project = p, !.active = active, !.log = log,
                    !.document = MakeDocument(p, active)]

RestoreProject(kind, p, plog) ==
  LET rewound == state.rewound \cup Rewound(state.project, p)
  IN  Commit(Candidate(p, state.log, plog, rewound),
             [Refreshed(kind, p) EXCEPT !.plog = plog, !.rewound = rewound,
                                        !.domain = "Project"])

MenuUndo ==
  /\ Idle
  /\ LET edits == state.document.sequence.edits
         entry == Head(state.plog.applied)
     IN  IF ProjectHistoryFirst(state.log.applied, state.plog.applied)
         THEN RestoreProject(entry.kind, entry.before, Undo(state.plog))
         ELSE /\ Undoable(state.log, edits)
              /\ PersistEdit(UndoneEdits(state.log, edits), Undo(state.log))
  /\ UNCHANGED used

MenuRedo ==
  /\ Idle
  /\ LET edits == state.document.sequence.edits
         entry == Head(state.plog.undone)
     IN  IF ProjectHistoryFirst(state.log.undone, state.plog.undone)
         THEN RestoreProject(entry.kind, entry.after, Redo(state.plog))
         ELSE /\ Redoable(state.log, edits)
              /\ PersistEdit(RedoneEdits(state.log, edits), Redo(state.log))
  /\ UNCHANGED used

(* Opening and leaving a project.                                          *)

\* loadDocumentAndSourcesHoldingLock, from the package alone.
Loaded(d) ==
  [project |-> d.project, active |-> d.project.active,
   document |-> MakeDocument(d.project, d.project.active),
   log |-> d.logs[d.project.active], logs |-> d.logs, plog |-> d.plog,
   rewound |-> d.rewound, domain |-> "Timeline", pending |-> None]

\* ProjectRecovery::Inspect: Available, or Stale.
\* Mutant: whatever autosave there is gets offered.
AnyAutosave == autosave # None

Available == autosave # None /\ autosave.newer

Opened == state' = Loaded(disk') /\ UNCHANGED <<outcome, used>>

\* There is nothing to recover: a stale autosave stays where it is.
OpenProject ==
  /\ state = Closed /\ ~Available
  /\ UNCHANGED <<disk, autosave, faults>>
  /\ Opened

\* "Ignorer" discards the autosave, or leaves it when that fails.
IgnoreAutosave ==
  /\ state = Closed /\ Available
  /\ autosave' \in {None, autosave}
  /\ UNCHANGED <<disk, faults>>
  /\ Opened

\* "Recuperer" commits the envelope, then discards the autosave, or leaves it.
RecoverAutosave ==
  /\ state = Closed /\ Available
  /\ disk' = Stored(disk, autosave.envelope)
  /\ autosave' \in {None, [autosave EXCEPT !.newer = FALSE]}
  /\ UNCHANGED faults
  /\ Opened

\* The same, stopped after the commit.
RecoverAutosaveStopped ==
  /\ state = Closed /\ Available
  /\ disk' = Stored(disk, autosave.envelope)
  /\ autosave' = [autosave EXCEPT !.newer = FALSE]
  /\ UNCHANGED <<state, outcome, used, faults>>

Quit ==
  /\ state # Closed
  /\ state' = Closed
  /\ UNCHANGED <<disk, autosave, outcome, used, faults>>

-----------------------------------------------------------------------------
(* The one-shot commands, and the tools of --mcp-serve that call the same  *)
(* functions, load the package, change it and commit it.  The commands     *)
(* take no session lock; none of them writes an autosave, and a failed     *)
(* commit changes nothing.                                                 *)

CommandsRun == (IF state = Closed THEN "closed" ELSE "open") \in Commands

CommitStored(p, logs, plog, rewound) ==
  /\ CommandsRun
  /\ disk' = Stored(disk, [project |-> p, logs |-> logs, plog |-> plog,
                           rewound |-> rewound])
  /\ autosave' = IF autosave = None THEN None
                 ELSE [autosave EXCEPT !.newer = FALSE]
  /\ UNCHANGED <<state, outcome, faults>>

NoLogs == [t \in {} |-> EmptyLog]

\* ApplyOperationCommand and MutateTimelineLogCommand commit the journal of
\* their timeline with a ProjectEditLog they did not load.
CommitTimelineCommand(t, edits, log) ==
  CommitStored([disk.project EXCEPT !.sequence[t].edits = edits],
               With(NoLogs, t, log), EmptyLog, disk.rewound)

ApplyOp(t, x, exact) ==
  /\ t \in disk.project.timelines
  /\ Fresh(x)
  /\ LET edits == disk.project.sequence[t].edits
     IN  CommitTimelineCommand(t, edits \cup {x},
           Apply(disk.logs[t], TimelineEntry(edits, x, exact)))

\* Only --mcp-serve calls these two, and it holds the session lock.
UndoOp(t) ==
  /\ state = Closed
  /\ t \in disk.project.timelines
  /\ LET edits == disk.project.sequence[t].edits
     IN  /\ Undoable(disk.logs[t], edits)
         /\ CommitTimelineCommand(t, UndoneEdits(disk.logs[t], edits),
                                  Undo(disk.logs[t]))
  /\ UNCHANGED used

RedoOp(t) ==
  /\ state = Closed
  /\ t \in disk.project.timelines
  /\ LET edits == disk.project.sequence[t].edits
     IN  /\ Redoable(disk.logs[t], edits)
         /\ CommitTimelineCommand(t, RedoneEdits(disk.logs[t], edits),
                                  Redo(disk.logs[t]))
  /\ UNCHANGED used

\* MutateProjectLogCommand: no timeline journal is written.
CommitProjectCommand(kind, p) ==
  /\ Len(disk.plog.applied) < MaxHistory
  /\ CommitStored(p, NoLogs,
                  Apply(disk.plog, ProjectEntry(kind, disk.project, p)),
                  disk.rewound)

\* ApplyProjectOperationCommand, one action per family of operations.
RenameProjectOp(t, x) ==
  /\ t \in disk.project.timelines
  /\ Fresh(x)
  /\ CommitProjectCommand("rename", Rename(disk.project, t, x))

SetProjectBinOp(x) ==
  Fresh(x) /\ CommitProjectCommand("bin", SetBin(disk.project, x))

RelinkProjectOp(x) ==
  Fresh(x) /\ CommitProjectCommand("relink", Relink(disk.project, x))

SetActiveProjectTimelineOp(t) ==
  /\ t \in disk.project.timelines \ {disk.project.active}
  /\ CommitProjectCommand("active", SetActive(disk.project, t))
  /\ UNCHANGED used

AddProjectTimelineOp(t) ==
  Fresh(t) /\ CommitProjectCommand("add", AddTimeline(disk.project, t))

\* CreateProjectTimelineFromSegments: clips that no journal knows.
CreateFromSegmentsOp(t, x, makeActive) ==
  /\ t \notin used /\ x \notin used /\ used' = used \cup {t, x}
  /\ CommitProjectCommand("add",
       [AddTimeline(disk.project, t) EXCEPT
          !.sequence[t].edits = {x},
          !.active = IF makeActive THEN t ELSE @])

RemoveProjectTimelineOp(t) ==
  /\ t \in disk.project.timelines /\ disk.project.timelines # {t}
  /\ \E front \in disk.project.timelines \ {t} :
       CommitProjectCommand("remove", RemoveTimeline(disk.project, t, front))
  /\ UNCHANGED used

UndoProjectOp ==
  /\ disk.plog.applied # <<>>
  /\ LET p == Head(disk.plog.applied).before
     IN  CommitStored(p, NoLogs, Undo(disk.plog),
                      disk.rewound \cup Rewound(disk.project, p))
  /\ UNCHANGED used

RedoProjectOp ==
  /\ disk.plog.undone # <<>>
  /\ LET p == Head(disk.plog.undone).after
     IN  CommitStored(p, NoLogs, Redo(disk.plog),
                      disk.rewound \cup Rewound(disk.project, p))
  /\ UNCHANGED used

-----------------------------------------------------------------------------
InitialProject(active) ==
  [timelines |-> Initial, active |-> active,
   sequence |-> [t \in Timeline |-> NewSequence],
   library |-> {}, placement |-> None]

\* A package as CreatePortableProject leaves it.
Init ==
  /\ \E active \in Initial :
       disk = [project |-> InitialProject(active),
               logs |-> [t \in Initial |-> EmptyLog],
               plog |-> EmptyLog, rewound |-> {}]
  /\ autosave = None
  /\ state = Closed
  /\ outcome = "none"
  /\ used = Initial
  /\ faults = 0

Application ==
  \/ \E x \in Token : \/ \E exact \in BOOLEAN : EditTimeline(x, exact)
                      \/ ImportMedia(x)
                      \/ MoveTimelineToBin(x)
                      \/ RelinkMedia(x)
                      \/ \E t \in Timeline : RenameItem(t, x)
                      \/ \E t \in Timeline :
                           CreateTimelineFromSelectedMedia(t, x)
  \/ \E t \in Timeline : ActivateTimeline(t) \/ CreateTimelinePressed(t)
  \/ AddPendingTimeline \/ SaveProjectPressed
  \/ MenuUndo \/ MenuRedo
  \/ OpenProject \/ IgnoreAutosave
  \/ RecoverAutosave \/ RecoverAutosaveStopped
  \/ Quit

Command ==
  \/ \E x \in Token : \/ \E t \in Timeline, exact \in BOOLEAN : ApplyOp(t, x, exact)
                      \/ \E t \in Timeline : RenameProjectOp(t, x)
                      \/ \E t \in Timeline, makeActive \in BOOLEAN :
                           CreateFromSegmentsOp(t, x, makeActive)
                      \/ SetProjectBinOp(x)
                      \/ RelinkProjectOp(x)
  \/ \E t \in Timeline : \/ UndoOp(t) \/ RedoOp(t)
                         \/ SetActiveProjectTimelineOp(t)
                         \/ AddProjectTimelineOp(t)
                         \/ RemoveProjectTimelineOp(t)
  \/ UndoProjectOp \/ RedoProjectOp

Next == Application \/ Command

Spec == Init /\ [][Next]_vars
-----------------------------------------------------------------------------
(* Properties.                                                             *)

\* Project::Validate: a project shows one of its own timelines.
ValidProject == {p \in Project : p.active \in p.timelines}

TimelineEntries ==
  [edit : Token, exact : BOOLEAN, before : SUBSET Token, after : SUBSET Token]
ProjectEntries ==
  [kind : {"rename", "bin", "relink", "active", "add", "remove"},
   before : ValidProject, after : ValidProject]

Log(Entries) == [applied : Seq(Entries), undone : Seq(Entries)]

\* A generation has exactly one journal for each of its timelines.
Generation(g) ==
  /\ g = [project |-> g.project, logs |-> g.logs, plog |-> g.plog,
          rewound |-> g.rewound]
  /\ g.project \in ValidProject
  /\ g.logs \in [g.project.timelines -> Log(TimelineEntries)]
  /\ g.plog \in Log(ProjectEntries)
  /\ g.rewound \subseteq Timeline

AutosaveFile(a) ==
  /\ a = [envelope |-> a.envelope, newer |-> a.newer, base |-> a.base]
  /\ Generation(a.envelope) /\ Generation(a.base)
  /\ a.newer \in BOOLEAN

Session(s) ==
  /\ DOMAIN s = {"project", "active", "document", "log", "logs", "plog",
                 "rewound", "domain", "pending"}
  /\ s.project \in ValidProject
  /\ s.logs \in [s.project.timelines -> Log(TimelineEntries)]
  /\ s.plog \in Log(ProjectEntries)
  /\ s.rewound \subseteq Timeline
  /\ s.active \in s.project.timelines
  /\ s.document \in [sequence : Sequence, library : SUBSET Token]
  /\ s.log \in Log(TimelineEntries)
  /\ s.domain \in {"Timeline", "Project"}
  /\ s.pending \in Timeline \cup {None}

\* Every variable has its type.  In particular what is durable, autosaved and
\* recovered is a whole generation: a valid project with exactly one journal
\* per timeline (Project::Validate, ValidateTimelineLogs), whichever of the
\* application and the commands wrote it.
TypeOK ==
  /\ Generation(disk)
  /\ autosave = None \/ AutosaveFile(autosave)
  /\ state = Closed \/ Session(state)
  /\ outcome \in {"none", "refused", "saved", "failed", "stopped"}
  /\ used \subseteq Timeline \cup Token
  /\ faults \in Nat

\* What the application shows and would save again is what is durable, also
\* after a save that failed or was refused (SAVING_ROADMAP.md, invariant 2):
\* the project, every journal, and the document and journal on the screen.
DisplayedIsDurable ==
  state # Closed =>
    /\ state.project = disk.project
    /\ state.logs = disk.logs
    /\ state.plog = disk.plog
    /\ state.active \in state.project.timelines
    /\ state.document = MakeDocument(state.project, state.active)
    /\ state.log = state.logs[state.active]

Linked(entries, Newer(_), Older(_)) ==
  \A i \in 1..Len(entries) - 1 : Newer(entries[i]) = Older(entries[i + 1])

Before(entry) == entry.before
After(entry)  == entry.after

\* The journal leads up to "edits" by the entries applied and on from there by
\* the entries undone, each taking up where the other one ended.
Describes(log, edits) ==
  /\ log.applied # <<>> => Head(log.applied).after = edits
  /\ log.undone # <<>> => Head(log.undone).before = edits
  /\ Linked(log.applied, Before, After)
  /\ Linked(log.undone, After, Before)

\* The tracks of a timeline and its journal belong to the same generation:
\* every undo and redo takes up exactly where the timeline is
\* (SAVING_ROADMAP.md, invariant 1).
JournalsDescribeTimelines ==
  \A t \in disk.project.timelines :
    Describes(disk.logs[t], disk.project.sequence[t].edits)

\* The same, for the timelines whose edits no project undo or redo replaced.
JournalsDescribeUnlessRewound ==
  \A t \in disk.project.timelines \ disk.rewound :
    Describes(disk.logs[t], disk.project.sequence[t].edits)

\* An autosave that is offered for recovery was made from the generation that
\* is durable now: recovering it never takes a later save back.
OfferedAutosaveIsNewer == Available => autosave.base = disk

\* Creating a timeline is not refused (docs/PROJECT_SPEC.md: Cmd+Option+N
\* creates one).
SavesAreAccepted == outcome # "refused"

\* A durable project journal is lengthened, undone or redone by one entry, or
\* an autosave's takes its place: no step forgets it.
ProjectHistoryKept ==
  [][ \/ disk'.plog = disk.plog
      \/ disk.plog.applied # <<>> /\ disk'.plog = Undo(disk.plog)
      \/ disk.plog.undone # <<>> /\ disk'.plog = Redo(disk.plog)
      \/ disk'.plog.applied # <<>> /\ Tail(disk'.plog.applied) = disk.plog.applied
      \/ Available /\ disk'.plog = autosave.envelope.plog ]_vars

\* A save of the application replaces the generation the session loaded or
\* saved last, never one that another writer made durable in between
\* (docs/PROJECT_STORAGE_SPEC.md: a second write is refused).
NoOtherSaveReplaced ==
  [][ state # Closed /\ state' # state /\ disk' # disk
        => disk.project = state.project /\ disk.logs = state.logs ]_vars
=============================================================================
