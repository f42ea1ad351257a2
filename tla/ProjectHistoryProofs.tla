------------------------ MODULE ProjectHistoryProofs ------------------------
(***************************************************************************)
(* Theorems about ProjectHistory, for any number of timelines and values.  *)
(***************************************************************************)
EXTENDS ProjectHistory, SequenceTheorems, TLAPS

-----------------------------------------------------------------------------
(* Journals.                                                               *)

\* A journal with one more entry is a journal.
LEMMA ApplyType ==
  ASSUME NEW Entries, NEW log \in Log(Entries), NEW entry \in Entries
  PROVE  Apply(log, entry) \in Log(Entries)
<1>1. log.applied \in Seq(Entries)
  BY DEF Log
<1>2. <<entry>> \in Seq(Entries)
  OBVIOUS
<1>3. <<entry>> \o log.applied \in Seq(Entries)
  BY <1>1, <1>2, ConcatProperties
<1>4. <<>> \in Seq(Entries)
  OBVIOUS
<1> QED
  BY <1>3, <1>4 DEF Apply, Log

\* The newest entry of a stack, the rest of it, and what it is moved to.
LEMMA StackType ==
  ASSUME NEW Entries, NEW from \in Seq(Entries), from # <<>>,
         NEW to \in Seq(Entries)
  PROVE  /\ Head(from) \in Entries
         /\ Tail(from) \in Seq(Entries)
         /\ <<Head(from)>> \o to \in Seq(Entries)
<1>1. Head(from) \in Entries /\ Tail(from) \in Seq(Entries)
  BY HeadTailProperties
<1>2. <<Head(from)>> \in Seq(Entries)
  BY <1>1
<1> QED
  BY <1>1, <1>2, ConcatProperties

\* Undo moves an entry from the applied to the undone.
LEMMA UndoType ==
  ASSUME NEW Entries, NEW log \in Log(Entries), log.applied # <<>>
  PROVE  /\ Undo(log) \in Log(Entries)
         /\ Head(log.applied) \in Entries
<1>1. log.applied \in Seq(Entries) /\ log.undone \in Seq(Entries)
  BY DEF Log
<1> QED
  BY <1>1, StackType DEF Undo, Log

\* Redo moves it back.
LEMMA RedoType ==
  ASSUME NEW Entries, NEW log \in Log(Entries), log.undone # <<>>
  PROVE  /\ Redo(log) \in Log(Entries)
         /\ Head(log.undone) \in Entries
<1>1. log.applied \in Seq(Entries) /\ log.undone \in Seq(Entries)
  BY DEF Log
<1> QED
  BY <1>1, StackType DEF Redo, Log

\* The journal of a new timeline is one.
LEMMA EmptyLogType == ASSUME NEW Entries PROVE EmptyLog \in Log(Entries)
<1>1. <<>> \in Seq(Entries)
  OBVIOUS
<1> QED
  BY <1>1 DEF EmptyLog, Log

-----------------------------------------------------------------------------
(* What journals describe.                                                 *)

\* Entries that brought in an edit that was not there, from the values used.
MadeEntries(u) ==
  { e \in TimelineEntries : /\ e.edit \notin e.before
                            /\ e.after = e.before \cup {e.edit}
                            /\ e.after \subseteq u }

MadeProjects(u) ==
  { p \in ValidProject : /\ p.timelines \subseteq u
                         /\ \A t \in Timeline : p.sequence[t].edits \subseteq u }

MadeProjectEntries(u) ==
  { e \in ProjectEntries :
      e.before \in MadeProjects(u) /\ e.after \in MadeProjects(u) }

\* A project with its journals (durable, autosaved or open): each describes its
\* timeline, unless a project undo or redo replaced the edits.  What was never
\* used is in none of them: that is why a compact undo takes out exactly what
\* its edit brought in.
Sound(g, u) ==
  /\ g.project \in MadeProjects(u)
  /\ g.logs \in [g.project.timelines -> Log(MadeEntries(u))]
  /\ g.plog \in Log(MadeProjectEntries(u))
  /\ \A t \in g.project.timelines \ g.rewound :
       Describes(g.logs[t], g.project.sequence[t].edits)

\* The session shows its own project, and the journal of what it shows.
Coherent(s) ==
  /\ s.active \in s.project.timelines
  /\ s.document = MakeDocument(s.project, s.active)
  /\ s.log = s.logs[s.active]

SoundInv ==
  /\ Sound(disk, used)
  /\ autosave # None => Sound(autosave.envelope, used)
  /\ state # Closed => Sound(state, used) /\ Coherent(state)

\* A journal of entries of one kind is a journal of entries of a larger one.
LEMMA LogGrows ==
  ASSUME NEW A, NEW B, A \subseteq B, NEW log \in Log(A)
  PROVE  log \in Log(B)
<1>1. log.applied \in Seq(A) /\ log.undone \in Seq(A)
      /\ log = [applied |-> log.applied, undone |-> log.undone]
  BY DEF Log
<1>2. ASSUME NEW s \in Seq(A) PROVE s \in Seq(B)
  BY SeqDef
<1>3. log.applied \in Seq(B) /\ log.undone \in Seq(B)
  BY <1>1, <1>2
<1> QED
  BY <1>1, <1>3 DEF Log

\* More values used: what was sound stays so.
LEMMA SoundGrows ==
  ASSUME NEW u, NEW v, u \subseteq v, NEW g, Sound(g, u)
  PROVE  Sound(g, v)
<1>1. MadeEntries(u) \subseteq MadeEntries(v) /\ MadeProjects(u) \subseteq MadeProjects(v)
  BY DEF MadeEntries, MadeProjects
<1>2. MadeProjectEntries(u) \subseteq MadeProjectEntries(v)
  BY <1>1 DEF MadeProjectEntries
<1>3. \A log \in Log(MadeEntries(u)) : log \in Log(MadeEntries(v))
  BY <1>1, LogGrows
<1>4. g.plog \in Log(MadeProjectEntries(v))
  BY <1>2, LogGrows DEF Sound
<1>5. g.logs \in [g.project.timelines -> Log(MadeEntries(v))]
  BY <1>3 DEF Sound
<1> QED
  BY <1>1, <1>4, <1>5 DEF Sound

\* A stack with one more entry on it is linked if the entry takes up where the
\* stack was.
LEMMA PushLinked ==
  ASSUME NEW Entries, NEW stack \in Seq(Entries), NEW entry \in Entries
  PROVE  LET pushed == <<entry>> \o stack
         IN  /\ pushed \in Seq(Entries) /\ pushed # <<>> /\ Head(pushed) = entry
             /\ Linked(stack, Before, After)
                  /\ (stack # <<>> => Head(stack).after = entry.before)
                  => Linked(pushed, Before, After)
             /\ Linked(stack, After, Before)
                  /\ (stack # <<>> => Head(stack).before = entry.after)
                  => Linked(pushed, After, Before)
<1> DEFINE pushed == <<entry>> \o stack
<1>1. /\ pushed \in Seq(Entries) /\ Len(pushed) = Len(stack) + 1
      /\ pushed[1] = entry
      /\ \A i \in 1 .. Len(stack) : pushed[i + 1] = stack[i]
  OBVIOUS
<1>2. stack # <<>> => Head(stack) = stack[1] /\ Len(stack) \in Nat /\ Len(stack) >= 1
  OBVIOUS
<1>3. Len(stack) \in Nat /\ (stack = <<>> <=> Len(stack) = 0)
  OBVIOUS
<1> HIDE DEF pushed
<1>4. pushed # <<>> /\ Head(pushed) = entry
  BY <1>1, <1>3
<1>5. ASSUME NEW i \in 1 .. Len(pushed) - 1
      PROVE  /\ i = 1 => pushed[i] = entry /\ stack # <<>> /\ pushed[i + 1] = Head(stack)
             /\ i # 1 => /\ i - 1 \in 1 .. Len(stack) - 1
                         /\ pushed[i] = stack[i - 1]
                         /\ pushed[i + 1] = stack[(i - 1) + 1]
  <2>1. i \in 1 .. Len(stack) /\ pushed[i + 1] = stack[i]
    BY <1>1, <1>3
  <2>2. ASSUME i # 1
        PROVE  i - 1 \in 1 .. Len(stack) - 1 /\ i - 1 \in 1 .. Len(stack)
               /\ (i - 1) + 1 = i
    BY <1>3, <2>1, <2>2
  <2>3. ASSUME i # 1 PROVE pushed[i] = stack[i - 1]
    <3>1. pushed[(i - 1) + 1] = stack[i - 1]
      BY <1>1, <2>2, <2>3
    <3> QED BY <2>2, <2>3, <3>1
  <2>4. i = 1 => pushed[i] = entry /\ stack # <<>> /\ pushed[i + 1] = Head(stack)
    BY <1>1, <1>2, <1>3, <2>1
  <2> QED
    BY <2>1, <2>2, <2>3, <2>4
<1>6. ASSUME Linked(stack, Before, After), stack # <<>> => Head(stack).after = entry.before
      PROVE  Linked(pushed, Before, After)
  BY <1>5, <1>6 DEF Linked, Before, After
<1>7. ASSUME Linked(stack, After, Before), stack # <<>> => Head(stack).before = entry.after
      PROVE  Linked(pushed, After, Before)
  BY <1>5, <1>7 DEF Linked, Before, After
<1> QED
  BY <1>1, <1>4, <1>6, <1>7 DEF pushed

\* The rest of a linked stack is linked, and takes up where its newest entry
\* was.
LEMMA PopLinked ==
  ASSUME NEW Entries, NEW stack \in Seq(Entries), stack # <<>>
  PROVE  /\ Head(stack) \in Entries /\ Tail(stack) \in Seq(Entries)
         /\ Linked(stack, Before, After) =>
              /\ Linked(Tail(stack), Before, After)
              /\ Tail(stack) # <<>> => Head(Tail(stack)).after = Head(stack).before
         /\ Linked(stack, After, Before) =>
              /\ Linked(Tail(stack), After, Before)
              /\ Tail(stack) # <<>> => Head(Tail(stack)).before = Head(stack).after
<1>1. PICK rest : rest = Tail(stack)
  OBVIOUS
<1>2. /\ Head(stack) \in Entries /\ rest \in Seq(Entries)
      /\ Len(rest) = Len(stack) - 1
      /\ \A i \in 1 .. Len(rest) : rest[i] = stack[i + 1]
  BY <1>1, HeadTailProperties
<1>3. Len(stack) \in Nat /\ Len(rest) \in Nat /\ Head(stack) = stack[1]
  BY <1>2
<1>4. rest # <<>> => Len(rest) >= 1 /\ Head(rest) = rest[1]
  BY <1>2
<1>5. ASSUME NEW i \in 1 .. Len(rest) - 1
      PROVE  /\ i + 1 \in 1 .. Len(stack) - 1
             /\ rest[i] = stack[i + 1] /\ rest[i + 1] = stack[(i + 1) + 1]
  BY <1>2, <1>3
<1>6. rest # <<>> => 1 \in 1 .. Len(stack) - 1 /\ Head(rest) = stack[1 + 1]
  BY <1>2, <1>3, <1>4
<1>7. Linked(stack, Before, After) => Linked(rest, Before, After)
  BY <1>5 DEF Linked, Before, After
<1>8. Linked(stack, After, Before) => Linked(rest, After, Before)
  BY <1>5 DEF Linked, Before, After
<1>9. /\ Linked(stack, Before, After) /\ rest # <<>> => Head(rest).after = Head(stack).before
      /\ Linked(stack, After, Before) /\ rest # <<>> => Head(rest).before = Head(stack).after
  BY <1>3, <1>6 DEF Linked, Before, After
<1> QED
  BY <1>1, <1>2, <1>7, <1>8, <1>9

\* An edit: its entry takes up where the timeline was.
LEMMA ApplySound ==
  ASSUME NEW u, NEW edits \in SUBSET Token, edits \subseteq u,
         NEW x \in Token, x \notin u, NEW exact \in BOOLEAN,
         NEW log \in Log(MadeEntries(u))
  PROVE  LET n == Apply(log, TimelineEntry(edits, x, exact))
         IN  /\ n \in Log(MadeEntries(u \cup {x}))
             /\ Describes(log, edits) => Describes(n, edits \cup {x})
<1>1. PICK entry : entry = TimelineEntry(edits, x, exact)
  OBVIOUS
<1>2. /\ entry \in MadeEntries(u \cup {x})
      /\ entry.before = edits /\ entry.after = edits \cup {x}
  BY <1>1 DEF TimelineEntry, MadeEntries, TimelineEntries
<1>3. MadeEntries(u) \subseteq MadeEntries(u \cup {x})
  BY DEF MadeEntries
<1>4. log \in Log(MadeEntries(u \cup {x}))
  BY <1>3, LogGrows
<1>5. Apply(log, entry) \in Log(MadeEntries(u \cup {x}))
  BY <1>2, <1>4, ApplyType
<1>6. ASSUME Describes(log, edits)
      PROVE  Describes(Apply(log, entry), edits \cup {x})
  <2>1. log.applied \in Seq(MadeEntries(u \cup {x}))
    BY <1>4 DEF Log
  <2>2. /\ Head(<<entry>> \o log.applied) = entry
        /\ Linked(<<entry>> \o log.applied, Before, After)
    BY <1>2, <1>6, <2>1, PushLinked DEF Describes
  <2>3. Linked(<<>>, After, Before)
    BY DEF Linked
  <2> QED
    BY <1>2, <2>2, <2>3 DEF Apply, Describes
<1> QED
  BY <1>1, <1>5, <1>6

\* An undo leaves the timeline where its entry took up, exact or compact.
LEMMA UndoSound ==
  ASSUME NEW u, NEW edits, edits \subseteq u, NEW log \in Log(MadeEntries(u)),
         Undoable(log, edits)
  PROVE  /\ UndoneEdits(log, edits) \subseteq u
         /\ Undo(log) \in Log(MadeEntries(u))
         /\ Describes(log, edits) => Describes(Undo(log), UndoneEdits(log, edits))
<1>1. PICK entry : entry = Head(log.applied)
  OBVIOUS
<1>2. /\ log.applied \in Seq(MadeEntries(u)) /\ log.undone \in Seq(MadeEntries(u))
      /\ log.applied # <<>>
  BY DEF Log, Undoable
<1>3. entry \in MadeEntries(u) /\ Undo(log) \in Log(MadeEntries(u))
  BY <1>1, <1>2, UndoType
<1>4. /\ entry.edit \notin entry.before /\ entry.before \subseteq u
      /\ entry.after = entry.before \cup {entry.edit}
  BY <1>3 DEF MadeEntries
<1>5. UndoneEdits(log, edits) = IF entry.exact THEN entry.before ELSE edits \ {entry.edit}
  BY <1>1 DEF UndoneEdits
<1>6. UndoneEdits(log, edits) \subseteq u
  BY <1>4, <1>5
<1>7. ASSUME Describes(log, edits)
      PROVE  Describes(Undo(log), UndoneEdits(log, edits))
  <2>1. entry.after = edits /\ (log.undone # <<>> => Head(log.undone).before = edits)
    BY <1>1, <1>2, <1>7 DEF Describes
  <2>2. UndoneEdits(log, edits) = entry.before
    BY <1>4, <1>5, <2>1
  <2>3. /\ Linked(Tail(log.applied), Before, After)
        /\ Tail(log.applied) # <<>> => Head(Tail(log.applied)).after = entry.before
    BY <1>1, <1>2, <1>7, PopLinked DEF Describes
  <2>4. /\ Head(<<entry>> \o log.undone) = entry
        /\ Linked(<<entry>> \o log.undone, After, Before)
    BY <1>2, <1>3, <1>7, <2>1, PushLinked DEF Describes
  <2> QED
    BY <1>1, <2>2, <2>3, <2>4 DEF Undo, Describes
<1> QED
  BY <1>3, <1>6, <1>7

\* A redo leaves it where its entry ended.
LEMMA RedoSound ==
  ASSUME NEW u, NEW edits, edits \subseteq u, NEW log \in Log(MadeEntries(u)),
         Redoable(log, edits)
  PROVE  /\ RedoneEdits(log, edits) \subseteq u
         /\ Redo(log) \in Log(MadeEntries(u))
         /\ Describes(log, edits) => Describes(Redo(log), RedoneEdits(log, edits))
<1>1. PICK entry : entry = Head(log.undone)
  OBVIOUS
<1>2. /\ log.applied \in Seq(MadeEntries(u)) /\ log.undone \in Seq(MadeEntries(u))
      /\ log.undone # <<>>
  BY DEF Log, Redoable
<1>3. entry \in MadeEntries(u) /\ Redo(log) \in Log(MadeEntries(u))
  BY <1>1, <1>2, RedoType
<1>4. entry.after \subseteq u /\ entry.after = entry.before \cup {entry.edit}
  BY <1>3 DEF MadeEntries
<1>5. RedoneEdits(log, edits) = IF entry.exact THEN entry.after ELSE edits \cup {entry.edit}
  BY <1>1 DEF RedoneEdits
<1>6. RedoneEdits(log, edits) \subseteq u
  BY <1>4, <1>5
<1>7. ASSUME Describes(log, edits)
      PROVE  Describes(Redo(log), RedoneEdits(log, edits))
  <2>1. entry.before = edits /\ (log.applied # <<>> => Head(log.applied).after = edits)
    BY <1>1, <1>2, <1>7 DEF Describes
  <2>2. RedoneEdits(log, edits) = entry.after
    BY <1>4, <1>5, <2>1
  <2>3. /\ Linked(Tail(log.undone), After, Before)
        /\ Tail(log.undone) # <<>> => Head(Tail(log.undone)).before = entry.after
    BY <1>1, <1>2, <1>7, PopLinked DEF Describes
  <2>4. /\ Head(<<entry>> \o log.applied) = entry
        /\ Linked(<<entry>> \o log.applied, Before, After)
    BY <1>2, <1>3, <1>7, <2>1, PushLinked DEF Describes
  <2> QED
    BY <1>1, <2>2, <2>3, <2>4 DEF Redo, Describes
<1> QED
  BY <1>3, <1>6, <1>7

\* A new timeline has nothing to undo.
LEMMA EmptyDescribes == ASSUME NEW edits PROVE Describes(EmptyLog, edits)
BY DEF Describes, EmptyLog, Linked

-----------------------------------------------------------------------------
(* Saves.                                                                  *)

\* What a save is given: a generation, but for the journals it has.
Envelope(e) ==
  /\ e = [project |-> e.project, logs |-> e.logs, plog |-> e.plog,
          rewound |-> e.rewound]
  /\ e.project \in ValidProject
  /\ e.logs \in [DOMAIN e.logs -> Log(TimelineEntries)]
  /\ e.plog \in Log(ProjectEntries)
  /\ e.rewound \subseteq Timeline

\* What is stored of it is a generation.
LEMMA StoredType ==
  ASSUME NEW old, Generation(old), NEW e, Envelope(e)
  PROVE  Generation(Stored(old, e))
<1> DEFINE logs == [t \in e.project.timelines |->
                      IF t \in DOMAIN e.logs THEN e.logs[t]
                      ELSE IF t \in DOMAIN old.logs THEN old.logs[t]
                      ELSE EmptyLog]
<1>1. EmptyLog \in Log(TimelineEntries)
  BY EmptyLogType
<1>2. ASSUME NEW t \in DOMAIN old.logs PROVE old.logs[t] \in Log(TimelineEntries)
  BY DEF Generation
<1>3. logs \in [e.project.timelines -> Log(TimelineEntries)]
  BY <1>1, <1>2 DEF Envelope
<1> HIDE DEF logs
<1>4. Stored(old, e) = [project |-> e.project, logs |-> logs,
                        plog |-> e.plog, rewound |-> e.rewound]
  BY DEF Stored, Envelope, logs
<1> QED
  BY <1>3, <1>4 DEF Generation, Envelope

\* With all its journals given, it is stored as it is.
LEMMA StoredWhole ==
  ASSUME NEW old, NEW e, Envelope(e), ValidateTimelineLogs(e)
  PROVE  Generation(e) /\ Stored(old, e) = e
<1>1. DOMAIN e.logs = e.project.timelines
  BY DEF ValidateTimelineLogs
<1>2. e.logs = [t \in e.project.timelines |-> e.logs[t]]
  BY <1>1 DEF Envelope
<1>3. [t \in e.project.timelines |->
         IF t \in DOMAIN e.logs THEN e.logs[t]
         ELSE IF t \in DOMAIN old.logs THEN old.logs[t]
         ELSE EmptyLog] = e.logs
  BY <1>1, <1>2
<1>4. Stored(old, e) = [e EXCEPT !.logs = e.logs]
  BY <1>3 DEF Stored
<1>5. Stored(old, e) = e
  BY <1>4 DEF Envelope
<1>6. Generation(e)
  BY <1>1 DEF Envelope, Generation
<1> QED
  BY <1>5, <1>6

\* A save leaves a generation, and its autosave holds generations.
LEMMA SaveType ==
  ASSUME TypeOK, NEW e, Envelope(e), Save(e)
  PROVE  /\ Generation(disk')
         /\ autosave' = None \/ AutosaveFile(autosave')
         /\ outcome' \in {"refused", "saved", "failed", "stopped"}
         /\ faults' \in Nat
<1>1. faults \in Nat /\ Generation(disk)
  BY DEF TypeOK
<1>2. faults' \in Nat
  <2>1. faults' = faults \/ faults' = faults + 1
    BY Zenon DEF Save, Fault
  <2> QED
    BY <1>1, <2>1
<1>3. outcome' \in {"refused", "saved", "failed", "stopped"}
  BY DEF Save
<1>4. disk' \in {disk, Stored(disk, e)}
  BY DEF Save
<1>5. Generation(disk')
  BY <1>1, <1>4, StoredType
<1>6. CASE ~ValidateTimelineLogs(e)
  <2>1. autosave' = autosave
    BY <1>6 DEF Save
  <2> QED
    BY <1>2, <1>3, <1>5, <2>1 DEF TypeOK
<1>7. CASE ValidateTimelineLogs(e)
  <2>1. autosave' \in {None, autosave, Autosave(e, TRUE), Autosave(e, FALSE)}
    BY <1>7 DEF Save
  <2>2. Generation(e)
    BY <1>7, StoredWhole
  <2>3. AutosaveFile(Autosave(e, TRUE)) /\ AutosaveFile(Autosave(e, FALSE))
    BY <1>1, <2>2 DEF AutosaveFile, Autosave
  <2> QED
    BY <1>2, <1>3, <1>5, <2>1, <2>3 DEF TypeOK
<1> QED
  BY <1>6, <1>7

\* A save that succeeds makes exactly what it was given durable; one that
\* returns an error changes nothing durable.
LEMMA SaveResult ==
  ASSUME NEW e, Envelope(e), Save(e)
  PROVE  /\ outcome' = "saved" =>
              ValidateTimelineLogs(e) /\ Generation(e) /\ disk' = e
         /\ outcome' \in {"refused", "failed"} => disk' = disk
<1>1. ASSUME outcome' = "saved"
      PROVE  ValidateTimelineLogs(e) /\ disk' = Stored(disk, e)
  BY <1>1 DEF Save
<1>2. ASSUME outcome' \in {"refused", "failed"} PROVE disk' = disk
  BY <1>2 DEF Save
<1> QED
  BY <1>1, <1>2, StoredWhole

\* Values are used once.
UsedGrows == used \subseteq used' /\ used' \subseteq Timeline \cup Token

\* What can be stored over the sound generation old.
Storable(old, e, u) ==
  /\ e.project \in MadeProjects(u)
  /\ e.logs \in [DOMAIN e.logs -> Log(MadeEntries(u))]
  /\ e.plog \in Log(MadeProjectEntries(u))
  /\ \A t \in e.project.timelines \ e.rewound :
       /\ t \in DOMAIN e.logs => Describes(e.logs[t], e.project.sequence[t].edits)
       /\ t \in DOMAIN old.logs \ DOMAIN e.logs =>
            Describes(old.logs[t], e.project.sequence[t].edits)

\* A journal that is kept, given or new describes its timeline.
LEMMA StoredSound ==
  ASSUME NEW u, NEW old, Sound(old, u), NEW e, Envelope(e), Storable(old, e, u)
  PROVE  Sound(Stored(old, e), u)
<1>1. PICK logs : logs = [t \in e.project.timelines |->
                            IF t \in DOMAIN e.logs THEN e.logs[t]
                            ELSE IF t \in DOMAIN old.logs THEN old.logs[t]
                            ELSE EmptyLog]
  OBVIOUS
<1>2. EmptyLog \in Log(MadeEntries(u))
  BY EmptyLogType
<1>3. ASSUME NEW t \in DOMAIN old.logs PROVE old.logs[t] \in Log(MadeEntries(u))
  BY DEF Sound
<1>4. logs \in [e.project.timelines -> Log(MadeEntries(u))]
  BY <1>1, <1>2, <1>3 DEF Storable
<1>5. Stored(old, e) = [project |-> e.project, logs |-> logs,
                        plog |-> e.plog, rewound |-> e.rewound]
  BY <1>1 DEF Stored, Envelope
<1>6. ASSUME NEW t \in e.project.timelines \ e.rewound
      PROVE  Describes(logs[t], e.project.sequence[t].edits)
  <2>1. logs[t] = IF t \in DOMAIN e.logs THEN e.logs[t]
                  ELSE IF t \in DOMAIN old.logs THEN old.logs[t]
                  ELSE EmptyLog
    BY <1>1
  <2> QED
    BY <2>1, EmptyDescribes DEF Storable
<1> QED
  BY <1>4, <1>5, <1>6 DEF Sound, Storable

\* A save of a sound project leaves sound generations, however it ends.
LEMMA SaveSound ==
  ASSUME SoundInv, UsedGrows, NEW e, Envelope(e), Save(e),
         ValidateTimelineLogs(e) => Sound(e, used')
  PROVE  /\ Sound(disk', used')
         /\ autosave' # None => Sound(autosave'.envelope, used')
<1>1. Sound(disk, used') /\ (autosave # None => Sound(autosave.envelope, used'))
  BY SoundGrows DEF SoundInv, UsedGrows
<1>2. CASE ~ValidateTimelineLogs(e)
  <2>1. disk' = disk /\ autosave' = autosave
    BY <1>2 DEF Save
  <2> QED
    BY <1>1, <2>1
<1>3. CASE ValidateTimelineLogs(e)
  <2>1. /\ disk' \in {disk, Stored(disk, e)}
        /\ autosave' \in {None, autosave, Autosave(e, TRUE), Autosave(e, FALSE)}
    BY <1>3 DEF Save
  <2>2. Stored(disk, e) = e /\ Sound(e, used')
    BY <1>3, StoredWhole
  <2>3. Autosave(e, TRUE).envelope = e /\ Autosave(e, FALSE).envelope = e
    BY DEF Autosave
  <2> QED
    BY <1>1, <2>1, <2>2, <2>3
<1> QED
  BY <1>2, <1>3

\* A save never leaves an autosave to be offered that another save overtook.
LEMMA SaveOffer ==
  ASSUME TypeOK, OfferedAutosaveIsNewer, NEW e, Save(e)
  PROVE  OfferedAutosaveIsNewer'
<1>1. CASE autosave' = None
  BY <1>1 DEF OfferedAutosaveIsNewer, Available
<1>2. CASE autosave' = Autosave(e, FALSE)
  BY <1>2 DEF OfferedAutosaveIsNewer, Available, Autosave
<1>3. CASE disk' = disk /\ autosave' = Autosave(e, TRUE)
  BY <1>3 DEF OfferedAutosaveIsNewer, Available, Autosave
<1>4. CASE disk' = disk /\ autosave' = autosave
  BY <1>4 DEF OfferedAutosaveIsNewer, Available
<1> QED
  BY <1>1, <1>2, <1>3, <1>4 DEF Save

-----------------------------------------------------------------------------
(* What a handler saves and shows.                                         *)

\* Session s shows generation e.
Shows(s, e) ==
  /\ s.project = e.project /\ s.logs = e.logs /\ s.plog = e.plog
  /\ s.active \in s.project.timelines
  /\ s.document = MakeDocument(s.project, s.active)
  /\ s.log = s.logs[s.active]

\* The session that follows a save that did not succeed.
LEMMA GivenUp ==
  ASSUME TypeOK, state # Closed
  PROVE  /\ Session(state)
         /\ Session([state EXCEPT !.pending = None])
         /\ \A e : Shows(state, e) => Shows([state EXCEPT !.pending = None], e)
         /\ \A u : Sound(state, u) => Sound([state EXCEPT !.pending = None], u)
         /\ Coherent(state) => Coherent([state EXCEPT !.pending = None])
<1>1. Session(state)
  BY DEF TypeOK
<1> DEFINE s == [state EXCEPT !.pending = None]
<1>2. /\ DOMAIN s = DOMAIN state /\ s.project = state.project
      /\ s.active = state.active /\ s.document = state.document
      /\ s.log = state.log /\ s.logs = state.logs /\ s.plog = state.plog
      /\ s.rewound = state.rewound /\ s.domain = state.domain
      /\ s.pending = None
  BY <1>1 DEF Session
<1> HIDE DEF s
<1>3. Session(s)
  BY <1>1, <1>2 DEF Session
<1>4. \A e : Shows(state, e) => Shows(s, e)
  BY <1>2 DEF Shows
<1>5. \A u : Sound(state, u) => Sound(s, u)
  BY <1>2 DEF Sound
<1>6. Coherent(state) => Coherent(s)
  BY <1>2 DEF Coherent
<1> QED
  BY <1>1, <1>3, <1>4, <1>5, <1>6 DEF s

\* A handler that stages a well-formed session keeps the types.
LEMMA CommitType ==
  ASSUME TypeOK, state # Closed, NEW e, NEW next, Envelope(e),
         ValidateTimelineLogs(e) => Session(next),
         Commit(e, next), UsedGrows
  PROVE  TypeOK'
<1>1. Save(e)
  BY DEF Commit
<1>2. state' = Closed \/ state' = [state EXCEPT !.pending = None]
        \/ (outcome' = "saved" /\ state' = next)
  BY DEF Commit
<1>3. state' = Closed \/ Session(state')
  BY <1>1, <1>2, SaveResult, GivenUp
<1> QED
  BY <1>1, <1>3, SaveType DEF TypeOK, UsedGrows

\* A handler that saves a sound project and goes on with it is sound.
LEMMA CommitSound ==
  ASSUME TypeOK, SoundInv, state # Closed, UsedGrows, NEW e, NEW next, Envelope(e),
         ValidateTimelineLogs(e) =>
           Sound(e, used') /\ Shows(next, e) /\ next.rewound = e.rewound,
         Commit(e, next)
  PROVE  SoundInv'
<1>1. Save(e)
  BY DEF Commit
<1>2. /\ Sound(disk', used')
      /\ autosave' # None => Sound(autosave'.envelope, used')
  BY <1>1, SaveSound
<1>3. state' = Closed \/ state' = [state EXCEPT !.pending = None]
        \/ (outcome' = "saved" /\ state' = next)
  BY DEF Commit
<1>4. Sound(state, used') /\ Coherent(state)
  BY SoundGrows DEF SoundInv, UsedGrows
<1>5. outcome' = "saved" => Sound(next, used') /\ Coherent(next)
  <2>1. outcome' = "saved" =>
          Sound(e, used') /\ Shows(next, e) /\ next.rewound = e.rewound
    BY <1>1, SaveResult
  <2> QED
    BY <2>1 DEF Shows, Coherent, Sound
<1>6. state' = Closed \/ (Sound(state', used') /\ Coherent(state'))
  BY <1>3, <1>4, <1>5, GivenUp
<1> QED
  BY <1>2, <1>6 DEF SoundInv, Coherent

\* A handler that stages what it saves shows what is durable.
LEMMA CommitShows ==
  ASSUME TypeOK, DisplayedIsDurable, state # Closed, NEW e, NEW next,
         Envelope(e), ValidateTimelineLogs(e) => Shows(next, e),
         Commit(e, next)
  PROVE  DisplayedIsDurable'
<1>1. Save(e)
  BY DEF Commit
<1>2. Shows(state, disk)
  BY DEF DisplayedIsDurable, Shows
<1>3. CASE outcome' = "saved"
  <2>1. state' = next /\ Shows(next, e) /\ disk' = e
    BY <1>1, <1>3, SaveResult DEF Commit
  <2> QED
    BY <2>1 DEF DisplayedIsDurable, Shows
<1>4. CASE outcome' = "stopped"
  <2>1. state' = Closed
    BY <1>4 DEF Commit
  <2> QED
    BY <2>1 DEF DisplayedIsDurable
<1>5. CASE outcome' \in {"refused", "failed"}
  <2>1. state' = [state EXCEPT !.pending = None] /\ disk' = disk
    BY <1>1, <1>5, SaveResult DEF Commit
  <2>2. Shows(state', disk')
    BY <1>2, <2>1, GivenUp
  <2> QED
    BY <2>2 DEF DisplayedIsDurable, Shows
<1> QED
  BY <1>1, <1>3, <1>4, <1>5, SaveType

\* What a step keeps.
Kept ==
  /\ TypeOK'
  /\ DisplayedIsDurable => DisplayedIsDurable'
  /\ OfferedAutosaveIsNewer => OfferedAutosaveIsNewer'
  /\ SoundInv => SoundInv'

\* What a handler has to stage for its save to keep it.
LEMMA CommitKept ==
  ASSUME TypeOK, state # Closed, NEW e, NEW next, Envelope(e),
         ValidateTimelineLogs(e) => Session(next),
         ValidateTimelineLogs(e) /\ Coherent(state) =>
           Shows(next, e) /\ next.rewound = e.rewound,
         ValidateTimelineLogs(e) /\ SoundInv => Sound(e, used'),
         Commit(e, next), UsedGrows
  PROVE  Kept
<1>1. TypeOK'
  BY CommitType
<1>2. DisplayedIsDurable => Coherent(state)
  BY DEF DisplayedIsDurable, Coherent
<1>3. DisplayedIsDurable => DisplayedIsDurable'
  BY <1>2, CommitShows
<1>4. OfferedAutosaveIsNewer => OfferedAutosaveIsNewer'
  BY SaveOffer DEF Commit
<1>5. SoundInv => Coherent(state)
  BY DEF SoundInv
<1>6. SoundInv => SoundInv'
  BY <1>5, CommitSound
<1> QED
  BY <1>1, <1>3, <1>4, <1>6 DEF Kept

\* The journals of a session with the one of its active timeline replaced.
LEMMA WithType ==
  ASSUME Session(state), NEW log \in Log(TimelineEntries)
  PROVE  /\ With(state.logs, state.active, log)
              \in [state.project.timelines -> Log(TimelineEntries)]
         /\ DOMAIN With(state.logs, state.active, log) = state.project.timelines
         /\ With(state.logs, state.active, log)[state.active] = log
         /\ \A u \in state.project.timelines \ {state.active} :
              With(state.logs, state.active, log)[u] = state.logs[u]
BY DEF With, Session

\* A handler saves an envelope with exactly the journals of the session.
LEMMA CandidateType ==
  ASSUME Session(state), NEW p \in ValidProject,
         NEW log \in Log(TimelineEntries), NEW plog \in Log(ProjectEntries),
         NEW rewound \in SUBSET Timeline
  PROVE  /\ Envelope(Candidate(p, log, plog, rewound))
         /\ ValidateTimelineLogs(Candidate(p, log, plog, rewound))
              <=> p.timelines = state.project.timelines
<1>1. DOMAIN With(state.logs, state.active, log) = state.project.timelines
  BY WithType
<1>2. With(state.logs, state.active, log)
        \in [DOMAIN With(state.logs, state.active, log) -> Log(TimelineEntries)]
  BY WithType
<1>3. Envelope(Candidate(p, log, plog, rewound))
  BY <1>2 DEF Envelope, Candidate
<1>4. ValidateTimelineLogs(Candidate(p, log, plog, rewound))
        <=> p.timelines = state.project.timelines
  BY <1>1 DEF ValidateTimelineLogs, Candidate
<1> QED
  BY <1>3, <1>4

Documents == [sequence : Sequence, library : SUBSET Token]

\* MakeDocument gives back what CommitDocument put in.
LEMMA CommitDocumentType ==
  ASSUME NEW p \in ValidProject, NEW t \in p.timelines, NEW d \in Documents
  PROVE  /\ CommitDocument(p, t, d) \in ValidProject
         /\ CommitDocument(p, t, d).timelines = p.timelines
         /\ CommitDocument(p, t, d).sequence[t] = d.sequence
         /\ \A u \in Timeline \ {t} :
              CommitDocument(p, t, d).sequence[u] = p.sequence[u]
         /\ MakeDocument(CommitDocument(p, t, d), t) = d
<1>1. t \in Timeline /\ p \in Project /\ p.active \in p.timelines
  BY DEF ValidProject, Project
<1>2. d.sequence \in Sequence /\ d.library \in SUBSET Token
  BY DEF Documents
<1> DEFINE n == CommitDocument(p, t, d)
<1>3. /\ n.timelines = p.timelines /\ n.active = p.active
      /\ n.sequence = [p.sequence EXCEPT ![t] = d.sequence]
      /\ n.library = d.library
  BY <1>1 DEF CommitDocument, Project
<1>4. p.sequence \in [Timeline -> Sequence]
  BY <1>1 DEF Project
<1>5. n \in Project
  BY <1>1, <1>2 DEF CommitDocument, Project
<1> HIDE DEF n
<1>6. n \in ValidProject
  BY <1>1, <1>3, <1>5 DEF ValidProject
<1>7. /\ n.sequence[t] = d.sequence
      /\ \A u \in Timeline \ {t} : n.sequence[u] = p.sequence[u]
  BY <1>1, <1>3, <1>4
<1>8. d = [sequence |-> d.sequence, library |-> d.library]
  BY DEF Documents
<1>9. MakeDocument(n, t) = d
  BY <1>3, <1>7, <1>8 DEF MakeDocument
<1> QED
  BY <1>3, <1>6, <1>7, <1>9 DEF n

\* The document of a timeline is one.
LEMMA MakeDocumentType ==
  ASSUME NEW p \in ValidProject, NEW t \in Timeline
  PROVE  MakeDocument(p, t) \in Documents
BY DEF ValidProject, Project, MakeDocument, Documents

\* The fields of the session after persistStagedDocument.
LEMMA StagedFields ==
  ASSUME Session(state), NEW d, NEW log
  PROVE  /\ DOMAIN Staged(d, log) = DOMAIN state
         /\ Staged(d, log).project = CommitDocument(state.project, state.active, d)
         /\ Staged(d, log).logs = With(state.logs, state.active, log)
         /\ Staged(d, log).active = state.active
         /\ Staged(d, log).document = state.document
         /\ Staged(d, log).log = state.log
         /\ Staged(d, log).plog = state.plog
         /\ Staged(d, log).rewound = state.rewound
         /\ Staged(d, log).domain = state.domain
         /\ Staged(d, log).pending = state.pending
BY DEF Staged, Session

-----------------------------------------------------------------------------
(* The handlers.                                                           *)

\* The fields of a session, as its type has them.
LEMMA SessionFields ==
  ASSUME Session(state)
  PROVE  /\ state.project \in ValidProject
         /\ state.logs \in [state.project.timelines -> Log(TimelineEntries)]
         /\ state.plog \in Log(ProjectEntries)
         /\ state.rewound \in SUBSET Timeline
         /\ state.active \in state.project.timelines
         /\ state.active \in Timeline
         /\ state.document \in Documents
         /\ state.log \in Log(TimelineEntries)
         /\ state.domain \in {"Timeline", "Project"}
         /\ state.pending \in Timeline \cup {None}
BY DEF Session, Documents, ValidProject, Project

\* A document and a journal that belong together.
DocumentSound(d, log) ==
  /\ d.sequence.edits \subseteq used'
  /\ log \in Log(MadeEntries(used'))
  /\ state.active \in state.rewound \/ Describes(log, d.sequence.edits)

\* What persistStagedDocument saves is sound.
LEMMA StagedSound ==
  ASSUME TypeOK, SoundInv, state # Closed, UsedGrows, NEW d \in Documents,
         NEW log \in Log(TimelineEntries), DocumentSound(d, log)
  PROVE  Sound(Candidate(CommitDocument(state.project, state.active, d), log,
                         state.plog, state.rewound), used')
<1>1. PICK p : p = CommitDocument(state.project, state.active, d)
  OBVIOUS
<1>2. PICK logs : logs = With(state.logs, state.active, log)
  OBVIOUS
<1>3. Session(state) /\ Sound(state, used')
  BY GivenUp, SoundGrows DEF SoundInv, UsedGrows
<1>4. /\ p \in ValidProject /\ p.timelines = state.project.timelines
      /\ p.sequence[state.active] = d.sequence
      /\ \A t \in Timeline \ {state.active} :
           p.sequence[t] = state.project.sequence[t]
  BY <1>1, <1>3, SessionFields, CommitDocumentType
<1>5. state.active \in Timeline /\ p.timelines \subseteq Timeline
  BY <1>3, <1>4, SessionFields DEF ValidProject, Project
<1>6. p \in MadeProjects(used')
  BY <1>3, <1>4, <1>5 DEF MadeProjects, Sound, DocumentSound
<1>7. /\ DOMAIN logs = p.timelines /\ logs[state.active] = log
      /\ \A t \in p.timelines \ {state.active} : logs[t] = state.logs[t]
      /\ logs \in [p.timelines -> Log(TimelineEntries)]
  BY <1>2, <1>3, <1>4, WithType
<1>8. logs \in [p.timelines -> Log(MadeEntries(used'))]
  <2>1. ASSUME NEW t \in p.timelines PROVE logs[t] \in Log(MadeEntries(used'))
    BY <1>3, <1>4, <1>7 DEF Sound, DocumentSound
  <2> QED
    BY <1>7, <2>1
<1>9. ASSUME NEW t \in p.timelines \ state.rewound
      PROVE  Describes(logs[t], p.sequence[t].edits)
  BY <1>3, <1>4, <1>5, <1>7 DEF Sound, DocumentSound
<1>10. state.plog \in Log(MadeProjectEntries(used'))
  BY <1>3 DEF Sound
<1> QED
  BY <1>1, <1>2, <1>6, <1>8, <1>9, <1>10 DEF Sound, Candidate

\* The document that is shown belongs to the journal that is shown.
LEMMA OwnSound ==
  ASSUME TypeOK, SoundInv, state # Closed, UsedGrows,
         NEW d \in Documents, d.sequence = state.document.sequence
  PROVE  DocumentSound(d, state.log)
<1>1. Session(state) /\ Sound(state, used') /\ Coherent(state)
  BY GivenUp, SoundGrows DEF SoundInv, UsedGrows
<1>2. /\ d.sequence = state.project.sequence[state.active]
      /\ state.log = state.logs[state.active]
      /\ state.active \in state.project.timelines /\ state.active \in Timeline
  BY <1>1, SessionFields DEF Coherent, MakeDocument
<1>3. d.sequence.edits \subseteq used' /\ state.log \in Log(MadeEntries(used'))
  BY <1>1, <1>2 DEF Sound, MadeProjects
<1>4. state.active \notin state.rewound => Describes(state.log, d.sequence.edits)
  BY <1>1, <1>2 DEF Sound
<1> QED
  BY <1>3, <1>4 DEF DocumentSound

\* A handler that goes on with the document and the journal that it saved.
LEMMA PersistKept ==
  ASSUME TypeOK, state # Closed, NEW d \in Documents,
         NEW log \in Log(TimelineEntries), NEW next,
         PersistStagedDocument(d, log, next),
         DOMAIN next = DOMAIN state,
         next.project = Staged(d, log).project,
         next.logs = Staged(d, log).logs,
         next.active = state.active, next.document = d, next.log = log,
         next.plog = state.plog, next.rewound = state.rewound,
         next.domain \in {"Timeline", "Project"},
         next.pending \in Timeline \cup {None},
         UsedGrows, SoundInv => DocumentSound(d, log)
  PROVE  Kept
<1> DEFINE p == CommitDocument(state.project, state.active, d)
           e == Candidate(p, log, state.plog, state.rewound)
<1>1. Session(state)
  BY GivenUp
<1>2. /\ p \in ValidProject /\ p.timelines = state.project.timelines
      /\ MakeDocument(p, state.active) = d
  BY <1>1, SessionFields, CommitDocumentType
<1>3. next.project = p /\ next.logs = With(state.logs, state.active, log)
  BY <1>1, StagedFields
<1>4. e.project = p /\ e.logs = With(state.logs, state.active, log)
        /\ e.plog = state.plog
  BY DEF Candidate
<1>5. Commit(e, next)
  BY DEF PersistStagedDocument
<1>9. SoundInv => Sound(e, used')
  BY StagedSound
<1>10. e.rewound = state.rewound
  BY DEF Candidate
<1> HIDE DEF p
<1>6. Envelope(e)
  BY <1>1, <1>2, SessionFields, CandidateType
<1> HIDE DEF e
<1>7. Session(next)
  <2>1. next.logs \in [p.timelines -> Log(TimelineEntries)]
    BY <1>1, <1>2, <1>3, WithType
  <2> QED
    BY <1>1, <1>2, <1>3, <2>1, SessionFields DEF Session, Documents
<1>8. Shows(next, e)
  <2>1. next.logs[state.active] = log
    BY <1>1, <1>3, WithType
  <2> QED
    BY <1>1, <1>2, <1>3, <1>4, <2>1, SessionFields DEF Shows
<1> QED
  BY <1>5, <1>6, <1>7, <1>8, <1>9, <1>10, CommitKept

\* The document with other edits.
LEMMA DocumentEdits ==
  ASSUME NEW d \in Documents, NEW edits \in SUBSET Token
  PROVE  /\ [d EXCEPT !.sequence.edits = edits] \in Documents
         /\ [d EXCEPT !.sequence.edits = edits].sequence.edits = edits
BY DEF Documents, Sequence

\* Edits and a journal that belong together.
EditsSound(edits, log) ==
  /\ edits \subseteq used'
  /\ log \in Log(MadeEntries(used'))
  /\ state.active \in state.rewound \/ Describes(log, edits)

\* An edit of the timeline, its undo and its redo.
LEMMA PersistEditKept ==
  ASSUME TypeOK, state # Closed, NEW edits \in SUBSET Token,
         NEW log \in Log(TimelineEntries), PersistEdit(edits, log), UsedGrows,
         SoundInv => EditsSound(edits, log)
  PROVE  Kept
<1> DEFINE d == [state.document EXCEPT !.sequence.edits = edits]
           s == Staged(d, log)
           next == [s EXCEPT !.document = d, !.log = log,
                             !.domain = "Timeline"]
<1>1. Session(state)
  BY GivenUp
<1>2. d \in Documents /\ d.sequence.edits = edits
  BY <1>1, SessionFields, DocumentEdits
<1>3. PersistStagedDocument(d, log, next)
  BY DEF PersistEdit
<1>9. SoundInv => DocumentSound(d, log)
  BY <1>2 DEF EditsSound, DocumentSound
<1> HIDE DEF d
<1>4. /\ DOMAIN s = DOMAIN state /\ s.active = state.active
      /\ s.plog = state.plog /\ s.rewound = state.rewound
      /\ s.pending = state.pending
  BY <1>1, StagedFields
<1>5. DOMAIN state = {"project", "active", "document", "log", "logs", "plog",
                      "rewound", "domain", "pending"}
  BY <1>1 DEF Session
<1> HIDE DEF s
<1>6. /\ DOMAIN next = DOMAIN state /\ next.project = s.project
      /\ next.logs = s.logs /\ next.active = state.active
      /\ next.document = d /\ next.log = log /\ next.plog = state.plog
      /\ next.rewound = state.rewound /\ next.domain = "Timeline"
      /\ next.pending = state.pending
  BY <1>4, <1>5
<1> HIDE DEF next
<1>7. next.pending \in Timeline \cup {None}
  BY <1>1, <1>6, SessionFields
<1>8. next.project = Staged(d, log).project /\ next.logs = Staged(d, log).logs
  BY <1>6 DEF s
<1> QED
  BY <1>2, <1>3, <1>6, <1>7, <1>8, <1>9, PersistKept

\* A document that was changed without an operation.
LEMMA PersistEditsKept ==
  ASSUME TypeOK, state # Closed, NEW d \in Documents, PersistEdits(d),
         d.sequence = state.document.sequence, UsedGrows
  PROVE  Kept
<1> DEFINE s == Staged(d, state.log)
           next == [s EXCEPT !.document = d, !.domain = "Timeline"]
<1>1. Session(state)
  BY GivenUp
<1>3. PersistStagedDocument(d, state.log, next)
  BY DEF PersistEdits
<1>4. /\ DOMAIN s = DOMAIN state /\ s.active = state.active
      /\ s.log = state.log
      /\ s.plog = state.plog /\ s.rewound = state.rewound
      /\ s.pending = state.pending
  BY <1>1, StagedFields
<1>5. DOMAIN state = {"project", "active", "document", "log", "logs", "plog",
                      "rewound", "domain", "pending"}
  BY <1>1 DEF Session
<1> HIDE DEF s
<1>6. /\ DOMAIN next = DOMAIN state /\ next.project = s.project
      /\ next.logs = s.logs /\ next.active = state.active
      /\ next.document = d /\ next.log = state.log /\ next.plog = state.plog
      /\ next.rewound = state.rewound /\ next.domain = "Timeline"
      /\ next.pending = state.pending
  BY <1>4, <1>5
<1> HIDE DEF next
<1>7. next.pending \in Timeline \cup {None} /\ state.log \in Log(TimelineEntries)
  BY <1>1, <1>6, SessionFields
<1>8. /\ next.project = Staged(d, state.log).project
      /\ next.logs = Staged(d, state.log).logs
  BY <1>6 DEF s
<1>9. SoundInv => DocumentSound(d, state.log)
  BY OwnSound
<1> QED
  BY <1>3, <1>6, <1>7, <1>8, <1>9, PersistKept

\* What a new value leaves of the values that are used.
LEMMA FreshType ==
  ASSUME TypeOK, NEW x \in Timeline \cup Token, Fresh(x)
  PROVE  UsedGrows
BY DEF TypeOK, Fresh, UsedGrows

\* A step that uses no new value.
LEMMA NothingUsed == ASSUME TypeOK, used' = used PROVE UsedGrows
BY DEF TypeOK, UsedGrows

\* The edits of the document, and the entry that records another edit.
LEMMA EditsType ==
  ASSUME NEW edits \in SUBSET Token, NEW x \in Token, NEW exact \in BOOLEAN
  PROVE  /\ edits \cup {x} \in SUBSET Token
         /\ TimelineEntry(edits, x, exact) \in TimelineEntries
BY DEF TimelineEntry, TimelineEntries

\* What an undo or a redo of a journal makes of the edits.
LEMMA UndoneType ==
  ASSUME NEW edits \in SUBSET Token, NEW log \in Log(TimelineEntries)
  PROVE  /\ Undoable(log, edits) =>
              UndoneEdits(log, edits) \in SUBSET Token
                /\ Undo(log) \in Log(TimelineEntries)
         /\ Redoable(log, edits) =>
              RedoneEdits(log, edits) \in SUBSET Token
                /\ Redo(log) \in Log(TimelineEntries)
<1>1. ASSUME Undoable(log, edits)
      PROVE  UndoneEdits(log, edits) \in SUBSET Token
               /\ Undo(log) \in Log(TimelineEntries)
  <2>1. Undo(log) \in Log(TimelineEntries) /\ Head(log.applied) \in TimelineEntries
    BY <1>1, UndoType DEF Undoable
  <2> QED
    BY <2>1 DEF UndoneEdits, TimelineEntries
<1>2. ASSUME Redoable(log, edits)
      PROVE  RedoneEdits(log, edits) \in SUBSET Token
               /\ Redo(log) \in Log(TimelineEntries)
  <2>1. Redo(log) \in Log(TimelineEntries) /\ Head(log.undone) \in TimelineEntries
    BY <1>2, RedoType DEF Redoable
  <2> QED
    BY <2>1 DEF RedoneEdits, TimelineEntries
<1> QED
  BY <1>1, <1>2

\* What is shown, as it was before the step.
Shown(u) ==
  /\ state.document.sequence.edits \subseteq u
  /\ state.log \in Log(MadeEntries(u))
  /\ state.active \in state.rewound
       \/ Describes(state.log, state.document.sequence.edits)

LEMMA ShownSound ==
  ASSUME TypeOK, SoundInv, state # Closed
  PROVE  Shown(used)
<1>1. Session(state) /\ Sound(state, used) /\ Coherent(state)
  BY GivenUp DEF SoundInv
<1>2. /\ state.document.sequence = state.project.sequence[state.active]
      /\ state.log = state.logs[state.active]
      /\ state.active \in state.project.timelines /\ state.active \in Timeline
  BY <1>1, SessionFields DEF Coherent, MakeDocument
<1> QED
  BY <1>1, <1>2 DEF Shown, Sound, MadeProjects

\* An edit keeps the types and what is shown.
LEMMA EditTimelineKept ==
  ASSUME TypeOK, NEW x \in Token, NEW exact \in BOOLEAN, EditTimeline(x, exact)
  PROVE  Kept
<1> DEFINE edits == state.document.sequence.edits
           log   == Apply(state.log, TimelineEntry(edits, x, exact))
<1>1. state # Closed /\ Fresh(x) /\ PersistEdit(edits \cup {x}, log)
  BY DEF EditTimeline, Idle
<1>2. edits \in SUBSET Token /\ state.log \in Log(TimelineEntries)
  BY <1>1, GivenUp, SessionFields DEF Documents, Sequence
<1>3. edits \cup {x} \in SUBSET Token /\ log \in Log(TimelineEntries)
  BY <1>2, EditsType, ApplyType
<1>4. UsedGrows
  BY <1>1, FreshType
<1>5. SoundInv => EditsSound(edits \cup {x}, log)
  <2> SUFFICES ASSUME SoundInv PROVE EditsSound(edits \cup {x}, log)
    OBVIOUS
  <2>1. Shown(used)
    BY <1>1, ShownSound
  <2>2. x \notin used /\ used' = used \cup {x}
    BY <1>1 DEF Fresh
  <2>3. /\ log \in Log(MadeEntries(used'))
        /\ Describes(state.log, edits) => Describes(log, edits \cup {x})
    BY <1>2, <2>1, <2>2, ApplySound DEF Shown
  <2> QED
    BY <2>1, <2>2, <2>3 DEF EditsSound, Shown
<1> QED
  BY <1>1, <1>3, <1>4, <1>5, PersistEditKept

\* So does an import, ...
LEMMA ImportMediaKept ==
  ASSUME TypeOK, NEW x \in Token, ImportMedia(x)
  PROVE  Kept
<1> DEFINE d == [state.document EXCEPT !.library = @ \cup {x}]
<1>1. state # Closed /\ Fresh(x) /\ PersistEdits(d)
  BY DEF ImportMedia, Idle
<1>2. d \in Documents /\ d.sequence = state.document.sequence
  BY <1>1, GivenUp, SessionFields DEF Documents
<1>3. UsedGrows
  BY <1>1, FreshType
<1> QED
  BY <1>1, <1>2, <1>3, PersistEditsKept

\* ... an explicit save, ...
LEMMA SaveProjectPressedKept ==
  ASSUME TypeOK, SaveProjectPressed
  PROVE  Kept
<1>1. state # Closed /\ PersistEdits(state.document) /\ used' = used
  BY DEF SaveProjectPressed, Idle
<1>2. state.document \in Documents
  BY <1>1, GivenUp, SessionFields
<1> QED
  BY <1>1, <1>2, NothingUsed, PersistEditsKept

\* ... and the save that comes before a new timeline.
LEMMA CreateTimelinePressedKept ==
  ASSUME TypeOK, NEW t \in Timeline, CreateTimelinePressed(t)
  PROVE  Kept
<1> DEFINE d == state.document
           s == Staged(d, state.log)
           next == [s EXCEPT !.domain = "Timeline", !.pending = t]
<1>1. /\ state # Closed /\ Fresh(t)
      /\ PersistStagedDocument(d, state.log, next)
  BY DEF CreateTimelinePressed, Idle
<1>2. Session(state)
  BY <1>1, GivenUp
<1>3. d \in Documents /\ state.log \in Log(TimelineEntries)
  BY <1>2, SessionFields
<1>4. UsedGrows
  BY <1>1, FreshType
<1>5. /\ DOMAIN s = DOMAIN state /\ s.active = state.active
      /\ s.document = d /\ s.log = state.log
      /\ s.plog = state.plog /\ s.rewound = state.rewound
  BY <1>2, StagedFields
<1>6. DOMAIN state = {"project", "active", "document", "log", "logs", "plog",
                      "rewound", "domain", "pending"}
  BY <1>2 DEF Session
<1> HIDE DEF s, d
<1>7. /\ DOMAIN next = DOMAIN state /\ next.project = s.project
      /\ next.logs = s.logs /\ next.active = state.active
      /\ next.document = d /\ next.log = state.log /\ next.plog = state.plog
      /\ next.rewound = state.rewound /\ next.domain = "Timeline"
      /\ next.pending = t
  BY <1>5, <1>6
<1> HIDE DEF next
<1>8. /\ next.project = Staged(d, state.log).project
      /\ next.logs = Staged(d, state.log).logs
  BY <1>7 DEF s
<1>9. SoundInv => DocumentSound(d, state.log)
  BY <1>1, <1>3, <1>4, OwnSound DEF d
<1> QED
  BY <1>1, <1>3, <1>4, <1>7, <1>8, <1>9, PersistKept

\* Showing another timeline: its journal and its document are the durable ones.
LEMMA ActivateTimelineKept ==
  ASSUME TypeOK, NEW t \in Timeline, ActivateTimeline(t)
  PROVE  Kept
<1> DEFINE d == state.document
           s == Staged(d, state.log)
           log == IF t \in DOMAIN state.logs THEN state.logs[t] ELSE EmptyLog
           next == [s EXCEPT !.active = t, !.log = log, !.logs = With(@, t, log),
                             !.document = MakeDocument(s.project, t),
                             !.pending = None]
           p == CommitDocument(state.project, state.active, d)
           logs == With(state.logs, state.active, state.log)
           e == Candidate(p, state.log, state.plog, state.rewound)
<1>1. /\ state # Closed /\ t \in state.project.timelines /\ t # state.active
      /\ PersistStagedDocument(d, state.log, next) /\ used' = used
  BY DEF ActivateTimeline
<1>2. Session(state)
  BY <1>1, GivenUp
<1>3. d \in Documents /\ state.log \in Log(TimelineEntries)
        /\ state.active \in state.project.timelines
  BY <1>2, SessionFields
<1>4. p \in ValidProject /\ p.timelines = state.project.timelines
  BY <1>2, <1>3, SessionFields, CommitDocumentType
<1>5. /\ DOMAIN s = DOMAIN state /\ s.project = p /\ s.logs = logs
      /\ s.plog = state.plog /\ s.rewound = state.rewound
      /\ s.domain = state.domain
  BY <1>2, StagedFields
<1>6. DOMAIN state = {"project", "active", "document", "log", "logs", "plog",
                      "rewound", "domain", "pending"}
  BY <1>2 DEF Session
<1>7. log = state.logs[t] /\ log \in Log(TimelineEntries)
  BY <1>1, <1>2, SessionFields
<1>8. /\ logs \in [state.project.timelines -> Log(TimelineEntries)]
      /\ logs[t] = state.logs[t]
  BY <1>1, <1>2, <1>3, WithType
<1>9. Commit(e, next)
  BY <1>1 DEF PersistStagedDocument
<1>10. e.project = p /\ e.logs = logs /\ e.plog = state.plog
         /\ e.rewound = state.rewound
  BY DEF Candidate
<1>16. UsedGrows
  BY <1>1, NothingUsed
<1>17. SoundInv => Sound(e, used')
  BY <1>1, <1>3, <1>16, OwnSound, StagedSound
<1> HIDE DEF p
<1>11. Envelope(e)
  BY <1>2, <1>3, <1>4, SessionFields, CandidateType
<1> HIDE DEF s, d, log, logs, e
<1>12. With(logs, t, log) = logs
  BY <1>1, <1>7, <1>8 DEF With
<1>13. /\ DOMAIN next = DOMAIN state /\ next.project = p
       /\ next.logs = logs /\ next.active = t
       /\ next.document = MakeDocument(p, t) /\ next.log = log
       /\ next.plog = state.plog /\ next.rewound = state.rewound
       /\ next.domain = state.domain /\ next.pending = None
  BY <1>5, <1>6, <1>12
<1> HIDE DEF next
<1>14. Session(next)
  <2>1. next.document \in Documents
    BY <1>4, <1>13, MakeDocumentType
  <2> QED
    BY <1>1, <1>2, <1>4, <1>7, <1>8, <1>13, <2>1, SessionFields
    DEF Session, Documents
<1>15. Shows(next, e)
  BY <1>1, <1>4, <1>7, <1>8, <1>10, <1>13 DEF Shows
<1> QED
  BY <1>1, <1>9, <1>10, <1>11, <1>13, <1>14, <1>15, <1>16, <1>17, CommitKept

-----------------------------------------------------------------------------
(* The handlers of project operations.                                     *)

Kinds == {"rename", "bin", "relink", "active", "add", "remove"}

\* A session whose journal is in place saves its journals as they are.
LEMMA WithOwn ==
  ASSUME Session(state), state.log = state.logs[state.active]
  PROVE  With(state.logs, state.active, state.log) = state.logs
BY DEF With, Session

\* A project that the application saves with the journals it has.
LEMMA ProjectKept ==
  ASSUME TypeOK, state # Closed, NEW p \in ValidProject,
         NEW plog \in Log(ProjectEntries), NEW rewound \in SUBSET Timeline,
         NEW next, Commit(Candidate(p, state.log, plog, rewound), next),
         p.timelines = state.project.timelines =>
           /\ DOMAIN next = DOMAIN state
           /\ next.project = p /\ next.logs = state.logs
           /\ next.plog = plog /\ next.rewound = rewound
           /\ next.active = state.active
           /\ next.document \in Documents
           /\ Coherent(state) => next.document = MakeDocument(p, state.active)
           /\ next.log \in {state.log, state.logs[state.active]}
           /\ next.domain \in {"Timeline", "Project"}
           /\ next.pending \in Timeline \cup {None},
         UsedGrows,
         SoundInv /\ p.timelines = state.project.timelines =>
           /\ p \in MadeProjects(used') /\ plog \in Log(MadeProjectEntries(used'))
           /\ \A t \in p.timelines \ rewound :
                t \notin state.rewound
                /\ p.sequence[t].edits = state.project.sequence[t].edits
  PROVE  Kept
<1> DEFINE e == Candidate(p, state.log, plog, rewound)
<1>1. Session(state)
  BY GivenUp
<1>2. /\ Envelope(e)
      /\ ValidateTimelineLogs(e) => p.timelines = state.project.timelines
  BY <1>1, SessionFields, CandidateType
<1>3. /\ e.project = p /\ e.plog = plog /\ e.rewound = rewound
      /\ e.logs = With(state.logs, state.active, state.log)
  BY DEF Candidate
<1> HIDE DEF e
<1>4. ASSUME ValidateTimelineLogs(e) PROVE Session(next)
  <2>1. p.timelines = state.project.timelines
    BY <1>2, <1>4
  <2>2. state.logs[state.active] \in Log(TimelineEntries)
    BY <1>1, SessionFields
  <2> QED
    BY <1>1, <2>1, <2>2, SessionFields DEF Session, Documents
<1>5. ASSUME Coherent(state), ValidateTimelineLogs(e)
      PROVE  Shows(next, e) /\ next.rewound = e.rewound
  <2>1. p.timelines = state.project.timelines
    BY <1>2, <1>5
  <2>2. state.log = state.logs[state.active]
    BY <1>5 DEF Coherent
  <2>3. e.logs = state.logs
    BY <1>1, <1>3, <2>2, WithOwn
  <2> QED
    BY <1>1, <1>3, <1>5, <2>1, <2>2, <2>3, SessionFields DEF Shows
<1>6. Commit(e, next)
  BY DEF e
<1>7. ASSUME SoundInv, ValidateTimelineLogs(e) PROVE Sound(e, used')
  <2>1. p.timelines = state.project.timelines
    BY <1>2, <1>7
  <2>2. Sound(state, used') /\ Coherent(state)
    BY <1>7, SoundGrows DEF SoundInv, UsedGrows
  <2>3. e.logs = state.logs
    BY <1>1, <1>3, <2>2, WithOwn DEF Coherent
  <2> QED
    BY <1>3, <1>7, <2>1, <2>2, <2>3 DEF Sound
<1> QED
  BY <1>2, <1>4, <1>5, <1>6, <1>7, CommitKept

\* The entry of a project operation.
LEMMA ProjectEntryType ==
  ASSUME NEW kind \in Kinds, NEW before \in ValidProject,
         NEW after \in ValidProject
  PROVE  ProjectEntry(kind, before, after) \in ProjectEntries
BY DEF ProjectEntry, ProjectEntries, Kinds

\* The edits of every timeline are the same in both.
SameEdits(p, q) ==
  \A t \in Timeline : q.sequence[t].edits = p.sequence[t].edits

\* The entry of an operation on projects of values that are used.
LEMMA ProjectEntrySound ==
  ASSUME NEW u, NEW p \in MadeProjects(u), NEW q \in MadeProjects(u),
         NEW kind \in Kinds, NEW plog \in Log(MadeProjectEntries(u))
  PROVE  Apply(plog, ProjectEntry(kind, p, q)) \in Log(MadeProjectEntries(u))
<1>1. q \in ValidProject /\ p \in ValidProject
  BY DEF MadeProjects
<1>2. ProjectEntry(kind, p, q) \in ProjectEntries
  BY <1>1, ProjectEntryType
<1>3. ProjectEntry(kind, p, q).before = p /\ ProjectEntry(kind, p, q).after = q
  BY DEF ProjectEntry
<1>4. ProjectEntry(kind, p, q) \in MadeProjectEntries(u)
  BY <1>1, <1>2, <1>3 DEF MadeProjectEntries
<1> QED
  BY <1>1, <1>4, ApplyType

\* A project operation, whether its timelines are accepted or not.
LEMMA ChangeProjectKept ==
  ASSUME TypeOK, state # Closed, NEW kind \in Kinds, NEW p \in ValidProject,
         NEW d \in Documents,
         p.timelines = state.project.timelines /\ Coherent(state) =>
           d = MakeDocument(p, state.active),
         SameEdits(state.project, p),
         ChangeProject(kind, p, d), UsedGrows
  PROVE  Kept
<1> DEFINE plog == Apply(state.plog, ProjectEntry(kind, state.project, p))
           next == [state EXCEPT !.project = p, !.plog = plog,
                                 !.document = d, !.domain = "Project"]
<1>1. Session(state)
  BY GivenUp
<1>2. plog \in Log(ProjectEntries)
  BY <1>1, SessionFields, ProjectEntryType, ApplyType
<1>3. Commit(Candidate(p, state.log, plog, state.rewound), next)
  BY DEF ChangeProject
<1>7. ASSUME SoundInv, p.timelines = state.project.timelines
      PROVE  p \in MadeProjects(used') /\ plog \in Log(MadeProjectEntries(used'))
  <2>1. Sound(state, used')
    BY <1>7, SoundGrows DEF SoundInv, UsedGrows
  <2>2. p \in MadeProjects(used')
    BY <1>7, <2>1 DEF Sound, MadeProjects, SameEdits
  <2> QED
    BY <2>1, <2>2, ProjectEntrySound DEF Sound
<1>8. \A t \in p.timelines \ state.rewound :
        t \notin state.rewound
        /\ p.sequence[t].edits = state.project.sequence[t].edits
  BY DEF SameEdits, ValidProject, Project
<1> HIDE DEF plog
<1>4. DOMAIN state = {"project", "active", "document", "log", "logs", "plog",
                      "rewound", "domain", "pending"}
  BY <1>1 DEF Session
<1>5. /\ DOMAIN next = DOMAIN state /\ next.project = p
      /\ next.logs = state.logs /\ next.plog = plog
      /\ next.rewound = state.rewound /\ next.active = state.active
      /\ next.document = d /\ next.log = state.log
      /\ next.domain = "Project" /\ next.pending = state.pending
  BY <1>4
<1> HIDE DEF next
<1>6. state.rewound \in SUBSET Timeline /\ next.pending \in Timeline \cup {None}
  BY <1>1, <1>5, SessionFields
<1> QED
  BY <1>2, <1>3, <1>5, <1>6, <1>7, <1>8, ProjectKept

\* The project operations give projects that show one of their timelines.
LEMMA OperationType ==
  ASSUME NEW p \in ValidProject, NEW x \in Token
  PROVE  /\ SetBin(p, x) \in ValidProject
         /\ Relink(p, x) \in ValidProject
         /\ \A t \in Timeline : /\ Rename(p, t, x) \in ValidProject
                                /\ AddTimeline(p, t) \in ValidProject
         /\ \A t \in p.timelines : SetActive(p, t) \in ValidProject
<1>1. p \in Project /\ p.active \in p.timelines /\ p.timelines \subseteq Timeline
  BY DEF ValidProject, Project
<1>2. SetBin(p, x) \in ValidProject /\ Relink(p, x) \in ValidProject
  BY <1>1 DEF SetBin, Relink, ValidProject, Project
<1>3. ASSUME NEW t \in Timeline
      PROVE  Rename(p, t, x) \in ValidProject
  <2>1. p.sequence[t] \in Sequence
    BY <1>1 DEF Project
  <2>2. [p.sequence[t] EXCEPT !.name = x] \in Sequence
    BY <2>1 DEF Sequence
  <2>3. [p.sequence EXCEPT ![t] = [p.sequence[t] EXCEPT !.name = x]]
          \in [Timeline -> Sequence]
    BY <1>1, <2>2 DEF Project
  <2> QED
    BY <1>1, <2>3 DEF Rename, ValidProject, Project
<1>4. ASSUME NEW t \in Timeline PROVE AddTimeline(p, t) \in ValidProject
  BY <1>1 DEF AddTimeline, ValidProject, Project
<1>5. ASSUME NEW t \in p.timelines PROVE SetActive(p, t) \in ValidProject
  BY <1>1 DEF SetActive, ValidProject, Project
<1> QED
  BY <1>2, <1>3, <1>4, <1>5

\* What the operations leave of the timelines and of a document.
LEMMA OperationFields ==
  ASSUME NEW p \in ValidProject, NEW x \in Token, NEW t \in Timeline
  PROVE  /\ SetBin(p, x).timelines = p.timelines
         /\ MakeDocument(SetBin(p, x), t) = MakeDocument(p, t)
         /\ Relink(p, x).timelines = p.timelines
         /\ \A u \in Timeline :
              /\ Rename(p, u, x).timelines = p.timelines
              /\ u # t => MakeDocument(Rename(p, u, x), t) = MakeDocument(p, t)
              /\ AddTimeline(p, u).timelines = p.timelines \cup {u}
         /\ SameEdits(p, SetBin(p, x)) /\ SameEdits(p, Relink(p, x))
         /\ \A u \in Timeline : /\ SameEdits(p, Rename(p, u, x))
                                /\ SameEdits(p, AddTimeline(p, u))
                                /\ SameEdits(p, SetActive(p, u))
<1>1. p \in Project
  BY DEF ValidProject
<1>4. /\ SetBin(p, x).sequence = p.sequence /\ Relink(p, x).sequence = p.sequence
      /\ \A u : AddTimeline(p, u).sequence = p.sequence
      /\ \A u : SetActive(p, u).sequence = p.sequence
  BY <1>1 DEF SetBin, Relink, AddTimeline, SetActive, Project
<1>5. ASSUME NEW u \in Timeline, NEW v \in Timeline
      PROVE  Rename(p, u, x).sequence[v].edits = p.sequence[v].edits
  <2>1. p.sequence \in [Timeline -> Sequence]
    BY <1>1 DEF Project
  <2>2. Rename(p, u, x).sequence
          = [p.sequence EXCEPT ![u] = [p.sequence[u] EXCEPT !.name = x]]
    BY <1>1 DEF Rename, Project
  <2>3. p.sequence[u] \in Sequence
    BY <2>1
  <2>4. [p.sequence[u] EXCEPT !.name = x].edits = p.sequence[u].edits
    BY <2>3 DEF Sequence
  <2> QED
    BY <2>1, <2>2, <2>4
<1>2. /\ SetBin(p, x).timelines = p.timelines
      /\ SetBin(p, x).sequence = p.sequence /\ SetBin(p, x).library = p.library
      /\ Relink(p, x).timelines = p.timelines
  BY <1>1 DEF SetBin, Relink, Project
<1>3. ASSUME NEW u \in Timeline
      PROVE  /\ Rename(p, u, x).timelines = p.timelines
             /\ Rename(p, u, x).library = p.library
             /\ u # t => Rename(p, u, x).sequence[t] = p.sequence[t]
             /\ AddTimeline(p, u).timelines = p.timelines \cup {u}
  BY <1>1 DEF Rename, AddTimeline, Project
<1>6. /\ MakeDocument(SetBin(p, x), t) = MakeDocument(p, t)
      /\ \A u \in Timeline :
           u # t => MakeDocument(Rename(p, u, x), t) = MakeDocument(p, t)
  BY <1>2, <1>3 DEF MakeDocument
<1>7. /\ SameEdits(p, SetBin(p, x)) /\ SameEdits(p, Relink(p, x))
      /\ \A u \in Timeline : SameEdits(p, AddTimeline(p, u))
      /\ \A u \in Timeline : SameEdits(p, SetActive(p, u))
      /\ \A u \in Timeline : SameEdits(p, Rename(p, u, x))
  BY <1>4, <1>5 DEF SameEdits
<1> QED
  BY <1>2, <1>3, <1>6, <1>7

\* The document a session shows is the one of its project.
LEMMA DocumentShown ==
  ASSUME Coherent(state)
  PROVE  state.document = MakeDocument(state.project, state.active)
BY DEF Coherent

\* Renaming the active timeline refreshes its document; another one leaves it.
LEMMA RenameItemKept ==
  ASSUME TypeOK, NEW t \in Timeline, NEW x \in Token, RenameItem(t, x)
  PROVE  Kept
<1> DEFINE p == Rename(state.project, t, x)
           d == IF t = state.active THEN MakeDocument(p, t) ELSE state.document
<1>1. state # Closed /\ Fresh(x) /\ ChangeProject("rename", p, d)
  BY DEF RenameItem, Idle
<1>2. Session(state)
  BY <1>1, GivenUp
<1>3. p \in ValidProject /\ SameEdits(state.project, p)
  BY <1>2, SessionFields, OperationType, OperationFields
<1>4. ASSUME Coherent(state) PROVE d = MakeDocument(p, state.active)
  <2>1. CASE t = state.active
    BY <2>1
  <2>2. CASE t # state.active
    <3>1. MakeDocument(p, state.active) = MakeDocument(state.project, state.active)
      BY <1>2, <2>2, SessionFields, OperationFields
    <3> QED
      BY <1>1, <1>4, <2>2, <3>1, DocumentShown
  <2> QED
    BY <2>1, <2>2
<1> HIDE DEF p
<1>5. d \in Documents
  BY <1>2, <1>3, SessionFields, MakeDocumentType
<1>6. UsedGrows
  BY <1>1, FreshType
<1> HIDE DEF d
<1> QED
  BY <1>1, <1>3, <1>4, <1>5, <1>6, ChangeProjectKept DEF Kinds

\* A place in a bin is no part of a document.
LEMMA MoveTimelineToBinKept ==
  ASSUME TypeOK, NEW x \in Token, MoveTimelineToBin(x)
  PROVE  Kept
<1> DEFINE p == SetBin(state.project, x)
<1>1. state # Closed /\ Fresh(x) /\ ChangeProject("bin", p, state.document)
  BY DEF MoveTimelineToBin, Idle
<1>2. Session(state)
  BY <1>1, GivenUp
<1>3. /\ p \in ValidProject /\ state.document \in Documents
      /\ SameEdits(state.project, p)
      /\ MakeDocument(p, state.active) = MakeDocument(state.project, state.active)
  BY <1>2, SessionFields, OperationType, OperationFields
<1> HIDE DEF p
<1>4. Coherent(state) => state.document = MakeDocument(p, state.active)
  BY <1>1, <1>3, DocumentShown
<1>5. UsedGrows
  BY <1>1, FreshType
<1> QED
  BY <1>1, <1>3, <1>4, <1>5, ChangeProjectKept DEF Kinds

\* Relinked media enter the document that is shown.
LEMMA RelinkMediaKept ==
  ASSUME TypeOK, NEW x \in Token, RelinkMedia(x)
  PROVE  Kept
<1> DEFINE p == Relink(state.project, x)
           d == MakeDocument(p, state.active)
<1>1. state # Closed /\ Fresh(x) /\ ChangeProject("relink", p, d)
  BY DEF RelinkMedia, Idle
<1>2. Session(state)
  BY <1>1, GivenUp
<1>3. p \in ValidProject /\ SameEdits(state.project, p)
  BY <1>2, SessionFields, OperationType, OperationFields
<1> HIDE DEF p
<1>4. d \in Documents
  BY <1>2, <1>3, SessionFields, MakeDocumentType
<1>5. UsedGrows
  BY <1>1, FreshType
<1> QED
  BY <1>1, <1>3, <1>4, <1>5, ChangeProjectKept DEF Kinds

\* The journal of the new timeline is missing: the save is refused.
LEMMA AddPendingTimelineKept ==
  ASSUME TypeOK, AddPendingTimeline
  PROVE  Kept
<1> DEFINE p == AddTimeline(state.project, state.pending)
<1>1. /\ state # Closed /\ state.pending \in Timeline \ state.project.timelines
      /\ ChangeProject("add", p, state.document) /\ used' = used
  BY DEF AddPendingTimeline
<1>2. Session(state)
  BY <1>1, GivenUp
<1>3. state.project \in ValidProject /\ state.document \in Documents
  BY <1>2, SessionFields
<1>4. p.timelines = state.project.timelines \cup {state.pending}
  BY <1>1, <1>3 DEF AddTimeline, ValidProject, Project
<1>5. p \in ValidProject
  BY <1>1, <1>3 DEF AddTimeline, ValidProject, Project
<1>6. p.timelines # state.project.timelines
  BY <1>1, <1>4
<1>7. SameEdits(state.project, p)
  BY <1>3 DEF AddTimeline, SameEdits, ValidProject, Project
<1> HIDE DEF p
<1> QED
  BY <1>1, <1>3, <1>5, <1>6, <1>7, NothingUsed, ChangeProjectKept DEF Kinds

\* A timeline with clips of its own.
Segments(p, t, x) == [AddTimeline(p, t) EXCEPT !.sequence[t].edits = {x}]

LEMMA SegmentsType ==
  ASSUME NEW p \in ValidProject, NEW t \in Timeline, NEW x \in Token,
         NEW n, n = Segments(p, t, x)
  PROVE  /\ n \in ValidProject
         /\ \A active \in p.timelines \cup {t} :
              [n EXCEPT !.active = active] \in ValidProject
         /\ n.timelines = p.timelines \cup {t}
         /\ n.active = p.active
         /\ n.sequence[t].edits = {x}
         /\ \A u \in Timeline \ {t} : n.sequence[u] = p.sequence[u]
<1>1. p \in Project /\ p.active \in p.timelines /\ p.timelines \subseteq Timeline
  BY DEF ValidProject, Project
<1> DEFINE a == AddTimeline(p, t)
<1>2. /\ a \in Project /\ a.timelines = p.timelines \cup {t}
      /\ a.active = p.active /\ a.sequence = p.sequence
  BY <1>1 DEF AddTimeline, Project
<1>11. n = [a EXCEPT !.sequence[t].edits = {x}]
  BY DEF Segments
<1> HIDE DEF a
<1>3. a.sequence[t] \in Sequence /\ a.sequence \in [Timeline -> Sequence]
  BY <1>2 DEF Project
<1>4. [a.sequence[t] EXCEPT !.edits = {x}] \in Sequence
  BY <1>3 DEF Sequence
<1>5. [a.sequence EXCEPT ![t] = [a.sequence[t] EXCEPT !.edits = {x}]]
        \in [Timeline -> Sequence]
  BY <1>3, <1>4
<1>6. /\ n \in Project /\ n.timelines = a.timelines /\ n.active = a.active
      /\ n.sequence = [a.sequence EXCEPT ![t] = [a.sequence[t] EXCEPT !.edits = {x}]]
  BY <1>2, <1>5, <1>11 DEF Project
<1>9. [a.sequence[t] EXCEPT !.edits = {x}].edits = {x}
  BY <1>3 DEF Sequence
<1>10. /\ n.sequence[t].edits = {x}
       /\ \A u \in Timeline \ {t} : n.sequence[u] = p.sequence[u]
  BY <1>2, <1>3, <1>6, <1>9
<1>7. n \in ValidProject
  BY <1>1, <1>2, <1>6 DEF ValidProject
<1>8. \A active \in p.timelines \cup {t} :
        [n EXCEPT !.active = active] \in ValidProject
  BY <1>1, <1>2, <1>6 DEF ValidProject, Project
<1> QED
  BY <1>2, <1>6, <1>7, <1>8, <1>10 DEF a

\* Refused for the same reason.
LEMMA CreateFromMediaKept ==
  ASSUME TypeOK, NEW t \in Timeline, NEW x \in Token,
         CreateTimelineFromSelectedMedia(t, x)
  PROVE  Kept
<1> DEFINE p == [AddTimeline(state.project, t) EXCEPT !.sequence[t].edits = {x}]
           plog == Apply(state.plog, ProjectEntry("add", state.project, p))
           next == [state EXCEPT !.project = p, !.plog = plog,
                                 !.domain = "Project", !.pending = t]
<1>1. /\ state # Closed /\ t \notin state.project.timelines
      /\ used' = used \cup {t, x}
      /\ Commit(Candidate(p, state.log, plog, state.rewound), next)
  BY DEF CreateTimelineFromSelectedMedia, Idle
<1>2. Session(state)
  BY <1>1, GivenUp
<1>3. state.project \in ValidProject /\ state.plog \in Log(ProjectEntries)
        /\ state.rewound \in SUBSET Timeline /\ state.project.active \in state.project.timelines
  BY <1>2, SessionFields DEF ValidProject
<1>4. p \in ValidProject /\ p.timelines = state.project.timelines \cup {t}
  <2>1. p = Segments(state.project, t, x)
    BY DEF Segments
  <2> HIDE DEF p
  <2> QED
    BY <1>3, <2>1, SegmentsType
<1> HIDE DEF p
<1>5. plog \in Log(ProjectEntries)
  BY <1>3, <1>4, ProjectEntryType, ApplyType DEF Kinds
<1>6. p.timelines # state.project.timelines
  BY <1>1, <1>4
<1>7. UsedGrows
  BY <1>1 DEF TypeOK, UsedGrows
<1> HIDE DEF plog, next
<1> QED
  BY <1>1, <1>3, <1>4, <1>5, <1>6, <1>7, ProjectKept

-----------------------------------------------------------------------------
(* Undo and redo.                                                          *)

\* The fields of the session that shows a restored project.
LEMMA RefreshedFields ==
  ASSUME Session(state), NEW kind, NEW p,
         state.active \in p.timelines
  PROVE  LET s == Refreshed(kind, p)
         IN  /\ DOMAIN s = DOMAIN state
             /\ s.project = p /\ s.active = state.active
             /\ s.document = MakeDocument(p, state.active)
             /\ s.log \in {state.log, state.logs[state.active]}
             /\ s.logs = state.logs /\ s.domain = state.domain
             /\ s.pending = state.pending
<1> DEFINE active == IF kind = "rename" \/ state.active \in p.timelines
                     THEN state.active ELSE p.active
           log == IF kind = "rename" THEN state.log
                  ELSE IF active \in DOMAIN state.logs THEN state.logs[active]
                  ELSE EmptyLog
<1>1. active = state.active
  OBVIOUS
<1>2. log \in {state.log, state.logs[state.active]}
  BY <1>1 DEF Session
<1> HIDE DEF active, log
<1>3. Refreshed(kind, p) = [state EXCEPT !.project = p, !.active = active,
                              !.log = log, !.document = MakeDocument(p, active)]
  BY DEF Refreshed, active, log
<1>4. DOMAIN state = {"project", "active", "document", "log", "logs", "plog",
                      "rewound", "domain", "pending"}
  BY DEF Session
<1> QED
  BY <1>1, <1>2, <1>3, <1>4

\* The whole project of an entry takes the place of the one that is open.
LEMMA RestoreProjectKept ==
  ASSUME TypeOK, state # Closed, NEW kind, NEW p \in ValidProject,
         NEW plog \in Log(ProjectEntries), RestoreProject(kind, p, plog),
         UsedGrows,
         SoundInv => /\ p \in MadeProjects(used')
                     /\ plog \in Log(MadeProjectEntries(used'))
  PROVE  Kept
<1> DEFINE rewound == state.rewound \cup Rewound(state.project, p)
           s == Refreshed(kind, p)
           next == [s EXCEPT !.plog = plog, !.rewound = rewound,
                             !.domain = "Project"]
<1>1. Session(state)
  BY GivenUp
<1>2. rewound \in SUBSET Timeline
  BY <1>1, SessionFields DEF Rewound
<1>8. \A t \in p.timelines \ rewound :
        t \notin state.rewound
        /\ p.sequence[t].edits = state.project.sequence[t].edits
  BY DEF Rewound, ValidProject, Project
<1>3. Commit(Candidate(p, state.log, plog, rewound), next)
  BY DEF RestoreProject
<1>4. ASSUME p.timelines = state.project.timelines
      PROVE  /\ DOMAIN s = DOMAIN state
             /\ s.project = p /\ s.active = state.active
             /\ s.document = MakeDocument(p, state.active)
             /\ s.log \in {state.log, state.logs[state.active]}
             /\ s.logs = state.logs /\ s.pending = state.pending
  BY <1>1, <1>4, SessionFields, RefreshedFields
<1>5. DOMAIN state = {"project", "active", "document", "log", "logs", "plog",
                      "rewound", "domain", "pending"}
  BY <1>1 DEF Session
<1> HIDE DEF rewound, s
<1>6. ASSUME p.timelines = state.project.timelines
      PROVE  /\ DOMAIN next = DOMAIN state
             /\ next.project = p /\ next.active = state.active
             /\ next.document = MakeDocument(p, state.active)
             /\ next.log \in {state.log, state.logs[state.active]}
             /\ next.logs = state.logs /\ next.pending = state.pending
             /\ next.plog = plog /\ next.rewound = rewound
             /\ next.domain = "Project"
  BY <1>4, <1>5, <1>6
<1> HIDE DEF next
<1>7. MakeDocument(p, state.active) \in Documents
        /\ state.pending \in Timeline \cup {None}
  BY <1>1, SessionFields, MakeDocumentType
<1> QED
  BY <1>2, <1>3, <1>6, <1>7, <1>8, ProjectKept

\* The projects of an entry.
LEMMA EntryProjects ==
  ASSUME NEW entry \in ProjectEntries
  PROVE  /\ entry.before \in ValidProject /\ entry.after \in ValidProject
         /\ \A u : entry \in MadeProjectEntries(u) =>
              entry.before \in MadeProjects(u) /\ entry.after \in MadeProjects(u)
BY DEF ProjectEntries, MadeProjectEntries

\* Cmd+Z, on either journal.
LEMMA MenuUndoKept ==
  ASSUME TypeOK, MenuUndo
  PROVE  Kept
<1> DEFINE edits == state.document.sequence.edits
           entry == Head(state.plog.applied)
<1>1. state # Closed /\ used' = used
  BY DEF MenuUndo, Idle
<1>2. Session(state) /\ UsedGrows /\ (SoundInv => Sound(state, used'))
  BY <1>1, GivenUp, NothingUsed DEF SoundInv
<1>3. CASE ProjectHistoryFirst(state.log.applied, state.plog.applied)
  <2>1. RestoreProject(entry.kind, entry.before, Undo(state.plog))
    BY <1>3 DEF MenuUndo
  <2>2. Undo(state.plog) \in Log(ProjectEntries) /\ entry \in ProjectEntries
    BY <1>2, <1>3, SessionFields, UndoType DEF ProjectHistoryFirst
  <2>3. SoundInv => /\ Undo(state.plog) \in Log(MadeProjectEntries(used'))
                    /\ entry \in MadeProjectEntries(used')
    BY <1>2, <1>3, UndoType DEF ProjectHistoryFirst, Sound
  <2> QED
    BY <1>1, <1>2, <2>1, <2>2, <2>3, EntryProjects, RestoreProjectKept
<1>4. CASE ~ProjectHistoryFirst(state.log.applied, state.plog.applied)
  <2>1. /\ Undoable(state.log, edits)
        /\ PersistEdit(UndoneEdits(state.log, edits), Undo(state.log))
    BY <1>4 DEF MenuUndo
  <2>2. edits \in SUBSET Token /\ state.log \in Log(TimelineEntries)
    BY <1>2, SessionFields DEF Documents, Sequence
  <2>3. SoundInv => EditsSound(UndoneEdits(state.log, edits), Undo(state.log))
    <3>1. SoundInv => Shown(used')
      BY <1>1, ShownSound
    <3> QED
      BY <2>1, <3>1, UndoSound DEF EditsSound, Shown
  <2> QED
    BY <1>1, <1>2, <2>1, <2>2, <2>3, UndoneType, PersistEditKept
<1> QED
  BY <1>3, <1>4

\* Cmd+Shift+Z, on either journal.
LEMMA MenuRedoKept ==
  ASSUME TypeOK, MenuRedo
  PROVE  Kept
<1> DEFINE edits == state.document.sequence.edits
           entry == Head(state.plog.undone)
<1>1. state # Closed /\ used' = used
  BY DEF MenuRedo, Idle
<1>2. Session(state) /\ UsedGrows /\ (SoundInv => Sound(state, used'))
  BY <1>1, GivenUp, NothingUsed DEF SoundInv
<1>3. CASE ProjectHistoryFirst(state.log.undone, state.plog.undone)
  <2>1. RestoreProject(entry.kind, entry.after, Redo(state.plog))
    BY <1>3 DEF MenuRedo
  <2>2. Redo(state.plog) \in Log(ProjectEntries) /\ entry \in ProjectEntries
    BY <1>2, <1>3, SessionFields, RedoType DEF ProjectHistoryFirst
  <2>3. SoundInv => /\ Redo(state.plog) \in Log(MadeProjectEntries(used'))
                    /\ entry \in MadeProjectEntries(used')
    BY <1>2, <1>3, RedoType DEF ProjectHistoryFirst, Sound
  <2> QED
    BY <1>1, <1>2, <2>1, <2>2, <2>3, EntryProjects, RestoreProjectKept
<1>4. CASE ~ProjectHistoryFirst(state.log.undone, state.plog.undone)
  <2>1. /\ Redoable(state.log, edits)
        /\ PersistEdit(RedoneEdits(state.log, edits), Redo(state.log))
    BY <1>4 DEF MenuRedo
  <2>2. edits \in SUBSET Token /\ state.log \in Log(TimelineEntries)
    BY <1>2, SessionFields DEF Documents, Sequence
  <2>3. SoundInv => EditsSound(RedoneEdits(state.log, edits), Redo(state.log))
    <3>1. SoundInv => Shown(used')
      BY <1>1, ShownSound
    <3> QED
      BY <2>1, <3>1, RedoSound DEF EditsSound, Shown
  <2> QED
    BY <1>1, <1>2, <2>1, <2>2, <2>3, UndoneType, PersistEditKept
<1> QED
  BY <1>3, <1>4

-----------------------------------------------------------------------------
(* Opening, recovering and leaving a project.                              *)

\* A generation is loaded as a session that shows it.
LEMMA LoadedType ==
  ASSUME NEW d, Generation(d)
  PROVE  /\ Session(Loaded(d)) /\ Shows(Loaded(d), d) /\ Coherent(Loaded(d))
         /\ \A u : Sound(d, u) => Sound(Loaded(d), u)
<1>1. /\ d.project \in ValidProject /\ d.project.active \in d.project.timelines
      /\ d.project.active \in Timeline
      /\ d.logs \in [d.project.timelines -> Log(TimelineEntries)]
      /\ d.plog \in Log(ProjectEntries) /\ d.rewound \subseteq Timeline
  BY DEF Generation, ValidProject, Project
<1>2. MakeDocument(d.project, d.project.active) \in Documents
  BY <1>1, MakeDocumentType
<1>3. Session(Loaded(d))
  BY <1>1, <1>2 DEF Session, Loaded, Documents
<1>4. Shows(Loaded(d), d)
  BY <1>1 DEF Shows, Loaded
<1>5. \A u : Sound(d, u) => Sound(Loaded(d), u)
  BY DEF Sound, Loaded
<1> QED
  BY <1>3, <1>4, <1>5 DEF Shows, Coherent

\* Opening a generation shows it.
LEMMA OpenedType ==
  ASSUME TypeOK, Generation(disk'), Opened, faults' \in Nat,
         autosave' = None \/ AutosaveFile(autosave'),
         SoundInv => /\ Sound(disk', used)
                     /\ autosave' # None => Sound(autosave'.envelope, used)
  PROVE  TypeOK' /\ DisplayedIsDurable' /\ (SoundInv => SoundInv')
<1>1. state' = Loaded(disk') /\ outcome' = outcome /\ used' = used
  BY DEF Opened
<1>2. Session(state') /\ Shows(state', disk')
  BY <1>1, LoadedType
<1>3. TypeOK'
  BY <1>1, <1>2 DEF TypeOK
<1>4. DisplayedIsDurable'
  BY <1>2 DEF DisplayedIsDurable, Shows
<1>5. SoundInv => Sound(state', used') /\ Coherent(state')
  BY <1>1, LoadedType
<1>6. SoundInv => SoundInv'
  BY <1>1, <1>5 DEF SoundInv, Coherent
<1> QED
  BY <1>3, <1>4, <1>6

\* Opening a project that has nothing to recover.
LEMMA OpenProjectKept ==
  ASSUME TypeOK, OpenProject
  PROVE  Kept
<1>1. disk' = disk /\ autosave' = autosave /\ faults' = faults /\ Opened
  BY DEF OpenProject
<1>4. SoundInv => /\ Sound(disk', used)
                  /\ autosave' # None => Sound(autosave'.envelope, used)
  BY <1>1 DEF SoundInv
<1>2. TypeOK' /\ DisplayedIsDurable' /\ (SoundInv => SoundInv')
  BY <1>1, <1>4, OpenedType DEF TypeOK
<1>3. OfferedAutosaveIsNewer => OfferedAutosaveIsNewer'
  BY <1>1 DEF OfferedAutosaveIsNewer, Available
<1> QED
  BY <1>2, <1>3 DEF Kept

\* Opening it without the autosave that is offered.
LEMMA IgnoreAutosaveKept ==
  ASSUME TypeOK, IgnoreAutosave
  PROVE  Kept
<1>1. disk' = disk /\ autosave' \in {None, autosave} /\ Opened
  BY DEF IgnoreAutosave
<1>2. faults' \in Nat
  BY DEF IgnoreAutosave, TypeOK
<1>5. SoundInv => /\ Sound(disk', used)
                  /\ autosave' # None => Sound(autosave'.envelope, used)
  BY <1>1 DEF SoundInv
<1>3. TypeOK' /\ DisplayedIsDurable' /\ (SoundInv => SoundInv')
  BY <1>1, <1>2, <1>5, OpenedType DEF TypeOK
<1>4. OfferedAutosaveIsNewer => OfferedAutosaveIsNewer'
  BY <1>1 DEF OfferedAutosaveIsNewer, Available
<1> QED
  BY <1>3, <1>4 DEF Kept

\* An autosave that is not offered any more is still one.
LEMMA OvertakenType ==
  ASSUME AutosaveFile(autosave)
  PROVE  /\ AutosaveFile([autosave EXCEPT !.newer = FALSE])
         /\ [autosave EXCEPT !.newer = FALSE].newer = FALSE
         /\ [autosave EXCEPT !.newer = FALSE].envelope = autosave.envelope
<1> DEFINE a == [autosave EXCEPT !.newer = FALSE]
<1>1. ASSUME NEW e, NEW n, NEW b, NEW v
      PROVE  [[envelope |-> e, newer |-> n, base |-> b] EXCEPT !.newer = v]
               = [envelope |-> e, newer |-> v, base |-> b]
  OBVIOUS
<1>2. autosave = [envelope |-> autosave.envelope, newer |-> autosave.newer,
                  base |-> autosave.base]
  BY DEF AutosaveFile
<1>3. a = [envelope |-> autosave.envelope, newer |-> FALSE,
           base |-> autosave.base]
  <2>1. a = [[envelope |-> autosave.envelope, newer |-> autosave.newer,
              base |-> autosave.base] EXCEPT !.newer = FALSE]
    BY <1>2, Zenon
  <2> HIDE DEF a
  <2> QED
    BY <1>1, <2>1, Zenon
<1>4. Generation(autosave.envelope) /\ Generation(autosave.base)
  BY DEF AutosaveFile
<1> HIDE DEF a
<1>5. /\ a.envelope = autosave.envelope /\ a.base = autosave.base
      /\ a.newer = FALSE
  BY <1>3, Zenon
<1>6. AutosaveFile(a)
  BY <1>3, <1>4, <1>5, Zenon DEF AutosaveFile
<1> QED
  BY <1>5, <1>6 DEF a

\* What recovering an autosave makes durable is a generation.
LEMMA RecoveredType ==
  ASSUME TypeOK, Available
  PROVE  /\ AutosaveFile(autosave)
         /\ Generation(Stored(disk, autosave.envelope))
         /\ Stored(disk, autosave.envelope) = autosave.envelope
<1>1. AutosaveFile(autosave)
  BY DEF TypeOK, Available
<1>2. Envelope(autosave.envelope)
  <2>1. Generation(autosave.envelope)
    BY <1>1 DEF AutosaveFile
  <2>2. autosave.envelope.logs
          \in [DOMAIN autosave.envelope.logs -> Log(TimelineEntries)]
    BY <2>1 DEF Generation
  <2> QED
    BY <2>1, <2>2 DEF Generation, Envelope
<1>3. ValidateTimelineLogs(autosave.envelope)
  BY <1>1 DEF AutosaveFile, Generation, ValidateTimelineLogs
<1> QED
  BY <1>1, <1>2, <1>3, StoredType, StoredWhole DEF TypeOK

\* Opening it with the autosave, ...
LEMMA RecoverAutosaveKept ==
  ASSUME TypeOK, RecoverAutosave
  PROVE  Kept
<1>1. /\ disk' = Stored(disk, autosave.envelope) /\ Available /\ Opened
      /\ autosave' \in {None, [autosave EXCEPT !.newer = FALSE]}
  BY DEF RecoverAutosave
<1>2. Generation(disk') /\ AutosaveFile(autosave)
  BY <1>1, RecoveredType
<1>3. (autosave' = None \/ AutosaveFile(autosave')) /\ ~Available'
  BY <1>1, <1>2, OvertakenType DEF Available
<1>4. faults' \in Nat
  BY DEF RecoverAutosave, TypeOK
<1>6. SoundInv => /\ Sound(disk', used)
                  /\ autosave' # None => Sound(autosave'.envelope, used)
  BY <1>1, <1>2, RecoveredType, OvertakenType DEF SoundInv, Available
<1>5. TypeOK' /\ DisplayedIsDurable' /\ (SoundInv => SoundInv')
  BY <1>1, <1>2, <1>3, <1>4, <1>6, OpenedType
<1> QED
  BY <1>3, <1>5 DEF Kept, OfferedAutosaveIsNewer

\* ... and being stopped after its commit.
LEMMA RecoverAutosaveStoppedKept ==
  ASSUME TypeOK, RecoverAutosaveStopped
  PROVE  Kept
<1>1. /\ disk' = Stored(disk, autosave.envelope) /\ Available
      /\ autosave' = [autosave EXCEPT !.newer = FALSE] /\ faults' = faults
      /\ state = Closed /\ state' = state /\ outcome' = outcome /\ used' = used
  BY DEF RecoverAutosaveStopped
<1>2. Generation(disk') /\ AutosaveFile(autosave)
  BY <1>1, RecoveredType
<1>3. AutosaveFile(autosave') /\ ~Available'
  BY <1>1, <1>2, OvertakenType DEF Available
<1>4. TypeOK'
  BY <1>1, <1>2, <1>3 DEF TypeOK
<1>5. SoundInv => SoundInv'
  BY <1>1, <1>2, RecoveredType, OvertakenType DEF SoundInv, Available
<1> QED
  BY <1>1, <1>3, <1>4, <1>5 DEF Kept, OfferedAutosaveIsNewer, DisplayedIsDurable

\* Leaving the project.
LEMMA QuitKept ==
  ASSUME TypeOK, Quit
  PROVE  Kept
<1>1. /\ state' = Closed /\ disk' = disk /\ autosave' = autosave
      /\ outcome' = outcome /\ used' = used /\ faults' = faults
  BY DEF Quit
<1>2. TypeOK'
  BY <1>1 DEF TypeOK
<1>3. OfferedAutosaveIsNewer => OfferedAutosaveIsNewer'
  BY <1>1 DEF OfferedAutosaveIsNewer, Available
<1>4. SoundInv => SoundInv'
  BY <1>1 DEF SoundInv
<1> QED
  BY <1>1, <1>2, <1>3, <1>4 DEF Kept, DisplayedIsDurable

-----------------------------------------------------------------------------
(* The commands.                                                           *)

\* What a command keeps; what is shown, only when commands and the application
\* do not run together.
CommandKept ==
  /\ TypeOK'
  /\ OfferedAutosaveIsNewer'
  /\ "open" \notin Commands => DisplayedIsDurable'
  /\ SoundInv => SoundInv'

\* What a command has to commit to keep it.
LEMMA CommitStoredKept ==
  ASSUME TypeOK, NEW p \in ValidProject, NEW logs,
         logs \in [DOMAIN logs -> Log(TimelineEntries)],
         NEW plog \in Log(ProjectEntries), NEW rewound \in SUBSET Timeline,
         CommitStored(p, logs, plog, rewound), UsedGrows,
         SoundInv => Storable(disk, [project |-> p, logs |-> logs, plog |-> plog,
                                     rewound |-> rewound], used')
  PROVE  CommandKept
<1> DEFINE e == [project |-> p, logs |-> logs, plog |-> plog,
                 rewound |-> rewound]
<1>1. /\ disk' = Stored(disk, e) /\ CommandsRun
      /\ autosave' = IF autosave = None THEN None
                     ELSE [autosave EXCEPT !.newer = FALSE]
      /\ state' = state /\ outcome' = outcome /\ faults' = faults
  BY DEF CommitStored
<1>2. Envelope(e)
  BY DEF Envelope
<1> HIDE DEF e
<1>3. Generation(disk')
  BY <1>1, <1>2, StoredType DEF TypeOK
<1>4. (autosave' = None \/ AutosaveFile(autosave')) /\ ~Available'
  <2>1. CASE autosave = None
    BY <1>1, <2>1 DEF Available
  <2>2. CASE autosave # None
    <3>1. AutosaveFile(autosave)
      BY <2>2 DEF TypeOK
    <3>2. AutosaveFile(autosave') /\ autosave'.newer = FALSE
      BY <1>1, <2>2, <3>1, OvertakenType
    <3> QED
      BY <3>2 DEF Available
  <2> QED
    BY <2>1, <2>2
<1>5. TypeOK'
  BY <1>1, <1>3, <1>4 DEF TypeOK, UsedGrows
<1>6. "open" \notin Commands => state' = Closed
  BY <1>1 DEF CommandsRun
<1>7. SoundInv => SoundInv'
  <2> SUFFICES ASSUME SoundInv PROVE SoundInv'
    OBVIOUS
  <2>1. /\ Sound(disk, used')
        /\ autosave # None => Sound(autosave.envelope, used')
        /\ state # Closed => Sound(state, used') /\ Coherent(state)
    BY SoundGrows DEF SoundInv, UsedGrows
  <2>2. Sound(disk', used')
    BY <1>1, <1>2, <2>1, StoredSound DEF e
  <2>3. autosave' # None => Sound(autosave'.envelope, used')
    BY <1>1, <2>1, OvertakenType DEF TypeOK
  <2> QED
    BY <1>1, <2>1, <2>2, <2>3 DEF SoundInv, Coherent
<1> QED
  BY <1>4, <1>5, <1>6, <1>7 DEF CommandKept, OfferedAutosaveIsNewer, DisplayedIsDurable

\* The durable generation, as its type has it.
LEMMA DiskFields ==
  ASSUME TypeOK
  PROVE  /\ disk.project \in ValidProject
         /\ disk.project.timelines \subseteq Timeline
         /\ disk.project.active \in disk.project.timelines
         /\ disk.logs \in [disk.project.timelines -> Log(TimelineEntries)]
         /\ disk.plog \in Log(ProjectEntries)
         /\ disk.rewound \in SUBSET Timeline
         /\ \A t \in disk.project.timelines :
              disk.project.sequence[t].edits \in SUBSET Token
BY DEF TypeOK, Generation, ValidProject, Project, Sequence

\* A command on a timeline.
LEMMA TimelineCommandKept ==
  ASSUME TypeOK, NEW t \in disk.project.timelines, NEW edits \in SUBSET Token,
         NEW log \in Log(TimelineEntries), CommitTimelineCommand(t, edits, log),
         UsedGrows,
         SoundInv => /\ edits \subseteq used' /\ log \in Log(MadeEntries(used'))
                     /\ t \in disk.rewound \/ Describes(log, edits)
  PROVE  CommandKept
<1> DEFINE p == [disk.project EXCEPT !.sequence[t].edits = edits]
           logs == With(NoLogs, t, log)
<1>1. disk.project \in Project /\ t \in Timeline
        /\ disk.project.active \in disk.project.timelines
  BY DiskFields DEF ValidProject
<1>2. p \in ValidProject
  <2>1. disk.project.sequence \in [Timeline -> Sequence]
    BY <1>1 DEF Project
  <2>2. [disk.project.sequence[t] EXCEPT !.edits = edits] \in Sequence
    BY <1>1, <2>1 DEF Sequence
  <2>3. [disk.project.sequence EXCEPT ![t] =
           [disk.project.sequence[t] EXCEPT !.edits = edits]]
          \in [Timeline -> Sequence]
    BY <2>1, <2>2
  <2> QED
    BY <1>1, <2>3 DEF ValidProject, Project
<1>3. logs \in [DOMAIN logs -> Log(TimelineEntries)]
  BY DEF With, NoLogs
<1>4. CommitStored(p, logs, EmptyLog, disk.rewound)
  BY DEF CommitTimelineCommand
<1>5. /\ p.timelines = disk.project.timelines /\ p.sequence[t].edits = edits
      /\ \A u \in Timeline \ {t} : p.sequence[u] = disk.project.sequence[u]
  <2>1. p.sequence = [disk.project.sequence EXCEPT ![t] =
                        [disk.project.sequence[t] EXCEPT !.edits = edits]]
          /\ p.timelines = disk.project.timelines
    BY <1>1 DEF Project
  <2>2. disk.project.sequence \in [Timeline -> Sequence]
    BY <1>1 DEF Project
  <2>3. [disk.project.sequence[t] EXCEPT !.edits = edits].edits = edits
    BY <1>1, <2>2 DEF Sequence
  <2> HIDE DEF p
  <2> QED
    BY <1>1, <2>1, <2>2, <2>3
<1>6. DOMAIN logs = {t} /\ logs[t] = log
  BY DEF With, NoLogs
<1> HIDE DEF p
<1>7. SoundInv => Storable(disk, [project |-> p, logs |-> logs, plog |-> EmptyLog,
                                  rewound |-> disk.rewound], used')
  <2> SUFFICES ASSUME SoundInv
               PROVE  Storable(disk, [project |-> p, logs |-> logs,
                                      plog |-> EmptyLog,
                                      rewound |-> disk.rewound], used')
    OBVIOUS
  <2>1. Sound(disk, used')
    BY SoundGrows DEF SoundInv, UsedGrows
  <2>2. p \in MadeProjects(used')
    BY <1>1, <1>2, <1>5, <2>1 DEF MadeProjects, Sound
  <2>3. logs \in [DOMAIN logs -> Log(MadeEntries(used'))]
    BY DEF With, NoLogs
  <2>4. EmptyLog \in Log(MadeProjectEntries(used'))
    BY EmptyLogType
  <2> HIDE DEF logs
  <2>5. \A u \in p.timelines \ disk.rewound :
          /\ u \in DOMAIN logs => Describes(logs[u], p.sequence[u].edits)
          /\ u \in DOMAIN disk.logs \ DOMAIN logs =>
               Describes(disk.logs[u], p.sequence[u].edits)
    BY <1>1, <1>5, <1>6, <2>1, DiskFields DEF Sound
  <2> QED
    BY <2>2, <2>3, <2>4, <2>5 DEF Storable
<1> HIDE DEF logs
<1> QED
  BY <1>2, <1>3, <1>4, <1>7, DiskFields, EmptyLogType, CommitStoredKept

\* The durable journal of a timeline, as it was before the step.
StoredJournal(t, u) ==
  /\ disk.project.sequence[t].edits \subseteq u
  /\ disk.logs[t] \in Log(MadeEntries(u))
  /\ t \in disk.rewound \/ Describes(disk.logs[t], disk.project.sequence[t].edits)

LEMMA StoredJournalSound ==
  ASSUME TypeOK, SoundInv, NEW t \in disk.project.timelines
  PROVE  StoredJournal(t, used)
<1>1. Sound(disk, used) /\ t \in Timeline
  BY DiskFields DEF SoundInv
<1> QED
  BY <1>1 DEF Sound, StoredJournal, MadeProjects

\* A timeline operation of a command, ...
LEMMA ApplyOpKept ==
  ASSUME TypeOK, NEW t \in Timeline, NEW x \in Token, NEW exact \in BOOLEAN,
         ApplyOp(t, x, exact)
  PROVE  CommandKept
<1> DEFINE edits == disk.project.sequence[t].edits
           log == Apply(disk.logs[t], TimelineEntry(edits, x, exact))
<1>1. /\ t \in disk.project.timelines /\ Fresh(x)
      /\ CommitTimelineCommand(t, edits \cup {x}, log)
  BY DEF ApplyOp
<1>2. edits \in SUBSET Token /\ disk.logs[t] \in Log(TimelineEntries)
  BY <1>1, DiskFields
<1>3. edits \cup {x} \in SUBSET Token /\ log \in Log(TimelineEntries)
  BY <1>2, EditsType, ApplyType
<1>4. SoundInv => /\ edits \cup {x} \subseteq used' /\ log \in Log(MadeEntries(used'))
                  /\ t \in disk.rewound \/ Describes(log, edits \cup {x})
  <2> SUFFICES ASSUME SoundInv
               PROVE  /\ edits \cup {x} \subseteq used'
                      /\ log \in Log(MadeEntries(used'))
                      /\ t \in disk.rewound \/ Describes(log, edits \cup {x})
    OBVIOUS
  <2>1. StoredJournal(t, used)
    BY <1>1, StoredJournalSound
  <2>2. x \notin used /\ used' = used \cup {x}
    BY <1>1 DEF Fresh
  <2>3. /\ log \in Log(MadeEntries(used'))
        /\ Describes(disk.logs[t], edits) => Describes(log, edits \cup {x})
    BY <1>2, <2>1, <2>2, ApplySound DEF StoredJournal
  <2> QED
    BY <2>1, <2>2, <2>3 DEF StoredJournal
<1> QED
  BY <1>1, <1>3, <1>4, FreshType, TimelineCommandKept

\* ... its undo and its redo.
LEMMA UndoRedoOpKept ==
  ASSUME TypeOK, NEW t \in Timeline, UndoOp(t) \/ RedoOp(t)
  PROVE  CommandKept
<1> DEFINE edits == disk.project.sequence[t].edits
<1>1. t \in disk.project.timelines /\ used' = used
  BY DEF UndoOp, RedoOp
<1>2. edits \in SUBSET Token /\ disk.logs[t] \in Log(TimelineEntries)
  BY <1>1, DiskFields
<1>3. UsedGrows /\ (SoundInv => StoredJournal(t, used'))
  BY <1>1, NothingUsed, StoredJournalSound
<1>4. CASE UndoOp(t)
  <2>1. /\ Undoable(disk.logs[t], edits)
        /\ CommitTimelineCommand(t, UndoneEdits(disk.logs[t], edits),
                                 Undo(disk.logs[t]))
    BY <1>4 DEF UndoOp
  <2>2. SoundInv =>
          /\ UndoneEdits(disk.logs[t], edits) \subseteq used'
          /\ Undo(disk.logs[t]) \in Log(MadeEntries(used'))
          /\ t \in disk.rewound
               \/ Describes(Undo(disk.logs[t]), UndoneEdits(disk.logs[t], edits))
    BY <1>3, <2>1, UndoSound DEF StoredJournal
  <2> QED
    BY <1>1, <1>2, <1>3, <2>1, <2>2, UndoneType, TimelineCommandKept
<1>5. CASE RedoOp(t)
  <2>1. /\ Redoable(disk.logs[t], edits)
        /\ CommitTimelineCommand(t, RedoneEdits(disk.logs[t], edits),
                                 Redo(disk.logs[t]))
    BY <1>5 DEF RedoOp
  <2>2. SoundInv =>
          /\ RedoneEdits(disk.logs[t], edits) \subseteq used'
          /\ Redo(disk.logs[t]) \in Log(MadeEntries(used'))
          /\ t \in disk.rewound
               \/ Describes(Redo(disk.logs[t]), RedoneEdits(disk.logs[t], edits))
    BY <1>3, <2>1, RedoSound DEF StoredJournal
  <2> QED
    BY <1>1, <1>2, <1>3, <2>1, <2>2, UndoneType, TimelineCommandKept
<1> QED
  BY <1>4, <1>5

\* A command that gives no journal keeps the ones of the timelines that stay.
LEMMA KeptJournals ==
  ASSUME TypeOK, NEW u, Sound(disk, u), NEW p \in MadeProjects(u),
         NEW plog \in Log(MadeProjectEntries(u)), NEW rewound,
         disk.rewound \subseteq rewound,
         \A t \in (p.timelines \cap disk.project.timelines) \ rewound :
           p.sequence[t].edits = disk.project.sequence[t].edits
  PROVE  Storable(disk, [project |-> p, logs |-> NoLogs, plog |-> plog,
                         rewound |-> rewound], u)
<1>1. DOMAIN NoLogs = {} /\ NoLogs \in [DOMAIN NoLogs -> Log(MadeEntries(u))]
  BY DEF NoLogs
<1>2. DOMAIN disk.logs = disk.project.timelines
  BY DiskFields
<1>3. ASSUME NEW t \in p.timelines \ rewound, t \in DOMAIN disk.logs
      PROVE  Describes(disk.logs[t], p.sequence[t].edits)
  BY <1>2, <1>3 DEF Sound
<1> QED
  BY <1>1, <1>3 DEF Storable

\* A command on the project.
LEMMA ProjectCommandKept ==
  ASSUME TypeOK, NEW kind \in Kinds, NEW p \in ValidProject,
         CommitProjectCommand(kind, p), UsedGrows,
         SoundInv => /\ p \in MadeProjects(used')
                     /\ \A t \in p.timelines \cap disk.project.timelines :
                          p.sequence[t].edits = disk.project.sequence[t].edits
  PROVE  CommandKept
<1> DEFINE plog == Apply(disk.plog, ProjectEntry(kind, disk.project, p))
<1>1. CommitStored(p, NoLogs, plog, disk.rewound)
  BY DEF CommitProjectCommand
<1>2. plog \in Log(ProjectEntries)
  BY DiskFields, ProjectEntryType, ApplyType
<1>3. NoLogs \in [DOMAIN NoLogs -> Log(TimelineEntries)]
  BY DEF NoLogs
<1>4. ASSUME SoundInv
      PROVE  Storable(disk, [project |-> p, logs |-> NoLogs, plog |-> plog,
                             rewound |-> disk.rewound], used')
  <2>1. Sound(disk, used')
    BY <1>4, SoundGrows DEF SoundInv, UsedGrows
  <2>2. plog \in Log(MadeProjectEntries(used'))
    BY <1>4, <2>1, ProjectEntrySound DEF Sound
  <2> QED
    BY <1>4, <2>1, <2>2, KeptJournals
<1> HIDE DEF plog
<1> QED
  BY <1>1, <1>2, <1>3, <1>4, DiskFields, CommitStoredKept

\* Removing a timeline leaves a project that shows another one.
LEMMA RemoveTimelineType ==
  ASSUME NEW p \in ValidProject, NEW t \in p.timelines,
         NEW front \in p.timelines \ {t}
  PROVE  LET n == RemoveTimeline(p, t, front)
         IN  /\ n \in ValidProject
             /\ \A u : p \in MadeProjects(u) => n \in MadeProjects(u)
             /\ \A v \in n.timelines : n.sequence[v].edits = p.sequence[v].edits
<1>1. p \in Project /\ t \in Timeline /\ front \in Timeline
        /\ p.active \in p.timelines
  BY DEF ValidProject, Project
<1>2. NewSequence \in Sequence
  BY DEF NewSequence, Sequence
<1>3. [p.sequence EXCEPT ![t] = NewSequence] \in [Timeline -> Sequence]
  BY <1>1, <1>2 DEF Project
<1> DEFINE active == IF p.active = t THEN front ELSE p.active
<1>4. active \in p.timelines \ {t} /\ active \in Timeline
  BY <1>1 DEF Project
<1> HIDE DEF active
<1>5. RemoveTimeline(p, t, front)
        = [p EXCEPT !.timelines = p.timelines \ {t},
                    !.sequence = [p.sequence EXCEPT ![t] = NewSequence],
                    !.active = active]
  BY DEF RemoveTimeline, active
<1>6. PICK n : n = RemoveTimeline(p, t, front)
  OBVIOUS
<1>7. n \in ValidProject
  BY <1>1, <1>3, <1>4, <1>5, <1>6 DEF ValidProject, Project
<1>8. /\ n.timelines = p.timelines \ {t}
      /\ n.sequence = [p.sequence EXCEPT ![t] = NewSequence]
  BY <1>1, <1>5, <1>6 DEF Project
<1>9. p.sequence \in [Timeline -> Sequence] /\ NewSequence.edits = {}
      /\ p.timelines \subseteq Timeline
  BY <1>1 DEF Project, NewSequence
<1>10. \A v \in Timeline : v # t => n.sequence[v] = p.sequence[v]
  BY <1>8, <1>9
<1>11. \A v \in n.timelines : n.sequence[v].edits = p.sequence[v].edits
  BY <1>8, <1>9, <1>10
<1>12. n.sequence[t].edits = {}
  BY <1>1, <1>8, <1>9
<1>13. \A u : p \in MadeProjects(u) => n \in MadeProjects(u)
  BY <1>7, <1>8, <1>10, <1>12 DEF MadeProjects
<1> QED
  BY <1>6, <1>7, <1>11, <1>13

\* A command that makes no edit and whose timelines are used.
LEMMA SameEditsSound ==
  ASSUME TypeOK, UsedGrows, NEW q \in ValidProject, SameEdits(disk.project, q),
         q.timelines \subseteq disk.project.timelines \cup used'
  PROVE  SoundInv => /\ q \in MadeProjects(used')
                     /\ \A u \in q.timelines \cap disk.project.timelines :
                          q.sequence[u].edits = disk.project.sequence[u].edits
<1> SUFFICES ASSUME SoundInv
             PROVE  /\ q \in MadeProjects(used')
                    /\ \A u \in q.timelines \cap disk.project.timelines :
                         q.sequence[u].edits = disk.project.sequence[u].edits
  OBVIOUS
<1>1. disk.project \in MadeProjects(used')
  BY SoundGrows DEF SoundInv, UsedGrows, Sound
<1>2. q \in MadeProjects(used')
  BY <1>1 DEF MadeProjects, SameEdits
<1> QED
  BY <1>2, DiskFields DEF SameEdits

\* The project operations that bring a value in, ...
LEMMA ValueCommandKept ==
  ASSUME TypeOK, NEW x \in Token, NEW t \in Timeline,
         RenameProjectOp(t, x) \/ SetProjectBinOp(x) \/ RelinkProjectOp(x)
  PROVE  CommandKept
<1>1. /\ Rename(disk.project, t, x) \in ValidProject
      /\ SetBin(disk.project, x) \in ValidProject
      /\ Relink(disk.project, x) \in ValidProject
  BY DiskFields, OperationType
<1>2. Fresh(x)
  BY DEF RenameProjectOp, SetProjectBinOp, RelinkProjectOp
<1>4. ASSUME NEW q \in ValidProject, SameEdits(disk.project, q),
             q.timelines = disk.project.timelines
      PROVE  SoundInv => /\ q \in MadeProjects(used')
                         /\ \A u \in q.timelines \cap disk.project.timelines :
                              q.sequence[u].edits = disk.project.sequence[u].edits
  BY <1>2, <1>4, FreshType, SameEditsSound
<1>5. /\ SameEdits(disk.project, Rename(disk.project, t, x))
      /\ SameEdits(disk.project, SetBin(disk.project, x))
      /\ SameEdits(disk.project, Relink(disk.project, x))
      /\ Rename(disk.project, t, x).timelines = disk.project.timelines
      /\ SetBin(disk.project, x).timelines = disk.project.timelines
      /\ Relink(disk.project, x).timelines = disk.project.timelines
  BY DiskFields, OperationFields
<1>3. \/ CommitProjectCommand("rename", Rename(disk.project, t, x))
      \/ CommitProjectCommand("bin", SetBin(disk.project, x))
      \/ CommitProjectCommand("relink", Relink(disk.project, x))
  BY DEF RenameProjectOp, SetProjectBinOp, RelinkProjectOp
<1> QED
  BY <1>1, <1>2, <1>3, <1>4, <1>5, FreshType, ProjectCommandKept DEF Kinds

\* ... the ones on the set of timelines, ...
LEMMA TimelineSetCommandKept ==
  ASSUME TypeOK, NEW t \in Timeline,
         \/ SetActiveProjectTimelineOp(t)
         \/ AddProjectTimelineOp(t)
         \/ RemoveProjectTimelineOp(t)
  PROVE  CommandKept
<1>1. CASE SetActiveProjectTimelineOp(t)
  <2>1. /\ t \in disk.project.timelines /\ used' = used
        /\ CommitProjectCommand("active", SetActive(disk.project, t))
    BY <1>1 DEF SetActiveProjectTimelineOp
  <2>2. /\ SetActive(disk.project, t) \in ValidProject
        /\ SetActive(disk.project, t).timelines = disk.project.timelines
        /\ SetActive(disk.project, t).sequence = disk.project.sequence
    BY <2>1, DiskFields DEF SetActive, ValidProject, Project
  <2>3. SameEdits(disk.project, SetActive(disk.project, t))
    BY <2>2 DEF SameEdits
  <2> QED
    BY <2>1, <2>2, <2>3, NothingUsed, SameEditsSound, ProjectCommandKept DEF Kinds
<1>2. CASE AddProjectTimelineOp(t)
  <2>1. /\ Fresh(t)
        /\ CommitProjectCommand("add", AddTimeline(disk.project, t))
    BY <1>2 DEF AddProjectTimelineOp
  <2>2. /\ AddTimeline(disk.project, t) \in ValidProject
        /\ AddTimeline(disk.project, t).timelines = disk.project.timelines \cup {t}
        /\ AddTimeline(disk.project, t).sequence = disk.project.sequence
    BY DiskFields DEF AddTimeline, ValidProject, Project
  <2>3. SameEdits(disk.project, AddTimeline(disk.project, t)) /\ t \in used'
    BY <2>1, <2>2 DEF SameEdits, Fresh
  <2> QED
    BY <2>1, <2>2, <2>3, FreshType, SameEditsSound, ProjectCommandKept DEF Kinds
<1>3. CASE RemoveProjectTimelineOp(t)
  <2>1. t \in disk.project.timelines /\ used' = used
    BY <1>3 DEF RemoveProjectTimelineOp
  <2>2. PICK front \in disk.project.timelines \ {t} :
          CommitProjectCommand("remove", RemoveTimeline(disk.project, t, front))
    BY <1>3 DEF RemoveProjectTimelineOp
  <2> DEFINE n == RemoveTimeline(disk.project, t, front)
  <2>3. /\ n \in ValidProject
        /\ \A u : disk.project \in MadeProjects(u) => n \in MadeProjects(u)
        /\ \A v \in n.timelines :
             n.sequence[v].edits = disk.project.sequence[v].edits
    BY <2>1, <2>2, DiskFields, RemoveTimelineType
  <2> HIDE DEF n
  <2>4. SoundInv => disk.project \in MadeProjects(used')
    BY <2>1 DEF SoundInv, Sound
  <2>5. CommitProjectCommand("remove", n)
    BY <2>2 DEF n
  <2> QED
    BY <2>1, <2>3, <2>4, <2>5, NothingUsed, ProjectCommandKept DEF Kinds
<1> QED
  BY <1>1, <1>2, <1>3

\* ... the one that brings both, ...
LEMMA CreateFromSegmentsOpKept ==
  ASSUME TypeOK, NEW t \in Timeline, NEW x \in Token, NEW makeActive \in BOOLEAN,
         CreateFromSegmentsOp(t, x, makeActive)
  PROVE  CommandKept
<1> DEFINE a == AddTimeline(disk.project, t)
           n == [a EXCEPT !.sequence[t].edits = {x}]
           p == [a EXCEPT !.sequence[t].edits = {x},
                          !.active = IF makeActive THEN t ELSE @]
           active == IF makeActive THEN t ELSE n.active
<1>1. /\ used' = used \cup {t, x} /\ CommitProjectCommand("add", p)
      /\ t \notin used
  BY DEF CreateFromSegmentsOp
<1>2. /\ n \in ValidProject /\ n.active = disk.project.active
      /\ n.timelines = disk.project.timelines \cup {t}
      /\ n.sequence[t].edits = {x}
      /\ \A u \in Timeline \ {t} : n.sequence[u] = disk.project.sequence[u]
  <2>1. n = Segments(disk.project, t, x)
    BY DEF Segments
  <2> HIDE DEF n
  <2> QED
    BY <2>1, DiskFields, SegmentsType
<1>3. active \in disk.project.timelines \cup {t}
  BY <1>2, DiskFields
<1>4. p = [n EXCEPT !.active = active]
  OBVIOUS
<1> HIDE DEF active
<1>5. p \in ValidProject
  <2>1. [n EXCEPT !.active = active] \in ValidProject
    <3>1. n = Segments(disk.project, t, x)
      BY DEF Segments
    <3> HIDE DEF n
    <3> QED
      BY <1>3, <3>1, DiskFields, SegmentsType
  <2> QED
    BY <1>4, <2>1, Zenon
<1>7. p.timelines = n.timelines /\ p.sequence = n.sequence
  <2>1. n \in Project
    BY <1>2 DEF ValidProject
  <2> HIDE DEF n, p
  <2> QED
    BY <1>4, <2>1 DEF Project
<1> HIDE DEF p, n
<1>6. UsedGrows
  BY <1>1 DEF TypeOK, UsedGrows
<1>8. ASSUME SoundInv
      PROVE  /\ p \in MadeProjects(used')
             /\ \A u \in p.timelines \cap disk.project.timelines :
                  p.sequence[u].edits = disk.project.sequence[u].edits
  <2>1. disk.project \in MadeProjects(used) /\ disk.project \in MadeProjects(used')
    BY <1>6, <1>8, SoundGrows DEF SoundInv, UsedGrows, Sound
  <2>2. t \notin disk.project.timelines
    BY <1>1, <2>1 DEF MadeProjects
  <2>3. p \in MadeProjects(used')
    BY <1>1, <1>2, <1>5, <1>7, <2>1 DEF MadeProjects
  <2> QED
    BY <1>2, <1>7, <2>2, <2>3, DiskFields
<1> QED
  BY <1>1, <1>5, <1>6, <1>8, ProjectCommandKept DEF Kinds

\* ... and the undo and the redo of the project journal.
LEMMA RestoreCommandKept ==
  ASSUME TypeOK, UndoProjectOp \/ RedoProjectOp
  PROVE  CommandKept
<1>1. NoLogs \in [DOMAIN NoLogs -> Log(TimelineEntries)]
  BY DEF NoLogs
<1>2. ASSUME NEW p
      PROVE  disk.rewound \cup Rewound(disk.project, p) \in SUBSET Timeline
  BY DiskFields DEF Rewound
<1>3. UsedGrows /\ used' = used
  BY NothingUsed DEF UndoProjectOp, RedoProjectOp
<1>6. ASSUME SoundInv, NEW p \in MadeProjects(used), NEW plog \in Log(MadeProjectEntries(used))
      PROVE  Storable(disk, [project |-> p, logs |-> NoLogs, plog |-> plog,
                             rewound |-> disk.rewound \cup Rewound(disk.project, p)],
                      used')
  <2>1. Sound(disk, used)
    BY <1>6 DEF SoundInv
  <2>2. \A t \in (p.timelines \cap disk.project.timelines)
                 \ (disk.rewound \cup Rewound(disk.project, p)) :
          p.sequence[t].edits = disk.project.sequence[t].edits
    BY DiskFields DEF Rewound
  <2> QED
    BY <1>3, <1>6, <2>1, <2>2, KeptJournals
<1>4. CASE UndoProjectOp
  <2> DEFINE p == Head(disk.plog.applied).before
  <2>1. /\ disk.plog.applied # <<>>
        /\ CommitStored(p, NoLogs, Undo(disk.plog),
                        disk.rewound \cup Rewound(disk.project, p))
    BY <1>4 DEF UndoProjectOp
  <2>2. Undo(disk.plog) \in Log(ProjectEntries) /\ p \in ValidProject
    BY <2>1, DiskFields, UndoType, EntryProjects
  <2>3. SoundInv => /\ p \in MadeProjects(used)
                    /\ Undo(disk.plog) \in Log(MadeProjectEntries(used))
    <3>1. SoundInv => /\ Head(disk.plog.applied) \in MadeProjectEntries(used)
                      /\ Undo(disk.plog) \in Log(MadeProjectEntries(used))
      BY <2>1, UndoType DEF SoundInv, Sound
    <3> QED
      BY <3>1 DEF MadeProjectEntries
  <2> HIDE DEF p
  <2> QED
    BY <1>1, <1>2, <1>3, <1>6, <2>1, <2>2, <2>3, CommitStoredKept
<1>5. CASE RedoProjectOp
  <2> DEFINE p == Head(disk.plog.undone).after
  <2>1. /\ disk.plog.undone # <<>>
        /\ CommitStored(p, NoLogs, Redo(disk.plog),
                        disk.rewound \cup Rewound(disk.project, p))
    BY <1>5 DEF RedoProjectOp
  <2>2. Redo(disk.plog) \in Log(ProjectEntries) /\ p \in ValidProject
    BY <2>1, DiskFields, RedoType, EntryProjects
  <2>3. SoundInv => /\ p \in MadeProjects(used)
                    /\ Redo(disk.plog) \in Log(MadeProjectEntries(used))
    <3>1. SoundInv => /\ Head(disk.plog.undone) \in MadeProjectEntries(used)
                      /\ Redo(disk.plog) \in Log(MadeProjectEntries(used))
      BY <2>1, RedoType DEF SoundInv, Sound
    <3> QED
      BY <3>1 DEF MadeProjectEntries
  <2> HIDE DEF p
  <2> QED
    BY <1>1, <1>2, <1>3, <1>6, <2>1, <2>2, <2>3, CommitStoredKept
<1> QED
  BY <1>4, <1>5

-----------------------------------------------------------------------------
(* The theorems.                                                           *)

\* Every handler of the application keeps what it shows durable.
LEMMA ApplicationKept == ASSUME TypeOK, Application PROVE Kept
<1>1. ASSUME NEW x \in Token, NEW exact \in BOOLEAN, EditTimeline(x, exact)
      PROVE  Kept
  BY <1>1, EditTimelineKept
<1>2. ASSUME NEW x \in Token,
             ImportMedia(x) \/ MoveTimelineToBin(x) \/ RelinkMedia(x)
      PROVE  Kept
  BY <1>2, ImportMediaKept, MoveTimelineToBinKept, RelinkMediaKept
<1>3. ASSUME NEW x \in Token, NEW t \in Timeline,
             RenameItem(t, x) \/ CreateTimelineFromSelectedMedia(t, x)
      PROVE  Kept
  BY <1>3, RenameItemKept, CreateFromMediaKept
<1>4. ASSUME NEW t \in Timeline, ActivateTimeline(t) \/ CreateTimelinePressed(t)
      PROVE  Kept
  BY <1>4, ActivateTimelineKept, CreateTimelinePressedKept
<1>5. ASSUME \/ AddPendingTimeline \/ SaveProjectPressed
             \/ MenuUndo \/ MenuRedo
      PROVE  Kept
  BY <1>5, AddPendingTimelineKept, SaveProjectPressedKept, MenuUndoKept,
     MenuRedoKept
<1>6. ASSUME \/ OpenProject \/ IgnoreAutosave \/ RecoverAutosave
             \/ RecoverAutosaveStopped \/ Quit
      PROVE  Kept
  BY <1>6, OpenProjectKept, IgnoreAutosaveKept, RecoverAutosaveKept,
     RecoverAutosaveStoppedKept, QuitKept
<1> QED
  BY <1>1, <1>2, <1>3, <1>4, <1>5, <1>6 DEF Application

\* So does every command that runs while the application does not.
LEMMA AllCommandsKept == ASSUME TypeOK, Command PROVE CommandKept
<1>1. ASSUME NEW x \in Token, NEW t \in Timeline, NEW exact \in BOOLEAN,
             ApplyOp(t, x, exact) \/ CreateFromSegmentsOp(t, x, exact)
      PROVE  CommandKept
  BY <1>1, ApplyOpKept, CreateFromSegmentsOpKept
<1>2. ASSUME NEW x \in Token, NEW t \in Timeline, RenameProjectOp(t, x)
      PROVE  CommandKept
  BY <1>2, ValueCommandKept
<1>3. ASSUME NEW x \in Token, SetProjectBinOp(x) \/ RelinkProjectOp(x)
      PROVE  CommandKept
  <2>1. PICK t \in Timeline : TRUE
    BY HistoryConstants
  <2> QED
    BY <1>3, <2>1, ValueCommandKept
<1>4. ASSUME NEW t \in Timeline, UndoOp(t) \/ RedoOp(t)
      PROVE  CommandKept
  BY <1>4, UndoRedoOpKept
<1>5. ASSUME NEW t \in Timeline,
             \/ SetActiveProjectTimelineOp(t) \/ AddProjectTimelineOp(t)
             \/ RemoveProjectTimelineOp(t)
      PROVE  CommandKept
  BY <1>5, TimelineSetCommandKept
<1>6. ASSUME UndoProjectOp \/ RedoProjectOp PROVE CommandKept
  BY <1>6, RestoreCommandKept
<1> QED
  BY <1>1, <1>2, <1>3, <1>4, <1>5, <1>6 DEF Command

\* A package as it is created, before it is opened.
LEMMA InitKept ==
  ASSUME Init
  PROVE  TypeOK /\ DisplayedIsDurable /\ OfferedAutosaveIsNewer /\ SoundInv
<1>1. PICK active \in Initial :
        disk = [project |-> InitialProject(active),
                logs |-> [t \in Initial |-> EmptyLog],
                plog |-> EmptyLog, rewound |-> {}]
  BY DEF Init
<1>2. Initial \subseteq Timeline
  BY HistoryConstants
<1>3. InitialProject(active) \in ValidProject
        /\ InitialProject(active).timelines = Initial
  BY <1>2 DEF InitialProject, ValidProject, Project, NewSequence, Sequence
<1>4. [t \in Initial |-> EmptyLog] \in [Initial -> Log(TimelineEntries)]
        /\ EmptyLog \in Log(ProjectEntries)
  BY EmptyLogType
<1>5. Generation(disk)
  BY <1>1, <1>3, <1>4 DEF Generation
<1>6. /\ autosave = None /\ state = Closed /\ outcome = "none"
      /\ used = Initial /\ faults = 0
  BY DEF Init
<1>7. Sound(disk, used)
  <2>1. InitialProject(active) \in MadeProjects(used)
    BY <1>3, <1>6 DEF MadeProjects, InitialProject, NewSequence
  <2>2. /\ [t \in Initial |-> EmptyLog] \in [Initial -> Log(MadeEntries(used))]
        /\ EmptyLog \in Log(MadeProjectEntries(used))
    BY EmptyLogType
  <2> QED
    BY <1>1, <1>3, <2>1, <2>2, EmptyDescribes DEF Sound
<1> QED
  BY <1>2, <1>5, <1>6, <1>7
  DEF TypeOK, DisplayedIsDurable, OfferedAutosaveIsNewer, Available, SoundInv

\* A step that changes nothing keeps everything.
LEMMA StutterKept == ASSUME TypeOK, UNCHANGED vars PROVE Kept
<1>1. TypeOK'
  BY DEF TypeOK, vars
<1>2. DisplayedIsDurable => DisplayedIsDurable'
  BY DEF DisplayedIsDurable, vars
<1>3. OfferedAutosaveIsNewer => OfferedAutosaveIsNewer'
  BY DEF OfferedAutosaveIsNewer, Available, vars
<1>4. SoundInv => SoundInv'
  BY DEF SoundInv, vars
<1> QED
  BY <1>1, <1>2, <1>3, <1>4 DEF Kept

\* Whoever writes the package, the application or a command, and however its
\* saves end: what is durable, what is autosaved and what is open is a valid
\* project with exactly one journal for each of its timelines.
THEOREM TypeCorrect == Spec => []TypeOK
<1>1. Init => TypeOK
  BY InitKept
<1>2. TypeOK /\ [Next]_vars => TypeOK'
  BY ApplicationKept, AllCommandsKept, StutterKept DEF Next, Kept, CommandKept
<1> QED
  BY <1>1, <1>2, PTL DEF Spec

\* An autosave that the application offers was made from the generation that
\* is durable now, through failed and interrupted saves, failed discards,
\* recoveries and commands: recovering it takes no later save back.
THEOREM OfferedAutosaveIsNewerHolds == Spec => []OfferedAutosaveIsNewer
<1>1. Init => OfferedAutosaveIsNewer
  BY InitKept
<1>2. TypeOK /\ OfferedAutosaveIsNewer /\ [Next]_vars => OfferedAutosaveIsNewer'
  BY ApplicationKept, AllCommandsKept, StutterKept DEF Next, Kept, CommandKept
<1> QED
  BY <1>1, <1>2, TypeCorrect, PTL DEF Spec

\* When commands run only while the application does not, what it shows, and
\* would save again, is what is durable: after every handler, whether its save
\* succeeded, failed or was refused.
THEOREM DisplayedIsDurableHolds ==
  ASSUME "open" \notin Commands
  PROVE  Spec => []DisplayedIsDurable
<1>1. Init => DisplayedIsDurable
  BY InitKept
<1>2. TypeOK /\ DisplayedIsDurable /\ [Next]_vars => DisplayedIsDurable'
  BY ApplicationKept, AllCommandsKept, StutterKept DEF Next, Kept, CommandKept
<1> QED
  BY <1>1, <1>2, TypeCorrect, PTL DEF Spec

\* Whoever writes the package, also the commands beside an open session, and
\* however its saves end: every undo and redo of a timeline takes up exactly
\* where the durable timeline is, unless a project undo or redo replaced its
\* edits.
THEOREM JournalsDescribeUnlessRewoundHolds == Spec => []JournalsDescribeUnlessRewound
<1>1. Init => SoundInv
  BY InitKept
<1>2. TypeOK /\ SoundInv /\ [Next]_vars => SoundInv'
  BY ApplicationKept, AllCommandsKept, StutterKept DEF Next, Kept, CommandKept
<1>3. SoundInv => JournalsDescribeUnlessRewound
  BY DEF SoundInv, Sound, JournalsDescribeUnlessRewound
<1> QED
  BY <1>1, <1>2, <1>3, TypeCorrect, PTL DEF Spec
=============================================================================
