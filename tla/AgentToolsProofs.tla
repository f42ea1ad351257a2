--------------------------- MODULE AgentToolsProofs ---------------------------
(***************************************************************************)
(* NothingUnsaved, EveryToolAnswered and PanelShowsItsSession, for any     *)
(* timelines, any answers of the model, and any number of turns, of user   *)
(* steps and of failing commits.                                           *)
(*                                                                         *)
(* Three invariants, each with its own reason.  The documents: a journal   *)
(* and what was undone from it are one history, in which a marker is added *)
(* once and removed at most once, after it was added.  The panel: the      *)
(* blocks that wait in the main queue belong to the session of the panel,  *)
(* and the block that ends a turn is the last one.  The messages: while    *)
(* the tools of an answer run, the results there are and the uses that are *)
(* left make up what the last message asked for.                           *)
(***************************************************************************)
EXTENDS AgentTools, SequenceTheorems, TLAPS

Op == [kind : {"add", "remove"}, mark : Nat]
Log == [applied : Seq(Op), undone : Seq(Op)]
Doc == [marks : SUBSET Nat, log : Log]

\* The operations of a journal and, after them, the ones that can be redone.
History(log) ==
    LET a == Len(log.applied)
        u == Len(log.undone)
    IN  [i \in 1..a + u |-> IF i <= a THEN log.applied[i] ELSE log.undone[a + u + 1 - i]]

Steps(log) == 1..Len(log.applied) + Len(log.undone)

\* A marker is added once, by an operation older than n, and removed after it.
Sound(log, n) ==
    /\ \A i \in Steps(log) : History(log)[i].mark < n
    /\ \A i, j \in Steps(log) :
         i < j /\ History(log)[i].mark = History(log)[j].mark =>
           History(log)[i].kind = "add" /\ History(log)[j].kind = "remove"
    /\ \A j \in Steps(log) : History(log)[j].kind = "remove" =>
         \E i \in 1..j - 1 : /\ History(log)[i].kind = "add"
                             /\ History(log)[i].mark = History(log)[j].mark

DocInv(d, n) == d \in Doc /\ Sound(d.log, n) /\ d.marks = Replayed(d.log.applied)

-----------------------------------------------------------------------------
(* Documents and their journals *)

\* What it means for a marker to be left by a journal.
LEMMA InReplayed ==
  ASSUME NEW s \in Seq(Op), NEW x
  PROVE  x \in Replayed(s) <=>
           \E i \in 1..Len(s) : /\ s[i].kind = "add" /\ s[i].mark = x
                                /\ \A j \in i + 1..Len(s) : s[j].mark # x
  BY DEF Replayed

\* The newest operation of a journal: what the ones before it leave.
LEMMA ReplayedAppend ==
  ASSUME NEW s \in Seq(Op), NEW op \in Op
  PROVE  Replayed(Append(s, op)) = ApplyEdit(Replayed(s), op)
<1> DEFINE t == Append(s, op)
<1>1. /\ t \in Seq(Op) /\ Len(t) = Len(s) + 1 /\ t[Len(s) + 1] = op
      /\ \A i \in 1..Len(s) : t[i] = s[i]
  OBVIOUS
<1> HIDE DEF t
<1>2. ASSUME NEW x, x \in Replayed(t) PROVE x \in ApplyEdit(Replayed(s), op)
  <2>1. PICK i \in 1..Len(t) : /\ t[i].kind = "add" /\ t[i].mark = x
                               /\ \A j \in i + 1..Len(t) : t[j].mark # x
    BY <1>1, <1>2, InReplayed
  <2>2. CASE i = Len(s) + 1
    BY <1>1, <2>1, <2>2 DEF ApplyEdit
  <2>3. CASE i \in 1..Len(s)
    <3>1. op.mark # x
      BY <1>1, <2>1, <2>3
    <3>2. x \in Replayed(s)
      BY <1>1, <2>1, <2>3, InReplayed
    <3> QED BY <3>1, <3>2 DEF ApplyEdit
  <2> QED BY <1>1, <2>2, <2>3
<1>3. ASSUME NEW x, x \in ApplyEdit(Replayed(s), op) PROVE x \in Replayed(t)
  <2>1. CASE op.kind = "add" /\ x = op.mark
    <3>1. /\ Len(s) + 1 \in 1..Len(t) /\ t[Len(s) + 1].kind = "add" /\ t[Len(s) + 1].mark = x
          /\ \A j \in Len(s) + 2..Len(t) : t[j].mark # x
      BY <1>1, <2>1
    <3> QED BY <1>1, <3>1, InReplayed
  <2>2. CASE x # op.mark
    <3>1. x \in Replayed(s)
      BY <1>3, <2>2 DEF ApplyEdit
    <3>2. PICK i \in 1..Len(s) : /\ s[i].kind = "add" /\ s[i].mark = x
                                 /\ \A j \in i + 1..Len(s) : s[j].mark # x
      BY <3>1, InReplayed
    <3>3. \A j \in i + 1..Len(t) : t[j].mark # x
      BY <1>1, <2>2, <3>2
    <3> QED BY <1>1, <3>2, <3>3, InReplayed
  <2> QED BY <1>3, <2>1, <2>2 DEF ApplyEdit
<1> QED BY <1>2, <1>3 DEF t

\* The history of a journal, operation by operation.
LEMMA HistoryIs ==
  ASSUME NEW log, log.applied \in Seq(Op), log.undone \in Seq(Op)
  PROVE  /\ \A i \in 1..Len(log.applied) :
              i \in Steps(log) /\ History(log)[i] = log.applied[i]
         /\ \A i \in Steps(log) : i > Len(log.applied) =>
              LET k == Len(log.applied) + Len(log.undone) + 1 - i
              IN  k \in 1..Len(log.undone) /\ History(log)[i] = log.undone[k]
         /\ \A i \in Steps(log) : /\ History(log)[i].mark \in Nat
                                  /\ History(log)[i].kind \in {"add", "remove"}
<1> DEFINE a == Len(log.applied)
           u == Len(log.undone)
<1>1. a \in Nat /\ u \in Nat
  OBVIOUS
<1>2. Steps(log) = 1..a + u
  BY DEF Steps
<1>3. \A i \in 1..a + u : History(log)[i] =
        IF i <= a THEN log.applied[i] ELSE log.undone[a + u + 1 - i]
  BY DEF History
<1>4. (\A i \in 1..a : log.applied[i] \in Op) /\ (\A i \in 1..u : log.undone[i] \in Op)
  OBVIOUS
<1>5. \A op \in Op : op.mark \in Nat /\ op.kind \in {"add", "remove"}
  BY DEF Op
<1> HIDE DEF a, u
<1>6. \A i \in 1..a : i \in 1..a + u /\ i <= a
  BY <1>1
<1>7. \A i \in 1..a + u : i > a => a + u + 1 - i \in 1..u /\ ~(i <= a)
  BY <1>1
<1>8. \A i \in 1..a + u : i \in 1..a \/ i > a
  BY <1>1
<1>9. \A i \in 1..a + u : History(log)[i] \in Op
  BY <1>3, <1>4, <1>6, <1>7, <1>8
<1> QED BY <1>2, <1>3, <1>5, <1>6, <1>7, <1>9 DEF a, u

\* The newest operation can be taken back: it changed what was there before it.
LEMMA TakenBack ==
  ASSUME NEW log \in Log, NEW n, Sound(log, n), log.applied # <<>>
  PROVE  /\ Front(log.applied) \in Seq(Op) /\ Last(log.applied) \in Op
         /\ log.applied = Append(Front(log.applied), Last(log.applied))
         /\ ApplyEdit(Replayed(log.applied), InverseEdit(Last(log.applied)))
              = Replayed(Front(log.applied))
<1> DEFINE s == log.applied
           a == Len(s)
           f == Front(s)
           op == Last(s)
<1>1. s \in Seq(Op) /\ a \in Nat \ {0} /\ log.undone \in Seq(Op)
  BY DEF Log
<1>2. /\ f \in Seq(Op) /\ Len(f) = a - 1 /\ (\A i \in 1..a - 1 : f[i] = s[i])
      /\ op = s[a] /\ op \in Op
  BY <1>1 DEF Front, Last
<1>3. \A i \in 1..a : i \in Steps(log) /\ History(log)[i] = s[i]
  BY <1>1, HistoryIs
<1> HIDE DEF s, a, f, op
<1>4. s = Append(f, op)
  <2>1. Append(f, op) \in Seq(Op) /\ Len(Append(f, op)) = a
    BY <1>1, <1>2
  <2>2. \A i \in 1..a : Append(f, op)[i] = s[i]
    BY <1>1, <1>2
  <2> QED BY <1>1, <2>1, <2>2, SeqEqual DEF a
<1>5. Replayed(s) = ApplyEdit(Replayed(f), op)
  BY <1>2, <1>4, ReplayedAppend
<1>6. ASSUME op.kind = "add"
      PROVE  ApplyEdit(Replayed(s), InverseEdit(op)) = Replayed(f)
  <2>1. op.mark \notin Replayed(f)
    <3>1. \A i \in 1..a - 1 : f[i].mark # op.mark
      <4> SUFFICES ASSUME NEW i \in 1..a - 1, f[i].mark = op.mark PROVE FALSE
        OBVIOUS
      <4>1. /\ i \in Steps(log) /\ a \in Steps(log) /\ i < a
            /\ History(log)[i] = f[i] /\ History(log)[a] = op
        BY <1>1, <1>2, <1>3
      <4> QED BY <1>6, <4>1 DEF Sound
    <3> QED BY <1>2, <3>1, InReplayed
  <2>2. Replayed(s) = Replayed(f) \cup {op.mark}
    BY <1>5, <1>6 DEF ApplyEdit
  <2>3. InverseEdit(op).kind = "remove" /\ InverseEdit(op).mark = op.mark
    BY <1>2, <1>6 DEF InverseEdit, Op
  <2> QED BY <2>1, <2>2, <2>3 DEF ApplyEdit
<1>7. ASSUME op.kind = "remove"
      PROVE  ApplyEdit(Replayed(s), InverseEdit(op)) = Replayed(f)
  <2>1. PICK i \in 1..a - 1 : f[i].kind = "add" /\ f[i].mark = op.mark
    <3>1. a \in Steps(log) /\ History(log)[a] = op
      BY <1>1, <1>2, <1>3
    <3>2. PICK i \in 1..a - 1 : /\ History(log)[i].kind = "add"
                                /\ History(log)[i].mark = op.mark
      BY <1>7, <3>1 DEF Sound
    <3>3. i \in 1..a /\ f[i] = History(log)[i]
      BY <1>1, <1>2, <1>3
    <3> QED BY <3>2, <3>3
  <2>2. ASSUME NEW j \in i + 1..a - 1 PROVE f[j].mark # op.mark
    <3> SUFFICES ASSUME f[j].mark = op.mark PROVE FALSE
      OBVIOUS
    <3>1. /\ i \in Steps(log) /\ j \in Steps(log) /\ a \in Steps(log) /\ i < j /\ j < a
          /\ History(log)[i] = f[i] /\ History(log)[j] = f[j] /\ History(log)[a] = op
      BY <1>1, <1>2, <1>3
    <3>2. f[j].kind = "remove" /\ f[j].kind = "add"
      BY <2>1, <3>1 DEF Sound
    <3> QED BY <3>2
  <2>3. op.mark \in Replayed(f)
    BY <1>2, <2>1, <2>2, InReplayed
  <2>4. Replayed(s) = Replayed(f) \ {op.mark}
    BY <1>5, <1>7 DEF ApplyEdit
  <2>5. InverseEdit(op).kind = "add" /\ InverseEdit(op).mark = op.mark
    BY <1>2, <1>7 DEF InverseEdit, Op
  <2> QED BY <2>3, <2>4, <2>5 DEF ApplyEdit
<1>8. op.kind \in {"add", "remove"}
  BY <1>2 DEF Op
<1> QED BY <1>2, <1>4, <1>6, <1>7, <1>8 DEF s, f, op

\* A document may be old: what is sound stays so.
LEMMA Older ==
  ASSUME NEW n \in Nat, NEW d, DocInv(d, n)
  PROVE  DocInv(d, n + 1)
<1>1. ASSUME NEW i \in Steps(d.log) PROVE History(d.log)[i].mark < n + 1
  <2>1. d.log.applied \in Seq(Op) /\ d.log.undone \in Seq(Op)
    BY DEF DocInv, Doc, Log
  <2>2. History(d.log)[i].mark < n /\ History(d.log)[i].mark \in Nat
    BY <2>1, HistoryIs DEF DocInv, Sound
  <2> QED BY <2>2
<1> QED BY <1>1 DEF DocInv, Sound

\* EditLog::Apply keeps the journal sound: the operation adds a new marker, or
\* removes one that is there.
LEMMA AppliedInv ==
  ASSUME NEW n \in Nat, NEW d, DocInv(d, n), NEW op \in Op,
         \/ op = [kind |-> "add", mark |-> n]
         \/ op.kind = "remove" /\ op.mark \in d.marks
  PROVE  DocInv(Applied(d, op), n + 1)
<1> DEFINE e == Applied(d, op)
           s == d.log.applied
           a == Len(s)
<1>1. s \in Seq(Op) /\ d.log.undone \in Seq(Op) /\ d.marks \subseteq Nat /\ a \in Nat
  BY DEF DocInv, Doc, Log
<1>2. /\ e.log.applied = Append(s, op) /\ e.log.undone = <<>>
      /\ e.marks = ApplyEdit(d.marks, op)
      /\ e = [marks |-> e.marks, log |-> [applied |-> e.log.applied, undone |-> e.log.undone]]
  BY DEF Applied
<1>3. Append(s, op) \in Seq(Op) /\ <<>> \in Seq(Op)
  BY <1>1
<1>4. ApplyEdit(d.marks, op) \subseteq Nat
  BY <1>1 DEF ApplyEdit, Op
<1>5. e \in Doc
  BY <1>3, <1>4 DEF Doc, Log, Applied
<1>6. e.marks = Replayed(e.log.applied)
  BY <1>1, <1>2, ReplayedAppend DEF DocInv
<1>7. /\ Steps(e.log) = 1..a + 1
      /\ \A i \in 1..a : History(e.log)[i] = s[i] /\ History(d.log)[i] = s[i]
      /\ \A i \in 1..a : i \in Steps(d.log)
      /\ History(e.log)[a + 1] = op
  <2>1. Len(e.log.applied) = a + 1 /\ Len(e.log.undone) = 0
    BY <1>1, <1>2
  <2>2. (\A i \in 1..a : Append(s, op)[i] = s[i]) /\ Append(s, op)[a + 1] = op
    BY <1>1
  <2> HIDE DEF e
  <2>3. Steps(e.log) = 1..a + 1
    BY <1>1, <2>1 DEF Steps
  <2>4. \A i \in 1..a : History(e.log)[i] = s[i]
    BY <1>1, <1>2, <2>1, <2>2 DEF History
  <2>5. \A i \in 1..a : i \in Steps(d.log) /\ History(d.log)[i] = s[i]
    BY <1>1, HistoryIs
  <2>6. History(e.log)[a + 1] = op
    BY <1>1, <1>2, <2>1, <2>2 DEF History
  <2> QED BY <2>3, <2>4, <2>5, <2>6
<1>8. \A i \in 1..a : s[i].mark < n /\ s[i].mark \in Nat
  <2>1. \A i \in Steps(d.log) : History(d.log)[i].mark < n /\ History(d.log)[i].mark \in Nat
    BY <1>1, HistoryIs DEF DocInv, Sound
  <2> QED BY <1>7, <2>1
<1> HIDE DEF e, s, a
<1>9. CASE op = [kind |-> "add", mark |-> n]
  <2>1. op.kind = "add" /\ op.mark = n
    BY <1>9
  <2>2. \A i \in 1..a + 1 : History(e.log)[i].mark < n + 1
    BY <1>1, <1>7, <1>8, <2>1
  <2>3. \A i \in 1..a : History(e.log)[i].mark # op.mark
    BY <1>7, <1>8, <2>1
  <2>4. ASSUME NEW i \in 1..a + 1, NEW j \in 1..a + 1, i < j,
               History(e.log)[i].mark = History(e.log)[j].mark
        PROVE  History(e.log)[i].kind = "add" /\ History(e.log)[j].kind = "remove"
    <3>1. i \in 1..a
      BY <1>1, <2>4
    <3>2. j # a + 1
      <4>1. SUFFICES ASSUME j = a + 1 PROVE FALSE
        OBVIOUS
      <4>2. History(e.log)[i].mark = op.mark
        BY <1>7, <2>4, <4>1
      <4> QED BY <2>3, <3>1, <4>2
    <3>3. j \in 1..a
      BY <1>1, <3>2
    <3> QED BY <1>7, <2>4, <3>1, <3>3 DEF DocInv, Sound
  <2>5. ASSUME NEW j \in 1..a + 1, History(e.log)[j].kind = "remove"
        PROVE  \E i \in 1..j - 1 : /\ History(e.log)[i].kind = "add"
                                   /\ History(e.log)[i].mark = History(e.log)[j].mark
    <3>1. j \in 1..a /\ 1..j - 1 \subseteq 1..a
      BY <1>1, <1>7, <2>1, <2>5
    <3> QED BY <1>7, <2>5, <3>1 DEF DocInv, Sound
  <2> QED BY <1>5, <1>6, <1>7, <2>2, <2>4, <2>5 DEF DocInv, Sound, e
<1>10. CASE op.kind = "remove" /\ op.mark \in d.marks
  <2>1. PICK k \in 1..a : /\ s[k].kind = "add" /\ s[k].mark = op.mark
                          /\ \A j \in k + 1..a : s[j].mark # op.mark
    <3>1. op.mark \in Replayed(s) /\ s \in Seq(Op)
      BY <1>1, <1>10 DEF DocInv, s
    <3> QED BY <3>1, InReplayed DEF a
  <2>2. \A i \in 1..a + 1 : History(e.log)[i].mark < n + 1
    <3>1. op.mark < n /\ op.mark \in Nat
      BY <1>8, <2>1
    <3>2. \A i \in 1..a + 1 : i \in 1..a \/ i = a + 1
      BY <1>1 DEF a
    <3>3. \A m \in Nat : m < n => m < n + 1
      OBVIOUS
    <3> QED BY <1>7, <1>8, <3>1, <3>2, <3>3
  <2>3. ASSUME NEW i \in 1..a, s[i].mark = op.mark PROVE s[i].kind = "add"
    <3>1. i <= k
      BY <1>1, <2>1, <2>3
    <3>2. CASE i = k
      BY <2>1, <3>2
    <3>3. CASE i < k
      BY <1>7, <2>1, <2>3, <3>3 DEF DocInv, Sound
    <3> QED BY <3>1, <3>2, <3>3, <1>1
  <2>4. ASSUME NEW i \in 1..a + 1, NEW j \in 1..a + 1, i < j,
               History(e.log)[i].mark = History(e.log)[j].mark
        PROVE  History(e.log)[i].kind = "add" /\ History(e.log)[j].kind = "remove"
    <3>1. CASE j = a + 1
      BY <1>1, <1>7, <1>10, <2>3, <2>4, <3>1
    <3>2. CASE j \in 1..a
      <4>1. i \in 1..a
        BY <1>1, <2>4, <3>2
      <4> QED BY <1>7, <2>4, <3>2, <4>1 DEF DocInv, Sound
    <3> QED BY <1>1, <3>1, <3>2
  <2>5. ASSUME NEW j \in 1..a + 1, History(e.log)[j].kind = "remove"
        PROVE  \E i \in 1..j - 1 : /\ History(e.log)[i].kind = "add"
                                   /\ History(e.log)[i].mark = History(e.log)[j].mark
    <3>1. CASE j = a + 1
      <4>1. k \in 1..j - 1
        BY <1>1, <3>1
      <4> QED BY <1>7, <2>1, <3>1, <4>1
    <3>2. CASE j \in 1..a
      <4>1. 1..j - 1 \subseteq 1..a
        BY <1>1, <3>2
      <4> QED BY <1>7, <2>5, <3>2, <4>1 DEF DocInv, Sound
    <3>3. j = a + 1 \/ j \in 1..a
      BY <1>1
    <3> QED BY <3>1, <3>2, <3>3
  <2> QED BY <1>5, <1>6, <1>7, <2>2, <2>4, <2>5 DEF DocInv, Sound, e
<1> QED BY <1>9, <1>10 DEF e

\* Whether a journal is sound depends on its history only.
LEMMA EqualHistory ==
  ASSUME NEW log, NEW rest, NEW n, Steps(log) = Steps(rest),
         \A j \in Steps(log) : 1..j - 1 \subseteq Steps(log),
         \A i \in Steps(log) : History(log)[i] = History(rest)[i]
  PROVE  Sound(log, n) <=> Sound(rest, n)
<1>1. ASSUME NEW j \in Steps(log)
      PROVE  (\E i \in 1..j - 1 : /\ History(log)[i].kind = "add"
                                  /\ History(log)[i].mark = History(log)[j].mark) <=>
             (\E i \in 1..j - 1 : /\ History(rest)[i].kind = "add"
                                  /\ History(rest)[i].mark = History(rest)[j].mark)
  OBVIOUS
<1>2. ASSUME Sound(log, n) PROVE Sound(rest, n)
  BY <1>1, <1>2 DEF Sound
<1>3. ASSUME Sound(rest, n) PROVE Sound(log, n)
  BY <1>1, <1>3 DEF Sound
<1> QED BY <1>2, <1>3

\* Undo and Redo move an operation within the history and change nothing of it.
LEMMA SameHistory ==
  ASSUME NEW s \in Seq(Op), NEW op \in Op, NEW t \in Seq(Op),
         NEW log, log.applied = Append(s, op), log.undone = t,
         NEW rest, rest.applied = s, rest.undone = Append(t, op), NEW n
  PROVE  Sound(log, n) <=> Sound(rest, n)
<1> DEFINE a == Len(s)
           u == Len(t)
<1>1. a \in Nat /\ u \in Nat
  OBVIOUS
<1>2. /\ Append(s, op) \in Seq(Op) /\ Len(Append(s, op)) = a + 1
      /\ (\A i \in 1..a : Append(s, op)[i] = s[i]) /\ Append(s, op)[a + 1] = op
  OBVIOUS
<1>3. /\ Append(t, op) \in Seq(Op) /\ Len(Append(t, op)) = u + 1
      /\ (\A i \in 1..u : Append(t, op)[i] = t[i]) /\ Append(t, op)[u + 1] = op
  OBVIOUS
<1>4. Steps(log) = 1..(a + 1) + u
  BY <1>2 DEF Steps
<1>5. Steps(rest) = 1..a + (u + 1)
  BY <1>3 DEF Steps
<1>6. History(log) = [i \in 1..(a + 1) + u |->
        IF i <= a + 1 THEN Append(s, op)[i] ELSE t[(a + 1) + u + 1 - i]]
  BY <1>2 DEF History
<1>7. History(rest) = [i \in 1..a + (u + 1) |->
        IF i <= a THEN s[i] ELSE Append(t, op)[a + (u + 1) + 1 - i]]
  BY <1>3 DEF History
<1> HIDE DEF a, u
<1>8. 1..(a + 1) + u = 1..a + (u + 1)
  BY <1>1
<1>9. ASSUME NEW i \in 1..a + (u + 1)
       PROVE  /\ History(log)[i] =
                   IF i <= a + 1 THEN Append(s, op)[i] ELSE t[(a + 1) + u + 1 - i]
              /\ History(rest)[i] =
                   IF i <= a THEN s[i] ELSE Append(t, op)[a + (u + 1) + 1 - i]
  BY <1>6, <1>7, <1>8
<1>10. ASSUME NEW i \in 1..a + (u + 1) PROVE History(log)[i] = History(rest)[i]
  <2>1. CASE i <= a
    <3>1. i \in 1..a /\ i <= a + 1
      BY <1>1, <2>1
    <3> QED BY <1>2, <1>9, <2>1, <3>1
  <2>2. CASE i = a + 1
    <3>1. ~(i <= a) /\ i <= a + 1 /\ a + (u + 1) + 1 - i = u + 1
      BY <1>1, <2>2
    <3> QED BY <1>2, <1>3, <1>9, <2>2, <3>1
  <2>3. CASE i > a + 1
    <3>1. /\ ~(i <= a) /\ ~(i <= a + 1) /\ a + (u + 1) + 1 - i \in 1..u
          /\ a + (u + 1) + 1 - i = (a + 1) + u + 1 - i
      BY <1>1, <2>3
    <3> QED BY <1>3, <1>9, <3>1
  <2> QED BY <1>1, <2>1, <2>2, <2>3
<1>11. \A j \in 1..a + (u + 1) : 1..j - 1 \subseteq 1..a + (u + 1)
  BY <1>1
<1>12. Steps(log) = Steps(rest) /\ \A j \in Steps(log) : 1..j - 1 \subseteq Steps(log)
  BY <1>4, <1>5, <1>8, <1>11
<1>13. \A i \in Steps(log) : History(log)[i] = History(rest)[i]
  BY <1>5, <1>10, <1>12
<1> QED BY <1>12, <1>13, EqualHistory

\* EditLog::Undo takes the newest operation back and keeps it to be redone.
LEMMA UndoneInv ==
  ASSUME NEW n \in Nat, NEW d, DocInv(d, n), d.log.applied # <<>>
  PROVE  DocInv(Undone(d), n)
<1> DEFINE s == d.log.applied
           t == d.log.undone
           op == Last(s)
           e == Undone(d)
<1>1. d \in Doc /\ d.log \in Log /\ s \in Seq(Op) /\ t \in Seq(Op)
  BY DEF DocInv, Doc, Log
<1>2. /\ Front(s) \in Seq(Op) /\ op \in Op /\ s = Append(Front(s), op)
      /\ ApplyEdit(Replayed(s), InverseEdit(op)) = Replayed(Front(s))
  BY <1>1, TakenBack DEF DocInv
<1>3. Append(t, op) \in Seq(Op)
  BY <1>1, <1>2
<1>4. /\ e.log.applied = Front(s) /\ e.log.undone = Append(t, op)
      /\ e.marks = Replayed(Front(s))
  BY <1>2 DEF Undone, DocInv
<1>5. Replayed(Front(s)) \subseteq Nat
  <2>1. InverseEdit(op).mark \in Nat
    BY <1>2 DEF InverseEdit, Op
  <2>2. Replayed(s) \subseteq Nat
    BY <1>1 DEF DocInv, Doc
  <2> QED BY <1>2, <2>1, <2>2 DEF ApplyEdit
<1>6. e \in Doc
  BY <1>2, <1>3, <1>5 DEF Doc, Log, Undone, DocInv
<1>7. Sound(e.log, n)
  <2> DEFINE f == Front(s)
             log == d.log
             rest == e.log
  <2>1. /\ f \in Seq(Op) /\ op \in Op /\ t \in Seq(Op)
        /\ log.applied = Append(f, op) /\ log.undone = t
        /\ rest.applied = f /\ rest.undone = Append(t, op) /\ Sound(log, n)
    BY <1>1, <1>2, <1>4 DEF DocInv
  <2> HIDE DEF f, op, t, log, rest
  <2>2. Sound(log, n) <=> Sound(rest, n)
    BY <2>1, SameHistory
  <2> QED BY <2>1, <2>2 DEF rest
<1> QED BY <1>4, <1>6, <1>7 DEF DocInv, e

\* EditLog::Redo applies it again.
LEMMA RedoneInv ==
  ASSUME NEW n \in Nat, NEW d, DocInv(d, n), d.log.undone # <<>>
  PROVE  DocInv(Redone(d), n)
<1> DEFINE s == d.log.applied
           t == d.log.undone
           op == Last(t)
           e == Redone(d)
<1>1. d \in Doc /\ s \in Seq(Op) /\ t \in Seq(Op)
  BY DEF DocInv, Doc, Log
<1>2. Len(t) \in Nat \ {0}
  BY <1>1
<1>3. /\ Front(t) \in Seq(Op) /\ Len(Front(t)) = Len(t) - 1 /\ op \in Op /\ op = t[Len(t)]
      /\ \A i \in 1..Len(t) - 1 : Front(t)[i] = t[i]
  BY <1>1, <1>2 DEF Front, Last
<1>4. t = Append(Front(t), op)
  <2>1. Append(Front(t), op) \in Seq(Op) /\ Len(Append(Front(t), op)) = Len(t)
    BY <1>2, <1>3
  <2>2. \A i \in 1..Len(t) : Append(Front(t), op)[i] = t[i]
    BY <1>2, <1>3
  <2> QED BY <1>1, <2>1, <2>2, SeqEqual
<1>5. Append(s, op) \in Seq(Op)
  BY <1>1, <1>3
<1>6. /\ e.log.applied = Append(s, op) /\ e.log.undone = Front(t)
      /\ e.marks = Replayed(Append(s, op))
  BY <1>1, <1>3, ReplayedAppend DEF Redone, DocInv
<1>7. e \in Doc
  <2>1. ApplyEdit(d.marks, op) \subseteq Nat
    BY <1>1, <1>3 DEF ApplyEdit, Op, Doc
  <2> QED BY <1>3, <1>5, <2>1 DEF Doc, Log, Redone
<1>8. Sound(e.log, n)
  <2> DEFINE f == Front(t)
             log == e.log
             rest == d.log
  <2>1. /\ s \in Seq(Op) /\ op \in Op /\ f \in Seq(Op)
        /\ log.applied = Append(s, op) /\ log.undone = f
        /\ rest.applied = s /\ rest.undone = Append(f, op) /\ Sound(rest, n)
    BY <1>1, <1>3, <1>4, <1>6 DEF DocInv
  <2> HIDE DEF f, op, s, log, rest
  <2>2. Sound(log, n) <=> Sound(rest, n)
    BY <2>1, SameHistory
  <2> QED BY <2>1, <2>2 DEF log
<1> QED BY <1>6, <1>7, <1>8 DEF DocInv, e

\* Every tool that edits leaves a document its journal describes.
LEMMA EditedInv ==
  ASSUME NEW n \in Nat, NEW d, DocInv(d, n), NEW tool, NEW snapshot,
         NEW e \in Edited(tool, d, snapshot, n)
  PROVE  DocInv(e, n + 1)
<1>1. CASE tool = "add"
  <2>1. [kind |-> "add", mark |-> n] \in Op
    BY DEF Op
  <2> QED BY <1>1, <2>1, AppliedInv DEF Edited
<1>2. CASE tool = "remove"
  <2>1. PICK m \in snapshot \cap d.marks : e = Applied(d, [kind |-> "remove", mark |-> m])
    BY <1>2 DEF Edited
  <2>2. [kind |-> "remove", mark |-> m] \in Op
    BY DEF Op, DocInv, Doc
  <2> QED BY <2>1, <2>2, AppliedInv
<1>3. CASE tool = "undo"
  <2>1. d.log.applied # <<>> /\ e = Undone(d)
    BY <1>3 DEF Edited
  <2> QED BY <2>1, UndoneInv, Older
<1>4. CASE tool = "redo"
  <2>1. d.log.undone # <<>> /\ e = Redone(d)
    BY <1>4 DEF Edited
  <2> QED BY <2>1, RedoneInv, Older
<1>5. CASE tool \notin {"add", "remove", "undo", "redo"}
  BY <1>5 DEF Edited
<1> QED BY <1>1, <1>2, <1>3, <1>4, <1>5

-----------------------------------------------------------------------------
(* The documents of the project and of the window *)

Budget == [turns : Int, user : Int, faults : Int, mark : Nat]

DocumentsInv ==
    /\ budget \in Budget
    /\ DOMAIN stored \subseteq Timelines /\ active \in DOMAIN stored
    /\ \A t \in DOMAIN stored : DocInv(stored[t], budget.mark)
    /\ host = "window" => open = stored[active]

\* The server has no panel: it runs no turn, and nothing waits in a main queue.
HostInv ==
    /\ host = "window" \/ (turn.pc = "idle" /\ queue = <<>>)
    /\ server \in [running : BOOLEAN, listening : BOOLEAN,
                   pc : {"accept", "read", "done"},
                   client : {"none", "silent", "sent", "other", "closed"}]
    /\ server.pc = "read" => host = "server"

\* A process stays the host it was started as.
LEMMA HostStep == HostInv /\ [Next]_vars => HostInv'
<1> SUFFICES ASSUME HostInv, [Next]_vars PROVE HostInv'
  OBVIOUS
<1>1. CASE UNCHANGED vars
  BY <1>1 DEF vars, HostInv
<1>2. CASE User
  <2>1. host = "window" /\ host' = host /\ server' = server
    BY <1>2 DEF User, Navigate, UserEdit, Configure, Send
  <2> QED BY <2>1 DEF HostInv
<1>3. CASE Turn
  <2>1. turn.pc # "idle" /\ host' = host /\ server' = server
    BY <1>3 DEF Turn, SubmitUserMessage, SendFails, Reply, CallTool, DispatchSync, ToolResult,
                EndTurn
  <2> QED BY <2>1 DEF HostInv
<1>4. CASE MainQueue
  <2>1. queue # <<>> /\ host' = host /\ server' = server
    BY <1>4 DEF MainQueue, RunAsync, RunCall, RunSelect, RunSnapshot, RunRead, RunEdit,
                RunCreate, Calling
  <2> QED BY <2>1 DEF HostInv
<1>5. CASE AcceptLoop \/ Clients \/ StopFlag \/ StopSocket
  <2>1. host' = host /\ turn' = turn /\ queue' = queue
    BY <1>5 DEF AcceptLoop, Clients, StopFlag, StopSocket, AcceptEnds, RequestRefused, ToolsCall,
                Accept, ClientActs
  <2>2. /\ server' \in [running : BOOLEAN, listening : BOOLEAN,
                        pc : {"accept", "read", "done"},
                        client : {"none", "silent", "sent", "other", "closed"}]
        /\ server'.pc = "read" => server.pc = "read" \/ host = "server"
    BY <1>5 DEF HostInv, AcceptLoop, Clients, StopFlag, StopSocket, AcceptEnds, RequestRefused,
                ToolsCall, Accept, ClientActs, Closed
  <2> QED BY <2>1, <2>2 DEF HostInv
<1> QED BY <1>1, <1>2, <1>3, <1>4, <1>5 DEF Next

\* The empty document, of a timeline just made.
LEMMA EmptyDocInv == ASSUME NEW n PROVE DocInv([marks |-> {}, log |-> EmptyLog], n)
<1>1. <<>> \in Seq(Op) /\ Len(<<>>) = 0
  OBVIOUS
<1>2. Steps(EmptyLog) = {}
  BY <1>1 DEF Steps, EmptyLog
<1>3. Sound(EmptyLog, n)
  BY <1>2 DEF Sound
<1>4. Replayed(<<>>) = {}
  BY DEF Replayed
<1>5. [marks |-> {}, log |-> EmptyLog] \in Doc
  BY <1>1 DEF Doc, Log, EmptyLog
<1> QED BY <1>3, <1>4, <1>5 DEF DocInv, EmptyLog

\* What a step may do to the documents: leave them, open another one, or save
\* an edit of one of them, in the window together with what it shows.
LEMMA DocumentsChange ==
  ASSUME DocumentsInv, budget' \in Budget, budget'.mark \in {budget.mark, budget.mark + 1},
         host' = host, NEW id \in DOMAIN stored, NEW d, DocInv(d, budget'.mark),
         \/ stored' = stored
         \/ stored' = [stored EXCEPT ![id] = d],
         active' \in DOMAIN stored,
         host = "window" => open' = stored'[active']
  PROVE  DocumentsInv'
<1>1. DOMAIN stored' = DOMAIN stored
  OBVIOUS
<1>2. \A t \in DOMAIN stored : DocInv(stored[t], budget'.mark)
  BY Older DEF DocumentsInv, Budget
<1>3. \A t \in DOMAIN stored : DocInv(stored'[t], budget'.mark)
  BY <1>2
<1> QED BY <1>1, <1>3 DEF DocumentsInv

\* Every step of the user, of a turn, of the main queue and of the server.
LEMMA DocumentsStep == DocumentsInv /\ HostInv /\ [Next]_vars => DocumentsInv'
<1> SUFFICES ASSUME DocumentsInv, HostInv, [Next]_vars PROVE DocumentsInv'
  OBVIOUS
<1>0. /\ budget \in Budget /\ active \in DOMAIN stored /\ budget.mark \in Nat
      /\ DocInv(stored[active], budget.mark)
      /\ host = "window" => open = stored[active]
  BY DEF DocumentsInv, Budget
<1>1. ASSUME UNCHANGED <<host, documents>>, budget' \in Budget, budget'.mark = budget.mark
      PROVE  DocumentsInv'
  BY <1>1 DEF DocumentsInv, documents
<1>2. ASSUME NEW oks PROVE Spent(oks) \in Budget /\ Spent(oks).mark = budget.mark
  <2>1. budget.faults \in Int /\ budget.faults - 1 \in Int
    BY <1>0 DEF Budget
  <2>2. PICK k \in Int : Spent(oks) = [budget EXCEPT !.faults = k]
    <3>1. CASE FALSE \in oks
      BY <2>1, <3>1 DEF Spent
    <3>2. CASE FALSE \notin oks
      BY <2>1, <3>2 DEF Spent
    <3> QED BY <3>1, <3>2
  <2> QED BY <1>0, <2>2 DEF Budget
<1>3. CASE UNCHANGED vars
  BY <1>0, <1>1, <1>3 DEF vars, documents
<1>4. ASSUME NEW id \in Timelines, Navigate(id) PROVE DocumentsInv'
  <2>1. PICK ok \in Commits :
          /\ stored' = IF ok THEN Persisted ELSE stored
          /\ Activate(id, stored, ok)
          /\ budget' = [Spent({ok}) EXCEPT !.user = @ - 1]
    BY <1>4 DEF Navigate
  <2>2. budget' \in Budget /\ budget'.mark = budget.mark
    BY <1>2, <2>1 DEF Budget
  <2>3. /\ host = "window" /\ host' = host /\ id \in DOMAIN stored /\ id # active
        /\ open = stored[active]
    BY <1>0, <1>4 DEF Navigate
  <2>4. stored' = stored \/ stored' = [stored EXCEPT ![active] = open]
    BY <2>1 DEF Persisted
  <2>5. active' \in DOMAIN stored /\ open' = stored'[active']
    BY <1>0, <2>1, <2>3, <2>4 DEF Activate
  <2> QED BY <1>0, <2>2, <2>3, <2>4, <2>5, DocumentsChange
<1>5. ASSUME NEW tool, UserEdit(tool) PROVE DocumentsInv'
  <2>1. PICK ok \in Commits, d \in Edited(tool, open, open.marks, budget.mark) :
          /\ open' = IF ok THEN d ELSE open
          /\ stored' = IF ok THEN [stored EXCEPT ![active] = d] ELSE stored
          /\ budget' = [Spent({ok}) EXCEPT !.user = @ - 1, !.mark = @ + 1]
    BY <1>5 DEF UserEdit
  <2>2. budget' \in Budget /\ budget'.mark = budget.mark + 1
    <3> DEFINE b == Spent({ok})
    <3>1. b \in Budget /\ b.mark = budget.mark
      BY <1>2
    <3>2. budget' = [b EXCEPT !.user = b.user - 1, !.mark = b.mark + 1]
      BY <2>1
    <3> HIDE DEF b
    <3>3. b.user - 1 \in Int /\ b.mark + 1 \in Nat
      BY <3>1 DEF Budget
    <3> QED BY <3>1, <3>2, <3>3 DEF Budget
  <2>3. host = "window" /\ host' = host /\ active' = active /\ open = stored[active]
    BY <1>0, <1>5 DEF UserEdit
  <2>4. DocInv(d, budget'.mark)
    BY <1>0, <2>2, <2>3, EditedInv
  <2>5. open' = stored'[active']
    BY <1>0, <2>1, <2>3
  <2> QED BY <1>0, <2>1, <2>2, <2>3, <2>4, <2>5, DocumentsChange
<1>6. CASE Configure \/ Send \/ Accept
  <2>1. budget' \in Budget /\ budget'.mark = budget.mark
    BY <1>0, <1>6 DEF Configure, Send, Accept, Budget
  <2> QED BY <1>1, <1>6, <2>1 DEF Configure, Send, Accept
<1>7. CASE \/ SubmitUserMessage \/ SendFails \/ CallTool \/ DispatchSync \/ ToolResult \/ EndTurn
           \/ RunAsync \/ RunSelect \/ RunSnapshot \/ RunRead \/ AcceptEnds \/ RequestRefused
           \/ StopFlag \/ StopSocket
           \/ (\E uses \in Requests : Reply(uses))
           \/ (\E does \in {"sent", "other", "closed"} : ClientActs(does))
  <2>1. UNCHANGED <<host, documents, budget>>
    BY <1>7 DEF SubmitUserMessage, SendFails, CallTool, DispatchSync, ToolResult, EndTurn,
            RunAsync, RunSelect, RunSnapshot, RunRead, AcceptEnds, RequestRefused, StopFlag,
            StopSocket, Reply, ClientActs
  <2> QED BY <1>0, <1>1, <2>1
<1>8. CASE RunEdit
  <2> DEFINE use == Head(turn.uses)
             edits == Edited(use.tool, open, turn.snapshot, budget.mark)
  <2>1. CASE edits = {}
    <3>1. UNCHANGED <<host, documents, budget>>
      BY <1>8, <2>1 DEF RunEdit, documents
    <3> QED BY <1>0, <1>1, <3>1
  <2>2. CASE edits # {}
    <3>1. PICK d \in edits, ok \in Commits :
            /\ open' = IF ok THEN d ELSE Restored(d)
            /\ stored' = IF ok THEN [stored EXCEPT ![active] = d] ELSE stored
            /\ budget' = [Spent({ok}) EXCEPT !.mark = @ + 1]
            /\ active' = active
      BY <1>8, <2>2 DEF RunEdit
    <3>2. budget' \in Budget /\ budget'.mark = budget.mark + 1 /\ host' = host
      BY <1>0, <1>2, <1>8, <3>1 DEF Budget, RunEdit
    <3>3. host = "window" /\ open = stored[active]
      BY <1>0, <1>8 DEF RunEdit, Calling, HostInv
    <3>4. DocInv(d, budget'.mark)
      BY <1>0, <3>2, <3>3, EditedInv
    <3>5. open' = stored'[active']
      BY <1>0, <3>1 DEF Restored
    <3> QED BY <1>0, <3>1, <3>2, <3>4, <3>5, DocumentsChange
  <2> QED BY <2>1, <2>2
<1>9. CASE RunCreate
  <2>0. host = "window" /\ host' = host /\ open = stored[active]
    BY <1>0, <1>9 DEF RunCreate, Calling, HostInv
  <2> DEFINE empty == [marks |-> {}, log |-> EmptyLog]
             Made(id) == [t \in DOMAIN stored \cup {id} |-> IF t = id THEN empty ELSE Persisted[t]]
  <2>6. PICK failed : \E id \in (IF failed = "refused" THEN {None} ELSE Timelines \ DOMAIN stored) :
          /\ stored' = CASE failed = "persist" -> stored
                         [] failed \in {"none", "activate"} -> Made(id)
                         [] OTHER -> Persisted
          /\ IF failed \in {"none", "activate"} THEN Activate(id, Made(id), failed = "none")
                                                ELSE UNCHANGED <<active, open>>
          /\ budget' = Spent({failed \in {"none", "refused"}})
    BY <1>9 DEF RunCreate
  <2>1. PICK id \in (IF failed = "refused" THEN {None} ELSE Timelines \ DOMAIN stored) :
          /\ stored' = CASE failed = "persist" -> stored
                         [] failed \in {"none", "activate"} -> Made(id)
                         [] OTHER -> Persisted
          /\ IF failed \in {"none", "activate"} THEN Activate(id, Made(id), failed = "none")
                                                ELSE UNCHANGED <<active, open>>
          /\ budget' = Spent({failed \in {"none", "refused"}})
    BY <2>6
  <2>2. budget' \in Budget /\ budget'.mark = budget.mark
    BY <1>2, <2>1
  <2>3. Persisted = [stored EXCEPT ![active] = stored[active]]
    BY <2>0 DEF Persisted
  <2>4. CASE failed \notin {"none", "activate"}
    <3>1. (stored' = stored \/ stored' = [stored EXCEPT ![active] = stored[active]])
          /\ active' = active /\ open' = open
      BY <2>1, <2>3, <2>4
    <3> QED BY <1>0, <2>0, <2>2, <3>1, DocumentsChange
  <2>5. CASE failed \in {"none", "activate"}
    <3>1. id \in Timelines /\ id \notin DOMAIN stored /\ stored' = Made(id)
      BY <2>1, <2>5
    <3>2. /\ DOMAIN stored' = DOMAIN stored \cup {id}
          /\ \A t \in DOMAIN stored : stored'[t] = stored[t]
          /\ stored'[id] = empty
      <4>1. DOMAIN Persisted = DOMAIN stored /\ \A t \in DOMAIN stored : Persisted[t] = stored[t]
        BY <1>0, <2>3
      <4> HIDE DEF empty
      <4> QED BY <3>1, <4>1
    <3>3. \/ active' = active /\ open' = open
          \/ active' = id /\ open' = stored'[id]
      BY <2>1, <2>5, <3>1 DEF Activate
    <3>4. DocInv(empty, budget.mark)
      BY EmptyDocInv
    <3> HIDE DEF empty
    <3>5. /\ DOMAIN stored' \subseteq Timelines /\ active' \in DOMAIN stored'
          /\ open' = stored'[active']
      BY <1>0, <2>0, <3>1, <3>2, <3>3 DEF DocumentsInv
    <3>6. \A t \in DOMAIN stored' : DocInv(stored'[t], budget'.mark)
      BY <2>2, <3>2, <3>4 DEF DocumentsInv
    <3> QED BY <2>2, <3>5, <3>6 DEF DocumentsInv
  <2> QED BY <2>4, <2>5
<1>10. ASSUME NEW use \in Uses, ToolsCall(use) PROVE DocumentsInv'
  <2>0. host' = host /\ active' = active /\ open' = open
    BY <1>10 DEF ToolsCall
  <2>1. CASE UNCHANGED <<stored, landing, budget>>
    BY <1>0, <1>1, <2>0, <2>1 DEF documents
  <2>2. CASE ~UNCHANGED <<stored, landing, budget>>
    <3>6. PICK id \in Selected(use), ok \in Commits :
            \E d \in Edited(use.tool, stored[id], stored[id].marks, budget.mark) :
              /\ stored' = IF ok THEN [stored EXCEPT ![id] = d] ELSE stored
              /\ budget' = [Spent({ok}) EXCEPT !.mark = @ + 1]
      BY <1>10, <2>2 DEF ToolsCall
    <3>1. PICK d \in Edited(use.tool, stored[id], stored[id].marks, budget.mark) :
            /\ stored' = IF ok THEN [stored EXCEPT ![id] = d] ELSE stored
            /\ budget' = [Spent({ok}) EXCEPT !.mark = @ + 1]
      BY <3>6
    <3>2. budget' \in Budget /\ budget'.mark = budget.mark + 1
      BY <1>0, <1>2, <3>1 DEF Budget
    <3>3. id \in DOMAIN stored /\ DocInv(stored[id], budget.mark)
      BY <1>0, <3>1 DEF Selected, DocumentsInv
    <3>4. DocInv(d, budget'.mark)
      BY <1>0, <3>1, <3>2, <3>3, EditedInv
    <3>5. host # "window"
      BY <1>10 DEF ToolsCall, HostInv
    <3> QED BY <1>0, <2>0, <3>1, <3>2, <3>3, <3>4, <3>5, DocumentsChange
  <2> QED BY <2>1, <2>2
<1> QED BY <1>3, <1>4, <1>5, <1>6, <1>7, <1>8, <1>9, <1>10
        DEF Next, Turn, MainQueue, RunCall, User, AcceptLoop, Clients

-----------------------------------------------------------------------------
(* The panel and its main queue *)

PC == {"idle", "start", "send", "call", "select", "snapshot", "dispatch", "result", "end"}

\* The steps between an answer of the model and the result of its last tool.
Calls == {"call", "select", "snapshot", "dispatch", "result"}

TurnType ==
    /\ turn \in [pc : PC, waits : BOOLEAN, session : Nat, round : Nat, uses : Seq(ToolUse),
                 results : Seq({"ok", "error"}), snapshot : SUBSET Nat]
    /\ turn.pc \in Calls => turn.uses # <<>>

\* A turn runs the session of the panel while inFlight is set.  The blocks that
\* wait belong to it, and the block that ends the turn is behind all others.
PanelInv ==
    /\ session \in Nat /\ inFlight \in BOOLEAN
    /\ queue \in Seq([kind : {"entry", "call", "end"}, session : Nat])
    /\ shown \subseteq {session}
    /\ turn.pc # "idle" => inFlight /\ turn.session = session
    /\ queue # <<>> => inFlight
    /\ \A i \in 1..Len(queue) :
         /\ queue[i].session = session
         /\ queue[i].kind = "end" => i = Len(queue) /\ turn.pc = "idle"

\* The thread of the tools keeps its types.
LEMMA TurnTypeStep == TurnType /\ PanelInv /\ DocumentsInv /\ HostInv /\ [Next]_vars => TurnType'
<1> SUFFICES ASSUME TurnType, PanelInv, DocumentsInv, HostInv, [Next]_vars PROVE TurnType'
  OBVIOUS
<1> USE DEF Calls
<1>1. ASSUME turn' = turn PROVE TurnType'
  BY <1>1 DEF TurnType
<1>2. ASSUME NEW r \in {"ok", "error"}, turn' = Result(r), turn.pc \in Calls PROVE TurnType'
  <2>1. Append(turn.results, r) \in Seq({"ok", "error"})
    BY DEF TurnType
  <2> QED BY <1>2, <2>1 DEF TurnType, Result, Resume, PC
<1>3. ASSUME NEW pc \in Calls, turn' = Resume(pc), turn.pc \in Calls PROVE TurnType'
  BY <1>3 DEF TurnType, Resume, PC
<1>4. Idle \in [pc : PC, waits : BOOLEAN, session : Nat, round : Nat, uses : Seq(ToolUse),
              results : Seq({"ok", "error"}), snapshot : SUBSET Nat]
  <2>1. <<>> \in Seq(ToolUse) /\ <<>> \in Seq({"ok", "error"})
    OBVIOUS
  <2> QED BY <2>1 DEF Idle, PC
<1>5. CASE User
  <2>1. CASE Send
    BY <1>4, <2>1 DEF Send, TurnType, PanelInv, PC
  <2>2. CASE ~Send
    BY <1>1, <1>5, <2>2 DEF User, Navigate, UserEdit, Configure
  <2> QED BY <2>1, <2>2
<1>6. CASE SubmitUserMessage \/ SendFails \/ DispatchSync \/ EndTurn
  <2>1. CASE EndTurn
    <3>1. turn' = Idle /\ Idle.pc = "idle"
      BY <2>1 DEF EndTurn, Idle
    <3> QED BY <1>4, <3>1 DEF TurnType
  <2>2. CASE DispatchSync
    BY <2>2 DEF DispatchSync, TurnType
  <2>3. CASE SubmitUserMessage \/ SendFails
    BY <2>3 DEF SubmitUserMessage, SendFails, TurnType, PC
  <2> QED BY <1>6, <2>1, <2>2, <2>3
<1>7. ASSUME NEW uses \in Requests, Reply(uses) PROVE TurnType'
  <2>1. uses \in Seq(ToolUse) /\ <<>> \in Seq({"ok", "error"})
    BY RequestsAssumption
  <2> QED BY <1>7, <2>1 DEF Reply, TurnType, PC
<1>8. CASE CallTool
  BY <1>2, <1>3, <1>8 DEF CallTool
<1>9. CASE ToolResult
  <2>1. <<>> \in Seq({"ok", "error"}) /\ turn.round + 1 \in Nat
    BY DEF TurnType
  <2>2. Tail(turn.uses) \in Seq(ToolUse)
    BY <1>9 DEF ToolResult, TurnType
  <2> QED BY <1>9, <2>1, <2>2 DEF ToolResult, TurnType, PC
<1>10. CASE MainQueue
  <2>1. CASE RunAsync
    BY <1>1, <2>1 DEF RunAsync
  <2>2. CASE RunSelect
    BY <1>2, <1>3, <2>2 DEF RunSelect, Calling
  <2>3. CASE RunSnapshot
    <3>1. open.marks \subseteq Nat
      BY <2>3 DEF RunSnapshot, Calling, HostInv, DocumentsInv, DocInv, Doc
    <3> QED BY <2>3, <3>1 DEF RunSnapshot, TurnType, Resume, PC, Calling
  <2>4. CASE RunRead
    BY <1>2, <2>4 DEF RunRead, Calling
  <2>5. CASE RunEdit
    <3>1. turn.pc = "dispatch" /\ \E r \in {"ok", "error"} : turn' = Result(r)
      BY <2>5 DEF RunEdit, Calling
    <3> QED BY <1>2, <3>1
  <2>6. CASE RunCreate
    <3>1. turn.pc = "dispatch" /\ \E r \in {"ok", "error"} : turn' = Result(r)
      BY <2>6 DEF RunCreate, Calling
    <3> QED BY <1>2, <3>1
  <2> QED BY <1>10, <2>1, <2>2, <2>3, <2>4, <2>5, <2>6 DEF MainQueue, RunCall
<1>11. CASE AcceptLoop \/ Clients \/ StopFlag \/ StopSocket \/ UNCHANGED vars
  <2>1. turn' = turn
    BY <1>11 DEF AcceptLoop, Clients, StopFlag, StopSocket, AcceptEnds, RequestRefused,
                 ToolsCall, Accept, ClientActs, vars
  <2> QED BY <1>1, <2>1
<1> QED BY <1>5, <1>6, <1>7, <1>8, <1>9, <1>10, <1>11 DEF Next, Turn

\* A block goes behind the ones that wait.
LEMMA QueueAppend ==
  ASSUME PanelInv, turn.pc # "idle", NEW kind \in {"entry", "call", "end"},
         queue' = Append(queue, Block(kind)), session' = session, inFlight' = inFlight,
         shown' = shown, turn'.pc # "idle" => turn'.session = turn.session,
         kind = "end" <=> turn'.pc = "idle"
  PROVE  PanelInv'
<1> DEFINE b == Block(kind)
<1>1. b.kind = kind /\ b.session = session /\ b \in [kind : {"entry", "call", "end"}, session : Nat]
  BY DEF Block, PanelInv
<1> HIDE DEF b
<1>2. /\ queue' \in Seq([kind : {"entry", "call", "end"}, session : Nat])
      /\ Len(queue') = Len(queue) + 1 /\ queue'[Len(queue) + 1] = b /\ Len(queue) \in Nat
      /\ \A i \in 1..Len(queue) : queue'[i] = queue[i]
  BY <1>1 DEF PanelInv, b
<1>3. ASSUME NEW i \in 1..Len(queue')
      PROVE  /\ queue'[i].session = session
             /\ queue'[i].kind = "end" => i = Len(queue') /\ turn'.pc = "idle"
  <2>1. CASE i \in 1..Len(queue)
    BY <1>2, <2>1 DEF PanelInv
  <2>2. CASE i = Len(queue) + 1
    BY <1>1, <1>2, <2>2
  <2> QED BY <1>2, <2>1, <2>2
<1> QED BY <1>2, <1>3 DEF PanelInv

\* The first block leaves the queue.
LEMMA QueueTail ==
  ASSUME PanelInv, queue # <<>>, queue' = Tail(queue), session' = session,
         inFlight' = IF Head(queue).kind = "end" THEN FALSE ELSE inFlight,
         shown' \subseteq {session},
         turn'.pc = "idle" <=> turn.pc = "idle",
         turn'.pc # "idle" => turn'.session = turn.session
  PROVE  PanelInv'
<1>1. /\ queue' \in Seq([kind : {"entry", "call", "end"}, session : Nat])
      /\ Len(queue') = Len(queue) - 1 /\ Len(queue) \in Nat \ {0} /\ Head(queue) = queue[1]
      /\ \A i \in 1..Len(queue) - 1 : queue'[i] = queue[i + 1]
  BY DEF PanelInv
<1>2. ASSUME NEW i \in 1..Len(queue')
      PROVE  /\ queue'[i].session = session
             /\ queue'[i].kind = "end" => i = Len(queue') /\ turn'.pc = "idle"
  <2>1. i + 1 \in 1..Len(queue) /\ queue'[i] = queue[i + 1]
    BY <1>1
  <2>2. /\ queue[i + 1].session = session
        /\ queue[i + 1].kind = "end" => i + 1 = Len(queue) /\ turn.pc = "idle"
    BY <2>1 DEF PanelInv
  <2>3. i + 1 = Len(queue) <=> i = Len(queue')
    BY <1>1
  <2> QED BY <2>1, <2>2, <2>3
<1>3. Head(queue).kind = "end" => queue' = <<>> /\ turn.pc = "idle"
  <2> SUFFICES ASSUME Head(queue).kind = "end" PROVE queue' = <<>> /\ turn.pc = "idle"
    OBVIOUS
  <2>0. 1 \in 1..Len(queue) /\ queue[1].kind = "end"
    BY <1>1
  <2>1. 1 = Len(queue) /\ turn.pc = "idle"
    BY <2>0 DEF PanelInv
  <2> QED BY <1>1, <2>1
<1>4. inFlight' \in BOOLEAN
  BY DEF PanelInv
<1> QED BY <1>1, <1>2, <1>3, <1>4 DEF PanelInv

\* Every step keeps the panel with its session.
LEMMA PanelStep == PanelInv /\ TurnType /\ [Next]_vars => PanelInv'
<1> SUFFICES ASSUME PanelInv, TurnType, [Next]_vars PROVE PanelInv'
  OBVIOUS
<1>1. ASSUME UNCHANGED <<turn, queue, panel>> PROVE PanelInv'
  BY <1>1 DEF PanelInv, panel
<1>2. CASE UNCHANGED vars \/ AcceptLoop \/ Clients \/ StopFlag \/ StopSocket
           \/ (\E id \in Timelines : Navigate(id))
           \/ (\E tool \in {"add", "undo"} : UserEdit(tool))
  <2>1. UNCHANGED <<turn, queue, panel>>
    BY <1>2 DEF vars, panel, AcceptLoop, Clients, StopFlag, StopSocket, AcceptEnds,
                RequestRefused, ToolsCall, Accept, ClientActs, Navigate, UserEdit
  <2> QED BY <1>1, <2>1
<1>3. CASE Configure
  <2>1. queue = <<>> /\ turn.pc = "idle" /\ ~inFlight
    BY <1>3 DEF Configure, MayConfigure, PanelInv
  <2>2. /\ session' = session + 1 /\ shown' = {} /\ queue' = queue /\ turn' = turn
        /\ inFlight' = inFlight
    BY <1>3 DEF Configure
  <2> QED BY <2>1, <2>2 DEF PanelInv
<1>4. CASE Send
  <2>1. queue = <<>>
    BY <1>4 DEF Send, PanelInv
  <2>2. /\ inFlight' = TRUE /\ session' = session /\ shown' = shown /\ queue' = queue
        /\ turn'.session = session
    BY <1>4 DEF Send, Idle
  <2> QED BY <2>1, <2>2 DEF PanelInv
<1>5. CASE SubmitUserMessage \/ SendFails \/ CallTool \/ DispatchSync
           \/ (\E uses \in Requests : Reply(uses))
  <2>1. /\ turn.pc # "idle" /\ turn'.pc # "idle" /\ turn'.session = turn.session
        /\ UNCHANGED panel
        /\ \E kind \in {"entry", "call"} : queue' = Append(queue, Block(kind))
    BY <1>5 DEF SubmitUserMessage, SendFails, CallTool, DispatchSync, Reply, TurnType,
                Result, Resume
  <2> QED BY <2>1, QueueAppend DEF panel
<1>6. CASE EndTurn
  <2>1. turn.pc # "idle" /\ turn'.pc = "idle" /\ queue' = Append(queue, Block("end"))
    BY <1>6 DEF EndTurn, Idle
  <2> QED BY <1>6, <2>1, QueueAppend DEF EndTurn, panel
<1>7. CASE RunAsync
  <2>1. /\ queue # <<>> /\ queue' = Tail(queue) /\ session' = session /\ turn' = turn
        /\ inFlight' = IF Head(queue).kind = "end" THEN FALSE ELSE inFlight
    BY <1>7 DEF RunAsync
  <2>2. Head(queue).session = session
    BY <2>1 DEF PanelInv
  <2>3. shown' \subseteq {session}
    BY <1>7, <2>2 DEF RunAsync, PanelInv
  <2> QED BY <2>1, <2>3, QueueTail
<1>8. CASE RunCall
  <2>1. /\ queue # <<>> /\ Head(queue).kind = "call" /\ queue' = Tail(queue)
        /\ UNCHANGED panel /\ turn.pc # "idle"
    BY <1>8 DEF RunCall, RunSelect, RunSnapshot, RunRead, RunEdit, RunCreate, Calling
  <2>2. (\E pc \in {"snapshot"} : turn' = Resume(pc)) \/ (\E r \in {"ok", "error"} : turn' = Result(r))
        \/ turn' = [Resume("dispatch") EXCEPT !.snapshot = open.marks]
    <3>1. CASE RunSelect
      BY <3>1 DEF RunSelect
    <3>2. CASE RunSnapshot
      BY <3>2 DEF RunSnapshot
    <3>3. CASE RunRead
      BY <3>3 DEF RunRead
    <3>4. CASE RunEdit
      BY <3>4 DEF RunEdit
    <3>5. CASE RunCreate
      BY <3>5 DEF RunCreate
    <3> QED BY <1>8, <3>1, <3>2, <3>3, <3>4, <3>5 DEF RunCall
  <2>3. turn'.pc # "idle" /\ turn'.session = turn.session
    BY <2>2 DEF Resume, Result, TurnType
  <2>4. shown' \subseteq {session} /\ inFlight' = inFlight /\ session' = session
    BY <2>1 DEF panel, PanelInv
  <2> QED BY <2>1, <2>3, <2>4, QueueTail
<1>9. CASE ToolResult
  <2> DEFINE b == Block("entry")
  <2>1. /\ turn.pc # "idle" /\ turn'.pc # "idle" /\ turn'.session = turn.session /\ UNCHANGED panel
        /\ \/ queue' = queue \o <<b>> \o <<b>>
           \/ queue' = queue \o <<b>> \o <<>>
    BY <1>9 DEF ToolResult, TurnType
  <2>2. b.kind = "entry" /\ b.session = session /\ b \in [kind : {"entry", "call", "end"}, session : Nat]
    BY <2>1 DEF Block, PanelInv
  <2> HIDE DEF b
  <2>3. /\ queue' \in Seq([kind : {"entry", "call", "end"}, session : Nat])
        /\ \A i \in 1..Len(queue') : (i \in 1..Len(queue) /\ queue'[i] = queue[i]) \/ queue'[i] = b
    <3> DEFINE B == [kind : {"entry", "call", "end"}, session : Nat]
    <3>1. b \in B /\ queue \in Seq(B) /\ (queue' = queue \o <<b>> \o <<b>> \/ queue' = queue \o <<b>> \o <<>>)
      BY <2>1, <2>2 DEF PanelInv
    <3> HIDE DEF B
    <3>2. /\ queue \o <<b>> \in Seq(B) /\ Len(queue \o <<b>>) = Len(queue) + 1
          /\ \A i \in 1..Len(queue) : (queue \o <<b>>)[i] = queue[i]
          /\ (queue \o <<b>>)[Len(queue) + 1] = b /\ Len(queue) \in Nat
      BY <3>1
    <3> DEFINE q == queue \o <<b>>
    <3>3. \A i \in 1..Len(q) : (i \in 1..Len(queue) /\ q[i] = queue[i]) \/ q[i] = b
      BY <3>2
    <3>4. q \in Seq(B)
      BY <3>2
    <3> HIDE DEF q
    <3>5. q \o <<>> \in Seq(B) /\ Len(q \o <<>>) = Len(q) /\ \A i \in 1..Len(q) : (q \o <<>>)[i] = q[i]
      BY <3>4
    <3>6. /\ q \o <<b>> \in Seq(B) /\ Len(q \o <<b>>) = Len(q) + 1 /\ Len(q) \in Nat
          /\ \A i \in 1..Len(q) : (q \o <<b>>)[i] = q[i]
          /\ (q \o <<b>>)[Len(q) + 1] = b
      BY <3>1, <3>4
    <3>7. queue' = q \o <<b>> \/ queue' = q \o <<>>
      BY <3>1 DEF q
    <3>8. CASE queue' = q \o <<>>
      BY <3>3, <3>5, <3>8 DEF B
    <3>9. CASE queue' = q \o <<b>>
      BY <3>3, <3>6, <3>9 DEF B
    <3> QED BY <3>7, <3>8, <3>9
  <2>4. \A i \in 1..Len(queue) : queue[i].session = session /\ queue[i].kind # "end"
    BY <2>1 DEF PanelInv
  <2>5. \A i \in 1..Len(queue') : queue'[i].session = session /\ queue'[i].kind # "end"
    BY <2>2, <2>3, <2>4 DEF PanelInv
  <2> QED BY <2>1, <2>3, <2>5 DEF PanelInv, panel
<1> QED BY <1>2, <1>3, <1>4, <1>5, <1>6, <1>7, <1>8, <1>9 DEF Next, Turn, MainQueue, User

-----------------------------------------------------------------------------
(* The messages of the conversation *)

Message == [role : {"user", "assistant", "results"}, tools : Nat]

\* The message that follows message i gives the results it asked for.
AnsweredAt(i) ==
    messages[i].role = "assistant" /\ messages[i].tools > 0 =>
        /\ i < Len(messages)
        /\ messages[i + 1] = [messages[i] EXCEPT !.role = "results"]

\* The last answer of the model, while its tools run, is all that is not answered,
\* and it asked for the results there are and the uses that are left.
MessageInv ==
    /\ messages \in Seq(Message)
    /\ turn.pc \in Calls =>
         /\ messages # <<>>
         /\ messages[Len(messages)].role = "assistant"
         /\ messages[Len(messages)].tools =
              IF turn.pc = "result" THEN Len(turn.results) + Len(turn.uses) - 1
                                    ELSE Len(turn.results) + Len(turn.uses)
    /\ \A i \in 1..Len(messages) : i < Len(messages) \/ turn.pc \notin Calls => AnsweredAt(i)

\* A message is appended when everything before it is answered.
LEMMA MessageAppend ==
  ASSUME MessageInv, TurnType, NEW m \in Message, messages' = Append(messages, m),
         turn.pc \in Calls => m = [messages[Len(messages)] EXCEPT !.role = "results"],
         m.role = "assistant" /\ m.tools > 0 => turn'.pc \in Calls,
         turn'.pc \in Calls => m.role = "assistant" /\ turn'.pc # "result" /\
                               m.tools = Len(turn'.results) + Len(turn'.uses)
  PROVE  MessageInv'
<1>0. PICK n \in Nat : n = Len(messages)
  BY DEF MessageInv
<1>1. /\ messages' \in Seq(Message) /\ Len(messages') = n + 1 /\ messages'[n + 1] = m /\ n \in Nat
      /\ \A i \in 1..n : messages'[i] = messages[i]
  BY <1>0 DEF MessageInv
<1>2. ASSUME NEW i \in 1..n PROVE AnsweredAt(i)'
  <2>1. CASE i < n
    <3>1. i + 1 \in 1..n
      BY <1>1, <2>1
    <3>2. AnsweredAt(i)
      BY <1>0, <2>1 DEF MessageInv
    <3>3. /\ messages'[i] = messages[i] /\ messages'[i + 1] = messages[i + 1]
          /\ i < Len(messages')
      BY <1>1, <2>1, <3>1
    <3> QED BY <3>2, <3>3 DEF AnsweredAt
  <2>2. CASE i = n /\ turn.pc \in Calls
    BY <1>0, <1>1, <2>2 DEF AnsweredAt
  <2>3. CASE i = n /\ turn.pc \notin Calls
    <3>1. AnsweredAt(n)
      BY <1>0, <2>3 DEF MessageInv
    <3> QED BY <1>0, <1>1, <2>3, <3>1 DEF AnsweredAt
  <2> QED BY <1>1, <2>1, <2>2, <2>3
<1>3. ASSUME turn'.pc \notin Calls PROVE AnsweredAt(n + 1)'
  BY <1>1, <1>3 DEF AnsweredAt
<1>4. ASSUME NEW i \in 1..Len(messages'), i < Len(messages') \/ turn'.pc \notin Calls
      PROVE  AnsweredAt(i)'
  <2>1. i \in 1..n \/ i = n + 1
    BY <1>1
  <2> QED BY <1>1, <1>2, <1>3, <1>4, <2>1
<1>5. messages' # <<>> /\ messages'[Len(messages')] = m
  <2>1. Len(messages') # 0 /\ Len(messages') = n + 1
    BY <1>1
  <2> QED BY <1>1, <2>1
<1> QED BY <1>1, <1>4, <1>5 DEF MessageInv

\* A step of a tool that says nothing to the model yet.
LEMMA MessageKept ==
  ASSUME MessageInv, messages' = messages, turn'.pc \in Calls <=> turn.pc \in Calls,
         turn.pc \in Calls =>
           (IF turn'.pc = "result" THEN Len(turn'.results) + Len(turn'.uses) - 1
                                   ELSE Len(turn'.results) + Len(turn'.uses)) =
           (IF turn.pc = "result" THEN Len(turn.results) + Len(turn.uses) - 1
                                  ELSE Len(turn.results) + Len(turn.uses))
  PROVE  MessageInv'
  BY DEF MessageInv, AnsweredAt

\* Every step keeps the conversation in order.
LEMMA MessageStep == MessageInv /\ PanelInv /\ TurnType /\ [Next]_vars => MessageInv'
<1> SUFFICES ASSUME MessageInv, PanelInv, TurnType, [Next]_vars PROVE MessageInv'
  OBVIOUS
<1>1. ASSUME UNCHANGED <<turn, messages>> PROVE MessageInv'
  BY <1>1, MessageKept
<1>2. CASE UNCHANGED vars \/ AcceptLoop \/ Clients \/ StopFlag \/ StopSocket \/ RunAsync
           \/ (\E id \in Timelines : Navigate(id))
           \/ (\E tool \in {"add", "undo"} : UserEdit(tool))
  <2>1. UNCHANGED <<turn, messages>>
    BY <1>2 DEF vars, AcceptLoop, Clients, StopFlag, StopSocket, AcceptEnds, RunAsync,
                RequestRefused, ToolsCall, Accept, ClientActs, Navigate, UserEdit
  <2> QED BY <1>1, <2>1
<1>3. CASE Configure
  <2>1. turn.pc = "idle" /\ turn' = turn /\ messages' = <<>>
    BY <1>3 DEF Configure, MayConfigure, PanelInv
  <2>2. <<>> \in Seq(Message) /\ Len(<<>>) = 0
    OBVIOUS
  <2> QED BY <2>1, <2>2 DEF MessageInv, Calls
<1>4. CASE Send \/ SendFails \/ EndTurn
  <2>1. messages' = messages /\ turn'.pc \notin Calls
    <3>1. CASE Send
      BY <3>1 DEF Send, Idle, Calls
    <3>2. CASE SendFails
      BY <3>2 DEF SendFails, TurnType, Calls
    <3>3. CASE EndTurn
      BY <3>3 DEF EndTurn, Idle, Calls
    <3> QED BY <1>4, <3>1, <3>2, <3>3
  <2>2. turn.pc \notin Calls
    BY <1>4 DEF Send, SendFails, EndTurn, PanelInv, Calls
  <2> QED BY <2>1, <2>2, MessageKept
<1>5. CASE SubmitUserMessage
  <2> DEFINE m == [role |-> "user", tools |-> 0]
  <2>1. m \in Message /\ m.role = "user"
    BY DEF Message
  <2>2. messages' = Append(messages, m) /\ turn.pc \notin Calls /\ turn'.pc \notin Calls
    BY <1>5 DEF SubmitUserMessage, TurnType, Calls
  <2> HIDE DEF m
  <2> QED BY <2>1, <2>2, MessageAppend
<1>6. ASSUME NEW uses \in Requests, Reply(uses) PROVE MessageInv'
  <2> DEFINE m == [role |-> "assistant", tools |-> Len(uses)]
  <2>1. uses \in Seq(ToolUse) /\ Len(uses) \in Nat
    BY RequestsAssumption
  <2>2. m \in Message /\ m.role = "assistant" /\ m.tools = Len(uses)
    BY <2>1 DEF Message
  <2>3. messages' = Append(messages, m) /\ turn.pc \notin Calls
    BY <1>6 DEF Reply, Calls
  <2>4. /\ turn'.pc = IF uses = <<>> THEN "end" ELSE "call"
        /\ turn'.uses = uses /\ turn'.results = <<>>
    BY <1>6 DEF Reply, TurnType
  <2>5. m.tools > 0 => turn'.pc \in Calls
    BY <2>1, <2>2, <2>4 DEF Calls
  <2>6. Len(turn'.results) = 0
    BY <2>4
  <2> HIDE DEF m
  <2>7. turn'.pc \in Calls => turn'.pc # "result" /\ m.tools = Len(turn'.results) + Len(turn'.uses)
    BY <2>1, <2>2, <2>4, <2>6 DEF Calls
  <2> QED BY <2>2, <2>3, <2>5, <2>7, MessageAppend
<1>7. ASSUME NEW r, turn' = Result(r), turn.pc \in Calls \ {"result"}, messages' = messages
      PROVE  MessageInv'
  <2>1. turn'.pc = "result" /\ turn'.uses = turn.uses /\ turn'.results = Append(turn.results, r)
    BY <1>7 DEF Result, Resume, TurnType
  <2>2. Len(Append(turn.results, r)) = Len(turn.results) + 1 /\ Len(turn.results) \in Nat
        /\ Len(turn.uses) \in Nat
    BY DEF TurnType
  <2>4. Len(turn'.results) = Len(turn.results) + 1 /\ Len(turn'.uses) = Len(turn.uses)
    BY <2>1, <2>2
  <2>5. \A k, l \in Nat : (k + 1) + l - 1 = k + l
    OBVIOUS
  <2>3. Len(turn'.results) + Len(turn'.uses) - 1 = Len(turn.results) + Len(turn.uses)
    BY <2>2, <2>4, <2>5, Zenon
  <2> QED BY <1>7, <2>1, <2>3, MessageKept DEF Calls
<1>8. ASSUME turn'.pc \in Calls \ {"result"}, turn.pc \in Calls \ {"result"}, messages' = messages,
             turn'.uses = turn.uses, turn'.results = turn.results
      PROVE  MessageInv'
  BY <1>8, MessageKept
<1>9. CASE CallTool
  <2>1. turn.pc \in Calls \ {"result"} /\ messages' = messages
    BY <1>9 DEF CallTool, Calls
  <2>2. turn' = Result("error") \/ turn' = Resume("select") \/ turn' = Resume("snapshot")
    BY <1>9 DEF CallTool
  <2>3. CASE turn' = Resume("select") \/ turn' = Resume("snapshot")
    BY <1>8, <2>1, <2>3 DEF Resume, TurnType, Calls
  <2> QED BY <1>7, <2>1, <2>2, <2>3
<1>10. CASE DispatchSync
  BY <1>8, <1>10 DEF DispatchSync, TurnType, Calls
<1>11. CASE RunCall
  <2>1. turn.pc \in Calls \ {"result"} /\ messages' = messages
    BY <1>11 DEF RunCall, RunSelect, RunSnapshot, RunRead, RunEdit, RunCreate, Calling, Calls
  <2>2. \/ turn' = Resume("snapshot") \/ turn' = Result("ok") \/ turn' = Result("error")
        \/ turn' = [Resume("dispatch") EXCEPT !.snapshot = open.marks]
    <3>1. CASE RunSelect
      BY <3>1 DEF RunSelect
    <3>2. CASE RunSnapshot
      BY <3>2 DEF RunSnapshot
    <3>3. CASE RunRead
      BY <3>3 DEF RunRead
    <3>4. CASE RunEdit
      BY <3>4 DEF RunEdit
    <3>5. CASE RunCreate
      BY <3>5 DEF RunCreate
    <3> QED BY <1>11, <3>1, <3>2, <3>3, <3>4, <3>5 DEF RunCall
  <2>3. CASE \/ turn' = Resume("snapshot")
             \/ turn' = [Resume("dispatch") EXCEPT !.snapshot = open.marks]
    BY <1>8, <2>1, <2>3 DEF Resume, TurnType, Calls
  <2> QED BY <1>7, <2>1, <2>2, <2>3
<1>12. CASE ToolResult
  <2> DEFINE rest == Tail(turn.uses)
             last == messages[Len(messages)]
  <2>1. turn.pc = "result" /\ turn.pc \in Calls
    BY <1>12 DEF ToolResult, Calls
  <2>2. rest \in Seq(ToolUse) /\ Len(rest) = Len(turn.uses) - 1 /\ Len(turn.uses) \in Nat
        /\ Len(turn.results) \in Nat
    BY <2>1 DEF TurnType
  <2>3. /\ messages # <<>> /\ last \in Message /\ last.role = "assistant"
        /\ last.tools = Len(turn.results) + Len(turn.uses) - 1
    <3>1. /\ messages # <<>> /\ messages \in Seq(Message) /\ last.role = "assistant"
          /\ last.tools = Len(turn.results) + Len(turn.uses) - 1
      BY <2>1 DEF MessageInv
    <3>2. Len(messages) \in 1..Len(messages)
      BY <3>1
    <3> QED BY <3>1, <3>2
  <2>4. CASE rest # <<>>
    <3>1. /\ messages' = messages /\ turn'.pc = "call" /\ turn'.uses = rest
          /\ turn'.results = turn.results
      BY <1>12, <2>4 DEF ToolResult, Replied, TurnType
    <3>2. Len(turn'.results) + Len(turn'.uses) = Len(turn.results) + Len(turn.uses) - 1
      BY <2>2, <3>1
    <3> QED BY <2>1, <3>1, <3>2, MessageKept DEF Calls
  <2>5. CASE rest = <<>>
    <3> DEFINE m == [role |-> "results", tools |-> Len(turn.results)]
    <3>1. messages' = Append(messages, m) /\ turn'.pc \in {"end", "send"}
      BY <1>12, <2>5 DEF ToolResult, Replied, TurnType
    <3>2. m \in Message /\ m.role = "results"
      BY <2>2 DEF Message
    <3>3. last.tools = Len(turn.results)
      <4> HIDE DEF rest, last
      <4>1. Len(rest) = 0
        BY <2>5
      <4>2. Len(turn.uses) = 1
        BY <2>2, <4>1
      <4> QED BY <2>2, <2>3, <4>2
    <3>4. m = [last EXCEPT !.role = "results"]
      BY <2>3, <3>3 DEF Message
    <3> HIDE DEF m
    <3> QED BY <3>1, <3>2, <3>4, MessageAppend DEF Calls
  <2> QED BY <2>4, <2>5
<1> QED BY <1>2, <1>3, <1>4, <1>5, <1>6, <1>9, <1>10, <1>11, <1>12
        DEF Next, Turn, MainQueue, User

-----------------------------------------------------------------------------
IInv == HostInv /\ DocumentsInv /\ TurnType /\ PanelInv /\ MessageInv

\* Both hosts start with the documents of the disk and nothing under way.
LEMMA InitInv == Init => IInv
<1> SUFFICES ASSUME Init PROVE IInv
  OBVIOUS
<1>1. HostInv
  BY DEF Init, HostInv, Idle
<1>2. DocumentsInv
  <2>1. budget \in Budget /\ budget.mark = 1
    BY BoundsAssumption DEF Init, Budget
  <2>2. DOMAIN stored = FirstTimelines
        /\ \A t \in FirstTimelines : stored[t] = [marks |-> {}, log |-> EmptyLog]
    BY DEF Init
  <2>3. DocInv([marks |-> {}, log |-> EmptyLog], budget.mark)
    BY EmptyDocInv
  <2>4. active \in FirstTimelines /\ open = [marks |-> {}, log |-> EmptyLog]
    BY DEF Init
  <2> HIDE DEF Init
  <2> QED BY <2>1, <2>2, <2>3, <2>4, FirstAssumption DEF DocumentsInv
<1>3. TurnType
  <2>1. <<>> \in Seq(ToolUse) /\ <<>> \in Seq({"ok", "error"})
    OBVIOUS
  <2> QED BY <2>1 DEF Init, TurnType, Idle, PC, Calls
<1>4. PanelInv
  <2>1. queue = <<>> /\ session = 1 /\ shown = {} /\ inFlight = FALSE /\ turn.pc = "idle"
    BY DEF Init, Idle
  <2>2. <<>> \in Seq([kind : {"entry", "call", "end"}, session : Nat]) /\ Len(<<>>) = 0
    OBVIOUS
  <2>3. session \in Nat /\ 1..Len(queue) = {}
    BY <2>1, <2>2
  <2> HIDE DEF Init
  <2> QED BY <2>1, <2>2, <2>3, Zenon DEF PanelInv
<1>5. MessageInv
  BY DEF Init, MessageInv, Idle, Calls
<1> QED BY <1>1, <1>2, <1>3, <1>4, <1>5 DEF IInv

\* Every step keeps the invariant.
LEMMA NextInv == IInv /\ [Next]_vars => IInv'
  BY HostStep, DocumentsStep, TurnTypeStep, PanelStep, MessageStep DEF IInv

\* The callbacks of the editor (McpLiveBackend, main.mm): the window never holds
\* an edit the project has not, and each journal gives the document beside it.
THEOREM NothingIsUnsaved == Spec => []NothingUnsaved
<1>1. IInv => NothingUnsaved
  BY DEF IInv, DocumentsInv, DocInv, NothingUnsaved
<1> QED BY <1>1, InitInv, NextInv, PTL DEF Spec

\* ChatSession: the model is asked only when every tool it asked for is answered.
THEOREM EveryToolIsAnswered == Spec => []EveryToolAnswered
<1>1. IInv => EveryToolAnswered
  <2> SUFFICES ASSUME IInv, turn.pc = "send", NEW i \in DOMAIN messages PROVE AnsweredAt(i)
    BY DEF EveryToolAnswered, AnsweredAt
  <2>1. i \in 1..Len(messages) /\ turn.pc \notin Calls
    BY DEF IInv, MessageInv, Calls
  <2> QED BY <2>1 DEF IInv, MessageInv
<1> QED BY <1>1, InitInv, NextInv, PTL DEF Spec

\* ChatPanelView: a turn runs the session of the panel, which shows no other.
THEOREM PanelIsOfItsSession == Spec => []PanelShowsItsSession
<1>1. IInv => PanelShowsItsSession
  BY DEF IInv, PanelInv, PanelShowsItsSession
<1> QED BY <1>1, InitInv, NextInv, PTL DEF Spec
=============================================================================
