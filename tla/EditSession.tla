---------------------------- MODULE EditSession ----------------------------
(***************************************************************************)
(* One timeline being edited: the document and its journal (EditLog), the  *)
(* operations the tools of McpTools.cc submit, undo, redo, and both files  *)
(* written to disk and read back by a later session.                       *)
(***************************************************************************)
EXTENDS JournalFormat, Timeline, DocumentFile

CONSTANTS
    Plans,      \* each plan[n]: the kinds of operations tried as the n-th edit
    InitialDocument,
    Horizon,    \* no operation names a later position
    Deltas      \* the amounts edges move by

ASSUME SessionAssumption ==
    /\ Horizon \in Nat /\ Deltas \subseteq Int
    /\ Validate(InitialDocument)

VARIABLES
    doc,        \* the document
    applied,    \* EditLog::applied_, each entry with the documents around it
    undone,     \* EditLog::undone_
    plan,       \* the plan this session follows: it bounds the edits
    edits       \* how many operations were submitted

vars == <<doc, applied, undone, plan, edits>>

Init ==
    /\ doc = InitialDocument
    /\ applied = <<>> /\ undone = <<>>
    /\ plan \in Plans
    /\ edits = 0

-----------------------------------------------------------------------------
(* EditLog. *)

\* EditLog::Apply: an accepted operation is logged with its inverse, and
\* what had been undone is forgotten.  before, after and reread are what the
\* properties remember of the entry.
Logged(r) ==
    /\ r.ok
    /\ doc' = r.doc
    /\ applied' = Append(applied, [op |-> r.op, inv |-> r.inv, before |-> doc,
                                   after |-> r.doc, reread |-> FALSE])
    /\ undone' = <<>>

\* Undo and redo replay recorded identifiers: none is drawn for good.
Replayed(r) == r.ok /\ doc' = [r.doc EXCEPT !.next = doc.next]

Undo ==
    /\ applied # <<>>
    /\ Replayed(ApplyOperation(doc, Last(applied).inv))
    /\ applied' = Front(applied)
    /\ undone' = Append(undone, Last(applied))
    /\ UNCHANGED <<plan, edits>>

Redo ==
    /\ undone # <<>>
    /\ Replayed(ApplyOperation(doc, Last(undone).op))
    /\ undone' = Front(undone)
    /\ applied' = Append(applied, Last(undone))
    /\ UNCHANGED <<plan, edits>>

\* WriteEntries: every operation and every inverse as the journal's JSON.
WriteEntries(log) ==
    [i \in DOMAIN log |-> [log[i] EXCEPT !.op = SerializeOperation(@),
                                         !.inv = SerializeOperation(@)]]

ReadEntries(json) ==
    [i \in DOMAIN json |-> [json[i] EXCEPT !.op = DeserializeOperation(@),
                                           !.inv = DeserializeOperation(@),
                                           !.reread = TRUE]]

\* One entry that cannot be parsed refuses the whole journal.
Readable(log) ==
    \A e \in Range(log) : e.op.kind # "ParseError" /\ e.inv.kind # "ParseError"

\* The document and the journal are saved and the next session loads them.
Reload ==
    LET done == ReadEntries(WriteEntries(applied))
        todo == ReadEntries(WriteEntries(undone))
    IN  /\ applied \o undone # <<>>
        /\ Readable(done \o todo)
        /\ doc' = LoadFromString(SaveToString(doc), doc.next)
        /\ applied' = done
        /\ undone' = todo
        /\ UNCHANGED <<plan, edits>>

-----------------------------------------------------------------------------
(* The operations each tool submits, on what the document holds. *)

Tracks == DOMAIN doc.tracks
Linked(c) == InOrder(doc, Grouped(doc, c.group))
Follow == {{}, {t \in Tracks : doc.tracks[t].sync}}
Edges == {"head", "tail"}

InsertClip ==
    {[kind |-> "InsertClip", track |-> t, src |-> s, sin |-> 0, dur |-> n,
      tin |-> at, clip |-> None, exact |-> Nothing] :
        t \in Tracks, s \in Sources, at \in 0..Horizon, n \in {1, 2}}

RemoveClip ==
    {[kind |-> "RemoveClip", clip |-> id, sync |-> sync, exact |-> Nothing] :
        id \in ClipIds(doc), sync \in Follow}

Clear(kind, n) ==
    {[kind |-> kind, clips |-> ids, exact |-> Nothing] :
        ids \in kSubset(n, ClipIds(doc))}

ClearLinkedClips ==
    {[kind |-> "ClearLinkedClips", clips |-> Linked(c), group |-> c.group,
      exact |-> Nothing] : c \in Clips(doc)}

RemoveLinkedClips ==
    {[kind |-> "RemoveLinkedClips", clips |-> Linked(c), group |-> c.group,
      sync |-> sync, exact |-> Nothing] : c \in Clips(doc), sync \in Follow}

\* A clip, or a clip and those linked to it, is copied further on.
PasteClips ==
    LET copy(id, by) ==
            LET x == FindClip(doc, id)
            IN  [copied |-> id, track |-> FindTrackForClip(doc, id),
                 src |-> x.src, sin |-> x.sin, dur |-> x.dur,
                 tin |-> x.tin + by, group |-> x.group,
                 anchor |-> x.anchor, delta |-> x.delta]
    IN  UNION {{[kind |-> "PasteClips", overwrite |-> over,
                 items |-> [i \in DOMAIN ids |-> copy(ids[i], by)],
                 exact |-> Nothing] :
                    ids \in {Linked(c), <<c.id>>}, by \in 0..Horizon - c.tin,
                    over \in BOOLEAN} : c \in Clips(doc)}

MoveClip ==
    {[kind |-> "MoveClip", clip |-> id, track |-> t, tin |-> at,
      exact |-> Nothing] : id \in ClipIds(doc), t \in Tracks, at \in 0..Horizon}

MovedBy(id, by) ==
    [clip |-> id, track |-> FindTrackForClip(doc, id),
     tin |-> FindClip(doc, id).tin + by]

\* Two clips, or the linked clips, all moved by the same amount.
MoveClips ==
    {[kind |-> "MoveClips", exact |-> Nothing,
      moves |-> [i \in 1..2 |-> MovedBy(SetToSeq(ids)[i], by)]] :
        ids \in kSubset(2, ClipIds(doc)), by \in Deltas}

MoveLinkedClips ==
    {[kind |-> "MoveLinkedClips", group |-> c.group, exact |-> Nothing,
      moves |-> [i \in DOMAIN Linked(c) |-> MovedBy(Linked(c)[i], by)]] :
        c \in Clips(doc), by \in Deltas}

TrimClip ==
    {[kind |-> "TrimClip", clip |-> id, edge |-> edge, delta |-> by,
      exact |-> Nothing] : id \in ClipIds(doc), edge \in Edges, by \in Deltas}

TrimLinkedClips ==
    {[kind |-> "TrimLinkedClips", group |-> c.group, exact |-> Nothing,
      trims |-> [i \in DOMAIN Linked(c) |->
          [clip |-> Linked(c)[i], edge |-> edge, delta |-> by]]] :
        c \in Clips(doc), edge \in Edges, by \in Deltas}

RippleTrim ==
    {[kind |-> "RippleTrim", clip |-> c.id, edge |-> edge, delta |-> by,
      linked |-> IF whole THEN Linked(c) ELSE <<>>, sync |-> sync,
      exact |-> Nothing] :
        c \in Clips(doc), edge \in Edges, by \in Deltas, sync \in Follow,
        whole \in BOOLEAN}

TrimBoundaryAir ==
    LET trim(c, edge) == [clip |-> c.id, edge |-> edge, linked |-> Linked(c),
                          delta |-> IF edge = "head" THEN 1 ELSE -1]
    IN  {[kind |-> "TrimBoundaryAir", sync |-> sync, exact |-> Nothing,
          trims |-> <<trim(c, "head")>> \o
                    (IF both THEN <<trim(c, "tail")>> ELSE <<>>)] :
            c \in Clips(doc), both \in BOOLEAN, sync \in Follow}

RollEdit ==
    {[kind |-> "RollEdit", pairs |-> <<[left |-> a, right |-> b]>>,
      delta |-> by, exact |-> Nothing] : a, b \in ClipIds(doc), by \in Deltas}

SlipEdit ==
    {[kind |-> "SlipEdit", clips |-> IF whole THEN Linked(c) ELSE <<c.id>>,
      delta |-> by, exact |-> Nothing] :
        c \in Clips(doc), by \in Deltas, whole \in BOOLEAN}

DeleteGap ==
    {[kind |-> "DeleteGap", track |-> t, start |-> at, dur |-> n,
      linked |-> IF all THEN SetToSeq(Tracks \ {t}) ELSE <<>>,
      exact |-> Nothing] :
        t \in Tracks, at \in 0..Horizon, n \in {1, 2}, all \in BOOLEAN}

DetachAudio ==
    {[kind |-> "DetachAudio", clip |-> id, track |-> t, audio |-> None,
      exact |-> Nothing] : id \in ClipIds(doc), t \in Tracks}

SplitClip == {Split(id, at, None) : id \in ClipIds(doc), at \in 0..Horizon}

SplitLinkedClips ==
    {[kind |-> "SplitLinkedClips", group |-> c.group, clips |-> Linked(c),
      at |-> at, leftGroup |-> None, rightGroup |-> None, rights |-> <<>>,
      sync |-> sync, exact |-> Nothing] :
        c \in Clips(doc), at \in 0..Horizon, sync \in Follow}

SplitClipAtPositions ==
    {[kind |-> "SplitClipAtPositions", clip |-> id,
      positions |-> SetToSortSeq(at, <), exact |-> Nothing] :
        id \in ClipIds(doc),
        at \in kSubset(1, 1..Horizon) \cup kSubset(2, 1..Horizon)}

\* ResolveLinked: the words are cut out of the linked clips as well.
RemoveWords ==
    {[kind |-> "RemoveWords", clip |-> c.id, gap |-> gap,
      ranges |-> <<[from |-> a, to |-> a + n]>>, sync |-> sync,
      linked |-> IF whole THEN SelectSeq(Linked(c), LAMBDA i : i # c.id)
                          ELSE <<>>,
      exact |-> Nothing] :
        c \in Clips(doc), a \in 0..Horizon, n \in {1, 2}, gap \in {0, 1},
        sync \in Follow, whole \in BOOLEAN}

-----------------------------------------------------------------------------
(* Tracks, bins, lists and the settings of clips. *)

AddTrack ==
    {[kind |-> "AddTrack", track |-> None,
      state |-> [kind |-> k, index |-> i, clips |-> <<>>, locked |-> FALSE,
                 sync |-> TRUE, output |-> "on"]] :
        k \in {"video", "audio"}, i \in 0..Cardinality(Tracks)}

RemoveTrack == {[kind |-> "RemoveTrack", track |-> t] : t \in Tracks}

SetTrack(kind, values) ==
    {[kind |-> kind, track |-> t, value |-> v] : t \in Tracks, v \in values}

SetSequence(kind, value) == {[kind |-> kind, value |-> value]}

Bins == DOMAIN doc.bins

EditBin(kind) ==
    CASE kind = "AddBin" ->
           {[kind |-> kind, bin |-> None, name |-> "new", parent |-> p] :
               p \in Bins \cup {None}}
      [] kind = "RemoveBin" ->
           {[kind |-> kind, bin |-> b, name |-> "", parent |-> None] : b \in Bins}
      [] kind = "RenameBin" ->
           {[kind |-> kind, bin |-> b, name |-> "renamed"] : b \in Bins}
      [] kind = "MoveBin" ->
           {[kind |-> kind, bin |-> b, parent |-> p] :
               b \in Bins, p \in Bins \cup {None}}
      [] kind = "SetMediaBin" ->
           {[kind |-> kind, media |-> s, bin |-> p] :
               s \in Sources, p \in Bins \cup {None}}

\* The entries of a list are taken out by their identifiers.
RemoveEntry(kind, list) == {[kind |-> kind, id |-> id] : id \in Ids(list)}

AddMarker ==
    {[kind |-> "AddMarker", at |-> -1,
      item |-> [id |-> None, time |-> at, name |-> "m"]] : at \in {0, Horizon}}

UpdateMarker ==
    {[kind |-> "UpdateMarker", item |-> [m EXCEPT !.time = @ + 1]] :
        m \in Range(doc.markers)}

AddCaptionStyle ==
    {[kind |-> "AddCaptionStyle", at |-> -1, item |-> [id |-> None]]}

AddTransition ==
    {[kind |-> "AddTransition", at |-> -1,
      item |-> [id |-> None, track |-> FindTrackForClip(doc, a), left |-> a,
                right |-> b, dur |-> n, align |-> side]] :
        a, b \in ClipIds(doc), n \in {1, 2}, side \in {"center", "start_at_cut"}}

UpdateTransition ==
    {[kind |-> "UpdateTransition", id |-> id, dur |-> 1, align |-> "end_at_cut"] :
        id \in Ids(doc.transitions)}

AddMulticamGroup ==
    {[kind |-> "AddMulticamGroup", at |-> -1,
      item |-> [id |-> None, active |-> None,
                angles |-> <<[id |-> None, clip |-> a],
                             [id |-> None, clip |-> b]>>]] :
        a, b \in ClipIds(doc)}

SetMulticamActiveAngle ==
    UNION {{[kind |-> "SetMulticamActiveAngle", id |-> g.id, active |-> x] :
               x \in Ids(g.angles) \cup {None}} : g \in Range(doc.groups)}

\* A new group, an existing one that the two clips join, or none.
SetClipLink ==
    {[kind |-> "SetClipLink", first |-> a, second |-> b, group |-> g,
      exact |-> Nothing] :
        a, b \in ClipIds(doc),
        g \in {None, doc.next} \cup {c.group : c \in Clips(doc)}}

SetClip(kind) ==
    CASE kind = "SetClipCaption" ->
           {[kind |-> kind, clip |-> id, style |-> None, text |-> "other"] :
               id \in ClipIds(doc)}
      [] kind = "SetClipEffects" ->
           {[kind |-> kind, clip |-> id, fx |-> fx] :
               id \in ClipIds(doc), fx \in {<<>>, <<None>>}}
      [] kind = "SetClipOpacity" ->
           {[kind |-> kind, clip |-> id, opacity |-> 0] : id \in ClipIds(doc)}
      [] kind = "SetClipAudio" ->
           {[kind |-> kind, clip |-> id, gain |-> 2, fin |-> 0, fout |-> 1] :
               id \in ClipIds(doc)}

Submitted(kind) ==
    CASE kind = "InsertClip" -> InsertClip
      [] kind = "RemoveClip" -> RemoveClip
      [] kind = "ClearClip" -> Clear(kind, 1)
      [] kind = "ClearClips" -> Clear(kind, 2)
      [] kind = "ClearLinkedClips" -> ClearLinkedClips
      [] kind = "RemoveLinkedClips" -> RemoveLinkedClips
      [] kind = "PasteClips" -> PasteClips
      [] kind = "MoveClip" -> MoveClip
      [] kind = "MoveClips" -> MoveClips
      [] kind = "MoveLinkedClips" -> MoveLinkedClips
      [] kind = "TrimClip" -> TrimClip
      [] kind = "TrimLinkedClips" -> TrimLinkedClips
      [] kind = "RippleTrim" -> RippleTrim
      [] kind = "TrimBoundaryAir" -> TrimBoundaryAir
      [] kind = "RollEdit" -> RollEdit
      [] kind = "SlipEdit" -> SlipEdit
      [] kind = "DeleteGap" -> DeleteGap
      [] kind = "DetachAudio" -> DetachAudio
      [] kind = "SplitClip" -> SplitClip
      [] kind = "SplitLinkedClips" -> SplitLinkedClips
      [] kind = "SplitClipAtPositions" -> SplitClipAtPositions
      [] kind = "RemoveWords" -> RemoveWords
      [] kind = "AddTrack" -> AddTrack
      [] kind = "RemoveTrack" -> RemoveTrack
      [] kind \in {"SetTrackLock", "SetTrackSyncLock"} -> SetTrack(kind, BOOLEAN)
      [] kind = "SetTrackOutput" -> SetTrack(kind, {"on", "muted"})
      [] kind = "UpdateSequence" -> SetSequence(kind, "vertical")
      [] kind = "SetColorManagement" -> SetSequence(kind, "log")
      [] kind \in {"AddBin", "RemoveBin", "RenameBin", "MoveBin", "SetMediaBin"} ->
           EditBin(kind)
      [] kind = "AddMarker" -> AddMarker
      [] kind = "RemoveMarker" -> RemoveEntry(kind, doc.markers)
      [] kind = "UpdateMarker" -> UpdateMarker
      [] kind = "AddCaptionStyle" -> AddCaptionStyle
      [] kind = "RemoveCaptionStyle" -> RemoveEntry(kind, doc.styles)
      [] kind = "AddTransition" -> AddTransition
      [] kind = "RemoveTransition" -> RemoveEntry(kind, doc.transitions)
      [] kind = "UpdateTransition" -> UpdateTransition
      [] kind = "AddMulticamGroup" -> AddMulticamGroup
      [] kind = "RemoveMulticamGroup" -> RemoveEntry(kind, doc.groups)
      [] kind = "SetMulticamActiveAngle" -> SetMulticamActiveAngle
      [] kind = "SetClipLink" -> SetClipLink
      [] kind \in {"SetClipCaption", "SetClipEffects", "SetClipOpacity",
                   "SetClipAudio"} -> SetClip(kind)

\* A tool call whose operation is accepted; a refused one changes nothing.
Edit ==
    /\ edits < Len(plan)
    /\ \E kind \in plan[edits + 1] : \E op \in Submitted(kind) :
           Logged(ApplyOperation(doc, op))
    /\ edits' = edits + 1
    /\ UNCHANGED plan

Next == Edit \/ Undo \/ Redo \/ Reload

Spec == Init /\ [][Next]_vars

-----------------------------------------------------------------------------
(* Properties. *)

\* What a document says, whatever identifiers remain to be drawn.
Content(d) == [d EXCEPT !.next = 0]

Unprocessed(cs) ==
    [i \in DOMAIN cs |-> [cs[i] EXCEPT !.gain = 0, !.fin = 0, !.fout = 0]]

\* The same without the audio processing of the clips.
Muted(d) ==
    [Content(d) EXCEPT !.tracks = [t \in DOMAIN @ |->
        [@[t] EXCEPT !.clips = Unprocessed(@)]]]

\* What the journal is to keep of an operation: all but the audio processing
\* of the clips it recorded.
Kept(op) ==
    IF op.kind \in OfTracks
    THEN [op EXCEPT !.exact = [t \in DOMAIN @ |-> Unprocessed(@[t])]]
    ELSE IF op.kind = "AddTrack" THEN [op EXCEPT !.state.clips = Unprocessed(@)]
    ELSE op

Reread == \E e \in Range(applied) \cup Range(undone) : e.reread

\* The documents agree; once the journal was read back, up to the audio
\* processing the journal does not keep.
Agree(d, e) == IF Reread THEN Muted(d) = Muted(e) ELSE Content(d) = Content(e)

\* The tracks an edit changed although they were locked: the cut at several
\* positions and the removal of words reach the tracks of linked clips
\* without looking at their lock.
ThroughLock(e) ==
    /\ e.op.kind \in {"SplitClipAtPositions", "RemoveWords"}
    /\ \E t \in DOMAIN e.op.exact : e.before.tracks[t].locked

\* One undo gives back the document that was there before the edit, for every
\* kind of operation and however many undos, redos and sessions came between;
\* it is refused only for an edit that went through a lock.  (EditLog::Undo
\* and the inverse each Apply function builds)
UndoRestores ==
    LET restored(r, e) ==
            IF ThroughLock(e) THEN ~r.ok ELSE r.ok /\ Agree(r.doc, e.before)
    IN  applied # <<>> =>
            restored(ApplyOperation(doc, Last(applied).inv), Last(applied))

\* One redo gives back the document the edit had made, with the identifiers
\* it had drawn.  (EditLog::Redo and the results operations record)
RedoReproduces ==
    LET reproduced(r, e) == r.ok /\ Agree(r.doc, e.after)
    IN  undone # <<>> =>
            reproduced(ApplyOperation(doc, Last(undone).op), Last(undone))

\* The next session opens the document that was left, whatever edits led to
\* it, and finds it valid; and it can read the journal, in which every
\* operation and every inverse says what it said, but for the audio processing
\* of recorded clips.  (Document::SaveToString and LoadFromString,
\* SerializeOperation and DeserializeOperation)
ReopenedAsLeft ==
    LET d == LoadFromString(SaveToString(doc), doc.next)
        log == applied \o undone
        readBack(op) == DeserializeOperation(SerializeOperation(op)) = Kept(op)
    IN  /\ d = doc /\ Validate(d)
        /\ \A i \in DOMAIN log : readBack(log[i].op) /\ readBack(log[i].inv)

\* The clips of a locked track change through no operation, undo or redo,
\* save those that go through the lock.  (LockedTrackTouchedBy)
LockedTrackUntouched ==
    [][\A t \in DOMAIN doc.tracks :
          doc.tracks[t].locked =>
              \/ t \in DOMAIN doc'.tracks /\ doc'.tracks[t].clips = doc.tracks[t].clips
              \/ ThroughLock(Last(applied'))]_vars

\* The operations that cut or link clips.
Cuts == {"SplitClip", "SplitLinkedClips", "SplitClipAtPositions", "SetClipLink"}

\* What track t shows at p after op, by what op means: a cut changes nothing,
\* a cleared clip leaves a blank, a removed one closes it on its own track, an
\* inserted one pushes what follows, a slip changes the part of the source
\* shown, a roll moves the cut and nothing else.
Meant(d, op, t, p) ==
    LET was(q) == ResolveTrack(d, t, q)
        on(id) == FindTrackForClip(d, id) = t
        clip(id) == FindClip(d, id)
        covers(c) == c.tin <= p /\ p < End(c)
        under(ids) == \E id \in ids : on(id) /\ covers(clip(id))
    IN  CASE op.kind \in {"ClearClip", "ClearClips"} ->
               IF under(op.clips) THEN Nothing ELSE was(p)
          [] op.kind = "ClearLinkedClips" ->
               IF under(Range(op.clips)) THEN Nothing ELSE was(p)
          [] op.kind = "RemoveClip" ->
               IF on(op.clip) /\ p >= clip(op.clip).tin
               THEN was(p + clip(op.clip).dur) ELSE was(p)
          [] op.kind = "InsertClip" ->
               IF t # op.track \/ p < op.tin THEN was(p)
               ELSE IF p < op.tin + op.dur THEN <<op.src, op.sin + p - op.tin>>
               ELSE was(p - op.dur)
          [] op.kind = "SlipEdit" ->
               IF under(Range(op.clips))
               THEN [was(p) EXCEPT ![2] = @ + op.delta] ELSE was(p)
          [] op.kind = "RollEdit" ->
               LET l == clip(op.pairs[1].left)
                   r == clip(op.pairs[1].right)
               IN  IF ~on(l.id) THEN was(p)
                   ELSE IF p \in End(l)..End(l) + op.delta - 1
                   THEN <<l.src, l.sin + p - l.tin>>
                   ELSE IF p \in End(l) + op.delta..End(l) - 1
                   THEN <<r.src, r.sin + p - r.tin>> ELSE was(p)
          [] OTHER -> was(p)

\* Frame by frame, the timeline shows after an edit what the edit means, with
\* the clips and transitions around it left as they were.  (each Apply
\* function, read through Timeline::ResolveTrack)
FramesFollowTheEdit ==
    [][LET op == Last(applied').op
       IN  (/\ edits' # edits
            /\ op.kind \in Cuts \cup {"ClearClip", "ClearClips", "ClearLinkedClips",
                                      "InsertClip", "SlipEdit", "RollEdit"}
               \/ (op.kind = "RemoveClip" /\ op.sync = {})) =>
           \A t \in DOMAIN doc.tracks \cap DOMAIN doc'.tracks, p \in 0..2 * Horizon :
              /\ Kind(doc, t) # "caption" =>
                    ResolveTrack(doc', t, p) = Meant(doc, op, t, p)
              /\ op.kind \in Cuts =>
                    ResolveTrackLayers(doc', t, p) = ResolveTrackLayers(doc, t, p)]_vars

=============================================================================
