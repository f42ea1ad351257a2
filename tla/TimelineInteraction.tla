------------------------ MODULE TimelineInteraction ------------------------
(***************************************************************************)
(* The timeline under the pointer (TimelineView.cc): selection, drags that *)
(* move, trim or slip clips, the cut tool, and the range, ripple and       *)
(* source edits, which all end as one operation given to EditLog::Apply.   *)
(* Positions are frames: what a pixel means, and the magnetism that        *)
(* replaces a position by a near one, is the choice of the position.       *)
(* Between two pointer events a tool call of the live backend may edit the *)
(* same document.                                                          *)
(***************************************************************************)
EXTENDS Operations

CONSTANTS
    InitialDocument,
    Horizon,    \* the last position pointed at
    Deltas,     \* how far a drag goes
    MaxEdits    \* how many edits reach the document

ASSUME InteractionAssumption ==
    /\ Horizon \in Nat /\ MaxEdits \in Nat /\ Deltas \subseteq Int
    /\ Validate(InitialDocument)

VARIABLES
    doc,
    linkedSelection,    \* linked_selection_enabled_
    mode,               \* trim_mode_: "normal", "ripple", "roll" or "slip"
    selected,           \* selected_clip_ids_
    drag,               \* drag_hit_: the clip and the edge, or Nothing
    preview,            \* what the drag shows and would do, or Nothing
    edits               \* how many edits were made (a bound)

vars == <<doc, linkedSelection, mode, selected, drag, preview, edits>>

Init ==
    /\ doc = InitialDocument
    /\ linkedSelection \in BOOLEAN
    /\ mode \in {"normal", "ripple", "roll", "slip"}
    /\ selected = <<>> /\ drag = Nothing /\ preview = Nothing
    /\ edits = 0

-----------------------------------------------------------------------------
(* Selections and drifts. *)

ExpandLinkedClipSelection(d, ids) ==
    LET present == SelectSeq(ids, LAMBDA i : i \in ClipIds(d))
        mates == UNION {Grouped(d, FindClip(d, i).group) : i \in Range(present)}
    IN  present \o InOrder(d, {c \in mates : c.id \notin Range(present)})

\* How far a clip is from the place its link recorded; Nothing when the clip
\* it is measured from is gone or belongs to another group.
ClipSyncDrift(d, id) ==
    LET c == FindClip(d, id)
        a == FindClip(d, c.anchor)
    IN  IF c.anchor \in ClipIds(d) /\ a.group = c.group
        THEN <<Phase(c) - Phase(a) - c.delta>> ELSE Nothing

TimelineCutOperationForClip(d, c, at) ==
    IF linkedSelection THEN TimelineCut(d, c, at) ELSE Split(c.id, at, None)

-----------------------------------------------------------------------------
(* The operation of a drag. *)

\* The tracks of a kind in the order of their index, and the place of one.
TracksOfKindInEditOrder(d, kind) ==
    SetToSortSeq({t \in DOMAIN d.tracks : Kind(d, t) = kind},
                 LAMBDA a, b : d.tracks[a].index < d.tracks[b].index)
TrackOrdinal(d, t) ==
    LET ts == TracksOfKindInEditOrder(d, Kind(d, t))
    IN  CHOOSE i \in DOMAIN ts : ts[i] = t

\* The selection moves as one block: by the same time, and by as many tracks
\* of its kind as the clip under the pointer.  None is no track.
MoveOperation(d, sel, c, target, at) ==
    LET home(id) == FindTrackForClip(d, id)
        offset == TrackOrdinal(d, target) - TrackOrdinal(d, home(c.id))
        destination(id) ==
            LET ts == TracksOfKindInEditOrder(d, Kind(d, home(id)))
                i == TrackOrdinal(d, home(id)) + offset
            IN  IF Kind(d, target) = Kind(d, home(c.id)) /\ i \in DOMAIN ts
                THEN ts[i] ELSE None
        members == SelectSeq(sel, LAMBDA i : i \in ClipIds(d))
        moves == [k \in DOMAIN members |->
                     [clip |-> members[k], track |-> destination(members[k]),
                      tin |-> FindClip(d, members[k]).tin + at - c.tin]]
        linked == /\ linkedSelection /\ c.group # None
                  /\ \A i \in Range(sel) :
                        i \in ClipIds(d) /\ FindClip(d, i).group = c.group
    IN  IF Len(sel) > 1 /\ Len(moves) > 1
        THEN IF linked
             THEN [kind |-> "MoveLinkedClips", group |-> c.group,
                   moves |-> moves, exact |-> Nothing]
             ELSE [kind |-> "MoveClips", moves |-> moves, exact |-> Nothing]
        ELSE Move([clip |-> c.id, track |-> target, tin |-> at])

\* A selection stops at the start of the timeline.
AtWall(d, sel, c, delta) ==
    LET starts == {c.tin} \cup {FindClip(d, i).tin : i \in Range(sel) \cap ClipIds(d)}
    IN  c.tin + Max({delta, -Min(starts)})

\* Mutant: the clips linked to the dragged one are left behind.
LinkedSelectedNobody(d, sel, c) == <<>>

\* The selected clips that follow the dragged one in a trim or a slip.
LinkedSelected(d, sel, c) ==
    IF linkedSelection /\ c.group # None
    THEN SelectSeq(sel, LAMBDA i : /\ i # c.id /\ i \in ClipIds(d)
                                   /\ FindClip(d, i).group = c.group)
    ELSE <<>>

\* The slip stops where the source of a member does.
SlipOperation(d, sel, c, delta) ==
    LET ids == <<c.id>> \o LinkedSelected(d, sel, c)
        clamp(x, id) ==
            LET m == FindClip(d, id)
            IN  IF m.src \notin Sources THEN x
                ELSE Min({Max({x, -m.sin}), Length[m.src] - m.sin - m.dur})
    IN  [kind |-> "SlipEdit", clips |-> ids, exact |-> Nothing,
         delta |-> FoldLeft(clamp, delta, ids)]

\* The edge stops at the neighbours, at the ends of the source and at one
\* frame of duration.
ConstrainTrimDelta(d, c, edge, delta) ==
    LET t == FindTrackForClip(d, c.id)
        cs == d.tracks[t].clips
        i == IndexOf(cs, c.id)
        caption == Kind(d, t) = "caption"
        lower == IF edge = "head"
                 THEN Max({-c.tin} \cup (IF caption THEN {} ELSE {-c.sin}) \cup
                          (IF i > 1 THEN {End(cs[i - 1]) - c.tin} ELSE {}))
                 ELSE 1 - c.dur
        uppers == IF edge = "head" THEN {c.dur - 1}
                  ELSE (IF i < Len(cs) THEN {cs[i + 1].tin - End(c)} ELSE {}) \cup
                       (IF caption THEN {} ELSE {Length[c.src] - c.sin - c.dur})
    IN  IF delta < lower THEN lower
        ELSE IF uppers # {} /\ delta > Min(uppers) THEN Min(uppers) ELSE delta

\* The cut at the dragged edge, and the cuts of linked clips at its place.
RollPairs(d, c, edge) ==
    LET t == FindTrackForClip(d, c.id)
        cut == IF edge = "head" THEN c.tin ELSE End(c)
        on(u) == Range(d.tracks[u].clips)
        pairs(u, L, R) == {p \in (on(u) \cap L) \X (on(u) \cap R) :
                              End(p[1]) = cut /\ p[2].tin = cut}
        all == Clips(d)
        here == pairs(t, all, all)
        main == CHOOSE p \in here : TRUE
        linked == IF linkedSelection /\ main[1].group # None /\ main[2].group # None
                  THEN UNION {pairs(u, Grouped(d, main[1].group),
                                       Grouped(d, main[2].group)) :
                              u \in DOMAIN d.tracks \ {t}}
                  ELSE {}
    IN  IF here = {} THEN <<>>
        ELSE LET ps == <<main>> \o SetToSeq(linked)
             IN  [i \in DOMAIN ps |-> [left |-> ps[i][1].id, right |-> ps[i][2].id]]

TrimOperation(d, sel, c, edge, delta) ==
    LET mates == LinkedSelected(d, sel, c)
        trimmed == SelectSeq(sel, LAMBDA i : i \in {c.id} \cup Range(mates))
    IN  CASE mode = "ripple" ->
               [kind |-> "RippleTrim", clip |-> c.id, edge |-> edge,
                delta |-> delta, exact |-> Nothing,
                linked |-> IF linkedSelection /\ c.group # None
                           THEN SelectSeq(sel, LAMBDA i : i # c.id) ELSE <<>>,
                sync |-> {t \in DOMAIN d.tracks : d.tracks[t].sync}]
          [] mode = "roll" ->
               [kind |-> "RollEdit", pairs |-> RollPairs(d, c, edge),
                delta |-> delta, exact |-> Nothing]
          [] mode \notin {"ripple", "roll"} /\ Len(trimmed) > 1 ->
               [kind |-> "TrimLinkedClips", group |-> c.group,
                exact |-> Nothing,
                trims |-> [i \in DOMAIN trimmed |->
                    [clip |-> trimmed[i], edge |-> edge, delta |-> delta]]]
          [] OTHER -> [kind |-> "TrimClip", clip |-> c.id, edge |-> edge,
                       delta |-> delta, exact |-> Nothing]

Try(d, op) == IF op = Nothing THEN Refused ELSE ApplyOperation(d, op)

\* What is shown of the operation op, of which r is the trial: the clips where
\* it leaves them.  moved: it is to be done as it is on release.  of is what
\* the properties remember.
Preview(d, op, r, hit, by, at, target) ==
    [op |-> op, valid |-> r.ok,
     moved |-> r.ok /\ (IF hit.edge # "none" THEN by # 0
                        ELSE mode = "slip" /\ op.delta # 0),
     target |-> target, at |-> at, of |-> d,
     shows |-> IF r.ok THEN [i \in ClipIds(r.doc) |-> Times(FindClip(r.doc, i))]
                       ELSE Nothing]

\* UpdatePreview: the operation is tried on a copy of the document.
PreviewOf(d, sel, hit, delta, target) ==
    LET c == FindClip(d, hit.clip)
        by == IF mode = "normal" THEN ConstrainTrimDelta(d, c, hit.edge, delta)
                                 ELSE delta
        at == AtWall(d, sel, c, delta)
        op == IF hit.edge # "none" THEN TrimOperation(d, sel, c, hit.edge, by)
              ELSE IF mode = "slip" THEN SlipOperation(d, sel, c, delta)
              ELSE IF target = None THEN Nothing
              ELSE MoveOperation(d, sel, c, target, at)
    IN  Preview(d, op, Try(d, op), hit, by, at, target)

-----------------------------------------------------------------------------
(* Pointer events. *)

\* EditLog::Apply on the document of the timeline, with the result r.
Committed(r) ==
    /\ edits < MaxEdits
    /\ r.ok
    /\ doc' = r.doc
    /\ edits' = edits + 1

Commit(op) == Committed(ApplyOperation(doc, op))

Idle == drag = Nothing
Moving == mode # "slip" /\ drag.edge = "none"

\* On a clip: the selection is kept when the clip is part of a larger one,
\* and otherwise becomes the clip with those linked to it; a locked track
\* allows no drag, and a locked partner is left out of a move.
PointerDown(c, at) ==
    LET edge == IF mode = "slip" THEN "none" ELSE at
        keep == edge = "none" /\ Len(selected) > 1 /\ c.id \in Range(selected)
        linked == ExpandLinkedClipSelection(doc, <<c.id>>)
        lockedPartner == edge = "none" /\ \E i \in Range(linked) \ {c.id} :
                             doc.tracks[FindTrackForClip(doc, i)].locked
        locked == doc.tracks[FindTrackForClip(doc, c.id)].locked
        sel == IF keep THEN selected
               ELSE IF linkedSelection /\ ~locked /\ ~lockedPartner
               THEN linked ELSE <<c.id>>
        hit == [clip |-> c.id, edge |-> edge]
    IN  /\ Idle /\ edits < MaxEdits
        /\ selected' = sel
        /\ IF locked THEN drag' = Nothing /\ preview' = Nothing
           ELSE /\ drag' = hit
                /\ preview' = PreviewOf(doc, sel, hit, 0,
                       IF edge = "none" /\ mode # "slip"
                       THEN FindTrackForClip(doc, c.id) ELSE None)
        /\ UNCHANGED <<doc, linkedSelection, mode, edits>>

\* On no clip.
PointerDownBeside ==
    /\ Idle /\ selected # <<>>
    /\ selected' = <<>>
    /\ UNCHANGED <<doc, linkedSelection, mode, drag, preview, edits>>

\* A trim or a slip of a clip that is gone shows nothing any more, while a
\* move keeps what it showed.  The track under the pointer, if any, matters
\* to a move only.
PointerDrag(delta, target) ==
    /\ ~Idle
    /\ ~Moving => target = None
    /\ preview' = IF drag.clip \in ClipIds(doc)
                  THEN PreviewOf(doc, selected, drag, delta, target)
                  ELSE IF Moving THEN preview ELSE Nothing
    /\ UNCHANGED <<doc, linkedSelection, mode, selected, drag, edits>>

\* Mutant: a release that comes late moves the clip under the pointer alone.
PendingOperationAlone ==
    IF preview = Nothing \/ ~preview.valid THEN Nothing
    ELSE IF ~Moving THEN preview.op
    ELSE Move([clip |-> drag.clip, track |-> preview.target, tin |-> preview.at])

\* What a valid preview does.  A move is done unless it ends where the clip is
\* now.  A trim that had nothing to do still brings the edge back to where the
\* preview showed it, on the clip and on those linked to it.
PendingOperation ==
    LET c == FindClip(doc, drag.clip)
        shown == preview.shows[drag.clip]
        delta == IF drag.edge = "head" THEN shown.tin - c.tin
                                       ELSE shown.dur - c.dur
        back(id) == [clip |-> id, edge |-> drag.edge, delta |-> delta]
        op == preview.op
    IN  IF preview = Nothing \/ ~preview.valid THEN Nothing
        ELSE IF preview.moved THEN op
        ELSE IF drag.clip \notin ClipIds(doc) \/ mode = "slip" THEN Nothing
        ELSE IF Moving
        THEN IF /\ preview.target = FindTrackForClip(doc, drag.clip)
                /\ preview.at = c.tin
             THEN Nothing ELSE op
        ELSE IF delta = 0 THEN Nothing
        ELSE IF op.kind = "TrimLinkedClips"
        THEN [op EXCEPT !.trims = [i \in DOMAIN @ |-> back(@[i].clip)]]
        ELSE [kind |-> "TrimClip", clip |-> drag.clip, edge |-> drag.edge,
              delta |-> delta, exact |-> Nothing]

\* The operation of the preview is applied to the document as it is now.
PointerUp ==
    LET drop(r) == IF r.ok THEN Committed(r) ELSE UNCHANGED <<doc, edits>>
    IN  /\ ~Idle
        /\ drop(Try(doc, PendingOperation))
        /\ drag' = Nothing /\ preview' = Nothing
        /\ UNCHANGED <<linkedSelection, mode, selected>>

CancelDrag ==
    /\ ~Idle
    /\ drag' = Nothing /\ preview' = Nothing
    /\ UNCHANGED <<doc, linkedSelection, mode, selected, edits>>

\* The lasso, and a click that extends the selection.
SelectClips(ids) ==
    /\ Idle /\ edits < MaxEdits
    /\ selected' = ids
    /\ UNCHANGED <<doc, linkedSelection, mode, drag, preview, edits>>

-----------------------------------------------------------------------------
(* Edits of one gesture. *)

Gesture(op) ==
    /\ Idle
    /\ Commit(op)
    /\ UNCHANGED <<linkedSelection, mode, selected, drag, preview>>

\* DeleteGap carries the tracks these gestures computed.
Replace(track, start, dur, results) ==
    [kind |-> "DeleteGap", track |-> track, start |-> start, dur |-> dur,
     linked |-> SetToSeq(DOMAIN results \ {track}), exact |-> results]

\* Mutant: what remains of a clip shows its source from the beginning.
RestartedFrom(c, from, tin) == [c EXCEPT !.dur = End(c) - from, !.tin = tin]

\* What remains of a clip from a frame on, put at tin.
RestFrom(c, from, tin) ==
    [c EXCEPT !.sin = @ + from - c.tin, !.dur = End(c) - from, !.tin = tin]

\* The range leaves the targeted tracks, and with a ripple those in sync;
\* what it cuts in two gets a link group for each side.  Identifiers are
\* drawn from next on.
TimelineRangeDeleteOperation(d, from, to, ripple, targets) ==
    LET dur == to - from
        affected == {t \in DOMAIN d.tracks :
                        /\ ~d.tracks[t].locked
                        /\ t \in targets \/ (ripple /\ d.tracks[t].sync)}
        across == {c \in Clips(d) : c.tin < from /\ End(c) > to}
        order == InOrder(d, across)
        nth(id) == CHOOSE i \in DOMAIN order : order[i] = id
        groups == SetToSeq({c.group : c \in across} \ {None})
        side(g, k) == IF g = None THEN None
                      ELSE d.next + Len(order) + k +
                           2 * (CHOOSE i \in DOMAIN groups : groups[i] = g)
        right(c) == RestFrom(c, to, IF ripple THEN from ELSE to)
        parts(c) ==
            IF End(c) <= from THEN <<c>>
            ELSE IF c.tin >= to
            THEN <<IF ripple THEN [c EXCEPT !.tin = @ - dur] ELSE c>>
            ELSE IF c \in across
            THEN <<[c EXCEPT !.dur = from - c.tin, !.group = side(@, 0)],
                   [right(c) EXCEPT !.id = d.next + nth(c.id), !.group = side(@, 1)]>>
            ELSE IF c.tin < from THEN <<[c EXCEPT !.dur = from - c.tin]>>
            ELSE IF End(c) > to THEN <<right(c)>> ELSE <<>>
        result(t) == FlattenSeq([i \in DOMAIN d.tracks[t].clips |->
                                    parts(d.tracks[t].clips[i])])
        changed == {t \in affected : result(t) # d.tracks[t].clips}
        first == CHOOSE t \in changed : \A u \in changed : t <= u
    IN  IF /\ from < to /\ changed # {}
           /\ \E t \in targets : ~d.tracks[t].locked
        THEN Replace(first, from, dur, [t \in changed |-> result(t)])
        ELSE Nothing

\* The range of the selected clips, on their tracks.
BuildTimelineRippleDeleteSelection(d, ids) ==
    LET cs == {FindClip(d, i) : i \in ids}
    IN  TimelineRangeDeleteOperation(d, Min({c.tin : c \in cs}),
            Max({End(c) : c \in cs}), TRUE, TracksOf(d, ids))

\* A piece of a source is inserted or overwrites, on a video track and on
\* audio tracks, the new clips linked to each other.
TimelineSourceEditOperation(d, src, sin, dur, at, target, insert, audio) ==
    LET to == at + dur
        aimed == {target} \cup audio
        affected == {t \in DOMAIN d.tracks :
                        /\ ~d.tracks[t].locked
                        /\ t \in aimed \/ (insert /\ d.tracks[t].sync)}
        order == InOrder(d, {c \in Clips(d) : c.tin < at /\ End(c) > at})
        rightId(c) == d.next + 10 + (CHOOSE i \in DOMAIN order : order[i] = c.id)
        left(c) == [c EXCEPT !.dur = at - c.tin]
        right(c, from, tin) ==
            LET r == RestFrom(c, from, tin)
            IN  IF c.tin < at THEN WithLink([r EXCEPT !.id = rightId(c)], Unlinked)
                              ELSE r
        parts(c) ==
            IF End(c) <= at \/ (~insert /\ c.tin >= to) THEN <<c>>
            ELSE IF insert
            THEN IF c.tin >= at THEN <<[c EXCEPT !.tin = @ + dur]>>
                                ELSE <<left(c), right(c, at, to)>>
            ELSE (IF c.tin < at THEN <<left(c)>> ELSE <<>>) \o
                 (IF End(c) > to THEN <<right(c, to, to)>> ELSE <<>>)
        new(t) ==
            LET id == IF t = target THEN d.next ELSE d.next + 1 + t
                c == NewClip(id, src, sin, dur, at, t # target)
            IN  IF audio = {} THEN c
                ELSE [c EXCEPT !.group = d.next + 1, !.anchor = d.next]
        result(t) ==
            SortClips(FlattenSeq([i \in DOMAIN d.tracks[t].clips |->
                                     parts(d.tracks[t].clips[i])]) \o
                      (IF t \in aimed THEN <<new(t)>> ELSE <<>>))
    IN  IF /\ ~d.tracks[target].locked /\ Kind(d, target) = "video"
           /\ ValidateSourceRange(src, sin, dur)
           /\ \A t \in audio : ~d.tracks[t].locked /\ Kind(d, t) = "audio"
        THEN Replace(target, at, dur, [t \in affected |-> result(t)])
        ELSE Nothing

\* The identifiers these operations draw.
Drew == 60
Built(op) ==
    /\ Idle
    /\ edits < MaxEdits
    /\ LET made(r) == r.ok /\ doc' = Drawn(r.doc, Drew) IN made(Try(doc, op))
    /\ edits' = edits + 1
    /\ UNCHANGED <<linkedSelection, mode, selected, drag, preview>>

\* The cut, the range and the source edit look at no selection: they are
\* tried with an empty one only.
Cut ==
    \E c \in Clips(doc), at \in 0..Horizon :
        /\ selected = <<>>
        /\ Gesture(TimelineCutOperationForClip(doc, c, at))

RangeDelete ==
    \E from, to \in 0..Horizon, ripple \in BOOLEAN, T \in SUBSET DOMAIN doc.tracks :
        /\ selected = <<>>
        /\ Built(TimelineRangeDeleteOperation(doc, from, to, ripple, T))

RippleDeleteSelection ==
    /\ selected # <<>> /\ Range(selected) \subseteq ClipIds(doc)
    /\ Built(BuildTimelineRippleDeleteSelection(doc, Range(selected)))

SourceEdit ==
    \E s \in Sources, at \in 0..Horizon, n \in {1, 2}, insert \in BOOLEAN,
       t \in DOMAIN doc.tracks, A \in SUBSET DOMAIN doc.tracks :
        /\ selected = <<>>
        /\ Built(TimelineSourceEditOperation(doc, s, 0, n, at, t, insert, A))

\* A tool call of the live backend trims or removes a clip, or locks a track,
\* whether or not a drag is going on.
ExternalEdit ==
    /\ \/ \E id \in ClipIds(doc) :
             Commit([kind |-> "TrimClip", clip |-> id, edge |-> "head",
                     delta |-> 1, exact |-> Nothing])
       \/ \E id \in ClipIds(doc) :
             Commit([kind |-> "ClearClip", clips |-> {id}, exact |-> Nothing])
       \/ \E t \in DOMAIN doc.tracks :
             Commit([kind |-> "SetTrackLock", track |-> t, value |-> TRUE])
    /\ UNCHANGED <<linkedSelection, mode, selected, drag, preview>>

Next ==
    \/ \E c \in Clips(doc), at \in {"none", "head", "tail"} : PointerDown(c, at)
    \/ PointerDownBeside
    \/ \E delta \in Deltas, t \in DOMAIN doc.tracks \cup {None} : PointerDrag(delta, t)
    \/ PointerUp \/ CancelDrag
    \/ \E a, b \in Clips(doc) : SelectClips(InOrder(doc, {a, b}))
    \/ Cut \/ RangeDelete \/ RippleDeleteSelection \/ SourceEdit
    \/ ExternalEdit

Spec == Init /\ [][Next]_vars

-----------------------------------------------------------------------------
(* Properties. *)

\* What track t shows at frame f: a frame of a source, or nothing.
Shown(d, t, f) ==
    LET here == {c \in Range(d.tracks[t].clips) : c.tin <= f /\ f < End(c)}
    IN  IF here = {} THEN Nothing
        ELSE LET c == CHOOSE c \in here : TRUE IN <<c.src, c.text, c.sin + f - c.tin>>

Layout(d) == [i \in ClipIds(d) |-> Times(FindClip(d, i))]

\* The drag shows something that was worked out on the document as it is.
Fresh == drag # Nothing /\ preview # Nothing /\ preview.valid /\ preview.of = doc

\* Releasing the pointer does what the drag showed: when nothing else edited
\* the document since, the operation is accepted and leaves each clip at the
\* place, the duration and the part of its source that was drawn; it does
\* nothing only where nothing was drawn.  (UpdatePreview against
\* PendingOperation and PointerUp)
DropDoesWhatWasShown ==
    LET leaves(r, op) == IF op = Nothing THEN preview.shows = Layout(doc)
                         ELSE r.ok /\ Layout(r.doc) = preview.shows
    IN  Fresh => leaves(Try(doc, PendingOperation), PendingOperation)

\* A drag that takes all the clips of a link group keeps them in step: what
\* each has drifted from the clip it was linked to does not change, in any of
\* the trim modes.  (UpdatePreview, ClipSyncDrift)
LinkedDragKeepsSync ==
    (Fresh /\ linkedSelection /\ PendingOperation # Nothing) =>
        LET G == Grouped(doc, FindClip(doc, drag.clip).group)
            after == ApplyOperation(doc, PendingOperation).doc
        IN  {c.id : c \in G} \subseteq Range(selected) =>
                \A c \in G : ClipSyncDrift(after, c.id) = ClipSyncDrift(doc, c.id)

\* Each document is met in such a state.
AtRest == Idle /\ selected = <<>> /\ linkedSelection /\ mode = "normal"

\* The range is gone from every track the gesture reaches, with what follows
\* it moved up in a ripple and left in place otherwise, frame by frame; the
\* other tracks show what they did.  (TimelineRangeDeleteOperation)
RangeDeleteFrames ==
    AtRest => \A from, to \in 0..Horizon, ripple \in BOOLEAN,
               T \in SUBSET DOMAIN doc.tracks :
        LET reached(t) == /\ ~doc.tracks[t].locked
                          /\ t \in T \/ (ripple /\ doc.tracks[t].sync)
            right(r) == r.ok =>
                \A t \in DOMAIN doc.tracks, f \in 0..2 * Horizon :
                    Shown(r.doc, t, f) =
                        IF ~reached(t) \/ f < from THEN Shown(doc, t, f)
                        ELSE IF ripple THEN Shown(doc, t, f + to - from)
                        ELSE IF f < to THEN Nothing ELSE Shown(doc, t, f)
        IN  right(Try(doc, TimelineRangeDeleteOperation(doc, from, to, ripple, T)))

\* An edit from the source viewer shows the piece on the aimed tracks at its
\* place; an insertion moves what followed down on every track it reaches and
\* an overwrite touches nothing else, frame by frame.
\* (TimelineSourceEditOperation)
SourceEditFrames ==
    AtRest => \A s \in Sources, at \in 0..Horizon, n \in {1, 2}, insert \in BOOLEAN,
               v \in DOMAIN doc.tracks, A \in SUBSET DOMAIN doc.tracks :
        LET aimed == {v} \cup A
            moved(t) == insert /\ ~doc.tracks[t].locked
                        /\ (t \in aimed \/ doc.tracks[t].sync)
            right(r) == r.ok =>
                \A t \in DOMAIN doc.tracks, f \in 0..2 * Horizon :
                    Shown(r.doc, t, f) =
                        IF t \in aimed /\ f \in at..at + n - 1 THEN <<s, "", f - at>>
                        ELSE IF ~moved(t) \/ f < at THEN Shown(doc, t, f)
                        ELSE IF f < at + n THEN Nothing ELSE Shown(doc, t, f - n)
        IN  right(Try(doc,
                TimelineSourceEditOperation(doc, s, 0, n, at, v, insert, A)))

\* What the two gestures that reach several tracks at once leave on each frame
\* of each track is what they mean, locked and synchronized tracks included.
\* (TimelineRangeDeleteOperation, TimelineSourceEditOperation)
GestureFrames == RangeDeleteFrames /\ SourceEditFrames

=============================================================================
