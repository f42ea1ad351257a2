----------------------------- MODULE Operations -----------------------------
(***************************************************************************)
(* The editing operations of a timeline: ApplyOperation and the function   *)
(* it calls for each kind of operation.  An operation is a record with the *)
(* field kind; applying it to a document gives the document after it, the  *)
(* operation with the results it recorded (its "exact" field, which a redo *)
(* replays) and its inverse, or is refused and changes nothing.            *)
(***************************************************************************)
EXTENDS Document

-----------------------------------------------------------------------------
(* Results. *)

Refused == [ok |-> FALSE]

Result(d, op, inv) == [ok |-> TRUE, doc |-> d, op |-> op, inv |-> inv]

\* The edit is kept when the document it leaves is valid.
ValidateResult(r) == IF r.ok => Validate(r.doc) THEN r ELSE Refused

Snapshots(d, T) == [t \in T \cap DOMAIN d.tracks |-> d.tracks[t].clips]

\* Recorded tracks take the place of the current ones.
WithTracks(d, exact) ==
    [d EXCEPT !.tracks = [t \in DOMAIN @ |->
        IF t \in DOMAIN exact THEN [@[t] EXCEPT !.clips = exact[t]] ELSE @[t]]]

Recorded(op) == DOMAIN op.exact # {}

\* An operation that carries its result restores it instead of computing it.
Restore(d, op) ==
    IF DOMAIN op.exact \subseteq DOMAIN d.tracks
    THEN Result(WithTracks(d, op.exact), op,
                [op EXCEPT !.exact = Snapshots(d, DOMAIN op.exact)])
    ELSE Refused

\* Mutant: the inverse brings back the first of the tracks only.
EditedFirstTrack(d, e, T, op) ==
    Result(e, [op EXCEPT !.exact = Snapshots(e, T)],
              [op EXCEPT !.exact = Snapshots(d, {t \in T : \A u \in T : t <= u})])

\* The edit took d to e and touched the tracks T only.
Edited(d, e, T, op) ==
    Result(e, [op EXCEPT !.exact = Snapshots(e, T)],
              [op EXCEPT !.exact = Snapshots(d, T)])

\* A compound: each step is applied to what the previous one left, and one
\* refusal refuses them all.
Chain(d, steps, Apply(_, _)) ==
    LET after[n \in 0..Len(steps)] ==
            IF n = 0 THEN [ok |-> TRUE, doc |-> d]
            ELSE LET r == after[n - 1]
                 IN  IF r.ok THEN ValidateResult(Apply(r.doc, steps[n])) ELSE r
    IN  after[Len(steps)]

\* The compound is recorded as one edit of the tracks T.
Compound(d, r, T, op) == IF r.ok THEN Edited(d, r.doc, T, op) ELSE Refused

ValidateSourceRange(src, sin, dur) ==
    /\ src \in Sources
    /\ dur > 0 /\ sin >= 0 /\ sin + dur <= Length[src]

TracksOf(d, ids) == {FindTrackForClip(d, id) : id \in ids}

\* The clips ids, all different, belong to the link group.
Members(d, ids, group) ==
    /\ group # None /\ IsInjective(ids) /\ Range(ids) \subseteq ClipIds(d)
    /\ \A i \in DOMAIN ids : FindClip(d, ids[i]).group = group

\* n identifiers were drawn from GenerateUlid.
Drawn(d, n) == [d EXCEPT !.next = @ + n]

-----------------------------------------------------------------------------
(* Insert, remove and clear. *)

Positions(cs) == [id \in Ids(cs) |-> cs[IndexOf(cs, id)].tin]

\* The recorded clips return to the recorded places.
ApplyExactPositions(d, exact) ==
    LET place(c) == IF c.id \in DOMAIN exact THEN [c EXCEPT !.tin = exact[c.id]]
                                             ELSE c
    IN  [d EXCEPT !.tracks = [t \in DOMAIN @ |-> [@[t] EXCEPT !.clips =
            [i \in DOMAIN @ |-> place(@[i])]]]]

\* They are refused when a clip is unknown or a place is negative.
ExactPositionsFit(d, exact) ==
    DOMAIN exact \subseteq ClipIds(d) /\ \A id \in DOMAIN exact : exact[id] >= 0

\* The clips from the insertion point on make room on their own track.
ApplyInsert(d, op) ==
    LET cs == d.tracks[op.track].clips
        id == IF op.clip = None THEN d.next ELSE op.clip
        before == SelectSeq(cs, LAMBDA c : c.tin < op.tin)
        after == SelectSeq(cs, LAMBDA c : c.tin >= op.tin)
        clip == NewClip(id, op.src, op.sin, op.dur, op.tin, FALSE)
        e == ApplyExactPositions(
                 WithClips(Drawn(d, 1), op.track,
                     Append(before, clip) \o
                     ShiftPositionsAtOrAfter(after, op.tin, op.dur)), op.exact)
    IN  IF /\ op.track \in DOMAIN d.tracks
           /\ ValidateSourceRange(op.src, op.sin, op.dur)
           /\ ~(Kind(d, op.track) = "video" /\ op.src \in AudioOnly)
           /\ op.tin >= 0
           /\ id \notin UsedIds(d)
           /\ before # <<>> => End(Last(before)) <= op.tin
           /\ ExactPositionsFit(e, op.exact)
        THEN Result(e,
                 [op EXCEPT !.clip = id,
                            !.exact = IF Recorded(op) THEN @ ELSE
                                Restrict(Positions(e.tracks[op.track].clips),
                                         Ids(after))],
                 [kind |-> "RemoveClip", clip |-> id, sync |-> {},
                  exact |-> Positions(after)])
        ELSE Refused

\* Ripple delete of one clip: what follows it closes up, on its own track
\* and on the tracks that follow in sync.
ApplyRemove(d, op) ==
    LET t == FindTrackForClip(d, op.clip)
        removed == FindClip(d, op.clip)
        T == {t} \cup op.sync
        moved == {c \in UNION {Range(d.tracks[u].clips) : u \in T} :
                     c.tin >= End(removed)}
        closed == [u \in T |->
                     ShiftPositionsAtOrAfter(
                         Without(d.tracks[u].clips, {op.clip}),
                         End(removed), -removed.dur)]
        e == ApplyExactPositions(WithTracks(d, closed), op.exact)
        at(c) == FindClip(e, c).tin
        before == [i \in {c.id : c \in moved} |-> FindClip(d, i).tin]
    IN  IF /\ op.clip \in ClipIds(d) /\ op.sync \subseteq DOMAIN d.tracks
           /\ ExactPositionsFit(e, op.exact)
        THEN IF Recorded(op)
             THEN Result(e, op,
                      [kind |-> "InsertClip", track |-> t, src |-> removed.src,
                       sin |-> removed.sin, dur |-> removed.dur,
                       tin |-> removed.tin, clip |-> removed.id,
                       exact |-> before])
             ELSE Result(e, [op EXCEPT !.exact = [i \in DOMAIN before |-> at(i)]],
                      [kind |-> "ClearClips", clips |-> {op.clip},
                       exact |-> Snapshots(d, T)])
        ELSE Refused

\* Clear leaves the interval of the clips empty.
ApplyClearClips(d, op) ==
    LET T == TracksOf(d, op.clips)
        cleared == [t \in T |-> Without(d.tracks[t].clips, op.clips)]
    IN  IF Recorded(op) THEN Restore(d, op)
        ELSE IF op.clips # {} /\ op.clips \subseteq ClipIds(d)
             THEN Edited(d, WithTracks(d, cleared), T, op)
             ELSE Refused

\* ClearClip: the same for one clip, whose inverse names one track.
ApplyClear(d, op) ==
    IF Recorded(op) /\ Cardinality(DOMAIN op.exact) # 1 THEN Refused
    ELSE ApplyClearClips(d, op)

ApplyClearLinked(d, op) ==
    IF Recorded(op) THEN Restore(d, op)
    ELSE IF Len(op.clips) >= 2 /\ Members(d, op.clips, op.group)
         THEN LET T == TracksOf(d, Range(op.clips))
                  cleared == [t \in T |->
                                 Without(d.tracks[t].clips, Range(op.clips))]
              IN  Edited(d, WithTracks(d, cleared), T, op)
         ELSE Refused

\* Ripple delete of linked clips, one after the other; the tracks in sync
\* that hold no member close up by the duration of the anchor.
ApplyRemoveLinked(d, op) ==
    LET ids == op.clips
        T == TracksOf(d, Range(ids))
        anchors == {i \in DOMAIN ids : FindClip(d, ids[i]).anchor = ids[i]}
        anchor == FindClip(d, ids[IF anchors = {} THEN 1
                                  ELSE CHOOSE i \in anchors :
                                         \A j \in anchors : j <= i])
        remove(e, id) == ApplyRemove(e, [kind |-> "RemoveClip", clip |-> id,
                                         sync |-> {}, exact |-> Nothing])
        follow(r) == IF ~r.ok THEN r ELSE [r EXCEPT !.doc =
            WithTracks(@, [t \in op.sync \ T |->
                ShiftPositionsAtOrAfter(@.tracks[t].clips, End(anchor),
                                        -anchor.dur)])]
    IN  IF Recorded(op) THEN Restore(d, op)
        ELSE IF /\ Len(ids) >= 2 /\ Members(d, ids, op.group)
                /\ op.sync \subseteq DOMAIN d.tracks
             THEN Compound(d, follow(Chain(d, ids, remove)), T \cup op.sync, op)
             ELSE Refused

-----------------------------------------------------------------------------
(* Overwriting edits: paste and move. *)

\* What remains of clip c when from..to is overwritten.  A piece on each side
\* makes two clips, the right one with the new identifier; the effects, the
\* links and the style of the clip go to both.
Pieces(c, from, to, id, keepFades) ==
    LET keepLeft == c.tin < from
        keepRight == End(c) > to
        left == [c EXCEPT !.dur = from - c.tin,
                          !.fout = IF keepFades THEN @ ELSE 0]
        right == [c EXCEPT !.id = IF keepLeft THEN id ELSE @,
                           !.sin = @ + (to - c.tin), !.dur = End(c) - to,
                           !.tin = to, !.fin = IF keepFades THEN @ ELSE 0]
    IN  IF End(c) <= from \/ c.tin >= to THEN <<c>>
        ELSE (IF keepLeft THEN <<left>> ELSE <<>>) \o
             (IF keepRight THEN <<right>> ELSE <<>>)

Overwritten(cs, from, to, id, keepFades) ==
    FlattenSeq([i \in DOMAIN cs |-> Pieces(cs[i], from, to, id, keepFades)])

\* Copied clips arrive unlinked, or linked anew among themselves when their
\* anchor is copied with them.
ApplyPasteClips(d, op) ==
    LET items == op.items
        n == Len(items)
        T == {items[i].track : i \in DOMAIN items}
        mates(i) == {j \in DOMAIN items : items[j].group = items[i].group}
        linked(i) == items[i].group # None /\ Cardinality(mates(i)) > 1
        newId(i) == d.next + i
        newGroup(i) == d.next + n + (CHOOSE j \in mates(i) :
                                        \A k \in mates(i) : j <= k)
        anchors(i) == {j \in DOMAIN items : items[j].copied = items[i].anchor}
        pasted(i) ==
            LET c == NewClip(newId(i), items[i].src, items[i].sin,
                             items[i].dur, items[i].tin, FALSE)
            IN  IF linked(i)
                THEN [c EXCEPT !.group = newGroup(i), !.delta = items[i].delta,
                               !.anchor = newId(CHOOSE j \in anchors(i) : TRUE)]
                ELSE c
        base == Drawn(d, 3 * n + 1)
        make(e, i) == WithClips(e, items[i].track,
            Overwritten(e.tracks[items[i].track].clips, items[i].tin,
                        End(items[i]), d.next + 2 * n + i, TRUE))
        room == IF op.overwrite
                THEN FoldLeft(make, base, [i \in 1..n |-> i]) ELSE base
        filled == [t \in T |-> SortClips(room.tracks[t].clips \o
                      [k \in 1..Len(SelectSeq([i \in 1..n |-> i],
                                        LAMBDA i : items[i].track = t)) |->
                          pasted(SelectSeq([i \in 1..n |-> i],
                                     LAMBDA i : items[i].track = t)[k])])]
        meet(a, b) == a.tin < End(b) /\ b.tin < End(a)
    IN  IF Recorded(op) THEN Restore(d, op)
        ELSE IF /\ n > 0
                /\ T \subseteq DOMAIN d.tracks
                /\ \A i \in 1..n :
                      /\ ValidateSourceRange(items[i].src, items[i].sin,
                                             items[i].dur)
                      /\ items[i].tin >= 0
                      /\ linked(i) => anchors(i) # {}
                      /\ ~op.overwrite =>
                            \A c \in Range(d.tracks[items[i].track].clips) :
                                ~meet(c, items[i])
                      /\ \A j \in 1..n \ {i} :
                            /\ items[i].copied # items[j].copied
                            /\ items[i].track = items[j].track =>
                                   ~meet(items[i], items[j])
             THEN Edited(d, WithTracks(room, filled), T, op)
             ELSE Refused

\* The clip leaves its place and overwrites what its new place held.
ApplyMove(d, op) ==
    LET from == FindTrackForClip(d, op.clip)
        moved == [FindClip(d, op.clip) EXCEPT !.tin = op.tin]
        lifted == WithClips(Drawn(d, 1), from,
                            Without(d.tracks[from].clips, {op.clip}))
        e == WithClips(lifted, op.track,
                 SortClips(Append(Overwritten(lifted.tracks[op.track].clips,
                                      op.tin, End(moved), d.next, FALSE),
                                  moved)))
    IN  IF /\ op.clip \in ClipIds(d) /\ op.track \in DOMAIN d.tracks
           /\ Kind(d, from) = Kind(d, op.track)
           /\ op.tin >= 0
        THEN IF Recorded(op) THEN Restore(d, op)
             ELSE Edited(d, e, {from, op.track}, op)
        ELSE Refused

Move(m) == [kind |-> "MoveClip", clip |-> m.clip, track |-> m.track,
            tin |-> m.tin, exact |-> Nothing]

\* Several clips at once: all leave, then each overwrites its new place.
ApplyMoveClips(d, op) ==
    LET ms == op.moves
        ids == {m.clip : m \in Range(ms)}
        home(m) == FindTrackForClip(d, m.clip)
        T == TracksOf(d, ids) \cup {m.track : m \in Range(ms)}
        lifted == WithTracks(d, [t \in TracksOf(d, ids) |->
                                    Without(d.tracks[t].clips, ids)])
        place(e, m) == ApplyMove([e EXCEPT !.tracks[home(m)].clips =
                                     Append(@, FindClip(d, m.clip))], Move(m))
        meet(a, b) == /\ a.track = b.track
                      /\ a.tin < b.tin + FindClip(d, b.clip).dur
                      /\ b.tin < a.tin + FindClip(d, a.clip).dur
    IN  IF Recorded(op) THEN Restore(d, op)
        ELSE IF /\ Len(ms) >= 2
                /\ ids \subseteq ClipIds(d) /\ Cardinality(ids) = Len(ms)
                /\ \A m \in Range(ms) : /\ m.track \in DOMAIN d.tracks
                                        /\ Kind(d, home(m)) = Kind(d, m.track)
                                        /\ m.tin >= 0
                /\ \A i, j \in DOMAIN ms : i < j => ~meet(ms[i], ms[j])
             THEN Compound(d, Chain(lifted, ms, place), T, op)
             ELSE Refused

\* The members of a link group, moved one after the other.
ApplyMoveLinked(d, op) ==
    LET ids == [i \in DOMAIN op.moves |-> op.moves[i].clip]
        T == TracksOf(d, Range(ids)) \cup {m.track : m \in Range(op.moves)}
        place(e, m) == ApplyMove(e, Move(m))
    IN  IF Recorded(op) THEN Restore(d, op)
        ELSE IF /\ Len(ids) >= 2 /\ Members(d, ids, op.group)
                /\ {m.track : m \in Range(op.moves)} \subseteq DOMAIN d.tracks
             THEN Compound(d, Chain(d, op.moves, place), T, op)
             ELSE Refused

-----------------------------------------------------------------------------
(* Trims: the edges of clips, alone, linked, and with what follows. *)

Times(c) == [sin |-> c.sin, dur |-> c.dur, tin |-> c.tin]

\* The recorded place, duration and source position of a clip.
WithTimes(c, x) == [c EXCEPT !.sin = x.sin, !.dur = x.dur, !.tin = x.tin]

\* The edge of the clip moves by delta; a caption has no source to follow.
Trimmed(c, edge, delta, caption) ==
    IF edge = "head"
    THEN [c EXCEPT !.sin = IF caption THEN @ ELSE @ + delta,
                   !.dur = @ - delta, !.tin = @ + delta]
    ELSE [c EXCEPT !.dur = @ + delta]

\* ValidateEditedSourceRange
InSource(c) == ValidateSourceRange(c.src, c.sin, c.dur)

ApplyTrim(d, op) ==
    LET c == FindClip(d, op.clip)
        caption == Kind(d, FindTrackForClip(d, op.clip)) = "caption"
        t == Trimmed(c, op.edge, op.delta, caption)
        result == IF Recorded(op) THEN WithTimes(t, op.exact) ELSE t
    IN  IF /\ op.clip \in ClipIds(d)
           /\ t.dur > 0 /\ t.tin >= 0
           /\ caption \/ InSource(t)
        THEN Result(WithClip(d, op.clip, result),
                    [op EXCEPT !.exact = Times(result)],
                    [op EXCEPT !.delta = -op.delta, !.exact = Times(c)])
        ELSE Refused

ApplyTrimLinked(d, op) ==
    LET ids == [i \in DOMAIN op.trims |-> op.trims[i].clip]
        trim(e, x) == ApplyTrim(e, [kind |-> "TrimClip", clip |-> x.clip,
                                    edge |-> x.edge, delta |-> x.delta,
                                    exact |-> Nothing])
    IN  IF Recorded(op) THEN Restore(d, op)
        ELSE IF Len(ids) >= 2 /\ Members(d, ids, op.group)
             THEN Compound(d, Chain(d, op.trims, trim), TracksOf(d, Range(ids)), op)
             ELSE Refused

\* The clip and the linked ones are trimmed in place, what follows each of
\* them on its track closes up or makes room, and so do the tracks in sync
\* from the edited edge of the clip on.
ApplyRippleTrim(d, op) ==
    LET ids == {op.clip} \cup Range(op.linked)
        anchor == FindClip(d, op.clip)
        T == TracksOf(d, ids)
        at == IF op.edge = "head" THEN anchor.tin ELSE End(anchor)
        by == IF op.edge = "head" THEN -op.delta ELSE op.delta
        trimmed(c) == [Trimmed(c, op.edge, op.delta, FALSE) EXCEPT !.tin = c.tin]
        \* the end of the trimmed clip of track t that the code visits last
        boundary(t) ==
            LET on == {i \in DOMAIN op.linked :
                    /\ op.linked[i] \notin {op.clip} \cup {op.linked[j] : j \in 1..i - 1}
                    /\ FindTrackForClip(d, op.linked[i]) = t}
            IN  End(FindClip(d, IF on = {} THEN op.clip ELSE op.linked[Max(on)]))
        rippled(t) ==
            [i \in DOMAIN d.tracks[t].clips |->
                LET c == d.tracks[t].clips[i]
                IN  IF c.id \in ids THEN trimmed(c)
                    ELSE IF c.tin >= boundary(t) THEN [c EXCEPT !.tin = @ + by]
                    ELSE c]
        e == WithTracks(d, [t \in T \cup op.sync |->
                IF t \in T THEN rippled(t)
                ELSE ShiftPositionsAtOrAfter(d.tracks[t].clips, at, by)])
    IN  IF Recorded(op) THEN Restore(d, op)
        ELSE IF /\ ids \subseteq ClipIds(d)
                /\ \A i \in ids \ {op.clip} :
                       anchor.group # None /\ FindClip(d, i).group = anchor.group
                /\ op.sync \subseteq DOMAIN d.tracks
                /\ \A i \in ids : InSource(trimmed(FindClip(d, i)))
             THEN Edited(d, e, T \cup op.sync, op)
             ELSE Refused

\* The silent edges of several clips are trimmed off, one ripple trim after
\* the other.
ApplyTrimBoundaryAir(d, op) ==
    LET ids == UNION {{x.clip} \cup Range(x.linked) : x \in Range(op.trims)}
        ripple(e, x) == ApplyRippleTrim(e,
            [kind |-> "RippleTrim", clip |-> x.clip, edge |-> x.edge,
             delta |-> x.delta, linked |-> x.linked, sync |-> op.sync,
             exact |-> Nothing])
    IN  IF Recorded(op) THEN Restore(d, op)
        ELSE IF /\ op.trims # <<>>
                /\ \A x \in Range(op.trims) :
                       IF x.edge = "head" THEN x.delta > 0 ELSE x.delta < 0
                /\ IsInjective([i \in DOMAIN op.trims |->
                       <<op.trims[i].clip, op.trims[i].edge>>])
                /\ ids \subseteq ClipIds(d) /\ op.sync \subseteq DOMAIN d.tracks
             THEN Compound(d, Chain(d, op.trims, ripple),
                           TracksOf(d, ids) \cup op.sync, op)
             ELSE Refused

\* The cut between two touching clips moves.
ApplyRollEdit(d, op) ==
    LET lefts == {p.left : p \in Range(op.pairs)}
        rights == {p.right : p \in Range(op.pairs)}
        rolled(c) == IF c.id \in lefts THEN [c EXCEPT !.dur = @ + op.delta]
                     ELSE IF c.id \in rights
                     THEN Trimmed(c, "head", op.delta, FALSE) ELSE c
        T == TracksOf(d, lefts)
        e == WithTracks(d, [t \in T |-> [i \in DOMAIN d.tracks[t].clips |->
                                rolled(d.tracks[t].clips[i])]])
    IN  IF op.pairs = <<>> THEN Refused
        ELSE IF Recorded(op) THEN Restore(d, op)
        ELSE IF /\ lefts \cup rights \subseteq ClipIds(d)
                /\ Cardinality(lefts \cup rights) = 2 * Len(op.pairs)
                /\ \A p \in Range(op.pairs) :
                      LET l == FindClip(d, p.left)
                          r == FindClip(d, p.right)
                      IN  /\ FindTrackForClip(d, p.left)
                               = FindTrackForClip(d, p.right)
                          /\ End(l) = r.tin
                          /\ InSource(rolled(l)) /\ InSource(rolled(r))
             THEN Edited(d, e, T, op)
             ELSE Refused

\* The source slides under clips that stay where they are.
ApplySlipEdit(d, op) ==
    LET slipped(c) == IF c.id \in Range(op.clips)
                      THEN [c EXCEPT !.sin = @ + op.delta] ELSE c
        T == TracksOf(d, Range(op.clips))
        e == WithTracks(d, [t \in T |-> [i \in DOMAIN d.tracks[t].clips |->
                                slipped(d.tracks[t].clips[i])]])
    IN  IF op.clips = <<>> THEN Refused
        ELSE IF Recorded(op) THEN Restore(d, op)
        ELSE IF /\ Range(op.clips) \subseteq ClipIds(d) /\ IsInjective(op.clips)
                /\ Len(op.clips) > 1 =>
                       Members(d, op.clips, FindClip(d, op.clips[1]).group)
                /\ \A i \in Range(op.clips) : InSource(slipped(FindClip(d, i)))
             THEN Edited(d, e, T, op)
             ELSE Refused

-----------------------------------------------------------------------------
(* Gaps, and the sound of a clip on a track of its own. *)

\* A gap of the same extent closes on several tracks at once.
ApplyDeleteGap(d, op) ==
    LET T == {op.track} \cup Range(op.linked)
        to == op.start + op.dur
        clips(t) == Range(d.tracks[t].clips)
        closed == [t \in T |->
                      ShiftPositionsAtOrAfter(d.tracks[t].clips, to, -op.dur)]
    IN  IF ~(T \subseteq DOMAIN d.tracks /\ Cardinality(T) = 1 + Len(op.linked))
        THEN Refused
        ELSE IF Recorded(op)
        THEN IF DOMAIN op.exact = T THEN Restore(d, op) ELSE Refused
        ELSE IF /\ op.start >= 0 /\ op.dur > 0
                /\ \A t \in T :
                      /\ \A c \in clips(t) : End(c) <= op.start \/ c.tin >= to
                      /\ \E c \in clips(t) : c.tin >= to
             THEN Edited(d, WithTracks(d, closed), T, op)
             ELSE Refused

ApplyDetachAudio(d, op) ==
    LET vt == FindTrackForClip(d, op.clip)
        c == FindClip(d, op.clip)
        id == IF op.audio = None THEN d.next ELSE op.audio
        linked(x) == [x EXCEPT !.group = id, !.anchor = c.id, !.delta = 0]
        e == WithTracks(WithClip(Drawn(d, 1), c.id,
                                 linked([c EXCEPT !.audio = FALSE])),
                 (op.track :> SortClips(Append(d.tracks[op.track].clips,
                                              linked([c EXCEPT !.id = id])))))
    IN  IF ~(op.clip \in ClipIds(d) /\ op.track \in DOMAIN d.tracks)
        THEN Refused
        ELSE IF Recorded(op) THEN Restore(d, op)
        ELSE IF /\ Kind(d, vt) = "video" /\ Kind(d, op.track) = "audio"
                /\ c.audio /\ c.src \notin Silent
                /\ id \notin UsedIds(d)
                /\ \A x \in Range(d.tracks[op.track].clips) :
                       x.tin >= End(c) \/ End(x) <= c.tin
             THEN Edited(d, e, {vt, op.track}, [op EXCEPT !.audio = id])
             ELSE Refused

-----------------------------------------------------------------------------
(* Tracks, the sequence and the bins. *)

ApplyAddTrack(d, op) ==
    LET id == IF op.track = None THEN d.next ELSE op.track
        e == [Drawn(d, 1) EXCEPT !.tracks = (id :> op.state) @@ @]
    IN  IF /\ id \notin UsedIds(d)
           /\ op.state.kind \in {"video", "audio", "caption"}
           /\ op.state.index >= 0
           /\ \A t \in DOMAIN d.tracks : d.tracks[t].index # op.state.index
        THEN Result(e, [op EXCEPT !.track = id],
                    [kind |-> "RemoveTrack", track |-> id])
        ELSE Refused

ApplyRemoveTrack(d, op) ==
    IF op.track \in DOMAIN d.tracks
    THEN Result([d EXCEPT !.tracks = Restrict(@, DOMAIN @ \ {op.track})], op,
                [kind |-> "AddTrack", track |-> op.track,
                 state |-> d.tracks[op.track]])
    ELSE Refused

ApplySetTrackLock(d, op) ==
    IF op.track \in DOMAIN d.tracks
    THEN Result([d EXCEPT !.tracks[op.track].locked = op.value], op,
                [op EXCEPT !.value = d.tracks[op.track].locked])
    ELSE Refused

ApplySetTrackSyncLock(d, op) ==
    IF op.track \in DOMAIN d.tracks
    THEN Result([d EXCEPT !.tracks[op.track].sync = op.value], op,
                [op EXCEPT !.value = d.tracks[op.track].sync])
    ELSE Refused

ApplySetTrackOutput(d, op) ==
    IF op.track \in DOMAIN d.tracks
    THEN Result([d EXCEPT !.tracks[op.track].output = op.value], op,
                [op EXCEPT !.value = d.tracks[op.track].output])
    ELSE Refused

ApplyUpdateSequence(d, op) ==
    Result([d EXCEPT !.format = op.value], op, [op EXCEPT !.value = d.format])

ApplySetColorManagement(d, op) ==
    Result([d EXCEPT !.colour = op.value], op, [op EXCEPT !.value = d.colour])

ApplyAddBin(d, op) ==
    LET id == IF op.bin = None THEN d.next ELSE op.bin
        e == [Drawn(d, 1) EXCEPT !.bins =
                 (id :> [name |-> op.name, parent |-> op.parent]) @@ @]
    IN  IF /\ id \notin UsedIds(d) /\ op.name # ""
           /\ op.parent \in DOMAIN d.bins \cup {None}
        THEN Result(e, [op EXCEPT !.bin = id],
                    [op EXCEPT !.kind = "RemoveBin", !.bin = id])
        ELSE Refused

\* Only a bin that holds neither media nor bins is removed.
ApplyRemoveBin(d, op) ==
    LET was == d.bins[op.bin]
        named == [op EXCEPT !.name = was.name, !.parent = was.parent]
    IN  IF /\ op.bin \in DOMAIN d.bins
           /\ \A s \in Sources : d.media[s] # op.bin
           /\ \A b \in DOMAIN d.bins : d.bins[b].parent # op.bin
        THEN Result([d EXCEPT !.bins = Restrict(@, DOMAIN @ \ {op.bin})],
                    named, [named EXCEPT !.kind = "AddBin"])
        ELSE Refused

ApplyRenameBin(d, op) ==
    IF op.bin \in DOMAIN d.bins /\ op.name # ""
    THEN Result([d EXCEPT !.bins[op.bin].name = op.name], op,
                [op EXCEPT !.name = d.bins[op.bin].name])
    ELSE Refused

\* The bin and its ancestors, found by following the parents.
Lineage(d, b) ==
    LET up[n \in Nat] == IF n = 0 THEN {b} ELSE
            up[n - 1] \cup {d.bins[x].parent : x \in up[n - 1] \ {None}}
    IN  up[Cardinality(DOMAIN d.bins)]

ApplyMoveBin(d, op) ==
    IF /\ op.bin \in DOMAIN d.bins
       /\ op.parent \in DOMAIN d.bins \cup {None}
       /\ op.bin \notin Lineage(d, op.parent)
    THEN Result([d EXCEPT !.bins[op.bin].parent = op.parent], op,
                [op EXCEPT !.parent = d.bins[op.bin].parent])
    ELSE Refused

ApplySetMediaBin(d, op) ==
    IF op.media \in Sources /\ op.bin \in DOMAIN d.bins \cup {None}
    THEN Result([d EXCEPT !.media[op.media] = op.bin], op,
                [op EXCEPT !.bin = d.media[op.media]])
    ELSE Refused

-----------------------------------------------------------------------------
(* The lists of the sequence: markers, caption styles, transitions and     *)
(* multicam groups.  An item is added at the end, or at the place (from 0) *)
(* the operation remembers; removing one remembers its place.              *)

AddItem(d, list, e(_), op, removal) ==
    LET id == IF op.item.id = None THEN d.next ELSE op.item.id
        item == [op.item EXCEPT !.id = id]
        at == IF op.at = -1 THEN Len(list) ELSE op.at
    IN  IF id \notin UsedIds(d) /\ at \in 0..Len(list)
        THEN Result(e(InsertAt(list, at + 1, item)),
                    [op EXCEPT !.item = item, !.at = at],
                    [kind |-> removal, id |-> id])
        ELSE Refused

RemoveItem(list, e(_), op, addition) ==
    LET i == IndexOf(list, op.id)
    IN  IF op.id \in Ids(list)
        THEN Result(e(RemoveAt(list, i)), op,
                    [kind |-> addition, item |-> list[i], at |-> i - 1])
        ELSE Refused

ApplyAddMarker(d, op) ==
    AddItem(d, d.markers, LAMBDA l : [Drawn(d, 1) EXCEPT !.markers = l], op,
            "RemoveMarker")

ApplyRemoveMarker(d, op) ==
    RemoveItem(d.markers, LAMBDA l : [d EXCEPT !.markers = l], op, "AddMarker")

ApplyUpdateMarker(d, op) ==
    LET i == IndexOf(d.markers, op.item.id)
    IN  IF op.item.id \in Ids(d.markers)
        THEN Result([d EXCEPT !.markers[i] = op.item], op,
                    [op EXCEPT !.item = d.markers[i]])
        ELSE Refused

ApplyAddCaptionStyle(d, op) ==
    AddItem(d, d.styles, LAMBDA l : [Drawn(d, 1) EXCEPT !.styles = l], op,
            "RemoveCaptionStyle")

\* A style that captions use stays.
ApplyRemoveCaptionStyle(d, op) ==
    IF \E c \in Clips(d) : c.style = op.id THEN Refused
    ELSE RemoveItem(d.styles, LAMBDA l : [d EXCEPT !.styles = l], op,
                    "AddCaptionStyle")

\* The angles that have no identifier receive one.
ApplyAddMulticamGroup(d, op) ==
    LET angles == [i \in DOMAIN op.item.angles |->
            IF op.item.angles[i].id # None THEN op.item.angles[i]
            ELSE [op.item.angles[i] EXCEPT !.id = d.next + i]]
    IN  AddItem(d, d.groups,
                LAMBDA l : [Drawn(d, 1 + Len(angles)) EXCEPT !.groups = l],
                [op EXCEPT !.item.angles = angles], "RemoveMulticamGroup")

ApplyRemoveMulticamGroup(d, op) ==
    RemoveItem(d.groups, LAMBDA l : [d EXCEPT !.groups = l], op,
               "AddMulticamGroup")

ApplySetMulticamActiveAngle(d, op) ==
    LET i == IndexOf(d.groups, op.id)
    IN  IF /\ op.id \in Ids(d.groups)
           /\ op.active \in Ids(d.groups[i].angles) \cup {None}
        THEN Result([d EXCEPT !.groups[i].active = op.active], op,
                    [op EXCEPT !.active = d.groups[i].active])
        ELSE Refused

ApplyAddTransition(d, op) ==
    AddItem(d, d.transitions,
            LAMBDA l : [Drawn(d, 1) EXCEPT !.transitions = l], op,
            "RemoveTransition")

ApplyRemoveTransition(d, op) ==
    RemoveItem(d.transitions, LAMBDA l : [d EXCEPT !.transitions = l], op,
               "AddTransition")

\* The cut a transition plays over stays the same.
ApplyUpdateTransition(d, op) ==
    LET i == IndexOf(d.transitions, op.id)
        was == d.transitions[i]
    IN  IF op.id \in Ids(d.transitions)
        THEN Result([d EXCEPT !.transitions[i] =
                        [was EXCEPT !.dur = op.dur, !.align = op.align]],
                    op, [op EXCEPT !.dur = was.dur, !.align = was.align])
        ELSE Refused

-----------------------------------------------------------------------------
(* What one clip carries. *)

ApplySetClipCaption(d, op) ==
    LET c == FindClip(d, op.clip)
    IN  IF op.clip \in ClipIds(d)
        THEN Result(WithClip(d, c.id, [c EXCEPT !.style = op.style,
                                                !.text = op.text]),
                    op, [op EXCEPT !.style = c.style, !.text = c.text])
        ELSE Refused

Link(c) == [group |-> c.group, anchor |-> c.anchor, delta |-> c.delta]
WithLink(c, l) == [c EXCEPT !.group = l.group, !.anchor = l.anchor,
                            !.delta = l.delta]
Unlinked == [group |-> None, anchor |-> None, delta |-> 0]

\* Two clips are linked around the one of a video track, or unlinked; the
\* offset between them at that moment becomes their reference.
ApplySetClipLink(d, op) ==
    LET a == FindClip(d, op.first)
        b == FindClip(d, op.second)
        anchor == IF Kind(d, FindTrackForClip(d, a.id)) = "video"
                  THEN a ELSE b
        link(c) == [group |-> op.group, anchor |-> anchor.id,
                    delta |-> Phase(c) - Phase(anchor)]
        result == IF Recorded(op) THEN op.exact
                  ELSE IF op.group = None THEN <<Unlinked, Unlinked>>
                  ELSE <<link(a), link(b)>>
    IN  IF {op.first, op.second} \subseteq ClipIds(d) /\ op.first # op.second
        THEN Result(WithClip(WithClip(d, a.id, WithLink(a, result[1])),
                             b.id, WithLink(b, result[2])),
                    [op EXCEPT !.exact = result],
                    [op EXCEPT !.group = a.group, !.exact = <<Link(a), Link(b)>>])
        ELSE Refused

ApplySetClipEffects(d, op) ==
    LET c == FindClip(d, op.clip)
        fx == [i \in DOMAIN op.fx |->
                  IF op.fx[i] = None THEN d.next + i - 1 ELSE op.fx[i]]
    IN  IF op.clip \in ClipIds(d)
        THEN Result(WithClip(Drawn(d, Len(fx)), c.id, [c EXCEPT !.fx = fx]),
                    [op EXCEPT !.fx = fx], [op EXCEPT !.fx = c.fx])
        ELSE Refused

ApplySetClipOpacity(d, op) ==
    LET c == FindClip(d, op.clip)
    IN  IF /\ op.clip \in ClipIds(d)
           /\ Kind(d, FindTrackForClip(d, op.clip)) = "video"
        THEN Result(WithClip(d, c.id, [c EXCEPT !.opacity = op.opacity]), op,
                    [op EXCEPT !.opacity = c.opacity])
        ELSE Refused

ApplySetClipAudio(d, op) ==
    LET c == FindClip(d, op.clip)
        to == [c EXCEPT !.gain = op.gain, !.fin = op.fin, !.fout = op.fout]
    IN  IF /\ op.clip \in ClipIds(d)
           /\ Kind(d, FindTrackForClip(d, op.clip)) = "audio"
        THEN Result(WithClip(d, c.id, to), op,
                    [op EXCEPT !.gain = c.gain, !.fin = c.fin, !.fout = c.fout])
        ELSE Refused

-----------------------------------------------------------------------------
(* Cuts. *)

\* Mutant: the identifier of the right piece is always drawn anew.
FreshRightId(d, op) == d.next

\* The identifier of the right piece: the one recorded, when there is one.
RightId(d, op) == IF op.right = None THEN d.next ELSE op.right

\* Mutant: the right piece shows the source from the clip's first frame.
RightPieceRestarts(c, at) == [c EXCEPT !.dur = End(c) - at, !.tin = at, !.fin = 0]

\* The right piece of a cut.
RightPiece(c, at) ==
    [c EXCEPT !.sin = @ + at - c.tin, !.dur = End(c) - at, !.tin = at, !.fin = 0]

\* The left piece keeps the clip's identifier and its attack, the right one
\* its release; the effects of the right piece are drawn anew.
ApplySplit(d, op) ==
    LET t == FindTrackForClip(d, op.clip)
        c == FindClip(d, op.clip)
        i == IndexOf(d.tracks[t].clips, op.clip)
        rightId == RightId(d, op)
        rightFx == IF op.rightFx = <<>> THEN [j \in DOMAIN c.fx |-> d.next + j]
                                        ELSE op.rightFx
        left == [c EXCEPT !.dur = op.at - c.tin, !.fout = 0]
        right == [RightPiece(c, op.at) EXCEPT !.id = rightId, !.fx = rightFx]
        cs == d.tracks[t].clips
    IN  IF /\ op.clip \in ClipIds(d)
           /\ c.tin < op.at /\ op.at < End(c)
           /\ rightId \notin ClipIds(d) \cup DOMAIN d.tracks \cup Sources
           /\ Len(rightFx) = Len(c.fx)
        THEN Result(WithClips(Drawn(d, 1 + Len(c.fx)), t,
                        InsertAt(ReplaceAt(cs, i, left), i + 1, right)),
                    [op EXCEPT !.right = rightId, !.rightFx = rightFx],
                    [kind |-> "JoinClip", left |-> c.id, right |-> rightId,
                     times |-> Times(c)])
        ELSE Refused

Split(id, at, right) == [kind |-> "SplitClip", clip |-> id, at |-> at,
                         right |-> right, rightFx |-> <<>>]

ApplyJoin(d, op) ==
    LET t == FindTrackForClip(d, op.left)
        cs == d.tracks[t].clips
        i == IndexOf(cs, op.left)
        right == cs[i + 1]
        joined == [WithTimes(cs[i], op.times) EXCEPT !.fout = right.fout]
    IN  IF /\ op.left \in ClipIds(d)
           /\ i < Len(cs) /\ right.id = op.right
           /\ cs[i].src = right.src
           /\ End(cs[i]) = right.tin /\ cs[i].sin + cs[i].dur = right.sin
        THEN Result(WithClips(d, t, RemoveAt(ReplaceAt(cs, i, joined), i + 1)),
                    op, Split(op.left, right.tin, op.right))
        ELSE Refused

Straddles(c, at) == c.tin < at /\ at < End(c)

\* Linked clips are cut together: the left pieces form one new group around
\* the anchor, the right pieces another one around its right piece; a clip
\* of a track in sync that lies across the cut is cut too.
ApplySplitLinked(d, op) ==
    LET ids == op.clips
        n == Len(ids)
        leftGroup == IF op.leftGroup = None THEN d.next ELSE op.leftGroup
        rightGroup == IF op.rightGroup = None THEN d.next + 1 ELSE op.rightGroup
        rights == IF op.rights = <<>> THEN [i \in 1..n |-> d.next + 1 + i]
                                      ELSE op.rights
        T == TracksOf(d, Range(ids))
        anchors == {i \in 1..n : FindClip(d, ids[i]).anchor = ids[i]}
        first == IF anchors = {} THEN 1
                 ELSE CHOOSE i \in anchors : \A j \in anchors : i <= j
        cut(e, i) == ApplySplit(e, Split(ids[i], op.at, rights[i]))
        regroup(c) ==
            IF c.id \in Range(ids)
            THEN [c EXCEPT !.group = leftGroup, !.anchor = ids[first]]
            ELSE IF c.id \in Range(rights)
            THEN [c EXCEPT !.group = rightGroup, !.anchor = rights[first]]
            ELSE c
        regrouped(e) == WithTracks(e, [t \in T |->
            [i \in DOMAIN e.tracks[t].clips |-> regroup(e.tracks[t].clips[i])]])
        crossing == {c.id : c \in {x \in UNION {Range(d.tracks[t].clips) :
                                        t \in op.sync \ T} :
                                   Straddles(x, op.at)}}
        follow(e, id) == ApplySplit(e, Split(id, op.at, None))
        followed(r) == IF ~r.ok THEN r ELSE
            Chain(regrouped(r.doc), SetToSeq(crossing), follow)
    IN  IF Recorded(op) THEN Restore(d, op)
        ELSE IF /\ n >= 2 /\ Members(d, ids, op.group)
                /\ \A i \in 1..n : Straddles(FindClip(d, ids[i]), op.at)
                /\ op.sync \subseteq DOMAIN d.tracks
                /\ leftGroup # rightGroup
                /\ Len(rights) = n /\ IsInjective(rights)
             THEN Compound(d,
                     followed(Chain(Drawn(d, 2 + n), [i \in 1..n |-> i], cut)),
                     T \cup op.sync,
                     [op EXCEPT !.leftGroup = leftGroup,
                                !.rightGroup = rightGroup, !.rights = rights])
             ELSE Refused

\* The clips of a link group; no clip belongs to group None.
Grouped(d, group) == {c \in Clips(d) : group # None /\ c.group = group}

\* The identifiers of clips of d in the order of their tracks, and of time
\* within a track.
InOrder(d, cs) ==
    LET track(c) == FindTrackForClip(d, c.id)
        earlier(c) == {b \in cs : \/ track(b) < track(c)
                                  \/ track(b) = track(c) /\ b.tin < c.tin}
    IN  [i \in 1..Cardinality(cs) |->
            (CHOOSE c \in cs : Cardinality(earlier(c)) = i - 1).id]

\* TimelineCutOperation: the cut of one clip, with the linked ones that lie
\* across the position.
TimelineCut(d, c, at) ==
    LET members == {m \in Grouped(d, c.group) : Straddles(m, at)}
    IN  IF Cardinality(members) > 1
        THEN [kind |-> "SplitLinkedClips", group |-> c.group, at |-> at,
              clips |-> InOrder(d, members), leftGroup |-> None,
              rightGroup |-> None, rights |-> <<>>, sync |-> {},
              exact |-> Nothing]
        ELSE Split(c.id, at, None)

\* A clip is cut at several ascending positions, each an ordinary cut.
ApplySplitAtPositions(d, op) ==
    LET c == FindClip(d, op.clip)
        t == FindTrackForClip(d, op.clip)
        T == {t} \cup TracksOf(d, {m.id : m \in Grouped(d, c.group)})
        cut(e, at) ==
            LET piece == CHOOSE x \in Range(e.tracks[t].clips) : Straddles(x, at)
                x == TimelineCut(e, piece, at)
            IN  IF x.kind = "SplitLinkedClips" THEN ApplySplitLinked(e, x)
                                               ELSE ApplySplit(e, x)
    IN  IF Recorded(op) THEN Restore(d, op)
        ELSE IF /\ op.clip \in ClipIds(d) /\ op.positions # <<>>
                /\ \A i \in DOMAIN op.positions :
                       /\ Straddles(c, op.positions[i])
                       /\ i > 1 => op.positions[i - 1] < op.positions[i]
             THEN Compound(d, Chain(d, op.positions, cut), T, op)
             ELSE Refused

\* Cutting the source ranges rs out of clip c leaves a fragment before each
\* range and one after the last; KeptFragments lists the ones that are not empty.
FragmentFrom(rs, c, j) == IF j = 1 THEN c.sin ELSE rs[j - 1].to
FragmentTo(rs, c, j) == IF j = Len(rs) + 1 THEN c.sin + c.dur ELSE rs[j].from

KeptFragments(rs, c) ==
    LET kept[j \in 0..Len(rs) + 1] ==
            IF j = 0 THEN <<>>
            ELSE IF FragmentFrom(rs, c, j) < FragmentTo(rs, c, j)
            THEN Append(kept[j - 1], j) ELSE kept[j - 1]
    IN  kept[Len(rs) + 1]

FragmentLength(rs, c, k) ==
    FragmentTo(rs, c, KeptFragments(rs, c)[k]) - FragmentFrom(rs, c, KeptFragments(rs, c)[k])

\* What lies on the timeline before fragment k, gap frames apart.
FragmentsBefore(rs, gap, c, k) ==
    FoldFunctionOnSet(+, 0,
        [j \in 1..Len(KeptFragments(rs, c)) |-> FragmentLength(rs, c, j) + gap], 1..k - 1)

\* The first fragment keeps the identifier and the attack of the clip, the
\* last one its release.
Fragments(rs, gap, c, next) ==
    [k \in 1..Len(KeptFragments(rs, c)) |->
        [c EXCEPT !.id = IF k = 1 THEN @ ELSE next + k - 1,
                  !.sin = FragmentFrom(rs, c, KeptFragments(rs, c)[k]),
                  !.dur = FragmentLength(rs, c, k),
                  !.tin = c.tin + FragmentsBefore(rs, gap, c, k),
                  !.fin = IF k = 1 THEN @ ELSE 0,
                  !.fout = IF k = Len(KeptFragments(rs, c)) THEN @ ELSE 0]]

\* How far what follows the clip moves.
RemovedBy(rs, gap, c) ==
    LET n == Len(KeptFragments(rs, c))
    IN  IF n = 0 THEN -c.dur
        ELSE FragmentsBefore(rs, gap, c, n) + FragmentLength(rs, c, n) - c.dur

\* In the document e on the way, the fragments of clip id of d take its place,
\* and what follows on its track closes up.
Splice(d, e, id, rs, gap) ==
    LET c == FindClip(d, id)
        t == FindTrackForClip(d, id)
        cs == e.tracks[t].clips
        i == IndexOf(cs, id)
        after == [j \in 1..Len(cs) - i |->
                     [cs[i + j] EXCEPT !.tin = @ + RemovedBy(rs, gap, c)]]
    IN  WithClips(Drawn(e, Len(rs) + 1), t,
            SubSeq(cs, 1, i - 1) \o Fragments(rs, gap, c, e.next) \o after)

SpliceAll(d, ids, rs, gap) ==
    LET spliced[n \in 0..Len(ids)] ==
            IF n = 0 THEN d ELSE Splice(d, spliced[n - 1], ids[n], rs, gap)
    IN  spliced[Len(ids)]

\* The removed ranges of the source leave fragments, gap frames apart; what
\* follows closes up, on the tracks of the cut clips and on those in sync.
ApplyRemoveWords(d, op) ==
    LET ids == <<op.clip>> \o op.linked
        rs == op.ranges
        T == TracksOf(d, Range(ids))
        cut == SpliceAll(d, ids, rs, op.gap)
        anchor == FindClip(d, op.clip)
        e == WithTracks(cut, [t \in op.sync \ T |->
                 ShiftPositionsAtOrAfter(cut.tracks[t].clips, End(anchor),
                                         RemovedBy(rs, op.gap, anchor))])
    IN  IF Recorded(op) THEN Restore(d, op)
        ELSE IF /\ rs # <<>> /\ op.gap >= 0
                /\ \A i \in DOMAIN rs : /\ rs[i].from < rs[i].to
                                        /\ i > 1 => rs[i].from >= rs[i - 1].to
                /\ IsInjective(ids) /\ Range(ids) \subseteq ClipIds(d)
                /\ \A i \in DOMAIN ids :
                      LET c == FindClip(d, ids[i])
                      IN  /\ KeptFragments(rs, c) # <<>> => c.src \in Sources
                          /\ rs[1].from >= c.sin
                          /\ rs[Len(rs)].to <= c.sin + c.dur
                /\ op.sync \subseteq DOMAIN d.tracks
             THEN Edited(d, e, T \cup op.sync, op)
             ELSE Refused

-----------------------------------------------------------------------------
(* ApplyOperation. *)

ClipsNamed(op) ==
    CASE op.kind \in {"RemoveClip", "TrimClip", "MoveClip", "SplitClip",
                      "SplitClipAtPositions", "RemoveWords", "DetachAudio",
                      "SetClipEffects", "SetClipOpacity", "SetClipAudio",
                      "SetClipCaption"} -> {op.clip}
      [] op.kind \in {"ClearClip", "ClearClips"} -> op.clips
      [] op.kind \in {"ClearLinkedClips", "RemoveLinkedClips", "SlipEdit",
                      "SplitLinkedClips"} -> Range(op.clips)
      [] op.kind \in {"MoveClips", "MoveLinkedClips"} ->
             {m.clip : m \in Range(op.moves)}
      [] op.kind = "TrimLinkedClips" -> {x.clip : x \in Range(op.trims)}
      [] op.kind = "RippleTrim" -> {op.clip} \cup Range(op.linked)
      [] op.kind = "TrimBoundaryAir" ->
             UNION {{x.clip} \cup Range(x.linked) : x \in Range(op.trims)}
      [] op.kind = "RollEdit" ->
             UNION {{p.left, p.right} : p \in Range(op.pairs)}
      [] op.kind = "SetClipLink" -> {op.first, op.second}
      [] op.kind = "JoinClip" -> {op.left, op.right}
      [] OTHER -> {}

TracksNamed(d, op) ==
    CASE op.kind \in {"InsertClip", "MoveClip", "DetachAudio", "RemoveTrack"} ->
             {op.track}
      [] op.kind \in {"RemoveClip", "RippleTrim", "TrimBoundaryAir",
                      "RemoveLinkedClips", "SplitLinkedClips", "RemoveWords"} ->
             op.sync
      [] op.kind = "PasteClips" -> {x.track : x \in Range(op.items)}
      [] op.kind \in {"MoveClips", "MoveLinkedClips"} ->
             {m.track : m \in Range(op.moves)}
      [] op.kind = "DeleteGap" -> {op.track} \cup Range(op.linked)
      [] op.kind = "AddTransition" -> {op.item.track}
      [] op.kind \in {"RemoveTransition", "UpdateTransition"} ->
             {x.track : x \in {y \in Range(d.transitions) : y.id = op.id}}
      [] OTHER -> {}

\* The operations whose recorded result is one of whole tracks, and the two
\* whose recorded result is one of clip positions.
OfTracks == {"ClearClip", "ClearClips", "ClearLinkedClips", "PasteClips",
             "MoveClip", "MoveClips", "MoveLinkedClips", "TrimLinkedClips",
             "RippleTrim", "TrimBoundaryAir", "RollEdit", "SlipEdit",
             "RemoveLinkedClips", "DeleteGap", "DetachAudio",
             "SplitLinkedClips", "SplitClipAtPositions", "RemoveWords"}
OfPositions == {"InsertClip", "RemoveClip"}

\* Mutant: only the tracks of the clips named are looked at.
LockedTracksOfClips(d, op) ==
    {t \in TracksOf(d, ClipsNamed(op) \cap ClipIds(d)) : d.tracks[t].locked}

\* The locked tracks among those the operation names, directly, through a
\* clip or in its recorded result.
LockedTrackTouchedBy(d, op) ==
    LET clips == ClipsNamed(op) \cup
                 (IF op.kind \in OfPositions THEN DOMAIN op.exact ELSE {})
        tracks == TracksNamed(d, op) \cup TracksOf(d, clips \cap ClipIds(d)) \cup
                  (IF op.kind \in OfTracks THEN DOMAIN op.exact ELSE {})
    IN  {t \in tracks \cap DOMAIN d.tracks : d.tracks[t].locked}

Dispatch(d, op) ==
    CASE op.kind = "InsertClip" -> ApplyInsert(d, op)
      [] op.kind = "RemoveClip" -> ApplyRemove(d, op)
      [] op.kind = "ClearClip" -> ApplyClear(d, op)
      [] op.kind = "ClearClips" -> ApplyClearClips(d, op)
      [] op.kind = "ClearLinkedClips" -> ApplyClearLinked(d, op)
      [] op.kind = "RemoveLinkedClips" -> ApplyRemoveLinked(d, op)
      [] op.kind = "PasteClips" -> ApplyPasteClips(d, op)
      [] op.kind = "MoveClip" -> ApplyMove(d, op)
      [] op.kind = "MoveClips" -> ApplyMoveClips(d, op)
      [] op.kind = "MoveLinkedClips" -> ApplyMoveLinked(d, op)
      [] op.kind = "TrimClip" -> ApplyTrim(d, op)
      [] op.kind = "TrimLinkedClips" -> ApplyTrimLinked(d, op)
      [] op.kind = "RippleTrim" -> ApplyRippleTrim(d, op)
      [] op.kind = "TrimBoundaryAir" -> ApplyTrimBoundaryAir(d, op)
      [] op.kind = "RollEdit" -> ApplyRollEdit(d, op)
      [] op.kind = "SlipEdit" -> ApplySlipEdit(d, op)
      [] op.kind = "DeleteGap" -> ApplyDeleteGap(d, op)
      [] op.kind = "DetachAudio" -> ApplyDetachAudio(d, op)
      [] op.kind = "SplitClip" -> ApplySplit(d, op)
      [] op.kind = "JoinClip" -> ApplyJoin(d, op)
      [] op.kind = "SplitLinkedClips" -> ApplySplitLinked(d, op)
      [] op.kind = "SplitClipAtPositions" -> ApplySplitAtPositions(d, op)
      [] op.kind = "RemoveWords" -> ApplyRemoveWords(d, op)
      [] op.kind = "AddTrack" -> ApplyAddTrack(d, op)
      [] op.kind = "RemoveTrack" -> ApplyRemoveTrack(d, op)
      [] op.kind = "SetTrackLock" -> ApplySetTrackLock(d, op)
      [] op.kind = "SetTrackSyncLock" -> ApplySetTrackSyncLock(d, op)
      [] op.kind = "SetTrackOutput" -> ApplySetTrackOutput(d, op)
      [] op.kind = "UpdateSequence" -> ApplyUpdateSequence(d, op)
      [] op.kind = "SetColorManagement" -> ApplySetColorManagement(d, op)
      [] op.kind = "AddBin" -> ApplyAddBin(d, op)
      [] op.kind = "RemoveBin" -> ApplyRemoveBin(d, op)
      [] op.kind = "RenameBin" -> ApplyRenameBin(d, op)
      [] op.kind = "MoveBin" -> ApplyMoveBin(d, op)
      [] op.kind = "SetMediaBin" -> ApplySetMediaBin(d, op)
      [] op.kind = "AddMarker" -> ApplyAddMarker(d, op)
      [] op.kind = "RemoveMarker" -> ApplyRemoveMarker(d, op)
      [] op.kind = "UpdateMarker" -> ApplyUpdateMarker(d, op)
      [] op.kind = "AddCaptionStyle" -> ApplyAddCaptionStyle(d, op)
      [] op.kind = "RemoveCaptionStyle" -> ApplyRemoveCaptionStyle(d, op)
      [] op.kind = "SetClipCaption" -> ApplySetClipCaption(d, op)
      [] op.kind = "AddMulticamGroup" -> ApplyAddMulticamGroup(d, op)
      [] op.kind = "RemoveMulticamGroup" -> ApplyRemoveMulticamGroup(d, op)
      [] op.kind = "SetMulticamActiveAngle" -> ApplySetMulticamActiveAngle(d, op)
      [] op.kind = "AddTransition" -> ApplyAddTransition(d, op)
      [] op.kind = "RemoveTransition" -> ApplyRemoveTransition(d, op)
      [] op.kind = "UpdateTransition" -> ApplyUpdateTransition(d, op)
      [] op.kind = "SetClipLink" -> ApplySetClipLink(d, op)
      [] op.kind = "SetClipEffects" -> ApplySetClipEffects(d, op)
      [] op.kind = "SetClipOpacity" -> ApplySetClipOpacity(d, op)
      [] op.kind = "SetClipAudio" -> ApplySetClipAudio(d, op)

\* A locked track stops every operation that names it, but for the three
\* that set the state of a track.
ApplyOperation(d, op) ==
    IF /\ op.kind \notin {"SetTrackLock", "SetTrackSyncLock", "SetTrackOutput"}
       /\ LockedTrackTouchedBy(d, op) # {}
    THEN Refused
    ELSE ValidateResult(Dispatch(d, op))

=============================================================================
