------------------------------ MODULE Timeline ------------------------------
(***************************************************************************)
(* What the timeline shows at a position (Timeline.cc): the frame of a     *)
(* source on each track, or the two frames a transition mixes.  The player,*)
(* the decoder and the export all read the document through it.            *)
(***************************************************************************)
EXTENDS Document

\* The last clip that starts at or before p, if it reaches p.
ResolveInTrack(cs, p) ==
    LET started == {i \in DOMAIN cs : cs[i].tin <= p}
        c == cs[Max(started)]
    IN  IF started # {} /\ p < End(c) THEN <<c.src, c.sin + p - c.tin>> ELSE Nothing

ResolveTrack(d, t, p) ==
    IF Kind(d, t) = "caption" THEN Nothing ELSE ResolveInTrack(d.tracks[t].clips, p)

\* The first transition around p mixes its two clips, each read on beyond the
\* cut; elsewhere there is one layer or none.  The last field weighs a layer.
ResolveTrackLayers(d, t, p) ==
    LET over == {i \in DOMAIN d.transitions :
                    LET x == d.transitions[i]
                        cut == FindClip(d, x.right).tin
                    IN  x.track = t /\ p >= cut - Pre(x) /\ p < cut + Post(x)}
        x == d.transitions[Min(over)]
        left == FindClip(d, x.left)
        right == FindClip(d, x.right)
        by == p - right.tin
        shown == ResolveTrack(d, t, p)
        here == CHOOSE c \in Range(d.tracks[t].clips) : c.tin <= p /\ p < End(c)
    IN  IF over # {}
        THEN <<<<left.src, left.sin + left.dur + by, left.opacity>>,
               <<right.src, right.sin + by, <<by + Pre(x), x.dur, right.opacity>>>>>>
        ELSE IF shown = Nothing THEN <<>> ELSE <<Append(shown, here.opacity)>>

Duration(d) == Max({0} \cup {End(c) : c \in Clips(d)})

=============================================================================
