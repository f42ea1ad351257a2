----------------------- MODULE MCTimelineInteraction -----------------------
EXTENDS TimelineInteraction

MCLength == [s \in Sources |-> 6]
MCDeltas == {-2, 0, 1}

Clip(id, sin, dur, tin) == NewClip(id, 100, sin, dur, tin, FALSE)
Grp(c, group, anchor) == [c EXCEPT !.group = group, !.anchor = anchor]
Track(kind, index, clips) ==
    [kind |-> kind, index |-> index, clips |-> clips, locked |-> FALSE,
     sync |-> TRUE, output |-> "on"]

\* Two shots that touch, each with its sound, and a second video
\* track with one more clip.
MCDocument ==
    [tracks |->
        (1 :> Track("video", 0, <<Grp(Clip(11, 1, 2, 0), 50, 11),
                                  Grp(Clip(13, 2, 2, 2), 51, 13)>>)) @@
        (2 :> Track("audio", 1, <<Grp(Clip(12, 1, 2, 0), 50, 11),
                                  Grp(Clip(14, 2, 2, 2), 51, 13)>>)) @@
        (3 :> [Track("video", 2, <<Clip(15, 0, 1, 4)>>) EXCEPT !.sync = FALSE]),
     transitions |-> <<>>, markers |-> <<>>, styles |-> <<>>,
     groups |-> <<>>, bins |-> [b \in {} |-> 0],
     media |-> [s \in Sources |-> None], format |-> "wide", colour |-> "plain",
     next |-> 1000]

=============================================================================
