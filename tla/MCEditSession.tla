--------------------------- MODULE MCEditSession ---------------------------
EXTENDS EditSession

\* A video track of two touching clips, the sound of the first one linked to
\* it and processed, and a caption.
MCLength == [s \in Sources |-> 5]

Clip(id, sin, dur, tin, audio) == NewClip(id, 100, sin, dur, tin, audio)
Track(kind, index, clips) ==
    [kind |-> kind, index |-> index, clips |-> clips, locked |-> FALSE,
     sync |-> TRUE, output |-> "on"]

MCDeltas == {-1, 1}

\* Where clips lie and what of their sources they show.
ClipKinds ==
    OfTracks \cup OfPositions \cup
    {"TrimClip", "SplitClip", "SetTrackLock", "SetClipLink"}

\* What the sequence, its tracks, bins, lists and clips carry besides.
SettingKinds ==
    {"AddTrack", "RemoveTrack", "SetTrackLock", "SetTrackSyncLock",
     "SetTrackOutput", "UpdateSequence", "SetColorManagement", "AddBin",
     "RemoveBin", "RenameBin", "MoveBin", "SetMediaBin", "AddMarker",
     "RemoveMarker", "UpdateMarker", "AddCaptionStyle", "RemoveCaptionStyle",
     "SetClipCaption", "AddMulticamGroup", "RemoveMulticamGroup",
     "SetMulticamActiveAngle", "AddTransition", "RemoveTransition",
     "UpdateTransition", "SetClipEffects", "SetClipOpacity", "SetClipAudio",
     "RemoveClip"}

\* A lock, a cut or a link, and then any edit of clips.
Preparing == {"SetTrackLock", "SetTrackSyncLock", "SplitClip", "SetClipLink"}
MCPlans == {<<Preparing, ClipKinds>>, <<SettingKinds, SettingKinds>>}

MCDocument ==
    [tracks |->
        (1 :> Track("video", 0,
                <<[Clip(11, 1, 2, 0, FALSE) EXCEPT !.group = 50, !.anchor = 11,
                                                   !.fx = <<21>>],
                  Clip(13, 1, 2, 2, TRUE)>>)) @@
        (2 :> Track("audio", 1,
                <<[Clip(12, 1, 2, 0, FALSE) EXCEPT !.group = 50, !.anchor = 11,
                                                   !.gain = 1, !.fin = 1,
                                                   !.fout = 1]>>)) @@
        (3 :> Track("caption", 2,
                <<[Clip(14, 0, 2, 1, FALSE) EXCEPT !.src = None, !.text = "t",
                                                   !.style = 31]>>)),
     transitions |-> <<>>, markers |-> <<>>, styles |-> <<[id |-> 31]>>,
     groups |-> <<>>, bins |-> (41 :> [name |-> "b", parent |-> None]),
     media |-> [s \in Sources |-> None], format |-> "wide", colour |-> "plain",
     next |-> 1000]

=============================================================================
