---------------------------- MODULE DocumentFile ----------------------------
(***************************************************************************)
(* The document as it is written to its file and read back                 *)
(* (Document::SaveToString and Document::LoadFromString).  An optional     *)
(* field is written only when it says something; one that is missing takes *)
(* the default of the structure it belongs to.                             *)
(***************************************************************************)
EXTENDS Document, TLC

CurrentVersion == 7

\* The record without the fields F.
Omit(r, F) == Restrict(r, DOMAIN r \ F)

\* Mutant: the reference of a link is written for the clips of a group only
\* when they are away from it.
SaveClipInSync(c) ==
    Omit(c, (IF c.group = None THEN {"group"} ELSE {}) \cup
            (IF c.delta = 0 THEN {"anchor", "delta"} ELSE {}))

\* The link of a clip, its reference, its caption style and its text are
\* optional; the reference goes with the clip it is measured from.
SaveClip(c) ==
    Omit(c, (IF c.group = None THEN {"group"} ELSE {}) \cup
            (IF c.anchor = None THEN {"anchor", "delta"} ELSE {}) \cup
            (IF c.style = None THEN {"style"} ELSE {}) \cup
            (IF c.text = "" THEN {"text"} ELSE {}))

\* Opacity came with version 5 and audio processing with version 7.
LoadClip(version, j) ==
    LET unread == (IF version < 5 THEN {"opacity"} ELSE {}) \cup
                  (IF version < 7 THEN {"gain", "fin", "fout"} ELSE {})
    IN  Omit(j, unread) @@ NewClip(j.id, j.src, j.sin, j.dur, j.tin, TRUE)

\* A track is written with all of its settings.
SaveTrack(t) == [t EXCEPT !.clips = [i \in DOMAIN @ |-> SaveClip(@[i])]]
LoadTrack(version, j) ==
    LET defaults == [locked |-> FALSE, sync |-> TRUE, output |-> "on"]
    IN  [j EXCEPT !.clips = [i \in DOMAIN @ |-> LoadClip(version, @[i])]] @@ defaults

\* A group has an active angle or none.
SaveGroup(g) == IF g.active = None THEN Omit(g, {"active"}) ELSE g
LoadGroup(j) == j @@ [active |-> None]

\* A bin has a parent or none, and a media a bin or none.
SaveBin(b) == IF b.parent = None THEN Omit(b, {"parent"}) ELSE b
LoadBin(j) == j @@ [parent |-> None]

\* Markers, transitions and caption styles are written whole.
SaveToString(d) ==
    [version |-> CurrentVersion,
     tracks |-> [t \in DOMAIN d.tracks |-> SaveTrack(d.tracks[t])],
     markers |-> d.markers, transitions |-> d.transitions, styles |-> d.styles,
     groups |-> [i \in DOMAIN d.groups |-> SaveGroup(d.groups[i])],
     bins |-> [b \in DOMAIN d.bins |-> SaveBin(d.bins[b])],
     media |-> Restrict(d.media, {s \in DOMAIN d.media : d.media[s] # None}),
     format |-> d.format, colour |-> d.colour]

\* What the file says, valid or not; next is not the file's.
LoadFromString(j, next) ==
    [tracks |-> [t \in DOMAIN j.tracks |-> LoadTrack(j.version, j.tracks[t])],
     markers |-> j.markers, transitions |-> j.transitions, styles |-> j.styles,
     groups |-> [i \in DOMAIN j.groups |-> LoadGroup(j.groups[i])],
     bins |-> [b \in DOMAIN j.bins |-> LoadBin(j.bins[b])],
     media |-> j.media @@ [s \in Sources |-> None],
     format |-> j.format, colour |-> j.colour, next |-> next]

=============================================================================
