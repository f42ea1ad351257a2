------------------------------ MODULE Document ------------------------------
(***************************************************************************)
(* The timeline document: tracks of clips, the transitions, markers,       *)
(* caption styles and multicam groups of the sequence, the bins, and       *)
(* Document::Validate, which every editing operation runs on its result.   *)
(*                                                                         *)
(* Times are whole frames of the sequence.  Identifiers are numbers; None  *)
(* is the empty identifier and doc.next the next one GenerateUlid returns, *)
(* so that an identifier is never drawn twice.  Tracks are looked up by    *)
(* identifier, as the code does; texts, names and formats are opaque.      *)
(***************************************************************************)
EXTENDS Integers, Sequences, FiniteSets, Functions, SequencesExt

CONSTANTS
    Sources,    \* the media mounted in the document
    Length,     \* Length[s]: the duration of source s
    AudioOnly,  \* the sources whose probed metadata shows no picture
    Silent      \* the sources whose probed metadata shows no sound

ASSUME DocumentAssumption ==
    /\ Length \in [Sources -> Nat \ {0}]
    /\ AudioOnly \subseteq Sources /\ Silent \subseteq Sources

None == 0

\* An empty finite function: no exact result recorded in an operation.
Nothing == <<>>

-----------------------------------------------------------------------------
(* Clips and the lookups of the document. *)

\* DocumentClip, as the operations create it: no link, no effect, no audio
\* processing, fully opaque.
NewClip(id, src, sin, dur, tin, audio) ==
    [id |-> id, src |-> src, sin |-> sin, dur |-> dur, tin |-> tin,
     audio |-> audio, group |-> None, anchor |-> None, delta |-> 0,
     fx |-> <<>>, gain |-> 0, fin |-> 0, fout |-> 0, opacity |-> 1,
     style |-> None, text |-> ""]

End(c) == c.tin + c.dur

\* PhaseOf: where the source of the clip would start on the timeline.
Phase(c) == c.tin - c.sin

Clips(d) == UNION {Range(d.tracks[t].clips) : t \in DOMAIN d.tracks}
ClipIds(d) == {c.id : c \in Clips(d)}
FindClip(d, id) == CHOOSE c \in Clips(d) : c.id = id
FindTrackForClip(d, id) ==
    CHOOSE t \in DOMAIN d.tracks :
        \E c \in Range(d.tracks[t].clips) : c.id = id

Ids(list) == {x.id : x \in Range(list)}
IndexOf(list, id) == CHOOSE i \in DOMAIN list : list[i].id = id

\* The clips of track t become cs.
WithClips(d, t, cs) == [d EXCEPT !.tracks[t].clips = cs]

\* Clip id becomes c, in place.
WithClip(d, id, c) ==
    LET t == FindTrackForClip(d, id)
        cs == d.tracks[t].clips
    IN  WithClips(d, t, ReplaceAt(cs, IndexOf(cs, id), c))

\* The clips of cs without those of ids.
Without(cs, ids) == SelectSeq(cs, LAMBDA c : c.id \notin ids)

\* std::stable_sort by timeline_in.
SortClips(cs) == SortSeq(cs, LAMBDA a, b : a.tin < b.tin)

\* Every clip that starts at or after a boundary moves by delta.
ShiftPositionsAtOrAfter(cs, boundary, delta) ==
    [i \in DOMAIN cs |->
        IF cs[i].tin >= boundary THEN [cs[i] EXCEPT !.tin = @ + delta]
                                 ELSE cs[i]]

-----------------------------------------------------------------------------
(* Document::Validate. *)

Kind(d, t) == d.tracks[t].kind

ValidClip(d, t, c) ==
    LET caption == Kind(d, t) = "caption"
    IN  /\ c.group = None => c.anchor = None
        /\ IF caption THEN c.src = None /\ c.text # ""
                      ELSE /\ c.src \in Sources
                           /\ c.sin + c.dur <= Length[c.src]
        /\ c.dur > 0 /\ c.sin >= 0 /\ c.tin >= 0
        /\ c.opacity \in 0..1
        /\ c.fin \in 0..c.dur /\ c.fout \in 0..c.dur
        /\ (c.gain # 0 \/ c.fin # 0 \/ c.fout # 0) => Kind(d, t) = "audio"
        /\ Kind(d, t) = "video" => c.src \notin AudioOnly
        /\ c.fx # <<>> => Kind(d, t) = "video"
        /\ c.style # None => c.style \in Ids(d.styles)

ValidTrack(d, t) ==
    LET cs == d.tracks[t].clips
    IN  /\ \A i \in DOMAIN cs : ValidClip(d, t, cs[i])
        /\ \A i \in 1..Len(cs) - 1 : End(cs[i]) <= cs[i + 1].tin
        /\ \A u \in DOMAIN d.tracks \ {t} :
               d.tracks[u].index # d.tracks[t].index

\* How many frames of a transition play before and after its cut.
Pre(x) == CASE x.align = "center" -> x.dur \div 2
            [] x.align = "start_at_cut" -> 0
            [] OTHER -> x.dur
Post(x) == x.dur - Pre(x)

ValidTransition(d, x) ==
    /\ x.track \in DOMAIN d.tracks /\ Kind(d, x.track) = "video"
    /\ x.dur > 0
    /\ LET cs == d.tracks[x.track].clips
       IN  \E i \in 1..Len(cs) - 1 :
              /\ cs[i].id = x.left /\ cs[i + 1].id = x.right
              /\ End(cs[i]) = cs[i + 1].tin
              /\ cs[i].sin + cs[i].dur + Post(x) <= Length[cs[i].src]
              /\ cs[i + 1].sin >= Pre(x)

\* The parent of a bin is a bin, no bin is its own ancestor, and the bin of
\* a media exists.
ValidBins(d) ==
    /\ \A b \in DOMAIN d.bins : d.bins[b].parent \in DOMAIN d.bins \cup {None}
    /\ ~\E B \in SUBSET DOMAIN d.bins \ {{}} :
           \A b \in B : d.bins[b].parent \in B
    /\ \A s \in Sources : d.media[s] \in DOMAIN d.bins \cup {None}

ValidMarker(m) == m.time >= 0 /\ m.name # ""

\* The angles of a multicam group are different clips of video tracks, and
\* its active angle is one of them.
ValidGroup(d, g) ==
    /\ IsInjective([i \in DOMAIN g.angles |-> g.angles[i].clip])
    /\ \A i \in DOMAIN g.angles :
           /\ g.angles[i].clip \in ClipIds(d)
           /\ Kind(d, FindTrackForClip(d, g.angles[i].clip)) = "video"
    /\ g.active # None => g.active \in Ids(g.angles)

\* Every identifier the document registers, with the place that holds it.
Registered(d) ==
    LET list(n, l) == {<<n, i, 0, l[i].id>> : i \in DOMAIN l}
        clips(t) == d.tracks[t].clips
    IN  UNION {
            {<<-1, s, 0, s>> : s \in Sources},
            {<<-2, b, 0, b>> : b \in DOMAIN d.bins},
            list(-3, d.markers), list(-4, d.transitions),
            list(-5, d.styles), list(-6, d.groups),
            UNION {{<<-6, i, j, d.groups[i].angles[j].id>> :
                      j \in DOMAIN d.groups[i].angles} : i \in DOMAIN d.groups},
            UNION {{<<t, 0, 0, t>>} \cup list(t, clips(t)) \cup
                   UNION {{<<t, i, j, clips(t)[i].fx[j]>> :
                             j \in DOMAIN clips(t)[i].fx} :
                          i \in DOMAIN clips(t)} : t \in DOMAIN d.tracks}}

UsedIds(d) == {r[4] : r \in Registered(d)}

\* RegisterId refuses an identifier that two places hold.
UniqueIds(d) == Cardinality(UsedIds(d)) = Cardinality(Registered(d))

Validate(d) ==
    /\ UniqueIds(d)
    /\ ValidBins(d)
    /\ \A i \in DOMAIN d.markers : ValidMarker(d.markers[i])
    /\ \A t \in DOMAIN d.tracks : ValidTrack(d, t)
    /\ \A i \in DOMAIN d.transitions : ValidTransition(d, d.transitions[i])
    /\ \A i \in DOMAIN d.groups : ValidGroup(d, d.groups[i])
    /\ d.format # ""

=============================================================================
