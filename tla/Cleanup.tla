------------------------------ MODULE Cleanup ------------------------------
(***************************************************************************)
(* The tools that clean up spoken material: tighten_pauses,                *)
(* trim_boundary_air, close_junction_air, remove_words and                 *)
(* clean_disfluencies (McpTools.cc).  Each takes a snapshot of the         *)
(* document, resolves an intent into an operation from the speech envelope *)
(* (SpeechOnset.cc, PauseTightening.cc, BoundaryAir.cc) or from the        *)
(* transcript (Transcription.cc), and has it applied.  From the chat panel *)
(* the snapshot and the edit are two blocks of the main queue, and the     *)
(* user may edit between them.                                             *)
(*                                                                         *)
(* Clips are measured in frames, the envelope in analysis windows and the  *)
(* words of the decoder in ticks; a frame is FrameTicks of them and a      *)
(* window WindowTicks, so that the three grids do not line up.             *)
(***************************************************************************)
EXTENDS Operations

CONSTANTS
    Cases,        \* what a behaviour starts from: the envelope, the words the
                  \* decoder emits, the document, and two bounds: tool calls
                  \* and edits of the user
    FrameTicks, WindowTicks,
    MinimumGap, MinimumAir,     \* ticks: the settings min_gap_ms, min_air_ms
    KeepFrames, KeepAir,        \* frames: keep_frames of the two settings
    RatioPercent,               \* speech_ratio_percent
    RangePercent,               \* minimum_dynamic_range_percent
    Dbfs, FloorDb,              \* SpeechLevelDbfs of a level; group_floor_db
    GapWindows, SustainWindows, \* group_gap_milliseconds, dominant_sustain_windows
    Filler,       \* the texts IsFillerWord knows
    Tools         \* the tools in use

ASSUME GridAssumption ==
    /\ {FrameTicks, WindowTicks, MinimumGap, MinimumAir, SustainWindows,
        GapWindows} \subseteq Nat \ {0}
    /\ {KeepFrames, KeepAir} \subseteq Nat
    /\ RatioPercent \in 1..99

\* The clips of a document have identifiers of their own, and GenerateUlid
\* draws none of them again.
Tidy(d) ==
    LET cs(t) == d.tracks[t].clips
    IN  /\ {"tracks", "next"} \subseteq DOMAIN d /\ d.next \in Int
        /\ IsFiniteSet(DOMAIN d.tracks)
        /\ \A t \in DOMAIN d.tracks :
               /\ "clips" \in DOMAIN d.tracks[t]
               /\ cs(t) \in Seq(Range(cs(t)))
        /\ \A c \in Clips(d) :
               /\ {"id", "src", "sin", "dur", "tin", "group"} \subseteq DOMAIN c
               /\ {c.id, c.sin, c.dur} \subseteq Int /\ c.id < d.next
        /\ \A t, u \in DOMAIN d.tracks :
               \A i \in DOMAIN cs(t), j \in DOMAIN cs(u) :
                   cs(t)[i].id = cs(u)[j].id => t = u /\ i = j

ASSUME CasesAssumption ==
    \A x \in Cases :
        /\ DOMAIN x.levels \subseteq Nat
        /\ x.spoken \in Seq(Range(x.spoken))
        /\ \A w \in Range(x.spoken) : {w.from, w.to} \subseteq Nat
        /\ Tidy(x.doc)

VARIABLES
    levels,  \* the levels of the envelope, by window from 0
    words,   \* the words of the transcript
    doc,     \* the document
    call,    \* the tool call under way, or Idle
    done,    \* history: the last call that edited, see Finish
    left     \* what is left of the bounds

vars == <<levels, words, doc, call, done, left>>

Idle == [tool |-> "none"]

SourceEnd(c) == c.sin + c.dur

-----------------------------------------------------------------------------
(* Grids. *)

\* RoundToSourceFrame, by default and with roundUp.
FrameDown(tick) == tick \div FrameTicks
FrameUp(tick) == -((-tick) \div FrameTicks)

\* The windows a clip plays: down at the head, up at the tail.
ClipWindows(c) ==
    {w \in DOMAIN levels : /\ w >= (c.sin * FrameTicks) \div WindowTicks
                           /\ w * WindowTicks < SourceEnd(c) * FrameTicks}

-----------------------------------------------------------------------------
(* SpeechOnset.cc: levels and speech groups. *)

\* Nearest rank: the least level that percent of the windows do not exceed.
SpeechLevelPercentile(W, percent) ==
    LET rank == (percent * Cardinality(W) + 99) \div 100
        reached(l) == Cardinality({w \in W : levels[w] <= l}) >= rank
        L == {levels[w] : w \in W}
    IN  CHOOSE l \in L : reached(l) /\ \A m \in L : reached(m) => l <= m

\* Runs of voiced windows, first and one past last, that no gap separates.
BuildSpeechGroups ==
    LET W == DOMAIN levels
        noise == SpeechLevelPercentile(W, 5)
        floor == LET f == Dbfs[noise] + FloorDb IN IF f > 0 THEN 0 ELSE f
        voiced == {w \in W : Dbfs[levels[w]] >= floor}
        quiet(a, b) == \A w \in a..b : w \notin voiced
    IN  IF SpeechLevelPercentile(W, 90) * 100 < noise * RangePercent
        THEN {}
        ELSE {g \in {[from |-> a, to |-> b + 1] : a \in voiced, b \in voiced} :
                 /\ g.from < g.to
                 /\ quiet(g.from - GapWindows, g.from - 1)
                 /\ quiet(g.to, g.to + GapWindows - 1)
                 /\ \A w \in g.from..g.to - GapWindows :
                        ~quiet(w, w + GapWindows - 1)}

\* AssessTranscriptAgainstSpeech: words over no measured speech.
LikelyHallucinated == words # <<>> /\ BuildSpeechGroups = {}

-----------------------------------------------------------------------------
(* PauseTightening.cc. *)

Threshold(c) ==
    (SpeechLevelPercentile(ClipWindows(c), 90) * RatioPercent) \div 100

Hushed(c, w) == levels[w] < Threshold(c)

\* The longest runs of hushed windows that touch neither end of the clip.
InnerHollows(c) ==
    LET W == ClipWindows(c)
        ends(w) == w \in W /\ ~Hushed(c, w)
    IN  {h \in {[from |-> a, to |-> b] : a \in W, b \in W} :
            /\ h.from < h.to /\ ends(h.from - 1) /\ ends(h.to)
            /\ \A w \in h.from..h.to - 1 : Hushed(c, w)}

\* Mutant: both boundaries take the frame they fall into.
PauseCutOutward(h) ==
    [from |-> FrameDown(h.from * WindowTicks) + (KeepFrames + 1) \div 2,
     to |-> FrameUp(h.to * WindowTicks) - KeepFrames \div 2]

\* What is cut out of a hollow: whole frames inside it, less the ones kept,
\* the odd one at the head.
PauseCut(h) ==
    [from |-> FrameUp(h.from * WindowTicks) + (KeepFrames + 1) \div 2,
     to |-> FrameDown(h.to * WindowTicks) - KeepFrames \div 2]

InOrderOfTime(ranges) ==
    LET earlier(r) == {s \in ranges : s.from < r.from \/ (s.from = r.from /\ s.to < r.to)}
    IN  [i \in 1..Cardinality(ranges) |->
            CHOOSE r \in ranges : Cardinality(earlier(r)) = i - 1]

\* ResolvePauseTightening: a hollow too short, already tight or cut outside
\* of the clip is left alone.
ResolvePauseTightening(c) ==
    LET long == {h \in InnerHollows(c) :
                    (h.to - h.from) * WindowTicks >= MinimumGap}
    IN  InOrderOfTime({r \in {PauseCut(h) : h \in long} :
            r.from < r.to /\ r.from >= c.sin /\ r.to <= SourceEnd(c)})

-----------------------------------------------------------------------------
(* BoundaryAir.cc. *)

\* MeasureBoundaries: the speech groups sustained inside the clip, in ticks.
SpeechOf(c) ==
    LET clipped(g) ==
            [from |-> Max({g.from * WindowTicks, c.sin * FrameTicks}),
             to |-> Min({g.to * WindowTicks, SourceEnd(c) * FrameTicks})]
    IN  {s \in {clipped(g) : g \in BuildSpeechGroups} :
            s.to - s.from >= SustainWindows * WindowTicks}

SpeechStart(c) == Min({s.from : s \in SpeechOf(c)})
SpeechEnd(c) == Max({s.to : s \in SpeechOf(c)})
HeadAir(c) == SpeechStart(c) - c.sin * FrameTicks
TailAir(c) == SourceEnd(c) * FrameTicks - SpeechEnd(c)

\* A trim with the whole link group of the clip (LinkedBoundaryClipIds).
AirTrim(d, c, edge, delta) ==
    [clip |-> c.id, edge |-> edge, delta |-> delta,
     linked |-> InOrder(d, Grouped(d, c.group) \ {c})]

\* Mutant: the frames kept are counted from the head of the clip.
HeadTrimKeepsHead(d, c) ==
    LET by == FrameDown(SpeechStart(c)) - c.sin
    IN  IF by > KeepAir THEN <<AirTrim(d, c, "head", by)>> ELSE <<>>

\* HeadTrim: up to KeepAir frames before the frame speech starts in.
HeadTrim(d, c) ==
    LET by == FrameDown(SpeechStart(c)) - KeepAir - c.sin
    IN  IF by > 0 THEN <<AirTrim(d, c, "head", by)>> ELSE <<>>

\* TailTrim: from KeepAir frames after the frame speech ends in.
TailTrim(d, c) ==
    LET by == SourceEnd(c) - (FrameUp(SpeechEnd(c)) + KeepAir)
    IN  IF by > 0 THEN <<AirTrim(d, c, "tail", -by)>> ELSE <<>>

\* ResolveBoundaryAir: each end on its own.
ResolveBoundaryAir(d, c) ==
    IF SpeechOf(c) = {} THEN <<>>
    ELSE (IF HeadAir(c) >= MinimumAir THEN HeadTrim(d, c) ELSE <<>>) \o
         (IF TailAir(c) >= MinimumAir THEN TailTrim(d, c) ELSE <<>>)

\* Mutant: only the longer side of the junction is trimmed.
ResolveJunctionOneSide(d, l, r) ==
    IF /\ End(l) = r.tin /\ SpeechOf(l) # {} /\ SpeechOf(r) # {}
       /\ TailAir(l) + HeadAir(r) >= MinimumAir
    THEN IF TailAir(l) > HeadAir(r) THEN TailTrim(d, l) ELSE HeadTrim(d, r)
    ELSE <<>>

\* ResolveJunctionAir: the air on both sides of the cut counts as one.
ResolveJunctionAir(d, l, r) ==
    IF /\ End(l) = r.tin /\ SpeechOf(l) # {} /\ SpeechOf(r) # {}
       /\ TailAir(l) + HeadAir(r) >= MinimumAir
    THEN TailTrim(d, l) \o HeadTrim(d, r)
    ELSE <<>>

\* Mutant: only the tracks of pictures follow.
BoundarySyncPictures(d, trims) ==
    {t \in DOMAIN d.tracks : d.tracks[t].sync /\ Kind(d, t) = "video"} \
        TracksOf(d, {x.clip : x \in Range(trims)})

\* BoundarySyncTrackIds: the sync-locked tracks no trim edits directly.
BoundarySyncTrackIds(d, trims) ==
    {t \in DOMAIN d.tracks : d.tracks[t].sync} \
        TracksOf(d, UNION {{x.clip} \cup Range(x.linked) : x \in Range(trims)})

-----------------------------------------------------------------------------
(* Transcription.cc: words and disfluencies. *)

\* GroupWordsFromWhisper: a word takes every frame it touches.
RoundedWord(w) ==
    [from |-> FrameDown(w.from), to |-> FrameUp(w.to), text |-> <<w.text>>]

\* Mutant: a word keeps the frame it shares with the one before.
PlaceWordShared(s, w) ==
    LET from == Max({w.from, s.previous})
    IN  IF w.to <= from
        THEN [s EXCEPT !.previous = from, !.pending = @ \o w.text]
        ELSE [previous |-> from, pending |-> <<>>,
              words |-> Append(s.words, [from |-> from, to |-> w.to,
                                         text |-> s.pending \o w.text])]

\* One word of NormalizeTranscriptWords: it starts no earlier than the word
\* before did nor than that one ends, and joins the next one when no frame
\* is left to it.
PlaceWord(s, w) ==
    LET from == Max({w.from, s.previous})
        own == Max({from} \cup {x.to : x \in Range(s.words)})
    IN  IF w.to <= own
        THEN [s EXCEPT !.previous = from, !.pending = @ \o w.text]
        ELSE [previous |-> from, pending |-> <<>>,
              words |-> Append(s.words, [from |-> own, to |-> w.to,
                                         text |-> s.pending \o w.text])]

\* The words left over join the last one.
NormalizeTranscriptWords(spoken) ==
    LET placed[i \in 0..Len(spoken)] ==
            IF i = 0 THEN [previous |-> -1, pending |-> <<>>, words |-> <<>>]
            ELSE PlaceWord(placed[i - 1], RoundedWord(spoken[i]))
        s == placed[Len(spoken)]
        n == Len(s.words)
    IN  IF n = 0 THEN <<>>
        ELSE [s.words EXCEPT ![n].text = @ \o s.pending]

\* FindDisfluencies: the longest runs of fillers, and the runs of one word
\* less its last occurrence.
FindDisfluencies ==
    LET N == DOMAIN words
        filler(i) == words[i].text \in Filler
        same(i, j) == IF filler(i) THEN filler(j) ELSE words[i].text = words[j].text
        runs == {r \in {[first |-> a, last |-> b] : a \in N, b \in N} :
                    /\ r.first <= r.last
                    /\ \A i \in r.first..r.last : same(r.first, i)
                    /\ r.first - 1 \in N => ~same(r.first, r.first - 1)
                    /\ r.last + 1 \in N => ~same(r.first, r.last + 1)}
    IN  {[kind |-> "Filler", first |-> r.first, last |-> r.last] :
            r \in {x \in runs : filler(x.first)}} \cup
        {[kind |-> "Repetition", first |-> r.first, last |-> r.last - 1] :
            r \in {x \in runs : ~filler(x.first) /\ x.first < x.last}}

\* FindDisfluenciesInClip
FindDisfluenciesInClip(c) ==
    {x \in FindDisfluencies : /\ words[x.first].from >= c.sin
                              /\ words[x.last].to <= SourceEnd(c)}

\* ResolveWordRemoval: ascending ranges of words that do not overlap.
ResolveWordRemoval(found) ==
    InOrderOfTime({[from |-> words[x.first].from, to |-> words[x.last].to] :
                      x \in found})

\* Mutant: the linked clip must be covered by the ranges.
LinkedClipIdsInsideRanges(d, c, ranges) ==
    InOrder(d, {m \in Grouped(d, c.group) \ {c} :
        /\ m.src = c.src
        /\ \A r \in Range(ranges) : r.from <= m.sin /\ r.to >= SourceEnd(m)})

\* The other clips of the link group that play every range.
LinkedClipIdsCoveringRanges(d, c, ranges) ==
    InOrder(d, {m \in Grouped(d, c.group) \ {c} :
        /\ m.src = c.src
        /\ \A r \in Range(ranges) : r.from >= m.sin /\ r.to <= SourceEnd(m)})

-----------------------------------------------------------------------------
(* The tools. *)

\* SnapshotDocument: the tool works on a copy from here on.
Call ==
    /\ call = Idle /\ left.calls > 0
    /\ \E tool \in Tools, a \in ClipIds(doc), b \in ClipIds(doc) :
        /\ (tool = "close_junction_air") = (a # b)
        /\ call' = [tool |-> tool, ids |-> <<a, b>>, snap |-> doc]
    /\ left' = [left EXCEPT !.calls = @ - 1]
    /\ UNCHANGED <<levels, words, doc, done>>

\* The clip the call names, as its snapshot shows it.
Named == FindClip(call.snap, call.ids[1])

\* The call ends with the edit r, or with the refusal of it.
Answer(r, op) ==
    /\ doc' = IF r.ok THEN r.doc ELSE doc
    /\ done' = IF r.ok
               THEN [tool |-> call.tool, ids |-> call.ids, op |-> op,
                     snap |-> call.snap, before |-> doc, after |-> r.doc]
               ELSE Idle
    /\ call' = Idle
    /\ UNCHANGED <<levels, words, left>>

\* ApplyOperation of the backend, on the document as it is by now.
Finish(op) == Answer(ApplyOperation(doc, op), op)

\* Nothing to cut, or a refusal of the tool.
NoEdit ==
    /\ call' = Idle /\ done' = Idle
    /\ UNCHANGED <<levels, words, doc, left>>

CutRanges(ranges, sync) ==
    IF ranges = <<>> THEN NoEdit
    ELSE Finish([kind |-> "RemoveWords", clip |-> Named.id, gap |-> 0,
                 ranges |-> ranges, sync |-> sync, exact |-> Nothing,
                 linked |-> LinkedClipIdsCoveringRanges(call.snap, Named, ranges)])

\* DispatchTightenPauses: the tracks in sync are the ones the caller lists.
TightenPauses ==
    /\ call.tool = "tighten_pauses"
    /\ \E sync \in {{}, {t \in DOMAIN call.snap.tracks : call.snap.tracks[t].sync}} :
        IF ClipWindows(Named) = {} THEN NoEdit
        ELSE CutRanges(ResolvePauseTightening(Named), sync)

\* The caller lists no track: the ones in sync follow.
TrimAir(trims) ==
    IF trims = <<>> THEN NoEdit
    ELSE Finish([kind |-> "TrimBoundaryAir", trims |-> trims,
                 sync |-> BoundarySyncTrackIds(call.snap, trims),
                 exact |-> Nothing])

\* DispatchTrimBoundaryAir
TrimBoundaryAir ==
    /\ call.tool = "trim_boundary_air"
    /\ TrimAir(ResolveBoundaryAir(call.snap, Named))

\* DispatchCloseJunctionAir: the two clips are on one track.
CloseJunctionAir ==
    LET l == call.ids[1]
        r == call.ids[2]
    IN  /\ call.tool = "close_junction_air"
        /\ IF FindTrackForClip(call.snap, l) = FindTrackForClip(call.snap, r)
           THEN TrimAir(ResolveJunctionAir(call.snap, Named, FindClip(call.snap, r)))
           ELSE NoEdit

\* DispatchRemoveWords: one range of words, or two.
RemoveWords ==
    /\ call.tool = "remove_words"
    /\ \E a, b \in DOMAIN words, force \in BOOLEAN :
        /\ a <= b
        /\ IF LikelyHallucinated /\ ~force THEN NoEdit
           ELSE \/ CutRanges(ResolveWordRemoval({[first |-> a, last |-> b]}), {})
                \/ /\ a < b
                   /\ CutRanges(ResolveWordRemoval({[first |-> a, last |-> a],
                                                    [first |-> b, last |-> b]}), {})

\* DispatchCleanDisfluencies
CleanDisfluencies ==
    /\ call.tool = "clean_disfluencies"
    /\ \E repetitions \in BOOLEAN :
        CutRanges(ResolveWordRemoval({x \in FindDisfluenciesInClip(Named) :
                      x.kind = "Filler" \/ repetitions}), {})

\* The user trims a clip and what is linked to it, at any time.
UserTrim ==
    /\ left.trims > 0
    /\ \E c \in Clips(doc), edge \in {"head", "tail"}, by \in {-1, 1} :
        LET trimmed(r) == r.ok /\ doc' = r.doc
        IN  trimmed(ApplyOperation(doc,
                [kind |-> "RippleTrim", clip |-> c.id, edge |-> edge,
                 delta |-> by, linked |-> InOrder(doc, Grouped(doc, c.group)),
                 sync |-> {}, exact |-> Nothing]))
    /\ left' = [left EXCEPT !.trims = @ - 1]
    /\ done' = Idle
    /\ UNCHANGED <<levels, words, call>>

Init ==
    /\ \E x \in Cases :
        /\ levels = x.levels
        /\ words = NormalizeTranscriptWords(x.spoken)
        /\ doc = x.doc
        /\ left = [calls |-> x.calls, trims |-> x.trims]
    /\ call = Idle /\ done = Idle

Next ==
    \/ Call \/ TightenPauses \/ TrimBoundaryAir \/ CloseJunctionAir
    \/ RemoveWords \/ CleanDisfluencies \/ UserTrim

Spec == Init /\ [][Next]_vars

-----------------------------------------------------------------------------
(* Properties. *)

\* The tool edited the document it had looked at.
Current == done.tool # "none" /\ done.snap = done.before

\* The frames of a source a track plays.
Played(d, t, src) ==
    UNION {c.sin..SourceEnd(c) - 1 :
              c \in {x \in Range(d.tracks[t].clips) : x.src = src}}

\* The tracks of a clip and of what is linked to it.
Along(d, c) == TracksOf(d, {c.id} \cup {m.id : m \in Grouped(d, c.group)})

\* The last call edited the frames F of the source of c away from a track
\* that played them.
Lost(c, F) ==
    \E t \in Along(done.snap, c) :
        \E f \in F : /\ f \in Played(done.before, t, c.src)
                     /\ f \notin Played(done.after, t, c.src)

\* The frames of c that a window of speech reaches into.
SpokenFrames(c) ==
    {f \in c.sin..SourceEnd(c) - 1 : \E w \in ClipWindows(c) :
        /\ ~Hushed(c, w)
        /\ w * WindowTicks < (f + 1) * FrameTicks
        /\ f * FrameTicks < (w + 1) * WindowTicks}

\* "The one error this must not make" (PauseTightening.h): tightening the
\* pauses of a clip takes no frame of its speech, on its track or on those
\* of its linked clips, though the analysis grid and the frames do not line
\* up and the user may have trimmed the clip since the tool looked at it.
PausesKeepSpeech ==
    done.tool = "tighten_pauses" =>
        LET c == FindClip(done.snap, done.ids[1]) IN ~Lost(c, SpokenFrames(c))

\* The frames around the sustained speech of c that the air tools keep.
ProtectedFrames(c) ==
    {f \in c.sin..SourceEnd(c) - 1 : \E s \in SpeechOf(c) :
        FrameDown(s.from) - KeepAir <= f /\ f < FrameUp(s.to) + KeepAir}

AirTools == {"trim_boundary_air", "close_junction_air"}
TrimmedClips == {FindClip(done.snap, x.clip) : x \in Range(done.op.trims)}

\* The air tools keep KeepAir frames around the speech of every clip they
\* trim and of every other clip of its link group (README.md: "les images
\* source conservées près de la parole").
AirKeepsSpeech ==
    done.tool \in AirTools =>
        \A c \in TrimmedClips : \A m \in {c} \cup Grouped(done.snap, c.group) :
            ~Lost(m, ProtectedFrames(m))

\* The link group of c has one clip on each track.  RemoveWords leaves its
\* fragments in one group, and LinkedBoundaryClipIds then takes them all.
OnePerTrack(d, c) ==
    \A a, b \in Grouped(d, c.group) :
        FindTrackForClip(d, a.id) = FindTrackForClip(d, b.id) => a = b

\* An air tool edited the document it had looked at, and no clip it trimmed
\* is one of several fragments.
WholeClips ==
    /\ Current /\ done.tool \in AirTools
    /\ \A c \in TrimmedClips : OnePerTrack(done.snap, c)

\* The same, for whole clips and a snapshot nobody edited since.
WholeClipAirKeepsSpeech == WholeClips => AirKeepsSpeech

\* Both sides keep speech, and no more air than the tools leave.
Closed(d, l, r) ==
    /\ SpeechOf(l) # {} /\ SpeechOf(r) # {}
    /\ TailTrim(d, l) = <<>> /\ HeadTrim(d, r) = <<>>

\* Closing a junction or the ends of a clip converges: what the call left has
\* nothing to trim on either side of the junction, wherever its clips are now,
\* and at the ends of the clip ("une seconde passe ne déplace plus la
\* jonction", README.md), because both sides are trimmed at once.
SecondPassFindsNothing ==
    WholeClips =>
        LET l == FindClip(done.after, done.ids[1])
            r == FindClip(done.after, done.ids[2])
        IN  IF done.tool = "close_junction_air"
            THEN Closed(done.after, l, r)
            ELSE ResolveBoundaryAir(done.after, l) = <<>>

\* Cutting words out, chosen or found as disfluencies, takes no frame of a
\* word that stays, though decoded words share frames and may come late,
\* empty or out of order.
OtherWordsSurvive ==
    done.tool \in {"remove_words", "clean_disfluencies"} =>
        LET c == FindClip(done.snap, done.ids[1])
            cut(w) == \E r \in Range(done.op.ranges) : r.from <= w.from /\ w.to <= r.to
        IN  \A i \in DOMAIN words :
                ~cut(words[i]) => ~Lost(c, words[i].from..words[i].to - 1)

InStep(d) ==
    \A a, b \in Clips(d) :
        (a.src = b.src /\ a.tin < End(b) /\ b.tin < End(a)) => Phase(a) = Phase(b)

\* Picture and sound in step stay in step, whatever is cut out of a clip of
\* the pair and however often: where both tracks play, they play the same
\* frame.
PictureAndSoundInStep == Current /\ InStep(done.before) => InStep(done.after)

\* What starts after the trimmed clips moves by one amount on all the
\* sync-locked tracks, the ones trimmed and the ones that follow.
SyncTracksFollow ==
    WholeClips =>
        LET later == {c \in Clips(done.before) :
                /\ done.before.tracks[FindTrackForClip(done.before, c.id)].sync
                /\ \A x \in TrimmedClips : c.tin >= End(x)}
            shift(c) == FindClip(done.after, c.id).tin - c.tin
        IN  \A a, b \in later : shift(a) = shift(b)

=============================================================================
