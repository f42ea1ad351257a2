--------------------------- MODULE CleanupProofs ---------------------------
(***************************************************************************)
(* PausesKeepSpeech, OtherWordsSurvive and SecondPassFindsNothing, for any *)
(* grids, settings, envelopes, transcripts and documents.                  *)
(*                                                                         *)
(* The first two rest on two facts each.  What the tool resolved from its  *)
(* snapshot is clear of the frames it must keep: PauseCut stays inside the *)
(* silent windows (CutIsSilent), and the words of a transcript are apart   *)
(* (NormalizedWords), so that a run of words shares no frame with others   *)
(* (RemovalIsExact).  And RemoveWords, on the document as it is by then,   *)
(* takes from the tracks no frame outside of its ranges: the fragments of  *)
(* a clip hold all of them (FragmentsAre), cutting one clip leaves the     *)
(* others alone (SpliceIs), and the tracks in sync only move               *)
(* (RemoveWordsIs).                                                        *)
(*                                                                         *)
(* The third follows the one or two ripple trims of a call (TwoParts): a   *)
(* clip trimmed to no less than its speech still measures the same speech  *)
(* (SpeechStays), so that an end that was cut, or had nothing to cut, is   *)
(* left alone (Settled), and the trim of one side of a junction does not   *)
(* take hold of the other side (NotLinked).                                *)
(*                                                                         *)
(* All need documents whose clips have identifiers of their own, which     *)
(* every operation in reach keeps (RippleTrimEffect, RemoveWordsIs).       *)
(***************************************************************************)
EXTENDS Cleanup, FiniteSetTheorems, SequenceTheorems, WellFoundedInduction, TLAPS

-----------------------------------------------------------------------------
(* Numbers *)

\* The order of the naturals.
Below == OpToRel(<, Nat)

LEMMA BelowIsLess ==
    ASSUME NEW x \in Nat, NEW y \in Nat, x < y
    PROVE  <<x, y>> \in Below
<1>1. Below = {p \in Nat \X Nat : p[1] < p[2]}
  BY DEF Below, OpToRel
<1> QED BY <1>1

LEMMA BelowWellFounded == IsWellFoundedOn(Below, Nat)
  BY NatLessThanWellFounded, Zenon DEF Below

LEMMA LeastOf ==
    ASSUME NEW T \in SUBSET Nat, T # {}
    PROVE  \E m \in T : \A y \in T : m <= y
<1>1. PICK m \in T : \A y \in T : ~(<<y, m>> \in Below)
  BY BelowWellFounded, WFMin, Zenon
<1>2. ASSUME NEW y \in T PROVE m <= y
  <2>1. ~(y < m)
    BY <1>1, BelowIsLess
  <2> QED BY <2>1
<1> QED BY <1>2

LEMMA MaxOfTwo ==
    ASSUME NEW a \in Int, NEW b \in Int
    PROVE  /\ Max({a, b}) \in Int /\ Max({a, b}) >= a /\ Max({a, b}) >= b
           /\ Max({a, b}) = a \/ Max({a, b}) = b
<1>1. \E x \in {a, b} : \A y \in {a, b} : x >= y
  <2>1. CASE a >= b BY <2>1
  <2>2. CASE b >= a BY <2>2
  <2> QED BY <2>1, <2>2
<1>2. Max({a, b}) \in {a, b} /\ \A y \in {a, b} : Max({a, b}) >= y
  BY <1>1 DEF Max
<1> QED BY <1>2

LEMMA MinOfTwo ==
    ASSUME NEW a \in Int, NEW b \in Int
    PROVE  /\ Min({a, b}) \in Int /\ Min({a, b}) <= a /\ Min({a, b}) <= b
           /\ Min({a, b}) = a \/ Min({a, b}) = b
<1>1. \E x \in {a, b} : \A y \in {a, b} : x =< y
  <2>1. CASE a <= b BY <2>1
  <2>2. CASE b <= a BY <2>2
  <2> QED BY <2>1, <2>2
<1>2. Min({a, b}) \in {a, b} /\ \A y \in {a, b} : Min({a, b}) =< y
  BY <1>1 DEF Min
<1> QED BY <1>2

\* A set of numbers with a lower bound has a smallest one.
LEMMA MinOfBounded ==
    ASSUME NEW S \in SUBSET Int, S # {}, NEW lo \in Int, \A x \in S : x >= lo
    PROVE  Min(S) \in Int /\ Min(S) \in S /\ \A y \in S : Min(S) <= y
<1> DEFINE T == {n \in Nat : lo + n \in S}
<1>1. T # {}
  <2>1. PICK x \in S : TRUE
    OBVIOUS
  <2>2. x - lo \in Nat /\ lo + (x - lo) = x
    BY <2>1
  <2> QED BY <2>1, <2>2
<1>2. PICK m \in T : \A y \in T : m <= y
  <2>1. T \in SUBSET Nat
    OBVIOUS
  <2> HIDE DEF T
  <2> QED BY <1>1, <2>1, LeastOf
<1>3. lo + m \in S /\ \A y \in S : lo + m =< y
  <2>1. ASSUME NEW y \in S PROVE lo + m =< y
    <3>1. y - lo \in T
      <4>1. y - lo \in Nat /\ lo + (y - lo) = y
        OBVIOUS
      <4> QED BY <4>1
    <3> QED BY <1>2, <3>1
  <2> QED BY <1>2, <2>1
<1>4. Min(S) \in S /\ \A y \in S : Min(S) =< y
  BY <1>3 DEF Min
<1> QED BY <1>4

LEMMA MaxOfBounded ==
    ASSUME NEW S \in SUBSET Int, S # {}, NEW hi \in Int, \A x \in S : x <= hi
    PROVE  Max(S) \in Int /\ Max(S) \in S /\ \A y \in S : y <= Max(S)
<1> DEFINE T == {n \in Nat : hi - n \in S}
<1>1. T # {}
  <2>1. PICK x \in S : TRUE
    OBVIOUS
  <2>2. hi - x \in Nat /\ hi - (hi - x) = x
    BY <2>1
  <2> QED BY <2>1, <2>2
<1>2. PICK m \in T : \A y \in T : m <= y
  <2>1. T \in SUBSET Nat
    OBVIOUS
  <2> HIDE DEF T
  <2> QED BY <1>1, <2>1, LeastOf
<1>3. hi - m \in S /\ \A y \in S : hi - m >= y
  <2>1. ASSUME NEW y \in S PROVE hi - m >= y
    <3>1. hi - y \in T
      <4>1. hi - y \in Nat /\ hi - (hi - y) = y
        OBVIOUS
      <4> QED BY <4>1
    <3>2. y \in Int /\ m \in Nat /\ m <= hi - y
      BY <1>2, <3>1
    <3> QED BY <3>2
  <2> QED BY <1>2, <2>1
<1>4. Max(S) \in S /\ \A y \in S : Max(S) >= y
  BY <1>3 DEF Max
<1> QED BY <1>4

-----------------------------------------------------------------------------
(* The grids *)

LEMMA Floor ==
    ASSUME NEW x \in Int, NEW n \in Nat \ {0}
    PROVE  x \div n \in Int /\ n * (x \div n) <= x
  OBVIOUS

LEMMA TimesMonotone ==
    ASSUME NEW a \in Int, NEW b \in Int, NEW n \in Nat \ {0}, a <= b
    PROVE  a * n <= b * n
  OBVIOUS

LEMMA FrameDownIs ==
    ASSUME NEW x \in Int
    PROVE  FrameDown(x) \in Int /\ FrameDown(x) * FrameTicks <= x
<1>1. FrameTicks \in Nat \ {0}
  BY GridAssumption
<1>2. x \div FrameTicks \in Int /\ FrameTicks * (x \div FrameTicks) <= x
  BY <1>1, Floor
<1> QED BY <1>1, <1>2 DEF FrameDown

LEMMA FrameUpIs ==
    ASSUME NEW x \in Int
    PROVE  FrameUp(x) \in Int /\ x <= FrameUp(x) * FrameTicks
<1> DEFINE q == (-x) \div FrameTicks
<1>1. FrameTicks \in Nat \ {0}
  BY GridAssumption
<1>2. q \in Int /\ FrameTicks * q <= -x
  BY <1>1, Floor
<1>3. FrameUp(x) = -q
  BY DEF FrameUp
<1> HIDE DEF q
<1>4. (-q) * FrameTicks = -(FrameTicks * q)
  BY <1>1, <1>2
<1> QED BY <1>1, <1>2, <1>3, <1>4

\* What is cut out of a hollow is outside of every window of speech: its first
\* frame starts no earlier than the hollow and its last one ends no later.
LEMMA CutIsSilent ==
    ASSUME DOMAIN levels \subseteq Int, NEW c, c.sin \in Int, c.dur \in Int,
           NEW h \in InnerHollows(c),
           NEW f \in PauseCut(h).from..PauseCut(h).to - 1
    PROVE  f \notin SpokenFrames(c)
<1>1. FrameTicks \in Nat \ {0} /\ WindowTicks \in Nat \ {0} /\ KeepFrames \in Nat
  BY GridAssumption
<1>2. ClipWindows(c) \subseteq Int
  BY DEF ClipWindows
<1>3. /\ h.from \in Int /\ h.to \in Int
      /\ \A w \in h.from..h.to - 1 : Hushed(c, w)
  BY <1>2 DEF InnerHollows
<1> DEFINE a == h.from * WindowTicks
           b == h.to * WindowTicks
           head == (KeepFrames + 1) \div 2
           tail == KeepFrames \div 2
<1>4. a \in Int /\ b \in Int
  BY <1>1, <1>3
<1>5. head \in Nat /\ tail \in Nat
  BY <1>1
<1>6. /\ FrameUp(a) \in Int /\ a <= FrameUp(a) * FrameTicks
      /\ FrameDown(b) \in Int /\ FrameDown(b) * FrameTicks <= b
  BY <1>4, FrameUpIs, FrameDownIs
<1>7. PauseCut(h) = [from |-> FrameUp(a) + head, to |-> FrameDown(b) - tail]
  BY DEF PauseCut
<1>8. PauseCut(h).from = FrameUp(a) + head /\ PauseCut(h).to = FrameDown(b) - tail
  BY <1>7
<1> HIDE DEF head, tail, a, b
<1>9. f \in Int /\ FrameUp(a) <= f /\ f + 1 <= FrameDown(b)
  BY <1>5, <1>6, <1>8
<1>10. a <= f * FrameTicks /\ (f + 1) * FrameTicks <= b
  <2>1. FrameUp(a) * FrameTicks <= f * FrameTicks
    BY <1>1, <1>6, <1>9, TimesMonotone
  <2>2. (f + 1) * FrameTicks <= FrameDown(b) * FrameTicks
    <3>1. f + 1 \in Int
      BY <1>9
    <3> QED BY <1>1, <1>6, <1>9, <3>1, TimesMonotone
  <2>3. f * FrameTicks \in Int /\ (f + 1) * FrameTicks \in Int
    BY <1>1, <1>9
  <2>4. FrameUp(a) * FrameTicks \in Int /\ FrameDown(b) * FrameTicks \in Int
    BY <1>1, <1>6
  <2> QED BY <1>4, <1>6, <2>1, <2>2, <2>3, <2>4
<1>11. SUFFICES ASSUME NEW w \in ClipWindows(c), ~Hushed(c, w),
                       w * WindowTicks < (f + 1) * FrameTicks,
                       f * FrameTicks < (w + 1) * WindowTicks
                PROVE  FALSE
  BY DEF SpokenFrames
<1>12. w \in Int /\ w * WindowTicks \in Int /\ (w + 1) * WindowTicks \in Int
  BY <1>1, <1>2
<1>13. CASE w < h.from
  <2>1. (w + 1) * WindowTicks <= a
    <3>1. w + 1 \in Int /\ w + 1 <= h.from
      BY <1>3, <1>12, <1>13
    <3> QED BY <1>1, <1>3, <3>1, TimesMonotone DEF a
  <2>2. f * FrameTicks \in Int
    BY <1>1, <1>9
  <2> QED BY <1>4, <1>10, <1>11, <1>12, <2>1, <2>2
<1>14. CASE h.to <= w
  <2>1. b <= w * WindowTicks
    BY <1>1, <1>3, <1>12, <1>14, TimesMonotone DEF b
  <2>2. (f + 1) * FrameTicks \in Int
    BY <1>1, <1>9
  <2> QED BY <1>4, <1>10, <1>11, <1>12, <2>1, <2>2
<1>15. w < h.from \/ h.to <= w
  BY <1>3, <1>11, <1>12
<1> QED BY <1>13, <1>14, <1>15

-----------------------------------------------------------------------------
(* Ranges in the order of time *)

Spans(lo, hi) == [from : lo..hi, to : lo..hi]

LEMMA SpansFinite ==
    ASSUME NEW lo \in Int, NEW hi \in Int
    PROVE  IsFiniteSet(Spans(lo, hi))
<1> DEFINE N == lo..hi
           f == [p \in N \X N |-> [from |-> p[1], to |-> p[2]]]
<1>1. IsFiniteSet(N)
  BY FS_Interval
<1>2. f \in Surjection(N \X N, Spans(lo, hi))
  <2>1. \A s \in Spans(lo, hi) : <<s.from, s.to>> \in N \X N /\ f[<<s.from, s.to>>] = s
    BY DEF Spans
  <2>2. f \in [N \X N -> Spans(lo, hi)]
    BY DEF Spans
  <2> HIDE DEF f, N
  <2> QED BY <2>1, <2>2 DEF Surjection
<1>3. IsFiniteSet(N \X N)
  <2> HIDE DEF N
  <2> QED BY <1>1, FS_Product
<1> HIDE DEF f, N
<1> QED BY <1>2, <1>3, FS_Surjection

\* Every rank is taken once: InOrderOfTime lists the members of the set.
LEMMA InOrderOfTimeIs ==
    ASSUME NEW lo \in Int, NEW hi \in Int, NEW S \in SUBSET Spans(lo, hi)
    PROVE  /\ InOrderOfTime(S) \in Seq(S)
           /\ Range(InOrderOfTime(S)) \subseteq S
           /\ \A r \in S : \E k \in DOMAIN InOrderOfTime(S) : InOrderOfTime(S)[k] = r
<1> DEFINE earlier(r) == {s \in S : s.from < r.from \/ (s.from = r.from /\ s.to < r.to)}
           n == Cardinality(S)
           rank == [r \in S |-> Cardinality(earlier(r))]
<1>1. IsFiniteSet(S)
  BY SpansFinite, FS_Subset
<1>2. n \in Nat
  BY <1>1, FS_CardinalityType
<1>3. \A r \in S : r.from \in Int /\ r.to \in Int /\ r = [from |-> r.from, to |-> r.to]
  BY DEF Spans
<1>4. ASSUME NEW r \in S
      PROVE  /\ IsFiniteSet(earlier(r)) /\ Cardinality(earlier(r)) \in Nat
             /\ Cardinality(earlier(r)) < n
  <2>1. earlier(r) \in SUBSET S /\ r \notin earlier(r)
    BY <1>3
  <2> HIDE DEF earlier
  <2>2. IsFiniteSet(earlier(r)) /\ Cardinality(earlier(r)) <= n
    BY <1>1, <2>1, FS_Subset
  <2>3. Cardinality(earlier(r)) # n
    BY <1>1, <2>1, FS_Subset
  <2>4. Cardinality(earlier(r)) \in Nat
    BY <2>2, FS_CardinalityType
  <2> HIDE DEF n
  <2> QED BY <1>2, <2>2, <2>3, <2>4
<1>5. ASSUME NEW r \in S, NEW s \in S, r \in earlier(s)
      PROVE  Cardinality(earlier(r)) # Cardinality(earlier(s))
  <2>1. earlier(r) \in SUBSET earlier(s) /\ r \notin earlier(r)
    BY <1>3, <1>5
  <2>2. IsFiniteSet(earlier(s))
    BY <1>4
  <2> HIDE DEF earlier
  <2> QED BY <1>5, <2>1, <2>2, FS_Subset
<1>6. ASSUME NEW r \in S, NEW s \in S, r # s
      PROVE  r \in earlier(s) \/ s \in earlier(r)
  <2>1. r.from # s.from \/ r.to # s.to
    BY <1>3, <1>6
  <2> QED BY <1>3, <2>1
<1>7. rank \in Injection(S, 0..n - 1)
  <2>1. \A r \in S : rank[r] \in 0..n - 1
    <3>1. SUFFICES ASSUME NEW r \in S PROVE rank[r] \in 0..n - 1
      OBVIOUS
    <3>2. rank[r] = Cardinality(earlier(r))
      OBVIOUS
    <3> HIDE DEF rank, earlier, n
    <3> QED BY <1>2, <1>4, <3>2
  <2>2. \A r, s \in S : rank[r] = rank[s] => r = s
    <3>1. SUFFICES ASSUME NEW r \in S, NEW s \in S, r # s PROVE rank[r] # rank[s]
      OBVIOUS
    <3>2. rank[r] = Cardinality(earlier(r)) /\ rank[s] = Cardinality(earlier(s))
      OBVIOUS
    <3> HIDE DEF rank, earlier
    <3> QED BY <1>5, <1>6, <3>1, <3>2
  <2>3. rank = [r \in S |-> rank[r]] /\ DOMAIN rank = S
    OBVIOUS
  <2> HIDE DEF rank, n
  <2>4. rank \in [S -> 0..n - 1]
    BY <2>1, <2>3
  <2> QED BY <2>2, <2>3, <2>4 DEF Injection, IsInjective
<1>8. IsFiniteSet(0..n - 1) /\ Cardinality(0..n - 1) = n
  <2>1. n - 1 \in Int
    BY <1>2
  <2>2. IsFiniteSet(0..n - 1) /\ Cardinality(0..n - 1) = IF 0 > n - 1 THEN 0 ELSE n - 1 - 0 + 1
    <3> HIDE DEF n
    <3> QED BY <2>1, FS_Interval
  <2> HIDE DEF n
  <2> QED BY <1>2, <2>1, <2>2
<1>9. rank \in Surjection(S, 0..n - 1)
  <2>1. Cardinality(S) = Cardinality(0..n - 1)
    BY <1>8
  <2> HIDE DEF rank, n
  <2> QED BY <1>7, <1>8, <2>1, FS_Injection
<1>10. ASSUME NEW i \in 1..n
       PROVE  (CHOOSE r \in S : Cardinality(earlier(r)) = i - 1) \in S
  <2>1. i - 1 \in 0..n - 1
    BY <1>2
  <2>2. \E r \in S : rank[r] = i - 1
    <3> HIDE DEF rank, n
    <3> QED BY <1>9, <2>1 DEF Surjection
  <2>3. \E r \in S : Cardinality(earlier(r)) = i - 1
    BY <2>2
  <2> HIDE DEF earlier
  <2> QED BY <2>3
<1>11. InOrderOfTime(S) =
         [i \in 1..n |-> CHOOSE r \in S : Cardinality(earlier(r)) = i - 1]
  BY DEF InOrderOfTime
<1>12. InOrderOfTime(S) \in [1..n -> S]
  <2> HIDE DEF n, earlier
  <2> QED BY <1>10, <1>11
<1>13. ASSUME NEW r \in S
       PROVE  \E k \in 1..n : InOrderOfTime(S)[k] = r
  <2> DEFINE k == Cardinality(earlier(r)) + 1
             q == CHOOSE x \in S : Cardinality(earlier(x)) = k - 1
  <2>1. k \in 1..n /\ k - 1 = Cardinality(earlier(r))
    <3> HIDE DEF n, earlier
    <3> QED BY <1>2, <1>4
  <2>2. q \in S /\ Cardinality(earlier(q)) = k - 1
    <3> HIDE DEF n, earlier, k
    <3> QED BY <2>1
  <2>3. q = r
    <3> HIDE DEF n, earlier, k, q
    <3> QED BY <1>5, <1>6, <2>1, <2>2
  <2>4. InOrderOfTime(S)[k] = q
    <3> HIDE DEF n, earlier, k
    <3> QED BY <1>11, <2>1
  <2> HIDE DEF k, q
  <2> QED BY <2>1, <2>3, <2>4
<1> HIDE DEF n, earlier
<1> QED BY <1>2, <1>12, <1>13 DEF Range

-----------------------------------------------------------------------------
(* Documents *)

Sound(c) ==
    /\ {"id", "src", "sin", "dur", "tin", "group"} \subseteq DOMAIN c
    /\ c.id \in Int /\ c.sin \in Int /\ c.dur \in Int

Same(b, c) ==
    b.id = c.id /\ b.src = c.src /\ b.sin = c.sin /\ b.dur = c.dur /\ b.group = c.group

\* The clips of a track, with identifiers drawn before next.
ListOK(cs, next) ==
    /\ cs \in Seq(Range(cs))
    /\ \A i \in DOMAIN cs : Sound(cs[i]) /\ cs[i].id < next

Unique(d) ==
    \A t, u \in DOMAIN d.tracks :
        \A i \in DOMAIN d.tracks[t].clips, j \in DOMAIN d.tracks[u].clips :
            d.tracks[t].clips[i].id = d.tracks[u].clips[j].id => t = u /\ i = j

TidyDoc(d) ==
    /\ "tracks" \in DOMAIN d /\ "next" \in DOMAIN d /\ d.next \in Int
    /\ IsFiniteSet(DOMAIN d.tracks)
    /\ \A t \in DOMAIN d.tracks :
           "clips" \in DOMAIN d.tracks[t] /\ ListOK(d.tracks[t].clips, d.next)
    /\ Unique(d)

LEMMA ClipsAre ==
    ASSUME NEW d
    PROVE  \A c : c \in Clips(d) <=>
               \E t \in DOMAIN d.tracks :
                   \E i \in DOMAIN d.tracks[t].clips : c = d.tracks[t].clips[i]
  BY DEF Clips, Range

LEMMA TidyIs ==
    ASSUME NEW d
    PROVE  Tidy(d) <=> TidyDoc(d)
<1>1. ASSUME Tidy(d) PROVE TidyDoc(d)
  <2>1. /\ "tracks" \in DOMAIN d /\ "next" \in DOMAIN d /\ d.next \in Int
        /\ IsFiniteSet(DOMAIN d.tracks) /\ Unique(d)
    BY <1>1 DEF Tidy, Unique
  <2>2. ASSUME NEW t \in DOMAIN d.tracks
        PROVE  "clips" \in DOMAIN d.tracks[t] /\ ListOK(d.tracks[t].clips, d.next)
    <3>1. /\ "clips" \in DOMAIN d.tracks[t]
          /\ d.tracks[t].clips \in Seq(Range(d.tracks[t].clips))
      BY <1>1 DEF Tidy
    <3>2. ASSUME NEW i \in DOMAIN d.tracks[t].clips
          PROVE  Sound(d.tracks[t].clips[i]) /\ d.tracks[t].clips[i].id < d.next
      <4>1. d.tracks[t].clips[i] \in Clips(d)
        BY ClipsAre
      <4> QED BY <1>1, <4>1 DEF Tidy, Sound
    <3> QED BY <3>1, <3>2 DEF ListOK
  <2> QED BY <2>1, <2>2 DEF TidyDoc
<1>2. ASSUME TidyDoc(d) PROVE Tidy(d)
  <2>1. ASSUME NEW c \in Clips(d)
        PROVE  /\ {"id", "src", "sin", "dur", "tin", "group"} \subseteq DOMAIN c
               /\ {c.id, c.sin, c.dur} \subseteq Int /\ c.id < d.next
    <3>1. PICK t \in DOMAIN d.tracks : \E i \in DOMAIN d.tracks[t].clips :
              c = d.tracks[t].clips[i]
      BY ClipsAre
    <3> QED BY <1>2, <3>1 DEF TidyDoc, ListOK, Sound
  <2>2. \A t \in DOMAIN d.tracks :
            /\ "clips" \in DOMAIN d.tracks[t]
            /\ d.tracks[t].clips \in Seq(Range(d.tracks[t].clips))
    BY <1>2 DEF TidyDoc, ListOK
  <2>3. /\ {"tracks", "next"} \subseteq DOMAIN d /\ d.next \in Int
        /\ IsFiniteSet(DOMAIN d.tracks) /\ Unique(d)
    BY <1>2 DEF TidyDoc
  <2> QED BY <2>1, <2>2, <2>3 DEF Tidy, Unique
<1> QED BY <1>1, <1>2

\* A clip is found at the one place that has its identifier.
LEMMA Found ==
    ASSUME NEW d, TidyDoc(d), NEW id \in ClipIds(d)
    PROVE  /\ FindTrackForClip(d, id) \in DOMAIN d.tracks
           /\ \E i \in DOMAIN d.tracks[FindTrackForClip(d, id)].clips :
                  d.tracks[FindTrackForClip(d, id)].clips[i] = FindClip(d, id)
           /\ FindClip(d, id) \in Clips(d) /\ FindClip(d, id).id = id
           /\ Sound(FindClip(d, id))
<1>1. FindClip(d, id) \in Clips(d) /\ FindClip(d, id).id = id
  <2>1. \E c \in Clips(d) : c.id = id
    BY DEF ClipIds
  <2> QED BY <2>1 DEF FindClip
<1>2. PICK u \in DOMAIN d.tracks : \E i \in DOMAIN d.tracks[u].clips :
          FindClip(d, id) = d.tracks[u].clips[i]
  BY <1>1, ClipsAre
<1>3. PICK i \in DOMAIN d.tracks[u].clips : FindClip(d, id) = d.tracks[u].clips[i]
  BY <1>2
<1> DEFINE t == FindTrackForClip(d, id)
<1>4. t \in DOMAIN d.tracks /\ \E c \in Range(d.tracks[t].clips) : c.id = id
  <2>1. \E c \in Range(d.tracks[u].clips) : c.id = id
    BY <1>1, <1>3 DEF Range
  <2> QED BY <2>1 DEF FindTrackForClip
<1>5. t = u
  <2>1. PICK j \in DOMAIN d.tracks[t].clips : d.tracks[t].clips[j].id = id
    BY <1>4 DEF Range
  <2> HIDE DEF t
  <2> QED BY <1>1, <1>3, <1>4, <2>1 DEF TidyDoc, Unique
<1>6. Sound(d.tracks[u].clips[i])
  BY DEF TidyDoc, ListOK
<1> HIDE DEF t
<1> QED BY <1>1, <1>3, <1>4, <1>5, <1>6 DEF t

LEMMA FoundAt ==
    ASSUME NEW d, TidyDoc(d), NEW t \in DOMAIN d.tracks,
           NEW i \in DOMAIN d.tracks[t].clips
    PROVE  /\ d.tracks[t].clips[i].id \in ClipIds(d)
           /\ FindClip(d, d.tracks[t].clips[i].id) = d.tracks[t].clips[i]
           /\ FindTrackForClip(d, d.tracks[t].clips[i].id) = t
<1> DEFINE c == d.tracks[t].clips[i]
           u == FindTrackForClip(d, c.id)
<1>1. c.id \in ClipIds(d)
  BY ClipsAre DEF ClipIds
<1>2. u \in DOMAIN d.tracks
  BY <1>1, Found
<1>3. PICK j \in DOMAIN d.tracks[u].clips : d.tracks[u].clips[j] = FindClip(d, c.id)
  BY <1>1, Found
<1>4. d.tracks[u].clips[j].id = c.id
  BY <1>1, <1>3, Found
<1>5. u = t /\ j = i
  <2> HIDE DEF u
  <2> QED BY <1>2, <1>4 DEF TidyDoc, Unique
<1> QED BY <1>1, <1>3, <1>5

LEMMA ClipsFinite ==
    ASSUME NEW d, TidyDoc(d)
    PROVE  IsFiniteSet(Clips(d))
<1> DEFINE lists == {Range(d.tracks[t].clips) : t \in DOMAIN d.tracks}
           f == [t \in DOMAIN d.tracks |-> Range(d.tracks[t].clips)]
<1>1. IsFiniteSet(lists)
  <2>1. f \in Surjection(DOMAIN d.tracks, lists)
    BY DEF Surjection
  <2>2. IsFiniteSet(DOMAIN d.tracks)
    BY DEF TidyDoc
  <2> HIDE DEF f, lists
  <2> QED BY <2>1, <2>2, FS_Surjection
<1>2. ASSUME NEW t \in DOMAIN d.tracks
      PROVE  IsFiniteSet(Range(d.tracks[t].clips))
  <2> DEFINE cs == d.tracks[t].clips
  <2>1. cs \in Seq(Range(cs))
    BY DEF TidyDoc, ListOK
  <2> HIDE DEF cs
  <2>2. Len(cs) \in Nat /\ DOMAIN cs = 1..Len(cs) /\ cs \in [1..Len(cs) -> Range(cs)]
    BY <2>1
  <2>3. cs \in Surjection(1..Len(cs), Range(cs))
    BY <2>2 DEF Surjection, Range
  <2>4. IsFiniteSet(1..Len(cs))
    BY <2>2, FS_Interval
  <2>5. IsFiniteSet(Range(cs))
    BY <2>3, <2>4, FS_Surjection
  <2> QED BY <2>5 DEF cs
<1>3. \A R \in lists : IsFiniteSet(R)
  BY <1>2
<1>4. Clips(d) = UNION lists
  BY DEF Clips
<1> HIDE DEF lists
<1> QED BY <1>1, <1>3, <1>4, FS_UNION

LEMMA InOrderIs ==
    ASSUME NEW d, TidyDoc(d), NEW cs \in SUBSET Clips(d)
    PROVE  \E n \in Nat : DOMAIN InOrder(d, cs) = 1..n
                          /\ InOrder(d, cs) \in Seq(Range(InOrder(d, cs)))
<1>1. Cardinality(cs) \in Nat
  <2>1. IsFiniteSet(cs)
    BY ClipsFinite, FS_Subset
  <2> QED BY <2>1, FS_CardinalityType
<1> DEFINE n == Cardinality(cs)
           at(i) == (CHOOSE c \in cs : Cardinality({b \in cs :
                        \/ FindTrackForClip(d, b.id) < FindTrackForClip(d, c.id)
                        \/ FindTrackForClip(d, b.id) = FindTrackForClip(d, c.id)
                           /\ b.tin < c.tin}) = i - 1).id
           s == [i \in 1..n |-> at(i)]
<1>2. InOrder(d, cs) = s
  BY DEF InOrder
<1>3. DOMAIN s = 1..n /\ s = [i \in 1..n |-> s[i]]
  OBVIOUS
<1> HIDE DEF n, at, s
<1>4. s \in Seq(Range(s))
  <2>1. \A i \in 1..n : s[i] \in Range(s)
    BY <1>3 DEF Range
  <2>2. s \in [1..n -> Range(s)]
    BY <1>3, <2>1
  <2> QED BY <1>1, <2>2 DEF n
<1> QED BY <1>1, <1>2, <1>3, <1>4 DEF n

-----------------------------------------------------------------------------
(* Fragments of a clip *)

IsRanges(rs) ==
    /\ rs \in Seq(Range(rs))
    /\ \A i \in DOMAIN rs : rs[i].from \in Int /\ rs[i].to \in Int

NotEmpty(rs, c, j) == FragmentFrom(rs, c, j) < FragmentTo(rs, c, j)

\* The recursion of KeptFragments.
KeptIs(kept, rs, c, m) ==
    kept = [j \in 0..m |-> IF j = 0 THEN <<>>
                           ELSE IF NotEmpty(rs, c, j)
                           THEN Append(kept[j - 1], j) ELSE kept[j - 1]]

LEMMA KeptExists ==
    ASSUME NEW rs, NEW c, NEW m \in Nat
    PROVE  \E kept : KeptIs(kept, rs, c, m)
<1> DEFINE T == {n \in Nat : ~\E kept : KeptIs(kept, rs, c, n)}
<1>1. SUFFICES ASSUME T # {} PROVE FALSE
  OBVIOUS
<1>2. PICK k \in T : \A y \in T : k <= y
  <2>1. T \in SUBSET Nat
    OBVIOUS
  <2> HIDE DEF T
  <2> QED BY <1>1, <2>1, LeastOf
<1>3. k # 0
  <2>1. KeptIs([j \in 0..0 |-> <<>>], rs, c, 0)
    BY DEF KeptIs
  <2> QED BY <2>1
<1>4. k - 1 \in Nat /\ k - 1 \notin T
  BY <1>2, <1>3
<1>5. PICK r : KeptIs(r, rs, c, k - 1)
  BY <1>4
<1> DEFINE last == IF NotEmpty(rs, c, k) THEN Append(r[k - 1], k) ELSE r[k - 1]
           g == [j \in 0..k |-> IF j = k THEN last ELSE r[j]]
<1>6. \A j \in 0..k - 1 : r[j] = IF j = 0 THEN <<>>
                                 ELSE IF NotEmpty(rs, c, j)
                                 THEN Append(r[j - 1], j) ELSE r[j - 1]
  BY <1>4, <1>5 DEF KeptIs
<1>7. \A j \in 0..k : g[j] = IF j = 0 THEN <<>>
                             ELSE IF NotEmpty(rs, c, j)
                             THEN Append(g[j - 1], j) ELSE g[j - 1]
  BY <1>3, <1>4, <1>6
<1>8. KeptIs(g, rs, c, k)
  <2> HIDE DEF last
  <2>1. DOMAIN g = 0..k /\ g = [j \in 0..k |-> g[j]]
    OBVIOUS
  <2> HIDE DEF g
  <2> QED BY <1>7, <2>1 DEF KeptIs
<1> QED BY <1>2, <1>8

\* What KeptFragments has listed after m candidates.
Listed(q, rs, c, m) ==
    /\ q \in Seq(1..m) /\ Len(q) <= m
    /\ \A j \in 1..m : NotEmpty(rs, c, j) => \E k \in 1..Len(q) : q[k] = j

LEMMA ListedNext ==
    ASSUME NEW rs, NEW c, NEW m \in Nat, NEW q, Listed(q, rs, c, m),
           NEW p, p = IF NotEmpty(rs, c, m + 1) THEN Append(q, m + 1) ELSE q
    PROVE  Listed(p, rs, c, m + 1)
<1>1. q \in Seq(1..m) /\ Len(q) \in Nat /\ Len(q) <= m
  BY DEF Listed
<1>2. q \in Seq(1..m + 1)
  <2>1. 1..m \subseteq 1..m + 1
    OBVIOUS
  <2> QED BY <1>1, <2>1
<1>3. CASE NotEmpty(rs, c, m + 1)
  <2>1. p = Append(q, m + 1)
    BY <1>3
  <2>2. /\ p \in Seq(1..m + 1) /\ Len(p) = Len(q) + 1
        /\ \A k \in 1..Len(q) : p[k] = q[k]
        /\ p[Len(q) + 1] = m + 1
    <3> DEFINE e == m + 1
               S == 1..e
    <3>1. q \in Seq(S) /\ e \in S
      BY <1>2
    <3>2. p = Append(q, e)
      BY <2>1
    <3> HIDE DEF e, S
    <3>3. /\ p \in Seq(S) /\ Len(p) = Len(q) + 1
          /\ \A k \in 1..Len(q) : p[k] = q[k]
          /\ p[Len(q) + 1] = e
      BY <3>1, <3>2
    <3> QED BY <3>3 DEF e, S
  <2>3. ASSUME NEW j \in 1..m + 1, NotEmpty(rs, c, j)
        PROVE  \E k \in 1..Len(p) : p[k] = j
    <3>1. CASE j = m + 1
      BY <1>1, <2>2, <3>1
    <3>2. CASE j \in 1..m
      <4>1. PICK k \in 1..Len(q) : q[k] = j
        BY <2>3, <3>2 DEF Listed
      <4> QED BY <1>1, <2>2, <4>1
    <3> QED BY <3>1, <3>2
  <2> QED BY <1>1, <2>2, <2>3 DEF Listed
<1>4. CASE ~NotEmpty(rs, c, m + 1)
  <2>1. p = q
    BY <1>4
  <2>2. ASSUME NEW j \in 1..m + 1, NotEmpty(rs, c, j)
        PROVE  \E k \in 1..Len(p) : p[k] = j
    <3>1. j \in 1..m
      BY <1>4, <2>2
    <3> QED BY <2>1, <2>2, <3>1 DEF Listed
  <2> QED BY <1>1, <1>2, <2>1, <2>2 DEF Listed
<1> QED BY <1>3, <1>4

LEMMA KeptFragmentsAre ==
    ASSUME NEW rs, Len(rs) \in Nat, NEW c
    PROVE  Listed(KeptFragments(rs, c), rs, c, Len(rs) + 1)
<1> DEFINE m == Len(rs) + 1
           kept == CHOOSE r : KeptIs(r, rs, c, m)
<1>1. m \in Nat
  OBVIOUS
<1>2. KeptIs(kept, rs, c, m)
  <2> HIDE DEF m
  <2> QED BY <1>1, KeptExists
<1>3. KeptFragments(rs, c) = kept[m]
  BY DEF KeptFragments, KeptIs, NotEmpty
<1> HIDE DEF kept, m
<1>4. \A j \in 0..m : kept[j] = IF j = 0 THEN <<>>
                                ELSE IF NotEmpty(rs, c, j)
                                THEN Append(kept[j - 1], j) ELSE kept[j - 1]
  BY <1>1, <1>2 DEF KeptIs
<1> DEFINE T == {n \in Nat : n <= m /\ ~Listed(kept[n], rs, c, n)}
<1>5. T = {}
  <2>1. SUFFICES ASSUME T # {} PROVE FALSE
    OBVIOUS
  <2>2. PICK k \in T : \A y \in T : k <= y
    <3>1. T \in SUBSET Nat
      OBVIOUS
    <3> HIDE DEF T
    <3> QED BY <2>1, <3>1, LeastOf
  <2>3. k # 0
    <3>1. kept[0] = <<>>
      BY <1>1, <1>4
    <3>2. Listed(<<>>, rs, c, 0)
      <4>1. <<>> \in Seq(1..0)
        OBVIOUS
      <4>2. Len(<<>>) = 0
        OBVIOUS
      <4> QED BY <4>1, <4>2 DEF Listed
    <3> QED BY <2>2, <3>1, <3>2
  <2>4. k - 1 \in Nat /\ Listed(kept[k - 1], rs, c, k - 1)
    BY <1>1, <2>2, <2>3
  <2>5. kept[k] = IF NotEmpty(rs, c, k) THEN Append(kept[k - 1], k) ELSE kept[k - 1]
    BY <1>1, <1>4, <2>3
  <2>6. k = (k - 1) + 1
    BY <2>2
  <2>7. Listed(kept[k], rs, c, k)
    <3> DEFINE i == k - 1
    <3>1. i \in Nat /\ k = i + 1 /\ Listed(kept[i], rs, c, i)
      BY <2>4, <2>6
    <3>2. kept[i + 1] = IF NotEmpty(rs, c, i + 1) THEN Append(kept[i], i + 1) ELSE kept[i]
      BY <2>5, <3>1
    <3> HIDE DEF i
    <3> QED BY <3>1, <3>2, ListedNext
  <2> QED BY <2>2, <2>7
<1>6. m \notin T
  BY <1>5
<1> QED BY <1>1, <1>3, <1>6 DEF m

\* A frame of the clip outside of all ranges is in a fragment.
LEMMA FrameInFragment ==
    ASSUME NEW rs, IsRanges(rs), NEW c, Sound(c),
           NEW f \in c.sin..c.sin + c.dur - 1,
           \A i \in DOMAIN rs : f \notin rs[i].from..rs[i].to - 1
    PROVE  \E j \in 1..Len(rs) + 1 : FragmentFrom(rs, c, j) <= f /\ f < FragmentTo(rs, c, j)
<1> DEFINE n == Len(rs)
           T == {j \in Nat : j \in 1..n + 1 /\ f < FragmentTo(rs, c, j)}
<1>1. n \in Nat /\ DOMAIN rs = 1..n /\ c.sin \in Int /\ c.dur \in Int
  BY DEF IsRanges, Sound
<1>2. n + 1 \in T
  BY <1>1 DEF FragmentTo
<1>3. PICK j \in T : \A y \in T : j <= y
  <2>1. T \in SUBSET Nat
    OBVIOUS
  <2> HIDE DEF T
  <2> QED BY <1>2, <2>1, LeastOf
<1>4. j \in 1..n + 1 /\ f < FragmentTo(rs, c, j)
  BY <1>3
<1>5. CASE j = 1
  BY <1>1, <1>4, <1>5 DEF FragmentFrom
<1>6. CASE j # 1
  <2>1. j - 1 \in 1..n /\ j - 1 \notin T
    BY <1>1, <1>3, <1>4, <1>6
  <2>2. ~(f < FragmentTo(rs, c, j - 1))
    BY <1>1, <2>1
  <2>3. FragmentTo(rs, c, j - 1) = rs[j - 1].from /\ FragmentFrom(rs, c, j) = rs[j - 1].to
    BY <1>1, <1>4, <1>6, <2>1 DEF FragmentTo, FragmentFrom
  <2>4. rs[j - 1].from \in Int /\ rs[j - 1].to \in Int /\ f \notin rs[j - 1].from..rs[j - 1].to - 1
    BY <1>1, <2>1 DEF IsRanges
  <2>5. rs[j - 1].to <= f
    BY <2>2, <2>3, <2>4
  <2> QED BY <1>1, <1>4, <2>3, <2>5
<1> QED BY <1>5, <1>6

LEMMA FragmentBounds ==
    ASSUME NEW rs, IsRanges(rs), NEW c, Sound(c), NEW j \in 1..Len(rs) + 1
    PROVE  FragmentFrom(rs, c, j) \in Int /\ FragmentTo(rs, c, j) \in Int
<1>1. Len(rs) \in Nat /\ DOMAIN rs = 1..Len(rs) /\ c.sin \in Int /\ c.dur \in Int
  BY DEF IsRanges, Sound
<1>2. FragmentFrom(rs, c, j) \in Int
  <2>1. j # 1 => j - 1 \in DOMAIN rs
    BY <1>1
  <2> QED BY <1>1, <2>1 DEF FragmentFrom, IsRanges
<1>3. FragmentTo(rs, c, j) \in Int
  <2>1. j # Len(rs) + 1 => j \in DOMAIN rs
    BY <1>1
  <2> QED BY <1>1, <2>1 DEF FragmentTo, IsRanges
<1> QED BY <1>2, <1>3

\* The fragments: one per kept range of frames, the first with the identifier
\* of the clip and the others with identifiers drawn for them.
LEMMA FragmentsAre ==
    ASSUME NEW rs, IsRanges(rs), NEW c, Sound(c), NEW gap, NEW next \in Int
    PROVE  LET F == Fragments(rs, gap, c, next) IN
           /\ \E n \in Nat : n <= Len(rs) + 1 /\ DOMAIN F = 1..n
           /\ F \in Seq(Range(F))
           /\ \A k \in DOMAIN F : /\ Sound(F[k]) /\ F[k].src = c.src
                                  /\ F[k].id = IF k = 1 THEN c.id ELSE next + k - 1
           /\ \A f \in c.sin..c.sin + c.dur - 1 :
                  (\A i \in DOMAIN rs : f \notin rs[i].from..rs[i].to - 1) =>
                      \E k \in DOMAIN F : f \in F[k].sin..F[k].sin + F[k].dur - 1
<1> DEFINE F == Fragments(rs, gap, c, next)
           K == KeptFragments(rs, c)
           n == Len(K)
<1>1. Len(rs) \in Nat
  BY DEF IsRanges
<1>2. Listed(K, rs, c, Len(rs) + 1)
  BY <1>1, KeptFragmentsAre
<1> HIDE DEF K
<1>3. n \in Nat /\ n <= Len(rs) + 1 /\ \A k \in 1..n : K[k] \in 1..Len(rs) + 1
  BY <1>1, <1>2 DEF Listed
<1> HIDE DEF n
<1>4. \A k \in 1..n : FragmentFrom(rs, c, K[k]) \in Int /\ FragmentTo(rs, c, K[k]) \in Int
  BY <1>3, FragmentBounds
<1>5. ASSUME NEW k \in 1..n
      PROVE  /\ {"id", "src", "sin", "dur", "tin", "group"} \subseteq DOMAIN F[k]
             /\ F[k].src = c.src
             /\ F[k].id = IF k = 1 THEN c.id ELSE next + k - 1
             /\ F[k].sin = FragmentFrom(rs, c, K[k])
             /\ F[k].dur = FragmentTo(rs, c, K[k]) - FragmentFrom(rs, c, K[k])
  <2> DEFINE id == IF k = 1 THEN c.id ELSE next + k - 1
             sin == FragmentFrom(rs, c, K[k])
             dur == FragmentLength(rs, c, k)
             tin == c.tin + FragmentsBefore(rs, gap, c, k)
             fin == IF k = 1 THEN c.fin ELSE 0
             fout == IF k = Len(K) THEN c.fout ELSE 0
  <2>1. F[k] = [c EXCEPT !.id = id, !.sin = sin, !.dur = dur, !.tin = tin,
                         !.fin = fin, !.fout = fout]
    BY Zenon DEF Fragments, F, K, n
  <2>2. dur = FragmentTo(rs, c, K[k]) - FragmentFrom(rs, c, K[k])
    BY DEF FragmentLength, K
  <2>3. {"id", "src", "sin", "dur", "tin", "group"} \subseteq DOMAIN c
    BY DEF Sound
  <2> HIDE DEF id, sin, dur, tin, fin, fout, F
  <2>4. /\ DOMAIN F[k] = DOMAIN c /\ F[k].src = c.src /\ F[k].id = id
        /\ F[k].sin = sin /\ F[k].dur = dur
    BY <2>1, <2>3
  <2> QED BY <2>2, <2>3, <2>4 DEF id, sin
<1>6. DOMAIN F = 1..n /\ F \in Seq(Range(F))
  <2>1. DOMAIN F = 1..n /\ F = [k \in 1..n |-> F[k]]
    BY DEF Fragments, n, K
  <2> HIDE DEF F
  <2>2. F \in [1..n -> Range(F)]
    BY <2>1 DEF Range
  <2> QED BY <1>3, <2>1, <2>2
<1> HIDE DEF F
<1>7. ASSUME NEW k \in 1..n
      PROVE  /\ Sound(F[k]) /\ F[k].src = c.src
             /\ F[k].id = IF k = 1 THEN c.id ELSE next + k - 1
  <2>1. c.id \in Int /\ k \in Int
    BY DEF Sound
  <2>2. F[k].id \in Int
    BY <1>5, <2>1
  <2>3. F[k].sin \in Int /\ F[k].dur \in Int
    BY <1>4, <1>5
  <2> QED BY <1>5, <2>2, <2>3 DEF Sound
<1>8. ASSUME NEW f \in c.sin..c.sin + c.dur - 1,
             \A i \in DOMAIN rs : f \notin rs[i].from..rs[i].to - 1
      PROVE  \E k \in DOMAIN F : f \in F[k].sin..F[k].sin + F[k].dur - 1
  <2>1. PICK j \in 1..Len(rs) + 1 : FragmentFrom(rs, c, j) <= f /\ f < FragmentTo(rs, c, j)
    BY <1>8, FrameInFragment
  <2>2. f \in Int /\ FragmentFrom(rs, c, j) \in Int /\ FragmentTo(rs, c, j) \in Int
    <3>1. f \in Int
      BY DEF Sound
    <3> QED BY <3>1, FragmentBounds
  <2>3. NotEmpty(rs, c, j)
    BY <2>1, <2>2 DEF NotEmpty
  <2>4. PICK k \in 1..n : K[k] = j
    BY <1>2, <2>3 DEF Listed, n
  <2>5. F[k].sin = FragmentFrom(rs, c, j)
        /\ F[k].dur = FragmentTo(rs, c, j) - FragmentFrom(rs, c, j)
    BY <1>5, <2>4
  <2>6. f \in F[k].sin..F[k].sin + F[k].dur - 1
    BY <2>1, <2>2, <2>5
  <2> QED BY <1>6, <2>4, <2>6
<1>9. /\ \E m \in Nat : m <= Len(rs) + 1 /\ DOMAIN F = 1..m
      /\ F \in Seq(Range(F))
      /\ \A k \in DOMAIN F : /\ Sound(F[k]) /\ F[k].src = c.src
                             /\ F[k].id = IF k = 1 THEN c.id ELSE next + k - 1
      /\ \A f \in c.sin..c.sin + c.dur - 1 :
             (\A i \in DOMAIN rs : f \notin rs[i].from..rs[i].to - 1) =>
                 \E k \in DOMAIN F : f \in F[k].sin..F[k].sin + F[k].dur - 1
  BY <1>3, <1>6, <1>7, <1>8
<1> QED BY <1>9 DEF F

-----------------------------------------------------------------------------
(* Splicing the fragments in *)

\* The list s is cs with F in place of its element i and A in place of the
\* elements after it.
InPlaceOf(s, cs, i, F, A) ==
    /\ s \in Seq(Range(s)) /\ Len(s) = Len(cs) - 1 + Len(F)
    /\ \A p \in 1..Len(s) : s[p] = IF p < i THEN cs[p]
                                   ELSE IF p < i + Len(F) THEN F[p - i + 1]
                                   ELSE A[p - i - Len(F) + 1]

LEMMA Replaced ==
    ASSUME NEW S, NEW cs \in Seq(S), NEW i \in 1..Len(cs), NEW F \in Seq(S),
           NEW A \in Seq(S), Len(A) = Len(cs) - i
    PROVE  InPlaceOf(SubSeq(cs, 1, i - 1) \o F \o A, cs, i, F, A)
<1> DEFINE B == SubSeq(cs, 1, i - 1)
           BF == B \o F
           s == BF \o A
<1>1. i \in Nat /\ Len(cs) \in Nat /\ Len(F) \in Nat /\ Len(A) \in Nat
  OBVIOUS
<1>2. /\ B \in Seq(S) /\ Len(B) = i - 1
      /\ \A p \in 1..i - 1 : B[p] = cs[p]
  <2>1. \A p \in 1..i - 1 : cs[p] \in S
    OBVIOUS
  <2>2. /\ B \in Seq(S) /\ Len(B) = IF 1 <= i - 1 THEN i - 1 - 1 + 1 ELSE 0
        /\ \A p \in 1..i - 1 - 1 + 1 : B[p] = cs[1 + p - 1]
    <3>1. i - 1 \in Int
      BY <1>1
    <3> QED BY <2>1, <3>1, SubSeqProperties
  <2> HIDE DEF B
  <2> QED BY <1>1, <2>2
<1> HIDE DEF B
<1>3. /\ BF \in Seq(S) /\ Len(BF) = i - 1 + Len(F)
      /\ \A p \in 1..i - 1 + Len(F) : BF[p] = IF p <= i - 1 THEN B[p] ELSE F[p - (i - 1)]
  <2>1. /\ BF \in Seq(S) /\ Len(BF) = Len(B) + Len(F)
        /\ \A p \in 1..Len(B) + Len(F) : BF[p] = IF p <= Len(B) THEN B[p] ELSE F[p - Len(B)]
    BY <1>2, ConcatProperties
  <2> HIDE DEF BF
  <2> QED BY <1>2, <2>1
<1> HIDE DEF BF
<1>4. /\ s \in Seq(S) /\ Len(s) = Len(BF) + Len(A)
      /\ \A p \in 1..Len(BF) + Len(A) :
             s[p] = IF p <= Len(BF) THEN BF[p] ELSE A[p - Len(BF)]
  BY <1>3, ConcatProperties
<1>5. InPlaceOf(s, cs, i, F, A)
  <2> HIDE DEF s
  <2>1. Len(s) = Len(cs) - 1 + Len(F)
    BY <1>1, <1>3, <1>4
  <2>2. ASSUME NEW p \in 1..Len(s)
        PROVE  s[p] = IF p < i THEN cs[p]
                      ELSE IF p < i + Len(F) THEN F[p - i + 1]
                      ELSE A[p - i - Len(F) + 1]
    <3>1. p \in Nat /\ p >= 1 /\ p <= Len(cs) - 1 + Len(F)
      BY <1>1, <2>1
    <3>2. CASE p < i
      <4>1. p <= i - 1 /\ p \in 1..i - 1 /\ p \in 1..i - 1 + Len(F)
        BY <1>1, <3>1, <3>2
      <4>2. s[p] = BF[p]
        BY <1>1, <1>3, <1>4, <3>1, <3>2
      <4>3. BF[p] = B[p] /\ B[p] = cs[p]
        BY <1>2, <1>3, <4>1, Zenon
      <4> QED BY <3>2, <4>2, <4>3
    <3>3. CASE i <= p /\ p < i + Len(F)
      <4>1. s[p] = BF[p]
        BY <1>1, <1>3, <1>4, <3>1, <3>3
      <4>2. BF[p] = F[p - (i - 1)]
        BY <1>1, <1>3, <3>1, <3>3
      <4>3. ~(p < i) /\ p - (i - 1) = p - i + 1
        BY <1>1, <3>1, <3>3
      <4> QED BY <3>3, <4>1, <4>2, <4>3
    <3>4. CASE i + Len(F) <= p
      <4>1. s[p] = A[p - Len(BF)] /\ p - Len(BF) = p - i - Len(F) + 1
        BY <1>1, <1>3, <1>4, <3>1, <3>4
      <4>2. ~(p < i) /\ ~(p < i + Len(F))
        BY <1>1, <3>1, <3>4
      <4> QED BY <4>1, <4>2
    <3> QED BY <1>1, <3>1, <3>2, <3>3, <3>4
  <2>3. s \in Seq(Range(s))
    <3>1. Len(s) \in Nat /\ s \in [1..Len(s) -> S]
      BY <1>4
    <3>2. s \in [1..Len(s) -> Range(s)]
      BY <3>1 DEF Range
    <3> QED BY <3>1, <3>2
  <2> QED BY <2>1, <2>2, <2>3 DEF InPlaceOf
<1> QED BY <1>5 DEF s, BF, B

\* Moving a clip changes nothing else of it.
LEMMA Moved ==
    ASSUME NEW c, Sound(c), NEW v
    PROVE  Sound([c EXCEPT !.tin = v]) /\ Same([c EXCEPT !.tin = v], c)
  BY DEF Sound, Same

OwnIds(cs) == \A p, q \in DOMAIN cs : cs[p].id = cs[q].id => p = q

\* At most len + 1 fragments of c, with identifiers drawn from next on.
FragmentsOK(F, c, next, len) ==
    /\ F \in Seq(Range(F)) /\ Len(F) <= len + 1
    /\ \A k \in 1..Len(F) : /\ Sound(F[k])
                             /\ F[k].id = IF k = 1 THEN c.id ELSE next + k - 1

\* The clips of cs after place i, moved.
MovedOn(A, cs, i) ==
    \A j \in 1..Len(cs) - i : Sound(A[j]) /\ Same(A[j], cs[i + j])

\* The list of a track after a splice: what was before and after clip i keeps
\* its place in the order, and the fragments are between.
LEMMA SplicedList ==
    ASSUME NEW cs, NEW next \in Int, ListOK(cs, next), NEW i \in DOMAIN cs, OwnIds(cs),
           NEW c, cs[i].id = c.id, NEW len \in Nat,
           NEW F, FragmentsOK(F, c, next, len),
           NEW A, MovedOn(A, cs, i), NEW s, InPlaceOf(s, cs, i, F, A)
    PROVE  /\ ListOK(s, next + len + 1) /\ OwnIds(s)
           /\ \A p \in DOMAIN s : s[p].id >= next \/ \E q \in DOMAIN cs : s[p].id = cs[q].id
           /\ \A q \in DOMAIN cs \ {i} : \E p \in DOMAIN s : Same(s[p], cs[q])
           /\ \A k \in DOMAIN F : \E p \in DOMAIN s : s[p] = F[k]
<1> DEFINE n == Len(F)
           old(p) == p < i \/ p >= i + n
           at(p) == IF p < i THEN p ELSE p - n + 1
<1>1. Len(cs) \in Nat /\ DOMAIN cs = 1..Len(cs) /\ i \in Nat /\ i <= Len(cs) /\ i >= 1
  BY DEF ListOK
<1>2. /\ n \in Nat /\ n <= len + 1 /\ DOMAIN F = 1..n
      /\ \A k \in 1..n : /\ Sound(F[k])
                         /\ F[k].id = IF k = 1 THEN c.id ELSE next + k - 1
  BY DEF FragmentsOK
<1>6. \A j \in 1..Len(cs) - i : Sound(A[j]) /\ Same(A[j], cs[i + j])
  BY DEF MovedOn
<1> HIDE DEF n
<1>8. /\ Len(s) = Len(cs) - 1 + n
      /\ \A p \in 1..Len(s) : s[p] = IF p < i THEN cs[p]
                                     ELSE IF p < i + n THEN F[p - i + 1]
                                     ELSE A[p - i - n + 1]
  BY DEF InPlaceOf, n
<1>9. Len(s) \in Nat /\ DOMAIN s = 1..Len(s)
  BY DEF InPlaceOf
<1>10. ASSUME NEW p \in DOMAIN s, old(p)
       PROVE  at(p) \in DOMAIN cs \ {i} /\ Same(s[p], cs[at(p)]) /\ Sound(s[p])
  <2>1. p \in Nat /\ p >= 1 /\ p <= Len(cs) - 1 + n
    BY <1>8, <1>9
  <2>2. CASE p < i
    <3>1. s[p] = cs[p] /\ at(p) = p /\ p \in DOMAIN cs \ {i}
      BY <1>1, <1>8, <1>9, <2>1, <2>2
    <3> QED BY <3>1 DEF ListOK, Same
  <2>3. CASE p >= i + n
    <3> DEFINE j == p - i - n + 1
    <3>1. ~(p < i) /\ ~(p < i + n) /\ p \in 1..Len(s)
      BY <1>1, <1>2, <1>9, <2>1, <2>3
    <3>2. s[p] = A[j]
      BY <1>8, <3>1
    <3>3. j \in 1..Len(cs) - i /\ p - n + 1 = i + j /\ i + j \in 1..Len(cs) /\ i + j # i
      BY <1>1, <1>2, <2>1, <2>3
    <3>4. at(p) = i + j
      BY <3>1, <3>3
    <3> HIDE DEF j, at, old
    <3> QED BY <1>1, <1>6, <3>2, <3>3, <3>4
  <2> QED BY <1>10, <2>2, <2>3
<1>11. ASSUME NEW p \in DOMAIN s, ~old(p)
       PROVE  /\ p - i + 1 \in 1..n /\ s[p] = F[p - i + 1] /\ Sound(s[p])
              /\ s[p].id = IF p = i THEN c.id ELSE next + p - i
  <2>1. p \in Nat /\ p >= i /\ p < i + n
    BY <1>1, <1>2, <1>9, <1>11
  <2> DEFINE k == p - i + 1
  <2>2. k \in 1..n /\ s[p] = F[k] /\ (k = 1 <=> p = i) /\ next + k - 1 = next + p - i
    <3>1. ~(p < i) /\ p \in 1..Len(s)
      BY <1>1, <1>9, <2>1
    <3>2. s[p] = F[k]
      BY <1>8, <2>1, <3>1
    <3>3. k \in 1..n /\ (k = 1 <=> p = i) /\ next + k - 1 = next + p - i
      BY <1>1, <1>2, <2>1
    <3> QED BY <3>2, <3>3
  <2>3. Sound(F[k]) /\ F[k].id = IF k = 1 THEN c.id ELSE next + k - 1
    <3> HIDE DEF k
    <3> QED BY <1>2, <2>2
  <2> QED BY <2>2, <2>3
<1>12. \A q \in DOMAIN cs : cs[q].id \in Int /\ cs[q].id < next
  BY DEF ListOK, Sound
<1>13. ASSUME NEW p \in DOMAIN s
       PROVE  /\ Sound(s[p]) /\ s[p].id < next + len + 1
              /\ s[p].id >= next \/ \E q \in DOMAIN cs : s[p].id = cs[q].id
  <2>1. len \in Nat
    OBVIOUS
  <2>2. CASE old(p)
    <3>1. at(p) \in DOMAIN cs /\ s[p].id = cs[at(p)].id /\ Sound(s[p])
      BY <1>10, <2>2 DEF Same
    <3> HIDE DEF old, at
    <3> QED BY <1>12, <2>1, <3>1
  <2>3. CASE ~old(p)
    <3>1. CASE p = i
      <4>1. s[p].id = cs[i].id /\ Sound(s[p])
        BY <1>11, <2>3, <3>1
      <4> QED BY <1>12, <2>1, <4>1
    <3>2. CASE p # i
      <4>1. s[p].id = next + p - i /\ Sound(s[p])
        BY <1>11, <2>3, <3>2
      <4>2. p \in Nat /\ p > i /\ p < i + n
        BY <1>1, <1>2, <1>9, <2>3, <3>2
      <4> QED BY <1>1, <1>2, <2>1, <4>1, <4>2
    <3> QED BY <3>1, <3>2
  <2> QED BY <2>2, <2>3
<1>14. ASSUME NEW p \in DOMAIN s, NEW q \in DOMAIN s, s[p].id = s[q].id
       PROVE  p = q
  <2>1. p \in Nat /\ q \in Nat
    BY <1>9
  <2>2. CASE old(p) /\ old(q)
    <3>1. at(p) \in DOMAIN cs /\ at(q) \in DOMAIN cs /\ cs[at(p)].id = cs[at(q)].id
      BY <1>10, <1>14, <2>2 DEF Same
    <3>2. at(p) = at(q)
      <4> HIDE DEF at, old
      <4> QED BY <3>1 DEF OwnIds
    <3>3. at(p) # i /\ at(q) # i
      BY <1>10, <2>2
    <3> QED BY <1>1, <1>2, <2>1, <2>2, <3>2, <3>3
  <2>3. CASE ~old(p) /\ ~old(q)
    <3>1. /\ s[p].id = IF p = i THEN c.id ELSE next + p - i
          /\ s[q].id = IF q = i THEN c.id ELSE next + q - i
      BY <1>11, <2>3
    <3>2. c.id \in Int /\ c.id < next /\ p >= i /\ q >= i
      BY <1>1, <1>2, <1>12, <2>1, <2>3
    <3> HIDE DEF old
    <3>3. CASE p = i
      <4>1. next + q - i # c.id
        BY <1>1, <2>1, <3>2
      <4> QED BY <1>14, <3>1, <3>3, <4>1
    <3>4. CASE q = i
      <4>1. next + p - i # c.id
        BY <1>1, <2>1, <3>2
      <4> QED BY <1>14, <3>1, <3>4, <4>1
    <3>5. CASE p # i /\ q # i
      <4>1. next + p - i = next + q - i
        BY <1>14, <3>1, <3>5
      <4> QED BY <1>1, <2>1, <4>1
    <3> QED BY <3>3, <3>4, <3>5
  <2>4. ASSUME NEW x \in DOMAIN s, NEW y \in DOMAIN s, old(x), ~old(y)
        PROVE  s[x].id # s[y].id
    <3>1. at(x) \in DOMAIN cs \ {i} /\ s[x].id = cs[at(x)].id
      BY <1>10, <2>4 DEF Same
    <3>2. s[x].id # c.id /\ s[x].id \in Int /\ s[x].id < next
      <4> HIDE DEF at, old
      <4> QED BY <1>12, <3>1 DEF OwnIds
    <3>3. s[y].id = IF y = i THEN c.id ELSE next + y - i
      BY <1>11, <2>4
    <3>4. y \in Nat /\ y >= i
      BY <1>1, <1>2, <1>9, <2>4
    <3> HIDE DEF old, at
    <3> QED BY <1>1, <3>2, <3>3, <3>4
  <2> QED BY <1>14, <2>2, <2>3, <2>4
<1>15. ASSUME NEW q \in DOMAIN cs \ {i} PROVE \E p \in DOMAIN s : Same(s[p], cs[q])
  <2>1. CASE q < i
    <3>1. q \in DOMAIN s /\ old(q) /\ at(q) = q
      BY <1>1, <1>2, <1>8, <1>9, <2>1
    <3>2. Same(s[q], cs[at(q)])
      BY <1>10, <3>1
    <3> QED BY <3>1, <3>2
  <2>2. CASE q > i
    <3> DEFINE p == q + n - 1
    <3>1. p \in DOMAIN s /\ old(p) /\ at(p) = q
      BY <1>1, <1>2, <1>8, <1>9, <2>2
    <3> HIDE DEF p
    <3>2. Same(s[p], cs[at(p)])
      BY <1>10, <3>1
    <3> QED BY <3>1, <3>2
  <2> QED BY <1>1, <2>1, <2>2
<1>16. ASSUME NEW k \in DOMAIN F PROVE \E p \in DOMAIN s : s[p] = F[k]
  <2> DEFINE p == k + i - 1
  <2>1. p \in 1..Len(s) /\ ~(p < i) /\ p < i + n /\ p - i + 1 = k
    BY <1>1, <1>2, <1>8
  <2>2. s[p] = F[p - i + 1]
    BY <1>8, <2>1
  <2> HIDE DEF p
  <2> QED BY <1>9, <2>1, <2>2
<1>17. ListOK(s, next + len + 1)
  BY <1>13 DEF ListOK, InPlaceOf
<1>18. OwnIds(s)
  BY <1>14 DEF OwnIds
<1> HIDE DEF old, at
<1> QED BY <1>13, <1>15, <1>16, <1>17, <1>18

Has(e, u, b) ==
    \E k \in DOMAIN e.tracks[u].clips : Same(e.tracks[u].clips[k], b)

Plays(e, u, src, f) ==
    \E k \in DOMAIN e.tracks[u].clips :
        LET x == e.tracks[u].clips[k]
        IN  x.src = src /\ f \in x.sin..x.sin + x.dur - 1

Outside(f, rs) == \A i \in DOMAIN rs : f \notin rs[i].from..rs[i].to - 1

\* Track t of e has the clips s, and identifiers up to next are drawn.
LEMMA WithClipsAre ==
    ASSUME NEW e, TidyDoc(e), NEW t \in DOMAIN e.tracks, NEW s, NEW n \in Nat,
           NEW g, g = WithClips(Drawn(e, n), t, s)
    PROVE  /\ DOMAIN g = DOMAIN e /\ g.next = e.next + n
           /\ DOMAIN g.tracks = DOMAIN e.tracks
           /\ DOMAIN g.tracks[t] = DOMAIN e.tracks[t] /\ g.tracks[t].clips = s
           /\ \A u \in DOMAIN e.tracks \ {t} : g.tracks[u] = e.tracks[u]
<1> DEFINE next == e.next + n
           tr == [e.tracks[t] EXCEPT !.clips = s]
           trs == [e.tracks EXCEPT ![t] = tr]
<1>1. "tracks" \in DOMAIN e /\ "next" \in DOMAIN e /\ "clips" \in DOMAIN e.tracks[t]
  BY DEF TidyDoc
<1>2. Drawn(e, n) = [e EXCEPT !.next = next]
  BY DEF Drawn
<1> DEFINE x == Drawn(e, n)
<1> HIDE DEF next
<1>3. x.tracks = e.tracks /\ DOMAIN x = DOMAIN e /\ x.next = next
  BY <1>1, <1>2
<1> HIDE DEF x
<1>4. g = [x EXCEPT !.tracks[t].clips = s]
  BY DEF WithClips, x
<1>5. g = [x EXCEPT !.tracks = [x.tracks EXCEPT ![t] = [x.tracks[t] EXCEPT !.clips = s]]]
  BY <1>4
<1>6. g = [x EXCEPT !.tracks = trs]
  BY <1>3, <1>5
<1>7. /\ DOMAIN tr = DOMAIN e.tracks[t] /\ tr.clips = s
  BY <1>1
<1> HIDE DEF tr
<1>8. /\ DOMAIN trs = DOMAIN e.tracks /\ trs[t] = tr
      /\ \A u \in DOMAIN e.tracks \ {t} : trs[u] = e.tracks[u]
  OBVIOUS
<1> HIDE DEF trs
<1>9. DOMAIN g = DOMAIN e /\ g.tracks = trs /\ g.next = next
  BY <1>1, <1>3, <1>6
<1> QED BY <1>7, <1>8, <1>9 DEF next

LEMMA SpliceIs ==
    ASSUME NEW d, NEW e, TidyDoc(d), TidyDoc(e), DOMAIN e.tracks = DOMAIN d.tracks,
           NEW id \in ClipIds(d), NEW rs, IsRanges(rs), NEW gap,
           Has(e, FindTrackForClip(d, id), FindClip(d, id)),
           NEW g, g = Splice(d, e, id, rs, gap)
    PROVE  /\ TidyDoc(g) /\ DOMAIN g.tracks = DOMAIN d.tracks
           /\ \A u \in DOMAIN d.tracks : \A j \in DOMAIN e.tracks[u].clips :
                  e.tracks[u].clips[j].id # id => Has(g, u, e.tracks[u].clips[j])
           /\ \A f \in FindClip(d, id).sin..SourceEnd(FindClip(d, id)) - 1 :
                  Outside(f, rs) =>
                      Plays(g, FindTrackForClip(d, id), FindClip(d, id).src, f)
<1> DEFINE c == FindClip(d, id)
           t == FindTrackForClip(d, id)
           cs == e.tracks[t].clips
           i == IndexOf(cs, id)
           F == Fragments(rs, gap, c, e.next)
           A == [j \in 1..Len(cs) - i |->
                    [cs[i + j] EXCEPT !.tin = @ + RemovedBy(rs, gap, c)]]
           s == SubSeq(cs, 1, i - 1) \o F \o A
           n == Len(rs)
<1>1. t \in DOMAIN e.tracks /\ Sound(c) /\ c.id = id
  BY Found
<1>2. n \in Nat /\ e.next \in Int /\ ListOK(cs, e.next) /\ OwnIds(cs)
  <2>1. n \in Nat
    BY DEF IsRanges
  <2>2. e.next \in Int /\ ListOK(cs, e.next)
    BY <1>1 DEF TidyDoc
  <2>3. OwnIds(cs)
    BY <1>1 DEF TidyDoc, Unique, OwnIds
  <2> QED BY <2>1, <2>2, <2>3
<1>3. i \in DOMAIN cs /\ cs[i].id = id
  <2>1. \E k \in DOMAIN cs : cs[k].id = id
    BY <1>1 DEF Has, Same
  <2> QED BY <2>1 DEF IndexOf
<1>4. g = WithClips(Drawn(e, n + 1), t, s)
  BY DEF Splice
<1> HIDE DEF c, t, cs, i
<1>5. /\ FragmentsOK(F, c, e.next, n)
      /\ \A k \in DOMAIN F : F[k].src = c.src
      /\ \A f \in c.sin..c.sin + c.dur - 1 :
             (\A k \in DOMAIN rs : f \notin rs[k].from..rs[k].to - 1) =>
                 \E k \in DOMAIN F : f \in F[k].sin..F[k].sin + F[k].dur - 1
  <2>1. /\ \E m \in Nat : m <= n + 1 /\ DOMAIN F = 1..m
        /\ F \in Seq(Range(F))
        /\ \A k \in DOMAIN F : /\ Sound(F[k]) /\ F[k].src = c.src
                               /\ F[k].id = IF k = 1 THEN c.id ELSE e.next + k - 1
        /\ \A f \in c.sin..c.sin + c.dur - 1 :
               (\A k \in DOMAIN rs : f \notin rs[k].from..rs[k].to - 1) =>
                   \E k \in DOMAIN F : f \in F[k].sin..F[k].sin + F[k].dur - 1
    BY <1>1, <1>2, FragmentsAre
  <2> HIDE DEF F, n
  <2>2. FragmentsOK(F, c, e.next, n)
    <3>1. Len(F) <= n + 1 /\ DOMAIN F = 1..Len(F)
      BY <2>1
    <3> QED BY <2>1, <3>1 DEF FragmentsOK
  <2> QED BY <2>1, <2>2
<1>6. MovedOn(A, cs, i) /\ A \in Seq(Range(A)) /\ Len(A) = Len(cs) - i
  <2> DEFINE tin(j) == cs[i + j].tin + RemovedBy(rs, gap, c)
  <2>1. Len(cs) \in Nat /\ DOMAIN cs = 1..Len(cs) /\ i \in 1..Len(cs)
    BY <1>2, <1>3 DEF ListOK
  <2>2. \A j \in 1..Len(cs) - i : A[j] = [cs[i + j] EXCEPT !.tin = tin(j)]
    OBVIOUS
  <2>3. DOMAIN A = 1..Len(cs) - i /\ A = [j \in 1..Len(cs) - i |-> A[j]]
    OBVIOUS
  <2> HIDE DEF A, tin
  <2>4. \A j \in 1..Len(cs) - i : Sound(A[j]) /\ Same(A[j], cs[i + j])
    <3>1. SUFFICES ASSUME NEW j \in 1..Len(cs) - i
                   PROVE  Sound(A[j]) /\ Same(A[j], cs[i + j])
      OBVIOUS
    <3>2. i + j \in DOMAIN cs
      BY <2>1
    <3>3. Sound(cs[i + j])
      BY <1>2, <3>2 DEF ListOK
    <3> DEFINE b == cs[i + j]
               v == tin(j)
    <3>4. A[j] = [b EXCEPT !.tin = v] /\ Sound(b)
      BY <2>2, <3>3
    <3> HIDE DEF b, v
    <3>5. Sound(A[j]) /\ Same(A[j], b)
      BY <3>4, Moved
    <3> QED BY <3>5 DEF b
  <2>5. A \in [1..Len(cs) - i -> Range(A)]
    BY <2>3 DEF Range
  <2>6. Len(cs) - i \in Nat
    BY <2>1
  <2>7. A \in Seq(Range(A)) /\ Len(A) = Len(cs) - i
    BY <2>5, <2>6
  <2> QED BY <2>4, <2>7 DEF MovedOn
<1> HIDE DEF F, A, n
<1>7. InPlaceOf(s, cs, i, F, A)
  <2> DEFINE S == Range(cs) \cup Range(F) \cup Range(A)
  <2>1. cs \in Seq(Range(cs)) /\ F \in Seq(Range(F))
    BY <1>2, <1>5 DEF ListOK, FragmentsOK
  <2>2. cs \in Seq(S) /\ F \in Seq(S) /\ A \in Seq(S) /\ i \in 1..Len(cs)
    BY <1>3, <1>6, <2>1
  <2> HIDE DEF S
  <2> QED BY <1>6, <2>2, Replaced
<1> HIDE DEF s
<1>8. /\ ListOK(s, e.next + n + 1) /\ OwnIds(s)
      /\ \A p \in DOMAIN s : s[p].id >= e.next \/ \E q \in DOMAIN cs : s[p].id = cs[q].id
      /\ \A q \in DOMAIN cs \ {i} : \E p \in DOMAIN s : Same(s[p], cs[q])
      /\ \A k \in DOMAIN F : \E p \in DOMAIN s : s[p] = F[k]
  BY <1>1, <1>2, <1>3, <1>5, <1>6, <1>7, SplicedList
<1>9. /\ DOMAIN g = DOMAIN e /\ g.next = e.next + n + 1
      /\ DOMAIN g.tracks = DOMAIN e.tracks
      /\ DOMAIN g.tracks[t] = DOMAIN e.tracks[t] /\ g.tracks[t].clips = s
      /\ \A u \in DOMAIN e.tracks \ {t} : g.tracks[u] = e.tracks[u]
  <2> DEFINE m == n + 1
  <2>1. m \in Nat /\ e.next + m = e.next + n + 1
    BY <1>2
  <2> HIDE DEF m
  <2>2. g = WithClips(Drawn(e, m), t, s)
    BY <1>4 DEF m
  <2>3. /\ DOMAIN g = DOMAIN e /\ g.next = e.next + m
        /\ DOMAIN g.tracks = DOMAIN e.tracks
        /\ DOMAIN g.tracks[t] = DOMAIN e.tracks[t] /\ g.tracks[t].clips = s
        /\ \A u \in DOMAIN e.tracks \ {t} : g.tracks[u] = e.tracks[u]
    BY <1>1, <2>1, <2>2, WithClipsAre
  <2> QED BY <2>1, <2>3
<1>10. TidyDoc(g)
  <2>1. /\ "tracks" \in DOMAIN g /\ "next" \in DOMAIN g /\ g.next \in Int
        /\ IsFiniteSet(DOMAIN g.tracks)
    BY <1>2, <1>9 DEF TidyDoc
  <2>2. ASSUME NEW u \in DOMAIN g.tracks
        PROVE  "clips" \in DOMAIN g.tracks[u] /\ ListOK(g.tracks[u].clips, g.next)
    <3>1. CASE u = t
      BY <1>1, <1>8, <1>9, <3>1 DEF TidyDoc
    <3>2. CASE u # t
      <4>1. g.tracks[u] = e.tracks[u] /\ u \in DOMAIN e.tracks
        BY <1>9, <3>2
      <4>2. "clips" \in DOMAIN e.tracks[u] /\ ListOK(e.tracks[u].clips, e.next)
        BY <4>1 DEF TidyDoc
      <4>3. ListOK(e.tracks[u].clips, g.next)
        BY <1>2, <1>9, <4>2 DEF ListOK, Sound
      <4> QED BY <4>1, <4>2, <4>3
    <3> QED BY <3>1, <3>2
  <2>3. ASSUME NEW u \in DOMAIN e.tracks \ {t}, NEW j \in DOMAIN g.tracks[u].clips,
               NEW p \in DOMAIN s
        PROVE  g.tracks[u].clips[j].id # s[p].id
    <3>1. j \in DOMAIN e.tracks[u].clips /\ g.tracks[u].clips[j] = e.tracks[u].clips[j]
      BY <1>9
    <3>2. e.tracks[u].clips[j].id \in Int /\ e.tracks[u].clips[j].id < e.next
      BY <3>1 DEF TidyDoc, ListOK, Sound
    <3>3. CASE s[p].id >= e.next
      <4>1. s[p].id \in Int
        BY <1>8 DEF ListOK, Sound
      <4> QED BY <1>2, <3>1, <3>2, <3>3, <4>1
    <3>4. CASE \E q \in DOMAIN cs : s[p].id = cs[q].id
      <4>1. PICK q \in DOMAIN cs : s[p].id = cs[q].id
        BY <3>4
      <4>2. e.tracks[u].clips[j].id # cs[q].id
        BY <1>1, <3>1, <4>1 DEF TidyDoc, Unique, cs
      <4> QED BY <3>1, <4>1, <4>2
    <3> QED BY <1>8, <3>3, <3>4
  <2>4. Unique(g)
    <3>1. SUFFICES ASSUME NEW u \in DOMAIN g.tracks, NEW v \in DOMAIN g.tracks,
                          NEW p \in DOMAIN g.tracks[u].clips,
                          NEW q \in DOMAIN g.tracks[v].clips,
                          g.tracks[u].clips[p].id = g.tracks[v].clips[q].id
                   PROVE  u = v /\ p = q
      BY DEF Unique
    <3>2. CASE u = t /\ v = t
      BY <1>8, <1>9, <3>1, <3>2 DEF OwnIds
    <3>3. CASE u = t /\ v # t
      BY <1>9, <2>3, <3>1, <3>3
    <3>4. CASE u # t /\ v = t
      BY <1>9, <2>3, <3>1, <3>4
    <3>5. CASE u # t /\ v # t
      <4>1. g.tracks[u] = e.tracks[u] /\ g.tracks[v] = e.tracks[v]
        BY <1>9, <3>5
      <4> QED BY <1>9, <3>1, <4>1 DEF TidyDoc, Unique
    <3> QED BY <3>2, <3>3, <3>4, <3>5
  <2> QED BY <2>1, <2>2, <2>4 DEF TidyDoc
<1>11. ASSUME NEW u \in DOMAIN d.tracks, NEW j \in DOMAIN e.tracks[u].clips,
              e.tracks[u].clips[j].id # id
       PROVE  Has(g, u, e.tracks[u].clips[j])
  <2>1. CASE u = t
    <3>1. j \in DOMAIN cs \ {i} /\ e.tracks[u].clips[j] = cs[j]
      BY <1>3, <1>11, <2>1 DEF cs
    <3>2. PICK p \in DOMAIN s : Same(s[p], cs[j])
      BY <1>8, <3>1
    <3> QED BY <1>9, <2>1, <3>1, <3>2 DEF Has
  <2>2. CASE u # t
    <3>1. g.tracks[u] = e.tracks[u]
      BY <1>9, <2>2
    <3> QED BY <3>1 DEF Has, Same
  <2> QED BY <2>1, <2>2
<1>12. ASSUME NEW f, f \in c.sin..SourceEnd(c) - 1, Outside(f, rs)
       PROVE  Plays(g, t, c.src, f)
  <2>1. PICK k \in DOMAIN F : f \in F[k].sin..F[k].sin + F[k].dur - 1
    <3>1. f \in c.sin..c.sin + c.dur - 1
      <4>1. SourceEnd(c) = c.sin + c.dur
        BY DEF SourceEnd
      <4>2. c.sin \in Int /\ c.dur \in Int
        BY <1>1 DEF Sound
      <4>3. f \in c.sin..SourceEnd(c) - 1
        BY <1>12
      <4> QED BY <4>1, <4>2, <4>3
    <3>2. \A k \in DOMAIN rs : f \notin rs[k].from..rs[k].to - 1
      BY <1>12 DEF Outside
    <3> QED BY <1>5, <3>1, <3>2, Zenon
  <2>2. PICK p \in DOMAIN s : s[p] = F[k]
    BY <1>8
  <2> QED BY <1>5, <1>9, <2>1, <2>2 DEF Plays
<1> QED BY <1>9, <1>10, <1>11, <1>12 DEF c, t

\* On the way from d to e, the clips of d with an identifier in L are where
\* they were, and every frame outside of the ranges is played where it was.
Carried(d, e, L, rs) ==
    /\ TidyDoc(e) /\ DOMAIN e.tracks = DOMAIN d.tracks
    /\ \A u \in DOMAIN d.tracks : \A j \in DOMAIN d.tracks[u].clips :
           d.tracks[u].clips[j].id \in L => Has(e, u, d.tracks[u].clips[j])
    /\ \A u \in DOMAIN d.tracks : \A src, f :
           Plays(d, u, src, f) /\ Outside(f, rs) => Plays(e, u, src, f)

LEMMA CarriedFirst ==
    ASSUME NEW d, TidyDoc(d), NEW L, NEW rs
    PROVE  Carried(d, d, L, rs)
  BY DEF Carried, Has, Same

LEMMA CarriedNext ==
    ASSUME NEW d, TidyDoc(d), NEW e, NEW L, NEW rs, IsRanges(rs), Carried(d, e, L, rs),
           NEW id \in L, id \in ClipIds(d), NEW gap
    PROVE  Carried(d, Splice(d, e, id, rs, gap), L \ {id}, rs)
<1> DEFINE g == Splice(d, e, id, rs, gap)
           c == FindClip(d, id)
           t == FindTrackForClip(d, id)
<1>1. TidyDoc(e) /\ DOMAIN e.tracks = DOMAIN d.tracks
  BY DEF Carried
<1>2. /\ t \in DOMAIN d.tracks /\ c.id = id /\ Sound(c)
      /\ \E i \in DOMAIN d.tracks[t].clips : d.tracks[t].clips[i] = c
  BY Found
<1>3. Has(e, t, c)
  <2> HIDE DEF c, t
  <2> QED BY <1>2 DEF Carried
<1>4. /\ TidyDoc(g) /\ DOMAIN g.tracks = DOMAIN d.tracks
      /\ \A u \in DOMAIN d.tracks : \A j \in DOMAIN e.tracks[u].clips :
             e.tracks[u].clips[j].id # id => Has(g, u, e.tracks[u].clips[j])
      /\ \A f \in c.sin..SourceEnd(c) - 1 : Outside(f, rs) => Plays(g, t, c.src, f)
  BY <1>1, <1>3, SpliceIs
<1> HIDE DEF g, c, t
<1>5. ASSUME NEW u \in DOMAIN d.tracks, NEW j \in DOMAIN d.tracks[u].clips,
             d.tracks[u].clips[j].id \in L \ {id}
      PROVE  Has(g, u, d.tracks[u].clips[j])
  <2> DEFINE b == d.tracks[u].clips[j]
  <2>1. PICK k \in DOMAIN e.tracks[u].clips : Same(e.tracks[u].clips[k], b)
    BY <1>5 DEF Carried, Has
  <2>2. Has(g, u, e.tracks[u].clips[k])
    BY <1>4, <1>5, <2>1 DEF Same
  <2> HIDE DEF b
  <2>3. Has(g, u, b)
    BY <2>1, <2>2 DEF Has, Same
  <2> QED BY <2>3 DEF b
<1>6. ASSUME NEW u \in DOMAIN d.tracks, NEW src, NEW f, Plays(d, u, src, f), Outside(f, rs)
      PROVE  Plays(g, u, src, f)
  <2>1. Plays(e, u, src, f)
    BY <1>6 DEF Carried
  <2>2. PICK k \in DOMAIN e.tracks[u].clips :
            /\ e.tracks[u].clips[k].src = src
            /\ f \in e.tracks[u].clips[k].sin..
                     e.tracks[u].clips[k].sin + e.tracks[u].clips[k].dur - 1
    BY <2>1 DEF Plays
  <2> DEFINE x == e.tracks[u].clips[k]
  <2>3. CASE x.id # id
    <3>1. Has(g, u, x)
      BY <1>4, <2>3
    <3>2. PICK m \in DOMAIN g.tracks[u].clips : Same(g.tracks[u].clips[m], x)
      <4> HIDE DEF x
      <4> QED BY <3>1 DEF Has
    <3>3. x.src = src /\ f \in x.sin..x.sin + x.dur - 1
      BY <2>2
    <3> HIDE DEF x
    <3> DEFINE y == g.tracks[u].clips[m]
    <3>4. y.src = x.src /\ y.sin = x.sin /\ y.dur = x.dur
      BY <3>2 DEF Same
    <3> HIDE DEF y
    <3>5. y.src = src /\ f \in y.sin..y.sin + y.dur - 1
      BY <3>3, <3>4
    <3> QED BY <3>5 DEF Plays, y
  <2>4. CASE x.id = id
    <3>1. PICK m \in DOMAIN e.tracks[t].clips : Same(e.tracks[t].clips[m], c)
      BY <1>3 DEF Has
    <3>2. u = t /\ k = m
      BY <1>1, <1>2, <2>4, <3>1 DEF TidyDoc, Unique, Same
    <3>3. c.src = src /\ c.sin = x.sin /\ c.dur = x.dur
      BY <2>2, <3>1, <3>2 DEF Same
    <3>4. f \in x.sin..x.sin + x.dur - 1
      BY <2>2
    <3> HIDE DEF x
    <3>5. SourceEnd(c) = x.sin + x.dur
      BY <3>3 DEF SourceEnd
    <3>6. f \in c.sin..SourceEnd(c) - 1
      <4>1. c.sin \in Int /\ c.dur \in Int
        BY <1>2 DEF Sound
      <4> QED BY <3>3, <3>4, <3>5, <4>1
    <3>7. Plays(g, t, c.src, f)
      BY <1>4, <1>6, <3>6
    <3> QED BY <3>2, <3>3, <3>7
  <2> QED BY <2>3, <2>4
<1>7. Carried(d, g, L \ {id}, rs)
  BY <1>4, <1>5, <1>6 DEF Carried
<1> QED BY <1>7 DEF g

\* The recursion of SpliceAll.
SplicedIs(z, d, ids, rs, gap, m) ==
    z = [n \in 0..m |-> IF n = 0 THEN d ELSE Splice(d, z[n - 1], ids[n], rs, gap)]

LEMMA SplicedExists ==
    ASSUME NEW d, NEW ids, NEW rs, NEW gap, NEW m \in Nat
    PROVE  \E z : SplicedIs(z, d, ids, rs, gap, m)
<1> DEFINE T == {n \in Nat : ~\E z : SplicedIs(z, d, ids, rs, gap, n)}
<1>1. SUFFICES ASSUME T # {} PROVE FALSE
  OBVIOUS
<1>2. PICK k \in T : \A y \in T : k <= y
  <2>1. T \in SUBSET Nat
    OBVIOUS
  <2> HIDE DEF T
  <2> QED BY <1>1, <2>1, LeastOf
<1>3. k # 0
  <2>1. SplicedIs([n \in 0..0 |-> d], d, ids, rs, gap, 0)
    BY DEF SplicedIs
  <2> QED BY <2>1
<1>4. k - 1 \in Nat /\ k - 1 \notin T
  BY <1>2, <1>3
<1>5. PICK r : SplicedIs(r, d, ids, rs, gap, k - 1)
  BY <1>4
<1> DEFINE last == Splice(d, r[k - 1], ids[k], rs, gap)
           g == [n \in 0..k |-> IF n = k THEN last ELSE r[n]]
<1>6. \A n \in 0..k - 1 : r[n] = IF n = 0 THEN d ELSE Splice(d, r[n - 1], ids[n], rs, gap)
  BY <1>4, <1>5 DEF SplicedIs
<1>7. \A n \in 0..k : g[n] = IF n = 0 THEN d ELSE Splice(d, g[n - 1], ids[n], rs, gap)
  BY <1>3, <1>4, <1>6
<1>8. SplicedIs(g, d, ids, rs, gap, k)
  <2> HIDE DEF last
  <2>1. DOMAIN g = 0..k /\ g = [n \in 0..k |-> g[n]]
    OBVIOUS
  <2> HIDE DEF g
  <2> QED BY <1>7, <2>1 DEF SplicedIs
<1> QED BY <1>2, <1>8

LEMMA SpliceAllIs ==
    ASSUME NEW d, TidyDoc(d), NEW ids, ids \in Seq(ClipIds(d)), IsInjective(ids),
           NEW rs, IsRanges(rs), NEW gap
    PROVE  Carried(d, SpliceAll(d, ids, rs, gap), {}, rs)
<1> DEFINE len == Len(ids)
           z == CHOOSE y : SplicedIs(y, d, ids, rs, gap, len)
           L(n) == {ids[i] : i \in n + 1..len}
<1>1. len \in Nat /\ DOMAIN ids = 1..len
  OBVIOUS
<1>2. SplicedIs(z, d, ids, rs, gap, len)
  <2> HIDE DEF len
  <2> QED BY <1>1, SplicedExists
<1>3. SpliceAll(d, ids, rs, gap) = z[len]
  BY DEF SpliceAll, SplicedIs
<1> HIDE DEF z
<1>4. \A n \in 0..len : z[n] = IF n = 0 THEN d ELSE Splice(d, z[n - 1], ids[n], rs, gap)
  BY <1>1, <1>2 DEF SplicedIs
<1> DEFINE P(n) == Carried(d, z[n], L(n), rs)
           T == {n \in Nat : n <= len /\ ~P(n)}
<1>5. T = {}
  <2>1. SUFFICES ASSUME T # {} PROVE FALSE
    OBVIOUS
  <2>2. PICK k \in T : \A y \in T : k <= y
    <3>1. T \in SUBSET Nat
      OBVIOUS
    <3> HIDE DEF T
    <3> QED BY <2>1, <3>1, LeastOf
  <2>3. k # 0
    <3>1. z[0] = d
      BY <1>1, <1>4
    <3>2. Carried(d, d, L(0), rs)
      BY CarriedFirst
    <3> QED BY <2>2, <3>1, <3>2
  <2>4. k - 1 \in Nat /\ P(k - 1) /\ k \in 1..len
    <3> HIDE DEF P
    <3> QED BY <1>1, <2>2, <2>3
  <2> DEFINE e == z[k - 1]
             M == L(k - 1)
             id == ids[k]
  <2>5. Carried(d, e, M, rs)
    BY <2>4
  <2>6. z[k] = Splice(d, e, id, rs, gap)
    BY <1>1, <1>4, <2>4
  <2>7. id \in M /\ id \in ClipIds(d)
    BY <1>1, <2>4
  <2>8. L(k) = M \ {id}
    <3>1. \A i \in k + 1..len : i \in k - 1 + 1..len /\ ids[i] # id
      BY <1>1, <2>4 DEF IsInjective
    <3>2. \A i \in k - 1 + 1..len : i = k \/ i \in k + 1..len
      BY <1>1, <2>4
    <3> QED BY <3>1, <3>2
  <2> HIDE DEF e, M, id, L
  <2>9. Carried(d, z[k], L(k), rs)
    BY <2>5, <2>6, <2>7, <2>8, CarriedNext
  <2> QED BY <2>2, <2>9
<1>6. len \notin T
  BY <1>5
<1>7. L(len) = {}
  BY <1>1
<1>8. P(len)
  <2> HIDE DEF P
  <2> QED BY <1>1, <1>6
<1> HIDE DEF L, len
<1> QED BY <1>3, <1>7, <1>8

-----------------------------------------------------------------------------
(* Operations *)

\* The clips of a track may move and change their bounds, and none is lost.
KeepsList(cs, ds) ==
    /\ DOMAIN ds = DOMAIN cs /\ ds \in Seq(Range(ds))
    /\ \A i \in DOMAIN cs : Sound(ds[i]) /\ ds[i].id = cs[i].id

LEMMA WithTracksIs ==
    ASSUME NEW d, TidyDoc(d), NEW exact, NEW g, g = WithTracks(d, exact)
    PROVE  /\ DOMAIN g = DOMAIN d /\ g.next = d.next
           /\ DOMAIN g.tracks = DOMAIN d.tracks
           /\ \A t \in DOMAIN d.tracks : DOMAIN g.tracks[t] = DOMAIN d.tracks[t]
           /\ \A t \in DOMAIN d.tracks \cap DOMAIN exact : g.tracks[t].clips = exact[t]
           /\ \A t \in DOMAIN d.tracks \ DOMAIN exact : g.tracks[t] = d.tracks[t]
<1> DEFINE tr(t) == IF t \in DOMAIN exact THEN [d.tracks[t] EXCEPT !.clips = exact[t]]
                                          ELSE d.tracks[t]
           trs == [t \in DOMAIN d.tracks |-> tr(t)]
<1>1. "tracks" \in DOMAIN d /\ "next" \in DOMAIN d
      /\ \A t \in DOMAIN d.tracks : "clips" \in DOMAIN d.tracks[t]
  BY DEF TidyDoc
<1>2. g = [d EXCEPT !.tracks = trs]
  BY Zenon DEF WithTracks
<1>3. ASSUME NEW t \in DOMAIN d.tracks
      PROVE  /\ trs[t] = tr(t) /\ DOMAIN tr(t) = DOMAIN d.tracks[t]
             /\ t \in DOMAIN exact => tr(t).clips = exact[t]
             /\ t \notin DOMAIN exact => tr(t) = d.tracks[t]
  BY <1>1
<1>4. DOMAIN trs = DOMAIN d.tracks
  OBVIOUS
<1> HIDE DEF trs, tr
<1>5. DOMAIN g = DOMAIN d /\ g.tracks = trs /\ g.next = d.next
  BY <1>1, <1>2
<1> QED BY <1>3, <1>4, <1>5

LEMMA Retimed ==
    ASSUME NEW d, TidyDoc(d), NEW exact, NEW g, g = WithTracks(d, exact),
           \A t \in DOMAIN d.tracks \cap DOMAIN exact :
               KeepsList(d.tracks[t].clips, exact[t])
    PROVE  TidyDoc(g)
<1>1. /\ DOMAIN g = DOMAIN d /\ g.next = d.next
      /\ DOMAIN g.tracks = DOMAIN d.tracks
      /\ \A t \in DOMAIN d.tracks : DOMAIN g.tracks[t] = DOMAIN d.tracks[t]
      /\ \A t \in DOMAIN d.tracks \cap DOMAIN exact : g.tracks[t].clips = exact[t]
      /\ \A t \in DOMAIN d.tracks \ DOMAIN exact : g.tracks[t] = d.tracks[t]
  BY WithTracksIs
<1>2. ASSUME NEW t \in DOMAIN d.tracks
      PROVE  KeepsList(d.tracks[t].clips, g.tracks[t].clips)
  <2>1. CASE t \in DOMAIN exact
    BY <1>1, <2>1
  <2>2. CASE t \notin DOMAIN exact
    <3>1. g.tracks[t] = d.tracks[t]
      BY <1>1, <2>2
    <3> QED BY <3>1 DEF KeepsList, TidyDoc, ListOK
  <2> QED BY <2>1, <2>2
<1>3. ASSUME NEW t \in DOMAIN d.tracks
      PROVE  "clips" \in DOMAIN g.tracks[t] /\ ListOK(g.tracks[t].clips, g.next)
  <2>1. ListOK(d.tracks[t].clips, d.next) /\ "clips" \in DOMAIN d.tracks[t]
    BY DEF TidyDoc
  <2> QED BY <1>1, <1>2, <2>1 DEF KeepsList, ListOK
<1>4. Unique(g)
  <2>1. Unique(d)
    BY DEF TidyDoc
  <2> QED BY <1>1, <1>2, <2>1 DEF Unique, KeepsList
<1>5. /\ "tracks" \in DOMAIN g /\ "next" \in DOMAIN g /\ g.next \in Int
      /\ IsFiniteSet(DOMAIN g.tracks)
  BY <1>1 DEF TidyDoc
<1> QED BY <1>1, <1>3, <1>4, <1>5 DEF TidyDoc

LEMMA ShiftedList ==
    ASSUME NEW cs, NEW next, ListOK(cs, next), NEW at, NEW by
    PROVE  /\ KeepsList(cs, ShiftPositionsAtOrAfter(cs, at, by))
           /\ \A i \in DOMAIN cs : Same(ShiftPositionsAtOrAfter(cs, at, by)[i], cs[i])
<1> DEFINE ds == ShiftPositionsAtOrAfter(cs, at, by)
<1>1. DOMAIN ds = DOMAIN cs
  BY DEF ShiftPositionsAtOrAfter
<1>2. ASSUME NEW i \in DOMAIN cs PROVE Sound(ds[i]) /\ Same(ds[i], cs[i])
  <2> DEFINE v == cs[i].tin + by
             c == cs[i]
  <2>1. ds[i] = IF c.tin >= at THEN [c EXCEPT !.tin = v] ELSE c
    BY DEF ShiftPositionsAtOrAfter
  <2>2. Sound(c)
    BY DEF ListOK
  <2> HIDE DEF v, c, ds
  <2>3. Sound(ds[i]) /\ Same(ds[i], c)
    <3>1. CASE c.tin >= at
      BY <2>1, <2>2, <3>1, Moved
    <3>2. CASE ~(c.tin >= at)
      BY <2>1, <2>2, <3>2 DEF Same
    <3> QED BY <3>1, <3>2
  <2> QED BY <2>3 DEF c
<1>3. ds \in Seq(Range(ds))
  <2>1. ds = [i \in DOMAIN cs |-> ds[i]]
    BY DEF ShiftPositionsAtOrAfter
  <2> HIDE DEF ds
  <2>2. Len(cs) \in Nat /\ DOMAIN cs = 1..Len(cs)
    BY DEF ListOK
  <2>3. ds \in [1..Len(cs) -> Range(ds)]
    BY <1>1, <2>1, <2>2 DEF Range
  <2> QED BY <2>2, <2>3
<1> HIDE DEF ds
<1>4. KeepsList(cs, ds) /\ \A i \in DOMAIN cs : Same(ds[i], cs[i])
  BY <1>1, <1>2, <1>3 DEF KeepsList, Same
<1> QED BY <1>4 DEF ds

LEMMA Dispatched ==
    ASSUME NEW d, NEW op
    PROVE  /\ op.kind = "RemoveWords" => Dispatch(d, op) = ApplyRemoveWords(d, op)
           /\ op.kind = "RippleTrim" => Dispatch(d, op) = ApplyRippleTrim(d, op)
           /\ op.kind = "TrimBoundaryAir" => Dispatch(d, op) = ApplyTrimBoundaryAir(d, op)
  BY DEF Dispatch

LEMMA Accepted ==
    ASSUME NEW d, NEW op, ApplyOperation(d, op).ok
    PROVE  ApplyOperation(d, op) = Dispatch(d, op)
<1>1. ApplyOperation(d, op) # Refused
  BY DEF Refused
<1> QED BY <1>1 DEF ApplyOperation, ValidateResult

\* Cutting ranges out keeps every other frame where it was played.
LEMMA RemoveWordsIs ==
    ASSUME NEW d, TidyDoc(d), NEW op, op.kind = "RemoveWords", op.exact = Nothing,
           IsRanges(op.ranges), op.linked \in Seq(Range(op.linked)),
           ApplyOperation(d, op).ok
    PROVE  /\ TidyDoc(ApplyOperation(d, op).doc)
           /\ DOMAIN ApplyOperation(d, op).doc.tracks = DOMAIN d.tracks
           /\ \A u \in DOMAIN d.tracks : \A src, f :
                  Plays(d, u, src, f) /\ Outside(f, op.ranges) =>
                      Plays(ApplyOperation(d, op).doc, u, src, f)
<1> DEFINE ids == <<op.clip>> \o op.linked
           rs == op.ranges
           T == TracksOf(d, Range(ids))
           cut == SpliceAll(d, ids, rs, op.gap)
           anchor == FindClip(d, op.clip)
           at == End(anchor)
           by == RemovedBy(rs, op.gap, anchor)
           exact == [t \in op.sync \ T |->
                        ShiftPositionsAtOrAfter(cut.tracks[t].clips, at, by)]
           e == WithTracks(cut, exact)
<1>1. ApplyOperation(d, op) = ApplyRemoveWords(d, op)
  BY Accepted, Dispatched
<1>2. ~Recorded(op)
  BY DEF Recorded, Nothing
<1>3. /\ IsInjective(ids) /\ Range(ids) \subseteq ClipIds(d)
      /\ ApplyOperation(d, op) = Edited(d, e, T \cup op.sync, op)
  <2>1. ApplyRemoveWords(d, op) # Refused
    BY <1>1 DEF Refused
  <2> QED BY <1>1, <1>2, <2>1, Zenon DEF ApplyRemoveWords
<1>4. ApplyOperation(d, op).doc = e
  BY <1>3 DEF Edited, Result
<1> HIDE DEF e, at, by
<1>5. ids \in Seq(ClipIds(d))
  <2> DEFINE S == {op.clip} \cup Range(op.linked)
  <2>1. <<op.clip>> \in Seq(S) /\ op.linked \in Seq(S)
    OBVIOUS
  <2>2. ids \in Seq(S)
    <3> HIDE DEF S
    <3> QED BY <2>1, ConcatProperties
  <2> HIDE DEF ids
  <2>3. Len(ids) \in Nat /\ ids \in [1..Len(ids) -> S]
    BY <2>2
  <2>4. ids \in [1..Len(ids) -> ClipIds(d)]
    BY <1>3, <2>3 DEF Range
  <2> QED BY <2>3, <2>4
<1> HIDE DEF ids, T
<1>6. Carried(d, cut, {}, rs)
  BY <1>3, <1>5, SpliceAllIs
<1> HIDE DEF cut
<1>7. TidyDoc(cut) /\ DOMAIN cut.tracks = DOMAIN d.tracks
  BY <1>6 DEF Carried
<1>8. DOMAIN exact = op.sync \ T
      /\ \A t \in op.sync \ T :
             exact[t] = ShiftPositionsAtOrAfter(cut.tracks[t].clips, at, by)
  OBVIOUS
<1> HIDE DEF exact
<1>9. \A t \in DOMAIN cut.tracks \cap DOMAIN exact :
          /\ KeepsList(cut.tracks[t].clips, exact[t])
          /\ \A i \in DOMAIN cut.tracks[t].clips :
                 Same(exact[t][i], cut.tracks[t].clips[i])
  <2>1. SUFFICES ASSUME NEW t \in DOMAIN cut.tracks \cap DOMAIN exact
                 PROVE  /\ KeepsList(cut.tracks[t].clips, exact[t])
                        /\ \A i \in DOMAIN cut.tracks[t].clips :
                               Same(exact[t][i], cut.tracks[t].clips[i])
    OBVIOUS
  <2>2. ListOK(cut.tracks[t].clips, cut.next)
    BY <1>7 DEF TidyDoc
  <2>3. exact[t] = ShiftPositionsAtOrAfter(cut.tracks[t].clips, at, by)
    BY <1>8
  <2> QED BY <2>2, <2>3, ShiftedList
<1>10. /\ DOMAIN e.tracks = DOMAIN cut.tracks
       /\ \A t \in DOMAIN cut.tracks \cap DOMAIN exact : e.tracks[t].clips = exact[t]
       /\ \A t \in DOMAIN cut.tracks \ DOMAIN exact : e.tracks[t] = cut.tracks[t]
  BY <1>7, WithTracksIs DEF e
<1>11. TidyDoc(e)
  BY <1>7, <1>9, Retimed DEF e
<1>12. ASSUME NEW u \in DOMAIN d.tracks, NEW src, NEW f, Plays(d, u, src, f),
              Outside(f, rs)
       PROVE  Plays(e, u, src, f)
  <2>1. Plays(cut, u, src, f)
    BY <1>6, <1>12 DEF Carried
  <2>2. CASE u \in DOMAIN exact
    <3>1. PICK k \in DOMAIN cut.tracks[u].clips :
              /\ cut.tracks[u].clips[k].src = src
              /\ f \in cut.tracks[u].clips[k].sin..
                       cut.tracks[u].clips[k].sin + cut.tracks[u].clips[k].dur - 1
      BY <2>1 DEF Plays
    <3>2. /\ k \in DOMAIN e.tracks[u].clips
          /\ Same(e.tracks[u].clips[k], cut.tracks[u].clips[k])
      BY <1>7, <1>9, <1>10, <2>2, <3>1 DEF KeepsList
    <3> QED BY <3>1, <3>2 DEF Plays, Same
  <2>3. CASE u \notin DOMAIN exact
    <3>1. e.tracks[u] = cut.tracks[u]
      BY <1>7, <1>10, <2>3
    <3> QED BY <2>1, <3>1 DEF Plays
  <2> QED BY <2>2, <2>3
<1> QED BY <1>4, <1>7, <1>10, <1>11, <1>12

\* b is what a ripple trim makes of clip c, when it takes hold of it or not.
Retrimmed(b, c, hit, edge, delta) ==
    /\ b.id = c.id /\ b.group = c.group
    /\ b.sin = IF hit /\ edge = "head" THEN c.sin + delta ELSE c.sin
    /\ b.dur = IF ~hit THEN c.dur ELSE IF edge = "head" THEN c.dur - delta
                                                        ELSE c.dur + delta

LEMMA TrimmedIs ==
    ASSUME NEW c, Sound(c), NEW edge, NEW delta \in Int
    PROVE  /\ Sound([Trimmed(c, edge, delta, FALSE) EXCEPT !.tin = c.tin])
           /\ Retrimmed([Trimmed(c, edge, delta, FALSE) EXCEPT !.tin = c.tin], c, TRUE,
                        edge, delta)
<1> DEFINE x == Trimmed(c, edge, delta, FALSE)
           y == [x EXCEPT !.tin = c.tin]
<1>1. Sound(x) /\ Retrimmed(x, c, TRUE, edge, delta)
  <2> DEFINE sin == c.sin + delta
             less == c.dur - delta
             more == c.dur + delta
             tin == c.tin + delta
  <2>1. sin \in Int /\ less \in Int /\ more \in Int
    BY DEF Sound
  <2>2. x = IF edge = "head" THEN [c EXCEPT !.sin = sin, !.dur = less, !.tin = tin]
                             ELSE [c EXCEPT !.dur = more]
    BY DEF Trimmed
  <2>3. CASE edge = "head"
    <3>1. x = [c EXCEPT !.sin = sin, !.dur = less, !.tin = tin]
      BY <2>2, <2>3
    <3> HIDE DEF x, sin, less, more, tin
    <3>2. Sound(x) /\ x.id = c.id /\ x.group = c.group /\ x.sin = sin /\ x.dur = less
      BY <2>1, <3>1 DEF Sound
    <3> QED BY <2>3, <3>2 DEF Retrimmed, sin, less
  <2>4. CASE edge # "head"
    <3>1. x = [c EXCEPT !.dur = more]
      BY <2>2, <2>4
    <3> HIDE DEF x, sin, less, more, tin
    <3>2. Sound(x) /\ x.id = c.id /\ x.group = c.group /\ x.sin = c.sin /\ x.dur = more
      BY <2>1, <3>1 DEF Sound
    <3> QED BY <2>4, <3>2 DEF Retrimmed, more
  <2> QED BY <2>3, <2>4
<1> HIDE DEF x
<1>2. /\ Sound(y) /\ y.id = x.id /\ y.group = x.group /\ y.sin = x.sin /\ y.dur = x.dur
  BY <1>1 DEF Sound
<1> HIDE DEF y
<1>3. Sound(y) /\ Retrimmed(y, c, TRUE, edge, delta)
  BY <1>1, <1>2 DEF Retrimmed
<1> QED BY <1>3 DEF x, y

\* What a ripple trim that succeeds does to the clips, and what it asked of
\* the linked ones.
Rippled(d, e, op) ==
    /\ \A id \in ClipIds(d) :
           /\ id \in ClipIds(e)
           /\ Retrimmed(FindClip(e, id), FindClip(d, id),
                        id \in {op.clip} \cup Range(op.linked), op.edge, op.delta)
    /\ \A id \in Range(op.linked) \ {op.clip} :
           /\ FindClip(d, op.clip).group # None
           /\ FindClip(d, id).group = FindClip(d, op.clip).group

LEMMA RippleTrimEffect ==
    ASSUME NEW d, TidyDoc(d), NEW op, op.exact = Nothing, op.delta \in Int,
           ApplyRippleTrim(d, op).ok
    PROVE  /\ TidyDoc(ApplyRippleTrim(d, op).doc)
           /\ DOMAIN ApplyRippleTrim(d, op).doc.tracks = DOMAIN d.tracks
           /\ Rippled(d, ApplyRippleTrim(d, op).doc, op)
<1> DEFINE ids == {op.clip} \cup Range(op.linked)
           anchor == FindClip(d, op.clip)
           T == TracksOf(d, ids)
           at == IF op.edge = "head" THEN anchor.tin ELSE End(anchor)
           by == IF op.edge = "head" THEN -op.delta ELSE op.delta
           trimmed(c) == [Trimmed(c, op.edge, op.delta, FALSE) EXCEPT !.tin = c.tin]
           boundary(t) ==
               LET on == {i \in DOMAIN op.linked :
                       /\ op.linked[i] \notin {op.clip} \cup {op.linked[j] : j \in 1..i - 1}
                       /\ FindTrackForClip(d, op.linked[i]) = t}
               IN  End(FindClip(d, IF on = {} THEN op.clip ELSE op.linked[Max(on)]))
           rippled(t) ==
               [i \in DOMAIN d.tracks[t].clips |->
                   LET c == d.tracks[t].clips[i]
                   IN  IF c.id \in ids THEN trimmed(c)
                       ELSE IF c.tin >= boundary(t) THEN [c EXCEPT !.tin = @ + by]
                       ELSE c]
           exact == [t \in T \cup op.sync |->
                       IF t \in T THEN rippled(t)
                       ELSE ShiftPositionsAtOrAfter(d.tracks[t].clips, at, by)]
           e == WithTracks(d, exact)
<1>1. ~Recorded(op)
  BY DEF Recorded, Nothing
<1>2. ApplyRippleTrim(d, op) = Edited(d, e, T \cup op.sync, op)
  <2>1. ApplyRippleTrim(d, op) # Refused
    BY DEF Refused
  <2> QED BY <1>1, <2>1, Zenon DEF ApplyRippleTrim
<1>3. ApplyRippleTrim(d, op).doc = e
  <2>1. Edited(d, e, T \cup op.sync, op).doc = e
    <3> HIDE DEF e, T
    <3> QED BY DEF Edited, Result
  <2> HIDE DEF e, T
  <2> QED BY <1>2, <2>1
<1>4. ASSUME NEW t \in DOMAIN d.tracks
      PROVE  /\ KeepsList(d.tracks[t].clips, rippled(t))
             /\ \A i \in DOMAIN d.tracks[t].clips :
                    LET c == d.tracks[t].clips[i]
                    IN  Retrimmed(rippled(t)[i], c, c.id \in ids, op.edge, op.delta)
  <2> DEFINE cs == d.tracks[t].clips
             R == ids
             was(y, c) == Retrimmed(y, c, c.id \in R, op.edge, op.delta)
             b == boundary(t)
             item(i) == IF cs[i].id \in R THEN trimmed(cs[i])
                        ELSE IF cs[i].tin >= b THEN [cs[i] EXCEPT !.tin = @ + by]
                        ELSE cs[i]
             ds == [i \in DOMAIN cs |-> item(i)]
  <2>1. rippled(t) = ds
    BY Zenon
  <2> HIDE DEF ids, boundary, R, b, by
  <2>2. ListOK(cs, d.next)
    BY DEF TidyDoc
  <2>3. ASSUME NEW i \in DOMAIN cs PROVE Sound(ds[i]) /\ was(ds[i], cs[i])
    <3> DEFINE c == cs[i]
               v == c.tin + by
    <3>1. ds[i] = IF c.id \in R THEN trimmed(c)
                  ELSE IF c.tin >= b THEN [c EXCEPT !.tin = v] ELSE c
      BY Zenon
    <3>2. Sound(c)
      BY <2>2 DEF ListOK
    <3> HIDE DEF ds, cs, c, v, item
    <3>3. Sound(trimmed(c)) /\ Retrimmed(trimmed(c), c, TRUE, op.edge, op.delta)
      BY <3>2, TrimmedIs
    <3>4. Sound([c EXCEPT !.tin = v]) /\ Same([c EXCEPT !.tin = v], c) /\ Same(c, c)
      BY <3>2, Moved DEF Same
    <3> HIDE DEF trimmed
    <3>5. CASE c.id \in R
      BY <3>1, <3>3, <3>5 DEF c, Retrimmed
    <3>6. CASE c.id \notin R
      <4>1. Sound(ds[i]) /\ Same(ds[i], c)
        BY <3>1, <3>2, <3>4, <3>6
      <4> QED BY <3>6, <4>1 DEF c, Retrimmed, Same
    <3> QED BY <3>5, <3>6
  <2>4. DOMAIN ds = DOMAIN cs /\ ds = [i \in DOMAIN cs |-> ds[i]]
    OBVIOUS
  <2> HIDE DEF ds, cs
  <2>5. ds \in Seq(Range(ds))
    <3>1. Len(cs) \in Nat /\ DOMAIN cs = 1..Len(cs)
      BY <2>2 DEF ListOK
    <3>2. ds \in [1..Len(cs) -> Range(ds)]
      BY <2>4, <3>1 DEF Range
    <3> QED BY <3>1, <3>2
  <2>6. KeepsList(cs, ds)
    BY <2>3, <2>4, <2>5 DEF KeepsList, Retrimmed
  <2> QED BY <2>1, <2>3, <2>6 DEF cs, R
<1>5. ASSUME NEW t \in DOMAIN d.tracks
      PROVE  /\ KeepsList(d.tracks[t].clips,
                          ShiftPositionsAtOrAfter(d.tracks[t].clips, at, by))
             /\ \A i \in DOMAIN d.tracks[t].clips :
                    Same(ShiftPositionsAtOrAfter(d.tracks[t].clips, at, by)[i],
                         d.tracks[t].clips[i])
  <2>1. ListOK(d.tracks[t].clips, d.next)
    BY DEF TidyDoc
  <2> HIDE DEF at, by
  <2> QED BY <2>1, ShiftedList
<1>6. /\ ids \subseteq ClipIds(d)
      /\ \A i \in ids \ {op.clip} :
             anchor.group # None /\ FindClip(d, i).group = anchor.group
  <2>1. ApplyRippleTrim(d, op) # Refused
    BY DEF Refused
  <2> QED BY <1>1, <2>1, Zenon DEF ApplyRippleTrim
<1> HIDE DEF rippled, at, by
<1>7. \A t \in DOMAIN d.tracks \cap DOMAIN exact :
          KeepsList(d.tracks[t].clips, exact[t])
  BY <1>4, <1>5
<1>8. TidyDoc(e) /\ DOMAIN e.tracks = DOMAIN d.tracks
  <2> HIDE DEF exact
  <2> QED BY <1>7, Retimed, WithTracksIs
<1>9. ASSUME NEW id \in ClipIds(d)
      PROVE  /\ id \in ClipIds(e)
             /\ Retrimmed(FindClip(e, id), FindClip(d, id), id \in ids, op.edge, op.delta)
  <2> DEFINE t == FindTrackForClip(d, id)
             c == FindClip(d, id)
             was(y) == Retrimmed(y, c, id \in ids, op.edge, op.delta)
  <2>1. t \in DOMAIN d.tracks /\ c.id = id
    BY Found
  <2>2. PICK i \in DOMAIN d.tracks[t].clips : d.tracks[t].clips[i] = c
    BY Found
  <2>3. id \in ids => t \in T
    BY DEF TracksOf
  <2>4. DOMAIN e.tracks[t].clips = DOMAIN d.tracks[t].clips /\ was(e.tracks[t].clips[i])
    <3> HIDE DEF t, c, ids, T
    <3>1. CASE t \in T
      <4>1. e.tracks[t].clips = rippled(t)
        <5>1. t \in DOMAIN exact /\ exact[t] = rippled(t)
          BY <3>1
        <5> HIDE DEF exact
        <5> QED BY <2>1, <5>1, WithTracksIs
      <4>2. DOMAIN rippled(t) = DOMAIN d.tracks[t].clips
        BY <1>4, <2>1 DEF KeepsList
      <4>3. Retrimmed(rippled(t)[i], c, c.id \in ids, op.edge, op.delta)
        BY <1>4, <2>1, <2>2, Zenon
      <4> QED BY <2>1, <4>1, <4>2, <4>3
    <3>2. CASE t \notin T /\ t \in op.sync
      <4> DEFINE ds == ShiftPositionsAtOrAfter(d.tracks[t].clips, at, by)
      <4>1. e.tracks[t].clips = ds
        <5>1. t \in DOMAIN exact /\ exact[t] = ds
          BY <3>2
        <5> HIDE DEF exact, ds
        <5> QED BY <2>1, <5>1, WithTracksIs
      <4>2. DOMAIN ds = DOMAIN d.tracks[t].clips /\ Same(ds[i], c)
        BY <1>5, <2>1, <2>2 DEF KeepsList
      <4> HIDE DEF ds
      <4>3. was(ds[i])
        BY <2>3, <3>2, <4>2 DEF Same, Retrimmed
      <4> QED BY <4>1, <4>2, <4>3
    <3>3. CASE t \notin T /\ t \notin op.sync
      <4>1. e.tracks[t] = d.tracks[t]
        <5>1. t \notin DOMAIN exact
          BY <3>3
        <5> HIDE DEF exact
        <5> QED BY <2>1, <5>1, WithTracksIs
      <4>2. was(c)
        BY <2>3, <3>3 DEF Retrimmed
      <4> QED BY <2>2, <4>1, <4>2
    <3> QED BY <3>1, <3>2, <3>3
  <2>5. e.tracks[t].clips[i].id = id
    BY <2>1, <2>4 DEF Retrimmed
  <2>6. id \in ClipIds(e) /\ FindClip(e, id) = e.tracks[t].clips[i]
    <3> HIDE DEF t, e
    <3> QED BY <1>8, <2>1, <2>2, <2>4, <2>5, FoundAt
  <2> QED BY <2>4, <2>6
<1>10. Rippled(d, e, op)
  <2> HIDE DEF e
  <2> QED BY <1>6, <1>9 DEF Rippled
<1> QED BY <1>3, <1>8, <1>10

LEMMA RippleTrimIs ==
    ASSUME NEW d, TidyDoc(d), NEW op, op.exact = Nothing, op.delta \in Int,
           ApplyRippleTrim(d, op).ok
    PROVE  /\ TidyDoc(ApplyRippleTrim(d, op).doc)
           /\ DOMAIN ApplyRippleTrim(d, op).doc.tracks = DOMAIN d.tracks
  BY RippleTrimEffect

IsTrims(trims) ==
    trims \in Seq(Range(trims)) /\ \A i \in DOMAIN trims : trims[i].delta \in Int

RippleOf(x, sync) ==
    [kind |-> "RippleTrim", clip |-> x.clip, edge |-> x.edge, delta |-> x.delta,
     linked |-> x.linked, sync |-> sync, exact |-> Nothing]

\* The recursion of Chain, for the trims of ApplyTrimBoundaryAir.
TrimsAre(z, d, trims, sync, m) ==
    z = [n \in 0..m |->
            IF n = 0 THEN [ok |-> TRUE, doc |-> d]
            ELSE IF z[n - 1].ok
            THEN ValidateResult(ApplyRippleTrim(z[n - 1].doc, RippleOf(trims[n], sync)))
            ELSE z[n - 1]]

LEMMA TrimsExist ==
    ASSUME NEW d, NEW trims, NEW sync, NEW m \in Nat
    PROVE  \E z : TrimsAre(z, d, trims, sync, m)
<1> DEFINE T == {n \in Nat : ~\E z : TrimsAre(z, d, trims, sync, n)}
           first == [ok |-> TRUE, doc |-> d]
<1>1. SUFFICES ASSUME T # {} PROVE FALSE
  OBVIOUS
<1>2. PICK k \in T : \A y \in T : k <= y
  <2>1. T \in SUBSET Nat
    OBVIOUS
  <2> HIDE DEF T
  <2> QED BY <1>1, <2>1, LeastOf
<1>3. k # 0
  <2>1. TrimsAre([n \in 0..0 |-> first], d, trims, sync, 0)
    BY DEF TrimsAre
  <2> QED BY <2>1
<1>4. k - 1 \in Nat /\ k - 1 \notin T
  BY <1>2, <1>3
<1>5. PICK r : TrimsAre(r, d, trims, sync, k - 1)
  BY <1>4
<1> DEFINE next(q, n) ==
               IF q.ok THEN ValidateResult(ApplyRippleTrim(q.doc, RippleOf(trims[n], sync)))
               ELSE q
           g == [n \in 0..k |-> IF n = k THEN next(r[k - 1], k) ELSE r[n]]
<1>6. \A n \in 0..k - 1 : r[n] = IF n = 0 THEN first ELSE next(r[n - 1], n)
  BY <1>4, <1>5 DEF TrimsAre
<1>7. \A n \in 0..k : g[n] = IF n = 0 THEN first ELSE next(g[n - 1], n)
  <2> HIDE DEF next, first
  <2> QED BY <1>3, <1>4, <1>6
<1>8. TrimsAre(g, d, trims, sync, k)
  <2>1. DOMAIN g = 0..k /\ g = [n \in 0..k |-> g[n]]
    OBVIOUS
  <2> HIDE DEF g
  <2>2. g = [n \in 0..k |-> IF n = 0 THEN first ELSE next(g[n - 1], n)]
    <3> HIDE DEF next, first
    <3> QED BY <1>7, <2>1
  <2> QED BY <2>2, Zenon DEF TrimsAre
<1> QED BY <1>2, <1>8

\* z lists the results of the ripple trims of a compound that succeeds.
AirSteps(z, d, op) ==
    /\ z[Len(op.trims)].ok
    /\ ApplyTrimBoundaryAir(d, op).doc = z[Len(op.trims)].doc
    /\ \A n \in 0..Len(op.trims) :
          z[n] = IF n = 0 THEN [ok |-> TRUE, doc |-> d]
                 ELSE IF z[n - 1].ok
                 THEN ValidateResult(ApplyRippleTrim(z[n - 1].doc,
                                                     RippleOf(op.trims[n], op.sync)))
                 ELSE z[n - 1]

LEMMA AirStepsExist ==
    ASSUME NEW d, NEW op, op.exact = Nothing, IsTrims(op.trims),
           ApplyTrimBoundaryAir(d, op).ok
    PROVE  \E z : AirSteps(z, d, op)
<1> DEFINE trims == op.trims
           len == Len(trims)
           z == CHOOSE y : TrimsAre(y, d, trims, op.sync, len)
           T == TracksOf(d, UNION {{x.clip} \cup Range(x.linked) : x \in Range(op.trims)})
                \cup op.sync
<1>1. len \in Nat /\ DOMAIN trims = 1..len
  BY DEF IsTrims
<1>2. TrimsAre(z, d, trims, op.sync, len)
  <2> HIDE DEF len
  <2> QED BY <1>1, TrimsExist
<1>3. ~Recorded(op)
  BY DEF Recorded, Nothing
<1>4. ApplyTrimBoundaryAir(d, op) = Compound(d, z[len], T, op)
  <2>1. ApplyTrimBoundaryAir(d, op) # Refused
    BY DEF Refused
  <2> QED BY <1>3, <2>1, Zenon DEF ApplyTrimBoundaryAir, Chain, TrimsAre, RippleOf
<1> HIDE DEF z, T
<1>5. z[len].ok /\ ApplyTrimBoundaryAir(d, op).doc = z[len].doc
  <2> DEFINE r == z[len]
  <2>1. ApplyTrimBoundaryAir(d, op) = IF r.ok THEN Edited(d, r.doc, T, op) ELSE Refused
    BY <1>4 DEF Compound
  <2> HIDE DEF r
  <2>2. r.ok /\ ApplyTrimBoundaryAir(d, op).doc = r.doc
    BY <2>1 DEF Refused, Edited, Result
  <2> QED BY <2>2 DEF r
<1>6. \A n \in 0..len :
          z[n] = IF n = 0 THEN [ok |-> TRUE, doc |-> d]
                 ELSE IF z[n - 1].ok
                 THEN ValidateResult(ApplyRippleTrim(z[n - 1].doc,
                                                     RippleOf(trims[n], op.sync)))
                 ELSE z[n - 1]
  BY <1>1, <1>2 DEF TrimsAre
<1>7. AirSteps(z, d, op)
  BY <1>5, <1>6, Zenon DEF AirSteps
<1> QED BY <1>7

LEMMA TrimBoundaryAirIs ==
    ASSUME NEW d, TidyDoc(d), NEW op, op.exact = Nothing, IsTrims(op.trims),
           ApplyTrimBoundaryAir(d, op).ok
    PROVE  /\ TidyDoc(ApplyTrimBoundaryAir(d, op).doc)
           /\ DOMAIN ApplyTrimBoundaryAir(d, op).doc.tracks = DOMAIN d.tracks
<1> DEFINE trims == op.trims
           len == Len(trims)
<1>1. len \in Nat /\ DOMAIN trims = 1..len
  BY DEF IsTrims
<1>2. PICK z : AirSteps(z, d, op)
  BY AirStepsExist
<1>3. z[len].ok /\ ApplyTrimBoundaryAir(d, op).doc = z[len].doc
  BY <1>2, Zenon DEF AirSteps
<1>4. \A n \in 0..len :
          z[n] = IF n = 0 THEN [ok |-> TRUE, doc |-> d]
                 ELSE IF z[n - 1].ok
                 THEN ValidateResult(ApplyRippleTrim(z[n - 1].doc,
                                                     RippleOf(trims[n], op.sync)))
                 ELSE z[n - 1]
  BY <1>2, Zenon DEF AirSteps
<1> DEFINE P(n) == z[n].ok => /\ TidyDoc(z[n].doc)
                              /\ DOMAIN z[n].doc.tracks = DOMAIN d.tracks
           B == {n \in Nat : n <= len /\ ~P(n)}
<1>5. B = {}
  <2>1. SUFFICES ASSUME B # {} PROVE FALSE
    OBVIOUS
  <2>2. PICK k \in B : \A y \in B : k <= y
    <3>1. B \in SUBSET Nat
      OBVIOUS
    <3> HIDE DEF B
    <3> QED BY <2>1, <3>1, LeastOf
  <2>3. k # 0
    <3>1. z[0] = [ok |-> TRUE, doc |-> d]
      <4>1. 0 \in 0..len
        BY <1>1
      <4> QED BY <1>4, <4>1, Zenon
    <3> DEFINE q == z[0]
    <3>2. q.doc = d
      BY <3>1
    <3> HIDE DEF q
    <3>3. TidyDoc(q.doc) /\ DOMAIN q.doc.tracks = DOMAIN d.tracks
      BY <3>2
    <3>4. P(0)
      BY <3>3 DEF q
    <3> HIDE DEF P
    <3> QED BY <2>2, <3>4
  <2>4. k - 1 \in Nat /\ P(k - 1) /\ k \in 1..len
    <3> HIDE DEF P
    <3> QED BY <1>1, <2>2, <2>3
  <2> DEFINE q == z[k - 1]
             x == RippleOf(trims[k], op.sync)
             r == ApplyRippleTrim(q.doc, x)
  <2>5. z[k] = IF q.ok THEN ValidateResult(r) ELSE q
    BY <1>1, <1>4, <2>4
  <2>6. x.exact = Nothing /\ x.delta \in Int
    BY <1>1, <2>4 DEF RippleOf, IsTrims
  <2>7. q.ok => TidyDoc(q.doc) /\ DOMAIN q.doc.tracks = DOMAIN d.tracks
    BY <2>4
  <2> HIDE DEF q, x
  <2>8. q.ok /\ r.ok => TidyDoc(r.doc) /\ DOMAIN r.doc.tracks = DOMAIN d.tracks
    BY <2>6, <2>7, RippleTrimIs
  <2> HIDE DEF r
  <2>9. P(k)
    BY <2>5, <2>7, <2>8 DEF ValidateResult, Refused
  <2> HIDE DEF P
  <2> QED BY <2>2, <2>9
<1>6. P(len)
  <2> HIDE DEF P
  <2> QED BY <1>1, <1>5
<1> QED BY <1>3, <1>6

-----------------------------------------------------------------------------
(* The trims of the air tools *)

LEMMA GroupsAre ==
    ASSUME DOMAIN levels \subseteq Int, NEW g \in BuildSpeechGroups
    PROVE  g.from \in Int /\ g.to \in Int
<1> DEFINE W == DOMAIN levels
           noise == SpeechLevelPercentile(W, 5)
           floor == LET f == Dbfs[noise] + FloorDb IN IF f > 0 THEN 0 ELSE f
           voiced == {w \in W : Dbfs[levels[w]] >= floor}
           quiet(a, b) == \A w \in a..b : w \notin voiced
           runs == {[from |-> a, to |-> b + 1] : a \in voiced, b \in voiced}
           even == SpeechLevelPercentile(W, 90) * 100 < noise * RangePercent
           whole(r) == /\ r.from < r.to
                       /\ quiet(r.from - GapWindows, r.from - 1)
                       /\ quiet(r.to, r.to + GapWindows - 1)
                       /\ \A w \in r.from..r.to - GapWindows :
                              ~quiet(w, w + GapWindows - 1)
<1>1. g \in runs
  <2>1. BuildSpeechGroups = IF even THEN {} ELSE {r \in runs : whole(r)}
    BY DEF BuildSpeechGroups
  <2> HIDE DEF even, runs, whole
  <2> QED BY <2>1
<1>2. voiced \subseteq Int
  <2> HIDE DEF floor
  <2> QED OBVIOUS
<1> HIDE DEF voiced, even, whole, quiet, noise, floor
<1>3. PICK a \in voiced, b \in voiced : g = [from |-> a, to |-> b + 1]
  BY <1>1
<1>4. g.from = a /\ g.to = b + 1 /\ a \in Int /\ b \in Int
  BY <1>2, <1>3
<1> HIDE DEF runs
<1> QED BY <1>4

LEMMA SpeechOfIs ==
    ASSUME DOMAIN levels \subseteq Int, NEW c, c.sin \in Int, c.dur \in Int,
           NEW s \in SpeechOf(c)
    PROVE  /\ s.from \in Int /\ s.from >= c.sin * FrameTicks
           /\ s.to \in Int /\ s.to <= SourceEnd(c) * FrameTicks
<1> DEFINE lo == c.sin * FrameTicks
           hi == SourceEnd(c) * FrameTicks
<1>1. lo \in Int /\ hi \in Int /\ WindowTicks \in Int
  <2>1. FrameTicks \in Int /\ WindowTicks \in Int
    BY GridAssumption
  <2> QED BY <2>1 DEF SourceEnd
<1>2. PICK g \in BuildSpeechGroups : s = [from |-> Max({g.from * WindowTicks, lo}),
                                          to |-> Min({g.to * WindowTicks, hi})]
  BY Zenon DEF SpeechOf
<1> HIDE DEF lo, hi
<1> DEFINE a == g.from * WindowTicks
           b == g.to * WindowTicks
<1>3. g.from \in Int /\ g.to \in Int
  BY GroupsAre
<1>4. a \in Int /\ b \in Int
  BY <1>1, <1>3
<1> HIDE DEF a, b
<1>5. s.from = Max({a, lo}) /\ s.to = Min({b, hi})
  BY <1>2 DEF a, b
<1>6. s.from \in Int /\ s.from >= lo /\ s.to \in Int /\ s.to <= hi
  <2>1. Max({a, lo}) \in Int /\ Max({a, lo}) >= lo
    BY <1>1, <1>4, MaxOfTwo
  <2>2. Min({b, hi}) \in Int /\ Min({b, hi}) <= hi
    BY <1>1, <1>4, MinOfTwo
  <2> QED BY <1>5, <2>1, <2>2, Zenon
<1> QED BY <1>6 DEF lo, hi

LEMMA SpeechBounds ==
    ASSUME DOMAIN levels \subseteq Int, NEW c, c.sin \in Int, c.dur \in Int,
           SpeechOf(c) # {}
    PROVE  /\ SpeechStart(c) \in Int /\ c.sin * FrameTicks <= SpeechStart(c)
           /\ SpeechEnd(c) \in Int /\ SpeechEnd(c) <= SourceEnd(c) * FrameTicks
           /\ \A s \in SpeechOf(c) : SpeechStart(c) <= s.from /\ s.to <= SpeechEnd(c)
<1> DEFINE lo == c.sin * FrameTicks
           hi == SourceEnd(c) * FrameTicks
           F == {s.from : s \in SpeechOf(c)}
           T == {s.to : s \in SpeechOf(c)}
<1>1. lo \in Int /\ hi \in Int
  <2>1. FrameTicks \in Int
    BY GridAssumption
  <2> QED BY <2>1 DEF SourceEnd
<1>2. \A s \in SpeechOf(c) : s.from \in Int /\ s.from >= lo /\ s.to \in Int /\ s.to <= hi
  BY SpeechOfIs
<1>3. /\ F \in SUBSET Int /\ F # {} /\ \A x \in F : x >= lo
      /\ T \in SUBSET Int /\ T # {} /\ \A x \in T : x <= hi
  <2> HIDE DEF lo, hi
  <2> QED BY <1>2
<1>4. SpeechStart(c) = Min(F) /\ SpeechEnd(c) = Max(T)
  BY DEF SpeechStart, SpeechEnd
<1> HIDE DEF F, T, lo, hi
<1>5. /\ SpeechStart(c) \in Int /\ SpeechStart(c) \in F
      /\ \A x \in F : SpeechStart(c) <= x
  BY <1>1, <1>3, <1>4, MinOfBounded
<1>6. SpeechEnd(c) \in Int /\ SpeechEnd(c) \in T /\ \A x \in T : x <= SpeechEnd(c)
  BY <1>1, <1>3, <1>4, MaxOfBounded
<1>7. lo <= SpeechStart(c) /\ SpeechEnd(c) <= hi
  BY <1>3, <1>5, <1>6
<1>8. \A s \in SpeechOf(c) : s.from \in F /\ s.to \in T
  BY DEF F, T
<1> QED BY <1>5, <1>6, <1>7, <1>8 DEF lo, hi

LEMMA NoTrims == IsTrims(<<>>)
<1>1. <<>> \in Seq(Range(<<>>))
  OBVIOUS
<1> QED BY <1>1 DEF IsTrims

LEMMA OneTrim ==
    ASSUME NEW d, NEW c, NEW edge, NEW delta \in Int
    PROVE  IsTrims(<<AirTrim(d, c, edge, delta)>>)
<1> DEFINE x == AirTrim(d, c, edge, delta)
<1>1. x.delta = delta
  BY DEF AirTrim
<1> HIDE DEF x
<1>2. DOMAIN <<x>> = 1..1 /\ <<x>>[1] = x /\ <<x>> \in Seq({x})
  OBVIOUS
<1>3. Range(<<x>>) = {x}
  BY <1>2 DEF Range
<1>4. IsTrims(<<x>>)
  BY <1>1, <1>2, <1>3 DEF IsTrims
<1> QED BY <1>4 DEF x

LEMMA BothTrims ==
    ASSUME NEW a, NEW b, IsTrims(a), IsTrims(b)
    PROVE  IsTrims(a \o b)
<1> DEFINE S == Range(a) \cup Range(b)
           s == a \o b
<1>1. a \in Seq(S) /\ b \in Seq(S) /\ Len(a) \in Nat /\ Len(b) \in Nat
      /\ DOMAIN a = 1..Len(a) /\ DOMAIN b = 1..Len(b)
  BY DEF IsTrims
<1> HIDE DEF S
<1>2. /\ s \in Seq(S) /\ Len(s) = Len(a) + Len(b)
      /\ \A i \in 1..Len(a) + Len(b) : s[i] = IF i <= Len(a) THEN a[i] ELSE b[i - Len(a)]
  BY <1>1, ConcatProperties
<1> HIDE DEF s
<1>3. ASSUME NEW i \in DOMAIN s PROVE s[i].delta \in Int
  <2>1. i \in 1..Len(a) + Len(b)
    BY <1>2
  <2>2. CASE i <= Len(a)
    BY <1>1, <1>2, <2>1, <2>2 DEF IsTrims
  <2>3. CASE ~(i <= Len(a))
    <3>1. i - Len(a) \in DOMAIN b /\ s[i] = b[i - Len(a)]
      BY <1>1, <1>2, <2>1, <2>3
    <3> QED BY <3>1 DEF IsTrims
  <2> QED BY <2>2, <2>3
<1>4. s \in Seq(Range(s))
  <2>1. Len(s) \in Nat /\ s \in [1..Len(s) -> S]
    BY <1>2
  <2>2. s \in [1..Len(s) -> Range(s)]
    BY <2>1 DEF Range
  <2> QED BY <2>1, <2>2
<1>5. IsTrims(s)
  BY <1>3, <1>4 DEF IsTrims
<1> QED BY <1>5 DEF s

LEMMA TrimsOfOneClip ==
    ASSUME DOMAIN levels \subseteq Int, NEW d, NEW c, c.sin \in Int, c.dur \in Int,
           SpeechOf(c) # {}
    PROVE  IsTrims(HeadTrim(d, c)) /\ IsTrims(TailTrim(d, c))
<1>1. SpeechStart(c) \in Int /\ SpeechEnd(c) \in Int
  BY SpeechBounds
<1>2. FrameDown(SpeechStart(c)) \in Int /\ FrameUp(SpeechEnd(c)) \in Int /\ KeepAir \in Int
  BY <1>1, FrameDownIs, FrameUpIs, GridAssumption
<1>3. IsTrims(HeadTrim(d, c))
  <2> DEFINE by == FrameDown(SpeechStart(c)) - KeepAir - c.sin
  <2>1. by \in Int
    BY <1>2
  <2>2. HeadTrim(d, c) = IF by > 0 THEN <<AirTrim(d, c, "head", by)>> ELSE <<>>
    BY DEF HeadTrim
  <2> HIDE DEF by
  <2> QED BY <2>1, <2>2, NoTrims, OneTrim
<1>4. IsTrims(TailTrim(d, c))
  <2> DEFINE by == SourceEnd(c) - (FrameUp(SpeechEnd(c)) + KeepAir)
             less == -by
  <2>1. less \in Int
    BY <1>2 DEF SourceEnd
  <2>2. TailTrim(d, c) = IF by > 0 THEN <<AirTrim(d, c, "tail", less)>> ELSE <<>>
    BY DEF TailTrim
  <2> HIDE DEF by, less
  <2> QED BY <2>1, <2>2, NoTrims, OneTrim
<1> QED BY <1>3, <1>4

LEMMA BoundaryTrims ==
    ASSUME DOMAIN levels \subseteq Int, NEW d, NEW c, c.sin \in Int, c.dur \in Int
    PROVE  IsTrims(ResolveBoundaryAir(d, c))
<1>1. CASE SpeechOf(c) = {}
  BY <1>1, NoTrims DEF ResolveBoundaryAir
<1>2. CASE SpeechOf(c) # {}
  <2> DEFINE a == IF HeadAir(c) >= MinimumAir THEN HeadTrim(d, c) ELSE <<>>
             b == IF TailAir(c) >= MinimumAir THEN TailTrim(d, c) ELSE <<>>
  <2>1. IsTrims(a) /\ IsTrims(b)
    BY <1>2, NoTrims, TrimsOfOneClip
  <2>2. ResolveBoundaryAir(d, c) = a \o b
    BY <1>2 DEF ResolveBoundaryAir
  <2> HIDE DEF a, b
  <2> QED BY <2>1, <2>2, BothTrims
<1> QED BY <1>1, <1>2

LEMMA JunctionTrims ==
    ASSUME DOMAIN levels \subseteq Int, NEW d, NEW l, l.sin \in Int, l.dur \in Int,
           NEW r, r.sin \in Int, r.dur \in Int
    PROVE  IsTrims(ResolveJunctionAir(d, l, r))
<1> DEFINE close == /\ End(l) = r.tin /\ SpeechOf(l) # {} /\ SpeechOf(r) # {}
                    /\ TailAir(l) + HeadAir(r) >= MinimumAir
<1>1. ResolveJunctionAir(d, l, r) =
          IF close THEN TailTrim(d, l) \o HeadTrim(d, r) ELSE <<>>
  BY Zenon DEF ResolveJunctionAir
<1>2. CASE close
  <2>1. SpeechOf(l) # {} /\ SpeechOf(r) # {}
    BY <1>2
  <2>2. IsTrims(TailTrim(d, l)) /\ IsTrims(HeadTrim(d, r))
    BY <2>1, TrimsOfOneClip
  <2> QED BY <1>1, <1>2, <2>2, BothTrims
<1>3. CASE ~close
  <2> HIDE DEF close
  <2> QED BY <1>1, <1>3, NoTrims
<1> QED BY <1>2, <1>3

-----------------------------------------------------------------------------
(* A second pass of the air tools *)

\* At most one trim, and what it makes of d.
Part(A, d, m, sync) ==
    \/ A = <<>> /\ m = d
    \/ \E x : A = <<x>> /\ Rippled(d, m, RippleOf(x, sync))

LEMMA ChainStep ==
    ASSUME NEW q, TidyDoc(q.doc), NEW x, x.delta \in Int, NEW sync, NEW z,
           z = (IF q.ok THEN ValidateResult(ApplyRippleTrim(q.doc, RippleOf(x, sync)))
                ELSE q),
           z.ok
    PROVE  q.ok /\ TidyDoc(z.doc) /\ Rippled(q.doc, z.doc, RippleOf(x, sync))
<1> DEFINE op == RippleOf(x, sync)
           r == ApplyRippleTrim(q.doc, op)
<1>1. op.exact = Nothing /\ op.delta \in Int
  BY DEF RippleOf
<1> HIDE DEF op
<1>2. q.ok
  OBVIOUS
<1>3. z = r
  <2> HIDE DEF r
  <2>1. z = ValidateResult(r)
    BY <1>2 DEF r, op
  <2> QED BY <2>1 DEF ValidateResult, Refused
<1>4. r.ok
  BY <1>3
<1>5. TidyDoc(r.doc) /\ Rippled(q.doc, r.doc, op)
  BY <1>1, <1>4, RippleTrimEffect
<1> QED BY <1>2, <1>3, <1>5 DEF op

LEMMA AtMostOneEach ==
    \A m, n \in Nat : m <= 1 /\ n <= 1 =>
        /\ m + n = 1 => m = 1 \/ n = 1
        /\ (m = 0 /\ n = 0) \/ m + n = 1 \/ (m = 1 /\ n = 1)
  OBVIOUS

\* A compound of one or two trims, each from a list of its own.
LEMMA TwoParts ==
    ASSUME NEW d, TidyDoc(d), NEW op, op.exact = Nothing, ApplyTrimBoundaryAir(d, op).ok,
           NEW A, NEW B, op.trims = A \o B, IsTrims(A), IsTrims(B),
           Len(A) <= 1, Len(B) <= 1
    PROVE  \E m : /\ TidyDoc(m) /\ Part(A, d, m, op.sync)
                  /\ Part(B, m, ApplyTrimBoundaryAir(d, op).doc, op.sync)
<1> DEFINE e == ApplyTrimBoundaryAir(d, op).doc
           len == Len(op.trims)
<1>1. IsTrims(op.trims)
  BY BothTrims
<1>2. PICK z : AirSteps(z, d, op)
  BY <1>1, AirStepsExist
<1>3. z[len].ok /\ e = z[len].doc
  BY <1>2, Zenon DEF AirSteps
<1>4. \A n \in 0..len :
          z[n] = IF n = 0 THEN [ok |-> TRUE, doc |-> d]
                 ELSE IF z[n - 1].ok
                 THEN ValidateResult(ApplyRippleTrim(z[n - 1].doc,
                                                     RippleOf(op.trims[n], op.sync)))
                 ELSE z[n - 1]
  BY <1>2, Zenon DEF AirSteps
<1>5. /\ Len(A) \in Nat /\ Len(B) \in Nat /\ len = Len(A) + Len(B)
      /\ Len(A) = 0 => A = <<>>
      /\ Len(B) = 0 => B = <<>>
      /\ Len(A) = 1 => A = <<A[1]>> /\ op.trims[1] = A[1] /\ A[1].delta \in Int
      /\ Len(B) = 1 => B = <<B[1]>> /\ op.trims[Len(A) + 1] = B[1] /\ B[1].delta \in Int
  <2>1. A \in Seq(Range(A)) /\ B \in Seq(Range(B))
    BY DEF IsTrims
  <2>2. Len(A) \in Nat /\ Len(B) \in Nat /\ DOMAIN A = 1..Len(A) /\ DOMAIN B = 1..Len(B)
    BY <2>1
  <2>3. A \in Seq(Range(A) \cup Range(B)) /\ B \in Seq(Range(A) \cup Range(B))
    BY <2>1
  <2>4. /\ Len(A \o B) = Len(A) + Len(B)
        /\ \A i \in 1..Len(A) + Len(B) : (A \o B)[i] = IF i <= Len(A) THEN A[i]
                                                       ELSE B[i - Len(A)]
    BY <2>3, ConcatProperties
  <2>5. Len(A) = 0 => A = <<>>
    BY <2>1
  <2>6. Len(B) = 0 => B = <<>>
    BY <2>1
  <2>7. Len(A) = 1 => A = <<A[1]>>
    BY <2>1
  <2>8. Len(B) = 1 => B = <<B[1]>>
    BY <2>1
  <2>9. Len(A) = 1 => A[1].delta \in Int
    BY <2>2 DEF IsTrims
  <2>10. Len(B) = 1 => B[1].delta \in Int
    BY <2>2 DEF IsTrims
  <2>11. Len(A) = 1 => op.trims[1] = A[1]
    BY <2>2, <2>4
  <2>12. Len(B) = 1 => op.trims[Len(A) + 1] = B[1]
    BY <2>2, <2>4
  <2> QED BY <2>2, <2>4, <2>5, <2>6, <2>7, <2>8, <2>9, <2>10, <2>11, <2>12
<1>6. z[0] = [ok |-> TRUE, doc |-> d]
  <2>1. 0 \in 0..len
    BY <1>5
  <2> QED BY <1>4, <2>1, Zenon
<1> DEFINE q == z[0]
<1>7. q.doc = d
  BY <1>6
<1>8. Len(A) \in Nat /\ Len(B) \in Nat
  BY <1>5
<1>9. /\ Len(A) + Len(B) = 1 => Len(A) = 1 \/ Len(B) = 1
      /\ \/ Len(A) = 0 /\ Len(B) = 0
         \/ Len(A) + Len(B) = 1
         \/ Len(A) = 1 /\ Len(B) = 1
  BY <1>8, AtMostOneEach, Zenon
<1> HIDE DEF e, q
<1>10. CASE Len(A) = 0 /\ Len(B) = 0
  <2>1. e = d
    BY <1>3, <1>5, <1>7, <1>10 DEF q
  <2> QED BY <1>5, <1>10, <2>1 DEF Part, e
<1>11. CASE Len(A) + Len(B) = 1
  <2>0. Len(A) = 1 \/ Len(B) = 1
    BY <1>11, <1>9, Zenon
  <2> DEFINE x == op.trims[1]
             r == z[1]
  <2>1. r = IF q.ok THEN ValidateResult(ApplyRippleTrim(q.doc, RippleOf(x, op.sync)))
            ELSE q
    <3>1. 1 \in 0..len /\ 1 # 0 /\ 1 - 1 = 0
      BY <1>5, <1>11
    <3> QED BY <1>4, <3>1 DEF q
  <2>2. r.ok /\ e = r.doc
    BY <1>3, <1>5, <1>11
  <2>3. x.delta \in Int
    <3>1. CASE Len(A) = 1
      BY <1>5, <3>1
    <3>2. CASE Len(B) = 1
      <4>1. Len(A) + 1 = 1
        BY <1>11, <1>8, <3>2
      <4> QED BY <1>5, <3>2, <4>1
    <3> QED BY <2>0, <3>1, <3>2
  <2> HIDE DEF x, r
  <2>4. TidyDoc(r.doc) /\ Rippled(q.doc, r.doc, RippleOf(x, op.sync))
    BY <1>7, <2>1, <2>2, <2>3, ChainStep
  <2>5. TidyDoc(e) /\ Rippled(d, e, RippleOf(x, op.sync))
    BY <1>7, <2>2, <2>4
  <2>6. CASE Len(A) = 1
    <3>1. A = <<x>> /\ B = <<>>
      BY <1>5, <1>11, <2>6 DEF x
    <3>2. Part(A, d, e, op.sync) /\ Part(B, e, e, op.sync)
      BY <2>5, <3>1 DEF Part
    <3> QED BY <2>5, <3>2 DEF e
  <2>7. CASE Len(B) = 1
    <3>1. B = <<x>> /\ A = <<>>
      BY <1>5, <1>11, <2>7 DEF x
    <3>2. Part(A, d, d, op.sync) /\ Part(B, d, e, op.sync)
      BY <2>5, <3>1 DEF Part
    <3> QED BY <3>2 DEF e
  <2> QED BY <2>0, <2>6, <2>7
<1>12. CASE Len(A) = 1 /\ Len(B) = 1
  <2> DEFINE x == op.trims[1]
             y == op.trims[2]
             r == z[1]
             w == z[2]
  <2>1. r = IF q.ok THEN ValidateResult(ApplyRippleTrim(q.doc, RippleOf(x, op.sync)))
            ELSE q
    <3>1. 1 \in 0..len /\ 1 # 0 /\ 1 - 1 = 0
      BY <1>5, <1>12
    <3> QED BY <1>4, <3>1 DEF q
  <2>2. w = IF r.ok THEN ValidateResult(ApplyRippleTrim(r.doc, RippleOf(y, op.sync)))
            ELSE r
    <3>1. 2 \in 0..len /\ 2 # 0 /\ 2 - 1 = 1
      BY <1>5, <1>12
    <3> QED BY <1>4, <3>1
  <2>3. w.ok /\ e = w.doc
    BY <1>3, <1>5, <1>12
  <2>4. x.delta \in Int /\ y.delta \in Int /\ A = <<x>> /\ B = <<y>>
    BY <1>5, <1>12
  <2> HIDE DEF x, y, r, w
  <2>5. r.ok
    BY <2>2, <2>3
  <2>6. TidyDoc(r.doc) /\ Rippled(d, r.doc, RippleOf(x, op.sync))
    BY <1>7, <2>1, <2>4, <2>5, ChainStep
  <2>7. TidyDoc(e) /\ Rippled(r.doc, e, RippleOf(y, op.sync))
    BY <2>2, <2>3, <2>4, <2>6, ChainStep
  <2>8. Part(A, d, r.doc, op.sync) /\ Part(B, r.doc, e, op.sync)
    BY <2>4, <2>6, <2>7 DEF Part
  <2> QED BY <2>6, <2>8 DEF e
<1> QED BY <1>9, <1>10, <1>11, <1>12

\* A clip whose group has no other clip on its track is not linked to one there.
LEMMA NotLinked ==
    ASSUME NEW d, TidyDoc(d), NEW a \in ClipIds(d), NEW b \in ClipIds(d), a # b,
           FindTrackForClip(d, a) = FindTrackForClip(d, b), OnePerTrack(d, FindClip(d, a))
    PROVE  \/ FindClip(d, a).group = None
           \/ FindClip(d, b).group # FindClip(d, a).group
<1>1. PICK x, y : x = FindClip(d, a) /\ y = FindClip(d, b)
  OBVIOUS
<1>2. x \in Clips(d) /\ x.id = a /\ y \in Clips(d) /\ y.id = b
  BY <1>1, Found
<1>3. SUFFICES ASSUME x.group # None, y.group = x.group
               PROVE  FALSE
  BY <1>1
<1>4. x \in Grouped(d, x.group) /\ y \in Grouped(d, x.group)
  BY <1>2, <1>3 DEF Grouped
<1>5. x = y
  BY <1>1, <1>2, <1>4 DEF OnePerTrack
<1> QED BY <1>2, <1>5

\* What clipping a group leaves the same when the clip is narrowed.
LEMMA ClippedHead ==
    ASSUME NEW a \in Int, NEW lc \in Int, NEW lb \in Int, lc <= lb
    PROVE  /\ Max({a, lb}) \in Int /\ Max({a, lc}) \in Int
           /\ Max({a, lc}) <= Max({a, lb})
           /\ lb <= Max({a, lc}) => Max({a, lb}) = Max({a, lc})
<1>1. PICK p, q : p = Max({a, lb}) /\ q = Max({a, lc})
  OBVIOUS
<1>2. p \in Int /\ p >= a /\ p >= lb /\ (p = a \/ p = lb)
  BY <1>1, MaxOfTwo
<1>3. q \in Int /\ q >= a /\ q >= lc /\ (q = a \/ q = lc)
  BY <1>1, MaxOfTwo
<1>4. q <= p /\ (lb <= q => p = q)
  BY <1>2, <1>3
<1> QED BY <1>1, <1>2, <1>3, <1>4

LEMMA ClippedTail ==
    ASSUME NEW z \in Int, NEW hc \in Int, NEW hb \in Int, hb <= hc
    PROVE  /\ Min({z, hb}) \in Int /\ Min({z, hc}) \in Int
           /\ Min({z, hb}) <= Min({z, hc})
           /\ Min({z, hc}) <= hb => Min({z, hb}) = Min({z, hc})
<1>1. PICK u, v : u = Min({z, hb}) /\ v = Min({z, hc})
  OBVIOUS
<1>2. u \in Int /\ u <= z /\ u <= hb /\ (u = z \/ u = hb)
  BY <1>1, MinOfTwo
<1>3. v \in Int /\ v <= z /\ v <= hc /\ (v = z \/ v = hc)
  BY <1>1, MinOfTwo
<1>4. u <= v /\ (v <= hb => u = v)
  BY <1>2, <1>3
<1> QED BY <1>1, <1>2, <1>3, <1>4

\* A clip trimmed to no less than the speech in it holds the same speech.
LEMMA SpeechStays ==
    ASSUME DOMAIN levels \subseteq Int, NEW c, c.sin \in Int, c.dur \in Int,
           NEW b, b.sin \in Int, b.dur \in Int, SpeechOf(c) # {},
           c.sin <= b.sin, b.sin * FrameTicks <= SpeechStart(c),
           SourceEnd(b) <= SourceEnd(c), SpeechEnd(c) <= SourceEnd(b) * FrameTicks
    PROVE  SpeechOf(b) = SpeechOf(c)
<1> DEFINE G == BuildSpeechGroups
           n == SustainWindows * WindowTicks
           lc == c.sin * FrameTicks
           lb == b.sin * FrameTicks
           hc == SourceEnd(c) * FrameTicks
           hb == SourceEnd(b) * FrameTicks
           inC(g) == [from |-> Max({g.from * WindowTicks, lc}),
                      to |-> Min({g.to * WindowTicks, hc})]
           inB(g) == [from |-> Max({g.from * WindowTicks, lb}),
                      to |-> Min({g.to * WindowTicks, hb})]
<1>1. FrameTicks \in Nat \ {0} /\ WindowTicks \in Int /\ SustainWindows \in Int
  BY GridAssumption
<1>2. SourceEnd(b) \in Int /\ SourceEnd(c) \in Int
  BY DEF SourceEnd
<1>3. n \in Int /\ lc \in Int /\ lb \in Int /\ hc \in Int /\ hb \in Int
  BY <1>1, <1>2
<1>4. lc <= lb /\ hb <= hc
  BY <1>1, <1>2, TimesMonotone
<1>5. SpeechOf(c) = {s \in {inC(g) : g \in G} : s.to - s.from >= n}
  BY Zenon DEF SpeechOf
<1>6. SpeechOf(b) = {s \in {inB(g) : g \in G} : s.to - s.from >= n}
  BY Zenon DEF SpeechOf
<1>7. \A s \in SpeechOf(c) : lb <= s.from /\ s.to <= hb
  <2>1. \A s \in SpeechOf(c) : s.from \in Int /\ s.to \in Int
    BY SpeechOfIs
  <2>2. /\ SpeechStart(c) \in Int /\ SpeechEnd(c) \in Int
        /\ \A s \in SpeechOf(c) : SpeechStart(c) <= s.from /\ s.to <= SpeechEnd(c)
    BY SpeechBounds
  <2>3. lb <= SpeechStart(c) /\ SpeechEnd(c) <= hb
    OBVIOUS
  <2> HIDE DEF lb, hb
  <2> QED BY <1>3, <2>1, <2>2, <2>3
<1> HIDE DEF n, lc, lb, hc, hb, G
<1>8. ASSUME NEW g \in G
      PROVE  /\ inB(g).to - inB(g).from >= n => inC(g).to - inC(g).from >= n
             /\ inC(g).to - inC(g).from >= n => inB(g) = inC(g)
  <2> DEFINE a == g.from * WindowTicks
             z == g.to * WindowTicks
  <2>1. a \in Int /\ z \in Int
    <3>1. g.from \in Int /\ g.to \in Int
      BY GroupsAre DEF G
    <3> QED BY <1>1, <3>1
  <2> DEFINE p == Max({a, lb})
             q == Max({a, lc})
             u == Min({z, hb})
             v == Min({z, hc})
  <2>2. inB(g) = [from |-> p, to |-> u] /\ inC(g) = [from |-> q, to |-> v]
    BY Zenon
  <2>3. inC(g).to - inC(g).from >= n => inC(g) \in SpeechOf(c)
    <3> HIDE DEF inC
    <3> QED BY <1>5
  <2> HIDE DEF a, z, inC, inB
  <2>4. /\ p \in Int /\ q \in Int /\ q <= p
        /\ lb <= q => p = q
    BY <1>3, <1>4, <2>1, ClippedHead
  <2>5. /\ u \in Int /\ v \in Int /\ u <= v
        /\ v <= hb => u = v
    BY <1>3, <1>4, <2>1, ClippedTail
  <2> HIDE DEF p, q, u, v
  <2>6. inB(g).from = p /\ inB(g).to = u /\ inC(g).from = q /\ inC(g).to = v
    BY <2>2
  <2>7. inB(g).to - inB(g).from >= n => inC(g).to - inC(g).from >= n
    <3>1. u - p >= n => v - q >= n
      BY <1>3, <2>4, <2>5
    <3> QED BY <2>6, <3>1, Zenon
  <2>8. ASSUME inC(g).to - inC(g).from >= n PROVE inB(g) = inC(g)
    <3>1. lb <= q /\ v <= hb
      BY <1>7, <2>3, <2>6, <2>8, Zenon
    <3>2. p = q /\ u = v
      BY <2>4, <2>5, <3>1, Zenon
    <3> QED BY <2>2, <3>2, Zenon
  <2> QED BY <2>7, <2>8
<1> HIDE DEF inB, inC
<1> QED BY <1>5, <1>6, <1>8

\* What HeadTrim and TailTrim take off a clip.
HeadCut(c) == FrameDown(SpeechStart(c)) - KeepAir - c.sin
TailCut(c) == SourceEnd(c) - (FrameUp(SpeechEnd(c)) + KeepAir)

\* c without h frames at its head and t frames at its tail holds the speech of
\* c, and an end that was cut, or had nothing to cut, is left alone.
LEMMA Settled ==
    ASSUME DOMAIN levels \subseteq Int, NEW c, c.sin \in Int, c.dur \in Int,
           NEW b, b.sin \in Int, b.dur \in Int, SpeechOf(c) # {},
           NEW h, h = 0 \/ (h = HeadCut(c) /\ h > 0),
           NEW t, t = 0 \/ (t = TailCut(c) /\ t > 0),
           b.sin = c.sin + h, SourceEnd(b) = SourceEnd(c) - t, NEW d
    PROVE  /\ SpeechOf(b) = SpeechOf(c)
           /\ h = 0 => HeadAir(b) = HeadAir(c)
           /\ t = 0 => TailAir(b) = TailAir(c)
           /\ (h = HeadCut(c) \/ ~(HeadCut(c) > 0)) => HeadTrim(d, b) = <<>>
           /\ (t = TailCut(c) \/ ~(TailCut(c) > 0)) => TailTrim(d, b) = <<>>
<1>1. FrameTicks \in Nat \ {0} /\ KeepAir \in Nat
  BY GridAssumption
<1>2. PICK first, last : first = SpeechStart(c) /\ last = SpeechEnd(c)
  OBVIOUS
<1>3. /\ first \in Int /\ c.sin * FrameTicks <= first
      /\ last \in Int /\ last <= SourceEnd(c) * FrameTicks
  BY <1>2, SpeechBounds
<1>4. PICK down, up : down = FrameDown(first) /\ up = FrameUp(last)
  OBVIOUS
<1>5. down \in Int /\ down * FrameTicks <= first /\ up \in Int /\ last <= up * FrameTicks
  BY <1>3, <1>4, FrameDownIs, FrameUpIs
<1>6. HeadCut(c) = down - KeepAir - c.sin
  BY <1>2, <1>4 DEF HeadCut
<1>7. TailCut(c) = SourceEnd(c) - (up + KeepAir)
  BY <1>2, <1>4 DEF TailCut
<1>8. SourceEnd(c) \in Int /\ SourceEnd(b) \in Int
  BY DEF SourceEnd
<1>9. h \in Int /\ h >= 0 /\ t \in Int /\ t >= 0
  BY <1>1, <1>5, <1>6, <1>7, <1>8
<1>10. c.sin <= b.sin /\ SourceEnd(b) <= SourceEnd(c)
  BY <1>8, <1>9
<1>11. b.sin * FrameTicks <= first
  <2>1. CASE h = 0
    <3>1. b.sin = c.sin
      BY <2>1
    <3> QED BY <1>3, <3>1
  <2>2. CASE h = HeadCut(c)
    <3>1. b.sin <= down
      BY <1>1, <1>5, <1>6, <2>2
    <3>2. b.sin * FrameTicks <= down * FrameTicks
      BY <1>1, <1>5, <3>1, TimesMonotone
    <3>3. b.sin * FrameTicks \in Int /\ down * FrameTicks \in Int
      BY <1>1, <1>5
    <3> QED BY <1>3, <1>5, <3>2, <3>3
  <2> QED BY <2>1, <2>2
<1>12. last <= SourceEnd(b) * FrameTicks
  <2>1. CASE t = 0
    <3>1. SourceEnd(b) = SourceEnd(c)
      BY <1>8, <2>1
    <3> QED BY <1>3, <3>1
  <2>2. CASE t = TailCut(c)
    <3>1. up <= SourceEnd(b)
      BY <1>1, <1>5, <1>7, <1>8, <2>2
    <3>2. up * FrameTicks <= SourceEnd(b) * FrameTicks
      BY <1>1, <1>5, <1>8, <3>1, TimesMonotone
    <3>3. SourceEnd(b) * FrameTicks \in Int /\ up * FrameTicks \in Int
      BY <1>1, <1>5, <1>8
    <3> QED BY <1>3, <1>5, <3>2, <3>3
  <2> QED BY <2>1, <2>2
<1>13. SpeechOf(b) = SpeechOf(c)
  BY <1>2, <1>10, <1>11, <1>12, SpeechStays
<1>14. SpeechStart(b) = first /\ SpeechEnd(b) = last
  BY <1>2, <1>13 DEF SpeechStart, SpeechEnd
<1>15. h = 0 => HeadAir(b) = HeadAir(c)
  <2>1. h = 0 => b.sin = c.sin
    OBVIOUS
  <2> QED BY <1>2, <1>14, <2>1 DEF HeadAir
<1>16. t = 0 => TailAir(b) = TailAir(c)
  <2>1. t = 0 => SourceEnd(b) = SourceEnd(c)
    BY <1>8
  <2> QED BY <1>2, <1>14, <2>1 DEF TailAir
<1>17. (h = HeadCut(c) \/ ~(HeadCut(c) > 0)) => HeadTrim(d, b) = <<>>
  <2>1. HeadTrim(d, b) = IF down - KeepAir - b.sin > 0
                         THEN <<AirTrim(d, b, "head", down - KeepAir - b.sin)>> ELSE <<>>
    BY <1>4, <1>14 DEF HeadTrim
  <2>2. (h = HeadCut(c) \/ ~(HeadCut(c) > 0)) => ~(down - KeepAir - b.sin > 0)
    BY <1>1, <1>5, <1>6, <1>9
  <2> QED BY <2>1, <2>2
<1>18. (t = TailCut(c) \/ ~(TailCut(c) > 0)) => TailTrim(d, b) = <<>>
  <2> DEFINE less == SourceEnd(b) - (up + KeepAir)
             trim == <<AirTrim(d, b, "tail", -less)>>
  <2>1. TailTrim(d, b) = IF less > 0 THEN trim ELSE <<>>
    BY <1>4, <1>14 DEF TailTrim
  <2>2. (t = TailCut(c) \/ ~(TailCut(c) > 0)) => ~(less > 0)
    BY <1>1, <1>5, <1>7, <1>8, <1>9
  <2> HIDE DEF less, trim
  <2> QED BY <2>1, <2>2
<1> QED BY <1>13, <1>15, <1>16, <1>17, <1>18

\* What a part of a compound does to the clips.
LEMMA PartIs ==
    ASSUME NEW d, NEW m, NEW sync, NEW A, Part(A, d, m, sync),
           NEW x, A = <<>> \/ A = <<x>>, NEW id \in ClipIds(d)
    PROVE  /\ id \in ClipIds(m)
           /\ A # <<>> /\ id = x.clip =>
                  Retrimmed(FindClip(m, id), FindClip(d, id), TRUE, x.edge, x.delta)
           /\ (\/ A = <<>>
               \/ id # x.clip /\ FindClip(d, x.clip).group = None
               \/ id # x.clip /\ FindClip(d, id).group # FindClip(d, x.clip).group) =>
                  Retrimmed(FindClip(m, id), FindClip(d, id), FALSE, x.edge, x.delta)
<1>1. CASE A = <<>>
  <2>1. m = d
    BY <1>1 DEF Part
  <2>2. \A y, edge, delta : Retrimmed(y, y, FALSE, edge, delta)
    BY DEF Retrimmed
  <2> QED BY <1>1, <2>1, <2>2
<1>2. CASE A = <<x>>
  <2> DEFINE op == RippleOf(x, sync)
  <2>1. A # <<>> /\ Rippled(d, m, op)
    <3>1. PICK y : A = <<y>> /\ Rippled(d, m, RippleOf(y, sync))
      BY <1>2 DEF Part
    <3>2. y = x
      BY <1>2, <3>1
    <3> QED BY <1>2, <3>1, <3>2
  <2>2. op.clip = x.clip /\ op.edge = x.edge /\ op.delta = x.delta
    BY DEF RippleOf
  <2> HIDE DEF op
  <2>3. /\ id \in ClipIds(m)
        /\ Retrimmed(FindClip(m, id), FindClip(d, id),
                     id \in {x.clip} \cup Range(op.linked), x.edge, x.delta)
    BY <2>1, <2>2 DEF Rippled
  <2>4. id # x.clip /\ id \in Range(op.linked) =>
            /\ FindClip(d, x.clip).group # None
            /\ FindClip(d, id).group = FindClip(d, x.clip).group
    BY <2>1, <2>2 DEF Rippled
  <2>5. CASE id = x.clip
    BY <2>1, <2>3, <2>5 DEF Retrimmed
  <2>6. CASE id # x.clip
    BY <2>1, <2>3, <2>4, <2>6 DEF Retrimmed
  <2> QED BY <2>5, <2>6
<1> QED BY <1>1, <1>2

\* HeadTrim and TailTrim are one trim or none.
LEMMA EndTrims ==
    ASSUME DOMAIN levels \subseteq Int, NEW d, NEW c, c.sin \in Int, c.dur \in Int,
           SpeechOf(c) # {}
    PROVE  /\ HeadTrim(d, c) = IF HeadCut(c) > 0
                               THEN <<AirTrim(d, c, "head", HeadCut(c))>> ELSE <<>>
           /\ TailTrim(d, c) = IF TailCut(c) > 0
                               THEN <<AirTrim(d, c, "tail", -TailCut(c))>> ELSE <<>>
           /\ HeadCut(c) \in Int /\ TailCut(c) \in Int
<1>1. SpeechStart(c) \in Int /\ SpeechEnd(c) \in Int
  BY SpeechBounds
<1>2. FrameDown(SpeechStart(c)) \in Int /\ FrameUp(SpeechEnd(c)) \in Int /\ KeepAir \in Int
  BY <1>1, FrameDownIs, FrameUpIs, GridAssumption
<1>3. HeadCut(c) \in Int /\ TailCut(c) \in Int
  BY <1>2 DEF HeadCut, TailCut, SourceEnd
<1>4. HeadTrim(d, c) = IF HeadCut(c) > 0
                       THEN <<AirTrim(d, c, "head", HeadCut(c))>> ELSE <<>>
  BY Zenon DEF HeadTrim, HeadCut
<1>5. TailTrim(d, c) = IF TailCut(c) > 0
                       THEN <<AirTrim(d, c, "tail", -TailCut(c))>> ELSE <<>>
  BY Zenon DEF TailTrim, TailCut
<1> QED BY <1>3, <1>4, <1>5

LEMMA ShortLists == Len(<<>>) <= 1 /\ \A x : Len(<<x>>) <= 1
  OBVIOUS

LEMMA BoundarySettles ==
    ASSUME DOMAIN levels \subseteq Int, NEW d, TidyDoc(d), NEW id \in ClipIds(d),
           NEW op, op.exact = Nothing, ApplyTrimBoundaryAir(d, op).ok,
           op.trims = ResolveBoundaryAir(d, FindClip(d, id)), op.trims # <<>>,
           NEW e, e = ApplyTrimBoundaryAir(d, op).doc
    PROVE  ResolveBoundaryAir(e, FindClip(e, id)) = <<>>
<1>1. PICK c : c = FindClip(d, id)
  OBVIOUS
<1>2. c.id = id /\ c.sin \in Int /\ c.dur \in Int
  BY <1>1, Found DEF Sound
<1>3. SpeechOf(c) # {}
  BY <1>1 DEF ResolveBoundaryAir
<1> DEFINE A == IF HeadAir(c) >= MinimumAir THEN HeadTrim(d, c) ELSE <<>>
           B == IF TailAir(c) >= MinimumAir THEN TailTrim(d, c) ELSE <<>>
<1>4. op.trims = A \o B
  BY <1>1, <1>3 DEF ResolveBoundaryAir
<1>5. PICK p, q : p = HeadCut(c) /\ q = -TailCut(c)
  OBVIOUS
<1>6. /\ p \in Int /\ q \in Int /\ TailCut(c) = -q
      /\ HeadTrim(d, c) = IF p > 0 THEN <<AirTrim(d, c, "head", p)>> ELSE <<>>
      /\ TailTrim(d, c) = IF TailCut(c) > 0 THEN <<AirTrim(d, c, "tail", q)>> ELSE <<>>
  <2>1. HeadCut(c) \in Int /\ TailCut(c) \in Int
    BY <1>2, <1>3, EndTrims
  <2>2. p \in Int /\ q \in Int /\ TailCut(c) = -q
    BY <1>5, <2>1
  <2>3. HeadTrim(d, c) = IF p > 0 THEN <<AirTrim(d, c, "head", p)>> ELSE <<>>
    BY <1>2, <1>3, <1>5, EndTrims, Zenon
  <2>4. TailTrim(d, c) = IF TailCut(c) > 0 THEN <<AirTrim(d, c, "tail", q)>> ELSE <<>>
    BY <1>2, <1>3, <1>5, EndTrims, Zenon
  <2> QED BY <2>2, <2>3, <2>4
<1>7. /\ A = <<>> \/ A = <<AirTrim(d, c, "head", p)>>
      /\ B = <<>> \/ B = <<AirTrim(d, c, "tail", q)>>
  BY <1>6, Zenon
<1>8. /\ A # <<>> => p > 0
      /\ A = <<>> => ~(HeadAir(c) >= MinimumAir) \/ ~(p > 0)
      /\ B # <<>> => TailCut(c) > 0
      /\ B = <<>> => ~(TailAir(c) >= MinimumAir) \/ ~(TailCut(c) > 0)
  BY <1>6
<1>9. IsTrims(A) /\ IsTrims(B)
  BY <1>2, <1>3, NoTrims, TrimsOfOneClip
<1> HIDE DEF A, B
<1>10. Len(A) <= 1 /\ Len(B) <= 1
  BY <1>7, ShortLists, Zenon
<1>11. PICK m : Part(A, d, m, op.sync) /\ Part(B, m, e, op.sync)
  BY <1>4, <1>9, <1>10, TwoParts
<1>12. PICK x, b : x = FindClip(m, id) /\ b = FindClip(e, id)
  OBVIOUS
<1> DEFINE head == AirTrim(d, c, "head", p)
           tail == AirTrim(d, c, "tail", q)
<1>13. /\ head.clip = id /\ head.edge = "head" /\ head.delta = p
       /\ tail.clip = id /\ tail.edge = "tail" /\ tail.delta = q
  BY <1>2 DEF AirTrim
<1>14. (A = <<>> \/ A = <<head>>) /\ (B = <<>> \/ B = <<tail>>)
  BY <1>7
<1> HIDE DEF head, tail
<1>15. /\ id \in ClipIds(m)
       /\ A # <<>> => Retrimmed(x, c, TRUE, "head", p)
       /\ A = <<>> => Retrimmed(x, c, FALSE, "head", p)
  <2>1. Part(A, d, m, op.sync) /\ (A = <<>> \/ A = <<head>>)
    BY <1>11, <1>14
  <2>2. /\ id \in ClipIds(m)
        /\ A # <<>> /\ id = head.clip =>
               Retrimmed(FindClip(m, id), FindClip(d, id), TRUE, head.edge, head.delta)
        /\ A = <<>> =>
               Retrimmed(FindClip(m, id), FindClip(d, id), FALSE, head.edge, head.delta)
    BY <2>1, PartIs
  <2> QED BY <1>1, <1>12, <1>13, <2>2
<1>16. /\ B # <<>> => Retrimmed(b, x, TRUE, "tail", q)
       /\ B = <<>> => Retrimmed(b, x, FALSE, "tail", q)
  <2>1. Part(B, m, e, op.sync) /\ (B = <<>> \/ B = <<tail>>)
    BY <1>11, <1>14
  <2>2. /\ B # <<>> /\ id = tail.clip =>
               Retrimmed(FindClip(e, id), FindClip(m, id), TRUE, tail.edge, tail.delta)
        /\ B = <<>> =>
               Retrimmed(FindClip(e, id), FindClip(m, id), FALSE, tail.edge, tail.delta)
    BY <1>15, <2>1, PartIs
  <2> QED BY <1>12, <1>13, <2>2
<1>17. PICK h, t : /\ h = IF A # <<>> THEN p ELSE 0
                   /\ t = IF B # <<>> THEN -q ELSE 0
  OBVIOUS
<1>18. /\ b.sin \in Int /\ b.dur \in Int
       /\ b.sin = c.sin + h /\ SourceEnd(b) = SourceEnd(c) - t
  <2>1. x.sin = c.sin + h /\ x.dur = c.dur - h
    BY <1>2, <1>6, <1>15, <1>17 DEF Retrimmed
  <2>2. b.sin = x.sin /\ b.dur = x.dur - t
    BY <1>2, <1>6, <1>16, <1>17, <2>1 DEF Retrimmed
  <2>3. h \in Int /\ t \in Int
    BY <1>6, <1>17
  <2> QED BY <1>2, <2>1, <2>2, <2>3 DEF SourceEnd
<1>19. /\ h = 0 \/ (h = HeadCut(c) /\ h > 0)
       /\ t = 0 \/ (t = TailCut(c) /\ t > 0)
  BY <1>5, <1>6, <1>8, <1>17
<1>20. /\ SpeechOf(b) = SpeechOf(c)
       /\ h = 0 => HeadAir(b) = HeadAir(c)
       /\ t = 0 => TailAir(b) = TailAir(c)
       /\ (h = HeadCut(c) \/ ~(HeadCut(c) > 0)) => HeadTrim(e, b) = <<>>
       /\ (t = TailCut(c) \/ ~(TailCut(c) > 0)) => TailTrim(e, b) = <<>>
  BY <1>2, <1>3, <1>18, <1>19, Settled
<1>21. HeadAir(b) >= MinimumAir => HeadTrim(e, b) = <<>>
  <2>1. CASE A # <<>>
    <3>1. h = HeadCut(c)
      BY <1>5, <1>17, <2>1
    <3> QED BY <1>20, <3>1
  <2>2. CASE A = <<>>
    <3>1. h = 0
      BY <1>17, <2>2
    <3> QED BY <1>5, <1>8, <1>20, <2>2, <3>1
  <2> QED BY <2>1, <2>2
<1>22. TailAir(b) >= MinimumAir => TailTrim(e, b) = <<>>
  <2>1. CASE B # <<>>
    <3>1. t = TailCut(c)
      BY <1>6, <1>17, <2>1
    <3> QED BY <1>20, <3>1
  <2>2. CASE B = <<>>
    <3>1. t = 0
      BY <1>17, <2>2
    <3> QED BY <1>8, <1>20, <2>2, <3>1
  <2> QED BY <2>1, <2>2
<1>23. <<>> \o <<>> = <<>>
  OBVIOUS
<1>24. ResolveBoundaryAir(e, b) = <<>>
  <2> DEFINE y == IF HeadAir(b) >= MinimumAir THEN HeadTrim(e, b) ELSE <<>>
             z == IF TailAir(b) >= MinimumAir THEN TailTrim(e, b) ELSE <<>>
  <2>1. y = <<>> /\ z = <<>>
    BY <1>21, <1>22
  <2>2. ResolveBoundaryAir(e, b) = y \o z
    BY <1>3, <1>20 DEF ResolveBoundaryAir
  <2> HIDE DEF y, z
  <2> QED BY <1>23, <2>1, <2>2
<1> QED BY <1>12, <1>24

LEMMA JunctionSettles ==
    ASSUME DOMAIN levels \subseteq Int, NEW d, TidyDoc(d),
           NEW i \in ClipIds(d), NEW j \in ClipIds(d), i # j,
           FindTrackForClip(d, i) = FindTrackForClip(d, j),
           NEW op, op.exact = Nothing, ApplyTrimBoundaryAir(d, op).ok,
           op.trims = ResolveJunctionAir(d, FindClip(d, i), FindClip(d, j)),
           op.trims # <<>>,
           \A k \in DOMAIN op.trims : OnePerTrack(d, FindClip(d, op.trims[k].clip)),
           NEW e, e = ApplyTrimBoundaryAir(d, op).doc
    PROVE  Closed(e, FindClip(e, i), FindClip(e, j))
<1>1. PICK l, r : l = FindClip(d, i) /\ r = FindClip(d, j)
  OBVIOUS
<1>2. /\ l.id = i /\ l.sin \in Int /\ l.dur \in Int
      /\ r.id = j /\ r.sin \in Int /\ r.dur \in Int
  BY <1>1, Found DEF Sound
<1>3. /\ SpeechOf(l) # {} /\ SpeechOf(r) # {}
      /\ op.trims = TailTrim(d, l) \o HeadTrim(d, r)
  BY <1>1 DEF ResolveJunctionAir
<1>4. PICK A, B : A = TailTrim(d, l) /\ B = HeadTrim(d, r)
  OBVIOUS
<1>5. PICK p, q : p = HeadCut(r) /\ q = -TailCut(l)
  OBVIOUS
<1> DEFINE tail == AirTrim(d, l, "tail", q)
           head == AirTrim(d, r, "head", p)
<1>6. /\ p \in Int /\ q \in Int /\ TailCut(l) = -q
      /\ B = IF p > 0 THEN <<head>> ELSE <<>>
      /\ A = IF TailCut(l) > 0 THEN <<tail>> ELSE <<>>
  <2>1. HeadCut(r) \in Int /\ TailCut(l) \in Int
    BY <1>2, <1>3, EndTrims
  <2>2. p \in Int /\ q \in Int /\ TailCut(l) = -q
    BY <1>5, <2>1
  <2>3. B = IF p > 0 THEN <<head>> ELSE <<>>
    BY <1>2, <1>3, <1>4, <1>5, EndTrims, Zenon
  <2>4. A = IF TailCut(l) > 0 THEN <<tail>> ELSE <<>>
    BY <1>2, <1>3, <1>4, <1>5, EndTrims, Zenon
  <2> QED BY <2>2, <2>3, <2>4
<1>7. /\ tail.clip = i /\ tail.edge = "tail" /\ tail.delta = q
      /\ head.clip = j /\ head.edge = "head" /\ head.delta = p
  BY <1>2 DEF AirTrim
<1> HIDE DEF head, tail
<1>8. /\ A = <<>> \/ A = <<tail>>
      /\ B = <<>> \/ B = <<head>>
      /\ A # <<>> => TailCut(l) > 0
      /\ A = <<>> => ~(TailCut(l) > 0)
      /\ B # <<>> => p > 0
      /\ B = <<>> => ~(p > 0)
  BY <1>6
<1>9. IsTrims(A) /\ IsTrims(B)
  BY <1>2, <1>3, <1>4, TrimsOfOneClip
<1>10. Len(A) <= 1 /\ Len(B) <= 1
  BY <1>8, ShortLists, Zenon
<1>11. /\ A # <<>> => OnePerTrack(d, l)
       /\ B # <<>> => OnePerTrack(d, r)
  <2>1. ASSUME A # <<>> PROVE OnePerTrack(d, l)
    <3>1. A = <<tail>> /\ (B = <<>> \/ B = <<head>>)
      BY <1>8, <2>1
    <3>2. 1 \in DOMAIN (A \o B) /\ (A \o B)[1] = tail
      BY <3>1
    <3> QED BY <1>1, <1>3, <1>4, <1>7, <3>2
  <2>2. ASSUME B # <<>> PROVE OnePerTrack(d, r)
    <3>1. B = <<head>> /\ (A = <<>> \/ A = <<tail>>)
      BY <1>8, <2>2
    <3>2. \E k \in DOMAIN (A \o B) : (A \o B)[k] = head
      <4>1. CASE A = <<>>
        <5>1. 1 \in DOMAIN (A \o B) /\ (A \o B)[1] = head
          BY <3>1, <4>1
        <5> QED BY <5>1
      <4>2. CASE A = <<tail>>
        <5>1. 2 \in DOMAIN (A \o B) /\ (A \o B)[2] = head
          BY <3>1, <4>2
        <5> QED BY <5>1
      <4> QED BY <3>1, <4>1, <4>2
    <3> QED BY <1>1, <1>3, <1>4, <1>7, <3>2
  <2> QED BY <2>1, <2>2
<1>12. PICK m : Part(A, d, m, op.sync) /\ Part(B, m, e, op.sync)
  BY <1>3, <1>4, <1>9, <1>10, TwoParts
<1>13. PICK lm, rm, le, re : /\ lm = FindClip(m, i) /\ rm = FindClip(m, j)
                             /\ le = FindClip(e, i) /\ re = FindClip(e, j)
  OBVIOUS
<1>14. A # <<>> => l.group = None \/ r.group # l.group
  BY <1>1, <1>11, NotLinked
<1>15. B # <<>> => r.group = None \/ l.group # r.group
  BY <1>1, <1>11, NotLinked
<1>16. /\ i \in ClipIds(m)
       /\ A # <<>> => Retrimmed(lm, l, TRUE, "tail", q)
       /\ A = <<>> => Retrimmed(lm, l, FALSE, "tail", q)
  <2>1. Part(A, d, m, op.sync) /\ (A = <<>> \/ A = <<tail>>)
    BY <1>8, <1>12
  <2>2. /\ i \in ClipIds(m)
        /\ A # <<>> /\ i = tail.clip =>
               Retrimmed(FindClip(m, i), FindClip(d, i), TRUE, tail.edge, tail.delta)
        /\ A = <<>> =>
               Retrimmed(FindClip(m, i), FindClip(d, i), FALSE, tail.edge, tail.delta)
    BY <2>1, PartIs
  <2> QED BY <1>1, <1>7, <1>13, <2>2
<1>17. j \in ClipIds(m) /\ Retrimmed(rm, r, FALSE, "tail", q)
  <2>1. Part(A, d, m, op.sync) /\ (A = <<>> \/ A = <<tail>>)
    BY <1>8, <1>12
  <2>2. /\ j \in ClipIds(m)
        /\ (\/ A = <<>>
            \/ j # tail.clip /\ FindClip(d, tail.clip).group = None
            \/ j # tail.clip /\ FindClip(d, j).group # FindClip(d, tail.clip).group) =>
               Retrimmed(FindClip(m, j), FindClip(d, j), FALSE, tail.edge, tail.delta)
    BY <2>1, PartIs
  <2> QED BY <1>1, <1>7, <1>13, <1>14, <2>2
<1>18. lm.group = l.group /\ rm.group = r.group
  BY <1>16, <1>17 DEF Retrimmed
<1>19. /\ B # <<>> => Retrimmed(re, rm, TRUE, "head", p)
       /\ B = <<>> => Retrimmed(re, rm, FALSE, "head", p)
  <2>1. Part(B, m, e, op.sync) /\ (B = <<>> \/ B = <<head>>)
    BY <1>8, <1>12
  <2>2. /\ B # <<>> /\ j = head.clip =>
               Retrimmed(FindClip(e, j), FindClip(m, j), TRUE, head.edge, head.delta)
        /\ B = <<>> =>
               Retrimmed(FindClip(e, j), FindClip(m, j), FALSE, head.edge, head.delta)
    BY <1>17, <2>1, PartIs
  <2> QED BY <1>7, <1>13, <2>2
<1>20. Retrimmed(le, lm, FALSE, "head", p)
  <2>1. Part(B, m, e, op.sync) /\ (B = <<>> \/ B = <<head>>)
    BY <1>8, <1>12
  <2>2. (\/ B = <<>>
         \/ i # head.clip /\ FindClip(m, head.clip).group = None
         \/ i # head.clip /\ FindClip(m, i).group # FindClip(m, head.clip).group) =>
            Retrimmed(FindClip(e, i), FindClip(m, i), FALSE, head.edge, head.delta)
    BY <1>16, <2>1, PartIs
  <2> QED BY <1>7, <1>13, <1>15, <1>18, <2>2
<1>21. PICK h, t : /\ h = IF B # <<>> THEN p ELSE 0
                   /\ t = IF A # <<>> THEN -q ELSE 0
  OBVIOUS
<1>22. /\ le.sin \in Int /\ le.dur \in Int
       /\ le.sin = l.sin + 0 /\ SourceEnd(le) = SourceEnd(l) - t
  <2>1. lm.sin = l.sin /\ lm.dur = l.dur - t
    BY <1>2, <1>6, <1>16, <1>21 DEF Retrimmed
  <2>2. le.sin = lm.sin /\ le.dur = lm.dur
    BY <1>20 DEF Retrimmed
  <2>3. t \in Int
    BY <1>6, <1>21
  <2> QED BY <1>2, <2>1, <2>2, <2>3 DEF SourceEnd
<1>23. /\ re.sin \in Int /\ re.dur \in Int
       /\ re.sin = r.sin + h /\ SourceEnd(re) = SourceEnd(r) - 0
  <2>1. rm.sin = r.sin /\ rm.dur = r.dur
    BY <1>17 DEF Retrimmed
  <2>2. re.sin = r.sin + h /\ re.dur = r.dur - h
    BY <1>2, <1>6, <1>19, <1>21, <2>1 DEF Retrimmed
  <2>3. h \in Int
    BY <1>6, <1>21
  <2> QED BY <1>2, <2>2, <2>3 DEF SourceEnd
<1>24. SpeechOf(le) # {} /\ TailTrim(e, le) = <<>>
  <2>1. t = 0 \/ (t = TailCut(l) /\ t > 0)
    BY <1>6, <1>8, <1>21
  <2>2. t = TailCut(l) \/ ~(TailCut(l) > 0)
    BY <1>6, <1>8, <1>21
  <2> QED BY <1>2, <1>3, <1>22, <2>1, <2>2, Settled
<1>25. SpeechOf(re) # {} /\ HeadTrim(e, re) = <<>>
  <2>1. h = 0 \/ (h = HeadCut(r) /\ h > 0)
    BY <1>5, <1>8, <1>21
  <2>2. h = HeadCut(r) \/ ~(HeadCut(r) > 0)
    BY <1>5, <1>8, <1>21
  <2> QED BY <1>2, <1>3, <1>23, <2>1, <2>2, Settled
<1> QED BY <1>13, <1>24, <1>25, Zenon DEF Closed

-----------------------------------------------------------------------------
(* The words *)

\* Words that take frames, one after the other.
Ordered(ws) ==
    /\ ws \in Seq(Range(ws))
    /\ \A i \in DOMAIN ws : ws[i].from \in Int /\ ws[i].to \in Int /\ ws[i].from < ws[i].to
    /\ \A i, j \in DOMAIN ws : i < j => ws[i].to <= ws[j].from

LEMMA NoWords == Ordered(<<>>)
<1>1. <<>> \in Seq(Range(<<>>))
  OBVIOUS
<1>2. DOMAIN <<>> = {}
  OBVIOUS
<1> QED BY <1>1, <1>2 DEF Ordered

\* The place left to the next word.
LEMMA OwnIs ==
    ASSUME NEW ws, Ordered(ws), NEW from \in Int
    PROVE  LET own == Max({from} \cup {x.to : x \in Range(ws)})
           IN  own \in Int /\ \A i \in DOMAIN ws : ws[i].to <= own
<1> DEFINE E == {from} \cup {x.to : x \in Range(ws)}
           n == Len(ws)
           own == Max(E)
<1>1. n \in Nat /\ DOMAIN ws = 1..n
  BY DEF Ordered
<1>2. \A y : y \in E <=> (y = from \/ \E i \in DOMAIN ws : y = ws[i].to)
  BY DEF Range
<1> HIDE DEF E
<1>3. \A i \in DOMAIN ws : ws[i].to \in Int /\ ws[i].to <= ws[n].to /\ ws[n].to \in Int
  <2>1. SUFFICES ASSUME NEW i \in DOMAIN ws
                 PROVE  ws[i].to \in Int /\ ws[i].to <= ws[n].to /\ ws[n].to \in Int
    OBVIOUS
  <2>2. i \in Nat /\ n \in DOMAIN ws /\ i <= n
    BY <1>1
  <2>3. CASE i = n
    BY <2>2, <2>3 DEF Ordered
  <2>4. CASE i < n
    BY <2>2, <2>4 DEF Ordered
  <2> QED BY <1>1, <2>2, <2>3, <2>4
<1>4. \E x \in E : \A y \in E : x >= y
  <2>1. CASE n = 0 \/ ws[n].to <= from
    <3>1. \A y \in E : from >= y
      BY <1>1, <1>2, <1>3, <2>1
    <3> QED BY <1>2, <3>1
  <2>2. CASE n # 0 /\ ~(ws[n].to <= from)
    <3>1. n \in DOMAIN ws
      BY <1>1, <2>2
    <3>2. \A y \in E : ws[n].to >= y
      BY <1>2, <1>3, <2>2, <3>1
    <3> QED BY <1>2, <3>1, <3>2
  <2> QED BY <2>1, <2>2
<1>5. own \in E /\ \A y \in E : own >= y
  BY <1>4 DEF Max
<1> HIDE DEF own
<1>6. own \in Int
  BY <1>2, <1>3, <1>5
<1>7. \A i \in DOMAIN ws : ws[i].to <= own
  BY <1>2, <1>3, <1>5, <1>6
<1> QED BY <1>6, <1>7 DEF own, E

LEMMA OrderedAppend ==
    ASSUME NEW ws, Ordered(ws), NEW w, w.from \in Int, w.to \in Int, w.from < w.to,
           \A i \in DOMAIN ws : ws[i].to <= w.from
    PROVE  Ordered(Append(ws, w))
<1> DEFINE n == Len(ws)
           S == Range(ws) \cup {w}
           s == Append(ws, w)
<1>1. n \in Nat /\ DOMAIN ws = 1..n
  BY DEF Ordered
<1>2. ws \in Seq(S) /\ w \in S
  <2>1. ws \in Seq(Range(ws))
    BY DEF Ordered
  <2> QED BY <2>1
<1> HIDE DEF S
<1>3. /\ s \in Seq(S) /\ Len(s) = n + 1 /\ s[n + 1] = w
      /\ \A i \in 1..n : s[i] = ws[i]
  BY <1>1, <1>2
<1> HIDE DEF s
<1>4. DOMAIN s = 1..n + 1
  BY <1>1, <1>3
<1>5. s \in Seq(Range(s))
  <2>1. Len(s) \in Nat /\ s \in [1..Len(s) -> S]
    BY <1>3
  <2>2. s \in [1..Len(s) -> Range(s)]
    BY <2>1 DEF Range
  <2> QED BY <2>1, <2>2
<1>6. ASSUME NEW i \in DOMAIN s
      PROVE  s[i].from \in Int /\ s[i].to \in Int /\ s[i].from < s[i].to
  <2>1. CASE i = n + 1
    BY <1>3, <2>1
  <2>2. CASE i # n + 1
    <3>1. i \in DOMAIN ws /\ s[i] = ws[i]
      BY <1>1, <1>3, <1>4, <2>2
    <3> QED BY <3>1 DEF Ordered
  <2> QED BY <2>1, <2>2
<1>7. ASSUME NEW i \in DOMAIN s, NEW j \in DOMAIN s, i < j
      PROVE  s[i].to <= s[j].from
  <2>1. i \in DOMAIN ws /\ s[i] = ws[i]
    BY <1>1, <1>3, <1>4, <1>7
  <2>2. CASE j = n + 1
    BY <1>3, <2>1, <2>2
  <2>3. CASE j # n + 1
    <3>1. j \in DOMAIN ws /\ s[j] = ws[j]
      BY <1>1, <1>3, <1>4, <2>3
    <3> QED BY <1>7, <2>1, <3>1 DEF Ordered
  <2> QED BY <2>2, <2>3
<1>8. Ordered(s)
  BY <1>5, <1>6, <1>7 DEF Ordered
<1> QED BY <1>8 DEF s

PlacedOK(s) ==
    \E previous \in Int : \E pending, ws :
        /\ s = [previous |-> previous, pending |-> pending, words |-> ws]
        /\ Ordered(ws)

LEMMA PlaceWordIs ==
    ASSUME NEW s, PlacedOK(s), NEW w, w.from \in Int, w.to \in Int
    PROVE  PlacedOK(PlaceWord(s, w))
<1>1. PICK previous \in Int : \E pending, ws :
          /\ s = [previous |-> previous, pending |-> pending, words |-> ws]
          /\ Ordered(ws)
  BY DEF PlacedOK
<1>2. PICK pending, ws :
          /\ s = [previous |-> previous, pending |-> pending, words |-> ws]
          /\ Ordered(ws)
  BY <1>1
<1> DEFINE from == Max({w.from, previous})
           own == Max({from} \cup {x.to : x \in Range(ws)})
           joined == pending \o w.text
           word == [from |-> own, to |-> w.to, text |-> joined]
<1>3. s.previous = previous /\ s.pending = pending /\ s.words = ws
  BY <1>2
<1>4. from \in Int
  BY MaxOfTwo
<1>5. PlaceWord(s, w) =
          IF w.to <= own THEN [s EXCEPT !.previous = from, !.pending = joined]
          ELSE [previous |-> from, pending |-> <<>>, words |-> Append(ws, word)]
  BY <1>3, Zenon DEF PlaceWord
<1> HIDE DEF from
<1>6. own \in Int /\ \A i \in DOMAIN ws : ws[i].to <= own
  BY <1>2, <1>4, OwnIs
<1> HIDE DEF own, joined
<1>7. CASE w.to <= own
  <2>1. PlaceWord(s, w) = [previous |-> from, pending |-> joined, words |-> ws]
    BY <1>2, <1>5, <1>7
  <2> QED BY <1>2, <1>4, <2>1 DEF PlacedOK
<1>8. CASE ~(w.to <= own)
  <2>1. word.from = own /\ word.to = w.to
    OBVIOUS
  <2>2. own < w.to
    BY <1>6, <1>8
  <2> HIDE DEF word
  <2>3. Ordered(Append(ws, word))
    BY <1>2, <1>6, <2>1, <2>2, OrderedAppend
  <2>4. PlaceWord(s, w) = [previous |-> from, pending |-> <<>>, words |-> Append(ws, word)]
    BY <1>5, <1>8
  <2> QED BY <1>4, <2>3, <2>4 DEF PlacedOK
<1> QED BY <1>7, <1>8

\* The recursion of NormalizeTranscriptWords.
PlacedIs(z, spoken, m) ==
    z = [i \in 0..m |->
            IF i = 0 THEN [previous |-> -1, pending |-> <<>>, words |-> <<>>]
            ELSE PlaceWord(z[i - 1], RoundedWord(spoken[i]))]

LEMMA PlacedExists ==
    ASSUME NEW spoken, NEW m \in Nat
    PROVE  \E z : PlacedIs(z, spoken, m)
<1> DEFINE T == {n \in Nat : ~\E z : PlacedIs(z, spoken, n)}
           first == [previous |-> -1, pending |-> <<>>, words |-> <<>>]
<1>1. SUFFICES ASSUME T # {} PROVE FALSE
  OBVIOUS
<1>2. PICK k \in T : \A y \in T : k <= y
  <2>1. T \in SUBSET Nat
    OBVIOUS
  <2> HIDE DEF T
  <2> QED BY <1>1, <2>1, LeastOf
<1>3. k # 0
  <2>1. PlacedIs([i \in 0..0 |-> first], spoken, 0)
    <3>1. \A i \in 0..0 : i = 0
      OBVIOUS
    <3> HIDE DEF first
    <3>2. [i \in 0..0 |-> first] =
              [i \in 0..0 |-> IF i = 0 THEN first
                  ELSE PlaceWord([j \in 0..0 |-> first][i - 1], RoundedWord(spoken[i]))]
      BY <3>1
    <3> QED BY <3>2 DEF PlacedIs, first
  <2> QED BY <2>1
<1>4. k - 1 \in Nat /\ k - 1 \notin T
  BY <1>2, <1>3
<1>5. PICK r : PlacedIs(r, spoken, k - 1)
  BY <1>4
<1> DEFINE g == [i \in 0..k |->
                    IF i = k THEN PlaceWord(r[k - 1], RoundedWord(spoken[k])) ELSE r[i]]
<1>6. \A i \in 0..k - 1 : r[i] = IF i = 0 THEN first
                                 ELSE PlaceWord(r[i - 1], RoundedWord(spoken[i]))
  <2>1. r = [i \in 0..k - 1 |-> IF i = 0 THEN first
                                ELSE PlaceWord(r[i - 1], RoundedWord(spoken[i]))]
    BY <1>5, Zenon DEF PlacedIs
  <2> HIDE DEF first
  <2> QED BY <1>4, <2>1
<1>7. \A i \in 0..k : g[i] = IF i = 0 THEN first
                             ELSE PlaceWord(g[i - 1], RoundedWord(spoken[i]))
  <2> HIDE DEF first
  <2> QED BY <1>3, <1>4, <1>6
<1>8. PlacedIs(g, spoken, k)
  <2>1. DOMAIN g = 0..k /\ g = [i \in 0..k |-> g[i]]
    OBVIOUS
  <2> HIDE DEF g
  <2>2. g = [i \in 0..k |-> IF i = 0 THEN first
                            ELSE PlaceWord(g[i - 1], RoundedWord(spoken[i]))]
    <3> HIDE DEF first
    <3> QED BY <1>7, <2>1
  <2> QED BY <2>2, Zenon DEF PlacedIs
<1> QED BY <1>2, <1>8

LEMMA NormalizedWords ==
    ASSUME NEW spoken, spoken \in Seq(Range(spoken)),
           \A w \in Range(spoken) : {w.from, w.to} \subseteq Nat
    PROVE  Ordered(NormalizeTranscriptWords(spoken))
<1> DEFINE len == Len(spoken)
           z == CHOOSE y : PlacedIs(y, spoken, len)
           first == [previous |-> -1, pending |-> <<>>, words |-> <<>>]
           s == z[len]
           n == Len(s.words)
<1>1. len \in Nat /\ DOMAIN spoken = 1..len
  OBVIOUS
<1>2. PlacedIs(z, spoken, len)
  <2> HIDE DEF len
  <2> QED BY <1>1, PlacedExists
<1>3. NormalizeTranscriptWords(spoken) =
          IF n = 0 THEN <<>> ELSE [s.words EXCEPT ![n].text = @ \o s.pending]
  BY Zenon DEF NormalizeTranscriptWords, PlacedIs
<1> HIDE DEF z
<1>4. \A i \in 0..len : z[i] = IF i = 0 THEN first
                               ELSE PlaceWord(z[i - 1], RoundedWord(spoken[i]))
  <2>1. z = [i \in 0..len |-> IF i = 0 THEN first
                              ELSE PlaceWord(z[i - 1], RoundedWord(spoken[i]))]
    BY <1>2, Zenon DEF PlacedIs
  <2> HIDE DEF first, len
  <2> QED BY <1>1, <2>1
<1> DEFINE T == {i \in Nat : i <= len /\ ~PlacedOK(z[i])}
<1>5. T = {}
  <2>1. SUFFICES ASSUME T # {} PROVE FALSE
    OBVIOUS
  <2>2. PICK k \in T : \A y \in T : k <= y
    <3>1. T \in SUBSET Nat
      OBVIOUS
    <3> HIDE DEF T
    <3> QED BY <2>1, <3>1, LeastOf
  <2>3. k # 0
    <3>1. PlacedOK(first)
      <4>1. -1 \in Int
        OBVIOUS
      <4> QED BY <4>1, NoWords DEF PlacedOK
    <3> HIDE DEF first
    <3>2. z[0] = first
      BY <1>1, <1>4
    <3> QED BY <2>2, <3>1, <3>2
  <2>4. k - 1 \in Nat /\ PlacedOK(z[k - 1]) /\ k \in 1..len
    BY <1>1, <2>2, <2>3
  <2> DEFINE w == RoundedWord(spoken[k])
             e == spoken[k]
  <2>5. z[k] = PlaceWord(z[k - 1], w)
    <3> HIDE DEF first
    <3> QED BY <1>1, <1>4, <2>4
  <2>6. e.from \in Int /\ e.to \in Int
    <3>1. e \in Range(spoken)
      BY <1>1, <2>4 DEF Range
    <3> HIDE DEF e
    <3> QED BY <3>1
  <2>7. w.from \in Int /\ w.to \in Int
    <3>1. w.from = FrameDown(e.from) /\ w.to = FrameUp(e.to)
      BY DEF RoundedWord
    <3> HIDE DEF w, e
    <3> QED BY <2>6, <3>1, FrameDownIs, FrameUpIs
  <2> HIDE DEF w, e
  <2>8. PlacedOK(z[k])
    BY <2>4, <2>5, <2>7, PlaceWordIs
  <2> QED BY <2>2, <2>8
<1>6. PlacedOK(s)
  BY <1>1, <1>5
<1> HIDE DEF s
<1>7. Ordered(s.words)
  BY <1>6 DEF PlacedOK
<1> DEFINE ws == s.words
           text == ws[n].text \o s.pending
           last == [ws[n] EXCEPT !.text = text]
           r == [ws EXCEPT ![n] = last]
<1>8. CASE n = 0
  BY <1>3, <1>8, NoWords
<1>9. CASE n # 0
  <2>1. NormalizeTranscriptWords(spoken) = r
    BY <1>3, <1>9
  <2>2. n \in Nat /\ DOMAIN ws = 1..n /\ n \in DOMAIN ws /\ ws \in Seq(Range(ws))
    BY <1>7, <1>9 DEF Ordered
  <2> HIDE DEF text, ws, n
  <2>3. last.from = ws[n].from /\ last.to = ws[n].to
    OBVIOUS
  <2> HIDE DEF last
  <2>4. /\ DOMAIN r = DOMAIN ws /\ r[n] = last
        /\ \A i \in DOMAIN ws : i # n => r[i] = ws[i]
    BY <2>2
  <2>5. r \in Seq(Range(r))
    <3>1. r = [i \in DOMAIN ws |-> r[i]]
      BY <2>2
    <3> HIDE DEF r
    <3>2. r \in [1..n -> Range(r)]
      BY <2>2, <2>4, <3>1 DEF Range
    <3> QED BY <2>2, <3>2
  <2> HIDE DEF r
  <2>6. \A i \in DOMAIN ws : r[i].from = ws[i].from /\ r[i].to = ws[i].to
    BY <2>3, <2>4
  <2>7. Ordered(ws)
    BY <1>7 DEF ws
  <2>8. Ordered(r)
    BY <2>4, <2>5, <2>6, <2>7 DEF Ordered
  <2> QED BY <2>1, <2>8
<1> QED BY <1>8, <1>9

-----------------------------------------------------------------------------
(* What the tools cut *)

LEMMA RangesFrom ==
    ASSUME NEW lo \in Int, NEW hi \in Int, NEW S \in SUBSET Spans(lo, hi),
           NEW f, \A r \in S : f \notin r.from..r.to - 1
    PROVE  IsRanges(InOrderOfTime(S)) /\ Outside(f, InOrderOfTime(S))
<1> DEFINE rs == InOrderOfTime(S)
<1>1. rs \in Seq(S) /\ Range(rs) \subseteq S
  BY InOrderOfTimeIs
<1> HIDE DEF rs
<1>2. Len(rs) \in Nat /\ DOMAIN rs = 1..Len(rs) /\ \A i \in DOMAIN rs : rs[i] \in S
  BY <1>1
<1>3. rs \in Seq(Range(rs))
  <2>1. rs \in [1..Len(rs) -> S]
    BY <1>1
  <2>2. rs \in [1..Len(rs) -> Range(rs)]
    BY <2>1 DEF Range
  <2> QED BY <1>2, <2>2
<1>4. \A r \in S : r.from \in Int /\ r.to \in Int
  BY DEF Spans
<1>5. IsRanges(rs)
  BY <1>2, <1>3, <1>4 DEF IsRanges
<1>6. Outside(f, rs)
  BY <1>2 DEF Outside
<1> QED BY <1>5, <1>6 DEF rs

LEMMA PauseCutIs ==
    ASSUME DOMAIN levels \subseteq Int, NEW c, NEW h \in InnerHollows(c)
    PROVE  PauseCut(h) \in [from : Int, to : Int]
<1>1. ClipWindows(c) \subseteq Int
  BY DEF ClipWindows
<1>2. h.from \in Int /\ h.to \in Int
  BY <1>1 DEF InnerHollows
<1> DEFINE a == h.from * WindowTicks
           b == h.to * WindowTicks
           head == (KeepFrames + 1) \div 2
           tail == KeepFrames \div 2
<1>3. WindowTicks \in Nat \ {0} /\ KeepFrames \in Nat
  BY GridAssumption
<1>4. a \in Int /\ b \in Int /\ head \in Nat /\ tail \in Nat
  BY <1>2, <1>3
<1>5. FrameUp(a) \in Int /\ FrameDown(b) \in Int
  <2> HIDE DEF a, b
  <2> QED BY <1>4, FrameUpIs, FrameDownIs
<1>6. PauseCut(h) = [from |-> FrameUp(a) + head, to |-> FrameDown(b) - tail]
  BY DEF PauseCut
<1> HIDE DEF a, b, head, tail
<1> DEFINE from == FrameUp(a) + head
           to == FrameDown(b) - tail
<1>7. from \in Int /\ to \in Int
  BY <1>4, <1>5
<1> HIDE DEF from, to
<1>8. PauseCut(h) = [from |-> from, to |-> to]
  BY <1>6 DEF from, to
<1> QED BY <1>7, <1>8

\* No frame of speech is in a range that ResolvePauseTightening gives.
LEMMA PausesAreSilent ==
    ASSUME DOMAIN levels \subseteq Int, NEW c, c.sin \in Int, c.dur \in Int
    PROVE  /\ IsRanges(ResolvePauseTightening(c))
           /\ \A f \in SpokenFrames(c) : Outside(f, ResolvePauseTightening(c))
<1> DEFINE long == {h \in InnerHollows(c) : (h.to - h.from) * WindowTicks >= MinimumGap}
           S == {r \in {PauseCut(h) : h \in long} :
                    r.from < r.to /\ r.from >= c.sin /\ r.to <= SourceEnd(c)}
<1>1. ResolvePauseTightening(c) = InOrderOfTime(S)
  BY DEF ResolvePauseTightening
<1>2. \A r \in S : \E h \in InnerHollows(c) : r = PauseCut(h)
  OBVIOUS
<1>3. \A r \in S : r.from < r.to /\ r.from >= c.sin /\ r.to <= SourceEnd(c)
  OBVIOUS
<1> HIDE DEF S
<1>4. c.sin \in Int /\ SourceEnd(c) \in Int
  BY DEF SourceEnd
<1>5. S \in SUBSET Spans(c.sin, SourceEnd(c))
  <2>1. SUFFICES ASSUME NEW r \in S PROVE r \in Spans(c.sin, SourceEnd(c))
    OBVIOUS
  <2>2. r \in [from : Int, to : Int]
    BY <1>2, PauseCutIs
  <2> QED BY <1>3, <1>4, <2>2 DEF Spans
<1>6. \A f \in SpokenFrames(c) : \A r \in S : f \notin r.from..r.to - 1
  BY <1>2, CutIsSilent
<1>7. IsRanges(InOrderOfTime(S))
  <2>1. \A r \in S : c.sin - 1 \notin r.from..r.to - 1
    <3>1. \A r \in S : r.from \in Int /\ r.to \in Int
      BY <1>5 DEF Spans
    <3> QED BY <1>3, <1>4, <3>1
  <2> QED BY <1>4, <1>5, <2>1, RangesFrom
<1>8. \A f \in SpokenFrames(c) : Outside(f, InOrderOfTime(S))
  BY <1>4, <1>5, <1>6, RangesFrom
<1> QED BY <1>1, <1>7, <1>8

\* The disfluencies and the words of a call are runs of words.
Runs(found) ==
    \A x \in found : x.first \in DOMAIN words /\ x.last \in DOMAIN words
                     /\ x.first <= x.last

LEMMA DisfluenciesAre ==
    ASSUME Ordered(words)
    PROVE  Runs(FindDisfluencies)
<1> DEFINE N == DOMAIN words
<1>1. N \subseteq Nat /\ \A i \in N : i >= 1 /\ \A j \in 1..i : j \in N
  <2>1. Len(words) \in Nat /\ N = 1..Len(words)
    BY DEF Ordered
  <2> QED BY <2>1
<1>2. ASSUME NEW x \in FindDisfluencies
      PROVE  x.first \in N /\ x.last \in N /\ x.first <= x.last
  <2>1. \E a, b \in N : \/ x = [kind |-> "Filler", first |-> a, last |-> b] /\ a <= b
                        \/ x = [kind |-> "Repetition", first |-> a, last |-> b - 1]
                           /\ a < b
    BY DEF FindDisfluencies
  <2>2. PICK a \in N, b \in N :
            \/ x = [kind |-> "Filler", first |-> a, last |-> b] /\ a <= b
            \/ x = [kind |-> "Repetition", first |-> a, last |-> b - 1] /\ a < b
    BY <2>1
  <2> HIDE DEF N
  <2>3. CASE x = [kind |-> "Filler", first |-> a, last |-> b] /\ a <= b
    BY <2>3
  <2>4. CASE x = [kind |-> "Repetition", first |-> a, last |-> b - 1] /\ a < b
    <3> DEFINE l == b - 1
    <3>1. a \in Nat /\ b \in Nat /\ a >= 1 /\ \A j \in 1..b : j \in N
      BY <1>1
    <3>2. l \in N /\ a <= l
      BY <2>4, <3>1
    <3> HIDE DEF l
    <3>3. x.first = a /\ x.last = l
      BY <2>4 DEF l
    <3> QED BY <3>2, <3>3
  <2> QED BY <2>2, <2>3, <2>4
<1> QED BY <1>2 DEF Runs

\* A word outside of the runs removed shares no frame with them.
WordsApart(rs) ==
    \A i \in DOMAIN words :
        ~(\E r \in Range(rs) : r.from <= words[i].from /\ words[i].to <= r.to) =>
            \A f \in words[i].from..words[i].to - 1 : Outside(f, rs)

LEMMA RemovalIsExact ==
    ASSUME Ordered(words), NEW found, Runs(found)
    PROVE  IsRanges(ResolveWordRemoval(found)) /\ WordsApart(ResolveWordRemoval(found))
<1> DEFINE range(x) == [from |-> words[x.first].from, to |-> words[x.last].to]
           S == {range(x) : x \in found}
           rs == InOrderOfTime(S)
           n == Len(words)
<1>1. ResolveWordRemoval(found) = rs
  BY DEF ResolveWordRemoval
<1>2. n \in Nat /\ DOMAIN words = 1..n
  BY DEF Ordered
<1>3. \A i \in DOMAIN words : words[i].from \in Int /\ words[i].to \in Int
                              /\ words[i].from < words[i].to
  BY DEF Ordered
<1>4. \A i, j \in DOMAIN words : i <= j => /\ words[i].from <= words[j].from
                                           /\ words[i].to <= words[j].to
  <2>1. SUFFICES ASSUME NEW i \in DOMAIN words, NEW j \in DOMAIN words, i <= j
                 PROVE  words[i].from <= words[j].from /\ words[i].to <= words[j].to
    OBVIOUS
  <2>2. CASE i = j
    BY <1>3, <2>2
  <2>3. CASE i < j
    <3>1. words[i].to <= words[j].from
      BY <2>3 DEF Ordered
    <3> QED BY <1>3, <3>1
  <2> QED BY <1>2, <2>1, <2>2, <2>3
<1>5. ASSUME NEW r \in S
      PROVE  \E a, b \in DOMAIN words : /\ a <= b /\ r.from = words[a].from
                                        /\ r.to = words[b].to
                                        /\ r = [from |-> r.from, to |-> r.to]
  <2>1. PICK x \in found : r = range(x)
    OBVIOUS
  <2>2. x.first \in DOMAIN words /\ x.last \in DOMAIN words /\ x.first <= x.last
    BY DEF Runs
  <2> QED BY <2>1, <2>2
<1> HIDE DEF S
<1>6. \E lo, hi \in Int : S \in SUBSET Spans(lo, hi)
  <2>1. CASE n = 0
    <3>1. S = {}
      BY <1>2, <1>5, <2>1
    <3> QED BY <3>1
  <2>2. CASE n # 0
    <3> DEFINE lo == words[1].from
               hi == words[n].to
    <3>1. 1 \in DOMAIN words /\ n \in DOMAIN words
      BY <1>2, <2>2
    <3>2. lo \in Int /\ hi \in Int
      BY <1>3, <3>1
    <3>3. ASSUME NEW r \in S PROVE r \in Spans(lo, hi)
      <4>1. PICK a \in DOMAIN words, b \in DOMAIN words :
                /\ a <= b /\ r.from = words[a].from /\ r.to = words[b].to
                /\ r = [from |-> r.from, to |-> r.to]
        BY <1>5
      <4>2. 1 <= a /\ a <= n /\ 1 <= b /\ b <= n
        BY <1>2
      <4>3. /\ words[a].from \in Int /\ words[b].to \in Int /\ words[a].to \in Int
            /\ words[a].from < words[a].to
            /\ lo <= words[a].from /\ words[b].to <= hi /\ words[a].to <= words[b].to
        BY <1>3, <1>4, <3>1, <4>1, <4>2
      <4>4. r.from \in lo..hi /\ r.to \in lo..hi
        <5> HIDE DEF lo, hi
        <5> QED BY <3>2, <4>1, <4>3
      <4> HIDE DEF lo, hi
      <4> QED BY <4>1, <4>4 DEF Spans
    <3> HIDE DEF lo, hi
    <3> QED BY <3>2, <3>3
  <2> QED BY <2>1, <2>2
<1>7. PICK lo \in Int, hi \in Int : S \in SUBSET Spans(lo, hi)
  BY <1>6
<1>8. IsRanges(rs)
  <2>1. \A r \in S : lo - 1 \notin r.from..r.to - 1
    BY <1>7 DEF Spans
  <2> QED BY <1>7, <2>1, RangesFrom
<1>9. \A r \in S : \E k \in DOMAIN rs : rs[k] = r
  BY <1>7, InOrderOfTimeIs
<1>10. ASSUME NEW i \in DOMAIN words, NEW f \in words[i].from..words[i].to - 1,
              ~(\E r \in Range(rs) : r.from <= words[i].from /\ words[i].to <= r.to)
       PROVE  Outside(f, rs)
  <2>1. ASSUME NEW r \in S PROVE f \notin r.from..r.to - 1
    <3>1. PICK a \in DOMAIN words, b \in DOMAIN words :
              a <= b /\ r.from = words[a].from /\ r.to = words[b].to
      BY <1>5
    <3>2. r \in Range(rs)
      BY <1>9 DEF Range
    <3>3. ~(words[a].from <= words[i].from /\ words[i].to <= words[b].to)
      BY <1>10, <3>1, <3>2
    <3>4. i \in Nat /\ a \in Nat /\ b \in Nat
      BY <1>2
    <3>5. /\ words[i].from \in Int /\ words[i].to \in Int
          /\ words[a].from \in Int /\ words[b].to \in Int
      BY <1>3
    <3>6. CASE i < a
      <4>1. words[i].to <= words[a].from
        BY <3>6 DEF Ordered
      <4> QED BY <3>1, <3>5, <4>1
    <3>7. CASE b < i
      <4>1. words[b].to <= words[i].from
        BY <3>7 DEF Ordered
      <4> QED BY <3>1, <3>5, <4>1
    <3>8. i < a \/ b < i
      BY <1>4, <3>3, <3>4
    <3> QED BY <3>6, <3>7, <3>8
  <2> QED BY <1>7, <2>1, RangesFrom
<1>11. WordsApart(rs)
  <2> HIDE DEF rs
  <2> QED BY <1>10 DEF WordsApart
<1> QED BY <1>1, <1>8, <1>11

-----------------------------------------------------------------------------
(* The invariant *)

CutTools == {"tighten_pauses", "remove_words", "clean_disfluencies"}

\* Whatever e lost of d lies in the ranges.
Keeps(d, e, rs) ==
    \A u \in DOMAIN d.tracks : \A src, f :
        Plays(d, u, src, f) /\ Outside(f, rs) => Plays(e, u, src, f)

\* The snapshot of a call is tidy, has the clips the call names, and has the
\* tracks the document still has: no operation in reach adds or removes one.
CallOK(k, d) ==
    k.tool # "none" =>
        /\ TidyDoc(k.snap) /\ DOMAIN k.snap.tracks = DOMAIN d.tracks
        /\ k.ids[1] \in ClipIds(k.snap) /\ k.ids[2] \in ClipIds(k.snap)
        /\ k.tool = "close_junction_air" => k.ids[1] # k.ids[2]

\* The last edit of a tool that cuts kept every frame outside of its ranges.
EditOK(x) ==
    x.tool \in CutTools =>
        /\ TidyDoc(x.snap) /\ TidyDoc(x.before) /\ TidyDoc(x.after)
        /\ DOMAIN x.snap.tracks = DOMAIN x.before.tracks
        /\ DOMAIN x.after.tracks = DOMAIN x.before.tracks
        /\ x.ids[1] \in ClipIds(x.snap)
        /\ Keeps(x.before, x.after, x.op.ranges)

\* Its ranges hold no frame of speech,
PauseInv ==
    \A c : done.tool = "tighten_pauses" /\ c = FindClip(done.snap, done.ids[1]) =>
               \A f \in SpokenFrames(c) : Outside(f, done.op.ranges)

\* or no frame of a word that stays.
WordInv ==
    done.tool \in {"remove_words", "clean_disfluencies"} => WordsApart(done.op.ranges)

\* The last edit of an air tool left nothing to trim.
AirInv ==
    \A d, l, r :
        /\ WholeClips /\ d = done.after
        /\ l = FindClip(d, done.ids[1]) /\ r = FindClip(d, done.ids[2])
        => IF done.tool = "close_junction_air"
           THEN Closed(d, l, r)
           ELSE ResolveBoundaryAir(d, l) = <<>>

Inv ==
    /\ DOMAIN levels \subseteq Int /\ Ordered(words) /\ TidyDoc(doc)
    /\ CallOK(call, doc) /\ EditOK(done) /\ PauseInv /\ WordInv /\ AirInv

LEMMA PlayedIs ==
    ASSUME NEW d, TidyDoc(d), NEW t \in DOMAIN d.tracks, NEW src, NEW f
    PROVE  f \in Played(d, t, src) <=> Plays(d, t, src, f)
<1> DEFINE cs == d.tracks[t].clips
           frames(c) == c.sin..SourceEnd(c) - 1
           C == {x \in Range(cs) : x.src = src}
<1>1. Played(d, t, src) = UNION {frames(c) : c \in C}
  BY Zenon DEF Played
<1>2. f \in UNION {frames(c) : c \in C} <=> \E c \in C : f \in frames(c)
  <2> HIDE DEF frames, C
  <2> QED OBVIOUS
<1>3. (\E c \in C : f \in frames(c)) <=>
          \E k \in DOMAIN cs : cs[k].src = src /\ f \in frames(cs[k])
  <2> HIDE DEF frames, cs
  <2> QED BY DEF Range
<1>4. \A k \in DOMAIN cs : cs[k].sin \in Int /\ cs[k].dur \in Int
  BY DEF TidyDoc, ListOK, Sound
<1>5. Plays(d, t, src, f) <=>
          \E k \in DOMAIN cs : cs[k].src = src /\ f \in cs[k].sin..cs[k].sin + cs[k].dur - 1
  BY Zenon DEF Plays
<1> HIDE DEF cs, C
<1>6. \A k \in DOMAIN cs : cs[k].sin + cs[k].dur - 1 = SourceEnd(cs[k]) - 1
  BY <1>4 DEF SourceEnd
<1>7. \A k \in DOMAIN cs : cs[k].sin..cs[k].sin + cs[k].dur - 1 = frames(cs[k])
  BY <1>6, Zenon
<1> HIDE DEF frames
<1> QED BY <1>1, <1>2, <1>3, <1>5, <1>7

LEMMA AlongIs ==
    ASSUME NEW d, TidyDoc(d), NEW id \in ClipIds(d), NEW t \in Along(d, FindClip(d, id))
    PROVE  t \in DOMAIN d.tracks
<1> DEFINE c == FindClip(d, id)
<1>1. c.id \in ClipIds(d)
  BY Found
<1>2. \A m \in Grouped(d, c.group) : m.id \in ClipIds(d)
  BY DEF Grouped, ClipIds
<1>3. \E i \in ClipIds(d) : t = FindTrackForClip(d, i)
  <2> HIDE DEF c
  <2>1. t \in Along(d, c)
    BY DEF c
  <2> QED BY <1>1, <1>2, <2>1 DEF Along, TracksOf
<1> QED BY <1>3, Found

\* An edit whose ranges keep clear of F loses no frame of F.
LEMMA NothingLost ==
    ASSUME EditOK(done), done.tool \in CutTools, NEW F,
           \A f \in F : Outside(f, done.op.ranges)
    PROVE  ~Lost(FindClip(done.snap, done.ids[1]), F)
<1> DEFINE c == FindClip(done.snap, done.ids[1])
<1>1. /\ TidyDoc(done.snap) /\ TidyDoc(done.before) /\ TidyDoc(done.after)
      /\ DOMAIN done.snap.tracks = DOMAIN done.before.tracks
      /\ DOMAIN done.after.tracks = DOMAIN done.before.tracks
      /\ done.ids[1] \in ClipIds(done.snap)
      /\ Keeps(done.before, done.after, done.op.ranges)
  BY DEF EditOK
<1>2. \A t \in Along(done.snap, c) : t \in DOMAIN done.before.tracks
  BY <1>1, AlongIs
<1> HIDE DEF c
<1>3. ASSUME NEW t \in Along(done.snap, c), NEW f \in F,
             f \in Played(done.before, t, c.src)
      PROVE  f \in Played(done.after, t, c.src)
  <2>1. Plays(done.before, t, c.src, f)
    BY <1>1, <1>2, <1>3, PlayedIs
  <2>2. Plays(done.after, t, c.src, f)
    BY <1>1, <1>2, <2>1 DEF Keeps
  <2> QED BY <1>1, <1>2, <2>2, PlayedIs
<1>4. ~Lost(c, F)
  BY <1>3 DEF Lost
<1> QED BY <1>4 DEF c

LEMMA SpeechIsKept ==
    ASSUME EditOK(done), PauseInv
    PROVE  PausesKeepSpeech
<1>1. SUFFICES ASSUME done.tool = "tighten_pauses"
               PROVE  ~Lost(FindClip(done.snap, done.ids[1]),
                            SpokenFrames(FindClip(done.snap, done.ids[1])))
  BY DEF PausesKeepSpeech
<1>2. done.tool \in CutTools
  BY <1>1 DEF CutTools
<1>3. \A f \in SpokenFrames(FindClip(done.snap, done.ids[1])) :
          Outside(f, done.op.ranges)
  BY <1>1 DEF PauseInv
<1> QED BY <1>2, <1>3, NothingLost

LEMMA WordsAreKept ==
    ASSUME EditOK(done), WordInv
    PROVE  OtherWordsSurvive
<1> DEFINE c == FindClip(done.snap, done.ids[1])
           cut(w) == \E r \in Range(done.op.ranges) : r.from <= w.from /\ w.to <= r.to
<1>1. SUFFICES ASSUME done.tool \in {"remove_words", "clean_disfluencies"},
                      NEW i \in DOMAIN words, ~cut(words[i])
               PROVE  ~Lost(c, words[i].from..words[i].to - 1)
  BY DEF OtherWordsSurvive
<1>2. done.tool \in CutTools
  BY <1>1 DEF CutTools
<1>3. \A f \in words[i].from..words[i].to - 1 : Outside(f, done.op.ranges)
  BY <1>1 DEF WordInv, WordsApart
<1> HIDE DEF cut
<1> QED BY <1>2, <1>3, NothingLost

-----------------------------------------------------------------------------
(* The steps *)

\* The last edit ran on rs for the call under way.
EditsOf(k, x, rs) ==
    x.tool = k.tool /\ x.ids = k.ids /\ x.snap = k.snap /\ x.op.ranges = rs

LEMMA IdleIs ==
    Idle.tool = "none" /\ EditOK(Idle) /\ \A d : CallOK(Idle, d)
  BY DEF Idle, EditOK, CallOK, CutTools

\* Every tool that cuts ends this way.
LEMMA CutStep ==
    ASSUME TidyDoc(doc), CallOK(call, doc), call.tool \in CutTools,
           NEW rs, IsRanges(rs), NEW sync, CutRanges(rs, sync)
    PROVE  /\ levels' = levels /\ words' = words /\ call' = Idle
           /\ TidyDoc(doc') /\ EditOK(done')
           /\ done' = Idle \/ EditsOf(call, done', rs)
<1>1. CASE rs = <<>>
  <2>1. NoEdit
    BY <1>1 DEF CutRanges
  <2> QED BY <2>1, IdleIs DEF NoEdit
<1>2. CASE rs # <<>>
  <2> DEFINE linked == LinkedClipIdsCoveringRanges(call.snap, Named, rs)
             op == [kind |-> "RemoveWords", clip |-> Named.id, gap |-> 0,
                    ranges |-> rs, sync |-> sync, exact |-> Nothing,
                    linked |-> linked]
             r == ApplyOperation(doc, op)
  <2>1. Finish(op)
    BY <1>2 DEF CutRanges
  <2>2. /\ doc' = IF r.ok THEN r.doc ELSE doc
        /\ done' = IF r.ok
                   THEN [tool |-> call.tool, ids |-> call.ids, op |-> op,
                         snap |-> call.snap, before |-> doc, after |-> r.doc]
                   ELSE Idle
        /\ call' = Idle /\ levels' = levels /\ words' = words
    BY <2>1, Zenon DEF Finish, Answer
  <2>3. /\ TidyDoc(call.snap) /\ DOMAIN call.snap.tracks = DOMAIN doc.tracks
        /\ call.ids[1] \in ClipIds(call.snap)
    BY DEF CallOK, CutTools
  <2>4. linked \in Seq(Range(linked))
    <3> DEFINE ms == {m \in Grouped(call.snap, Named.group) \ {Named} :
                        /\ m.src = Named.src
                        /\ \A q \in Range(rs) : q.from >= m.sin /\ q.to <= SourceEnd(m)}
    <3>1. linked = InOrder(call.snap, ms)
      BY Zenon DEF LinkedClipIdsCoveringRanges
    <3>2. ms \in SUBSET Clips(call.snap)
      BY DEF Grouped
    <3> HIDE DEF ms, linked
    <3> QED BY <2>3, <3>1, <3>2, InOrderIs
  <2>5. /\ op.kind = "RemoveWords" /\ op.exact = Nothing
        /\ op.ranges = rs /\ op.linked = linked
    BY Zenon
  <2> HIDE DEF op, linked
  <2>6. CASE ~r.ok
    BY <2>2, <2>6, IdleIs
  <2>7. CASE r.ok
    <3>1. TidyDoc(r.doc) /\ DOMAIN r.doc.tracks = DOMAIN doc.tracks
          /\ Keeps(doc, r.doc, rs)
      BY <2>4, <2>5, <2>7, RemoveWordsIs DEF Keeps
    <3> HIDE DEF r
    <3>2. doc' = r.doc
      BY <2>2, <2>7
    <3>3. done' = [tool |-> call.tool, ids |-> call.ids, op |-> op,
                   snap |-> call.snap, before |-> doc, after |-> r.doc]
      BY <2>2, <2>7
    <3>4. /\ done'.tool = call.tool /\ done'.ids = call.ids /\ done'.op = op
          /\ done'.snap = call.snap /\ done'.before = doc /\ done'.after = r.doc
      BY <3>3
    <3>5. EditOK(done')
      BY <2>3, <2>5, <3>1, <3>4 DEF EditOK
    <3>6. EditsOf(call, done', rs)
      BY <2>5, <3>4 DEF EditsOf
    <3> QED BY <2>2, <3>1, <3>2, <3>5, <3>6
  <2> QED BY <2>6, <2>7
<1> QED BY <1>1, <1>2

\* The last edit made the trims for the call under way.
TrimsOf(k, d, x, trims) ==
    /\ x.tool = k.tool /\ x.ids = k.ids /\ x.snap = k.snap /\ x.before = d
    /\ trims # <<>> /\ x.op.trims = trims /\ x.op.exact = Nothing
    /\ ApplyTrimBoundaryAir(d, x.op).ok /\ x.after = ApplyTrimBoundaryAir(d, x.op).doc

LEMMA AirStep ==
    ASSUME TidyDoc(doc), call.tool \notin CutTools,
           NEW trims, IsTrims(trims), TrimAir(trims)
    PROVE  /\ levels' = levels /\ words' = words /\ call' = Idle
           /\ TidyDoc(doc') /\ done'.tool \notin CutTools
           /\ done' = Idle \/ TrimsOf(call, doc, done', trims)
<1> DEFINE op == [kind |-> "TrimBoundaryAir", trims |-> trims,
                  sync |-> BoundarySyncTrackIds(call.snap, trims),
                  exact |-> Nothing]
           r == ApplyOperation(doc, op)
<1>1. CASE trims = <<>>
  <2>1. NoEdit
    BY <1>1 DEF TrimAir
  <2> QED BY <2>1, IdleIs DEF NoEdit, CutTools
<1>2. CASE trims # <<>>
  <2>1. Finish(op)
    BY <1>2 DEF TrimAir
  <2>2. /\ doc' = IF r.ok THEN r.doc ELSE doc
        /\ done' = IF r.ok
                   THEN [tool |-> call.tool, ids |-> call.ids, op |-> op,
                         snap |-> call.snap, before |-> doc, after |-> r.doc]
                   ELSE Idle
        /\ call' = Idle /\ levels' = levels /\ words' = words
    BY <2>1, Zenon DEF Finish, Answer
  <2>3. op.kind = "TrimBoundaryAir" /\ op.exact = Nothing /\ op.trims = trims
    BY Zenon
  <2> HIDE DEF op
  <2>4. CASE ~r.ok
    BY <2>2, <2>4, IdleIs DEF CutTools
  <2>5. CASE r.ok
    <3>1. r = ApplyTrimBoundaryAir(doc, op)
      BY <2>3, <2>5, Accepted, Dispatched
    <3>2. TidyDoc(r.doc)
      BY <2>3, <2>5, <3>1, TrimBoundaryAirIs
    <3> HIDE DEF r
    <3>3. done' = [tool |-> call.tool, ids |-> call.ids, op |-> op,
                   snap |-> call.snap, before |-> doc, after |-> r.doc]
      BY <2>2, <2>5
    <3>4. /\ done'.tool = call.tool /\ done'.ids = call.ids /\ done'.op = op
          /\ done'.snap = call.snap /\ done'.before = doc /\ done'.after = r.doc
      BY <3>3
    <3>5. TrimsOf(call, doc, done', trims)
      BY <1>2, <2>3, <2>5, <3>1, <3>4 DEF TrimsOf
    <3> QED BY <2>2, <2>5, <3>2, <3>4, <3>5
  <2> QED BY <2>4, <2>5
<1> QED BY <1>1, <1>2

LEMMA UserTrimStep ==
    ASSUME TidyDoc(doc), UserTrim
    PROVE  /\ levels' = levels /\ words' = words /\ call' = call /\ done' = Idle
           /\ TidyDoc(doc') /\ DOMAIN doc'.tracks = DOMAIN doc.tracks
<1>1. PICK c \in Clips(doc), edge \in {"head", "tail"}, by \in {-1, 1} :
        LET r == ApplyOperation(doc,
                [kind |-> "RippleTrim", clip |-> c.id, edge |-> edge,
                 delta |-> by, linked |-> InOrder(doc, Grouped(doc, c.group)),
                 sync |-> {}, exact |-> Nothing])
        IN  r.ok /\ doc' = r.doc
  BY Zenon DEF UserTrim
<1> DEFINE op == [kind |-> "RippleTrim", clip |-> c.id, edge |-> edge,
                  delta |-> by, linked |-> InOrder(doc, Grouped(doc, c.group)),
                  sync |-> {}, exact |-> Nothing]
<1>2. op.kind = "RippleTrim" /\ op.exact = Nothing /\ op.delta = by
  BY Zenon
<1>3. ApplyOperation(doc, op).ok /\ doc' = ApplyOperation(doc, op).doc
  BY <1>1, Zenon
<1> HIDE DEF op
<1>4. op.delta \in Int
  BY <1>2
<1>5. ApplyOperation(doc, op) = ApplyRippleTrim(doc, op)
  BY <1>2, <1>3, Accepted, Dispatched
<1>6. TidyDoc(doc') /\ DOMAIN doc'.tracks = DOMAIN doc.tracks
  BY <1>2, <1>3, <1>4, <1>5, RippleTrimIs
<1>7. levels' = levels /\ words' = words /\ call' = call /\ done' = Idle
  BY DEF UserTrim
<1> QED BY <1>6, <1>7

LEMMA SpokenStays ==
    ASSUME levels' = levels, NEW c
    PROVE  SpokenFrames(c)' = SpokenFrames(c)
  BY DEF SpeechLevelPercentile, SpokenFrames, Hushed, Threshold, ClipWindows

\* A step after which no tool that cuts was the last to edit.
LEMMA NoCutLeft ==
    ASSUME done'.tool \notin CutTools
    PROVE  EditOK(done') /\ PauseInv' /\ WordInv'
  BY DEF EditOK, PauseInv, WordInv, CutTools

\* A step after which no air tool was.
LEMMA NoAirLeft ==
    ASSUME done'.tool \notin AirTools
    PROVE  AirInv'
<1>1. ~WholeClips'
  BY DEF WholeClips, AirTools
<1> QED BY <1>1 DEF AirInv

LEMMA IdleLeft ==
    ASSUME done' = Idle
    PROVE  EditOK(done') /\ PauseInv' /\ WordInv' /\ AirInv'
<1>1. done'.tool \notin CutTools /\ done'.tool \notin AirTools
  BY IdleIs DEF CutTools, AirTools
<1> QED BY <1>1, NoCutLeft, NoAirLeft

LEMMA AirStays ==
    ASSUME levels' = levels, NEW d, NEW l, NEW r
    PROVE  /\ Closed(d, l, r)' <=> Closed(d, l, r)
           /\ ResolveBoundaryAir(d, l)' = ResolveBoundaryAir(d, l)
<1>1. BuildSpeechGroups' = BuildSpeechGroups
  BY DEF BuildSpeechGroups, SpeechLevelPercentile
<1>2. \A c : SpeechOf(c)' = SpeechOf(c)
  BY <1>1, Zenon DEF SpeechOf
<1>3. \A c : SpeechStart(c)' = SpeechStart(c) /\ SpeechEnd(c)' = SpeechEnd(c)
  BY <1>2, Zenon DEF SpeechStart, SpeechEnd
<1>4. \A c : /\ HeadTrim(d, c)' = HeadTrim(d, c) /\ TailTrim(d, c)' = TailTrim(d, c)
             /\ HeadAir(c)' = HeadAir(c) /\ TailAir(c)' = TailAir(c)
  BY <1>3, Zenon DEF HeadTrim, TailTrim, HeadAir, TailAir
<1>5. Closed(d, l, r)' <=> Closed(d, l, r)
  BY <1>2, <1>4, Zenon DEF Closed
<1> QED BY <1>2, <1>4, <1>5, Zenon DEF ResolveBoundaryAir

\* The envelope and the last edit stay.
LEMMA AirKept ==
    ASSUME AirInv, levels' = levels, done' = done
    PROVE  AirInv'
<1>1. WholeClips' <=> WholeClips
  BY DEF WholeClips, Current, TrimmedClips
<1> QED BY <1>1, AirStays DEF AirInv

LEMMA InvNext ==
    ASSUME Inv, levels' = levels, words' = words, TidyDoc(doc'), CallOK(call', doc'),
           EditOK(done'), PauseInv', WordInv', AirInv'
    PROVE  Inv'
  BY DEF Inv, Ordered

LEMMA NoEditStep ==
    ASSUME Inv, NoEdit
    PROVE  Inv'
<1>1. TidyDoc(doc)
  BY DEF Inv
<1> QED BY <1>1, IdleIs, IdleLeft, InvNext DEF NoEdit

LEMMA PausesStep ==
    ASSUME Inv, TightenPauses
    PROVE  Inv'
<1>1. /\ DOMAIN levels \subseteq Int /\ TidyDoc(doc) /\ CallOK(call, doc)
  BY DEF Inv
<1>2. call.tool = "tighten_pauses" /\ call.tool \in CutTools
  BY DEF TightenPauses, CutTools
<1>3. TidyDoc(call.snap) /\ call.ids[1] \in ClipIds(call.snap)
  BY <1>1, <1>2 DEF CallOK
<1>4. PICK c : c = Named
  OBVIOUS
<1>5. c = FindClip(call.snap, call.ids[1])
  BY <1>4 DEF Named
<1>6. c.sin \in Int /\ c.dur \in Int
  BY <1>3, <1>5, Found DEF Sound
<1>7. PICK rs : rs = ResolvePauseTightening(c)
  OBVIOUS
<1>8. IsRanges(rs) /\ \A f \in SpokenFrames(c) : Outside(f, rs)
  BY <1>1, <1>6, <1>7, PausesAreSilent
<1>9. NoEdit \/ \E sync : CutRanges(rs, sync)
  BY <1>4, <1>7 DEF TightenPauses
<1>10. CASE NoEdit
  BY <1>10, NoEditStep
<1>11. ASSUME NEW sync, CutRanges(rs, sync)
       PROVE  Inv'
  <2>1. /\ levels' = levels /\ words' = words /\ call' = Idle
        /\ TidyDoc(doc') /\ EditOK(done')
        /\ done' = Idle \/ EditsOf(call, done', rs)
    BY <1>1, <1>2, <1>8, <1>11, CutStep
  <2>2. CallOK(call', doc')
    BY <2>1, IdleIs
  <2>3. PauseInv' /\ WordInv' /\ AirInv'
    <3>1. CASE done' = Idle
      BY <3>1, IdleLeft
    <3>2. CASE EditsOf(call, done', rs)
      <4>1. /\ done'.tool = "tighten_pauses" /\ done'.op.ranges = rs
            /\ FindClip(done'.snap, done'.ids[1]) = c
        BY <1>2, <1>5, <3>2 DEF EditsOf
      <4>2. \A f \in SpokenFrames(c)' : Outside(f, rs)
        BY <1>8, <2>1, SpokenStays
      <4>3. AirInv'
        BY <4>1, NoAirLeft DEF AirTools
      <4> QED BY <4>1, <4>2, <4>3 DEF PauseInv, WordInv
    <3> QED BY <2>1, <3>1, <3>2
  <2> QED BY <2>1, <2>2, <2>3, InvNext
<1> QED BY <1>9, <1>10, <1>11

\* remove_words and clean_disfluencies, with the runs they resolved.
LEMMA WordsStep ==
    ASSUME Inv, call.tool \in {"remove_words", "clean_disfluencies"},
           NEW found, Runs(found), CutRanges(ResolveWordRemoval(found), {})
    PROVE  Inv'
<1>1. Ordered(words) /\ TidyDoc(doc) /\ CallOK(call, doc)
  BY DEF Inv
<1>2. call.tool \in CutTools
  BY DEF CutTools
<1>3. PICK rs : rs = ResolveWordRemoval(found)
  OBVIOUS
<1>4. IsRanges(rs) /\ WordsApart(rs)
  BY <1>1, <1>3, RemovalIsExact
<1>5. CutRanges(rs, {})
  BY <1>3
<1>6. /\ levels' = levels /\ words' = words /\ call' = Idle
      /\ TidyDoc(doc') /\ EditOK(done')
      /\ done' = Idle \/ EditsOf(call, done', rs)
  BY <1>1, <1>2, <1>4, <1>5, CutStep
<1>7. CallOK(call', doc')
  BY <1>6, IdleIs
<1>8. PauseInv' /\ WordInv' /\ AirInv'
  <2>1. CASE done' = Idle
    BY <2>1, IdleLeft
  <2>2. CASE EditsOf(call, done', rs)
    <3>1. done'.tool # "tighten_pauses" /\ done'.op.ranges = rs
      BY <2>2 DEF EditsOf
    <3>2. WordsApart(rs)'
      BY <1>4, <1>6 DEF WordsApart
    <3>3. PauseInv'
      BY <3>1 DEF PauseInv
    <3>4. WordInv'
      BY <3>1, <3>2 DEF WordInv, WordsApart
    <3>5. AirInv'
      <4>1. done'.tool \notin AirTools
        BY <2>2 DEF EditsOf, AirTools
      <4> QED BY <4>1, NoAirLeft
    <3> QED BY <3>3, <3>4, <3>5
  <2> QED BY <1>6, <2>1, <2>2
<1> QED BY <1>6, <1>7, <1>8, InvNext

LEMMA RemoveWordsStep ==
    ASSUME Inv, RemoveWords
    PROVE  Inv'
<1>1. call.tool \in {"remove_words", "clean_disfluencies"}
  BY DEF RemoveWords
<1>2. DOMAIN words \subseteq Int
  <2>1. Len(words) \in Nat /\ DOMAIN words = 1..Len(words)
    BY DEF Inv, Ordered
  <2> QED BY <2>1
<1>3. PICK a \in DOMAIN words, b \in DOMAIN words :
          /\ a <= b
          /\ \/ NoEdit
             \/ CutRanges(ResolveWordRemoval({[first |-> a, last |-> b]}), {})
             \/ CutRanges(ResolveWordRemoval({[first |-> a, last |-> a],
                                              [first |-> b, last |-> b]}), {})
  BY DEF RemoveWords
<1> DEFINE one == {[first |-> a, last |-> b]}
           two == {[first |-> a, last |-> a], [first |-> b, last |-> b]}
<1>4. Runs(one) /\ Runs(two)
  BY <1>2, <1>3 DEF Runs
<1>5. NoEdit \/ CutRanges(ResolveWordRemoval(one), {})
             \/ CutRanges(ResolveWordRemoval(two), {})
  BY <1>3
<1> HIDE DEF one, two
<1> QED BY <1>1, <1>4, <1>5, WordsStep, NoEditStep

LEMMA DisfluenciesStep ==
    ASSUME Inv, CleanDisfluencies
    PROVE  Inv'
<1>1. call.tool \in {"remove_words", "clean_disfluencies"}
  BY DEF CleanDisfluencies
<1>2. PICK repetitions \in BOOLEAN :
          CutRanges(ResolveWordRemoval({x \in FindDisfluenciesInClip(Named) :
                        x.kind = "Filler" \/ repetitions}), {})
  BY DEF CleanDisfluencies
<1>3. PICK found : found = {x \in FindDisfluenciesInClip(Named) :
                                x.kind = "Filler" \/ repetitions}
  OBVIOUS
<1>4. Runs(FindDisfluencies)
  BY DisfluenciesAre DEF Inv
<1>5. found \subseteq FindDisfluencies
  BY <1>3 DEF FindDisfluenciesInClip
<1>6. CutRanges(ResolveWordRemoval(found), {})
  BY <1>2, <1>3
<1>7. Runs(found)
  BY <1>4, <1>5 DEF Runs
<1> QED BY <1>1, <1>6, <1>7, WordsStep

\* An air tool ends with trims that settle what they are made for.
LEMMA TrimAirStep ==
    ASSUME Inv, call.tool \notin CutTools, NEW trims, IsTrims(trims), TrimAir(trims),
           TrimsOf(call, doc, done', trims) => AirInv'
    PROVE  Inv'
<1>1. TidyDoc(doc)
  BY DEF Inv
<1>2. /\ levels' = levels /\ words' = words /\ call' = Idle
      /\ TidyDoc(doc') /\ done'.tool \notin CutTools
      /\ done' = Idle \/ TrimsOf(call, doc, done', trims)
  BY <1>1, AirStep
<1>3. CallOK(call', doc')
  BY <1>2, IdleIs
<1>4. AirInv'
  BY <1>2, IdleLeft
<1> QED BY <1>2, <1>3, <1>4, NoCutLeft, InvNext

LEMMA TrimsLeave ==
    ASSUME NEW trims, TrimAir(trims)
    PROVE  levels' = levels
<1>1. NoEdit \/ \E op : Finish(op)
  BY DEF TrimAir
<1> QED BY <1>1 DEF NoEdit, Finish, Answer

LEMMA BoundaryStep ==
    ASSUME Inv, TrimBoundaryAir
    PROVE  Inv'
<1>1. call.tool = "trim_boundary_air"
  BY DEF TrimBoundaryAir
<1>2. call.tool \notin CutTools
  BY <1>1 DEF CutTools
<1>3. /\ DOMAIN levels \subseteq Int /\ TidyDoc(doc) /\ TidyDoc(call.snap)
      /\ call.ids[1] \in ClipIds(call.snap)
  BY <1>1 DEF Inv, CallOK
<1>4. PICK l, trims : /\ l = FindClip(call.snap, call.ids[1])
                      /\ trims = ResolveBoundaryAir(call.snap, l)
  OBVIOUS
<1>5. TrimAir(trims)
  BY <1>4 DEF TrimBoundaryAir, Named
<1>6. IsTrims(trims)
  <2>1. l.sin \in Int /\ l.dur \in Int
    BY <1>3, <1>4, Found DEF Sound
  <2> QED BY <1>3, <1>4, <2>1, BoundaryTrims
<1>7. ASSUME TrimsOf(call, doc, done', trims)
      PROVE  AirInv'
  <2>1. PICK x : x = done'
    OBVIOUS
  <2>2. TrimsOf(call, doc, x, trims)
    BY <1>7, <2>1
  <2>3. x.tool = "trim_boundary_air" /\ x.ids = call.ids
    BY <1>1, <2>2 DEF TrimsOf
  <2>4. ASSUME x.snap = x.before
        PROVE  ResolveBoundaryAir(x.after, FindClip(x.after, call.ids[1])) = <<>>
    <3>1. call.snap = doc
      BY <2>2, <2>4 DEF TrimsOf
    <3>2. PICK op, e : op = x.op /\ e = x.after
      OBVIOUS
    <3>3. /\ trims # <<>> /\ op.trims = trims /\ op.exact = Nothing
          /\ ApplyTrimBoundaryAir(doc, op).ok /\ e = ApplyTrimBoundaryAir(doc, op).doc
      BY <2>2, <3>2 DEF TrimsOf
    <3>4. ResolveBoundaryAir(e, FindClip(e, call.ids[1])) = <<>>
      BY <1>3, <1>4, <3>1, <3>3, BoundarySettles
    <3> QED BY <3>2, <3>4
  <2>5. ASSUME NEW d, NEW c, WholeClips', d = x.after, c = FindClip(d, call.ids[1])
        PROVE  ResolveBoundaryAir(d, c)' = <<>>
    <3>1. x.snap = x.before
      BY <2>1, <2>5 DEF WholeClips, Current
    <3> QED BY <1>5, <2>4, <2>5, <3>1, TrimsLeave, AirStays
  <2> QED BY <2>1, <2>3, <2>5 DEF AirInv
<1> QED BY <1>2, <1>5, <1>6, <1>7, TrimAirStep

LEMMA JunctionStep ==
    ASSUME Inv, CloseJunctionAir
    PROVE  Inv'
<1>1. call.tool = "close_junction_air"
  BY DEF CloseJunctionAir
<1>2. call.tool \notin CutTools
  BY <1>1 DEF CutTools
<1>3. /\ DOMAIN levels \subseteq Int /\ TidyDoc(doc) /\ TidyDoc(call.snap)
      /\ call.ids[1] \in ClipIds(call.snap) /\ call.ids[2] \in ClipIds(call.snap)
      /\ call.ids[1] # call.ids[2]
  BY <1>1 DEF Inv, CallOK
<1>4. PICK i, j : i = call.ids[1] /\ j = call.ids[2]
  OBVIOUS
<1>5. PICK l, r, trims : /\ l = FindClip(call.snap, i) /\ r = FindClip(call.snap, j)
                         /\ trims = ResolveJunctionAir(call.snap, l, r)
  OBVIOUS
<1>6. \/ NoEdit
      \/ /\ FindTrackForClip(call.snap, i) = FindTrackForClip(call.snap, j)
         /\ TrimAir(trims)
  BY <1>4, <1>5 DEF CloseJunctionAir, Named
<1>7. CASE NoEdit
  BY <1>7, NoEditStep
<1>8. CASE /\ FindTrackForClip(call.snap, i) = FindTrackForClip(call.snap, j)
           /\ TrimAir(trims)
  <2>1. IsTrims(trims)
    <3>1. l.sin \in Int /\ l.dur \in Int /\ r.sin \in Int /\ r.dur \in Int
      BY <1>3, <1>4, <1>5, Found DEF Sound
    <3> QED BY <1>3, <1>5, <3>1, JunctionTrims
  <2>2. ASSUME TrimsOf(call, doc, done', trims)
        PROVE  AirInv'
    <3>1. PICK x : x = done'
      OBVIOUS
    <3>2. TrimsOf(call, doc, x, trims)
      BY <2>2, <3>1
    <3>3. x.tool = "close_junction_air" /\ x.ids = call.ids
      BY <1>1, <3>2 DEF TrimsOf
    <3>4. ASSUME WholeClips'
          PROVE  Closed(x.after, FindClip(x.after, i), FindClip(x.after, j))
      <4>1. x.snap = x.before
        BY <3>1, <3>4 DEF WholeClips, Current
      <4>2. call.snap = doc
        BY <3>2, <4>1 DEF TrimsOf
      <4>3. PICK op, e : op = x.op /\ e = x.after
        OBVIOUS
      <4>4. /\ trims # <<>> /\ op.trims = trims /\ op.exact = Nothing
            /\ ApplyTrimBoundaryAir(doc, op).ok /\ e = ApplyTrimBoundaryAir(doc, op).doc
        BY <3>2, <4>3 DEF TrimsOf
      <4>5. \A k \in DOMAIN op.trims : OnePerTrack(doc, FindClip(doc, op.trims[k].clip))
        <5>1. x.snap = doc
          BY <3>2, <4>2 DEF TrimsOf
        <5>2. \A c \in {FindClip(doc, y.clip) : y \in Range(op.trims)} :
                  OnePerTrack(doc, c)
          BY <3>1, <3>4, <4>3, <5>1 DEF WholeClips, TrimmedClips
        <5>3. \A k \in DOMAIN op.trims : op.trims[k] \in Range(op.trims)
          BY DEF Range
        <5> QED BY <5>2, <5>3
      <4>6. Closed(e, FindClip(e, i), FindClip(e, j))
        BY <1>3, <1>4, <1>5, <1>8, <4>2, <4>4, <4>5, JunctionSettles
      <4> QED BY <4>3, <4>6
    <3>5. ASSUME NEW d, NEW b, NEW c, WholeClips', d = x.after,
                 b = FindClip(d, i), c = FindClip(d, j)
          PROVE  Closed(d, b, c)'
      BY <1>8, <3>4, <3>5, TrimsLeave, AirStays
    <3> QED BY <1>4, <3>1, <3>3, <3>5 DEF AirInv
  <2> QED BY <1>2, <1>8, <2>1, <2>2, TrimAirStep
<1> QED BY <1>6, <1>7, <1>8

LEMMA CallStep ==
    ASSUME Inv, Call
    PROVE  Inv'
<1>1. levels' = levels /\ words' = words /\ doc' = doc /\ done' = done
  BY DEF Call
<1>2. TidyDoc(doc) /\ EditOK(done) /\ PauseInv /\ WordInv /\ AirInv
  BY DEF Inv
<1>3. CallOK(call', doc')
  <2>1. PICK tool \in Tools, a \in ClipIds(doc), b \in ClipIds(doc) :
            /\ (tool = "close_junction_air") = (a # b)
            /\ call' = [tool |-> tool, ids |-> <<a, b>>, snap |-> doc]
    BY DEF Call
  <2>2. /\ call'.ids[1] = a /\ call'.ids[2] = b /\ call'.snap = doc
        /\ call'.tool = tool
    BY <2>1
  <2>3. call'.tool = "close_junction_air" => call'.ids[1] # call'.ids[2]
    BY <2>1, <2>2
  <2> QED BY <1>1, <1>2, <2>2, <2>3 DEF CallOK
<1>4. PauseInv'
  BY <1>1, <1>2, SpokenStays DEF PauseInv
<1>5. WordInv'
  BY <1>1, <1>2 DEF WordInv, WordsApart
<1>6. AirInv'
  BY <1>1, <1>2, AirKept
<1> QED BY <1>1, <1>2, <1>3, <1>4, <1>5, <1>6, InvNext

LEMMA StutterStep ==
    ASSUME Inv, UNCHANGED vars
    PROVE  Inv'
<1>1. levels' = levels /\ words' = words /\ doc' = doc /\ done' = done /\ call' = call
  BY DEF vars
<1>2. TidyDoc(doc) /\ CallOK(call, doc) /\ EditOK(done) /\ PauseInv /\ WordInv /\ AirInv
  BY DEF Inv
<1>3. PauseInv'
  BY <1>1, <1>2, SpokenStays DEF PauseInv
<1>4. WordInv'
  BY <1>1, <1>2 DEF WordInv, WordsApart
<1>5. AirInv'
  BY <1>1, <1>2, AirKept
<1> QED BY <1>1, <1>2, <1>3, <1>4, <1>5, InvNext

LEMMA InvInit ==
    ASSUME Init
    PROVE  Inv
<1>1. PICK x \in Cases : /\ levels = x.levels /\ doc = x.doc
                         /\ words = NormalizeTranscriptWords(x.spoken)
  BY DEF Init
<1>2. call = Idle /\ done = Idle
  BY DEF Init
<1>3. /\ DOMAIN x.levels \subseteq Nat /\ Tidy(x.doc)
      /\ x.spoken \in Seq(Range(x.spoken))
      /\ \A w \in Range(x.spoken) : {w.from, w.to} \subseteq Nat
  BY CasesAssumption
<1>4. DOMAIN levels \subseteq Int
  BY <1>1, <1>3
<1>5. TidyDoc(doc)
  BY <1>1, <1>3, TidyIs
<1>6. Ordered(words)
  BY <1>1, <1>3, NormalizedWords
<1>7. done.tool = "none" /\ EditOK(done) /\ CallOK(call, doc)
  BY <1>2, IdleIs
<1>8. PauseInv /\ WordInv /\ AirInv
  BY <1>7 DEF PauseInv, WordInv, AirInv, WholeClips, AirTools
<1> QED BY <1>4, <1>5, <1>6, <1>7, <1>8 DEF Inv

LEMMA InvAlways == Spec => []Inv
<1>1. Init => Inv
  BY InvInit
<1>2. Inv /\ [Next]_vars => Inv'
  <2>1. SUFFICES ASSUME Inv, [Next]_vars PROVE Inv'
    OBVIOUS
  <2>2. CASE UserTrim
    <3>1. TidyDoc(doc) /\ CallOK(call, doc)
      BY <2>1 DEF Inv
    <3>2. /\ levels' = levels /\ words' = words /\ call' = call /\ done' = Idle
          /\ TidyDoc(doc') /\ DOMAIN doc'.tracks = DOMAIN doc.tracks
      BY <2>2, <3>1, UserTrimStep
    <3>3. CallOK(call', doc')
      BY <3>1, <3>2 DEF CallOK
    <3> QED BY <2>1, <3>2, <3>3, IdleLeft, InvNext
  <2>3. CASE Call
    BY <2>1, <2>3, CallStep
  <2>4. CASE TightenPauses
    BY <2>1, <2>4, PausesStep
  <2>5. CASE TrimBoundaryAir
    BY <2>1, <2>5, BoundaryStep
  <2>6. CASE CloseJunctionAir
    BY <2>1, <2>6, JunctionStep
  <2>7. CASE RemoveWords
    BY <2>1, <2>7, RemoveWordsStep
  <2>8. CASE CleanDisfluencies
    BY <2>1, <2>8, DisfluenciesStep
  <2>9. CASE UNCHANGED vars
    BY <2>1, <2>9, StutterStep
  <2> QED BY <2>1, <2>2, <2>3, <2>4, <2>5, <2>6, <2>7, <2>8, <2>9 DEF Next
<1> QED BY <1>1, <1>2, PTL DEF Spec

-----------------------------------------------------------------------------
(* Theorems *)

\* DispatchTightenPauses never takes a frame of speech: whatever the frame
\* rate, the analysis grid, the settings, the envelope and the document, and
\* however the user trimmed between the snapshot of the tool and its edit,
\* every frame that a window of speech reaches into is still played on the
\* track of the clip and on the tracks of its linked clips.
THEOREM PausesKeepTheSpeech == Spec => []PausesKeepSpeech
<1>1. Inv => PausesKeepSpeech
  BY SpeechIsKept DEF Inv
<1> QED BY <1>1, InvAlways, PTL

\* DispatchRemoveWords and DispatchCleanDisfluencies keep every frame of a
\* word they do not remove, whatever the decoder emits: NormalizeTranscriptWords
\* leaves the words apart, so the range of a run of words holds those words
\* alone, and ApplyRemoveWords keeps all that lies outside of its ranges.
THEOREM WordsThatStaySurvive == Spec => []OtherWordsSurvive
<1>1. Inv => OtherWordsSurvive
  BY WordsAreKept DEF Inv
<1> QED BY <1>1, InvAlways, PTL

\* What DispatchTrimBoundaryAir or DispatchCloseJunctionAir leaves has nothing
\* to trim, at the ends of the clip or on either side of the junction, whatever
\* the envelope, the grids, the settings and the document: the trims leave all
\* the speech in the clips, so that a second pass measures the same speech, and
\* no clip on the track of a trimmed one is trimmed along with it.
THEOREM SecondPassSettles == Spec => []SecondPassFindsNothing
<1>1. Inv => SecondPassFindsNothing
  <2>1. AirInv => SecondPassFindsNothing
    BY Zenon DEF AirInv, SecondPassFindsNothing
  <2> QED BY <2>1 DEF Inv
<1> QED BY <1>1, InvAlways, PTL

=============================================================================
