------------------------- MODULE DecodeWorkerProofs -------------------------
(***************************************************************************)
(* DecodesInRange and NoStaleFrame, for any number of sources and frames,  *)
(* any budget of the cache and any window.                                 *)
(*                                                                         *)
(* DecodesInRange is not inductive: the frame a thread is about to decode  *)
(* comes from the request, the window and the direction, read several      *)
(* steps before.  The invariant follows the bounds from the request        *)
(* through each fill.                                                      *)
(*                                                                         *)
(* Nor is NoStaleFrame: StaleInv says where the stale frames may be while  *)
(* a reload goes on, and that the threads of the decoders already joined   *)
(* stay where they are.                                                    *)
(***************************************************************************)
EXTENDS DecodeWorker, FiniteSetTheorems, WellFoundedInduction, TLAPS

Frames == 0..FrameCount - 1

Request ==
    [asked : {None} \cup Frames, cand : Int, samples : Int, stable : Int,
     changed : BOOLEAN, stopping : BOOLEAN]

Thread ==
    [pc : {"wait", "ended", "target", "window", "ahead", "ascend", "decode",
           "reverse", "chunk", "next"},
     target : Int, dir : Int, cursor : Int, last : Int, ahead : Nat,
     then : {"wait", "window", "ahead", "reverse"}, next : Int, at : Nat]

\* The cache is a list of frames; only sources have a decoder registered.
CacheInv ==
    \E S, lru, known, active :
        /\ cache = [lru |-> lru, known |-> known, active |-> active]
        /\ lru \in Seq(S) /\ active \in SUBSET Sources

\* A request the thread has not taken is for a frame of the source.
AskInv ==
    /\ file \in [Sources -> Seq(Nat)]
    /\ slots \in Seq(Sources \X Frames) /\ calls \in Seq(Sources \X Frames)
    /\ ask \in [Sources -> Request]
    /\ \A s \in Sources : ask[s].changed => ask[s].asked \in Frames

\* The thread works around a frame of the source.  An ascending fill starts in
\* the source and ends in it, and may be empty; a chunk is not empty.  The
\* pictures it finds may count as any frame.
FillOK(t) ==
    /\ t.pc \notin {"wait", "ended"} => t.target \in Frames
    /\ t.pc \in {"ascend", "decode"} => t.cursor >= 0 /\ t.last <= FrameCount - 1
    /\ t.pc = "decode" => t.cursor <= t.last
    /\ t.pc = "chunk" => /\ t.cursor >= 0 /\ t.cursor <= t.last
                         /\ t.last <= FrameCount - 1

ThreadInv ==
    /\ thread \in [Sources -> Thread]
    /\ \A s \in Sources : FillOK(thread[s])

IInv == CacheInv /\ AskInv /\ ThreadInv

\* Stale frames are of sources still to be opened, and a decoder that is joined
\* and not replaced has no thread that could add one, nor has a source that
\* could not be opened, which no reload stops.
StaleInv ==
    /\ \E on \in BOOLEAN, stop, open \in SUBSET Sources :
           reload = [on |-> on, stop |-> stop, open |-> open]
    /\ ~reload.on => reload.stop = {} /\ reload.open = {}
    /\ \A k \in stale : k[1] \in reload.open
    /\ \A s \in reload.open \ reload.stop : thread[s].pc = "ended"
    /\ \A s \in Sources : file[s] = Offline => thread[s].pc = "ended"

-----------------------------------------------------------------------------
(* Largest and smallest members *)

LEMMA MaxOfTwo ==
    ASSUME NEW a \in Int, NEW b \in Int
    PROVE  Max({a, b}) \in Int /\ Max({a, b}) >= a /\ Max({a, b}) >= b
           /\ Max({a, b}) \in {a, b}
<1>1. \E x \in {a, b} : \A y \in {a, b} : x >= y
  <2>1. CASE a >= b BY <2>1
  <2>2. CASE b >= a BY <2>2
  <2> QED BY <2>1, <2>2
<1>2. Max({a, b}) \in {a, b} /\ \A y \in {a, b} : Max({a, b}) >= y
  BY <1>1 DEF Max
<1> QED BY <1>2

LEMMA MinOfTwo ==
    ASSUME NEW a \in Int, NEW b \in Int
    PROVE  Min({a, b}) \in Int /\ Min({a, b}) <= a /\ Min({a, b}) <= b
           /\ Min({a, b}) \in {a, b}
<1>1. \E x \in {a, b} : \A y \in {a, b} : x =< y
  <2>1. CASE a <= b BY <2>1
  <2>2. CASE b <= a BY <2>2
  <2> QED BY <2>1, <2>2
<1>2. Min({a, b}) \in {a, b} /\ \A y \in {a, b} : Min({a, b}) =< y
  BY <1>1 DEF Min
<1> QED BY <1>2

LEMMA MinOfRange ==
    ASSUME NEW a \in Int, NEW b \in Int, a <= b
    PROVE  Min(a..b) = a
<1>1. a \in a..b /\ \A y \in a..b : a =< y
  OBVIOUS
<1>2. Min(a..b) \in a..b /\ \A y \in a..b : Min(a..b) =< y
  BY <1>1 DEF Min
<1> QED BY <1>1, <1>2

\* The order of the naturals.
Below == OpToRel(<, Nat)

LEMMA BelowIsLess ==
    ASSUME NEW x \in Nat, NEW y \in Nat, x < y
    PROVE  <<x, y>> \in Below
<1>1. Below = {p \in Nat \X Nat : p[1] < p[2]}
  BY DEF Below, OpToRel
<1> QED BY <1>1

LEMMA BelowWellFounded == IsWellFoundedOn(Below, Nat)
  BY NatLessThanWellFounded, Zenon DEF Below

LEMMA LeastOf ==
    ASSUME NEW T \in SUBSET Nat, T # {}
    PROVE  \E m \in T : \A y \in T : m <= y
<1>1. PICK m \in T : \A y \in T : ~(<<y, m>> \in Below)
  BY BelowWellFounded, WFMin, Zenon
<1>2. ASSUME NEW y \in T PROVE m <= y
  <2>1. ~(y < m)
    BY <1>1, BelowIsLess
  <2> QED BY <2>1
<1> QED BY <1>2

\* A set of numbers with an upper bound has a largest one.
LEMMA MaxOfHoles ==
    ASSUME NEW n \in Nat, NEW S, S \subseteq 0..n, S # {}
    PROVE  Max(S) \in S
<1> DEFINE T == {m \in Nat : \A y \in S : y <= m}
<1>1. n \in T
  OBVIOUS
<1>2. PICK m \in T : \A y \in T : m <= y
  <2> HIDE DEF T
  <2>1. T \in SUBSET Nat
    BY DEF T
  <2> QED BY <1>1, <2>1, LeastOf
<1>3. m \in S
  <2>1. SUFFICES ASSUME m \notin S PROVE FALSE
    OBVIOUS
  <2>2. \A y \in S : y <= m - 1
    BY <2>1
  <2>3. m - 1 \in Nat
    <3>1. PICK y \in S : TRUE
      OBVIOUS
    <3>2. y \in Int /\ y >= 0 /\ y <= m - 1
      BY <2>2
    <3> QED BY <3>2
  <2> QED BY <1>2, <2>2, <2>3
<1>4. \A y \in S : m >= y
  BY <1>2
<1> QED BY <1>3, <1>4 DEF Max

-----------------------------------------------------------------------------
(* The window of a source *)

LEMMA WindowIsNat ==
    ASSUME CacheInv, NEW s \in Sources
    PROVE  /\ WindowForSource(cache, s).ahead \in Nat
           /\ WindowForSource(cache, s).behind \in Nat
<1> DEFINE sources == Max({1, Cardinality(cache.active)})
           whole == Weight[s] * 100 * sources
           share == (70 * Budget + whole - 1) \div whole
           total == Max({1, share})
           part == (total * AheadShare[1] + AheadShare[2] - 2) \div AheadShare[2]
           ahead == Min({total - 1, part})
<1>1. cache.active \in SUBSET Sources
  BY DEF CacheInv
<1>2. Cardinality(cache.active) \in Nat
  BY <1>1, CacheAssumption, FS_Subset, FS_CardinalityType
<1>3. sources \in Nat /\ sources >= 1
  <2> DEFINE n == Cardinality(cache.active)
  <2>1. 1 \in Int /\ n \in Int
    BY <1>2
  <2> HIDE DEF n
  <2>2. Max({1, n}) \in Int /\ Max({1, n}) >= 1
    BY <2>1, MaxOfTwo
  <2> QED BY <2>2 DEF n
<1> HIDE DEF sources
<1>4. Weight[s] \in Nat /\ Weight[s] > 0
  BY CacheAssumption
<1>5. whole \in Nat /\ whole > 0
  <2>1. \A i, j \in Nat : i > 0 /\ j > 0 => i * 100 * j \in Nat /\ i * 100 * j > 0
    OBVIOUS
  <2> QED BY <1>3, <1>4, <2>1
<1> HIDE DEF whole
<1>6. share \in Nat
  <2>1. 70 * Budget + whole - 1 \in Nat
    BY <1>5, CacheAssumption
  <2> QED BY <1>5, <2>1
<1> HIDE DEF share
<1>7. total \in Nat /\ total >= 1
  <2>1. 1 \in Int /\ share \in Int
    BY <1>6
  <2>2. Max({1, share}) \in Int /\ Max({1, share}) >= 1
    BY <2>1, MaxOfTwo
  <2> QED BY <2>2
<1> HIDE DEF total
<1>8. part \in Nat
  <2>1. AheadShare[1] \in Nat /\ AheadShare[2] \in Nat /\ AheadShare[2] >= 2
    BY CacheAssumption
  <2>2. total * AheadShare[1] \in Nat
    BY <1>7, <2>1
  <2>3. total * AheadShare[1] + AheadShare[2] - 2 \in Nat
    BY <2>1, <2>2
  <2> QED BY <2>1, <2>3
<1> HIDE DEF part
<1>9. ahead \in Nat /\ total - 1 - ahead \in Nat
  <2>1. total - 1 \in Int /\ part \in Int
    BY <1>7, <1>8
  <2>2. /\ Min({total - 1, part}) \in Int
        /\ Min({total - 1, part}) <= total - 1
        /\ Min({total - 1, part}) \in {total - 1, part}
    BY <2>1, MinOfTwo
  <2> QED BY <1>7, <1>8, <2>2
<1>10. WindowForSource(cache, s) =
         IF s \notin cache.known \/ total = 1 THEN [ahead |-> 0, behind |-> 0]
         ELSE [ahead |-> ahead, behind |-> total - 1 - ahead]
  BY DEF WindowForSource, sources, whole, share, total, part
<1> QED BY <1>9, <1>10

-----------------------------------------------------------------------------
(* The list of the cache *)

\* The recursion of Without.
RestIs(rest, lru, gone, m) ==
    rest = [n \in 0..m |-> IF n = 0 THEN <<>>
                           ELSE IF lru[n] \in gone THEN rest[n - 1]
                           ELSE Append(rest[n - 1], lru[n])]

LEMMA RestExists ==
    ASSUME NEW lru, NEW gone, NEW m \in Nat
    PROVE  \E rest : RestIs(rest, lru, gone, m)
<1> DEFINE T == {n \in Nat : ~\E rest : RestIs(rest, lru, gone, n)}
<1>1. SUFFICES ASSUME T # {} PROVE FALSE
  OBVIOUS
<1>2. PICK k \in T : \A y \in T : k <= y
  <2>1. T \in SUBSET Nat
    OBVIOUS
  <2> HIDE DEF T
  <2> QED BY <1>1, <2>1, LeastOf
<1>3. k # 0
  <2>1. RestIs([n \in 0..0 |-> <<>>], lru, gone, 0)
    BY DEF RestIs
  <2> QED BY <2>1
<1>4. k - 1 \in Nat /\ k - 1 \notin T
  BY <1>2, <1>3
<1>5. PICK r : RestIs(r, lru, gone, k - 1)
  BY <1>4
<1> DEFINE last == IF lru[k] \in gone THEN r[k - 1] ELSE Append(r[k - 1], lru[k])
           g == [n \in 0..k |-> IF n = k THEN last ELSE r[n]]
<1>6. \A n \in 0..k - 1 : r[n] = IF n = 0 THEN <<>>
                                 ELSE IF lru[n] \in gone THEN r[n - 1]
                                 ELSE Append(r[n - 1], lru[n])
  BY <1>4, <1>5 DEF RestIs
<1>7. \A n \in 0..k : g[n] = IF n = 0 THEN <<>>
                             ELSE IF lru[n] \in gone THEN g[n - 1]
                             ELSE Append(g[n - 1], lru[n])
  BY <1>3, <1>4, <1>6
<1>8. RestIs(g, lru, gone, k)
  <2> HIDE DEF last
  <2>1. DOMAIN g = 0..k /\ g = [n \in 0..k |-> g[n]]
    OBVIOUS
  <2> HIDE DEF g
  <2> QED BY <1>7, <2>1 DEF RestIs
<1> QED BY <1>2, <1>8

LEMMA WithoutIs ==
    ASSUME NEW S, NEW lru \in Seq(S), NEW gone
    PROVE  Without(lru, gone) \in Seq(S \ gone)
<1> DEFINE len == Len(lru)
           rest == CHOOSE r : RestIs(r, lru, gone, len)
<1>1. len \in Nat
  OBVIOUS
<1>2. RestIs(rest, lru, gone, len)
  <2> HIDE DEF len
  <2> QED BY <1>1, RestExists
<1>3. Without(lru, gone) = rest[len]
  BY DEF Without, RestIs
<1> HIDE DEF rest
<1>4. \A n \in 0..len : rest[n] = IF n = 0 THEN <<>>
                                  ELSE IF lru[n] \in gone THEN rest[n - 1]
                                  ELSE Append(rest[n - 1], lru[n])
  BY <1>1, <1>2 DEF RestIs
<1> DEFINE T == {n \in Nat : n <= len /\ rest[n] \notin Seq(S \ gone)}
<1>5. T = {}
  <2>1. SUFFICES ASSUME T # {} PROVE FALSE
    OBVIOUS
  <2>2. PICK k \in T : \A y \in T : k <= y
    <3>1. T \in SUBSET Nat
      OBVIOUS
    <3> HIDE DEF T
    <3> QED BY <2>1, <3>1, LeastOf
  <2>3. k # 0
    <3>1. rest[0] = <<>>
      BY <1>1, <1>4
    <3>2. <<>> \in Seq(S \ gone)
      OBVIOUS
    <3> QED BY <2>2, <3>1, <3>2
  <2>4. k - 1 \in Nat /\ rest[k - 1] \in Seq(S \ gone)
    BY <1>1, <2>2, <2>3
  <2>5. rest[k] = IF lru[k] \in gone THEN rest[k - 1] ELSE Append(rest[k - 1], lru[k])
    BY <1>1, <1>4, <2>3
  <2>6. lru[k] \in S
    BY <1>1, <2>3
  <2>7. rest[k] \in Seq(S \ gone)
    <3>1. CASE lru[k] \in gone
      BY <2>4, <2>5, <3>1
    <3>2. CASE lru[k] \notin gone
      <4> DEFINE q == rest[k - 1]
                 e == lru[k]
      <4>1. q \in Seq(S \ gone) /\ e \in S \ gone
        BY <2>4, <2>6, <3>2
      <4>2. rest[k] = Append(q, e)
        BY <2>5, <3>2
      <4> HIDE DEF q, e
      <4> QED BY <4>1, <4>2
    <3> QED BY <3>1, <3>2
  <2> QED BY <2>2, <2>7
<1>6. len \notin T
  BY <1>5
<1> QED BY <1>1, <1>3, <1>6

LEMMA TouchIs ==
    ASSUME NEW S, NEW lru \in Seq(S), NEW key
    PROVE  Touch(lru, key) \in Seq(S \cup {key})
<1> DEFINE rest == Without(lru, {key})
<1>1. rest \in Seq(S \ {key})
  BY WithoutIs
<1>2. Touch(lru, key) = <<key>> \o rest
  BY DEF Touch
<1> HIDE DEF rest
<1>3. rest \in Seq(S \cup {key}) /\ <<key>> \in Seq(S \cup {key})
  BY <1>1
<1> QED BY <1>2, <1>3

\* The recursion of TouchAll.
UsedIs(used, lru, keys, m) ==
    used = [n \in 0..m |-> IF n = 0 THEN lru
                           ELSE IF keys[n] \in ToSet(lru) THEN Touch(used[n - 1], keys[n])
                           ELSE used[n - 1]]

LEMMA UsedExists ==
    ASSUME NEW lru, NEW keys, NEW m \in Nat
    PROVE  \E used : UsedIs(used, lru, keys, m)
<1> DEFINE T == {n \in Nat : ~\E used : UsedIs(used, lru, keys, n)}
<1>1. SUFFICES ASSUME T # {} PROVE FALSE
  OBVIOUS
<1>2. PICK k \in T : \A y \in T : k <= y
  <2>1. T \in SUBSET Nat
    OBVIOUS
  <2> HIDE DEF T
  <2> QED BY <1>1, <2>1, LeastOf
<1>3. k # 0
  <2>1. UsedIs([n \in 0..0 |-> lru], lru, keys, 0)
    BY DEF UsedIs
  <2> QED BY <2>1
<1>4. k - 1 \in Nat /\ k - 1 \notin T
  BY <1>2, <1>3
<1>5. PICK r : UsedIs(r, lru, keys, k - 1)
  BY <1>4
<1> DEFINE last == IF keys[k] \in ToSet(lru) THEN Touch(r[k - 1], keys[k]) ELSE r[k - 1]
           g == [n \in 0..k |-> IF n = k THEN last ELSE r[n]]
<1>6. \A n \in 0..k - 1 : r[n] = IF n = 0 THEN lru
                                 ELSE IF keys[n] \in ToSet(lru)
                                 THEN Touch(r[n - 1], keys[n]) ELSE r[n - 1]
  BY <1>4, <1>5 DEF UsedIs
<1>7. \A n \in 0..k : g[n] = IF n = 0 THEN lru
                             ELSE IF keys[n] \in ToSet(lru)
                             THEN Touch(g[n - 1], keys[n]) ELSE g[n - 1]
  BY <1>3, <1>4, <1>6
<1>8. UsedIs(g, lru, keys, k)
  <2> HIDE DEF last
  <2>1. DOMAIN g = 0..k /\ g = [n \in 0..k |-> g[n]]
    OBVIOUS
  <2> HIDE DEF g
  <2> QED BY <1>7, <2>1 DEF UsedIs
<1> QED BY <1>2, <1>8

LEMMA TouchAllIs ==
    ASSUME NEW S, NEW lru \in Seq(S), NEW keys, Len(keys) \in Nat
    PROVE  TouchAll(lru, keys) \in Seq(S)
<1> DEFINE len == Len(keys)
           used == CHOOSE r : UsedIs(r, lru, keys, len)
<1>2. UsedIs(used, lru, keys, len)
  <2>1. len \in Nat
    OBVIOUS
  <2> HIDE DEF len
  <2> QED BY <2>1, UsedExists
<1>3. TouchAll(lru, keys) = used[len]
  BY DEF TouchAll, UsedIs
<1>1. len \in Nat
  OBVIOUS
<1> HIDE DEF used, len
<1>4. \A n \in 0..len : used[n] = IF n = 0 THEN lru
                                  ELSE IF keys[n] \in ToSet(lru)
                                  THEN Touch(used[n - 1], keys[n]) ELSE used[n - 1]
  BY <1>1, <1>2 DEF UsedIs
<1> DEFINE T == {n \in Nat : n <= len /\ used[n] \notin Seq(S)}
<1>5. T = {}
  <2>1. SUFFICES ASSUME T # {} PROVE FALSE
    OBVIOUS
  <2>2. PICK k \in T : \A y \in T : k <= y
    <3>1. T \in SUBSET Nat
      OBVIOUS
    <3> HIDE DEF T
    <3> QED BY <2>1, <3>1, LeastOf
  <2>3. k # 0
    BY <1>1, <1>4, <2>2
  <2>4. k - 1 \in Nat /\ used[k - 1] \in Seq(S)
    BY <1>1, <2>2, <2>3
  <2>5. used[k] = IF keys[k] \in ToSet(lru) THEN Touch(used[k - 1], keys[k])
                                           ELSE used[k - 1]
    BY <1>1, <1>4, <2>3
  <2>6. used[k] \in Seq(S)
    <3>1. CASE keys[k] \in ToSet(lru)
      <4> DEFINE q == used[k - 1]
                 e == keys[k]
      <4>1. used[k] = Touch(q, e) /\ q \in Seq(S)
        BY <2>4, <2>5, <3>1
      <4>2. e \in S
        BY <3>1 DEF ToSet
      <4>3. S \cup {e} = S
        BY <4>2
      <4> HIDE DEF q, e
      <4>4. Touch(q, e) \in Seq(S \cup {e})
        BY <4>1, TouchIs
      <4> QED BY <4>1, <4>3, <4>4
    <3>2. CASE keys[k] \notin ToSet(lru)
      BY <2>4, <2>5, <3>2
    <3> QED BY <3>1, <3>2
  <2> QED BY <2>2, <2>6
<1>6. len \notin T
  BY <1>5
<1> QED BY <1>1, <1>3, <1>6

LEMMA EvictIs ==
    ASSUME NEW S, NEW lru \in Seq(S)
    PROVE  EvictToBudget(lru) \in Seq(S)
<1> DEFINE weight[n \in 0..Len(lru)] ==
               IF n = 0 THEN 0 ELSE weight[n - 1] + Weight[lru[n][1]]
           fits == {0} \cup {n \in 1..Len(lru) : weight[n] <= Budget}
           len == Len(lru)
<1>1. fits \subseteq 0..len /\ fits # {} /\ len \in Nat
  <2> HIDE DEF weight
  <2> QED OBVIOUS
<1>2. EvictToBudget(lru) = SubSeq(lru, 1, Max(fits))
  BY DEF EvictToBudget
<1> HIDE DEF fits
<1>3. Max(fits) \in 0..len
  <2> HIDE DEF len
  <2> QED BY <1>1, MaxOfHoles
<1> DEFINE m == Max(fits)
<1>4. m \in 0..len /\ EvictToBudget(lru) = SubSeq(lru, 1, m)
  BY <1>2, <1>3
<1> HIDE DEF m
<1> QED BY <1>4

\* What Put leaves of the cache.
LEMMA PutIs ==
    ASSUME NEW S, NEW c, c.lru \in Seq(S), NEW key,
           c = [lru |-> c.lru, known |-> c.known, active |-> c.active]
    PROVE  \E lru, known : /\ Put(c, key) = [lru |-> lru, known |-> known, active |-> c.active]
                           /\ lru \in Seq(S \cup {key})
<1>1. CASE Cached(c, key)
  <2>1. Put(c, key) = [lru |-> Touch(c.lru, key), known |-> c.known, active |-> c.active]
    BY <1>1 DEF Put
  <2> QED BY <2>1, TouchIs
<1>2. CASE ~Cached(c, key)
  <2> DEFINE more == <<key>> \o c.lru
  <2>1. more \in Seq(S \cup {key})
    <3>1. <<key>> \in Seq(S \cup {key}) /\ c.lru \in Seq(S \cup {key})
      OBVIOUS
    <3> QED BY <3>1
  <2>2. EvictToBudget(more) \in Seq(S \cup {key})
    <3> HIDE DEF more
    <3> QED BY <2>1, EvictIs
  <2>3. Put(c, key) = [lru |-> EvictToBudget(more), known |-> c.known \cup {key[1]},
                       active |-> c.active]
    BY <1>2 DEF Put
  <2> QED BY <2>2, <2>3
<1> QED BY <1>1, <1>2

\* Clearing a source leaves none of its frames.
LEMMA ClearIs ==
    ASSUME NEW S, NEW c, c.lru \in Seq(S), NEW s,
           c = [lru |-> c.lru, known |-> c.known, active |-> c.active]
    PROVE  \E lru : /\ ClearSource(c, s) = [lru |-> lru, known |-> c.known \ {s},
                                           active |-> c.active]
                    /\ lru \in Seq(S)
                    /\ \A k \in ToSet(lru) : k[1] # s
<1> DEFINE gone == {k \in ToSet(c.lru) : k[1] = s}
           lru == Without(c.lru, gone)
<1>1. ClearSource(c, s) = [lru |-> lru, known |-> c.known \ {s}, active |-> c.active]
  <2>1. ClearSource(c, s) = [c EXCEPT !.lru = lru, !.known = c.known \ {s}]
    BY Zenon DEF ClearSource
  <2> HIDE DEF lru
  <2> QED BY <2>1
<1>2. c.lru \in Seq(ToSet(c.lru))
  <2> DEFINE l == c.lru
  <2>1. /\ Len(l) \in Nat /\ DOMAIN l = 1..Len(l)
        /\ l = [i \in 1..Len(l) |-> l[i]]
    OBVIOUS
  <2>2. \A i \in 1..Len(l) : l[i] \in ToSet(l)
    BY <2>1 DEF ToSet
  <2> HIDE DEF l
  <2>3. l \in Seq(ToSet(l))
    BY <2>1, <2>2
  <2> QED BY <2>3 DEF l
<1>3. lru \in Seq(ToSet(c.lru) \ gone) /\ lru \in Seq(S \ gone)
  <2> HIDE DEF gone
  <2> QED BY <1>2, WithoutIs
<1> HIDE DEF lru
<1>4. \A k \in ToSet(lru) : k \in ToSet(c.lru) \ gone
  <2> HIDE DEF gone
  <2> QED BY <1>3 DEF ToSet
<1>5. lru \in Seq(S)
  <2> HIDE DEF gone
  <2> QED BY <1>3
<1> QED BY <1>1, <1>4, <1>5

\* Reordering or evicting frames registers no decoder and unregisters none.
LEMMA CacheKept ==
    ASSUME CacheInv, NEW T, NEW l \in Seq(T), NEW k,
           \/ cache' = [cache EXCEPT !.lru = l]
           \/ cache' = [cache EXCEPT !.lru = l, !.known = k]
    PROVE  CacheInv'
<1>1. PICK lru, known, active : /\ active \in SUBSET Sources
                                /\ cache = [lru |-> lru, known |-> known, active |-> active]
  BY DEF CacheInv
<1>2. \/ cache' = [lru |-> l, known |-> known, active |-> active]
      \/ cache' = [lru |-> l, known |-> k, active |-> active]
  BY <1>1
<1> QED BY <1>1, <1>2 DEF CacheInv

-----------------------------------------------------------------------------
(* The main thread *)

\* A file that is open, or that cannot be opened.
LEMMA FileIsSeq ==
    ASSUME NEW s \in Sources, NEW f \in Files[s] \cup {Offline}
    PROVE  f \in Seq(Nat)
<1>1. Files[s] \subseteq Seq(Nat) /\ <<>> \in Seq(Nat)
  BY PlaybackAssumption
<1> QED BY <1>1 DEF Offline

LEMMA StartedOK ==
    ASSUME NEW f
    PROVE  Started(f) \in Thread /\ FillOK(Started(f))
  BY DEF Started, Asleep, None, Thread, FillOK

LEMMA InitInv == Init => IInv
<1> SUFFICES ASSUME Init PROVE IInv
  OBVIOUS
<1>1. CacheInv
  <2>1. cache = [lru |-> <<>>, known |-> {}, active |-> Online]
    BY DEF Init, EmptyCache
  <2>2. <<>> \in Seq({}) /\ Online \in SUBSET Sources
    BY DEF Online
  <2> QED BY <2>1, <2>2 DEF CacheInv
<1>2. NewRequest \in Request /\ ~NewRequest.changed
  BY DEF NewRequest, Request, None
<1>3. file \in [Sources -> Seq(Nat)]
  BY PlaybackAssumption, FileIsSeq DEF Init
<1>4. thread = [s \in Sources |-> Started(file[s])]
  BY DEF Init
<1>5. ThreadInv
  BY <1>4, StartedOK DEF ThreadInv
<1> QED BY <1>1, <1>2, <1>3, <1>5 DEF Init, IInv, AskInv

LEMMA TurnedIsRequest ==
    ASSUME NEW a \in Request, NEW f \in Frames, NEW faster \in BOOLEAN
    PROVE  [Turned(a, f, faster) EXCEPT !.asked = f, !.changed = TRUE] \in Request
<1> DEFINE dir == IF f > a.asked THEN 1 ELSE -1
           samples == IF dir = a.cand THEN Min({2, a.samples + 1}) ELSE 1
<1>1. dir \in Int
  OBVIOUS
<1>2. a.samples + 1 \in Int /\ a.stable \in Int /\ a.cand \in Int
  BY DEF Request
<1>3. Min({2, a.samples + 1}) \in Int
  <2> DEFINE more == a.samples + 1
  <2>1. 2 \in Int /\ more \in Int
    BY <1>2
  <2> HIDE DEF more
  <2>2. Min({2, more}) \in Int
    BY <2>1, MinOfTwo
  <2> QED BY <2>2 DEF more
<1>4. samples \in Int
  BY <1>3
<1> HIDE DEF dir, samples
<1>5. Turned(a, f, faster) \in Request
  <2>1. Turned(a, f, faster) =
          IF a.asked = None THEN a
          ELSE [a EXCEPT !.cand = dir, !.samples = samples,
                         !.stable = IF faster \/ samples = 2 THEN dir ELSE @]
    BY DEF Turned, dir, samples
  <2> QED BY <1>1, <1>2, <1>4, <2>1 DEF Request
<1> QED BY <1>5 DEF Request

LEMMA RequestFrameInv ==
    ASSUME IInv, NEW faster \in BOOLEAN, RequestFrame(faster)
    PROVE  IInv'
<1> DEFINE s == Head(calls)[1]
           f == Head(calls)[2]
<1>1. s \in Sources /\ f \in Frames /\ calls' \in Seq(Sources \X Frames)
  BY DEF IInv, AskInv, RequestFrame
<1>2. UNCHANGED <<cache, file, thread, slots>>
  BY DEF RequestFrame
<1>3. CASE file[s] = Offline \/ f = ask[s].asked
  BY <1>1, <1>2, <1>3 DEF RequestFrame, IInv, CacheInv, AskInv, ThreadInv
<1>4. CASE ~(file[s] = Offline \/ f = ask[s].asked)
  <2> DEFINE r == [Turned(ask[s], f, faster) EXCEPT !.asked = f, !.changed = TRUE]
  <2>1. ask' = [ask EXCEPT ![s] = r]
    BY <1>4 DEF RequestFrame
  <2>2. r \in Request
    BY <1>1, TurnedIsRequest DEF IInv, AskInv
  <2>3. r.asked = f
    BY <2>2 DEF Request
  <2> HIDE DEF r, s, f
  <2> QED BY <1>1, <1>2, <2>1, <2>2, <2>3 DEF IInv, CacheInv, AskInv, ThreadInv
<1> QED BY <1>3, <1>4

LEMMA SeekInv ==
    ASSUME IInv, NEW view \in Views, Seek(view)
    PROVE  IInv'
<1>1. view \in Seq(Sources \X Frames)
  BY PlaybackAssumption DEF Frames
<1> QED BY <1>1 DEF Seek, IInv, CacheInv, AskInv, ThreadInv

LEMMA PresentInv ==
    ASSUME IInv, Present
    PROVE  IInv'
<1>1. CacheInv'
  <2> DEFINE keys == [i \in DOMAIN slots |-> <<slots[i][1], shown'[i]>>]
             l == TouchAll(cache.lru, keys)
  <2>1. cache' = [cache EXCEPT !.lru = l]
    BY Zenon DEF Present
  <2>2. PICK S : cache.lru \in Seq(S)
    BY DEF IInv, CacheInv
  <2>3. Len(keys) \in Nat
    <3>1. Len(slots) \in Nat /\ DOMAIN slots = 1..Len(slots)
      BY DEF IInv, AskInv
    <3>2. keys = [i \in 1..Len(slots) |-> <<slots[i][1], shown'[i]>>]
      BY <3>1
    <3> QED BY <3>1, <3>2
  <2>4. l \in Seq(S)
    <3> HIDE DEF keys
    <3> QED BY <2>2, <2>3, TouchAllIs
  <2> HIDE DEF l
  <2> QED BY <2>1, <2>4, CacheKept DEF IInv
<1>2. UNCHANGED <<ask, file, thread, slots, calls>>
  BY DEF Present
<1> QED BY <1>1, <1>2 DEF IInv, AskInv, ThreadInv

LEMMA ReloadInv ==
    ASSUME IInv, \/ BeginReload \/ Resume
                 \/ \E s \in Sources : Stop(s) \/ Join(s) \/ Reopen(s)
    PROVE  IInv'
<1>1. CASE BeginReload
  BY <1>1 DEF BeginReload, IInv, CacheInv, AskInv, ThreadInv
<1>2. CASE Resume
  BY <1>2 DEF Resume, IInv, CacheInv, AskInv, ThreadInv
<1>3. ASSUME NEW s \in Sources, Stop(s) PROVE IInv'
  <2>1. ask' \in [Sources -> Request]
    BY <1>3 DEF Stop, IInv, AskInv, Request
  <2>2. \A u \in Sources : ask'[u].changed = ask[u].changed /\ ask'[u].asked = ask[u].asked
    BY <1>3 DEF Stop, IInv, AskInv, Request
  <2>3. UNCHANGED <<cache, file, thread, slots, calls>>
    BY <1>3 DEF Stop
  <2> QED BY <2>1, <2>2, <2>3 DEF IInv, CacheInv, AskInv, ThreadInv
<1>4. ASSUME NEW s \in Sources, Join(s) PROVE IInv'
  <2>1. PICK S, lru, known, active :
            /\ cache = [lru |-> lru, known |-> known, active |-> active]
            /\ lru \in Seq(S) /\ active \in SUBSET Sources
    BY DEF IInv, CacheInv
  <2>2. PICK a \in SUBSET Sources : cache' = [lru |-> lru, known |-> known, active |-> a]
    BY <1>4, <2>1 DEF Join
  <2>3. CacheInv'
    BY <2>1, <2>2 DEF CacheInv
  <2>4. UNCHANGED <<ask, file, thread, slots, calls>>
    BY <1>4 DEF Join
  <2> QED BY <2>3, <2>4 DEF IInv, AskInv, ThreadInv
<1>5. ASSUME NEW s \in Sources, Reopen(s) PROVE IInv'
  <2>1. PICK S, lru, known, active :
            /\ cache = [lru |-> lru, known |-> known, active |-> active]
            /\ lru \in Seq(S) /\ active \in SUBSET Sources
    BY DEF IInv, CacheInv
  <2>2. /\ cache = [lru |-> cache.lru, known |-> cache.known, active |-> cache.active]
        /\ cache.lru \in Seq(S) /\ cache.active = active
    BY <2>1
  <2>3. PICK l : /\ ClearSource(cache, s) = [lru |-> l, known |-> cache.known \ {s},
                                            active |-> active]
                 /\ l \in Seq(S)
    BY <2>2, ClearIs
  <2>10. PICK f \in Files[s] \cup {Offline} :
             /\ file' = [file EXCEPT ![s] = f]
             /\ thread' = [thread EXCEPT ![s] = Started(f)]
             /\ cache' = [ClearSource(cache, s) EXCEPT !.active =
                             IF f # Offline THEN @ \cup {s} ELSE @]
    BY <1>5 DEF Reopen
  <2> DEFINE more == IF f # Offline THEN active \cup {s} ELSE active
  <2>4. cache' = [lru |-> l, known |-> cache.known \ {s}, active |-> more]
    <3> DEFINE c == ClearSource(cache, s)
    <3>1. cache' = [c EXCEPT !.active = IF f # Offline THEN c.active \cup {s} ELSE c.active]
      BY <2>10
    <3>2. c = [lru |-> l, known |-> cache.known \ {s}, active |-> active]
      BY <2>3
    <3> HIDE DEF c
    <3> QED BY <3>1, <3>2
  <2>5. CacheInv'
    BY <2>1, <2>3, <2>4 DEF CacheInv
  <2>6. NewRequest \in Request /\ ~NewRequest.changed
    BY DEF NewRequest, Request, None
  <2>7. ThreadInv'
    BY <2>10, StartedOK DEF IInv, ThreadInv
  <2>9. file' \in [Sources -> Seq(Nat)]
    BY <2>10, FileIsSeq DEF IInv, AskInv
  <2>8. /\ ask' = [ask EXCEPT ![s] = NewRequest]
        /\ UNCHANGED <<slots, calls>>
    BY <1>5 DEF Reopen
  <2> QED BY <2>5, <2>6, <2>7, <2>8, <2>9 DEF IInv, AskInv
<1> QED BY <1>1, <1>2, <1>3, <1>4, <1>5

-----------------------------------------------------------------------------
(* The thread of a decoder *)

LEMMA FramesAre ==
    /\ FrameCount \in Int
    /\ \A f : f \in Frames <=> f \in Int /\ f >= 0 /\ f <= FrameCount - 1
  BY MediaAssumption DEF Frames

\* A thread that only moves on.
LEMMA ThreadMoves ==
    ASSUME IInv, NEW s \in Sources, NEW t \in Thread, FillOK(t),
           thread' = [thread EXCEPT ![s] = t], CacheInv',
           UNCHANGED <<ask, file, slots, calls>>
    PROVE  IInv'
  BY DEF IInv, AskInv, ThreadInv

LEMMA AsleepOK ==
    ASSUME NEW n \in Int, NEW k \in Nat
    PROVE  Asleep(n, k) \in Thread /\ FillOK(Asleep(n, k))
  BY DEF Asleep, Thread, FillOK

LEMMA TakeRequestInv ==
    ASSUME IInv, NEW s \in Sources, TakeRequest(s)
    PROVE  IInv'
<1> DEFINE t == thread[s]
           a == ask[s]
<1>0. t \in Thread /\ a \in Request /\ UNCHANGED <<cache, file, slots, calls>>
  BY DEF IInv, AskInv, ThreadInv, TakeRequest, Main
<1>1. CASE a.stopping
  <2>1. thread' = [thread EXCEPT ![s] = [t EXCEPT !.pc = "ended"]] /\ ask' = ask
    BY <1>1 DEF TakeRequest
  <2>2. [t EXCEPT !.pc = "ended"] \in Thread /\ FillOK([t EXCEPT !.pc = "ended"])
    BY <1>0 DEF Thread, FillOK
  <2> QED BY <1>0, <2>1, <2>2, ThreadMoves DEF IInv, CacheInv
<1>2. CASE ~a.stopping
  <2> DEFINE u == [t EXCEPT !.pc = "target", !.target = a.asked, !.dir = a.stable]
             b == [a EXCEPT !.changed = FALSE]
  <2>1. thread' = [thread EXCEPT ![s] = u] /\ ask' = [ask EXCEPT ![s] = b]
    BY <1>2 DEF TakeRequest
  <2>2. a.asked \in Frames
    BY <1>2 DEF TakeRequest, RequestChanged, IInv, AskInv
  <2>3. u \in Thread /\ FillOK(u)
    BY <1>0, <2>2, FramesAre DEF Thread, Request, FillOK
  <2>4. b \in Request /\ ~b.changed
    BY <1>0 DEF Request
  <2> HIDE DEF u, b
  <2> QED BY <1>0, <2>1, <2>3, <2>4 DEF IInv, CacheInv, AskInv, ThreadInv
<1> QED BY <1>1, <1>2

LEMMA CheckTargetInv ==
    ASSUME IInv, NEW s \in Sources, CheckTarget(s)
    PROVE  IInv'
<1> DEFINE t == thread[s]
           u == IF Cached(cache, <<s, t.target>>) THEN [t EXCEPT !.pc = "window"]
                ELSE [t EXCEPT !.pc = "ascend", !.cursor = t.target,
                               !.last = t.target, !.then = "window"]
<1>1. t \in Thread /\ t.target \in Frames
  BY DEF IInv, ThreadInv, FillOK, CheckTarget
<1>2. u \in Thread /\ FillOK(u)
  <2>1. CASE Cached(cache, <<s, t.target>>)
    BY <1>1, <2>1 DEF Thread, FillOK
  <2>2. CASE ~Cached(cache, <<s, t.target>>)
    BY <1>1, <2>2, FramesAre DEF Thread, FillOK
  <2> QED BY <2>1, <2>2
<1>3. thread' = [thread EXCEPT ![s] = u] /\ UNCHANGED <<cache, ask, file, slots, calls>>
  BY DEF CheckTarget, Main
<1> HIDE DEF u
<1> QED BY <1>2, <1>3, ThreadMoves DEF IInv, CacheInv

LEMMA WindowInv ==
    ASSUME IInv, NEW s \in Sources, Window(s)
    PROVE  IInv'
<1> DEFINE t == thread[s]
           w == WindowForSource(cache, s)
           first == IF t.dir > 0 THEN Max({0, t.target - w.behind}) ELSE t.target + 1
           last == IF t.dir > 0 THEN t.target - 1
                   ELSE Min({FrameCount - 1, t.target + w.behind})
           u == IF RequestChanged(s) THEN Asleep(t.next, t.at)
                ELSE [t EXCEPT !.pc = "ascend", !.cursor = first, !.last = last,
                               !.ahead = w.ahead, !.then = "ahead"]
<1>1. t \in Thread /\ t.target \in Frames
  BY DEF IInv, ThreadInv, FillOK, Window
<1>2. w.ahead \in Nat /\ w.behind \in Nat
  BY WindowIsNat DEF IInv
<1>3. thread' = [thread EXCEPT ![s] = u] /\ UNCHANGED <<cache, ask, file, slots, calls>>
  BY DEF Window, Main, Sleep
<1> HIDE DEF w
<1>4. t.dir \in Int /\ t.next \in Int /\ t.at \in Nat /\ t.target \in Int /\ FrameCount \in Int
  BY <1>1, MediaAssumption DEF Thread
<1>5. first \in Int /\ first >= 0
  <2> DEFINE low == t.target - w.behind
  <2>1. 0 \in Int /\ low \in Int
    BY <1>2, <1>4
  <2> HIDE DEF low
  <2>2. Max({0, low}) \in Int /\ Max({0, low}) >= 0
    BY <2>1, MaxOfTwo
  <2> QED BY <1>1, <2>2 DEF low, Frames
<1>6. last \in Int /\ last <= FrameCount - 1
  <2> DEFINE end == FrameCount - 1
             high == t.target + w.behind
  <2>1. end \in Int /\ high \in Int
    BY <1>2, <1>4
  <2> HIDE DEF end, high
  <2>2. Min({end, high}) \in Int /\ Min({end, high}) <= end
    BY <2>1, MinOfTwo
  <2> QED BY <1>1, <1>4, <2>2 DEF end, high, Frames
<1> HIDE DEF first, last
<1>7. u \in Thread /\ FillOK(u)
  BY <1>1, <1>2, <1>4, <1>5, <1>6, AsleepOK DEF Thread, FillOK
<1> HIDE DEF u
<1> QED BY <1>3, <1>7, ThreadMoves DEF IInv, CacheInv

LEMMA AheadInv ==
    ASSUME IInv, NEW s \in Sources, Ahead(s)
    PROVE  IInv'
<1> DEFINE t == thread[s]
           end == FrameCount - 1
           high == t.target + t.ahead
           last == Min({end, high})
           u == IF t.dir > 0
                THEN [t EXCEPT !.pc = "ascend", !.cursor = t.target + 1,
                               !.last = last, !.then = "wait"]
                ELSE [t EXCEPT !.pc = "reverse"]
<1>1. t \in Thread /\ t.target \in Frames
  BY DEF IInv, ThreadInv, FillOK, Ahead
<1>2. thread' = [thread EXCEPT ![s] = u] /\ UNCHANGED <<cache, ask, file, slots, calls>>
  BY DEF Ahead, Main
<1>3. end \in Int /\ high \in Int
  BY <1>1, MediaAssumption DEF Thread
<1> HIDE DEF high
<1>4. last \in Int /\ last <= end
  <2> HIDE DEF end
  <2> QED BY <1>3, MinOfTwo
<1> HIDE DEF last
<1>5. u \in Thread /\ FillOK(u)
  <2>1. CASE t.dir > 0
    <3>1. /\ t.target + 1 \in Int /\ t.target + 1 >= 0
          /\ last \in Int /\ last <= FrameCount - 1
      BY <1>1, <1>4, FramesAre
    <3>2. u = [t EXCEPT !.pc = "ascend", !.cursor = t.target + 1, !.last = last,
                        !.then = "wait"]
      BY <2>1
    <3> HIDE DEF u
    <3>3. u \in Thread /\ u.pc = "ascend" /\ u.cursor = t.target + 1
          /\ u.last = last /\ u.target = t.target
      BY <1>1, <3>1, <3>2 DEF Thread
    <3> QED BY <1>1, <3>1, <3>3 DEF FillOK
  <2>2. CASE ~(t.dir > 0)
    BY <1>1, <2>2 DEF Thread, FillOK
  <2> QED BY <2>1, <2>2
<1> HIDE DEF u
<1> QED BY <1>2, <1>5, ThreadMoves DEF IInv, CacheInv

LEMMA AscendInv ==
    ASSUME IInv, NEW s \in Sources, Ascend(s)
    PROVE  IInv'
<1> DEFINE t == thread[s]
<1>1. t \in Thread /\ FillOK(t) /\ t.pc = "ascend" /\ UNCHANGED <<ask, file, slots, calls>>
  BY DEF IInv, ThreadInv, Ascend, Main
<1>2. t.next \in Int /\ t.at \in Nat /\ t.cursor \in Int /\ t.last \in Int
  BY <1>1 DEF Thread
<1>3. CASE thread' = [thread EXCEPT ![s] = Asleep(t.next, t.at)] /\ UNCHANGED cache
  BY <1>1, <1>2, <1>3, AsleepOK, ThreadMoves DEF IInv, CacheInv
<1>4. CASE /\ thread' = [thread EXCEPT ![s] = [t EXCEPT !.pc = t.then]]
           /\ UNCHANGED cache /\ t.then # "wait"
  <2>1. [t EXCEPT !.pc = t.then] \in Thread /\ FillOK([t EXCEPT !.pc = t.then])
    BY <1>1, <1>4 DEF Thread, FillOK
  <2> QED BY <1>1, <1>4, <2>1, ThreadMoves DEF IInv, CacheInv
<1>5. CASE /\ thread' = [thread EXCEPT ![s] = [t EXCEPT !.cursor = t.cursor + 1]]
           /\ cache' = [cache EXCEPT !.lru = Touch(@, <<s, t.cursor>>)]
  <2>1. /\ [t EXCEPT !.cursor = t.cursor + 1] \in Thread
        /\ FillOK([t EXCEPT !.cursor = t.cursor + 1])
    BY <1>1, <1>2 DEF Thread, FillOK
  <2>2. CacheInv'
    <3> DEFINE l == Touch(cache.lru, <<s, t.cursor>>)
    <3>1. cache' = [cache EXCEPT !.lru = l]
      BY <1>5
    <3>2. PICK S : cache.lru \in Seq(S)
      BY DEF IInv, CacheInv
    <3>3. l \in Seq(S \cup {<<s, t.cursor>>})
      BY <3>2, TouchIs
    <3> HIDE DEF l
    <3> QED BY <3>1, <3>3, CacheKept DEF IInv
  <2> QED BY <1>1, <1>5, <2>1, <2>2, ThreadMoves
<1>6. CASE /\ thread' = [thread EXCEPT ![s] = [t EXCEPT !.pc = "decode"]]
           /\ UNCHANGED cache /\ ~(t.cursor > t.last)
  <2>1. [t EXCEPT !.pc = "decode"] \in Thread /\ FillOK([t EXCEPT !.pc = "decode"])
    BY <1>1, <1>2, <1>6 DEF Thread, FillOK
  <2> QED BY <1>1, <1>6, <2>1, ThreadMoves DEF IInv, CacheInv
<1> QED BY <1>3, <1>4, <1>5, <1>6 DEF Ascend, Sleep

LEMMA StoreKeeps ==
    ASSUME IInv, NEW s, NEW f, Store(s, f)
    PROVE  CacheInv'
<1>1. PICK S, active :
          /\ cache = [lru |-> cache.lru, known |-> cache.known, active |-> cache.active]
          /\ cache.lru \in Seq(S) /\ cache.active = active /\ active \in SUBSET Sources
  BY DEF IInv, CacheInv
<1>2. cache' = Put(cache, <<s, f>>)
  BY DEF Store
<1>3. PICK l, k : /\ Put(cache, <<s, f>>) = [lru |-> l, known |-> k, active |-> active]
                  /\ l \in Seq(S \cup {<<s, f>>})
  BY <1>1, PutIs
<1> QED BY <1>1, <1>2, <1>3 DEF CacheInv

\* A decoder finds a picture of its file, or none.
LEMMA PictureFound ==
    ASSUME IInv, NEW s \in Sources, NEW f, NEW k \in Nat,
           NEW n \in {DecodeFrame(file[s], f), DecodeNextFrame(file[s], k)}
    PROVE  n = 0 \/ n \in DOMAIN file[s]
<1> DEFINE pictures == file[s]
<1>1. Len(pictures) \in Nat /\ DOMAIN pictures = 1..Len(pictures)
  BY DEF IInv, AskInv
<1>2. DecodeFrame(pictures, f) \in {0} \cup DOMAIN pictures
  <2> DEFINE time == TimeOf(Max({0, Min({f, FrameCount - 1})}))
             from == {i \in 1..Len(pictures) : pictures[i] >= time}
  <2>1. DecodeFrame(pictures, f) = IF from # {} THEN Min(from) ELSE 0
    BY DEF DecodeFrame, SelectInSeq
  <2> HIDE DEF time
  <2>2. ASSUME from # {} PROVE Min(from) \in from
    <3>1. from \in SUBSET Nat
      OBVIOUS
    <3> HIDE DEF from
    <3>2. \E m \in from : \A y \in from : m =< y
      BY <2>2, <3>1, LeastOf
    <3> QED BY <3>2 DEF Min
  <2> QED BY <1>1, <2>1, <2>2
<1>3. DecodeNextFrame(pictures, k) \in {0} \cup DOMAIN pictures
  <2> HIDE DEF pictures
  <2> QED BY <1>1 DEF DecodeNextFrame
<1> QED BY <1>2, <1>3

\* The time of a picture counts as a frame.
LEMMA IndexIsInt ==
    ASSUME IInv, NEW s \in Sources, NEW n \in DOMAIN file[s]
    PROVE  FrameIndexForPts(file[s][n]) + 1 \in Int /\ n \in Nat
<1>1. file[s] \in Seq(Nat)
  BY DEF IInv, AskInv
<1>2. file[s][n] \in Nat /\ n \in Nat
  BY <1>1
<1>3. Ticks[1] \in Nat /\ Ticks[1] > 0 /\ Ticks[2] \in Nat
  BY MediaAssumption
<1>4. \A i, j \in Nat : \A k \in Nat \ {0} : (2 * i * j + k) \div (2 * k) + 1 \in Int
  <2> TAKE i, j \in Nat
  <2> TAKE k \in Nat \ {0}
  <2>1. 2 * i * j + k \in Int /\ 2 * k \in Int /\ 2 * k > 0
    OBVIOUS
  <2> QED BY <2>1
<1> QED BY <1>2, <1>3, <1>4 DEF FrameIndexForPts

LEMMA GiveUpInv ==
    ASSUME IInv, NEW s \in Sources, GiveUp(s), UNCHANGED <<ask, file, slots, calls>>
    PROVE  IInv'
<1>1. None \in Int /\ 0 \in Nat
  BY DEF None
<1> QED BY <1>1, AsleepOK, ThreadMoves DEF GiveUp, IInv, CacheInv

LEMMA DecodeInv ==
    ASSUME IInv, NEW s \in Sources, Decode(s)
    PROVE  IInv'
<1> DEFINE t == thread[s]
           n == IF Seeks(t) THEN DecodeFrame(file[s], t.cursor)
                            ELSE DecodeNextFrame(file[s], t.at)
           f == FrameIndexForPts(file[s][n])
<1>1. /\ t \in Thread /\ FillOK(t) /\ t.pc = "decode"
      /\ UNCHANGED <<ask, file, slots, calls>>
  BY DEF IInv, ThreadInv, Decode, Main
<1>2. t.next \in Int /\ t.at \in Nat /\ t.cursor \in Int /\ t.last \in Int
  BY <1>1 DEF Thread
<1>3. CASE Seeks(t) /\ RequestChanged(s)
  <2>1. thread' = [thread EXCEPT ![s] = Asleep(t.next, t.at)] /\ UNCHANGED cache
    BY <1>3 DEF Decode, Sleep
  <2> QED BY <1>1, <1>2, <2>1, AsleepOK, ThreadMoves DEF IInv, CacheInv
<1>4. CASE ~(Seeks(t) /\ RequestChanged(s)) /\ n = 0
  <2>1. GiveUp(s)
    BY <1>4 DEF Decode
  <2> QED BY <1>1, <2>1, GiveUpInv
<1>5. CASE ~(Seeks(t) /\ RequestChanged(s)) /\ n # 0
  <2> DEFINE m == f + 1
             c == t.cursor + 1
             u == IF RequestChanged(s) THEN Asleep(m, n)
                  ELSE IF ~Seeks(t) /\ f < t.cursor THEN [t EXCEPT !.next = m, !.at = n]
                  ELSE [t EXCEPT !.next = m, !.at = n, !.pc = "ascend", !.cursor = c]
  <2>1. Store(s, f) /\ thread' = [thread EXCEPT ![s] = u]
    <3> DEFINE on == [t EXCEPT !.next = m, !.at = n]
    <3>1. /\ Store(s, f)
          /\ thread' = [thread EXCEPT ![s] =
                 IF RequestChanged(s) THEN Asleep(m, n)
                 ELSE IF ~Seeks(t) /\ f < t.cursor THEN on
                 ELSE [on EXCEPT !.pc = "ascend", !.cursor = on.cursor + 1]]
      BY <1>5 DEF Decode
    <3>2. [on EXCEPT !.pc = "ascend", !.cursor = on.cursor + 1] =
            [t EXCEPT !.next = m, !.at = n, !.pc = "ascend", !.cursor = c]
      <4> HIDE DEF m, n
      <4> QED BY <1>1 DEF Thread
    <3> QED BY <3>1, <3>2
  <2>2. CacheInv'
    BY <2>1, StoreKeeps
  <2>3. n \in DOMAIN file[s]
    <3> HIDE DEF n
    <3> QED BY <1>2, <1>5, PictureFound DEF n
  <2>4. m \in Int /\ n \in Nat
    <3> HIDE DEF n
    <3> QED BY <2>3, IndexIsInt
  <2>5. c \in Int
    BY <1>2
  <2> HIDE DEF m, n
  <2>6. u \in Thread /\ FillOK(u)
    <3>1. CASE RequestChanged(s)
      BY <2>4, <3>1, AsleepOK
    <3>2. CASE ~RequestChanged(s) /\ ~Seeks(t) /\ f < t.cursor
      <4>1. u = [t EXCEPT !.next = m, !.at = n]
        BY <3>2
      <4> HIDE DEF u
      <4> QED BY <1>1, <2>4, <4>1 DEF Thread, FillOK
    <3>3. CASE ~RequestChanged(s) /\ ~(~Seeks(t) /\ f < t.cursor)
      <4>1. u = [t EXCEPT !.next = m, !.at = n, !.pc = "ascend", !.cursor = c]
        BY <3>3
      <4> HIDE DEF u, c
      <4>2. /\ u \in Thread /\ u.pc = "ascend" /\ u.target = t.target
            /\ u.cursor = c /\ u.last = t.last
        BY <1>1, <2>4, <2>5, <4>1 DEF Thread
      <4> QED BY <1>1, <1>2, <4>2 DEF FillOK, c
    <3> QED BY <3>1, <3>2, <3>3
  <2> HIDE DEF u
  <2> QED BY <1>1, <2>1, <2>2, <2>6, ThreadMoves
<1> QED BY <1>3, <1>4, <1>5

LEMMA DecodeFailsInv ==
    ASSUME IInv, NEW s \in Sources, DecodeFails(s)
    PROVE  IInv'
<1>1. None \in Int /\ 0 \in Nat
  BY DEF None
<1> QED BY <1>1, AsleepOK, ThreadMoves DEF DecodeFails, Main, IInv, CacheInv

LEMMA DeliverInv ==
    ASSUME IInv, NEW s \in Sources, NEW n \in DOMAIN file[s], Deliver(s, n),
           thread[s].pc \in {"chunk", "next"}, UNCHANGED <<ask, file, slots, calls>>
    PROVE  IInv'
<1> DEFINE t == thread[s]
           f == FrameIndexForPts(file[s][n])
           m == f + 1
           on == [t EXCEPT !.next = m, !.at = n]
           u == IF f < t.last THEN [on EXCEPT !.pc = "next"]
                ELSE IF RequestChanged(s) \/ t.then = "wait" THEN Asleep(m, n)
                ELSE [on EXCEPT !.pc = "reverse"]
<1>1. t \in Thread /\ t.target \in Frames
  BY DEF IInv, ThreadInv, FillOK
<1>2. m \in Int /\ n \in Nat
  BY IndexIsInt
<1>3. Store(s, f) /\ thread' = [thread EXCEPT ![s] = u]
  BY DEF Deliver
<1>4. CacheInv'
  BY <1>3, StoreKeeps
<1> HIDE DEF m
<1>5. on \in Thread /\ on.target \in Frames
  BY <1>1, <1>2 DEF Thread
<1>6. u \in Thread /\ FillOK(u)
  <2> HIDE DEF on
  <2>1. CASE f < t.last
    BY <1>5, <2>1 DEF Thread, FillOK
  <2>2. CASE ~(f < t.last) /\ (RequestChanged(s) \/ t.then = "wait")
    BY <1>2, <2>2, AsleepOK
  <2>3. CASE ~(f < t.last) /\ ~(RequestChanged(s) \/ t.then = "wait")
    BY <1>5, <2>3 DEF Thread, FillOK
  <2> QED BY <2>1, <2>2, <2>3
<1> HIDE DEF u
<1> QED BY <1>3, <1>4, <1>6, ThreadMoves

LEMMA ChunkInv ==
    ASSUME IInv, NEW s \in Sources, Chunk(s) \/ ChunkNext(s)
    PROVE  IInv'
<1> DEFINE seek == DecodeFrame(file[s], thread[s].cursor)
           on == DecodeNextFrame(file[s], thread[s].at)
<1>1. thread[s].pc \in {"chunk", "next"} /\ UNCHANGED <<ask, file, slots, calls>>
  BY DEF Chunk, ChunkNext, Main
<1>2. GiveUp(s) \/ \E n \in {seek, on} : n # 0 /\ Deliver(s, n)
  BY DEF Chunk, ChunkNext
<1>3. CASE GiveUp(s)
  BY <1>1, <1>3, GiveUpInv
<1>4. ASSUME NEW n \in {seek, on}, n # 0, Deliver(s, n) PROVE IInv'
  <2>1. thread[s].at \in Nat
    BY DEF IInv, ThreadInv, Thread
  <2>2. n \in DOMAIN file[s]
    BY <1>4, <2>1, PictureFound
  <2> QED BY <1>1, <1>4, <2>2, DeliverInv
<1> QED BY <1>2, <1>3, <1>4

LEMMA FillReverseInv ==
    ASSUME IInv, NEW s \in Sources, FillReverse(s)
    PROVE  IInv'
<1> DEFINE t == thread[s]
           frames == ReverseFrames(t)
           holes == {f \in frames : ~Cached(cache, <<s, f>>)}
           before == Min(frames) - 1
           speculative == holes = {}
           end == IF speculative THEN before ELSE Max(holes)
           low == t.target - t.ahead
           start == end - ChunkSize + 1
           u == [t EXCEPT !.pc = "chunk", !.last = end, !.cursor = Max({0, start}),
                          !.then = IF speculative THEN "wait" ELSE "reverse"]
<1>1. /\ t \in Thread /\ FillOK(t) /\ t.pc = "reverse"
      /\ UNCHANGED <<ask, file, slots, calls>>
  BY DEF IInv, ThreadInv, FillReverse, Main
<1>2. /\ t.next \in Int /\ t.at \in Nat
      /\ t.target \in Int /\ t.ahead \in Nat /\ low \in Int
      /\ t.target >= 0 /\ t.target <= FrameCount - 1 /\ FrameCount \in Int
      /\ ChunkSize \in Nat /\ ChunkSize > 0
  BY <1>1, FramesAre, PlaybackAssumption DEF Thread, FillOK
<1>3. ASSUME frames # {}
      PROVE  end \in Int /\ end <= t.target - 1
  <2>1. /\ Max({0, low}) \in Int /\ Max({0, low}) >= 0
        /\ frames = Max({0, low})..t.target - 1
    <3>1. 0 \in Int /\ low \in Int
      BY <1>2
    <3>2. frames = Max({0, low})..t.target - 1
      BY DEF ReverseFrames
    <3> HIDE DEF low
    <3> QED BY <3>1, <3>2, MaxOfTwo
  <2>2. Max({0, low}) <= t.target - 1
    <3>1. PICK f : f \in Max({0, low})..t.target - 1
      BY <1>3, <2>1
    <3> HIDE DEF low, t
    <3> QED BY <1>2, <2>1, <3>1
  <2>3. Min(frames) = Max({0, low})
    <3> DEFINE m == Max({0, low})
               n == t.target - 1
    <3>1. m \in Int /\ n \in Int /\ m <= n /\ frames = m..n
      BY <1>2, <2>1, <2>2
    <3> HIDE DEF m, n
    <3>2. Min(m..n) = m
      BY <3>1, MinOfRange
    <3> QED BY <3>1, <3>2 DEF m
  <2>4. CASE speculative
    <3>1. end = Max({0, low}) - 1
      BY <2>3, <2>4
    <3> HIDE DEF end, low
    <3> QED BY <1>2, <2>1, <2>2, <3>1
  <2>5. CASE ~speculative
    <3>1. t.target - 1 \in Nat /\ holes \subseteq 0..t.target - 1
      BY <1>2, <2>1, <2>2
    <3>2. Max(holes) \in holes
      <4> HIDE DEF holes
      <4>1. holes # {}
        BY <2>5
      <4> QED BY <3>1, <4>1, MaxOfHoles
    <3>3. end \in 0..t.target - 1
      BY <2>5, <3>1, <3>2
    <3> HIDE DEF end
    <3> QED BY <1>2, <3>3
  <2> QED BY <2>4, <2>5
<1>7. CacheInv'
  <2> DEFINE keys == [i \in 1..t.target - end |-> <<s, t.target - i>>]
             l == TouchAll(cache.lru, keys)
  <2>1. \/ cache' = cache
        \/ frames # {} /\ cache' = [cache EXCEPT !.lru = l]
    BY Zenon DEF FillReverse
  <2>2. CASE cache' = cache
    BY <2>2 DEF IInv, CacheInv
  <2>3. CASE frames # {} /\ cache' = [cache EXCEPT !.lru = l]
    <3> DEFINE n == t.target - end
    <3>1. n \in Nat
      <4> HIDE DEF end
      <4> QED BY <1>2, <1>3, <2>3
    <3>2. Len(keys) \in Nat
      <4>1. keys = [i \in 1..n |-> <<s, t.target - i>>]
        OBVIOUS
      <4> HIDE DEF keys, n
      <4> QED BY <3>1, <4>1
    <3>3. PICK S : cache.lru \in Seq(S)
      BY DEF IInv, CacheInv
    <3>4. l \in Seq(S)
      <4> HIDE DEF keys
      <4> QED BY <3>2, <3>3, TouchAllIs
    <3> HIDE DEF l
    <3> QED BY <2>3, <3>4, CacheKept DEF IInv
  <2> QED BY <2>1, <2>2, <2>3
<1>4. \/ thread' = [thread EXCEPT ![s] = Asleep(t.next, t.at)]
      \/ frames # {} /\ ~(end < 0) /\ thread' = [thread EXCEPT ![s] = u]
  BY DEF FillReverse, Sleep
<1>5. CASE thread' = [thread EXCEPT ![s] = Asleep(t.next, t.at)]
  BY <1>1, <1>2, <1>5, <1>7, AsleepOK, ThreadMoves
<1>6. CASE frames # {} /\ ~(end < 0) /\ thread' = [thread EXCEPT ![s] = u]
  <2>4. end \in Int /\ end >= 0 /\ end <= FrameCount - 1
    <3>1. end \in Int /\ end <= t.target - 1 /\ ~(end < 0)
      BY <1>3, <1>6
    <3> HIDE DEF end
    <3> QED BY <1>2, <3>1
  <2> HIDE DEF end, speculative
  <2>5. Max({0, start}) \in Int /\ Max({0, start}) >= 0 /\ Max({0, start}) <= end
    <3>1. 0 \in Int /\ start \in Int /\ start <= end
      BY <1>2, <2>4
    <3> HIDE DEF start
    <3>2. /\ Max({0, start}) \in Int /\ Max({0, start}) >= 0
          /\ Max({0, start}) \in {0, start}
      BY <3>1, MaxOfTwo
    <3> QED BY <2>4, <3>1, <3>2
  <2> DEFINE first == Max({0, start})
  <2>6. u = [t EXCEPT !.pc = "chunk", !.last = end, !.cursor = first,
                      !.then = IF speculative THEN "wait" ELSE "reverse"]
    OBVIOUS
  <2>7. first \in Int /\ first >= 0 /\ first <= end
    BY <2>5
  <2> HIDE DEF u, first
  <2>8. u \in Thread /\ u.pc = "chunk" /\ u.target = t.target /\ u.cursor = first
        /\ u.last = end
    BY <1>1, <2>4, <2>6, <2>7 DEF Thread
  <2>9. FillOK(u)
    BY <1>1, <2>4, <2>7, <2>8 DEF FillOK
  <2> QED BY <1>1, <1>6, <1>7, <2>8, <2>9, ThreadMoves
<1> QED BY <1>4, <1>5, <1>6

-----------------------------------------------------------------------------

LEMMA StaleInit == Init => StaleInv
<1> SUFFICES ASSUME Init PROVE StaleInv
  OBVIOUS
<1>1. reload = [on |-> FALSE, stop |-> {}, open |-> {}] /\ stale = {}
  BY DEF Init
<1>2. /\ FALSE \in BOOLEAN /\ {} \in SUBSET Sources
      /\ ~reload.on /\ reload.stop = {} /\ reload.open = {}
  BY <1>1
<1>3. \A s \in Sources : file[s] = Offline => thread[s].pc = "ended"
  BY DEF Init, Started, Asleep
<1> QED BY <1>1, <1>2, <1>3 DEF StaleInv

\* Steps of a decoder: they leave the reload alone, an ended thread stays, and
\* a frame becomes stale only while its source is to be opened again.
LEMMA StaleRun ==
    ASSUME IInv, StaleInv, NEW s \in Sources, Run(s) \/ DecodeFails(s)
    PROVE  StaleInv'
<1>1. thread[s].pc # "ended" /\ UNCHANGED <<reload, file>>
  BY DEF Run, TakeRequest, CheckTarget, Window, Ahead, Ascend, Decode, FillReverse, Chunk,
         ChunkNext, DecodeFails, Main
<1>2. \A u \in Sources \ {s} : thread'[u] = thread[u]
  <2>1. \E t : thread' = [thread EXCEPT ![s] = t]
    BY Zenon DEF Run, TakeRequest, CheckTarget, Window, Ahead, Ascend, Decode, FillReverse,
         Chunk, ChunkNext, Deliver, GiveUp, DecodeFails, Sleep
  <2> QED BY <2>1 DEF IInv, ThreadInv
<1>3. \A k \in stale' : k[1] \in reload.open
  <2>1. \/ UNCHANGED stale
        \/ \E f : Store(s, f)
    <3>1. CASE Decode(s)
      BY <3>1 DEF Decode, GiveUp
    <3>2. CASE Chunk(s) \/ ChunkNext(s)
      BY <3>2 DEF Chunk, ChunkNext, Deliver, GiveUp
    <3>3. CASE \/ TakeRequest(s) \/ CheckTarget(s) \/ Window(s) \/ Ahead(s) \/ Ascend(s)
               \/ FillReverse(s) \/ DecodeFails(s)
      BY <3>3 DEF TakeRequest, CheckTarget, Window, Ahead, Ascend, FillReverse, DecodeFails
    <3> QED BY <3>1, <3>2, <3>3 DEF Run
  <2>2. CASE UNCHANGED stale
    BY <2>2 DEF StaleInv
  <2>3. ASSUME NEW f, Store(s, f) PROVE \A k \in stale' : k[1] \in reload.open
    <3>1. \A k \in stale' : k \in stale \/ (k = <<s, f>> /\ s \in reload.open)
      BY <2>3, Zenon DEF Store
    <3> QED BY <3>1 DEF StaleInv
  <2> QED BY <2>1, <2>2, <2>3
<1>4. \A u \in reload.open \ reload.stop : u \in Sources \ {s}
  BY <1>1 DEF StaleInv
<1>5. \A u \in Sources : file[u] = Offline => u \in Sources \ {s}
  BY <1>1 DEF StaleInv
<1> QED BY <1>1, <1>2, <1>3, <1>4, <1>5 DEF StaleInv

\* Steps of the reload.
LEMMA StaleReload ==
    ASSUME IInv, StaleInv, \/ BeginReload \/ Resume
                           \/ \E s \in Sources : Stop(s) \/ Join(s) \/ Reopen(s)
    PROVE  StaleInv'
<1>1. CASE BeginReload
  <2>1. PICK on \in BOOLEAN, stop, open \in SUBSET Sources :
            reload = [on |-> on, stop |-> stop, open |-> open]
    BY DEF StaleInv
  <2>2. reload' = [on |-> TRUE, stop |-> Online, open |-> Sources]
    BY <1>1, <2>1 DEF BeginReload
  <2>3. UNCHANGED <<file, thread>> /\ \A k \in stale' : k[1] \in Sources
    BY <1>1 DEF BeginReload
  <2>4. Online \in SUBSET Sources /\ \A s \in Sources \ Online : thread[s].pc = "ended"
    BY DEF Online, StaleInv
  <2> QED BY <2>2, <2>3, <2>4 DEF StaleInv
<1>2. CASE Resume
  BY <1>2 DEF Resume, StaleInv
<1>3. ASSUME NEW s \in Sources, Stop(s) PROVE StaleInv'
  BY <1>3 DEF Stop, StaleInv
<1>4. ASSUME NEW s \in Sources, Join(s) PROVE StaleInv'
  <2>1. PICK on \in BOOLEAN, stop, open \in SUBSET Sources :
            reload = [on |-> on, stop |-> stop, open |-> open]
    BY DEF StaleInv
  <2>2. reload' = [on |-> on, stop |-> stop \ {s}, open |-> open]
    BY <1>4, <2>1 DEF Join
  <2>3. thread[s].pc = "ended" /\ UNCHANGED <<file, thread, stale>>
    BY <1>4 DEF Join
  <2>4. \A u \in open \ (stop \ {s}) : thread[u].pc = "ended"
    BY <2>1, <2>3 DEF StaleInv
  <2>5. /\ ~on => stop \ {s} = {} /\ open = {}
        /\ \A k \in stale : k[1] \in open
    BY <2>1 DEF StaleInv
  <2> QED BY <2>1, <2>2, <2>3, <2>4, <2>5 DEF StaleInv
<1>5. ASSUME NEW s \in Sources, Reopen(s) PROVE StaleInv'
  <2>1. PICK l : /\ cache'.lru = l
                 /\ \A k \in ToSet(l) : k[1] # s
    <3>1. PICK S : /\ cache = [lru |-> cache.lru, known |-> cache.known,
                               active |-> cache.active]
                   /\ cache.lru \in Seq(S)
      BY DEF IInv, CacheInv
    <3>2. PICK l : /\ ClearSource(cache, s) = [lru |-> l, known |-> cache.known \ {s},
                                              active |-> cache.active]
                   /\ \A k \in ToSet(l) : k[1] # s
      BY <3>1, ClearIs
    <3> DEFINE c == ClearSource(cache, s)
    <3>3. \E a : cache' = [c EXCEPT !.active = a]
      BY <1>5, Zenon DEF Reopen
    <3>4. c = [lru |-> l, known |-> cache.known \ {s}, active |-> cache.active]
      BY <3>2
    <3> HIDE DEF c
    <3>5. cache'.lru = l
      BY <3>3, <3>4
    <3> QED BY <3>2, <3>5
  <2>2. stale' = stale \cap ToSet(l)
    BY <1>5, <2>1 DEF Reopen
  <2>3. /\ reload' = [reload EXCEPT !.open = @ \ {s}]
        /\ \E f : /\ file' = [file EXCEPT ![s] = f]
                  /\ thread' = [thread EXCEPT ![s] = Started(f)]
        /\ reload.stop = {} /\ s \in reload.open
    BY <1>5 DEF Reopen
  <2>4. PICK on \in BOOLEAN, stop, open \in SUBSET Sources :
            reload = [on |-> on, stop |-> stop, open |-> open]
    BY DEF StaleInv
  <2>5. reload' = [on |-> on, stop |-> stop, open |-> open \ {s}]
    BY <2>3, <2>4
  <2>6. \A k \in stale' : k[1] \in open \ {s}
    BY <2>1, <2>2, <2>4 DEF StaleInv
  <2>7. \A u \in (open \ {s}) \ stop : thread'[u].pc = "ended"
    BY <2>3, <2>4 DEF StaleInv, IInv, ThreadInv
  <2>8. ~on => stop = {} /\ open \ {s} = {}
    BY <2>4 DEF StaleInv
  <2>9. \A u \in Sources : file'[u] = Offline => thread'[u].pc = "ended"
    BY <2>3 DEF StaleInv, IInv, AskInv, ThreadInv, Started, Asleep
  <2> QED BY <2>4, <2>5, <2>6, <2>7, <2>8, <2>9 DEF StaleInv
<1> QED BY <1>1, <1>2, <1>3, <1>4, <1>5

LEMMA StaleNext == IInv /\ StaleInv /\ [Next]_vars => StaleInv'
<1> SUFFICES ASSUME IInv, StaleInv, [Next]_vars PROVE StaleInv'
  OBVIOUS
<1>1. CASE UNCHANGED <<reload, stale, file, thread>>
  BY <1>1 DEF StaleInv
<1>2. CASE UNCHANGED vars
  BY <1>1, <1>2 DEF vars
<1>3. ASSUME NEW view \in Views, Seek(view) PROVE StaleInv'
  BY <1>1, <1>3 DEF Seek
<1>4. CASE MainGoesOn
  <2>1. ASSUME NEW faster \in BOOLEAN, RequestFrame(faster) PROVE StaleInv'
    BY <1>1, <2>1 DEF RequestFrame
  <2> QED BY <1>4, <2>1, StaleReload DEF MainGoesOn
<1>5. CASE Present
  BY <1>1, <1>5 DEF Present
<1>6. CASE BeginReload
  BY <1>6, StaleReload
<1>7. ASSUME NEW s \in Sources, Run(s) \/ DecodeFails(s) PROVE StaleInv'
  BY <1>7, StaleRun
<1> QED BY <1>2, <1>3, <1>4, <1>5, <1>6, <1>7 DEF Next

LEMMA NextInv == IInv /\ [Next]_vars => IInv'
<1> SUFFICES ASSUME IInv, [Next]_vars PROVE IInv'
  OBVIOUS
<1>1. CASE UNCHANGED vars
  BY <1>1 DEF vars, IInv, CacheInv, AskInv, ThreadInv
<1>2. ASSUME NEW view \in Views, Seek(view) PROVE IInv'
  BY <1>2, SeekInv
<1>3. CASE MainGoesOn
  BY <1>3, RequestFrameInv, ReloadInv DEF MainGoesOn
<1>4. CASE Present
  BY <1>4, PresentInv
<1>5. CASE BeginReload
  BY <1>5, ReloadInv
<1>6. ASSUME NEW s \in Sources, Run(s) PROVE IInv'
  BY <1>6, TakeRequestInv, CheckTargetInv, WindowInv, AheadInv, AscendInv, DecodeInv,
     FillReverseInv, ChunkInv DEF Run
<1>7. ASSUME NEW s \in Sources, DecodeFails(s) PROVE IInv'
  BY <1>7, DecodeFailsInv
<1> QED BY <1>1, <1>2, <1>3, <1>4, <1>5, <1>6, <1>7 DEF Next

LEMMA InvInRange == IInv => DecodesInRange
<1> SUFFICES ASSUME IInv, NEW s \in Sources
             PROVE  /\ thread[s].pc \in {"decode", "chunk"} =>
                         thread[s].cursor \in 0..FrameCount - 1
                    /\ thread[s].pc = "chunk" => thread[s].last \in 0..FrameCount - 1
  BY DEF DecodesInRange
<1>1. FillOK(thread[s]) /\ thread[s].cursor \in Int /\ thread[s].last \in Int
  BY DEF IInv, ThreadInv, Thread
<1> QED BY <1>1, FramesAre DEF FillOK

\* Whatever the requests, the direction and the window, and wherever a request
\* or a reload interrupts a fill, the decoder is asked for frames of its source
\* only.  (Run, FillAscending, FillReverseAhead)
THEOREM FramesAreInRange == Spec => []DecodesInRange
<1>1. Spec => []IInv
  BY InitInv, NextInv, PTL DEF Spec
<1> QED BY <1>1, InvInRange, PTL

LEMMA StaleInvNoStale == StaleInv => NoStaleFrame
  BY DEF StaleInv, NoStaleFrame

\* Whatever the threads were decoding when the reload began, and in whichever
\* order they are stopped, joined and opened again, no frame of a replaced file
\* outlives the reload and no decoder is replaced under a running thread.
\* (reloadDecodeWorkers, DecodeWorker::Stop, FrameCache::ClearSource)
THEOREM NoFrameOfReplacedFiles == Spec => []NoStaleFrame
<1>1. Spec => []IInv
  BY InitInv, NextInv, PTL DEF Spec
<1>2. Spec => []StaleInv
  BY <1>1, StaleInit, StaleNext, PTL DEF Spec
<1> QED BY <1>2, StaleInvNoStale, PTL

=============================================================================
