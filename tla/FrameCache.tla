----------------------------- MODULE FrameCache -----------------------------
(***************************************************************************)
(* The cache of decoded frames all the sources share (FrameCache.cc): a    *)
(* list of frames, the most recently used first, cut at a budget.  Every   *)
(* operation holds the mutex of the cache and is one step.  A cache is a   *)
(* record of the list, the sources whose frame size is known and the       *)
(* sources that have a decoder.                                            *)
(***************************************************************************)
EXTENDS Integers, Sequences, FiniteSets, SequencesExt

CONSTANTS
    Sources,
    Weight,     \* Weight[s]: the bytes of a frame of source s
    Budget,     \* byteBudget_
    AheadShare  \* <<n, d>>: n of d frames of the window lie ahead (3 of 4)

ASSUME CacheAssumption ==
    /\ IsFiniteSet(Sources)
    /\ Weight \in [Sources -> Nat \ {0}]
    /\ Budget \in Nat
    /\ AheadShare \in Nat \X (Nat \ {0, 1})

EmptyCache == [lru |-> <<>>, known |-> {}, active |-> {}]

Cached(cache, key) == key \in ToSet(cache.lru)

\* The list without some frames.  Recursion here and below is over the length
\* of a list, so that the proofs can follow it; SelectSeq and FoldLeft hide it.
Without(lru, gone) ==
    LET rest[n \in 0..Len(lru)] ==
            IF n = 0 THEN <<>>
            ELSE IF lru[n] \in gone THEN rest[n - 1]
            ELSE Append(rest[n - 1], lru[n])
    IN  rest[Len(lru)]

\* The frame becomes the most recently used one.
Touch(lru, key) == <<key>> \o Without(lru, {key})

\* The frames of a list that the cache holds are used one after the other.
TouchAll(lru, keys) ==
    LET used[n \in 0..Len(keys)] ==
            IF n = 0 THEN lru
            ELSE IF keys[n] \in ToSet(lru) THEN Touch(used[n - 1], keys[n])
            ELSE used[n - 1]
    IN  used[Len(keys)]

\* The frames used longest ago go until the rest fits.
EvictToBudget(lru) ==
    LET weight[n \in 0..Len(lru)] ==
            IF n = 0 THEN 0 ELSE weight[n - 1] + Weight[lru[n][1]]
    IN  SubSeq(lru, 1, Max({0} \cup {n \in 1..Len(lru) : weight[n] <= Budget}))

Put(cache, key) ==
    IF Cached(cache, key) THEN [cache EXCEPT !.lru = Touch(@, key)]
    ELSE [cache EXCEPT !.lru = EvictToBudget(<<key>> \o @), !.known = @ \cup {key[1]}]

\* The frame of source s nearest to f, the earlier one of two.
GetNearest(lru, s, f) ==
    LET have == {k[2] : k \in {k \in ToSet(lru) : k[1] = s}}
        gap(g) == IF g < f THEN f - g ELSE g - f
    IN  CHOOSE g \in have :
            \A h \in have : gap(g) < gap(h) \/ (gap(g) = gap(h) /\ g <= h)

\* Mutant: the size is forgotten and the frames stay.
ClearSourceSize(cache, s) == [cache EXCEPT !.known = @ \ {s}]

\* Nothing of the source stays.
ClearSource(cache, s) ==
    [cache EXCEPT !.lru = Without(@, {k \in ToSet(@) : k[1] = s}), !.known = @ \ {s}]

\* Mutant: the window is larger than the budget.
WindowBeyondBudget(cache, s) ==
    LET sources == Max({1, Cardinality(cache.active)})
        total == (100 * Budget) \div (70 * Weight[s] * sources) + 1
        ahead == (total * AheadShare[1]) \div AheadShare[2]
    IN  IF s \notin cache.known THEN [ahead |-> 0, behind |-> 0]
        ELSE [ahead |-> ahead, behind |-> total - 1 - ahead]

\* How many frames to decode before and after the current one: 70 % of the
\* budget, shared by the sources that have a decoder.
WindowForSource(cache, s) ==
    LET sources == Max({1, Cardinality(cache.active)})
        whole == Weight[s] * 100 * sources
        total == Max({1, (70 * Budget + whole - 1) \div whole})
        ahead == Min({total - 1, (total * AheadShare[1] + AheadShare[2] - 2)
                                 \div AheadShare[2]})
    IN  IF s \notin cache.known \/ total = 1 THEN [ahead |-> 0, behind |-> 0]
        ELSE [ahead |-> ahead, behind |-> total - 1 - ahead]

=============================================================================
