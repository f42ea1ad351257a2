---------------------------- MODULE DecodeWorker ----------------------------
(***************************************************************************)
(* Playback: the main thread asks the decoder of each source for a frame   *)
(* (DecodeWorker::RequestFrame) and presents the nearest frame the cache   *)
(* holds; the thread of each decoder (DecodeWorker::Run) decodes the frame *)
(* asked for and then the frames around it, in the direction of the scrub. *)
(* Reloading the project stops the threads and opens the sources again.    *)
(*                                                                         *)
(* A generation of requests is compared with the current one for equality  *)
(* only: changed says that they differ.                                    *)
(***************************************************************************)
EXTENDS FrameCache, MediaSource

CONSTANTS
    Files,          \* Files[s]: the files source s may be opened from
    CatchUp,        \* kMaximumSequentialCatchUp
    ChunkSize,      \* kChunkSize
    Views,          \* the layers of a position, each a source and a frame
    MaxSeeks, MaxReloads, MaxFaults

ASSUME PlaybackAssumption ==
    /\ Files \in [Sources -> SUBSET Seq(Nat)]
    /\ CatchUp \in Nat /\ ChunkSize \in Nat \ {0}
    /\ MaxSeeks \in Nat /\ MaxReloads \in Nat /\ MaxFaults \in Nat
    /\ Views \subseteq Seq(Sources \X (0..FrameCount - 1))

VARIABLES
    cache,
    file,       \* file[s]: the file the decoder of s has open, or Offline
    ask,        \* ask[s]: what RequestFrame and Stop leave to the thread of s
    thread,     \* thread[s]: where the thread of s is
    slots,      \* state->requested: the layers to present
    calls,      \* the layers whose frame is still to be asked for
    shown,      \* what each slot last presented; None is no frame
    reload,     \* whether a reload goes on, the decoders it has still to stop
                \* and the sources it has still to open
    stale,      \* the cached frames of files that a reload replaces
    seeks, reloads, faults,     \* how many there were (bounds)
    excuse      \* why the frame asked for may be missing

vars == <<cache, file, ask, thread, slots, calls, shown, reload, stale, seeks,
          reloads, faults, excuse>>

None == -1

\* A thread that waits.  The decoder stands after picture at; next is the frame
\* expected to follow it, None when the decoder has to seek.
Asleep(next, at) ==
    [pc |-> "wait", target |-> 0, dir |-> 1, cursor |-> 0, last |-> 0,
     ahead |-> 0, then |-> "wait", next |-> next, at |-> at]

\* A decoder just opened and started; a source that cannot be opened has none.
Started(f) == IF f # Offline THEN Asleep(None, 0)
                             ELSE [Asleep(None, 0) EXCEPT !.pc = "ended"]
Online == {s \in Sources : file[s] # Offline}
NewRequest == [asked |-> None, cand |-> 0, samples |-> 0, stable |-> 1,
               changed |-> FALSE, stopping |-> FALSE]

Init ==
    /\ file \in [Sources -> {Offline} \cup UNION {Files[s] : s \in Sources}]
    /\ \A s \in Sources : file[s] \in Files[s] \cup {Offline}
    /\ cache = [EmptyCache EXCEPT !.active = Online]
    /\ ask = [s \in Sources |-> NewRequest]
    /\ thread = [s \in Sources |-> Started(file[s])]
    /\ slots = <<>> /\ calls = <<>> /\ shown = <<>>
    /\ reload = [on |-> FALSE, stop |-> {}, open |-> {}]
    /\ stale = {}
    /\ seeks = 0 /\ reloads = 0 /\ faults = 0
    /\ excuse = [s \in Sources |-> "none"]

-----------------------------------------------------------------------------
(* The main thread. *)

MainIdle == ~reload.on /\ calls = <<>>

\* requestResolvedPosition: the layers of the new position.
Seek(view) ==
    /\ MainIdle /\ view # slots /\ seeks < MaxSeeks
    /\ seeks' = seeks + 1
    /\ slots' = view /\ calls' = view
    /\ shown' = [i \in DOMAIN view |-> None]
    /\ UNCHANGED <<cache, file, ask, thread, reload, stale, reloads, faults, excuse>>

\* The direction changes after two requests in the new one, or after one that
\* runs faster than playback.
Turned(a, f, faster) ==
    LET dir == IF f > a.asked THEN 1 ELSE -1
        samples == IF dir = a.cand THEN Min({2, a.samples + 1}) ELSE 1
    IN  IF a.asked = None THEN a
        ELSE [a EXCEPT !.cand = dir, !.samples = samples,
                       !.stable = IF faster \/ samples = 2 THEN dir ELSE @]

\* Mutant: a request is posted only to a decoder that waits for one.
RequestFrameWhenIdle(faster) ==
    LET s == Head(calls)[1]
        f == Head(calls)[2]
    IN  /\ calls # <<>>
        /\ calls' = Tail(calls)
        /\ ask' = [ask EXCEPT ![s].asked = f,
                              ![s].changed = thread[s].pc = "wait"]
        /\ excuse' = [excuse EXCEPT ![s] = "none"]
        /\ UNCHANGED <<cache, file, thread, slots, shown, reload, stale, seeks, reloads,
                       faults>>

\* A request for the frame already asked for is no request; a source that could
\* not be opened is asked for nothing.
RequestFrame(faster) ==
    LET s == Head(calls)[1]
        f == Head(calls)[2]
    IN  /\ calls # <<>>
        /\ calls' = Tail(calls)
        /\ IF file[s] = Offline \/ f = ask[s].asked THEN UNCHANGED <<ask, excuse>>
           ELSE /\ ask' = [ask EXCEPT ![s] =
                      [Turned(@, f, faster) EXCEPT !.asked = f, !.changed = TRUE]]
                /\ excuse' = [excuse EXCEPT ![s] = "none"]
        /\ UNCHANGED <<cache, file, thread, slots, shown, reload, stale, seeks, reloads,
                       faults>>

\* presentNearestFrameAtDeadline.
Present ==
    LET have(s) == \E g \in ToSet(cache.lru) : g[1] = s
    IN  /\ MainIdle /\ slots # <<>>
        /\ shown' = [i \in DOMAIN slots |->
               IF have(slots[i][1]) THEN GetNearest(cache.lru, slots[i][1], slots[i][2])
                                    ELSE None]
        /\ cache' = [cache EXCEPT !.lru =
               TouchAll(@, [i \in DOMAIN slots |-> <<slots[i][1], shown'[i]>>])]
        /\ UNCHANGED <<file, ask, thread, slots, calls, reload, stale, seeks, reloads,
                       faults, excuse>>

\* reloadDecodeWorkers: each decoder is told to stop and its thread joined,
\* and then all of them go; the frames of each source are cleared and its
\* decoder is opened, registered and started anew, from its proxy or from the
\* original, unless neither opens or the file is not the one the project
\* describes; at last the position is asked for again.  The threads run on
\* between these steps.
BeginReload ==
    /\ MainIdle /\ reloads < MaxReloads
    /\ reload' = [on |-> TRUE, stop |-> Online, open |-> Sources]
    /\ reloads' = reloads + 1
    /\ stale' = {k \in ToSet(cache.lru) : k[1] \in Sources}
    /\ UNCHANGED <<cache, file, ask, thread, slots, calls, shown, seeks, faults, excuse>>

Stop(s) ==
    /\ s \in reload.stop /\ \A u \in reload.stop : ~ask[u].stopping
    /\ ask' = [ask EXCEPT ![s].stopping = TRUE]
    /\ UNCHANGED <<cache, file, thread, slots, calls, shown, reload, stale, seeks,
                   reloads, faults, excuse>>

Join(s) ==
    /\ s \in reload.stop /\ ask[s].stopping /\ thread[s].pc = "ended"
    /\ reload' = [reload EXCEPT !.stop = @ \ {s}]
    /\ cache' = [cache EXCEPT !.active = IF reload.stop = {s} THEN {} ELSE @]
    /\ UNCHANGED <<file, ask, thread, slots, calls, shown, stale, seeks, reloads,
                   faults, excuse>>

Reopen(s) ==
    /\ reload.stop = {} /\ s \in reload.open
    /\ reload' = [reload EXCEPT !.open = @ \ {s}]
    /\ \E f \in Files[s] \cup {Offline} :
           /\ file' = [file EXCEPT ![s] = f]
           /\ cache' = [ClearSource(cache, s) EXCEPT !.active =
                  IF f # Offline THEN @ \cup {s} ELSE @]
           /\ thread' = [thread EXCEPT ![s] = Started(f)]
    /\ stale' = stale \cap ToSet(cache'.lru)
    /\ ask' = [ask EXCEPT ![s] = NewRequest]
    /\ excuse' = [excuse EXCEPT ![s] = "none"]
    /\ UNCHANGED <<slots, calls, shown, seeks, reloads, faults>>

Resume ==
    /\ reload.on /\ reload.stop = {} /\ reload.open = {}
    /\ reload' = [reload EXCEPT !.on = FALSE]
    /\ shown' = [i \in DOMAIN slots |-> None]
    /\ calls' = slots
    /\ UNCHANGED <<cache, file, ask, thread, slots, stale, seeks, reloads, faults, excuse>>

-----------------------------------------------------------------------------
(* The thread of a decoder. *)

\* What wakes the thread, and what makes it give up a fill.
RequestChanged(s) == ask[s].stopping \/ ask[s].changed

Main == <<file, slots, calls, shown, reload, seeks, reloads>>
Sleep(s) == thread' = [thread EXCEPT ![s] = Asleep(@.next, @.at)]

\* Mutant: a thread told to stop takes the last request once more.
TakeRequestAgain(s) ==
    /\ thread[s].pc = "wait" /\ RequestChanged(s)
    /\ thread' = [thread EXCEPT ![s].pc = "target", ![s].target = ask[s].asked,
                               ![s].dir = ask[s].stable]
    /\ ask' = [ask EXCEPT ![s].changed = FALSE]
    /\ UNCHANGED <<cache, stale, faults, excuse, Main>>

\* The wait on the condition variable, and the request it hands out.
TakeRequest(s) ==
    LET t == thread[s]
        a == ask[s]
    IN  /\ t.pc = "wait" /\ RequestChanged(s)
        /\ IF a.stopping
           THEN /\ thread' = [thread EXCEPT ![s].pc = "ended"]
                /\ UNCHANGED ask
           ELSE /\ thread' = [thread EXCEPT ![s] =
                      [t EXCEPT !.pc = "target", !.target = a.asked,
                                !.dir = a.stable]]
                /\ ask' = [ask EXCEPT ![s].changed = FALSE]
        /\ UNCHANGED <<cache, stale, faults, excuse, Main>>

\* The frame asked for is decoded first, unless it is there.
CheckTarget(s) ==
    LET t == thread[s]
    IN  /\ t.pc = "target"
        /\ thread' = [thread EXCEPT ![s] =
               IF Cached(cache, <<s, t.target>>) THEN [t EXCEPT !.pc = "window"]
               ELSE [t EXCEPT !.pc = "ascend", !.cursor = t.target,
                              !.last = t.target, !.then = "window"]]
        /\ UNCHANGED <<cache, ask, stale, faults, excuse, Main>>

\* The frames behind the target come next, then those ahead.
Window(s) ==
    LET t == thread[s]
        w == WindowForSource(cache, s)
        first == IF t.dir > 0 THEN Max({0, t.target - w.behind}) ELSE t.target + 1
        last == IF t.dir > 0 THEN t.target - 1
                             ELSE Min({FrameCount - 1, t.target + w.behind})
    IN  /\ t.pc = "window"
        /\ IF RequestChanged(s) THEN Sleep(s)
           ELSE thread' = [thread EXCEPT ![s] =
                    [t EXCEPT !.pc = "ascend", !.cursor = first, !.last = last,
                              !.ahead = w.ahead, !.then = "ahead"]]
        /\ UNCHANGED <<cache, ask, stale, faults, excuse, Main>>

\* Mutant: the frames ahead run on past the end of the source.
AheadPastTheEnd(s) ==
    LET t == thread[s]
    IN  /\ t.pc = "ahead"
        /\ thread' = [thread EXCEPT ![s] =
               [t EXCEPT !.pc = "ascend", !.cursor = t.target + 1,
                         !.last = t.target + t.ahead, !.then = "wait"]]
        /\ UNCHANGED <<cache, ask, stale, faults, excuse, Main>>

\* The frames ahead, in the direction of the scrub.
Ahead(s) ==
    LET t == thread[s]
    IN  /\ t.pc = "ahead"
        /\ thread' = [thread EXCEPT ![s] =
               IF t.dir > 0
               THEN [t EXCEPT !.pc = "ascend", !.cursor = t.target + 1,
                              !.last = Min({FrameCount - 1, t.target + t.ahead}),
                              !.then = "wait"]
               ELSE [t EXCEPT !.pc = "reverse"]]
        /\ UNCHANGED <<cache, ask, stale, faults, excuse, Main>>

\* FillAscending, one frame: a frame the cache holds is only touched.
Ascend(s) ==
    LET t == thread[s]
        here == t.cursor <= t.last /\ Cached(cache, <<s, t.cursor>>)
    IN  /\ t.pc = "ascend"
        /\ IF RequestChanged(s) THEN Sleep(s) /\ UNCHANGED cache
           ELSE IF t.cursor > t.last
           THEN /\ IF t.then = "wait" THEN Sleep(s)
                   ELSE thread' = [thread EXCEPT ![s].pc = t.then]
                /\ UNCHANGED cache
           ELSE IF here
           THEN /\ cache' = [cache EXCEPT !.lru = Touch(@, <<s, t.cursor>>)]
                /\ thread' = [thread EXCEPT ![s].cursor = @ + 1]
           ELSE /\ thread' = [thread EXCEPT ![s].pc = "decode"]
                /\ UNCHANGED cache
        /\ UNCHANGED <<ask, stale, faults, excuse, Main>>

\* The frame that answers a request: the one of the picture a seek to it finds.
\* None when the file ends before.
Reach(s, f) ==
    LET n == DecodeFrame(file[s], f)
    IN  IF n = 0 THEN None ELSE FrameIndexForPts(file[s][n])

Distance(f, g) == IF f < g THEN g - f ELSE f - g

\* A frame as near to the one asked for as the one that answers the request.
Near(s, g) ==
    LET f == ask[s].asked
    IN  Reach(s, f) # None /\ Distance(g, f) <= Distance(Reach(s, f), f)

\* A decoded picture goes to the cache under the frame its time counts as.  It
\* may push out the picture asked for, and is itself not kept when it is larger
\* than the budget.  It is stale when the file of its decoder is being replaced.
Store(s, f) ==
    LET held(c, u) == \E k \in ToSet(c.lru) : k[1] = u /\ Near(u, k[2])
    IN  /\ cache' = Put(cache, <<s, f>>)
        /\ stale' = (stale \cup {k \in {<<s, f>>} : s \in reload.open})
                      \cap ToSet(cache'.lru)
        /\ excuse' = [u \in Sources |->
               IF /\ ~ask[u].changed
                  /\ \/ held(cache, u) /\ ~held(cache', u)
                     \/ u = s /\ ~Cached(cache', <<s, f>>)
               THEN "evicted" ELSE excuse[u]]

\* The fill is given up and the next one seeks.
GiveUp(s) ==
    /\ thread' = [thread EXCEPT ![s] = Asleep(None, 0)]
    /\ UNCHANGED <<cache, stale, excuse>>

\* The decoder fails.
DecodeFails(s) ==
    /\ thread[s].pc \in {"decode", "chunk", "next"} /\ faults < MaxFaults
    /\ faults' = faults + 1
    /\ thread' = [thread EXCEPT ![s] = Asleep(None, 0)]
    /\ excuse' = IF thread[s].then = "window" /\ ~RequestChanged(s)
                 THEN [excuse EXCEPT ![s] = "failed"] ELSE excuse
    /\ UNCHANGED <<cache, ask, stale, Main>>

\* DecodeAt seeks to the frame; a decoder a few frames before it decodes on, to
\* the first picture that counts as that frame or a later one.
Seeks(t) == t.next = None \/ t.next > t.cursor \/ t.cursor - t.next > CatchUp

Decode(s) ==
    LET t == thread[s]
        n == IF Seeks(t) THEN DecodeFrame(file[s], t.cursor)
                         ELSE DecodeNextFrame(file[s], t.at)
        f == FrameIndexForPts(file[s][n])
        on == [t EXCEPT !.next = f + 1, !.at = n]
    IN  /\ t.pc = "decode"
        /\ IF Seeks(t) /\ RequestChanged(s)
           THEN Sleep(s) /\ UNCHANGED <<cache, stale, excuse>>
           ELSE IF n = 0 THEN GiveUp(s)
           ELSE /\ Store(s, f)
                /\ thread' = [thread EXCEPT ![s] =
                       IF RequestChanged(s) THEN Asleep(f + 1, n)
                       ELSE IF ~Seeks(t) /\ f < t.cursor THEN on
                       ELSE [on EXCEPT !.pc = "ascend", !.cursor = @ + 1]]
        /\ UNCHANGED <<ask, faults, Main>>

\* FillReverseAhead: the last run of missing frames is decoded in a chunk from
\* its start on, and when none is missing one chunk before the window is,
\* unless its last frame is there.
ReverseFrames(t) == Max({0, t.target - t.ahead})..t.target - 1

FillReverse(s) ==
    LET t == thread[s]
        frames == ReverseFrames(t)
        holes == {f \in frames : ~Cached(cache, <<s, f>>)}
        before == Min(frames) - 1
        speculative == holes = {}
        end == IF speculative THEN before ELSE Max(holes)
        passed == speculative /\ before >= 0 /\ Cached(cache, <<s, before>>)
        touched == TouchAll(cache.lru, [i \in 1..t.target - end |-> <<s, t.target - i>>])
    IN  /\ t.pc = "reverse"
        /\ IF frames = {} \/ ask[s].stopping THEN Sleep(s) /\ UNCHANGED cache
           ELSE /\ cache' = [cache EXCEPT !.lru = touched]
                /\ IF end < 0 \/ passed THEN Sleep(s)
                   ELSE thread' = [thread EXCEPT ![s] =
                            [t EXCEPT !.pc = "chunk", !.last = end,
                                !.cursor = Max({0, end - ChunkSize + 1}),
                                !.then = IF speculative THEN "wait" ELSE "reverse"]]
        /\ UNCHANGED <<ask, stale, faults, excuse, Main>>

\* Picture n of a chunk, which goes on to the frame it has to reach.
Deliver(s, n) ==
    LET t == thread[s]
        f == FrameIndexForPts(file[s][n])
        on == [t EXCEPT !.next = f + 1, !.at = n]
    IN  /\ Store(s, f)
        /\ thread' = [thread EXCEPT ![s] =
               IF f < t.last THEN [on EXCEPT !.pc = "next"]
               ELSE IF RequestChanged(s) \/ t.then = "wait" THEN Asleep(f + 1, n)
               ELSE [on EXCEPT !.pc = "reverse"]]

\* A chunk begins with a seek.
Chunk(s) ==
    LET n == DecodeFrame(file[s], thread[s].cursor)
    IN  /\ thread[s].pc = "chunk"
        /\ IF n = 0 THEN GiveUp(s) ELSE Deliver(s, n)
        /\ UNCHANGED <<ask, faults, Main>>

\* Only a stop interrupts it.
ChunkNext(s) ==
    LET n == DecodeNextFrame(file[s], thread[s].at)
    IN  /\ thread[s].pc = "next"
        /\ IF ask[s].stopping \/ n = 0 THEN GiveUp(s) ELSE Deliver(s, n)
        /\ UNCHANGED <<ask, faults, Main>>

Run(s) ==
    \/ TakeRequest(s) \/ CheckTarget(s) \/ Window(s) \/ Ahead(s) \/ Ascend(s)
    \/ Decode(s) \/ FillReverse(s) \/ Chunk(s) \/ ChunkNext(s)

MainGoesOn ==
    \/ \E faster \in BOOLEAN : RequestFrame(faster)
    \/ \E s \in Sources : Stop(s) \/ Join(s) \/ Reopen(s)
    \/ Resume

Next ==
    \/ \E view \in Views : Seek(view)
    \/ MainGoesOn \/ Present \/ BeginReload
    \/ \E s \in Sources : Run(s) \/ DecodeFails(s)

\* The threads run, and the display asks for a picture at every refresh.
Spec ==
    /\ Init /\ [][Next]_vars
    /\ WF_vars(MainGoesOn) /\ WF_vars(Present)
    /\ \A s \in Sources : WF_vars(Run(s))

-----------------------------------------------------------------------------
(* Properties. *)

\* Once the playhead rests, each layer comes to show a picture as near to the
\* frame asked for as the one a seek to that frame finds, whatever the decoder
\* was doing when the request came: the frame itself when it has a picture.
\* Unless the decoding of the request fails, the cache pushes the picture out
\* before the next refresh, or the source could not be opened.
\* (RequestFrame, Run, FrameIndexForPts)
Served(i) ==
    LET s == slots[i][1]
        f == slots[i][2]
    IN  Reach(s, f) # None =>
            shown[i] # None /\ Distance(shown[i], f) <= Distance(Reach(s, f), f)
Excused(i) == excuse[slots[i][1]] # "none" \/ file[slots[i][1]] = Offline
Unserved == \E i \in DOMAIN slots : ~Served(i) /\ ~Excused(i)
RequestServed == Unserved ~> ~Unserved

\* The thread of a file of constant rate stops filling only when the frames it
\* decodes ahead of the request are all there, and those behind it too when the
\* scrub goes forwards: the fill pushes none of its own frames out.  (A chunk
\* decoded in advance, backwards, may push out those behind.)
\* (Run, FrameCache::WindowForSource, FrameCache::EvictToBudget)
Rested(s) == thread[s].pc = "wait" /\ thread[s].next # None /\ ~RequestChanged(s)
WindowCached ==
    \A s \in {u \in Online : Rested(u) /\ file[u] = Regular} :
        LET w == WindowForSource(cache, s)
            f == ask[s].asked
            window == IF ask[s].stable > 0 THEN (f - w.behind..f + w.ahead) \ {f}
                                           ELSE f - w.ahead..f - 1
        IN  \A g \in window \cap (0..FrameCount - 1) : Cached(cache, <<s, g>>)

\* A thread ends when it is told to, wherever it is: the reload comes to an
\* end.  (Stop, Run)
ReloadEnds == reload.on ~> ~reload.on

\* Once a reload is over, the cache holds no frame of the files that were
\* replaced, not even one that a decoder put there while it was being stopped,
\* and so none is shown; and a decoder is replaced only when its thread is gone.
\* (reloadDecodeWorkers, DecodeWorker::Stop)
NoStaleFrame ==
    /\ ~reload.on => stale = {}
    /\ \A s \in reload.open \ reload.stop : thread[s].pc = "ended"

\* The decoder is asked for frames of the source only.
DecodesInRange ==
    \A s \in Sources :
        /\ thread[s].pc \in {"decode", "chunk"} =>
              thread[s].cursor \in 0..FrameCount - 1
        /\ thread[s].pc = "chunk" => thread[s].last \in 0..FrameCount - 1

=============================================================================
