--------------------------- MODULE MCDecodeWorker ---------------------------
EXTENDS DecodeWorker

MCWeight == [s \in Sources |-> 1]
MCShare == <<1, 2>>
MCTicks == <<2, 1>>

\* A file whose rate varies: frame 1 comes early, frame 2 has no picture and two
\* count as frame 3.
Variable == <<0, 1, 5, 6, 8>>

\* A file that ends before the last of its frames.
Short == <<0, 2, 4, 6>>

\* One layer, at one of these frames.
MCViews == {<<<<s, f>>>> : s \in Sources, f \in 2..FrameCount - 1}

MCFiles == [s \in Sources |-> {Regular, Variable, Short}]

RegularOnly == [s \in Sources |-> {Regular}]
VariableOnly == [s \in Sources |-> {Variable}]

\* A cross dissolve between two far parts of one source.
SameSource == {<<<<s, 0>>, <<s, FrameCount - 1>>>> : s \in Sources}

\* Every request comes to an end: the thread waits for the next one or is gone.
\* It does not hold of a file whose rate varies.  (FillReverseAhead)
DecoderRests ==
    \A s \in Sources : thread[s].pc # "wait" ~> thread[s].pc \in {"wait", "ended"}

\* The frame asked for is still cached when the fill around it is over.  It does
\* not hold: a request for a cached frame does not touch it.  (Run, Contains)
TargetStays ==
    \A s \in {u \in Online : Rested(u) /\ file[u] = Regular} :
        Cached(cache, <<s, ask[s].asked>>)

=============================================================================
