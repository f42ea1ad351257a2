----------------------------- MODULE MCCleanup -----------------------------
EXTENDS Cleanup

\* Two interviews of seven frames each, picture and sound, one after the
\* other, and music that starts after them.
MCSourceLength == (100 :> 7) @@ (101 :> 7) @@ (102 :> 4)

Clip(id, src, dur, tin, group) ==
    [NewClip(id, src, 0, dur, tin, FALSE) EXCEPT !.group = group]
Track(kind, index, clips) ==
    [kind |-> kind, index |-> index, clips |-> clips, locked |-> FALSE,
     sync |-> TRUE, output |-> "on"]

Interviews ==
    [tracks |->
        (1 :> Track("video", 0, <<[Clip(11, 100, 7, 0, 50) EXCEPT !.anchor = 11],
                                  [Clip(13, 101, 7, 7, 51) EXCEPT !.anchor = 13]>>)) @@
        (2 :> Track("audio", 1, <<[Clip(12, 100, 7, 0, 50) EXCEPT !.anchor = 11],
                                  [Clip(14, 101, 7, 7, 51) EXCEPT !.anchor = 13]>>)) @@
        (3 :> Track("audio", 2, <<Clip(15, 102, 2, 14, None)>>)),
     transitions |-> <<>>, markers |-> <<>>, styles |-> <<>>, groups |-> <<>>,
     bins |-> <<>>, media |-> [s \in Sources |-> None], format |-> "wide",
     colour |-> "plain", next |-> 1000]

\* Ten windows of two ticks, and frames of three: silence, a murmur, speech.
Window == 0..9
MCDbfs == (0 :> -120) @@ (1 :> -30) @@ (8 :> -12)

Case(envelope, spoken, calls, trims) ==
    [levels |-> envelope, spoken |-> spoken, doc |-> Interviews,
     calls |-> calls, trims |-> trims]

Voice(W) == [w \in Window |-> IF w \in W THEN 8 ELSE 0]
Murmur(W, M) == [w \in Window |-> IF w \in M THEN 1 ELSE Voice(W)[w]]

\* Envelopes for which two calls and an edit of the user are followed.
Watched ==
    {Voice({3, 8, 9}), Voice({2, 8}), Voice({0, 6, 7}), Voice({0, 9}),
     Murmur({4}, {5, 6}), Murmur({0, 8}, {3}), Murmur({0}, 1..9)}

Word(text, from, to) == [text |-> text, from |-> from, to |-> to]

\* Words that share frames, take none, come back or repeat.
Utterances ==
    {<<Word("euh", 0, 4), Word("oui", 4, 11), Word("oui", 11, 16)>>,
     <<Word("bon", 1, 5), Word("euh", 5, 7), Word("euh", 7, 10), Word("non", 10, 19)>>,
     <<Word("oui", 0, 7), Word("euh", 7, 8), Word("non", 12, 21)>>,
     <<Word("oui", 2, 8), Word("euh", 6, 6), Word("non", 4, 13), Word("euh", 13, 17)>>}

MCCases ==
    {Case(Voice(W), <<>>, 1, 0) : W \in SUBSET Window} \cup
    {Case(e, <<>>, 2, 1) : e \in Watched} \cup
    {Case(Voice(W), u, 1, 1) : u \in Utterances, W \in {{2, 3}, {}}}

\* Two calls and nobody else.
MCTightenCases == {Case(e, <<>>, 2, 0) : e \in Watched}

MCFiller == {<<"euh">>}

=============================================================================
