----------------------------- MODULE MediaSource -----------------------------
(***************************************************************************)
(* The pictures of an open file and the frames they count as               *)
(* (MediaSource.mm).  A file is the sequence of the times of its pictures, *)
(* from the start of the stream, in ticks of its time base.  Frames are    *)
(* numbered from 0 at the average rate of the file.  When the rate varies, *)
(* a frame may have no picture and two pictures may count as one frame.    *)
(* A picture without a time is left out.                                   *)
(***************************************************************************)
EXTENDS Integers, Sequences, SequencesExt

CONSTANTS
    FrameCount,     \* impl_->frameCount
    Ticks           \* <<n, d>>: a frame lasts n / d ticks

ASSUME MediaAssumption ==
    /\ FrameCount \in Nat \ {0}
    /\ Ticks \in (Nat \ {0}) \X (Nat \ {0})

\* A file that cannot be opened has no pictures.
Offline == <<>>

\* av_rescale_q rounds to the nearest, and a half up.
TimeOf(f) == (2 * f * Ticks[1] + Ticks[2]) \div (2 * Ticks[2])

FrameIndexForPts(time) == (2 * time * Ticks[2] + Ticks[1]) \div (2 * Ticks[1])

\* The number of the first picture from a frame on; 0 when there is none.
DecodeFrame(file, f) ==
    LET time == TimeOf(Max({0, Min({f, FrameCount - 1})}))
    IN  SelectInSeq(file, LAMBDA t : t >= time)

\* The number of the picture after one; 0 after the last.
DecodeNextFrame(file, n) == IF n < Len(file) THEN n + 1 ELSE 0

\* A file of constant rate: each frame has its picture.
Regular == [n \in 1..FrameCount |-> TimeOf(n - 1)]

=============================================================================
