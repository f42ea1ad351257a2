--------------------------- MODULE AtomicGeneration ---------------------------
(***************************************************************************)
(* What a save promises to the rest of CUTMACHINE (SAVING_ROADMAP.md,      *)
(* invariants 1 to 3): the artifacts of a project change generation        *)
(* together or not at all, a save that failed changed nothing, a save that *)
(* succeeded is never undone, and a stop during a save leaves one of the   *)
(* two generations.                                                        *)
(***************************************************************************)
CONSTANTS Artifact, Content

VARIABLES
  store,   \* what the next reader gets
  base,    \* the generation that was acknowledged
  want,    \* the generation being saved
  busy     \* a save is in progress

vars == <<store, base, want, busy>>

Init ==
  /\ base \in [Artifact -> Content]
  /\ store = base /\ want = base
  /\ busy = FALSE

Start ==
  /\ ~busy /\ busy' = TRUE
  /\ want' \in [Artifact -> Content]
  /\ UNCHANGED <<store, base>>

\* All the artifacts at once, in either direction while nothing was promised.
Switch ==
  /\ busy
  /\ store' \in {base, want}
  /\ UNCHANGED <<base, want, busy>>

Acknowledge ==
  /\ busy /\ store = want
  /\ busy' = FALSE /\ base' = want
  /\ UNCHANGED <<store, want>>

Refuse ==
  /\ busy /\ store = base
  /\ busy' = FALSE
  /\ UNCHANGED <<store, base, want>>

Stop ==
  /\ busy /\ busy' = FALSE
  /\ store' \in {base, want} /\ base' = store'
  /\ UNCHANGED want

Next == Start \/ Switch \/ Acknowledge \/ Refuse \/ Stop

Spec == Init /\ [][Next]_vars
=============================================================================
