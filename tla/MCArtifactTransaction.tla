------------------------ MODULE MCArtifactTransaction ------------------------
(***************************************************************************)
(* Three artifacts, in the two directories of a package: the project file  *)
(* and its log beside the journal, a timeline in Timelines/.               *)
(***************************************************************************)
EXTENDS ArtifactTransaction

MCDirectory == {"package", "Timelines"}
MCRoot == "package"
MCdirOf == [a \in 1 .. N |-> IF a = 2 THEN "Timelines" ELSE "package"]
=============================================================================
