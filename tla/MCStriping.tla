----------------------------- MODULE MCStriping -----------------------------
(* Instances of Striping for TLC: two or three subflows, of which one may   *)
(* fail, channels of one frame, windows of a few bytes.                     *)
EXTENDS Striping

Subflow1 == {1}

(* State constraint of the runs with two joins that report: only the time   *)
(* while the download loop runs and the upload is open is explored.         *)
WhileRelaying == result = "none" /\ upload = "open"
=============================================================================
