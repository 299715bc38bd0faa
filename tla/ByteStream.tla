----------------------------- MODULE ByteStream -----------------------------
(***************************************************************************)
(* What the downlink of a session promises, however many connections carry *)
(* it: the client's reader sees the target's bytes in order, without a gap *)
(* or a repetition, and is told "end of stream" only once the target has   *)
(* closed and every byte it sent has been delivered.                       *)
(***************************************************************************)
EXTENDS Naturals

VARIABLES
  produced,   \* bytes read from the target so far
  closed,     \* the target has closed its side
  delivered,  \* bytes handed to the client's reader: 0..delivered-1
  ended       \* the client's reader has been told that the stream is complete

bsVars == <<produced, closed, delivered, ended>>

BSInit == produced = 0 /\ closed = FALSE /\ delivered = 0 /\ ended = FALSE

(* The target sends some more bytes.                                        *)
Produce ==
  /\ ~ closed
  /\ produced' \in Nat /\ produced' > produced
  /\ UNCHANGED <<closed, delivered, ended>>

(* The target closes.                                                       *)
Close ==
  /\ closed' = TRUE
  /\ UNCHANGED <<produced, delivered, ended>>

(* The client's reader takes the next byte; with the last one it may learn  *)
(* that the stream is complete.                                             *)
Deliver ==
  /\ delivered < produced
  /\ delivered' = delivered + 1
  /\ \/ UNCHANGED ended
     \/ closed /\ delivered' = produced /\ ended' = TRUE
  /\ UNCHANGED <<produced, closed>>

(* The client's reader is told the end, when nothing is missing.            *)
End ==
  /\ closed /\ delivered = produced
  /\ ended' = TRUE
  /\ UNCHANGED <<produced, closed, delivered>>

BSNext == Produce \/ Close \/ Deliver \/ End

BSSpec == BSInit /\ [][BSNext]_bsVars
=============================================================================
