----------------------------- MODULE Collection -----------------------------
(***************************************************************************)
(* What the registry and the collection of subflows promise together,      *)
(* without slots, channels and timers: a session is offered connections,   *)
(* and has at most one for each index below the agreed count.  They become *)
(* its members when it opens and while it is open, and for good: none is   *)
(* replaced or dropped before the session is over.  While it is open, no   *)
(* offered connection that it can use is dropped, and a repeated index is  *)
(* refused.                                                                *)
(***************************************************************************)
EXTENDS Integers

CONSTANTS
  Conns,     \* connections that may be offered
  Index,     \* Index[c]: the index that c sends
  Expected   \* members have indexes below it

VARIABLES
  place,     \* place[c]: "away", "offered", "member" or "gone"
  phase      \* "before", "open", "settled", "over"

collectionVars == <<place, phase>>

At(where) == { c \in Conns : place[c] = where }
Moved(S, where) == [c \in Conns |-> IF c \in S THEN where ELSE place[c]]
Usable(c) == Index[c] < Expected
SameIndex(c, S) == { d \in S : Index[d] = Index[c] }

CollectionInit == place = [c \in Conns |-> "away"] /\ phase = "before"

(* A connection comes and is not taken.                                     *)
Refuse(c) ==
  /\ c \in At("away")
  /\ place' = Moved({c}, "gone")
  /\ UNCHANGED phase

(* A connection comes; where it is not the first of its index, it may take  *)
(* the place of an older one, but not in a session that is open.            *)
Offer(c) ==
  /\ c \in At("away")
  /\ phase = "open" => SameIndex(c, At("offered") \cup At("member")) = {}
  /\ \E old \in SUBSET SameIndex(c, At("offered")) :
       place' = [Moved(old, "gone") EXCEPT ![c] = "offered"]
  /\ UNCHANGED phase

(* Offered connections are dropped.                                         *)
Discard ==
  /\ \E S \in SUBSET At("offered") :
       /\ phase = "open" => \A c \in S : ~ Usable(c)
       /\ place' = Moved(S, "gone")
  /\ UNCHANGED phase

(* The session opens, with all the connections offered that it can use.     *)
Open ==
  /\ phase = "before" /\ phase' = "open"
  /\ \A c \in At("offered") : SameIndex(c, At("offered")) = {c}
  /\ place' = [c \in Conns |-> IF c \notin At("offered") THEN place[c]
                               ELSE IF Usable(c) THEN "member" ELSE "gone"]

Take(c) ==
  /\ phase = "open" /\ c \in At("offered") /\ Usable(c)
  /\ SameIndex(c, At("member")) = {}
  /\ place' = Moved({c}, "member")
  /\ UNCHANGED phase

(* From now on the members stay the same.                                   *)
Settle ==
  /\ phase = "open" /\ phase' = "settled"
  /\ UNCHANGED place

(* The session is over, given up or at its end.                             *)
End ==
  /\ phase # "over" /\ phase' = "over"
  /\ \E S \in SUBSET At("offered") : place' = Moved(S \cup At("member"), "gone")

CollectionNext ==
  \/ \E c \in Conns : Refuse(c) \/ Offer(c) \/ Take(c)
  \/ Discard \/ Open \/ Settle \/ End

CollectionSpec == CollectionInit /\ [][CollectionNext]_collectionVars
=============================================================================
