-------------------------- MODULE RendezvousProofs --------------------------
(***************************************************************************)
(* Theorems about Rendezvous, for every set of join connections, every     *)
(* assignment of indexes to them and every choice of the time limits.      *)
(***************************************************************************)
EXTENDS Rendezvous, SequenceTheorems, FiniteSetTheorems, TLAPS

JoinStates == {"backlog", "hello", "acked", "held", "queued", "collected", "closed"}

(* The steps of the accept loop alone.                                      *)
Gate == Acquire \/ AcceptFails \/ Retry

LEMMA GateFrame ==
  ASSUME Gate PROVE UNCHANGED <<joinVars, slotVars, sessVars, sweepIn>>
  BY DEF Gate, Acquire, AcceptFails, Retry

LEMMA ClosingType ==
  ASSUME TypeOK, NEW S PROVE Closing(S) \in [Conns -> JoinStates]
  BY DEF TypeOK, Closing, JoinStates

LEMMA InitTypeOK == Init => TypeOK
  BY IndexAssumption, TimesAssumption DEF Init, TypeOK

LEMMA JoinTypeOK ==
  ASSUME TypeOK, NEW c \in Conns,
         Connect(c) \/ Ack(c) \/ Register(c) \/ JoinFails(c)
  PROVE  TypeOK'
<1> USE DEF TypeOK, slotVars, sessVars
<1>1. CASE Connect(c)
  BY <1>1, TimesAssumption DEF Connect, Accepts
<1>2. CASE Ack(c)
  BY <1>2 DEF Ack
<1>3. CASE RegisterGathering(c)
  <2>1. PICK R : /\ joins' = (joins \ R) \cup {c}
                 /\ join' = [Closing(R) EXCEPT ![c] = "held"]
                 /\ verdict' \in [Conns -> {"none", "accepted", "rejected"}]
    BY <1>3 DEF RegisterGathering
  <2>2. join' \in [Conns -> JoinStates]
    BY <2>1, ClosingType DEF JoinStates
  <2> QED BY <1>3, <2>1, <2>2 DEF RegisterGathering, JoinStates
<1>4. CASE RegisterReady(c)
  <2>1. Append(chan, c) \in Seq(Conns)
    OBVIOUS
  <2>2. joined' \subseteq 1..(MaxSubflows - 1)
    BY <1>4, IndexAssumption DEF RegisterReady
  <2> QED BY <1>4, <2>1, <2>2 DEF RegisterReady
<1>5. CASE RejectReady(c)
  BY <1>5 DEF RejectReady
<1>6. CASE RegisterFirst(c)
  BY <1>6 DEF RegisterFirst
<1>7. CASE JoinFails(c)
  BY <1>7 DEF JoinFails
<1> QED
  BY <1>1, <1>2, <1>3, <1>4, <1>5, <1>6, <1>7 DEF Register

Session ==
  SessConnect \/ SessFails \/ Open \/ Recv \/ StopCollecting \/ CloseSession
    \/ SessTimeout \/ SessEnds

LEMMA SessionTypeOK == TypeOK /\ Session => TypeOK'
<1> SUFFICES ASSUME TypeOK, Session PROVE TypeOK'
  OBVIOUS
<1> USE DEF TypeOK, slotVars, joinVars
<1>1. CASE SessConnect
  BY <1>1, TimesAssumption DEF SessConnect, Accepts
<1>2. CASE SessFails
  BY <1>2 DEF SessFails
<1>3. CASE Open
  <2>1. joined' \subseteq 1..(MaxSubflows - 1)
    BY <1>3, IndexAssumption DEF Open, Indexes
  <2>2. join' \in [Conns -> JoinStates]
    BY <1>3 DEF Open, JoinStates
  <2>3. chan' \in Seq(Conns) /\ windowLeft' \in 0..JoinWindow /\ age' \in Nat
    BY <1>3, TimesAssumption DEF Open
  <2> QED BY <1>3, <2>1, <2>2, <2>3 DEF Open, JoinStates
<1>4. CASE Recv
  <2>1. Head(chan) \in Conns /\ Tail(chan) \in Seq(Conns)
    BY <1>4 DEF Recv
  <2>2. collected' \subseteq Conns
    BY <1>4, <2>1 DEF Recv
  <2>3. join' \in [Conns -> JoinStates]
    BY <1>4, <2>1 DEF Recv, JoinStates
  <2> QED BY <1>4, <2>1, <2>2, <2>3 DEF Recv, JoinStates
<1>5. CASE StopCollecting
  BY <1>5 DEF StopCollecting
<1>6. CASE CloseSession
  BY <1>6, ClosingType DEF CloseSession, JoinStates
<1>7. CASE SessTimeout
  BY <1>7, ClosingType DEF SessTimeout, JoinStates
<1>8. CASE SessEnds
  BY <1>8, ClosingType DEF SessEnds, JoinStates
<1> QED
  BY <1>1, <1>2, <1>3, <1>4, <1>5, <1>6, <1>7, <1>8 DEF Session

LEMMA SweepTypeOK == TypeOK /\ Sweep => TypeOK'
<1> SUFFICES ASSUME TypeOK, Sweep PROVE TypeOK'
  OBVIOUS
<1> USE DEF TypeOK, sessVars
<1>1. sweepIn' \in 0..SweepPeriod
  BY TimesAssumption DEF Sweep
<1>2. CASE slot # "none" /\ age >= SlotTTL
  BY <1>1, <1>2, ClosingType DEF Sweep, JoinStates
<1>3. CASE ~ (slot # "none" /\ age >= SlotTTL)
  BY <1>1, <1>3 DEF Sweep
<1> QED BY <1>2, <1>3

LEMMA TickTypeOK == TypeOK /\ Tick => TypeOK'
<1> SUFFICES ASSUME TypeOK, Tick PROVE TypeOK'
  OBVIOUS
<1>1. ASSUME NEW m \in Nat, NEW t \in 0..m
      PROVE  0 \in 0..m /\ (t # 0 => t - 1 \in 0..m)
  OBVIOUS
<1>2. \A c \in Conns : joinLeft'[c] \in 0..Handshake
  BY <1>1, TimesAssumption DEF Tick, Due, TypeOK
<1>3. joinLeft' \in [Conns -> 0..Handshake]
  BY <1>2 DEF Tick
<1>4. sessLeft' \in 0..Handshake
  BY <1>1, TimesAssumption DEF Tick, Due, TypeOK
<1>5. windowLeft' \in 0..JoinWindow
  BY <1>1, TimesAssumption DEF Tick, Due, TypeOK
<1>6. sweepIn' \in 0..SweepPeriod
  BY <1>1, TimesAssumption DEF Tick, Due, TypeOK
<1>7. age' \in Nat
  BY DEF Tick, TypeOK
<1> QED BY <1>3, <1>4, <1>5, <1>6, <1>7 DEF Tick, TypeOK

LEMMA NextTypeOK == TypeOK /\ [Next]_vars => TypeOK'
<1> SUFFICES ASSUME TypeOK, [Next]_vars PROVE TypeOK'
  OBVIOUS
<1>1. CASE \E c \in Conns : Connect(c) \/ Ack(c) \/ Register(c) \/ JoinFails(c)
  BY <1>1, JoinTypeOK
<1>2. CASE Session
  BY <1>2, SessionTypeOK
<1>3. CASE Sweep \/ Tick
  BY <1>3, SweepTypeOK, TickTypeOK
<1>4. CASE UNCHANGED vars
  BY <1>4 DEF TypeOK, vars, joinVars, slotVars, sessVars
<1>5. CASE Gate
  <2>1. acceptor' \in {"acquire", "accept", "backoff"}
    BY <1>5 DEF Gate, Acquire, AcceptFails, Retry
  <2> QED BY <1>5, <2>1, GateFrame DEF TypeOK, joinVars, slotVars, sessVars
<1> QED
  BY <1>1, <1>2, <1>3, <1>4, <1>5 DEF Next, Session, Gate

(* Type correctness, for every set of connections and every time limit: no  *)
(* timer runs below zero or above its limit.                                *)
THEOREM TypeCorrect == Spec => []TypeOK
<1>1. Init => TypeOK
  BY InitTypeOK
<1>2. TypeOK /\ [Next]_vars => TypeOK'
  BY NextTypeOK
<1> QED
  BY <1>1, <1>2, PTL DEF Spec

-----------------------------------------------------------------------------
(* The timers.  A slot is swept before its age passes SlotTTL by a sweep    *)
(* period, and the slot of a collecting session is younger than its window. *)

TimerInv ==
  /\ slot # "none" => age + sweepIn < SlotTTL + SweepPeriod
  /\ sess = "collecting" => slot = "ready" /\ age + windowLeft <= JoinWindow

LEMMA InitTimerInv == Init => TimerInv
  BY DEF Init, TimerInv

LEMMA JoinTimerInv ==
  ASSUME TypeOK, TimerInv, NEW c \in Conns,
         Connect(c) \/ Ack(c) \/ Register(c) \/ JoinFails(c)
  PROVE  TimerInv'
<1>1. CASE RegisterFirst(c)
  <2>1. sweepIn < SlotTTL + SweepPeriod
    BY TimesAssumption DEF TypeOK
  <2> QED BY <1>1, <2>1 DEF RegisterFirst, TimerInv, TypeOK, sessVars
<1>2. CASE ~ RegisterFirst(c)
  BY <1>2 DEF Register, Connect, Ack, RegisterGathering, RegisterReady,
              RejectReady, JoinFails, TimerInv, slotVars, sessVars
<1> QED BY <1>1, <1>2

LEMMA SessionTimerInv == TypeOK /\ TimerInv /\ Session => TimerInv'
<1> SUFFICES ASSUME TypeOK, TimerInv, Session PROVE TimerInv'
  OBVIOUS
<1>1. CASE Open
  <2>1. sweepIn < SlotTTL + SweepPeriod
    BY TimesAssumption DEF TypeOK
  <2> QED BY <1>1, <2>1, TimesAssumption DEF Open, TimerInv, TypeOK
<1>2. CASE ~ Open
  BY <1>2 DEF Session, SessConnect, SessFails, Recv, StopCollecting, SessTimeout,
              CloseSession, SessEnds, TimerInv, slotVars, joinVars
<1> QED BY <1>1, <1>2

LEMMA ClockTimerInv == TypeOK /\ TimerInv /\ (Sweep \/ Tick) => TimerInv'
<1> SUFFICES ASSUME TypeOK, TimerInv, Sweep \/ Tick PROVE TimerInv'
  OBVIOUS
<1>1. CASE Sweep /\ slot # "none" /\ age >= SlotTTL
  <2>1. sess # "collecting"
    BY <1>1, TimesAssumption DEF TimerInv, TypeOK
  <2> QED BY <1>1, <2>1 DEF Sweep, TimerInv, sessVars
<1>2. CASE Sweep /\ ~ (slot # "none" /\ age >= SlotTTL)
  BY <1>2, TimesAssumption DEF Sweep, TimerInv, TypeOK, sessVars
<1>3. CASE Tick
  <2>1. sweepIn # 0 /\ sweepIn' = sweepIn - 1
    BY <1>3 DEF Tick, Due
  <2>2. sess = "collecting" => windowLeft # 0 /\ windowLeft' = windowLeft - 1
    BY <1>3 DEF Tick, Due
  <2> QED
    BY <1>3, <2>1, <2>2, TimesAssumption DEF Tick, TimerInv, TypeOK
<1> QED BY <1>1, <1>2, <1>3

LEMMA NextTimerInv == TypeOK /\ TimerInv /\ [Next]_vars => TimerInv'
<1> SUFFICES ASSUME TypeOK, TimerInv, [Next]_vars PROVE TimerInv'
  OBVIOUS
<1>1. CASE \E c \in Conns : Connect(c) \/ Ack(c) \/ Register(c) \/ JoinFails(c)
  BY <1>1, JoinTimerInv
<1>2. CASE Session
  BY <1>2, SessionTimerInv
<1>3. CASE Sweep \/ Tick
  BY <1>3, ClockTimerInv
<1>4. CASE Gate \/ UNCHANGED vars
  BY <1>4, GateFrame DEF TimerInv, vars, slotVars, sessVars
<1> QED
  BY <1>1, <1>2, <1>3, <1>4 DEF Next, Session, Gate

LEMMA TimersHold == Spec => []TimerInv
  BY InitTimerInv, NextTimerInv, TypeCorrect, PTL DEF Spec

(* The sweeper and the collection never meet: for every choice of the       *)
(* limits with JOIN_WINDOW below SLOT_TTL, the slot of a collecting session *)
(* is in the registry.                                                      *)
THEOREM SweeperSparesCollection == Spec => []CollectingHasSlot
<1>1. TimerInv => CollectingHasSlot
  BY DEF TimerInv, CollectingHasSlot
<1> QED BY <1>1, TimersHold, PTL

(* A slot nobody claims is gone before it is SLOT_TTL and a sweep period    *)
(* old.                                                                     *)
THEOREM SlotsAreSwept == Spec => []SlotLifetime
<1>1. TypeOK /\ TimerInv => SlotLifetime
  BY TimesAssumption DEF TypeOK, TimerInv, SlotLifetime
<1> QED BY <1>1, TypeCorrect, TimersHold, PTL

-----------------------------------------------------------------------------
(* The indexes.  Sent(i) is the index of the i-th connection queued.        *)

Distinct(S) == \A c, d \in S : Index[c] = Index[d] => c = d
Positions == 1..Len(chan)
Sent(i) == Index[chan[i]]

IndexInv ==
  /\ Distinct(joins)
  /\ OneConnPerIndex
  /\ slot = "ready" /\ ReceiverAlive =>
       /\ \A c \in collected : Index[c] \in joined
       /\ \A i \in Positions : Sent(i) \in joined
  /\ \A c \in collected : \A i \in Positions : Sent(i) # Index[c]
  /\ \A i, j \in Positions : Sent(i) = Sent(j) => i = j
  /\ ~ ReceiverAlive => chan = <<>>

LEMMA NoPositions == ASSUME chan = <<>> PROVE Positions = {}
  BY EmptySeq DEF Positions

LEMMA NoPositionsNext == ASSUME chan' = <<>> PROVE Positions' = {}
  BY EmptySeq DEF Positions

LEMMA InitIndexInv == Init => IndexInv
<1> SUFFICES ASSUME Init PROVE IndexInv
  OBVIOUS
<1>1. Positions = {}
  BY NoPositions DEF Init
<1> QED
  BY <1>1 DEF Init, IndexInv, Distinct, OneConnPerIndex, ReceiverAlive

(* An action that leaves these alone leaves IndexInv alone; it may remove   *)
(* a slot.                                                                  *)
LEMMA IndexInvFrame ==
  ASSUME IndexInv, Distinct(joins'), UNCHANGED <<chan, collected>>,
         ReceiverAlive' = ReceiverAlive,
         slot' = "ready" => slot = "ready" /\ joined' = joined
  PROVE  IndexInv'
  BY DEF IndexInv, Distinct, OneConnPerIndex, Positions, Sent

LEMMA ReadyIndexInv ==
  ASSUME TypeOK, IndexInv, NEW c \in Conns, RegisterReady(c)
  PROVE  IndexInv'
<1>0. PICK n \in Nat : n = Len(chan)
  BY LenProperties DEF TypeOK
<1>1. chan' = Append(chan, c) /\ joined' = joined \cup {Index[c]}
        /\ Index[c] \notin joined /\ ReceiverAlive /\ slot = "ready"
        /\ UNCHANGED <<slot, joins, sess, collected>>
  BY DEF RegisterReady, Admits, sessVars
<1>2. Len(chan') = n + 1 /\ chan'[n + 1] = c
        /\ \A i \in 1..n : chan'[i] = chan[i]
  BY <1>0, <1>1, AppendProperties DEF TypeOK
<1>3. Positions = 1..n /\ Positions' = 1..(n + 1)
  BY <1>0, <1>2 DEF Positions
<1>4. Positions' = Positions \cup {n + 1} /\ n + 1 \notin Positions
  BY <1>2, <1>3
<1>5. Sent(n + 1)' = Index[c] /\ \A i \in Positions : Sent(i)' = Sent(i)
  BY <1>2, <1>3 DEF Sent
<1>6. /\ \A d \in collected : Index[d] \in joined
      /\ \A i \in Positions : Sent(i) \in joined
  BY <1>1 DEF IndexInv
<1>7. \A d \in collected : \A i \in Positions' : Sent(i)' # Index[d]
  BY <1>1, <1>4, <1>5, <1>6 DEF IndexInv
<1>8. \A i, j \in Positions' : Sent(i)' = Sent(j)' => i = j
  BY <1>1, <1>4, <1>5, <1>6 DEF IndexInv
<1>9. \A i \in Positions' : Sent(i)' \in joined'
  BY <1>1, <1>4, <1>5, <1>6
<1>10. ReceiverAlive'
  BY <1>1 DEF ReceiverAlive
<1> QED
  BY <1>1, <1>6, <1>7, <1>8, <1>9, <1>10
     DEF IndexInv, Distinct, OneConnPerIndex

LEMMA JoinIndexInv ==
  ASSUME TypeOK, TimerInv, IndexInv, NEW c \in Conns,
         Connect(c) \/ Ack(c) \/ Register(c) \/ JoinFails(c)
  PROVE  IndexInv'
<1>1. CASE RegisterGathering(c)
  <2>1. Distinct(joins')
    BY <1>1 DEF RegisterGathering, IndexInv, Distinct
  <2> QED
    BY <1>1, <2>1, IndexInvFrame DEF RegisterGathering, sessVars, ReceiverAlive
<1>2. CASE RegisterReady(c)
  BY <1>2, ReadyIndexInv
<1>3. CASE RegisterFirst(c)
  <2>1. Distinct(joins')
    BY <1>3 DEF RegisterFirst, Distinct
  <2> QED
    BY <1>3, <2>1, IndexInvFrame DEF RegisterFirst, sessVars, ReceiverAlive
<1>4. CASE Connect(c) \/ Ack(c) \/ RejectReady(c) \/ JoinFails(c)
  <2>1. UNCHANGED <<slotVars, sessVars>>
    BY <1>4 DEF Connect, Ack, RejectReady, JoinFails
  <2> QED
    BY <2>1, IndexInvFrame DEF slotVars, sessVars, ReceiverAlive, IndexInv, Distinct
<1> QED
  BY <1>1, <1>2, <1>3, <1>4 DEF Register

LEMMA OpenIndexInv == TypeOK /\ IndexInv /\ Open => IndexInv'
<1> SUFFICES ASSUME TypeOK, IndexInv, Open PROVE IndexInv'
  OBVIOUS
<1>1. Positions' = {}
  BY NoPositionsNext DEF Open
<1>2. \A c \in collected' : Index[c] \in joined'
  BY DEF Open, Indexes
<1>3. OneConnPerIndex'
  BY DEF Open, OneConnPerIndex, IndexInv, Distinct
<1> QED
  BY <1>1, <1>2, <1>3 DEF Open, IndexInv, Distinct, ReceiverAlive

LEMMA RecvIndexInv == TypeOK /\ IndexInv /\ Recv => IndexInv'
<1> SUFFICES ASSUME TypeOK, IndexInv, Recv PROVE IndexInv'
  OBVIOUS
<1>0. PICK n \in Nat, c \in Conns : n = Len(chan) /\ c = Head(chan)
  BY HeadTailProperties, LenProperties DEF TypeOK, Recv
<1>1. chan # <<>> /\ chan' = Tail(chan)
        /\ UNCHANGED <<slot, joins, joined, sess>>
        /\ collected' = IF Index[c] < Expected THEN collected \cup {c} ELSE collected
  BY <1>0 DEF Recv
<1>2. n \in Nat \ {0} /\ c = chan[1] /\ Len(chan') = n - 1
        /\ \A i \in 1..(n - 1) : chan'[i] = chan[i + 1]
  BY <1>0, <1>1, HeadTailProperties, LenProperties, EmptySeq DEF TypeOK
<1>3. Positions = 1..n /\ Positions' = 1..(n - 1)
  BY <1>0, <1>2 DEF Positions
<1>4. Index[c] = Sent(1)
  BY <1>2 DEF Sent
<1>5. /\ 1 \in Positions
      /\ \A i \in Positions' : /\ i + 1 \in Positions /\ i + 1 # 1
                               /\ Sent(i)' = Sent(i + 1)
      /\ \A i, j \in Positions' : i + 1 = j + 1 => i = j
  BY <1>2, <1>3 DEF Sent
<1>6. \A i, j \in Positions' : Sent(i)' = Sent(j)' => i = j
  BY <1>5 DEF IndexInv
<1>7. \A d \in collected : Sent(1) # Index[d]
  BY <1>5 DEF IndexInv
<1>8. \A i \in Positions' : Sent(i)' # Sent(1)
  BY <1>5 DEF IndexInv
<1>9. \A d \in collected' : \A i \in Positions' : Sent(i)' # Index[d]
  BY <1>1, <1>4, <1>5, <1>8 DEF IndexInv
<1>10. OneConnPerIndex'
  BY <1>1, <1>4, <1>7 DEF IndexInv, OneConnPerIndex
<1>11. slot' = "ready" /\ ReceiverAlive' =>
         /\ \A d \in collected' : Index[d] \in joined'
         /\ \A i \in Positions' : Sent(i)' \in joined'
  BY <1>1, <1>4, <1>5 DEF IndexInv, ReceiverAlive
<1>12. ReceiverAlive'
  BY DEF Recv, ReceiverAlive
<1> QED
  BY <1>1, <1>6, <1>9, <1>10, <1>11, <1>12 DEF IndexInv, Distinct

(* The receiver is dropped, with everything in the channel.                 *)
LEMMA ReceiverGoneIndexInv ==
  ASSUME IndexInv, CloseSession \/ SessTimeout \/ SessEnds
  PROVE  IndexInv'
<1>1. ~ ReceiverAlive'
  BY DEF CloseSession, SessTimeout, SessEnds, ReceiverAlive
<1>2. chan' = <<>>
  BY DEF CloseSession, SessTimeout, SessEnds, IndexInv, ReceiverAlive, slotVars
<1>3. Positions' = {}
  BY <1>2, NoPositionsNext
<1>4. OneConnPerIndex' /\ Distinct(joins)'
  BY DEF CloseSession, SessTimeout, SessEnds, IndexInv, OneConnPerIndex,
         Distinct, slotVars
<1> QED
  BY <1>1, <1>2, <1>3, <1>4 DEF IndexInv

LEMMA NextIndexInv == TypeOK /\ TimerInv /\ IndexInv /\ [Next]_vars => IndexInv'
<1> SUFFICES ASSUME TypeOK, TimerInv, IndexInv, [Next]_vars PROVE IndexInv'
  OBVIOUS
<1>1. CASE \E c \in Conns : Connect(c) \/ Ack(c) \/ Register(c) \/ JoinFails(c)
  BY <1>1, JoinIndexInv
<1>2. CASE Open
  BY <1>2, OpenIndexInv
<1>3. CASE Recv
  BY <1>3, RecvIndexInv
<1>4. CASE CloseSession \/ SessTimeout \/ SessEnds
  BY <1>4, ReceiverGoneIndexInv
<1>5. CASE Gate \/ SessConnect \/ SessFails \/ StopCollecting \/ Tick \/ UNCHANGED vars
  <2>1. /\ UNCHANGED <<chan, collected, slot, joins, joined>>
        /\ ReceiverAlive' = ReceiverAlive
    BY <1>5, GateFrame DEF SessConnect, SessFails, StopCollecting, Tick, vars, slotVars,
                sessVars, ReceiverAlive
  <2> QED BY <2>1, IndexInvFrame DEF IndexInv, Distinct
<1>6. CASE Sweep
  <2>1. /\ UNCHANGED <<chan, collected>>
        /\ ReceiverAlive' = ReceiverAlive
        /\ joins' = {} \/ joins' = joins
        /\ slot' = "ready" => slot = "ready" /\ joined' = joined
    BY <1>6 DEF Sweep, sessVars, ReceiverAlive
  <2> QED BY <2>1, IndexInvFrame DEF IndexInv, Distinct
<1> QED
  BY <1>1, <1>2, <1>3, <1>4, <1>5, <1>6 DEF Next, Gate

LEMMA IndexesHold == Spec => []IndexInv
<1>1. TypeOK /\ TimerInv /\ IndexInv /\ [Next]_vars => IndexInv'
  BY NextIndexInv
<1> QED
  BY <1>1, InitIndexInv, TypeCorrect, TimersHold, PTL DEF Spec

(* The session relays over at most one connection per index below the       *)
(* agreed count, for every set of join connections and every assignment of  *)
(* indexes to them.                                                         *)
THEOREM IndexesDistinct == Spec => []OneConnPerIndex
<1>1. IndexInv => OneConnPerIndex
  BY DEF IndexInv
<1> QED BY <1>1, IndexesHold, PTL

(* The indexes queued are distinct, so a channel with a place for every     *)
(* index below MAX_SUBFLOWS is full only when every index has registered.   *)
LEMMA FullChannel ==
  ASSUME TypeOK, IndexInv, slot = "ready", Len(chan) = ChanCap
  PROVE  \A c \in Conns : Index[c] \in joined
<1> DEFINE All == 1..(MaxSubflows - 1)
<1>1. PICK n \in Nat : n = Len(chan)
  BY LenProperties DEF TypeOK
<1>2. Positions = 1..n /\ n = ChanCap
  BY <1>1 DEF Positions
<1>3. \A i \in Positions : chan[i] \in Conns
  BY LenProperties DEF TypeOK, Positions
<1> DEFINE f == [i \in Positions |-> Sent(i)]
<1>4. f \in [Positions -> All]
  BY <1>3, IndexAssumption DEF Sent
<1>5. f \in Injection(Positions, All)
  BY <1>4 DEF IndexInv, Injection, IsInjective
<1>6. IsFiniteSet(All) /\ Cardinality(All) = MaxSubflows - 1
  BY FS_Interval, IndexAssumption
<1>7. Cardinality(Positions) = n
  BY <1>2, FS_Interval
<1>8. Cardinality(Positions) <= Cardinality(All)
        /\ (Cardinality(Positions) = Cardinality(All) <=> f \in Surjection(Positions, All))
  BY <1>5, <1>6, FS_Injection
<1>9. f \in Surjection(Positions, All)
  BY <1>2, <1>6, <1>7, <1>8, ChannelAssumption, IndexAssumption
<1>10. Positions # {}
  BY <1>2, ChannelAssumption, IndexAssumption
<1>11. ReceiverAlive
  BY <1>10, NoPositions DEF IndexInv
<1>12. \A i \in Positions : Sent(i) \in joined
  BY <1>11 DEF IndexInv
<1>13. \A x \in All : \E i \in Positions : f[i] = x
  BY <1>9 DEF Surjection
<1> QED
  BY <1>12, <1>13, IndexAssumption

(* try_send never finds the channel full for a connection whose index is    *)
(* new, whenever the channel has room for every index below MAX_SUBFLOWS.   *)
THEOREM ChannelHasRoom == Spec => []ChannelNeverFull
<1>1. TypeOK /\ IndexInv => ChannelNeverFull
  BY FullChannel DEF ChannelNeverFull
<1> QED BY <1>1, TypeCorrect, IndexesHold, PTL

-----------------------------------------------------------------------------
(* Verdicts.  Every index the slot knows was registered by a connection     *)
(* that has its verdict, a connection that is still to register has none,   *)
(* and only a cancelled connection 0 leaves a ready slot without receiver.  *)

Judged(i) == \E d \in Conns : Index[d] = i /\ verdict[d] # "none"

CauseInv ==
  /\ \A i \in joined : Judged(i)
  /\ \A d \in joins : verdict[d] # "none"
  /\ \A c \in Conns : join[c] \in {"backlog", "hello", "acked"} => verdict[c] = "none"
  /\ slot = "ready" => ReceiverAlive \/ sess = "cancelled"
  /\ Len(chan) <= ChanCap
  /\ RejectedForCause

LEMMA InitCauseInv == Init => CauseInv
<1> SUFFICES ASSUME Init PROVE CauseInv
  OBVIOUS
<1>1. Len(chan) = 0
  BY EmptySeq DEF Init
<1> QED
  BY <1>1, ChannelAssumption, IndexAssumption DEF Init, CauseInv, RejectedForCause

(* A step that judges no connection and leaves the slot and the session as  *)
(* they are, or removes the slot, cancels the session or empties it.        *)
LEMMA CauseFrame ==
  ASSUME CauseInv, verdict' = verdict,
         joined' \subseteq joined \/ \A i \in joined' : Judged(i),
         joins' \subseteq joins,
         \A c \in Conns : join'[c] \in {"backlog", "hello", "acked"}
                            => join[c] \in {"backlog", "hello", "acked"},
         slot' = "ready" => ReceiverAlive' \/ sess' = "cancelled",
         Len(chan') <= ChanCap,
         sess = "cancelled" => sess' = "cancelled"
  PROVE  CauseInv'
<1>1. \A i : Judged(i)' <=> Judged(i)
  BY DEF Judged
<1> QED BY <1>1 DEF CauseInv, RejectedForCause

(* The connection c registers: it gets its verdict, and the others keep     *)
(* theirs.                                                                  *)
LEMMA CauseRegister ==
  ASSUME TypeOK, CauseInv, NEW c \in Conns, join[c] = "acked", UNCHANGED sess,
         NEW v \in {"accepted", "rejected"}, verdict' = [verdict EXCEPT ![c] = v],
         joined' \subseteq joined \cup {Index[c]},
         joins' \subseteq joins \cup {c},
         join'[c] \notin {"backlog", "hello", "acked"},
         \A d \in Conns : join'[d] \in {"backlog", "hello", "acked"}
                            => join[d] \in {"backlog", "hello", "acked"},
         slot' = "ready" => slot = "ready",
         Len(chan') <= ChanCap,
         v = "rejected" => Judged(Index[c]) \/ sess = "cancelled"
  PROVE  CauseInv'
<1>1. verdict[c] = "none"
  BY DEF CauseInv
<1>2. verdict'[c] = v /\ \A d \in Conns \ {c} : verdict'[d] = verdict[d]
  BY DEF TypeOK
<1>3. \A i : Judged(i) => Judged(i)'
  BY <1>1, <1>2 DEF Judged
<1>4. Judged(Index[c])'
  BY <1>2 DEF Judged
<1>5. \A i \in joined' : Judged(i)'
  BY <1>3, <1>4 DEF CauseInv
<1>6. \A d \in joins' : verdict'[d] # "none"
  BY <1>2 DEF CauseInv, TypeOK
<1>7. ReceiverAlive' <=> ReceiverAlive
  BY DEF ReceiverAlive
<1>8. RejectedForCause'
  <2>1. ASSUME NEW d \in Conns, verdict'[d] = "rejected", sess # "cancelled"
        PROVE  \E e \in Conns \ {d} : Index[e] = Index[d] /\ verdict'[e] # "none"
    <3>1. CASE d = c
      <4>1. PICK e \in Conns : Index[e] = Index[c] /\ verdict[e] # "none"
        BY <2>1, <3>1, <1>2 DEF Judged
      <4> QED BY <3>1, <4>1, <1>1, <1>2
    <3>2. CASE d # c
      <4>1. PICK e \in Conns \ {d} : Index[e] = Index[d] /\ verdict[e] # "none"
        BY <2>1, <3>2, <1>2 DEF CauseInv, RejectedForCause
      <4> QED BY <4>1, <1>1, <1>2
    <3> QED BY <3>1, <3>2
  <2> QED BY <2>1 DEF RejectedForCause
<1> QED
  BY <1>2, <1>5, <1>6, <1>7, <1>8 DEF CauseInv

LEMMA JoinCauseInv ==
  ASSUME TypeOK, IndexInv, CauseInv, NEW c \in Conns,
         Connect(c) \/ Ack(c) \/ Register(c) \/ JoinFails(c)
  PROVE  CauseInv'
<1>0. PICK n \in Nat : n = Len(chan)
  BY LenProperties DEF TypeOK
<1>1. CASE RegisterGathering(c)
  <2> DEFINE R == { d \in joins : Index[d] = Index[c] }
  <2>1. /\ join[c] = "acked" /\ joins' = (joins \ R) \cup {c}
        /\ join' = [Closing(R) EXCEPT ![c] = "held"]
        /\ verdict' = [verdict EXCEPT ![c] = IF R = {} THEN "accepted" ELSE "rejected"]
        /\ UNCHANGED <<slot, joined, chan, sess>>
    BY <1>1 DEF RegisterGathering, sessVars
  <2>2. R # {} => Judged(Index[c])
    BY DEF CauseInv, Judged, TypeOK
  <2>3. join'[c] = "held" /\ \A d \in Conns : join'[d] \in {"held", "closed", join[d]}
    BY <2>1 DEF Closing
  <2>4. Len(chan') <= ChanCap
    BY <2>1 DEF CauseInv
  <2> HIDE DEF R
  <2>5. PICK v \in {"accepted", "rejected"} :
          verdict' = [verdict EXCEPT ![c] = v] /\ (v = "rejected" => R # {})
    BY <2>1
  <2> QED BY <2>1, <2>2, <2>3, <2>4, <2>5, CauseRegister
<1>2. CASE RegisterReady(c)
  <2>1. Len(chan') = n + 1 /\ n < ChanCap
    BY <1>0, <1>2, AppendProperties DEF RegisterReady, Admits, TypeOK
  <2>2. join'[c] = "queued" /\ \A d \in Conns \ {c} : join'[d] = join[d]
    BY <1>2 DEF RegisterReady, TypeOK
  <2>3. Len(chan') <= ChanCap
    BY <2>1, ChannelAssumption
  <2> QED BY <1>2, <2>2, <2>3, CauseRegister DEF RegisterReady, sessVars
<1>3. CASE RejectReady(c)
  <2>1. Judged(Index[c]) \/ sess = "cancelled"
    <3>1. CASE Index[c] \in joined
      BY <3>1 DEF CauseInv
    <3>2. CASE ~ ReceiverAlive
      BY <3>2, <1>3 DEF CauseInv, RejectReady
    <3>3. CASE ~ (Len(chan) < ChanCap)
      <4>1. Len(chan) = ChanCap
        BY <1>0, <3>3, ChannelAssumption DEF CauseInv
      <4> QED BY <4>1, <1>3, FullChannel DEF CauseInv, RejectReady
    <3> QED BY <1>3, <3>1, <3>2, <3>3 DEF RejectReady, Admits
  <2>2. join'[c] = "closed" /\ \A d \in Conns \ {c} : join'[d] = join[d]
    BY <1>3 DEF RejectReady, TypeOK
  <2>3. /\ join[c] = "acked" /\ verdict' = [verdict EXCEPT ![c] = "rejected"]
        /\ UNCHANGED <<slot, joins, joined, chan, sess>>
    BY <1>3 DEF RejectReady, slotVars, sessVars
  <2>4. Len(chan') <= ChanCap
    BY <2>3 DEF CauseInv
  <2> QED BY <2>1, <2>2, <2>3, <2>4, CauseRegister
<1>4. CASE RegisterFirst(c)
  <2>1. join'[c] = "held" /\ \A d \in Conns \ {c} : join'[d] = join[d]
    BY <1>4 DEF RegisterFirst, TypeOK
  <2>2. Len(chan') <= ChanCap
    BY <1>4 DEF RegisterFirst, CauseInv
  <2> QED BY <1>4, <2>1, <2>2, CauseRegister DEF RegisterFirst, sessVars
<1>5. CASE Connect(c) \/ Ack(c) \/ JoinFails(c)
  <2>1. UNCHANGED <<verdict, slotVars, sessVars>>
    BY <1>5 DEF Connect, Ack, JoinFails
  <2>2. \A d \in Conns : join'[d] \in {"backlog", "hello", "acked"}
                           => join[d] \in {"backlog", "hello", "acked"}
    BY <1>5 DEF Connect, Ack, JoinFails, TypeOK
  <2> QED
    BY <2>1, <2>2, CauseFrame DEF slotVars, sessVars, CauseInv, ReceiverAlive
<1> QED
  BY <1>1, <1>2, <1>3, <1>4, <1>5 DEF Register

LEMMA SessionCauseInv == TypeOK /\ CauseInv /\ Session => CauseInv'
<1> SUFFICES ASSUME TypeOK, CauseInv, Session PROVE CauseInv'
  OBVIOUS
<1>0. Len(<<>>) <= ChanCap
  BY EmptySeq, ChannelAssumption, IndexAssumption
<1>1. CASE Open
  <2>1. \A i \in joined' : Judged(i)
    BY <1>1 DEF Open, Indexes, CauseInv, Judged, TypeOK
  <2>2. \A c \in Conns : join'[c] \in {join[c], "collected", "closed"}
    BY <1>1 DEF Open
  <2> QED
    BY <1>0, <1>1, <2>1, <2>2, CauseFrame DEF Open, ReceiverAlive
<1>2. CASE Recv
  <2>1. Len(chan') <= ChanCap
    BY <1>2, HeadTailProperties, LenProperties, ChannelAssumption
       DEF Recv, TypeOK, CauseInv
  <2>2. \A c \in Conns : join'[c] \in {join[c], "collected", "closed"}
    BY <1>2 DEF Recv, TypeOK
  <2> QED
    BY <1>2, <2>1, <2>2, CauseFrame DEF Recv, ReceiverAlive
<1>3. CASE CloseSession \/ SessTimeout \/ SessEnds
  <2>1. \A c \in Conns : join'[c] \in {join[c], "closed"}
    BY <1>3 DEF CloseSession, SessTimeout, SessEnds, Closing
  <2>2. Len(chan') <= ChanCap
    BY <1>0, <1>3 DEF CloseSession, SessTimeout, SessEnds, slotVars, CauseInv
  <2>3. slot' = "ready" => ReceiverAlive' \/ sess' = "cancelled"
    BY <1>3 DEF CloseSession, SessTimeout, SessEnds, slotVars, CauseInv, ReceiverAlive
  <2>4. /\ verdict' = verdict /\ joined' \subseteq joined /\ joins' \subseteq joins
        /\ sess = "cancelled" => sess' = "cancelled"
    BY <1>3 DEF CloseSession, SessTimeout, SessEnds, slotVars
  <2> QED
    BY <2>1, <2>2, <2>3, <2>4, CauseFrame
<1>4. CASE SessConnect \/ SessFails \/ StopCollecting
  <2>1. UNCHANGED <<joinVars, slotVars>> /\ (sess = "cancelled" => sess' = "cancelled")
    BY <1>4 DEF SessConnect, SessFails, StopCollecting
  <2>2. slot' = "ready" => ReceiverAlive' \/ sess' = "cancelled"
    BY <1>4 DEF SessConnect, SessFails, StopCollecting, CauseInv, ReceiverAlive, slotVars
  <2> QED
    BY <2>1, <2>2, CauseFrame DEF joinVars, slotVars, CauseInv
<1> QED
  BY <1>1, <1>2, <1>3, <1>4 DEF Session

LEMMA NextCauseInv == TypeOK /\ IndexInv /\ CauseInv /\ [Next]_vars => CauseInv'
<1> SUFFICES ASSUME TypeOK, IndexInv, CauseInv, [Next]_vars PROVE CauseInv'
  OBVIOUS
<1>1. CASE \E c \in Conns : Connect(c) \/ Ack(c) \/ Register(c) \/ JoinFails(c)
  BY <1>1, JoinCauseInv
<1>2. CASE Session
  BY <1>2, SessionCauseInv
<1>3. CASE Sweep
  <2>1. \A c \in Conns : join'[c] \in {join[c], "closed"}
    BY <1>3 DEF Sweep, Closing
  <2>2. /\ UNCHANGED <<verdict, chan, sess>>
        /\ joined' \subseteq joined /\ joins' \subseteq joins
        /\ slot' = "ready" => slot = "ready"
    BY <1>3 DEF Sweep, sessVars
  <2> QED
    BY <2>1, <2>2, CauseFrame DEF CauseInv, ReceiverAlive
<1>4. CASE Gate \/ Tick \/ UNCHANGED vars
  <2>1. UNCHANGED <<join, verdict, slot, joins, joined, chan, sess>>
    BY <1>4, GateFrame DEF Tick, vars, joinVars, slotVars, sessVars
  <2> QED
    BY <2>1, CauseFrame DEF CauseInv, ReceiverAlive
<1> QED
  BY <1>1, <1>2, <1>3, <1>4 DEF Next, Session, Gate

(* A join is rejected only for a repeated index or after a cancelled        *)
(* connection 0, for every set of connections, every assignment of indexes  *)
(* and all time limits: a full channel is never the reason.                 *)
THEOREM RejectionsHaveCause == Spec => []RejectedForCause
<1>1. Spec => []CauseInv
  BY InitCauseInv, NextCauseInv, TypeCorrect, IndexesHold, PTL DEF Spec
<1>2. CauseInv => RejectedForCause
  BY DEF CauseInv
<1> QED BY <1>1, <1>2, PTL

-----------------------------------------------------------------------------
(* Places.  A connection in the slot, in the channel or collected is where  *)
(* its state says, so it is in one of them only; and a collection that has  *)
(* stopped before its window was over has all it expects.                   *)

PlaceInv ==
  /\ \A d \in joins : join[d] = "held"
  /\ \A d \in Queued : join[d] = "queued"
  /\ \A d \in collected : join[d] = "collected"
  /\ sess = "closing" /\ windowLeft > 0 => ~ Missing

LEMMA QueuedEmpty == ASSUME chan' = <<>> PROVE Queued' = {}
  BY DEF Queued

LEMMA QueuedAppend ==
  ASSUME TypeOK, NEW c \in Conns, chan' = Append(chan, c)
  PROVE  Queued' = Queued \cup {c}
<1>1. PICK n \in Nat : n = Len(chan)
  BY LenProperties DEF TypeOK
<1>2. Len(chan') = n + 1 /\ chan'[n + 1] = c /\ \A i \in 1..n : chan'[i] = chan[i]
  BY <1>1, AppendProperties DEF TypeOK
<1>. QED
  BY <1>1, <1>2 DEF Queued

LEMMA QueuedTail ==
  ASSUME TypeOK, IndexInv, chan # <<>>, chan' = Tail(chan)
  PROVE  /\ Queued' \subseteq Queued \ {Head(chan)} /\ Head(chan) \in Queued
         /\ Head(chan) \in Conns
<1>1. PICK n \in Nat : n = Len(chan)
  BY LenProperties DEF TypeOK
<1>2. /\ n # 0 /\ Head(chan) = chan[1] /\ Len(chan') = n - 1
      /\ \A i \in 1..(n - 1) : chan'[i] = chan[i + 1]
  BY <1>1, HeadTailProperties DEF TypeOK
<1>3. ASSUME NEW i \in 1..(n - 1)
      PROVE  chan'[i] \in Queued /\ chan'[i] # Head(chan)
  <2>1. i + 1 \in 1..n /\ 1 \in 1..n /\ i + 1 # 1
    BY <1>2
  <2>2. Sent(i + 1) # Sent(1)
    BY <1>1, <2>1 DEF IndexInv, Positions
  <2>. QED
    BY <1>1, <1>2, <2>1, <2>2 DEF Queued, Sent
<1>4. Head(chan) \in Queued /\ Head(chan) \in Conns
  <2>1. 1 \in 1..n
    BY <1>2
  <2>. QED
    BY <1>1, <1>2, <2>1, ElementOfSeq DEF Queued, TypeOK
<1>. QED
  BY <1>1, <1>2, <1>3, <1>4 DEF Queued

(* A step that moves no connection that is in a place, unless it takes it   *)
(* out of it, and neither closes the collection nor undoes its window.      *)
LEMMA PlaceFrame ==
  ASSUME PlaceInv, joins' \subseteq joins, Queued' \subseteq Queued, collected' \subseteq collected,
         \A d \in joins' \cup Queued' \cup collected' : join'[d] = join[d],
         sess' = "closing" => sess = "closing" /\ collected' = collected,
         windowLeft' > 0 /\ sess' = "closing" => windowLeft > 0
  PROVE  PlaceInv'
  BY DEF PlaceInv, Missing

LEMMA InitPlaceInv == Init => PlaceInv
<1>. SUFFICES ASSUME Init PROVE PlaceInv
  OBVIOUS
<1>1. Queued = {}
  BY DEF Init, Queued
<1>. QED
  BY <1>1 DEF Init, PlaceInv

LEMMA JoinPlaceInv ==
  ASSUME TypeOK, PlaceInv, NEW c \in Conns,
         Connect(c) \/ Ack(c) \/ Register(c) \/ JoinFails(c)
  PROVE  PlaceInv'
<1>1. UNCHANGED <<sess, windowLeft, collected>>
  BY DEF Connect, Ack, Register, RegisterGathering, RegisterReady, RejectReady, RegisterFirst,
         JoinFails, sessVars
<1>2. join[c] \in {"backlog", "hello", "acked"} /\ Missing' = Missing
  BY <1>1 DEF Connect, Ack, Register, RegisterGathering, RegisterReady, RejectReady,
              RegisterFirst, JoinFails, Missing
<1>3. c \notin joins /\ c \notin Queued /\ c \notin collected
  BY <1>2 DEF PlaceInv
<1>4. collected \subseteq Conns /\ joins \subseteq Conns /\ DOMAIN join = Conns
  BY DEF TypeOK
<1>5. chan' = chan => Queued' = Queued
  BY DEF Queued
<1>6. CASE RegisterGathering(c)
  <2>1. PICK R : /\ R = { d \in joins : Index[d] = Index[c] }
                 /\ joins' = (joins \ R) \cup {c}
                 /\ join' = [Closing(R) EXCEPT ![c] = "held"]
    BY <1>6 DEF RegisterGathering
  <2>2. join'[c] = "held" /\ \A d \in Conns \ {c} : d \notin R => join'[d] = join[d]
    BY <2>1 DEF Closing
  <2>3. Queued' = Queued /\ Queued \cap joins = {} /\ collected \cap joins = {}
    BY <1>5, <1>6 DEF RegisterGathering, PlaceInv
  <2>4. Queued \subseteq Conns
    BY DEF TypeOK, Queued
  <2>. QED
    BY <1>1, <1>2, <1>3, <1>4, <2>1, <2>2, <2>3, <2>4 DEF PlaceInv
<1>7. CASE RegisterReady(c)
  <2>1. Queued' = Queued \cup {c}
    BY <1>7, QueuedAppend DEF RegisterReady
  <2>2. joins' = joins /\ join' = [join EXCEPT ![c] = "queued"]
    BY <1>7 DEF RegisterReady
  <2>. QED
    BY <1>1, <1>2, <1>3, <1>4, <2>1, <2>2 DEF PlaceInv
<1>8. CASE RegisterFirst(c)
  <2>1. Queued' = Queued /\ joins' = {c} /\ join' = [join EXCEPT ![c] = "held"]
    BY <1>5, <1>8 DEF RegisterFirst
  <2>. QED
    BY <1>1, <1>2, <1>3, <1>4, <2>1 DEF PlaceInv
<1>9. CASE Connect(c) \/ Ack(c) \/ RejectReady(c) \/ JoinFails(c)
  <2>1. PICK s : join' = [join EXCEPT ![c] = s]
    BY <1>9 DEF Connect, Ack, RejectReady, JoinFails
  <2>2. Queued' = Queued /\ joins' = joins
    BY <1>5, <1>9 DEF Connect, Ack, RejectReady, JoinFails, slotVars
  <2>. QED
    BY <1>1, <1>2, <1>3, <1>4, <2>1, <2>2 DEF PlaceInv
<1>. QED
  BY <1>6, <1>7, <1>8, <1>9 DEF Register

LEMMA SessionPlaceInv == TypeOK /\ IndexInv /\ PlaceInv /\ Session => PlaceInv'
<1>. SUFFICES ASSUME TypeOK, IndexInv, PlaceInv, Session PROVE PlaceInv'
  OBVIOUS
<1>1. collected \subseteq Conns /\ joins \subseteq Conns /\ Queued \subseteq Conns /\ DOMAIN join = Conns
  BY DEF TypeOK, Queued
<1>2. CASE SessConnect \/ SessFails \/ StopCollecting
  <2>1. UNCHANGED <<join, joins, chan, collected, windowLeft>>
    BY <1>2 DEF SessConnect, SessFails, StopCollecting, joinVars, slotVars
  <2>2. Queued' = Queued /\ Missing' = Missing
    BY <2>1 DEF Queued, Missing
  <2>3. sess' = "closing" /\ windowLeft > 0 => ~ Missing
    BY <1>2 DEF SessConnect, SessFails, StopCollecting, TypeOK
  <2>. QED
    BY <2>1, <2>2, <2>3 DEF PlaceInv
<1>3. CASE Open
  <2>1. /\ sess' = "collecting" /\ joins' = {} /\ chan' = <<>>
        /\ collected' = { c \in joins : Index[c] < Expected }
        /\ \A c \in Conns : c \in joins /\ Index[c] < Expected => join'[c] = "collected"
    BY <1>3 DEF Open
  <2>2. Queued' = {}
    BY <2>1, QueuedEmpty
  <2>. QED
    BY <1>1, <2>1, <2>2 DEF PlaceInv
<1>4. CASE Recv
  <2>1. PICK c \in Conns :
          /\ c = Head(chan) /\ c \in Queued /\ Queued' \subseteq Queued \ {c}
    BY <1>4, QueuedTail DEF Recv
  <2>2. /\ sess' = "collecting" /\ joins' = joins
        /\ \/ collected' = collected \cup {c} /\ join' = [join EXCEPT ![c] = "collected"]
           \/ collected' = collected /\ join' = [join EXCEPT ![c] = "closed"]
    BY <1>4, <2>1 DEF Recv
  <2>3. c \notin joins /\ c \notin collected
    BY <2>1 DEF PlaceInv
  <2>. QED
    BY <1>1, <2>1, <2>2, <2>3 DEF PlaceInv
<1>5. CASE CloseSession
  <2>1. /\ sess' = "relaying" /\ joins' = {} /\ chan' = <<>> /\ collected' = collected
        /\ \A c \in Conns \ (joins \cup Queued) : join'[c] = join[c]
    BY <1>5 DEF CloseSession, Closing
  <2>2. Queued' = {}
    BY <2>1, QueuedEmpty
  <2>3. collected \cap (joins \cup Queued) = {}
    BY DEF PlaceInv
  <2>. QED
    BY <1>1, <2>1, <2>2, <2>3 DEF PlaceInv
<1>6. CASE SessTimeout
  <2>1. /\ sess' = "cancelled" /\ joins' = joins /\ chan' = <<>> /\ collected' = {}
        /\ \A c \in Conns \ (collected \cup Queued) : join'[c] = join[c]
    BY <1>6 DEF SessTimeout, Closing
  <2>2. Queued' = {}
    BY <2>1, QueuedEmpty
  <2>3. joins \cap (collected \cup Queued) = {}
    BY DEF PlaceInv
  <2>. QED
    BY <1>1, <2>1, <2>2, <2>3 DEF PlaceInv
<1>7. CASE SessEnds
  <2>1. /\ sess' = "ended" /\ joins' = joins /\ chan' = chan /\ collected' = {}
        /\ \A c \in Conns \ collected : join'[c] = join[c]
    BY <1>7 DEF SessEnds, Closing, slotVars
  <2>2. Queued' = Queued
    BY <2>1 DEF Queued
  <2>3. (joins \cup Queued) \cap collected = {}
    BY DEF PlaceInv
  <2>. QED
    BY <1>1, <2>1, <2>2, <2>3 DEF PlaceInv
<1>. QED
  BY <1>2, <1>3, <1>4, <1>5, <1>6, <1>7 DEF Session

LEMMA NextPlaceInv == TypeOK /\ IndexInv /\ PlaceInv /\ [Next]_vars => PlaceInv'
<1>. SUFFICES ASSUME TypeOK, IndexInv, PlaceInv, [Next]_vars PROVE PlaceInv'
  OBVIOUS
<1>1. CASE \E c \in Conns : Connect(c) \/ Ack(c) \/ Register(c) \/ JoinFails(c)
  BY <1>1, JoinPlaceInv
<1>2. CASE Session
  BY <1>2, SessionPlaceInv
<1>3. CASE Sweep
  <2>1. /\ UNCHANGED <<chan, collected, sess, windowLeft>>
        /\ \/ joins' = {} /\ join' = Closing(joins)
           \/ joins' = joins /\ join' = join
    BY <1>3 DEF Sweep, sessVars
  <2>2. Queued' = Queued
    BY <2>1 DEF Queued
  <2>3. (Queued \cup collected) \cap joins = {} /\ Queued \cup collected \subseteq Conns
    BY DEF PlaceInv, Queued, TypeOK
  <2>4. \A d \in joins' \cup Queued' \cup collected' : join'[d] = join[d]
    BY <2>1, <2>2, <2>3 DEF Closing
  <2>. QED
    BY <2>1, <2>2, <2>4, PlaceFrame
<1>4. CASE Gate \/ Tick \/ UNCHANGED vars
  <2>1. UNCHANGED <<join, joins, chan, collected, sess>>
    BY <1>4, GateFrame DEF Tick, vars, joinVars, slotVars, sessVars
  <2>2. windowLeft' > 0 /\ sess' = "closing" => windowLeft > 0
    BY <1>4, GateFrame DEF Tick, vars, sessVars
  <2>3. Queued' = Queued
    BY <2>1 DEF Queued
  <2>. QED
    BY <2>1, <2>2, <2>3, PlaceFrame
<1>. QED
  BY <1>1, <1>2, <1>3, <1>4 DEF Next, Session, Gate

LEMMA PlacesHold == Spec => [](TypeOK /\ IndexInv /\ PlaceInv)
<1>1. TypeOK /\ IndexInv /\ PlaceInv /\ [Next]_vars => PlaceInv'
  BY NextPlaceInv
<1>. QED
  BY <1>1, InitPlaceInv, TypeCorrect, IndexesHold, PTL DEF Spec

(* A collection that misses none leaves no connection it can use in the     *)
(* channel: the indexes of both are distinct, and below the agreed count.   *)
LEMMA NoneLeft ==
  ASSUME TypeOK, IndexInv, ~ Missing, NEW c \in Queued, Index[c] < Expected
  PROVE  FALSE
<1>. DEFINE All == 1..(Expected - 1)
            S == collected \cup {c}
            f == [d \in S |-> Index[d]]
<1>1. PICK i \in Positions : c = chan[i]
  BY DEF Queued, Positions
<1>2. c \in Conns
  BY DEF Queued, TypeOK
<1>3. \A d \in collected : Index[d] # Index[c]
  BY <1>1 DEF IndexInv, Sent
<1>4. f \in Injection(S, All)
  <2>1. Index \in [Conns -> 1..(MaxSubflows - 1)] /\ Expected \in Int
    BY IndexAssumption
  <2>2. \A d \in S : d \in Conns /\ Index[d] < Expected
    BY <1>2 DEF TypeOK, IndexInv, OneConnPerIndex
  <2>3. \A d \in S : Index[d] \in All
    BY <2>1, <2>2
  <2>4. \A d, e \in S : Index[d] = Index[e] => d = e
    BY <1>3 DEF IndexInv, OneConnPerIndex
  <2>. QED
    BY <2>3, <2>4 DEF Injection, IsInjective
<1>5. IsFiniteSet(collected) /\ c \notin collected
  <2>1. IsFiniteSet(collected)
    BY FiniteConns, FS_Subset DEF TypeOK
  <2>. QED
    BY <1>3, <2>1
<1>6. IsFiniteSet(S) /\ Cardinality(S) = Cardinality(collected) + 1
  BY <1>5, FS_AddElement
<1>7. IsFiniteSet(All) /\ Cardinality(All) = Expected - 1
  <2>1. Expected \in Int /\ Expected >= 2
    BY IndexAssumption
  <2>. QED
    BY <2>1, FS_Interval
<1>8. Cardinality(S) <= Cardinality(All)
  BY <1>4, <1>6, <1>7, FS_Injection
<1>9. Cardinality(collected) \in Nat /\ Expected \in Nat
  BY <1>5, FS_CardinalityType, IndexAssumption
<1>. QED
  BY <1>6, <1>7, <1>8, <1>9 DEF Missing

(* A connection handed to a collecting session that can use it is dropped   *)
(* only when the window is over or the handshake timed out, for every set   *)
(* of connections and all time limits: whatever the order in which they     *)
(* register, the collection stops early only when it needs no other.        *)
THEOREM QueuedIsCollected == Spec => QueuedIsUsed
<1>. DEFINE Step == \A c \in Conns :
                      join[c] = "queued" /\ join'[c] = "closed" /\ Index[c] < Expected =>
                        windowLeft = 0 \/ sess' = "cancelled"
<1>1. TypeOK /\ IndexInv /\ PlaceInv /\ [Next]_vars => Step
  <2>. SUFFICES ASSUME TypeOK, IndexInv, PlaceInv, [Next]_vars, NEW c \in Conns,
                       join[c] = "queued", join'[c] = "closed", Index[c] < Expected,
                       windowLeft # 0, sess' # "cancelled"
                PROVE  FALSE
    OBVIOUS
  <2>1. c \notin joins /\ c \notin collected
    BY DEF PlaceInv
  <2>2. join \in [Conns -> JoinStates]
    BY DEF TypeOK, JoinStates
  <2>3. CASE CloseSession
    <3>1. c \in Queued
      BY <2>1, <2>3 DEF CloseSession, Closing
    <3>2. ~ Missing
      BY <2>3 DEF CloseSession, PlaceInv, TypeOK
    <3>. QED
      BY <3>1, <3>2, NoneLeft
  <2>4. CASE Recv
    <3>1. PICK d : /\ d = Head(chan)
                   /\ join' = [join EXCEPT ![d] = IF Index[d] < Expected THEN "collected"
                                                                          ELSE "closed"]
      BY <2>4 DEF Recv
    <3>. QED
      BY <2>2, <3>1
  <2>5. CASE SessTimeout \/ SessFails
    BY <2>5 DEF SessTimeout, SessFails
  <2>6. CASE SessEnds \/ Sweep \/ Open
    BY <2>1, <2>6 DEF SessEnds, Sweep, Open, Closing
  <2>7. CASE \E d \in Conns : Connect(d) \/ Ack(d) \/ Register(d) \/ JoinFails(d)
    <3>1. PICK d \in Conns : Connect(d) \/ Ack(d) \/ Register(d) \/ JoinFails(d)
      BY <2>7
    <3>2. join[d] \in {"backlog", "hello", "acked"}
      BY <3>1 DEF Connect, Ack, Register, RegisterGathering, RegisterReady, RejectReady,
                  RegisterFirst, JoinFails
    <3>3. d # c
      BY <3>2
    <3>4. \/ RegisterGathering(d)
          \/ \E s : join' = [join EXCEPT ![d] = s]
      BY <3>1 DEF Connect, Ack, Register, RegisterReady, RejectReady, RegisterFirst, JoinFails
    <3>5. CASE RegisterGathering(d)
      BY <2>1, <3>3, <3>5 DEF RegisterGathering, Closing
    <3>6. CASE \E s : join' = [join EXCEPT ![d] = s]
      BY <2>2, <3>3, <3>6
    <3>. QED
      BY <3>4, <3>5, <3>6
  <2>8. CASE Gate \/ SessConnect \/ StopCollecting \/ Tick \/ UNCHANGED vars
    BY <2>8, GateFrame DEF SessConnect, StopCollecting, Tick, vars, joinVars
  <2>. QED
    BY <2>3, <2>4, <2>5, <2>6, <2>7, <2>8 DEF Next, Gate
<1>2. TypeOK /\ IndexInv /\ PlaceInv /\ [Next]_vars => [Step]_vars
  BY <1>1
<1>. QED
  BY <1>2, PlacesHold, PTL DEF Spec, QueuedIsUsed

-----------------------------------------------------------------------------
(* The registry implements Collection.  Every connection that waits or is   *)
(* collected is in the place its state names (the converse of PlaceInv), so *)
(* that the offered connections of Collection are those of the slot and of  *)
(* the channel, and its members the collected ones.                         *)

HomeInv ==
  /\ \A c \in Conns : /\ join[c] = "held" => c \in joins
                      /\ join[c] = "queued" => c \in Queued
                      /\ join[c] = "collected" => c \in collected
  /\ slot # "gathering" => joins = {}
  /\ sess \in {"idle", "hello"} => collected = {}

LEMMA QueuedHead ==
  ASSUME TypeOK, chan # <<>>, chan' = Tail(chan)
  PROVE  Queued = Queued' \cup {Head(chan)}
<1>1. PICK n \in Nat : n = Len(chan)
  BY LenProperties DEF TypeOK
<1>2. /\ n # 0 /\ Head(chan) = chan[1] /\ Len(chan') = n - 1
      /\ \A i \in 1..(n - 1) : chan'[i] = chan[i + 1]
  BY <1>1, HeadTailProperties DEF TypeOK
<1>3. ASSUME NEW i \in 1..n PROVE chan[i] \in Queued' \cup {Head(chan)}
  <2>1. CASE i = 1
    BY <1>2, <2>1
  <2>2. CASE i # 1
    <3>1. i - 1 \in 1..(n - 1) /\ (i - 1) + 1 = i
      BY <2>2
    <3>. QED BY <1>2, <3>1 DEF Queued
  <2>. QED BY <2>1, <2>2
<1>4. ASSUME NEW i \in 1..(n - 1) PROVE chan'[i] \in Queued
  <2>1. i + 1 \in 1..n
    OBVIOUS
  <2>. QED BY <1>1, <1>2, <2>1 DEF Queued
<1>5. Head(chan) \in Queued
  <2>1. 1 \in 1..n
    BY <1>2
  <2>. QED BY <1>1, <1>2, <2>1 DEF Queued
<1>. QED BY <1>1, <1>2, <1>3, <1>4, <1>5 DEF Queued

LEMMA JoinHomeInv ==
  ASSUME TypeOK, HomeInv, NEW c \in Conns,
         Connect(c) \/ Ack(c) \/ Register(c) \/ JoinFails(c)
  PROVE  HomeInv'
<1>1. UNCHANGED <<sess, collected>> /\ DOMAIN join = Conns
  BY DEF Connect, Ack, Register, RegisterGathering, RegisterReady, RejectReady, RegisterFirst,
         JoinFails, sessVars, TypeOK
<1>2. chan' = chan => Queued' = Queued
  BY DEF Queued
<1>3. CASE RegisterGathering(c)
  <2>1. PICK R : /\ joins' = (joins \ R) \cup {c}
                 /\ join' = [Closing(R) EXCEPT ![c] = "held"]
    BY <1>3 DEF RegisterGathering
  <2>2. /\ join'[c] = "held"
        /\ \A d \in Conns \ {c} : join'[d] = IF d \in R THEN "closed" ELSE join[d]
    BY <2>1 DEF Closing
  <2>3. Queued' = Queued /\ slot' = "gathering"
    BY <1>2, <1>3 DEF RegisterGathering
  <2>. QED BY <1>1, <2>1, <2>2, <2>3 DEF HomeInv
<1>4. CASE RegisterReady(c)
  <2>1. Queued' = Queued \cup {c}
    BY <1>4, QueuedAppend DEF RegisterReady
  <2>2. joins' = joins /\ slot' = slot /\ join' = [join EXCEPT ![c] = "queued"]
    BY <1>4 DEF RegisterReady
  <2>. QED BY <1>1, <2>1, <2>2 DEF HomeInv
<1>5. CASE RegisterFirst(c)
  <2>1. /\ Queued' = Queued /\ slot' = "gathering" /\ joins' = {c} /\ joins = {}
        /\ join' = [join EXCEPT ![c] = "held"]
    BY <1>2, <1>5 DEF RegisterFirst, HomeInv
  <2>. QED BY <1>1, <2>1 DEF HomeInv
<1>6. CASE Connect(c) \/ Ack(c) \/ RejectReady(c) \/ JoinFails(c)
  <2>1. PICK s \in {"hello", "acked", "closed"} : join' = [join EXCEPT ![c] = s]
    BY <1>6 DEF Connect, Ack, RejectReady, JoinFails
  <2>2. Queued' = Queued /\ joins' = joins /\ slot' = slot
    BY <1>2, <1>6 DEF Connect, Ack, RejectReady, JoinFails, slotVars
  <2>. QED BY <1>1, <2>1, <2>2 DEF HomeInv
<1>. QED BY <1>3, <1>4, <1>5, <1>6 DEF Register

LEMMA SessionHomeInv == TypeOK /\ TimerInv /\ IndexInv /\ HomeInv /\ Session => HomeInv'
<1>. SUFFICES ASSUME TypeOK, TimerInv, IndexInv, HomeInv, Session PROVE HomeInv'
  OBVIOUS
<1>1. DOMAIN join = Conns /\ (chan' = chan => Queued' = Queued)
  BY DEF TypeOK, Queued
<1>2. CASE SessConnect \/ SessFails \/ StopCollecting
  <2>1. /\ UNCHANGED <<join, joins, slot, chan, collected>>
        /\ sess' \in {"idle", "hello"} => sess \in {"idle", "hello"}
    BY <1>2 DEF SessConnect, SessFails, StopCollecting, joinVars, slotVars
  <2>. QED BY <1>1, <2>1 DEF HomeInv
<1>3. CASE Open
  <2>1. /\ sess' = "collecting" /\ joins' = {}
        /\ collected' = { c \in joins : Index[c] < Expected }
        /\ \A c \in Conns : join'[c] = IF c \notin joins THEN join[c]
                              ELSE IF Index[c] < Expected THEN "collected" ELSE "closed"
    BY <1>3 DEF Open
  <2>2. Queued = {} /\ collected = {}
    <3>1. ~ ReceiverAlive /\ sess = "hello"
      BY <1>3 DEF Open, ReceiverAlive
    <3>2. chan = <<>>
      BY <3>1 DEF IndexInv
    <3>. QED BY <3>1, <3>2 DEF Queued, HomeInv
  <2>. QED BY <2>1, <2>2 DEF HomeInv
<1>4. CASE Recv
  <2>1. PICK h : h = Head(chan)
    OBVIOUS
  <2>2. Queued = Queued' \cup {h} /\ joins' = joins /\ slot' = slot /\ sess' = "collecting"
    BY <1>4, <2>1, QueuedHead DEF Recv
  <2>3. \/ collected' = collected \cup {h} /\ join' = [join EXCEPT ![h] = "collected"]
        \/ collected' = collected /\ join' = [join EXCEPT ![h] = "closed"]
    BY <1>4, <2>1 DEF Recv
  <2>. QED BY <1>1, <2>2, <2>3 DEF HomeInv
<1>5. CASE CloseSession
  <2>1. /\ sess' = "relaying" /\ joins' = {} /\ collected' = collected
        /\ \A c \in Conns : join'[c] = IF c \in joins \cup Queued THEN "closed" ELSE join[c]
    BY <1>5 DEF CloseSession, Closing
  <2>. QED BY <2>1 DEF HomeInv
<1>6. CASE SessTimeout
  <2>1. /\ sess' = "cancelled" /\ joins' = joins /\ slot' = slot
        /\ \A c \in Conns : join'[c] = IF c \in collected \cup Queued THEN "closed" ELSE join[c]
    BY <1>6 DEF SessTimeout, Closing
  <2>. QED BY <2>1 DEF HomeInv
<1>7. CASE SessEnds
  <2>1. /\ sess' = "ended" /\ joins' = joins /\ slot' = slot /\ Queued' = Queued
        /\ \A c \in Conns : join'[c] = IF c \in collected THEN "closed" ELSE join[c]
    BY <1>1, <1>7 DEF SessEnds, Closing, slotVars
  <2>. QED BY <2>1 DEF HomeInv
<1>. QED BY <1>2, <1>3, <1>4, <1>5, <1>6, <1>7 DEF Session

LEMMA NextHomeInv == TypeOK /\ TimerInv /\ IndexInv /\ HomeInv /\ [Next]_vars => HomeInv'
<1>. SUFFICES ASSUME TypeOK, TimerInv, IndexInv, HomeInv, [Next]_vars PROVE HomeInv'
  OBVIOUS
<1>1. CASE \E c \in Conns : Connect(c) \/ Ack(c) \/ Register(c) \/ JoinFails(c)
  BY <1>1, JoinHomeInv
<1>2. CASE Session
  BY <1>2, SessionHomeInv
<1>3. CASE Sweep
  <2>1. /\ UNCHANGED <<chan, collected, sess>>
        /\ \/ joins' = {} /\ \A c \in Conns : join'[c] = IF c \in joins THEN "closed"
                                                                      ELSE join[c]
           \/ joins' = joins /\ join' = join /\ slot' = slot
    BY <1>3 DEF Sweep, sessVars, Closing
  <2>2. Queued' = Queued
    BY <2>1 DEF Queued
  <2>. QED BY <2>1, <2>2 DEF HomeInv
<1>4. CASE Gate \/ Tick \/ UNCHANGED vars
  <2>1. UNCHANGED <<join, joins, slot, chan, collected, sess>>
    BY <1>4, GateFrame DEF Tick, vars, joinVars, slotVars, sessVars
  <2>2. Queued' = Queued
    BY <2>1 DEF Queued
  <2>. QED BY <2>1, <2>2 DEF HomeInv
<1>. QED BY <1>1, <1>2, <1>3, <1>4 DEF Next, Session, Gate

-----------------------------------------------------------------------------
(* The mapping: what Collection sees of a state.                            *)

LEMMA Seats ==
  /\ \A s \in {"backlog", "hello", "acked"} : Seat(s) = "away"
  /\ \A s \in {"held", "queued"} : Seat(s) = "offered"
  /\ Seat("collected") = "member" /\ Seat("closed") = "gone"
<1>1. Seat("backlog") = "away" /\ Seat("hello") = "away" /\ Seat("acked") = "away"
  BY DEF Seat
<1>2. Seat("held") = "offered" /\ Seat("queued") = "offered"
  BY DEF Seat
<1>3. Seat("collected") = "member" /\ Seat("closed") = "gone"
  BY DEF Seat
<1>. QED BY <1>1, <1>2, <1>3

LEMMA Stages ==
  /\ Stage("idle") = "before" /\ Stage("hello") = "before"
  /\ Stage("collecting") = "open"
  /\ Stage("closing") = "settled" /\ Stage("relaying") = "settled"
  /\ Stage("ended") = "over" /\ Stage("cancelled") = "over"
  BY DEF Stage

SeenInv == TypeOK /\ TimerInv /\ IndexInv /\ PlaceInv /\ HomeInv

LEMMA Seen ==
  ASSUME SeenInv
  PROVE  /\ CL!At("offered") = joins \cup Queued
         /\ CL!At("member") = collected
         /\ \A c \in Conns : join[c] \in {"backlog", "hello", "acked"} => c \in CL!At("away")
<1>1. \A c \in Conns : Place[c] = Seat(join[c]) /\ join[c] \in JoinStates
  BY DEF Place, SeenInv, TypeOK, JoinStates
<1>2. \A c \in Conns : /\ Place[c] = "offered" <=> join[c] \in {"held", "queued"}
                       /\ Place[c] = "member" <=> join[c] = "collected"
                       /\ join[c] \in {"backlog", "hello", "acked"} => Place[c] = "away"
  BY <1>1, Seats DEF JoinStates
<1>3. joins \subseteq Conns /\ Queued \subseteq Conns /\ collected \subseteq Conns
  BY DEF SeenInv, TypeOK, Queued
<1>. QED BY <1>2, <1>3 DEF CL!At, SeenInv, PlaceInv, HomeInv

(* A step that sends the connections of S to where, and no other.           *)
LEMMA SeatsMoved ==
  ASSUME NEW S, NEW where,
         \A c \in Conns : IF c \in S THEN Seat(join'[c]) = where ELSE join'[c] = join[c]
  PROVE  Place' = CL!Moved(S, where)
<1>1. \A c \in Conns : Seat(join'[c]) = IF c \in S THEN where ELSE Place[c]
  BY DEF Place
<1>2. Place' = [c \in Conns |-> Seat(join'[c])]
  BY DEF Place
<1>. QED BY <1>1, <1>2 DEF CL!Moved

LEMMA Unseen ==
  ASSUME \A c \in Conns : Seat(join'[c]) = Seat(join[c]), Stage(sess') = Stage(sess)
  PROVE  UNCHANGED CL!collectionVars
  BY DEF Place, CL!collectionVars

(* A connection takes its place.                                            *)
LEMMA JoinImplements ==
  ASSUME SeenInv, NEW c \in Conns,
         Connect(c) \/ Ack(c) \/ Register(c) \/ JoinFails(c)
  PROVE  UNCHANGED CL!collectionVars \/ CL!Refuse(c) \/ CL!Offer(c)
<1>1. UNCHANGED sess /\ DOMAIN join = Conns /\ join[c] \in {"backlog", "hello", "acked"}
  BY DEF Connect, Ack, Register, RegisterGathering, RegisterReady, RejectReady, RegisterFirst,
         JoinFails, sessVars, SeenInv, TypeOK
<1>2. c \in CL!At("away")
  BY <1>1, Seen
<1>3. Stage(sess) = "open" => sess = "collecting"
  BY Stages DEF SeenInv, TypeOK
<1>4. CASE Connect(c) \/ Ack(c)
  <2>1. PICK s \in {"hello", "acked"} : join' = [join EXCEPT ![c] = s]
    BY <1>4 DEF Connect, Ack
  <2>2. \A d \in Conns : Seat(join'[d]) = Seat(join[d])
    BY <1>1, <2>1, Seats
  <2>. QED BY <1>1, <2>2, Unseen
<1>5. CASE RejectReady(c) \/ JoinFails(c)
  <2>1. join' = [join EXCEPT ![c] = "closed"]
    BY <1>5 DEF RejectReady, JoinFails
  <2>2. \A d \in Conns : IF d \in {c} THEN Seat(join'[d]) = "gone" ELSE join'[d] = join[d]
    BY <1>1, <2>1, Seats
  <2>3. Place' = CL!Moved({c}, "gone")
    BY <2>2, SeatsMoved
  <2>. QED BY <1>1, <1>2, <2>3 DEF CL!Refuse
<1>6. ASSUME NEW old \in SUBSET CL!SameIndex(c, CL!At("offered")), NEW s \in {"held", "queued"},
             join' = [Closing(old) EXCEPT ![c] = s],
             Stage(sess) = "open" =>
               CL!SameIndex(c, CL!At("offered") \cup CL!At("member")) = {}
      PROVE  CL!Offer(c)
  <2>1. \A d \in Conns : Seat(join'[d]) = IF d = c THEN "offered"
                                         ELSE IF d \in old THEN "gone" ELSE Place[d]
    BY <1>6, Seats DEF Closing, Place
  <2>2. Place' = [d \in Conns |-> Seat(join'[d])]
    BY DEF Place
  <2>3. Place' = [CL!Moved(old, "gone") EXCEPT ![c] = "offered"]
    BY <2>1, <2>2 DEF CL!Moved
  <2>. QED BY <1>1, <1>2, <1>6, <2>3 DEF CL!Offer
<1>7. CASE RegisterGathering(c)
  <2>1. PICK old : /\ old = { d \in joins : Index[d] = Index[c] }
                   /\ join' = [Closing(old) EXCEPT ![c] = "held"]
    BY <1>7 DEF RegisterGathering
  <2>2. old \in SUBSET CL!SameIndex(c, CL!At("offered"))
    BY <2>1, Seen DEF CL!SameIndex
  <2>3. Stage(sess) # "open"
    BY <1>3, <1>7 DEF RegisterGathering, SeenInv, TimerInv
  <2>. QED BY <1>6, <2>1, <2>2, <2>3
<1>8. CASE RegisterFirst(c)
  <2>1. Closing({}) = join
    BY DEF Closing, SeenInv, TypeOK
  <2>2. Stage(sess) # "open"
    BY <1>3, <1>8 DEF RegisterFirst, SeenInv, TimerInv
  <2>. QED BY <1>6, <1>8, <2>1, <2>2 DEF RegisterFirst
<1>9. CASE RegisterReady(c)
  <2>1. Closing({}) = join
    BY DEF Closing, SeenInv, TypeOK
  <2>2. /\ slot = "ready" /\ Index[c] \notin joined /\ ReceiverAlive
        /\ join' = [join EXCEPT ![c] = "queued"]
    BY <1>9 DEF RegisterReady, Admits
  <2>3. \A d \in joins \cup Queued \cup collected : Index[d] \in joined
    BY <2>2 DEF SeenInv, HomeInv, IndexInv, Queued, Positions, Sent
  <2>4. CL!SameIndex(c, CL!At("offered") \cup CL!At("member")) = {}
    BY <2>2, <2>3, Seen DEF CL!SameIndex
  <2>. QED BY <1>6, <2>1, <2>2, <2>4
<1>. QED BY <1>4, <1>5, <1>7, <1>8, <1>9 DEF Register

(* The session opens, takes, settles and ends.                              *)
LEMMA SessionImplements ==
  ASSUME SeenInv, Session
  PROVE  UNCHANGED CL!collectionVars \/ CL!CollectionNext
<1>1. /\ joins \subseteq Conns /\ Queued \subseteq Conns /\ collected \subseteq Conns
      /\ DOMAIN join = Conns
  BY DEF SeenInv, TypeOK, Queued
<1>2. CASE SessConnect
  BY <1>2, Stages, Unseen DEF SessConnect, joinVars
<1>3. CASE StopCollecting
  <2>1. Place' = Place /\ Stage(sess) = "open" /\ Stage(sess') = "settled"
    BY <1>3, Stages DEF StopCollecting, joinVars, Place
  <2>. QED BY <2>1 DEF CL!Settle, CL!CollectionNext
<1>4. CASE Open
  <2>1. /\ sess = "hello" /\ sess' = "collecting"
        /\ \A c \in Conns : join'[c] = IF c \notin joins THEN join[c]
                              ELSE IF Index[c] < Expected THEN "collected" ELSE "closed"
    BY <1>4 DEF Open
  <2>2. CL!At("offered") = joins
    <3>1. chan = <<>>
      BY <2>1 DEF SeenInv, IndexInv, ReceiverAlive
    <3>2. Queued = {}
      BY <3>1 DEF Queued
    <3>. QED BY <3>2, Seen
  <2>3. \A c \in CL!At("offered") : CL!SameIndex(c, CL!At("offered")) = {c}
    BY <2>2 DEF SeenInv, IndexInv, Distinct, CL!SameIndex
  <2>4. \A c \in Conns : Seat(join'[c]) = IF c \notin joins THEN Place[c]
                                         ELSE IF CL!Usable(c) THEN "member" ELSE "gone"
    BY <2>1, Seats DEF Place, CL!Usable
  <2>5. Place' = [c \in Conns |-> Seat(join'[c])]
    BY DEF Place
  <2>6. Place' = [c \in Conns |-> IF c \notin CL!At("offered") THEN Place[c]
                                 ELSE IF CL!Usable(c) THEN "member" ELSE "gone"]
    BY <2>2, <2>4, <2>5
  <2>. QED BY <2>1, <2>3, <2>6, Stages DEF CL!Open, CL!CollectionNext
<1>5. CASE Recv
  <2>1. PICK c \in Conns : c = Head(chan) /\ c \in Queued
    BY <1>5, QueuedTail DEF Recv, SeenInv
  <2>2. /\ sess = "collecting" /\ sess' = sess
        /\ join' = [join EXCEPT ![c] = IF Index[c] < Expected THEN "collected" ELSE "closed"]
    BY <1>5, <2>1 DEF Recv
  <2>3. c \in CL!At("offered")
    BY <2>1, Seen
  <2>4. CASE CL!Usable(c)
    <3>1. \A d \in Conns : IF d \in {c} THEN Seat(join'[d]) = "member" ELSE join'[d] = join[d]
      BY <1>1, <2>2, <2>4, Seats DEF CL!Usable
    <3>2. Place' = CL!Moved({c}, "member")
      BY <3>1, SeatsMoved
    <3>3. CL!SameIndex(c, CL!At("member")) = {}
      <4>1. \A d \in collected : Index[d] # Index[c]
        BY <2>1 DEF SeenInv, IndexInv, Queued, Positions, Sent
      <4>. QED BY <4>1, Seen DEF CL!SameIndex
    <3>. QED BY <2>2, <2>3, <2>4, <3>2, <3>3, Stages DEF CL!Take, CL!CollectionNext
  <2>5. CASE ~ CL!Usable(c)
    <3>1. \A d \in Conns : IF d \in {c} THEN Seat(join'[d]) = "gone" ELSE join'[d] = join[d]
      BY <1>1, <2>2, <2>5, Seats DEF CL!Usable
    <3>2. Place' = CL!Moved({c}, "gone")
      BY <3>1, SeatsMoved
    <3>. QED BY <2>2, <2>3, <2>5, <3>2 DEF CL!Discard, CL!CollectionNext
  <2>. QED BY <2>4, <2>5
<1>6. CASE CloseSession
  <2>1. \A d \in Conns : IF d \in joins \cup Queued THEN Seat(join'[d]) = "gone"
                                                  ELSE join'[d] = join[d]
    BY <1>6, Seats DEF CloseSession, Closing
  <2>2. Place' = CL!Moved(joins \cup Queued, "gone")
    BY <2>1, SeatsMoved
  <2>3. Stage(sess) = "settled" /\ Stage(sess') = "settled"
    BY <1>6, Stages DEF CloseSession
  <2>. QED BY <2>2, <2>3, Seen DEF CL!Discard, CL!CollectionNext
<1>7. CASE SessTimeout \/ SessFails \/ SessEnds
  <2>1. PICK S \in SUBSET Queued :
          \A c \in Conns : IF c \in S \cup collected THEN Seat(join'[c]) = "gone"
                                                 ELSE join'[c] = join[c]
    <3>1. CASE SessTimeout
      <4>1. \A c \in Conns : IF c \in Queued \cup collected THEN Seat(join'[c]) = "gone"
                                                         ELSE join'[c] = join[c]
        BY <3>1, Seats DEF SessTimeout, Closing
      <4>. QED BY <4>1
    <3>2. CASE SessFails
      <4>1. collected = {} /\ join' = join
        BY <3>2 DEF SessFails, joinVars, SeenInv, HomeInv
      <4>. QED BY <4>1
    <3>3. CASE SessEnds
      <4>1. \A c \in Conns : IF c \in {} \cup collected THEN Seat(join'[c]) = "gone"
                                                     ELSE join'[c] = join[c]
        BY <3>3, Seats DEF SessEnds, Closing
      <4>. QED BY <4>1
    <3>. QED BY <1>7, <3>1, <3>2, <3>3
  <2>2. Place' = CL!Moved(S \cup collected, "gone")
    BY <2>1, SeatsMoved
  <2>3. Stage(sess) # "over" /\ Stage(sess') = "over"
    BY <1>7, Stages DEF SessTimeout, SessFails, SessEnds, Handshaking
  <2>. QED BY <2>2, <2>3, Seen DEF CL!End, CL!CollectionNext
<1>. QED BY <1>2, <1>3, <1>4, <1>5, <1>6, <1>7 DEF Session

LEMMA StepCollects ==
  SeenInv /\ [Next]_vars => [CL!CollectionNext]_(CL!collectionVars)
<1>. SUFFICES ASSUME SeenInv, [Next]_vars
              PROVE  UNCHANGED CL!collectionVars \/ CL!CollectionNext
  OBVIOUS
<1>1. CASE \E c \in Conns : Connect(c) \/ Ack(c) \/ Register(c) \/ JoinFails(c)
  BY <1>1, JoinImplements DEF CL!CollectionNext
<1>2. CASE Session
  BY <1>2, SessionImplements
<1>3. CASE Sweep
  <2>1. /\ UNCHANGED sess
        /\ \/ \A c \in Conns : join'[c] = IF c \in joins THEN "closed" ELSE join[c]
           \/ join' = join
    BY <1>3 DEF Sweep, sessVars, Closing
  <2>2. CASE \A c \in Conns : join'[c] = IF c \in joins THEN "closed" ELSE join[c]
    <3>1. \A c \in Conns : IF c \in joins THEN Seat(join'[c]) = "gone" ELSE join'[c] = join[c]
      BY <2>2, Seats
    <3>2. Place' = CL!Moved(joins, "gone")
      BY <3>1, SeatsMoved
    <3>3. Stage(sess) = "open" => joins = {}
      BY Stages DEF SeenInv, TypeOK, TimerInv, HomeInv
    <3>. QED BY <2>1, <3>2, <3>3, Seen DEF CL!Discard, CL!CollectionNext
  <2>3. CASE join' = join
    BY <2>1, <2>3, Unseen
  <2>. QED BY <2>1, <2>2, <2>3
<1>4. CASE Gate \/ Tick \/ UNCHANGED vars
  <2>1. UNCHANGED <<join, sess>>
    BY <1>4, GateFrame DEF Tick, vars, joinVars, sessVars
  <2>. QED BY <2>1, Unseen
<1>. QED BY <1>1, <1>2, <1>3, <1>4 DEF Next, Session, Gate

(* The registry with its slots, its channel, its sweeper and its timeouts   *)
(* collects the connections of a session as Collection says, for every set  *)
(* of connections, every assignment of indexes and all time limits.         *)
THEOREM RegistryImplementsCollection == Spec => ImplementsCollection
<1>1. Init => CL!CollectionInit
  <2>. SUFFICES ASSUME Init PROVE CL!CollectionInit
    OBVIOUS
  <2>1. \A c \in Conns : Seat(join[c]) = "away"
    BY Seats DEF Init
  <2>2. Stage(sess) = "before"
    BY Stages DEF Init
  <2>. QED BY <2>1, <2>2 DEF CL!CollectionInit, Place
<1>2. Init => HomeInv
  <2>. SUFFICES ASSUME Init PROVE HomeInv
    OBVIOUS
  <2>. QED BY DEF Init, HomeInv
<1>3. TypeOK /\ TimerInv /\ IndexInv /\ HomeInv /\ [Next]_vars => HomeInv'
  BY NextHomeInv
<1>4. TypeOK /\ TimerInv /\ IndexInv /\ PlaceInv /\ HomeInv => SeenInv
  BY DEF SeenInv
<1>5. SeenInv /\ [Next]_vars => [CL!CollectionNext]_(CL!collectionVars)
  BY StepCollects
<1>. QED
  BY <1>1, <1>2, <1>3, <1>4, <1>5, PlacesHold, TimersHold, PTL
     DEF Spec, ImplementsCollection, CL!CollectionSpec
=============================================================================
