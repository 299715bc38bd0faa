--------------------------- MODULE StripingProofs ---------------------------
(***************************************************************************)
(* Theorems about Striping, for every number of subflows, every capacity,  *)
(* window and chunk size, and every set of connections that may fail.      *)
(***************************************************************************)
EXTENDS Striping, SequenceTheorems, TLAPS

(* Every type below is preserved because an action only moves frames from   *)
(* one sequence to another or builds one from the numbers it has.           *)
LEMMA SubflowsFacts == 0 \in Subflows /\ Subflows \subseteq Nat /\ Joins \subseteq Subflows
  BY SizesAssumption DEF Subflows, Joins

LEMMA FrameFacts ==
  /\ \A o, m \in Nat : Data(o, m) \in Frame /\ Fin(o) \in Frame
  /\ \A f \in Frame : Bytes(f) \subseteq Nat
  BY DEF Data, Fin, Frame, Bytes

LEMMA InitTypeOK == Init => TypeOK
  BY SubflowsFacts DEF Init, TypeOK, Stages, Attempt, NoAttempt

LEMMA EncodeTypeOK ==
  ASSUME TypeOK, NEW m \in BOOLEAN, Encode(m) PROVE TypeOK'
  BY FrameFacts DEF TypeOK, Stages, Encode, writerVars, creditVars, clientVars

LEMMA DownloadTypeOK == TypeOK /\ Download => TypeOK'
<1> SUFFICES ASSUME TypeOK, Download PROVE TypeOK'
  OBVIOUS
<1> USE DEF TypeOK, Stages, downloadVars, writerVars, creditVars, clientVars
<1>1. CASE SeeDead
  BY <1>1 DEF SeeDead
<1>2. CASE ReadTarget
  BY <1>2 DEF ReadTarget
<1>3. CASE ReadEof
  BY <1>3 DEF ReadEof
<1>4. CASE ReadError
  BY <1>4 DEF ReadError
<1>5. CASE CreditPass
  BY <1>5, EncodeTypeOK DEF CreditPass
<1>6. CASE CreditStall
  BY <1>6 DEF CreditStall
<1>7. CASE CreditWake
  BY <1>7 DEF CreditWake
<1>8. CASE CreditGiveUp
  BY <1>8, EncodeTypeOK DEF CreditGiveUp
<1>9. CASE ScanQueue
  <2>1. k \in Subflows
    BY <1>9, SizesAssumption DEF ScanQueue, Subflows
  <2>2. load' \in Nat /\ best' \in Subflows /\ k' \in Nat
    BY <1>9, <2>1 DEF ScanQueue
  <2> QED BY <1>9, <2>1, <2>2 DEF ScanQueue
<1>10. CASE ScanDone
  <2>1. queued' \in [Subflows -> 0..UsizeMax]
    BY <1>10, SizesAssumption DEF ScanDone
  <2> QED BY <1>10, <2>1 DEF ScanDone
<1>11. CASE Send
  <2>1. chan' \in [Subflows -> Seq(Frame)]
    BY <1>11 DEF Send
  <2>2. item' \in Seq(Frame) /\ best' \in Subflows
    BY <1>11, SubflowsFacts DEF Send
  <2> QED BY <2>1, <2>2, <1>11 DEF Send
<1>12. CASE SendClosed
  <2>1. pc' \in Stages /\ result' = "err" /\ item' \in Seq(Frame) /\ n' \in Nat
    BY <1>12 DEF SendClosed
  <2>2. best' \in Subflows
    BY <1>12, SubflowsFacts DEF SendClosed
  <2> QED BY <1>12, <2>1, <2>2 DEF SendClosed
<1>13. CASE SendFin
  <2>1. k \in Subflows
    BY <1>13, SizesAssumption DEF SendFin, Subflows
  <2>2. chan' \in [Subflows -> Seq(Frame)]
    <3>1. Fin(offset) \in Frame
      BY FrameFacts
    <3>2. Append(chan[k], Fin(offset)) \in Seq(Frame)
      BY <2>1, <3>1
    <3> QED BY <1>13, <2>1, <3>2 DEF SendFin
  <2>3. k' \in Nat
    BY <1>13 DEF SendFin
  <2> QED BY <2>2, <2>3, <1>13 DEF SendFin
<1>14. CASE FinsSent
  BY <1>14 DEF FinsSent
<1>15. CASE JoinWriters
  BY <1>15 DEF JoinWriters
<1> QED
  BY <1>1, <1>2, <1>3, <1>4, <1>5, <1>6, <1>7, <1>8, <1>9, <1>10, <1>11,
     <1>12, <1>13, <1>14, <1>15 DEF Download

LEMMA UploadTypeOK == TypeOK /\ (UploadCloses \/ UploadFails) => TypeOK'
<1> USE DEF TypeOK, downloadVars, writerVars, creditVars, clientVars
<1>1. TypeOK /\ UploadCloses => TypeOK'
  BY DEF UploadCloses
<1>2. ASSUME TypeOK, UploadFails PROVE TypeOK'
  <2>1. pc' \in Stages /\ item' \in Seq(Frame)
    BY <1>2 DEF UploadFails, Stages
  <2> QED BY <1>2, <2>1 DEF UploadFails
<1> QED BY <1>1, <1>2

LEMMA WriterTypeOK ==
  ASSUME TypeOK, NEW i \in Subflows, Writer(i) \/ WriterFail(i) PROVE TypeOK'
<1> USE DEF TypeOK, downloadVars, writerVars, creditVars, clientVars
<1>1. CASE WriterRecv(i)
  <2>1. Head(chan[i]) \in Frame /\ Tail(chan[i]) \in Seq(Frame)
    BY <1>1 DEF WriterRecv
  <2>2. <<Head(chan[i])>> \in Seq(Frame)
    BY <2>1
  <2> QED BY <1>1, <2>1, <2>2 DEF WriterRecv
<1>2. CASE WriterWrite(i)
  <2>1. wire[i] \o cur[i] \in Seq(Frame)
    OBVIOUS
  <2>2. queued' \in [Subflows -> 0..UsizeMax]
    BY <1>2, SizesAssumption DEF WriterWrite
  <2>3. wire' \in [Subflows -> Seq(Frame)] /\ cur' \in [Subflows -> Seq(Frame)]
    BY <1>2, <2>1 DEF WriterWrite
  <2> QED BY <1>2, <2>2, <2>3 DEF WriterWrite
<1>3. CASE WriterDrained(i)
  BY <1>3 DEF WriterDrained
<1>4. CASE WriterExit(i)
  BY <1>4 DEF WriterExit
<1>5. CASE WriterFail(i)
  <2>1. wire' \in [Subflows -> Seq(Frame)]
    <3>1. PICK m \in 0..Len(wire[i]) : wire' = [wire EXCEPT ![i] = SubSeq(@, 1, m)]
      BY <1>5 DEF WriterFail
    <3>2. SubSeq(wire[i], 1, m) \in Seq(Frame)
      OBVIOUS
    <3> QED BY <3>1, <3>2
  <2>2. cur' \in [Subflows -> Seq(Frame)]
    BY <1>5 DEF WriterFail
  <2> QED BY <1>5, <2>1, <2>2 DEF WriterFail
<1> QED
  BY <1>1, <1>2, <1>3, <1>4, <1>5 DEF Writer

LEMMA TryTypeOK ==
  ASSUME TypeOK, NEW i \in Joins, NEW reported \in Nat, Try(i, reported, consumed)
  PROVE  /\ reader' \in [Joins -> {"read", "swap", "enable", "notify", "done"}]
         /\ attempt' \in [Joins -> Attempt]
  BY DEF TypeOK, Try, Attempt, NoAttempt

LEMMA ReaderTypeOK ==
  ASSUME TypeOK, NEW i \in Joins, Reader(i) \/ ReaderExit(i) \/ ClientReport(i)
  PROVE  TypeOK'
<1> USE DEF TypeOK, downloadVars, writerVars, creditVars, clientVars
<1>1. CASE ReaderLoad(i)
  <2>1. Head(up[i]) \in Nat /\ Tail(up[i]) \in Seq(Nat)
    BY <1>1 DEF ReaderLoad
  <2>2. up' \in [Joins -> Seq(Nat)]
    BY <1>1, <2>1 DEF ReaderLoad
  <2>3. /\ reader' \in [Joins -> {"read", "swap", "enable", "notify", "done"}]
        /\ attempt' \in [Joins -> Attempt]
    BY <1>1, <2>1, TryTypeOK DEF ReaderLoad
  <2> QED BY <1>1, <2>2, <2>3 DEF ReaderLoad
<1>6. CASE ReaderSwap(i)
  <2>1. attempt[i].reported \in Nat /\ NoAttempt \in Attempt
    BY DEF Attempt, NoAttempt
  <2>2. CASE consumed # attempt[i].current
    <3>1. /\ reader' \in [Joins -> {"read", "swap", "enable", "notify", "done"}]
          /\ attempt' \in [Joins -> Attempt]
      BY <1>6, <2>1, <2>2, TryTypeOK DEF ReaderSwap
    <3> QED BY <1>6, <2>2, <3>1 DEF ReaderSwap
  <2>3. CASE consumed = attempt[i].current
    BY <1>6, <2>1, <2>3 DEF ReaderSwap
  <2> QED BY <2>2, <2>3
<1>2. CASE ReaderEnable(i)
  BY <1>2 DEF ReaderEnable
<1>3. CASE ReaderNotify(i)
  BY <1>3 DEF ReaderNotify
<1>4. CASE ReaderExit(i)
  BY <1>4 DEF ReaderExit
<1>5. CASE ClientReport(i)
  <2>1. Append(up[i], taken) \in Seq(Nat)
    OBVIOUS
  <2> QED BY <1>5, <2>1 DEF ClientReport
<1> QED
  BY <1>1, <1>2, <1>3, <1>4, <1>5, <1>6 DEF Reader

LEMMA ReceiveTypeOK ==
  ASSUME TypeOK, NEW i \in Subflows, ClientReceive(i) PROVE TypeOK'
<1> USE DEF TypeOK, downloadVars, writerVars, creditVars, clientVars
<1>1. Head(wire[i]) \in Frame /\ Tail(wire[i]) \in Seq(Frame)
  BY DEF ClientReceive
<1>2. Bytes(Head(wire[i])) \subseteq Nat /\ Head(wire[i]).off \in Nat
  BY <1>1, FrameFacts DEF Frame
<1>3. got' \subseteq Nat /\ finals' \subseteq Nat
  BY <1>2 DEF ClientReceive
<1>4. wire' \in [Subflows -> Seq(Frame)]
  BY <1>1 DEF ClientReceive
<1> QED BY <1>3, <1>4 DEF ClientReceive

LEMMA NextTypeOK == TypeOK /\ [Next]_vars => TypeOK'
<1> SUFFICES ASSUME TypeOK, [Next]_vars PROVE TypeOK'
  OBVIOUS
<1>1. CASE Download
  BY <1>1, DownloadTypeOK
<1>2. CASE UploadCloses \/ UploadFails
  BY <1>2, UploadTypeOK
<1>3. CASE \E i \in Subflows : Writer(i) \/ WriterFail(i)
  BY <1>3, WriterTypeOK
<1>4. CASE \E i \in Subflows : ClientReceive(i)
  BY <1>4, ReceiveTypeOK
<1>5. CASE \E i \in Joins : Reader(i) \/ ReaderExit(i) \/ ClientReport(i)
  BY <1>5, ReaderTypeOK
<1>6. CASE ClientTake
  BY <1>6 DEF ClientTake, TypeOK, downloadVars, writerVars, creditVars
<1>7. CASE Done \/ UNCHANGED vars
  BY <1>7 DEF Done, TypeOK, vars, downloadVars, writerVars, creditVars, clientVars
<1> QED
  BY <1>1, <1>2, <1>3, <1>4, <1>5, <1>6, <1>7 DEF Next

(* Type correctness: no counter, queue or frame of the relay ever leaves    *)
(* its type, for every size the constants allow; in particular the queued   *)
(* counters stay machine words although a FIN decrements them below zero.   *)
THEOREM TypeCorrect == Spec => []TypeOK
<1>1. Init => TypeOK
  BY InitTypeOK
<1>2. TypeOK /\ [Next]_vars => TypeOK'
  BY NextTypeOK
<1> QED
  BY <1>1, <1>2, PTL DEF Spec

-----------------------------------------------------------------------------
(* Nothing on its way lies beyond the offset, and nothing reported beyond   *)
(* what was taken: the strengthening of CreditSound that is inductive.  It  *)
(* is stated with the types of the sequences, so that taking a head, a tail *)
(* or a part of one keeps it.                                               *)
FrameUpTo(o) == { f \in Frame : f.off + f.len <= o }

WithinOffset ==
  /\ item \in Seq(FrameUpTo(offset))
  /\ chan \in [Subflows -> Seq(FrameUpTo(offset))]
  /\ cur \in [Subflows -> Seq(FrameUpTo(offset))]
  /\ wire \in [Subflows -> Seq(FrameUpTo(offset))]
  /\ \A b \in got : b < offset

WithinTaken ==
  /\ up \in [Joins -> Seq(0..taken)]
  /\ \A i \in Joins : attempt[i].reported <= taken
  /\ CreditSound

(* A reader only tries to exchange the count for a larger one.              *)
Raising ==
  \A i \in Joins :
    reader[i] = "swap" => attempt[i].current < attempt[i].reported

(* A sequence over a set is one over every larger set.                      *)
LEMMA SeqMonotone ==
  ASSUME NEW S, NEW T, S \subseteq T, NEW s \in Seq(S) PROVE s \in Seq(T)
  OBVIOUS

LEMMA SeqFunMonotone ==
  ASSUME NEW D, NEW S, NEW T, S \subseteq T, NEW f \in [D -> Seq(S)]
  PROVE  f \in [D -> Seq(T)]
  BY SeqMonotone

LEMMA FrameUpToFacts ==
  /\ \A o \in Nat : Fin(o) \in FrameUpTo(o)
  /\ \A o, m \in Nat : /\ Data(o, m) \in FrameUpTo(o + m)
                      /\ FrameUpTo(o) \subseteq FrameUpTo(o + m)
  /\ \A o \in Nat : \A f \in FrameUpTo(o) : \A b \in Bytes(f) : b < o
  BY DEF FrameUpTo, Frame, Data, Fin, Bytes

LEMMA EncodeWithin ==
  ASSUME TypeOK, WithinOffset, NEW m, Encode(m) PROVE WithinOffset'
<1> USE DEF TypeOK, WithinOffset, Encode, writerVars, clientVars
<1>1. offset' \in Nat /\ FrameUpTo(offset) \subseteq FrameUpTo(offset')
  BY FrameUpToFacts
<1>2. item' \in Seq(FrameUpTo(offset'))
  BY FrameUpToFacts
<1>3. chan' \in [Subflows -> Seq(FrameUpTo(offset'))]
  BY <1>1, SeqFunMonotone
<1>4. cur' \in [Subflows -> Seq(FrameUpTo(offset'))]
  BY <1>1, SeqFunMonotone
<1>5. wire' \in [Subflows -> Seq(FrameUpTo(offset'))]
  BY <1>1, SeqFunMonotone
<1>6. \A b \in got' : b < offset'
  OBVIOUS
<1> QED BY <1>2, <1>3, <1>4, <1>5, <1>6

LEMMA DownloadWithin == TypeOK /\ WithinOffset /\ Download => WithinOffset'
<1> SUFFICES ASSUME TypeOK, WithinOffset, Download PROVE WithinOffset'
  OBVIOUS
<1> USE DEF WithinOffset, writerVars, clientVars
<1>1. CASE CreditPass
  BY <1>1, EncodeWithin DEF CreditPass
<1>2. CASE CreditGiveUp
  BY <1>2, EncodeWithin DEF CreditGiveUp
<1>3. CASE SeeDead \/ ReadTarget \/ ReadEof \/ ReadError \/ CreditStall
             \/ CreditWake \/ FinsSent \/ JoinWriters
  <2> USE DEF creditVars
  <2>1. CASE SeeDead \/ ReadTarget \/ ReadEof \/ ReadError
    BY <2>1 DEF SeeDead, ReadTarget, ReadEof, ReadError
  <2>2. CASE CreditStall \/ CreditWake \/ FinsSent \/ JoinWriters
    BY <2>2 DEF CreditStall, CreditWake, FinsSent, JoinWriters
  <2> QED BY <1>3, <2>1, <2>2
<1>4. CASE ScanQueue \/ ScanDone \/ SendClosed
  <2>1. CASE ScanQueue
    BY <2>1 DEF ScanQueue
  <2>2. CASE ScanDone
    BY <2>2 DEF ScanDone
  <2>3. CASE SendClosed
    BY <2>3 DEF SendClosed
  <2> QED BY <1>4, <2>1, <2>2, <2>3
<1>5. CASE Send
  <2>1. best \in Subflows /\ chan[best] \o item \in Seq(FrameUpTo(offset))
    BY DEF TypeOK
  <2> QED BY <1>5, <2>1 DEF Send
<1>6. CASE SendFin
  <2>1. k \in Subflows
    BY <1>6, SizesAssumption DEF SendFin, Subflows, TypeOK
  <2>2. Append(chan[k], Fin(offset)) \in Seq(FrameUpTo(offset))
    BY <2>1, FrameUpToFacts DEF TypeOK
  <2> QED BY <1>6, <2>1, <2>2 DEF SendFin
<1> QED
  BY <1>1, <1>2, <1>3, <1>4, <1>5, <1>6 DEF Download

LEMMA OthersWithin ==
  ASSUME TypeOK, WithinOffset, NEW i \in Subflows,
         Writer(i) \/ WriterFail(i) \/ ClientReceive(i)
  PROVE  WithinOffset'
<1> USE DEF WithinOffset, downloadVars, clientVars
<1>1. CASE WriterRecv(i)
  <2>1. Head(chan[i]) \in FrameUpTo(offset)
          /\ Tail(chan[i]) \in Seq(FrameUpTo(offset))
    BY <1>1 DEF WriterRecv
  <2>2. <<Head(chan[i])>> \in Seq(FrameUpTo(offset))
    BY <2>1
  <2> QED BY <1>1, <2>1, <2>2 DEF WriterRecv
<1>2. CASE WriterWrite(i)
  <2>1. wire[i] \o cur[i] \in Seq(FrameUpTo(offset))
    OBVIOUS
  <2> QED BY <1>2, <2>1 DEF WriterWrite
<1>3. CASE WriterDrained(i) \/ WriterExit(i)
  <2>1. CASE WriterDrained(i)
    BY <2>1 DEF WriterDrained
  <2>2. CASE WriterExit(i)
    BY <2>2 DEF WriterExit
  <2> QED BY <1>3, <2>1, <2>2
<1>4. CASE WriterFail(i)
  <2>1. PICK m \in 0..Len(wire[i]) : wire' = [wire EXCEPT ![i] = SubSeq(@, 1, m)]
    BY <1>4 DEF WriterFail
  <2>2. SubSeq(wire[i], 1, m) \in Seq(FrameUpTo(offset))
    OBVIOUS
  <2>3. wire' \in [Subflows -> Seq(FrameUpTo(offset))]
    BY <2>1, <2>2
  <2> QED BY <1>4, <2>3 DEF WriterFail
<1>5. CASE ClientReceive(i)
  <2>1. Head(wire[i]) \in FrameUpTo(offset)
          /\ Tail(wire[i]) \in Seq(FrameUpTo(offset))
    BY <1>5 DEF ClientReceive
  <2>2. \A b \in got' : b < offset
    BY <1>5, <2>1, FrameUpToFacts DEF ClientReceive, TypeOK
  <2> QED BY <1>5, <2>1, <2>2 DEF ClientReceive, writerVars
<1> QED
  BY <1>1, <1>2, <1>3, <1>4, <1>5 DEF Writer

LEMMA NextWithin == TypeOK /\ WithinOffset /\ [Next]_vars => WithinOffset'
<1> SUFFICES ASSUME TypeOK, WithinOffset, [Next]_vars PROVE WithinOffset'
  OBVIOUS
<1>1. CASE Download
  BY <1>1, DownloadWithin
<1>2. CASE \E i \in Subflows : Writer(i) \/ WriterFail(i) \/ ClientReceive(i)
  BY <1>2, OthersWithin
<1>3. CASE UploadCloses \/ UploadFails
  <2> USE DEF WithinOffset, downloadVars, writerVars, clientVars
  <2>1. CASE UploadCloses
    BY <2>1 DEF UploadCloses
  <2>2. CASE UploadFails
    BY <2>2 DEF UploadFails
  <2> QED BY <1>3, <2>1, <2>2
<1>4. ASSUME NEW i \in Joins, Reader(i) \/ ReaderExit(i) \/ ClientReport(i)
      PROVE  WithinOffset'
  <2> USE DEF WithinOffset, downloadVars, writerVars, clientVars
  <2>1. CASE Reader(i)
    BY <2>1 DEF Reader, ReaderLoad, ReaderSwap, ReaderEnable, ReaderNotify
  <2>2. CASE ReaderExit(i) \/ ClientReport(i)
    BY <2>2 DEF ReaderExit, ClientReport
  <2> QED BY <1>4, <2>1, <2>2
<1>5. CASE ClientTake \/ Done \/ UNCHANGED vars
  BY <1>5 DEF ClientTake, Done, vars, WithinOffset, downloadVars, writerVars,
              clientVars
<1> QED
  BY <1>1, <1>2, <1>3, <1>4, <1>5 DEF Next

-----------------------------------------------------------------------------
(* The credit arithmetic.  Only Encode moves the offset; only the readers   *)
(* and the client touch the counts.                                         *)
creditCounts == <<offset, unmetered, reader, attempt, consumed, up, taken>>

LEMMA DownloadCounts ==
  ASSUME TypeOK, Download
  PROVE  \/ UNCHANGED creditCounts
         \/ /\ UNCHANGED <<reader, attempt, consumed, up, taken>>
            /\ offset' = offset + n
            /\ \/ unmetered' = offset'
               \/ unmetered' = unmetered /\ ~ Blocked /\ enabled
<1> USE DEF creditCounts, TypeOK
<1>1. CASE SeeDead \/ ReadTarget \/ ReadEof \/ ReadError
  <2>1. CASE SeeDead
    BY <2>1 DEF SeeDead, creditVars, clientVars
  <2>2. CASE ReadTarget
    BY <2>2 DEF ReadTarget, creditVars, clientVars
  <2>3. CASE ReadEof
    BY <2>3 DEF ReadEof, creditVars, clientVars
  <2>4. CASE ReadError
    BY <2>4 DEF ReadError, creditVars, clientVars
  <2> QED BY <1>1, <2>1, <2>2, <2>3, <2>4
<1>2. CASE CreditPass
  BY <1>2 DEF CreditPass, Encode, creditVars, clientVars
<1>3. CASE CreditGiveUp
  BY <1>3 DEF CreditGiveUp, Encode, creditVars, clientVars
<1>4. CASE CreditStall \/ CreditWake
  <2>1. CASE CreditStall
    BY <2>1 DEF CreditStall, creditVars, clientVars
  <2>2. CASE CreditWake
    BY <2>2 DEF CreditWake, clientVars
  <2> QED BY <1>4, <2>1, <2>2
<1>5. CASE ScanQueue \/ ScanDone \/ Send \/ SendClosed
  <2>1. CASE ScanQueue
    BY <2>1 DEF ScanQueue, creditVars, clientVars
  <2>2. CASE ScanDone
    BY <2>2 DEF ScanDone, creditVars, clientVars
  <2>3. CASE Send
    BY <2>3 DEF Send, creditVars, clientVars
  <2>4. CASE SendClosed
    BY <2>4 DEF SendClosed, creditVars, clientVars
  <2> QED BY <1>5, <2>1, <2>2, <2>3, <2>4
<1>6. CASE SendFin \/ FinsSent \/ JoinWriters
  <2>1. CASE SendFin
    BY <2>1 DEF SendFin, creditVars, clientVars
  <2>2. CASE FinsSent
    BY <2>2 DEF FinsSent, creditVars, clientVars
  <2>3. CASE JoinWriters
    BY <2>3 DEF JoinWriters, creditVars, clientVars
  <2> QED BY <1>6, <2>1, <2>2, <2>3
<1> QED
  BY <1>1, <1>2, <1>3, <1>4, <1>5, <1>6 DEF Download

LEMMA OtherCounts ==
  ASSUME \/ UploadCloses \/ UploadFails \/ Done \/ UNCHANGED vars
         \/ \E i \in Subflows : Writer(i) \/ WriterFail(i) \/ ClientReceive(i)
  PROVE  UNCHANGED creditCounts
<1> USE DEF creditCounts, downloadVars, creditVars, clientVars
<1>1. CASE UploadCloses
  BY <1>1 DEF UploadCloses
<1>2. CASE UploadFails
  BY <1>2 DEF UploadFails
<1>3. CASE Done \/ UNCHANGED vars
  BY <1>3 DEF Done, vars
<1>4. ASSUME NEW i \in Subflows, Writer(i) PROVE UNCHANGED creditCounts
  BY <1>4 DEF Writer, WriterRecv, WriterWrite, WriterDrained, WriterExit
<1>5. ASSUME NEW i \in Subflows, WriterFail(i) PROVE UNCHANGED creditCounts
  BY <1>5 DEF WriterFail
<1>6. ASSUME NEW i \in Subflows, ClientReceive(i) PROVE UNCHANGED creditCounts
  BY <1>6 DEF ClientReceive
<1> QED
  BY <1>1, <1>2, <1>3, <1>4, <1>5, <1>6

CreditInv == TypeOK /\ WithinOffset /\ WithinTaken /\ Raising /\ CreditBound

LEMMA TryRaises ==
  ASSUME CreditInv, NEW i \in Joins, NEW reported \in 0..taken,
         Try(i, reported, consumed)
  PROVE  (\A j \in Joins : attempt'[j].reported <= taken) /\ Raising'
  BY DEF CreditInv, TypeOK, WithinTaken, Raising, Try, Attempt, NoAttempt

LEMMA NextCredit == CreditInv /\ [Next]_vars => CreditInv'
<1> SUFFICES ASSUME CreditInv, [Next]_vars PROVE CreditInv'
  OBVIOUS
<1>1. TypeOK' /\ WithinOffset'
  BY NextTypeOK, NextWithin DEF CreditInv
<1> USE DEF CreditInv, TypeOK, WithinTaken, Raising, CreditSound, CreditBound
<1>2. CASE Download
  <2>1. CASE UNCHANGED creditCounts
    BY <1>1, <2>1 DEF creditCounts
  <2>2. CASE /\ UNCHANGED <<reader, attempt, consumed, up, taken>>
             /\ offset' = offset + n
             /\ \/ unmetered' = offset'
                \/ unmetered' = unmetered /\ ~ Blocked /\ enabled
    <3>1. WithinTaken' /\ Raising'
      BY <2>2
    <3>2. CreditBound'
      BY <2>2, SizesAssumption DEF Blocked
    <3> QED BY <1>1, <3>1, <3>2
  <2> QED BY <1>2, <2>1, <2>2, DownloadCounts
<1>3. CASE UploadCloses \/ UploadFails \/ Done \/ UNCHANGED vars
  BY <1>1, <1>3, OtherCounts DEF creditCounts
<1>4. CASE \E i \in Subflows : Writer(i) \/ WriterFail(i) \/ ClientReceive(i)
  BY <1>1, <1>4, OtherCounts DEF creditCounts
<1>5. ASSUME NEW i \in Joins, Reader(i) \/ ReaderExit(i) \/ ClientReport(i)
      PROVE  CreditInv'
  <2> USE DEF downloadVars, writerVars, creditVars, clientVars
  <2>1. CASE ReaderLoad(i)
    <3>1. Head(up[i]) \in 0..taken /\ Tail(up[i]) \in Seq(0..taken)
      BY <2>1 DEF ReaderLoad
    <3>2. UNCHANGED <<offset, unmetered, consumed, taken>>
      BY <2>1 DEF ReaderLoad
    <3>3. up' \in [Joins -> Seq(0..taken)]
      BY <2>1, <3>1 DEF ReaderLoad
    <3>4. (\A j \in Joins : attempt'[j].reported <= taken) /\ Raising'
      <4>1. Try(i, Head(up[i]), consumed)
        BY <2>1 DEF ReaderLoad
      <4> QED BY <3>1, <4>1, TryRaises
    <3> QED BY <1>1, <3>2, <3>3, <3>4
  <2>6. CASE ReaderSwap(i)
    <3>1. UNCHANGED <<offset, unmetered, up, taken>>
      BY <2>6 DEF ReaderSwap
    <3>2. CASE consumed = attempt[i].current
      <4>1. /\ consumed' = attempt[i].reported
            /\ reader' = [reader EXCEPT ![i] = "enable"]
            /\ attempt' = [attempt EXCEPT ![i] = NoAttempt]
        BY <2>6, <3>2 DEF ReaderSwap
      <4>2. (\A j \in Joins : attempt'[j].reported <= taken) /\ Raising'
        BY <4>1 DEF NoAttempt
      <4> QED BY <1>1, <3>1, <4>1, <4>2
    <3>3. CASE consumed # attempt[i].current
      <4>1. Try(i, attempt[i].reported, consumed) /\ UNCHANGED consumed
        BY <2>6, <3>3 DEF ReaderSwap
      <4>2. attempt[i].reported \in 0..taken
        BY DEF Attempt
      <4>3. (\A j \in Joins : attempt'[j].reported <= taken) /\ Raising'
        BY <4>1, <4>2, TryRaises
      <4> QED BY <1>1, <3>1, <4>1, <4>3
    <3> QED BY <3>2, <3>3
  <2>2. CASE ReaderEnable(i)
    BY <1>1, <2>2 DEF ReaderEnable
  <2>3. CASE ReaderNotify(i)
    BY <1>1, <2>3 DEF ReaderNotify
  <2>4. CASE ReaderExit(i)
    <3>1. up' \in [Joins -> Seq(0..taken)]
      BY <2>4 DEF ReaderExit
    <3>2. UNCHANGED <<offset, unmetered, attempt, consumed, taken>>
      BY <2>4 DEF ReaderExit
    <3>3. Raising'
      BY <2>4 DEF ReaderExit
    <3> QED BY <1>1, <3>1, <3>2, <3>3
  <2>5. CASE ClientReport(i)
    <3>1. Append(up[i], taken) \in Seq(0..taken)
      OBVIOUS
    <3>2. UNCHANGED <<offset, unmetered, reader, attempt, consumed, taken>>
      BY <2>5 DEF ClientReport
    <3>3. up' \in [Joins -> Seq(0..taken)]
      BY <2>5, <3>1 DEF ClientReport
    <3> QED BY <1>1, <3>2, <3>3
  <2> QED BY <1>5, <2>1, <2>2, <2>3, <2>4, <2>5, <2>6 DEF Reader
<1>6. CASE ClientTake
  <2> USE <1>6 DEF ClientTake, downloadVars, creditVars
  <2>1. taken < offset
    BY DEF WithinOffset
  <2>2. up' \in [Joins -> Seq(0..taken')]
    BY SeqFunMonotone
  <2>3. \A i \in Joins : attempt'[i].reported <= taken'
    <3> SUFFICES ASSUME NEW i \in Joins PROVE attempt'[i].reported <= taken'
      OBVIOUS
    <3>1. attempt[i].reported \in Nat /\ attempt[i].reported <= taken
      BY DEF Attempt
    <3> QED BY <3>1
  <2>4. Raising' /\ UNCHANGED <<offset, unmetered, consumed>>
    OBVIOUS
  <2> QED BY SizesAssumption, <1>1, <2>1, <2>2, <2>3, <2>4
<1> QED
  BY <1>2, <1>3, <1>4, <1>5, <1>6 DEF Next

LEMMA CreditInvariant == Spec => []CreditInv
<1>1. Init => CreditInv
  BY InitTypeOK, SubflowsFacts
  DEF Init, CreditInv, WithinOffset, WithinTaken, NoAttempt, Raising,
      CreditSound, CreditBound
<1>2. CreditInv /\ [Next]_vars => CreditInv'
  BY NextCredit
<1> QED
  BY <1>1, <1>2, PTL DEF Spec

(* The subtraction of the credit loop never underflows: what the server     *)
(* believes consumed was taken, and what was taken had been enqueued.       *)
THEOREM CreditIsSound == Spec => []CreditSound
<1>1. CreditInv => CreditSound
  BY DEF CreditInv, WithinTaken
<1> QED
  BY <1>1, CreditInvariant, PTL

(* Bytes enqueued under the window leave less than Window bytes for the     *)
(* client to take: a client whose buffer is at least as large never         *)
(* overflows, blind bytes aside.                                            *)
THEOREM CreditCorrect == Spec => []CreditBound
<1>1. CreditInv => CreditBound
  BY DEF CreditInv
<1> QED
  BY <1>1, CreditInvariant, PTL

(* The consumed count never falls: a reader that stores a report has seen   *)
(* the very count it replaces, or has compared again, and another may have  *)
(* stored a larger one in between.                                          *)
THEOREM ConsumedNeverFalls == Spec => ConsumedMonotone
<1>1. CreditInv /\ [Next]_vars => [consumed' >= consumed]_vars
  <2> SUFFICES ASSUME CreditInv, [Next]_vars PROVE consumed' >= consumed
    OBVIOUS
  <2> USE DEF CreditInv, TypeOK
  <2>1. CASE Download
    BY <2>1, DownloadCounts DEF creditCounts
  <2>2. CASE \/ UploadCloses \/ UploadFails \/ Done \/ UNCHANGED vars
             \/ \E i \in Subflows : Writer(i) \/ WriterFail(i) \/ ClientReceive(i)
    BY <2>2, OtherCounts DEF creditCounts
  <2>3. ASSUME NEW i \in Joins, Reader(i) \/ ReaderExit(i) \/ ClientReport(i)
        PROVE  consumed' >= consumed
    <3>1. CASE ReaderSwap(i)
      <4>1. attempt[i].reported \in Nat /\ attempt[i].current \in Nat
        BY DEF Attempt
      <4>2. attempt[i].current < attempt[i].reported
        BY <3>1 DEF ReaderSwap, Raising
      <4> QED BY <3>1, <4>1, <4>2 DEF ReaderSwap
    <3>2. CASE ReaderLoad(i) \/ ReaderEnable(i) \/ ReaderNotify(i)
      BY <3>2 DEF ReaderLoad, ReaderEnable, ReaderNotify
    <3>3. CASE ReaderExit(i) \/ ClientReport(i)
      BY <3>3 DEF ReaderExit, ClientReport, creditVars
    <3> QED BY <2>3, <3>1, <3>2, <3>3 DEF Reader
  <2>4. CASE ClientTake
    BY <2>4 DEF ClientTake, creditVars
  <2> QED BY <2>1, <2>2, <2>3, <2>4 DEF Next
<1> QED
  BY <1>1, CreditInvariant, PTL DEF Spec, ConsumedMonotone

-----------------------------------------------------------------------------
(* No wake-up is lost: a version of `notify` that came between the test and *)
(* the wait is seen by the wait, and every reader that opens the window     *)
(* notifies after it has done so.                                           *)
wakeVars == <<pc, offset, n, consumed, enabled, notified, reader>>

LEMMA DownloadWakes ==
  ASSUME TypeOK, Download
  PROVE  \/ pc' # "await"
         \/ Blocked /\ UNCHANGED <<offset, n, consumed, enabled>>
<1>1. CASE CreditStall
  BY <1>1 DEF CreditStall, creditVars
<1>2. CASE SeeDead \/ ReadTarget \/ ReadEof \/ ReadError
  BY <1>2 DEF SeeDead, ReadTarget, ReadEof, ReadError
<1>3. CASE CreditPass \/ CreditWake \/ CreditGiveUp
  BY <1>3 DEF CreditPass, CreditWake, CreditGiveUp, Encode
<1>4. CASE ScanQueue \/ ScanDone \/ Send \/ SendClosed
  BY <1>4 DEF ScanQueue, ScanDone, Send, SendClosed
<1>5. CASE SendFin \/ FinsSent \/ JoinWriters
  BY <1>5 DEF SendFin, FinsSent, JoinWriters
<1> QED
  BY <1>1, <1>2, <1>3, <1>4, <1>5 DEF Download

LEMMA OtherWakes ==
  ASSUME \/ UploadCloses \/ ClientTake \/ Done \/ UNCHANGED vars
         \/ \E i \in Subflows : Writer(i) \/ WriterFail(i) \/ ClientReceive(i)
         \/ \E i \in Joins : ClientReport(i)
  PROVE  UNCHANGED wakeVars
<1> USE DEF wakeVars, downloadVars, creditVars
<1>1. CASE UploadCloses
  BY <1>1 DEF UploadCloses
<1>2. CASE ClientTake
  BY <1>2 DEF ClientTake
<1>3. CASE Done \/ UNCHANGED vars
  BY <1>3 DEF Done, vars
<1>4. ASSUME NEW i \in Subflows, Writer(i) PROVE UNCHANGED wakeVars
  BY <1>4 DEF Writer, WriterRecv, WriterWrite, WriterDrained, WriterExit
<1>5. ASSUME NEW i \in Subflows, WriterFail(i) PROVE UNCHANGED wakeVars
  BY <1>5 DEF WriterFail
<1>6. ASSUME NEW i \in Subflows, ClientReceive(i) PROVE UNCHANGED wakeVars
  BY <1>6 DEF ClientReceive
<1>7. ASSUME NEW i \in Joins, ClientReport(i) PROVE UNCHANGED wakeVars
  BY <1>7 DEF ClientReport
<1> QED
  BY <1>1, <1>2, <1>3, <1>4, <1>5, <1>6, <1>7

LEMMA NextNoLostWakeup ==
  TypeOK /\ NoLostWakeup /\ [Next]_vars => NoLostWakeup'
<1> SUFFICES ASSUME TypeOK, NoLostWakeup, [Next]_vars PROVE NoLostWakeup'
  OBVIOUS
<1> USE DEF NoLostWakeup, Blocked
<1>1. CASE Download
  BY <1>1, DownloadWakes
<1>2. CASE \/ UploadCloses \/ ClientTake \/ Done \/ UNCHANGED vars
           \/ \E i \in Subflows : Writer(i) \/ WriterFail(i) \/ ClientReceive(i)
           \/ \E i \in Joins : ClientReport(i)
  BY <1>2, OtherWakes DEF wakeVars
<1>3. CASE UploadFails
  BY <1>3 DEF UploadFails, AwaitPoints
<1>4. ASSUME NEW i \in Joins, ReaderEnable(i) PROVE NoLostWakeup'
  <2>1. reader'[i] \in {"enable", "notify"}
    BY <1>4 DEF ReaderEnable, TypeOK
  <2> QED BY <2>1
<1>7. ASSUME NEW i \in Joins, ReaderLoad(i) \/ ReaderSwap(i)
      PROVE  NoLostWakeup'
  <2>1. UNCHANGED <<pc, offset, n, enabled, notified>>
    BY <1>7 DEF ReaderLoad, ReaderSwap, downloadVars
  <2>2. reader'[i] = "enable" \/ UNCHANGED consumed
    BY <1>7 DEF ReaderLoad, ReaderSwap, TypeOK
  <2>3. \A j \in Joins : reader[j] \in {"enable", "notify"} =>
                           reader'[j] \in {"enable", "notify"}
    BY <1>7 DEF ReaderLoad, ReaderSwap, Try, TypeOK
  <2> QED BY <2>1, <2>2, <2>3
<1>5. ASSUME NEW i \in Joins, ReaderNotify(i) PROVE NoLostWakeup'
  BY <1>5 DEF ReaderNotify
<1>6. ASSUME NEW i \in Joins, ReaderExit(i) PROVE NoLostWakeup'
  <2>1. \A j \in Joins : reader[j] \in {"enable", "notify"} =>
                           reader'[j] \in {"enable", "notify"}
    BY <1>6 DEF ReaderExit, TypeOK
  <2>2. UNCHANGED <<pc, offset, n, consumed, enabled, notified>>
    BY <1>6 DEF ReaderExit, downloadVars
  <2> QED BY <2>1, <2>2
<1> QED
  BY <1>1, <1>2, <1>3, <1>4, <1>5, <1>6, <1>7 DEF Next, Reader

(* The download loop never sleeps while its window is open and no reader is *)
(* about to wake it, for every number of joins.                             *)
THEOREM WakeupsNotLost == Spec => []NoLostWakeup
<1>1. Init => NoLostWakeup
  BY DEF Init, NoLostWakeup
<1>2. TypeOK /\ NoLostWakeup /\ [Next]_vars => NoLostWakeup'
  BY NextNoLostWakeup
<1> QED
  BY <1>1, <1>2, TypeCorrect, PTL DEF Spec

-----------------------------------------------------------------------------
(* The scheduler's counters.  The strengthening bounds what they count, so  *)
(* that an increment never wraps, and says one frame at a time is enqueued. *)
(* The lengths have names of their own, which the arithmetic steps use      *)
(* without looking into the sequences.                                      *)
ChanLen(i) == Len(chan[i])
CurLen(i) == Len(cur[i])
InSend(i) == IF pc = "send" /\ best = i THEN 1 ELSE 0

QueueAt(i) ==
  /\ ChanLen(i) <= Capacity /\ CurLen(i) <= 1
  /\ Scheduling /\ writer[i] = "run" =>
       queued[i] = ChanLen(i) + CurLen(i) + InSend(i)

QueueInv ==
  /\ pc \in {"scan", "send"} => Len(item) = 1
  /\ \A i \in Subflows : QueueAt(i)

LEMMA QueueTypes ==
  ASSUME TypeOK, NEW i \in Subflows
  PROVE  /\ ChanLen(i) \in Nat /\ CurLen(i) \in Nat
         /\ queued[i] \in Nat /\ queued[i] <= UsizeMax /\ InSend(i) \in {0, 1}
<1>1. chan[i] \in Seq(Frame) /\ cur[i] \in Seq(Frame) /\ queued[i] \in 0..UsizeMax
  BY DEF TypeOK
<1> QED
  BY <1>1, SizesAssumption, LenProperties DEF ChanLen, CurLen, InSend

(* A step that leaves the queues, and keeps the enqueueing frame where it   *)
(* is, keeps the counters exact.                                            *)
LEMMA QueueKept ==
  ASSUME TypeOK, QueueInv, UNCHANGED writerVars,
         \/ ~ Scheduling'
         \/ Scheduling /\ pc # "send" /\ pc' # "send",
         pc' \in {"scan", "send"} => Len(item') = 1
  PROVE  QueueInv'
<1>1. ASSUME NEW i \in Subflows PROVE QueueAt(i)'
  BY QueueTypes DEF QueueInv, QueueAt, ChanLen, CurLen, InSend, writerVars
<1> QED BY <1>1 DEF QueueInv

LEMMA EncodeQueue ==
  ASSUME TypeOK, QueueInv, NEW m \in BOOLEAN, Encode(m),
         pc \in {"credit", "await"}
  PROVE  QueueInv'
<1>1. UNCHANGED writerVars /\ pc' = "scan" /\ Len(item') = 1
  BY DEF Encode
<1> QED BY <1>1, QueueKept DEF Scheduling

LEMMA DownloadQueue == TypeOK /\ QueueInv /\ Download => QueueInv'
<1> SUFFICES ASSUME TypeOK, QueueInv, Download PROVE QueueInv'
  OBVIOUS
<1>1. CASE SeeDead \/ ReadEof \/ ReadError \/ SendClosed \/ FinsSent \/ JoinWriters
  <2>1. UNCHANGED writerVars /\ pc' \in {"join", "fin", "ended"}
    BY <1>1 DEF SeeDead, ReadEof, ReadError, SendClosed, FinsSent, JoinWriters
  <2> QED BY <2>1, QueueKept DEF Scheduling
<1>2. CASE ReadTarget \/ CreditStall \/ CreditWake
  <2>1. UNCHANGED writerVars /\ pc \in {"select", "credit", "await"}
          /\ pc' \in {"credit", "await"}
    BY <1>2 DEF ReadTarget, CreditStall, CreditWake
  <2> QED BY <2>1, QueueKept DEF Scheduling
<1>3. CASE CreditPass
  BY <1>3, EncodeQueue DEF CreditPass, TypeOK
<1>4. CASE CreditGiveUp
  BY <1>4, EncodeQueue DEF CreditGiveUp
<1>5. CASE ScanQueue
  <2>1. UNCHANGED writerVars /\ pc = "scan" /\ pc' = "scan" /\ item' = item
    BY <1>5 DEF ScanQueue
  <2> QED BY <2>1, QueueKept DEF Scheduling, QueueInv
<1>6. CASE ScanDone
  <2>1. /\ pc = "scan" /\ pc' = "send" /\ UNCHANGED <<item, best, chan, cur, writer>>
        /\ queued' = [queued EXCEPT ![best] = IF @ = UsizeMax THEN 0 ELSE @ + 1]
    BY <1>6 DEF ScanDone
  <2>2. ASSUME NEW i \in Subflows PROVE QueueAt(i)'
    <3>1. ChanLen(i)' = ChanLen(i) /\ CurLen(i)' = CurLen(i)
      BY <2>1 DEF ChanLen, CurLen
    <3>2. InSend(i) = 0 /\ InSend(i)' = (IF best = i THEN 1 ELSE 0)
      BY <2>1 DEF InSend
    <3>3. QueueAt(i)
      BY DEF QueueInv
    <3>4. queued'[i] = IF i = best THEN IF queued[i] = UsizeMax THEN 0 ELSE queued[i] + 1
                                   ELSE queued[i]
      BY <2>1 DEF TypeOK
    <3> QED
      BY <2>1, <3>1, <3>2, <3>3, <3>4, QueueTypes, SizesAssumption
      DEF QueueAt, Scheduling
  <2> QED BY <2>1, <2>2 DEF QueueInv
<1>7. CASE Send
  <2>1. /\ pc = "send" /\ pc' = "select" /\ Len(chan[best]) < Capacity
        /\ chan' = [chan EXCEPT ![best] = @ \o item]
        /\ UNCHANGED <<queued, cur, writer>>
    BY <1>7 DEF Send
  <2>2. ASSUME NEW i \in Subflows PROVE QueueAt(i)'
    <3>1. CurLen(i)' = CurLen(i) /\ InSend(i)' = 0
            /\ InSend(i) = (IF best = i THEN 1 ELSE 0)
      BY <2>1 DEF CurLen, InSend
    <3>2. Len(chan[best] \o item) = Len(chan[best]) + Len(item) /\ Len(item) = 1
      BY <2>1, ConcatProperties DEF TypeOK, QueueInv
    <3>3. ChanLen(i)' = ChanLen(i) + (IF best = i THEN 1 ELSE 0)
      BY <2>1, <3>2 DEF ChanLen, TypeOK
    <3>4. best = i => ChanLen(i) < Capacity
      BY <2>1 DEF ChanLen
    <3>5. QueueAt(i)
      BY DEF QueueInv
    <3> QED
      BY <2>1, <3>1, <3>3, <3>4, <3>5, QueueTypes, SizesAssumption
      DEF QueueAt, Scheduling
  <2> QED BY <2>1, <2>2 DEF QueueInv
<1>8. CASE SendFin
  <2>1. /\ pc = "fin" /\ pc' = "fin" /\ k \in Subflows
        /\ UNCHANGED <<item, best, queued, cur, writer>>
    BY <1>8, SizesAssumption DEF SendFin, Subflows, TypeOK
  <2>2. ASSUME NEW i \in Subflows PROVE QueueAt(i)'
    <3>1. CurLen(i)' = CurLen(i)
      BY <2>1 DEF CurLen
    <3>2. CASE /\ Len(chan[k]) < Capacity
               /\ chan' = [chan EXCEPT ![k] = Append(@, Fin(offset))]
      <4>1. Len(Append(chan[k], Fin(offset))) = Len(chan[k]) + 1
        BY <2>1, FrameFacts, AppendProperties DEF TypeOK
      <4>2. ChanLen(i)' = ChanLen(i) + (IF k = i THEN 1 ELSE 0)
              /\ (k = i => ChanLen(i) < Capacity)
        BY <3>2, <4>1 DEF ChanLen, TypeOK
      <4>3. ChanLen(i)' <= Capacity
        BY <4>2, QueueTypes, SizesAssumption DEF QueueInv, QueueAt
      <4> QED BY <2>1, <3>1, <4>3 DEF QueueInv, QueueAt, Scheduling
    <3>3. CASE UNCHANGED chan
      BY <2>1, <3>1, <3>3 DEF QueueInv, QueueAt, Scheduling, ChanLen
    <3> QED BY <1>8, <3>2, <3>3 DEF SendFin
  <2> QED BY <2>1, <2>2 DEF QueueInv
<1> QED
  BY <1>1, <1>2, <1>3, <1>4, <1>5, <1>6, <1>7, <1>8 DEF Download

LEMMA WriterQueue ==
  ASSUME TypeOK, QueueInv, NEW i \in Subflows, Writer(i) \/ WriterFail(i)
  PROVE  QueueInv'
<1>1. UNCHANGED <<pc, item, best>>
  BY DEF Writer, WriterRecv, WriterWrite, WriterDrained, WriterExit, WriterFail,
         downloadVars
<1>2. SUFFICES ASSUME NEW j \in Subflows PROVE QueueAt(j)'
  BY <1>1 DEF QueueInv
<1>3. QueueAt(j)
  BY DEF QueueInv
<1>4. InSend(j)' = InSend(j) /\ Scheduling' = Scheduling
  BY <1>1 DEF InSend, Scheduling
<1>5. CASE j # i
  <2>1. chan'[j] = chan[j] /\ cur'[j] = cur[j] /\ queued'[j] = queued[j]
          /\ writer'[j] = writer[j]
    BY <1>5 DEF TypeOK, Writer, WriterRecv, WriterWrite, WriterDrained,
                WriterExit, WriterFail
  <2> QED BY <1>3, <1>4, <2>1 DEF QueueAt, ChanLen, CurLen
<1>6. CASE WriterRecv(i) /\ j = i
  <2>1. /\ cur[i] = <<>> /\ cur'[i] = <<Head(chan[i])>>
        /\ chan[i] # <<>> /\ chan'[i] = Tail(chan[i])
        /\ UNCHANGED <<queued, writer>>
    BY <1>6 DEF WriterRecv, TypeOK
  <2>2. ChanLen(i)' = ChanLen(i) - 1
    BY <2>1, HeadTailProperties DEF ChanLen, TypeOK
  <2>3. CurLen(i) = 0 /\ CurLen(i)' = 1
    BY <2>1 DEF CurLen
  <2> QED BY <1>3, <1>4, <1>6, <2>1, <2>2, <2>3, QueueTypes, SizesAssumption DEF QueueAt
<1>7. CASE WriterWrite(i) /\ j = i
  <2>1. /\ cur[i] # <<>> /\ cur'[i] = <<>> /\ writer[i] = "run"
        /\ queued'[i] = IF queued[i] = 0 THEN UsizeMax ELSE queued[i] - 1
        /\ UNCHANGED <<chan, writer>>
    BY <1>7 DEF WriterWrite, TypeOK
  <2>2. CurLen(i) # 0 /\ CurLen(i)' = 0
    BY <2>1, EmptySeq DEF CurLen, TypeOK
  <2>3. CurLen(i) = 1
    BY <1>3, <1>7, <2>2, QueueTypes DEF QueueAt
  <2>4. ChanLen(i)' = ChanLen(i)
    BY <2>1 DEF ChanLen
  <2> QED BY <1>3, <1>4, <1>7, <2>1, <2>2, <2>3, <2>4, QueueTypes DEF QueueAt
<1>8. CASE (WriterDrained(i) \/ WriterExit(i) \/ WriterFail(i)) /\ j = i
  <2>1. writer'[i] # "run"
    BY <1>8 DEF WriterDrained, WriterExit, WriterFail, TypeOK
  <2>2. chan'[i] = chan[i] \/ chan'[i] = <<>>
    BY <1>8 DEF WriterDrained, WriterExit, WriterFail, TypeOK
  <2>3. cur'[i] = cur[i] \/ cur'[i] = <<>>
    BY <1>8 DEF WriterDrained, WriterExit, WriterFail, TypeOK
  <2>4. ChanLen(i)' = ChanLen(i) \/ ChanLen(i)' = 0
    BY <2>2 DEF ChanLen
  <2>5. CurLen(i)' = CurLen(i) \/ CurLen(i)' = 0
    BY <2>3 DEF CurLen
  <2> QED BY <1>3, <1>8, <2>1, <2>4, <2>5, QueueTypes, SizesAssumption DEF QueueAt
<1> QED
  BY <1>5, <1>6, <1>7, <1>8 DEF Writer

LEMMA NextQueue == TypeOK /\ QueueInv /\ [Next]_vars => QueueInv'
<1> SUFFICES ASSUME TypeOK, QueueInv, [Next]_vars PROVE QueueInv'
  OBVIOUS
<1> DEFINE queueVars == <<pc, item, best, chan, cur, queued, writer>>
<1>1. CASE Download
  BY <1>1, DownloadQueue
<1>2. CASE \E i \in Subflows : Writer(i) \/ WriterFail(i)
  BY <1>2, WriterQueue
<1>3. ASSUME UNCHANGED queueVars PROVE QueueInv'
  BY <1>3 DEF QueueInv, QueueAt, ChanLen, CurLen, InSend, Scheduling
<1>4. CASE UploadCloses \/ ClientTake \/ Done \/ UNCHANGED vars
  <2>1. UNCHANGED queueVars
    BY <1>4 DEF UploadCloses, ClientTake, Done, vars, downloadVars, writerVars
  <2> QED BY <1>3, <2>1
<1>5. CASE UploadFails
  <2>1. UNCHANGED writerVars /\ pc' \in {"ended", "dropped"}
    BY <1>5 DEF UploadFails
  <2> QED BY <2>1, QueueKept DEF Scheduling
<1>6. ASSUME NEW i \in Subflows, ClientReceive(i) PROVE QueueInv'
  <2>1. UNCHANGED queueVars
    BY <1>6 DEF ClientReceive, downloadVars, writerVars
  <2> QED BY <1>3, <2>1
<1>7. ASSUME NEW i \in Joins, Reader(i) \/ ReaderExit(i) \/ ClientReport(i)
      PROVE  QueueInv'
  <2>1. UNCHANGED queueVars
    BY <1>7 DEF Reader, ReaderLoad, ReaderSwap,
                ReaderEnable, ReaderNotify, ReaderExit,
                ClientReport, downloadVars, writerVars
  <2> QED BY <1>3, <2>1
<1> QED
  BY <1>1, <1>2, <1>4, <1>5, <1>6, <1>7 DEF Next

(* Shortest-queue scheduling decides on exact counts, for every number of   *)
(* subflows and every queue depth.                                          *)
THEOREM SchedulerSeesQueues == Spec => []QueueAccounting
<1>1. Init => QueueInv
  <2> SUFFICES ASSUME Init PROVE QueueInv
    OBVIOUS
  <2>1. ASSUME NEW i \in Subflows PROVE QueueAt(i)
    <3>1. ChanLen(i) = 0 /\ CurLen(i) = 0 /\ InSend(i) = 0 /\ queued[i] = 0
      BY DEF Init, ChanLen, CurLen, InSend
    <3> QED BY <3>1, SizesAssumption DEF QueueAt
  <2> QED BY <2>1 DEF Init, QueueInv
<1>2. TypeOK /\ QueueInv /\ [Next]_vars => QueueInv'
  BY NextQueue
<1>3. QueueInv => QueueAccounting
  BY DEF QueueInv, QueueAt, QueueAccounting, ChanLen, CurLen, InSend
<1> QED
  BY <1>1, <1>2, <1>3, TypeCorrect, PTL DEF Spec

-----------------------------------------------------------------------------
(* The striped downlink implements the byte stream.  A FIN is a promise     *)
(* about the whole stream, made on several connections at once; the         *)
(* strengthening says that every FIN on its way announces the offset the    *)
(* loop stopped at, and that none exists before the target has closed.      *)
Travelling(r, o) == { f \in Frame : IsFin(f) => r = "ok" /\ f.off = o }

StreamInv ==
  /\ item \in Seq(Travelling("none", 0))
  /\ chan \in [Subflows -> Seq(Travelling(result, offset))]
  /\ cur \in [Subflows -> Seq(Travelling(result, offset))]
  /\ wire \in [Subflows -> Seq(Travelling(result, offset))]
  /\ finals \subseteq {offset} /\ (finals # {} => result = "ok")
  /\ pc \in {"credit", "await"} => n > 0
  /\ Scheduling => result = "none"
  /\ pc = "fin" => result = "ok"

LEMMA TravellingFacts ==
  /\ \A r, s, o, p : r # "ok" => Travelling(r, o) \subseteq Travelling(s, p)
  /\ \A o \in Nat : Fin(o) \in Travelling("ok", o)
  /\ \A o, m \in Nat : m > 0 => Data(o, m) \in Travelling("none", 0)
  BY DEF Travelling, Frame, Fin, Data, IsFin

(* The frames on their way stay what they are when the result is set, or    *)
(* the offset moved, while no FIN exists.                                   *)
LEMMA FramesKept ==
  ASSUME StreamInv, UNCHANGED <<chan, cur, wire, finals>>,
         result = "none" \/ UNCHANGED <<result, offset>>
  PROVE  /\ chan' \in [Subflows -> Seq(Travelling(result', offset'))]
         /\ cur' \in [Subflows -> Seq(Travelling(result', offset'))]
         /\ wire' \in [Subflows -> Seq(Travelling(result', offset'))]
         /\ finals' \subseteq {offset'} /\ (finals' # {} => result' = "ok")
<1>1. Travelling(result, offset) \subseteq Travelling(result', offset')
  BY TravellingFacts
<1>2. chan' \in [Subflows -> Seq(Travelling(result', offset'))]
  BY <1>1, SeqFunMonotone DEF StreamInv
<1>3. cur' \in [Subflows -> Seq(Travelling(result', offset'))]
  BY <1>1, SeqFunMonotone DEF StreamInv
<1>4. wire' \in [Subflows -> Seq(Travelling(result', offset'))]
  BY <1>1, SeqFunMonotone DEF StreamInv
<1>5. finals' \subseteq {offset'} /\ (finals' # {} => result' = "ok")
  BY DEF StreamInv
<1> QED BY <1>2, <1>3, <1>4, <1>5

LEMMA DownloadStream == TypeOK /\ StreamInv /\ Download => StreamInv'
<1> SUFFICES ASSUME TypeOK, StreamInv, Download PROVE StreamInv'
  OBVIOUS
<1> USE DEF Scheduling, writerVars, clientVars
<1>1. CASE SeeDead \/ ReadTarget \/ ReadEof \/ ReadError
  <2>1. UNCHANGED <<chan, cur, wire, finals, item>> /\ result = "none"
    BY <1>1 DEF SeeDead, ReadTarget, ReadEof, ReadError, StreamInv
  <2>2. /\ pc' \in {"credit", "await"} => n' > 0
        /\ Scheduling' => result' = "none"
        /\ pc' = "fin" => result' = "ok"
    BY <1>1, <2>1 DEF SeeDead, ReadTarget, ReadEof, ReadError, StreamInv
  <2> QED BY <2>1, <2>2, FramesKept DEF StreamInv
<1>2. ASSUME NEW m \in BOOLEAN, pc \in {"credit", "await"}, Encode(m)
      PROVE  StreamInv'
  <2>1. UNCHANGED <<chan, cur, wire, finals>> /\ result = "none"
    BY <1>2 DEF Encode, StreamInv
  <2>2. item' \in Seq(Travelling("none", 0))
    <3>1. Data(offset, n) \in Travelling("none", 0)
      BY <1>2, TravellingFacts DEF TypeOK, StreamInv
    <3> QED BY <1>2, <3>1 DEF Encode
  <2>3. pc' = "scan" /\ result' = "none"
    BY <1>2, <2>1 DEF Encode
  <2> QED BY <2>1, <2>2, <2>3, FramesKept DEF StreamInv
<1>3. CASE CreditStall \/ CreditWake \/ ScanQueue \/ ScanDone
  <2>1. UNCHANGED <<chan, cur, wire, finals, item, result, offset, n>>
    BY <1>3 DEF CreditStall, CreditWake, ScanQueue, ScanDone
  <2>2. pc' # "fin" /\ Scheduling
        /\ (pc' \in {"credit", "await"} => pc \in {"credit", "await"})
    BY <1>3 DEF CreditStall, CreditWake, ScanQueue, ScanDone
  <2> QED BY <2>1, <2>2, FramesKept DEF StreamInv
<1>4. CASE Send
  <2>1. chan[best] \o item \in Seq(Travelling(result, offset))
    <3>1. item \in Seq(Travelling(result, offset))
      BY TravellingFacts, SeqMonotone DEF StreamInv
    <3> QED BY <3>1 DEF StreamInv, TypeOK
  <2>2. chan' \in [Subflows -> Seq(Travelling(result, offset))]
    BY <1>4, <2>1 DEF Send, StreamInv, TypeOK
  <2>3. UNCHANGED <<cur, wire, finals, result, offset>> /\ item' = <<>>
        /\ pc' = "select" /\ result = "none"
    BY <1>4 DEF Send, StreamInv
  <2> QED BY <2>2, <2>3 DEF StreamInv
<1>5. CASE SendClosed
  <2>1. UNCHANGED <<chan, cur, wire, finals>> /\ item' = <<>>
        /\ pc' = "join" /\ result = "none"
    BY <1>5 DEF SendClosed, StreamInv
  <2> QED BY <2>1, FramesKept DEF StreamInv
<1>6. CASE SendFin
  <2>1. k \in Subflows /\ result = "ok"
    BY <1>6, SizesAssumption DEF SendFin, Subflows, TypeOK, StreamInv
  <2>2. Append(chan[k], Fin(offset)) \in Seq(Travelling(result, offset))
    BY <2>1, TravellingFacts DEF TypeOK, StreamInv
  <2>3. chan' \in [Subflows -> Seq(Travelling(result, offset))]
    BY <1>6, <2>1, <2>2 DEF SendFin, StreamInv
  <2>4. UNCHANGED <<pc, n, item, cur, wire, finals, result, offset>>
    BY <1>6 DEF SendFin
  <2> QED BY <2>3, <2>4 DEF StreamInv
<1>7. CASE FinsSent \/ JoinWriters
  <2>1. UNCHANGED <<chan, cur, wire, finals, item, result, offset>>
        /\ pc' \in {"join", "ended"}
    BY <1>7 DEF FinsSent, JoinWriters
  <2> QED BY <2>1, FramesKept DEF StreamInv
<1> QED
  BY <1>1, <1>2, <1>3, <1>4, <1>5, <1>6, <1>7
  DEF Download, CreditPass, CreditGiveUp, TypeOK

LEMMA OthersStream ==
  ASSUME TypeOK, StreamInv, NEW i \in Subflows,
         Writer(i) \/ WriterFail(i) \/ ClientReceive(i)
  PROVE  StreamInv'
<1> DEFINE T == Travelling(result, offset)
<1>0. UNCHANGED <<pc, result, n, offset, item>>
  BY DEF Writer, WriterRecv, WriterWrite, WriterDrained, WriterExit, WriterFail,
         ClientReceive, downloadVars
<1>1. SUFFICES /\ chan' \in [Subflows -> Seq(T)] /\ cur' \in [Subflows -> Seq(T)]
               /\ wire' \in [Subflows -> Seq(T)]
               /\ finals' \subseteq {offset} /\ (finals' # {} => result = "ok")
  BY <1>0 DEF StreamInv, Scheduling
<1>2. /\ chan \in [Subflows -> Seq(T)] /\ cur \in [Subflows -> Seq(T)]
      /\ wire \in [Subflows -> Seq(T)]
      /\ finals \subseteq {offset} /\ (finals # {} => result = "ok")
  BY DEF StreamInv
<1>3. \A f \in T : IsFin(f) => result = "ok" /\ f.off = offset
  BY DEF Travelling
<1> HIDE DEF T
<1> USE <1>2 DEF clientVars
<1>4. CASE WriterRecv(i)
  <2>1. Head(chan[i]) \in T /\ Tail(chan[i]) \in Seq(T)
    BY <1>4 DEF WriterRecv
  <2>2. <<Head(chan[i])>> \in Seq(T)
    BY <2>1
  <2> QED BY <1>4, <2>1, <2>2 DEF WriterRecv
<1>5. CASE WriterWrite(i)
  <2>1. wire[i] \o cur[i] \in Seq(T)
    OBVIOUS
  <2> QED BY <1>5, <2>1 DEF WriterWrite
<1>6. CASE WriterDrained(i) \/ WriterExit(i)
  <2>1. CASE WriterDrained(i)
    BY <2>1 DEF WriterDrained
  <2>2. CASE WriterExit(i)
    BY <2>2 DEF WriterExit
  <2> QED BY <1>6, <2>1, <2>2
<1>7. CASE WriterFail(i)
  <2>1. PICK m \in 0..Len(wire[i]) : wire' = [wire EXCEPT ![i] = SubSeq(@, 1, m)]
    BY <1>7 DEF WriterFail
  <2>2. SubSeq(wire[i], 1, m) \in Seq(T)
    OBVIOUS
  <2>3. wire' \in [Subflows -> Seq(T)]
    BY <2>1, <2>2
  <2> QED BY <1>7, <2>3 DEF WriterFail
<1>8. CASE ClientReceive(i)
  <2>1. Head(wire[i]) \in T /\ Tail(wire[i]) \in Seq(T)
    BY <1>8 DEF ClientReceive
  <2>2. finals' \subseteq {offset} /\ (finals' # {} => result = "ok")
    BY <1>3, <1>8, <2>1 DEF ClientReceive
  <2> QED BY <1>8, <2>1, <2>2 DEF ClientReceive, writerVars
<1> QED
  BY <1>4, <1>5, <1>6, <1>7, <1>8 DEF Writer

LEMMA NextStream == TypeOK /\ StreamInv /\ [Next]_vars => StreamInv'
<1> SUFFICES ASSUME TypeOK, StreamInv, [Next]_vars PROVE StreamInv'
  OBVIOUS
<1>1. CASE Download
  BY <1>1, DownloadStream
<1>2. CASE \E i \in Subflows : Writer(i) \/ WriterFail(i) \/ ClientReceive(i)
  BY <1>2, OthersStream
<1>3. CASE UploadFails
  <2>1. /\ UNCHANGED <<chan, cur, wire, finals, result, offset>>
        /\ item' = <<>> /\ pc' \in {"ended", "dropped"}
    BY <1>3 DEF UploadFails, writerVars, clientVars
  <2> QED BY <2>1, FramesKept DEF StreamInv, Scheduling
<1>4. CASE \/ UploadCloses \/ ClientTake \/ Done \/ UNCHANGED vars
           \/ \E i \in Joins : Reader(i) \/ ReaderExit(i) \/ ClientReport(i)
  <2>1. UNCHANGED <<chan, cur, wire, finals, item, result, offset, pc, n>>
    BY <1>4 DEF UploadCloses, ClientTake, Done, vars, Reader, ReaderLoad,
                ReaderSwap, ReaderEnable, ReaderNotify, ReaderExit, ClientReport,
                downloadVars, writerVars, clientVars
  <2> QED BY <2>1 DEF StreamInv, Scheduling
<1> QED
  BY <1>1, <1>2, <1>3, <1>4 DEF Next

(* Every step is one of the byte stream or invisible in it.                 *)
LEMMA StepImplements ==
  CreditInv /\ StreamInv /\ [Next]_vars => [BS!BSNext]_(BS!bsVars)
<1> SUFFICES ASSUME CreditInv, StreamInv, [Next]_vars
             PROVE  BS!BSNext \/ UNCHANGED BS!bsVars
  OBVIOUS
<1> USE DEF BS!bsVars
<1>1. CASE ReadEof
  BY <1>1 DEF ReadEof, clientVars, BS!BSNext, BS!Close
<1>2. ASSUME NEW m, pc \in {"credit", "await"}, Encode(m) PROVE BS!Produce
  <2>1. offset \in Nat /\ n \in Nat /\ n > 0 /\ result = "none"
    BY <1>2 DEF CreditInv, TypeOK, StreamInv, Scheduling
  <2> QED BY <1>2, <2>1 DEF Encode, clientVars, BS!Produce
<1>3. CASE \/ SeeDead \/ ReadTarget \/ ReadError \/ CreditStall \/ CreditWake
           \/ ScanQueue \/ ScanDone \/ Send \/ SendClosed \/ SendFin
           \/ FinsSent \/ JoinWriters
  <2>1. UNCHANGED <<offset, taken, finals>>
    BY <1>3 DEF SeeDead, ReadTarget, ReadError, CreditStall, CreditWake,
                ScanQueue, ScanDone, Send, SendClosed, SendFin, FinsSent,
                JoinWriters, clientVars
  <2>2. (result' = "ok") = (result = "ok")
    BY <1>3 DEF SeeDead, ReadTarget, ReadError, CreditStall, CreditWake,
                ScanQueue, ScanDone, Send, SendClosed, SendFin, FinsSent,
                JoinWriters, StreamInv, Scheduling
  <2> QED BY <2>1, <2>2
<1>4. CASE \E i \in Subflows : ClientReceive(i)
  <2>1. UNCHANGED <<result, offset, taken>> /\ finals \subseteq finals'
    BY <1>4 DEF ClientReceive, downloadVars
  <2>2. finals' \subseteq {offset} /\ (finals' # {} => result = "ok")
    BY <1>4, <2>1, NextStream DEF StreamInv, CreditInv
  <2>3. CASE taken \in finals' /\ taken \notin finals
    BY <2>1, <2>2, <2>3 DEF BS!BSNext, BS!End
  <2>4. CASE (taken \in finals') = (taken \in finals)
    BY <2>1, <2>4
  <2> QED BY <2>1, <2>3, <2>4
<1>5. CASE ClientTake
  <2>1. taken < offset /\ taken' = taken + 1 /\ taken \in Nat /\ offset \in Nat
        /\ UNCHANGED <<result, offset, finals>>
    BY <1>5 DEF ClientTake, downloadVars, CreditInv, WithinOffset, TypeOK
  <2>2. taken \notin finals
    BY <2>1 DEF StreamInv
  <2>3. taken' \in finals => result = "ok" /\ taken' = offset
    BY <2>1 DEF StreamInv
  <2> QED BY <2>1, <2>2, <2>3 DEF BS!BSNext, BS!Deliver
<1>6. CASE \/ UploadCloses \/ UploadFails \/ Done \/ UNCHANGED vars
           \/ \E i \in Subflows : Writer(i) \/ WriterFail(i)
           \/ \E i \in Joins : Reader(i) \/ ReaderExit(i) \/ ClientReport(i)
  <2>1. UNCHANGED <<result, offset, taken, finals>>
    BY <1>6 DEF UploadCloses, UploadFails, Done, vars, Writer, WriterRecv,
                WriterWrite, WriterDrained, WriterExit, WriterFail, Reader,
                ReaderLoad, ReaderSwap, ReaderEnable, ReaderNotify, ReaderExit,
                ClientReport, downloadVars, clientVars
  <2> QED BY <2>1
<1>7. CASE CreditPass \/ CreditGiveUp
  <2>1. pc \in {"credit", "await"} /\ \E m \in BOOLEAN : Encode(m)
    BY <1>7 DEF CreditPass, CreditGiveUp, CreditInv, TypeOK
  <2>2. BS!Produce
    BY <1>2, <2>1
  <2> QED BY <2>2 DEF BS!BSNext
<1>8. CASE Download
  BY <1>1, <1>3, <1>7, <1>8 DEF Download
<1> QED
  BY <1>4, <1>5, <1>6, <1>8 DEF Next

(* The striped downlink implements one ordered byte stream, for every       *)
(* number of subflows, every queue depth and window, and every set of       *)
(* connections that fail: whatever order frames and FINs arrive in, the     *)
(* client's reader takes the bytes without a gap and sees a clean end only  *)
(* after the target closed and its last byte was taken.                     *)
THEOREM DownlinkImplementsByteStream == Spec => ImplementsByteStream
<1>1. Init => BS!BSInit
  BY DEF Init, BS!BSInit
<1>2. Init => StreamInv
  BY SubflowsFacts DEF Init, StreamInv, Scheduling
<1>3. TypeOK /\ StreamInv /\ [Next]_vars => StreamInv'
  BY NextStream
<1>4. CreditInv /\ StreamInv /\ [Next]_vars => [BS!BSNext]_(BS!bsVars)
  BY StepImplements
<1> QED
  BY <1>1, <1>2, <1>3, <1>4, TypeCorrect, CreditInvariant, PTL
  DEF Spec, ImplementsByteStream, BS!BSSpec
=============================================================================
