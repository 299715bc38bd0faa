---------------------------- MODULE TunnelProofs ----------------------------
(* Theorems about Tunnel for every value of its constants.  The type        *)
(* invariant is inductive as it stands; that no digit is refused under a    *)
(* tolerance of five minutes follows from it and from arithmetic: ten       *)
(* minutes in a row take all the residues the digit is made of.  That an    *)
(* end of stream is honest, and that each direction is a byte stream, need  *)
(* the order of the frames under way (TunnelInv) and, for the second, that  *)
(* no task fails while the other relays (Calm).                             *)
EXTENDS Tunnel, TLAPS

LEMMA DirsFacts ==
  /\ \A t \in Tasks : Out(t) \in Dirs /\ In(t) \in Dirs
  /\ \A d \in Dirs : To(d) \in Tasks /\ From(d) \in Tasks
BY DEF Tasks, Dirs, Out, In, To, From

(* A digit is one of nine.                                                  *)
LEMMA DigitType == ASSUME NEW m \in Int PROVE DigitOf(m) \in Digits
<1>1. m % 10 \in 0..9
  OBVIOUS
<1>2. (m % 10) + Secret \in Int
  BY <1>1, ToleranceAssumption
<1>3. \A i \in Int : i % 9 \in 0..8
  OBVIOUS
<1>. QED  BY <1>2, <1>3 DEF DigitOf, Digits

LEMMA ClockType == ASSUME TypeOK, NEW t \in Tasks PROVE Clock(t) \in Int
BY ToleranceAssumption, BoundsAssumption DEF TypeOK, Clock

(* Some minute within five of any other has a given digit.                  *)
LEMMA DigitNear ==
  ASSUME NEW dg \in Digits, NEW m \in Int
  PROVE  \E o \in 0..5 : dg = DigitOf(m - o) \/ dg = DigitOf(m + o)
<1>. DEFINE q == (dg - Secret) % 9
            r == m % 10
<1>1. q \in 0..8 /\ r \in 0..9
  BY ToleranceAssumption DEF Digits
<1>2. (q + Secret) % 9 = dg
  BY ToleranceAssumption DEF Digits
<1>3. \A x \in Int : x % 10 = q => DigitOf(x) = dg
  BY <1>2 DEF DigitOf
<1>4. \E o \in 0..5 : (m - o) % 10 = q \/ (m + o) % 10 = q
  <2>. HIDE DEF q
  <2>1. q \in 0..8
    BY <1>1
  <2>2. \A i \in Int, j \in 0..8 :
          \E o \in 0..5 : (i - o) % 10 = j \/ (i + o) % 10 = j
    OBVIOUS
  <2>. QED  BY <2>1, <2>2
<1>. QED  BY <1>3, <1>4

(* What Fail may do keeps the types.                                        *)
LEMMA FailTypeOK ==
  ASSUME TypeOK, NEW t \in Tasks, Fail(t), reply' \in {"none", "ok", "refused"}
  PROVE  TypeOK'
<1>1. PICK e \in {"fin", "reset"}, m \in 0..Len(pipe[Out(t)]) :
        /\ ending' = [ending EXCEPT ![Out(t)] = IF @ = "open" THEN e ELSE @]
        /\ pipe' = [pipe EXCEPT ![Out(t)] =
                      IF ending[Out(t)] = "open" THEN SubSeq(@, 1, m) ELSE @]
  BY DEF Fail
<1>2. Out(t) \in Dirs /\ pipe[Out(t)] \in Seq(Frame)
  BY DirsFacts DEF TypeOK
<1>3. SubSeq(pipe[Out(t)], 1, m) \in Seq(Frame)
  BY <1>2
<1>4. pipe' \in [Dirs -> Seq(Frame)] /\ ending' \in [Dirs -> {"open", "fin", "reset"}]
  BY <1>1, <1>2, <1>3 DEF TypeOK
<1>5. ended' \in [Dirs -> BOOLEAN]
  BY DEF Fail, TypeOK
<1>. QED  BY <1>4, <1>5 DEF Fail, Goto, TypeOK, relayVars

(* What the frames of a task, and taking the next one, do to the pipes.     *)
LEMMA WrittenTypeOK ==
  ASSUME TypeOK, NEW t \in Tasks, NEW f \in Frame, Written(t, f)
  PROVE  pipe' \in [Dirs -> Seq(Frame)]
<1>1. Out(t) \in Dirs /\ pipe[Out(t)] \in Seq(Frame)
  BY DirsFacts DEF TypeOK
<1>2. Append(pipe[Out(t)], f) \in Seq(Frame)
  BY <1>1
<1>. QED  BY <1>1, <1>2 DEF Written, TypeOK

LEMMA TakenTypeOK ==
  ASSUME TypeOK, NEW t \in Tasks, Ready(t)
  PROVE  /\ Upcoming(t) \in Frame
         /\ Taken(t) => pipe' \in [Dirs -> Seq(Frame)]
<1>1. In(t) \in Dirs /\ pipe[In(t)] \in Seq(Frame) /\ pipe[In(t)] # <<>>
  BY DirsFacts DEF TypeOK, Ready
<1>2. Head(pipe[In(t)]) \in Frame /\ Tail(pipe[In(t)]) \in Seq(Frame)
  BY <1>1
<1>. QED  BY <1>1, <1>2 DEF Taken, Upcoming, TypeOK

LEMMA StampType ==
  ASSUME NEW kind \in Kinds, NEW i \in 0..MaxBlocks, NEW dg \in Digits
  PROVE  Stamp(kind, i, dg) \in Frame
BY DEF Stamp, Frame

LEMMA InitTypeOK == Init => TypeOK
BY BoundsAssumption DEF Init, TypeOK, Tasks, Dirs, Digits

LEMMA ClientTypeOK ==
  TypeOK /\ (Connect \/ ConnectFails \/ Client) => TypeOK'
<1>. SUFFICES ASSUME TypeOK, Connect \/ ConnectFails \/ Client PROVE TypeOK'
  OBVIOUS
<1>. "client" \in Tasks
  BY DEF Tasks
<1>1. CASE Connect
  BY <1>1 DEF Connect, TypeOK, Tasks, pipeVars, relayVars
<1>2. CASE ConnectFails \/ Refused \/ NoResponse
  <2>1. Fail("client") /\ reply' \in {"none", "ok", "refused"}
    BY <1>2 DEF ConnectFails, Refused, NoResponse, TypeOK
  <2>. QED  BY <2>1, FailTypeOK
<1>3. CASE SendHandshake
  <2>1. DigitOf(Clock("client")) \in Digits
    BY ClockType, DigitType
  <2>2. pc["client"] \in Kinds /\ 0 \in 0..MaxBlocks
    BY <1>3, BoundsAssumption DEF SendHandshake, Kinds
  <2>3. pipe' \in [Dirs -> Seq(Frame)]
    BY <1>3, <2>1, <2>2, StampType, WrittenTypeOK DEF SendHandshake
  <2>. QED  BY <1>3, <2>3 DEF SendHandshake, Goto, TypeOK, relayVars
<1>4. CASE ReadResponse
  <2>1. pipe' \in [Dirs -> Seq(Frame)]
    BY <1>4, TakenTypeOK DEF ReadResponse
  <2>. QED  BY <1>4, <2>1 DEF ReadResponse, Goto, TypeOK, relayVars
<1>. QED  BY <1>1, <1>2, <1>3, <1>4 DEF Client

LEMMA ServerTypeOK == TypeOK /\ Server => TypeOK'
<1>. SUFFICES ASSUME TypeOK, Server PROVE TypeOK'
  OBVIOUS
<1>. "server" \in Tasks /\ Out("server") = "down" /\ "down" \in Dirs
  BY DEF Tasks, Out, Dirs
<1>1. CASE ReadHandshake
  <2>1. DigitOf(Clock("server")) \in Digits
    BY ClockType, DigitType
  <2>2. pipe' \in [Dirs -> Seq(Frame)]
    BY <1>1, TakenTypeOK DEF ReadHandshake
  <2>3. digit' \in [Tasks -> Digits]
    BY <1>1, <2>1 DEF ReadHandshake, TypeOK
  <2>4. pc' \in [Tasks -> {"socks", "idle", "prelude", "hello", "address", "dial",
                       "yes", "no", "response", "start", "relay", "done", "failed"}]
    BY <1>1 DEF ReadHandshake, Handshaking, Goto, TypeOK
  <2>. QED  BY <1>1, <2>2, <2>3, <2>4 DEF ReadHandshake, TypeOK, relayVars
<1>2. CASE HandshakeFails \/ RespondFails
  <2>1. Fail("server") /\ reply' \in {"none", "ok", "refused"}
    BY <1>2 DEF HandshakeFails, RespondFails, TypeOK
  <2>. QED  BY <2>1, FailTypeOK
<1>3. CASE Dial
  BY <1>3 DEF Dial, Goto, TypeOK, pipeVars, relayVars
<1>4. CASE Respond \/ RespondFailure
  <2>1. /\ Stamp("yes", 0, digit["server"]) \in Frame
        /\ Stamp("no", 0, digit["server"]) \in Frame
    BY StampType, BoundsAssumption DEF TypeOK, Kinds
  <2>2. pipe' \in [Dirs -> Seq(Frame)]
    BY <1>4, <2>1, WrittenTypeOK DEF Respond, RespondFailure
  <2>. QED  BY <1>4, <2>2 DEF Respond, RespondFailure, Goto, TypeOK, relayVars
<1>. QED  BY <1>1, <1>2, <1>3, <1>4 DEF Server

LEMMA RelayTypeOK ==
  ASSUME TypeOK, NEW t \in Tasks,
         \/ StartRelay(t) \/ ReadSource(t) \/ WriteFrame(t) \/ SourceEof(t)
         \/ Deliver(t) \/ PipeEof(t) \/ ReceiveFails(t) \/ SendFails(t)
         \/ Finish(t) \/ LocalError(t)
  PROVE  TypeOK'
<1>. Out(t) \in Dirs /\ In(t) \in Dirs
  BY DirsFacts
<1>1. CASE StartRelay(t)
  <2>1. DigitOf(Clock(t)) \in Digits
    BY ClockType, DigitType
  <2>. QED  BY <1>1, <2>1 DEF StartRelay, Goto, TypeOK, pipeVars, relayVars
<1>2. CASE ReadSource(t)
  BY <1>2, BoundsAssumption DEF ReadSource, TypeOK, taskVars, pipeVars
<1>3. CASE WriteFrame(t)
  <2>1. Stamp("data", read[Out(t)], digit[t]) \in Frame
    BY StampType DEF TypeOK, Kinds
  <2>2. pipe' \in [Dirs -> Seq(Frame)]
    BY <1>3, <2>1, WrittenTypeOK DEF WriteFrame
  <2>. QED  BY <1>3, <2>2 DEF WriteFrame, TypeOK, taskVars
<1>4. CASE SourceEof(t)
  BY <1>4 DEF SourceEof, TypeOK, taskVars
<1>5. CASE Deliver(t)
  <2>1. Upcoming(t) \in Frame /\ pipe' \in [Dirs -> Seq(Frame)]
    BY <1>5, TakenTypeOK DEF Deliver
  <2>2. got' \in [Dirs -> 0..MaxBlocks]
    BY <1>5, <2>1 DEF Deliver, TypeOK, Frame
  <2>. QED  BY <1>5, <2>1, <2>2 DEF Deliver, TypeOK, taskVars
<1>6. CASE PipeEof(t)
  BY <1>6 DEF PipeEof, TypeOK, taskVars, pipeVars
<1>7. CASE ReceiveFails(t) \/ SendFails(t) \/ LocalError(t)
  <2>1. Fail(t) /\ reply' \in {"none", "ok", "refused"}
    BY <1>7 DEF ReceiveFails, SendFails, LocalError, TypeOK
  <2>. QED  BY <2>1, FailTypeOK
<1>8. CASE Finish(t)
  BY <1>8 DEF Finish, Goto, TypeOK, pipeVars, relayVars
<1>. QED  BY <1>1, <1>2, <1>3, <1>4, <1>5, <1>6, <1>7, <1>8

LEMMA OutsideTypeOK ==
  TypeOK /\ ((\E d \in Dirs : Close(d)) \/ PathBreaks \/ Tick \/ Gone) => TypeOK'
<1>. SUFFICES ASSUME TypeOK, (\E d \in Dirs : Close(d)) \/ PathBreaks \/ Tick \/ Gone
              PROVE TypeOK'
  OBVIOUS
<1>1. CASE \E d \in Dirs : Close(d)
  BY <1>1 DEF Close, TypeOK, taskVars, pipeVars, relayVars
<1>2. CASE PathBreaks
  <2>1. PICK m \in [Dirs -> 0..PipeCap] :
          /\ \A d \in Dirs : m[d] <= Len(pipe[d])
          /\ pipe' = [d \in Dirs |-> SubSeq(pipe[d], 1, m[d])]
    BY <1>2 DEF PathBreaks
  <2>2. ASSUME NEW d \in Dirs PROVE SubSeq(pipe[d], 1, m[d]) \in Seq(Frame)
    <3>1. pipe[d] \in Seq(Frame)
      BY DEF TypeOK
    <3>2. m[d] \in 0..Len(pipe[d])
      BY <2>1, <3>1, BoundsAssumption
    <3>. QED  BY <3>1, <3>2
  <2>3. pipe' \in [Dirs -> Seq(Frame)]
    BY <2>1, <2>2
  <2>. QED  BY <1>2, <2>3 DEF PathBreaks, TypeOK, taskVars, relayVars
<1>3. CASE Tick
  BY <1>3, BoundsAssumption DEF Tick, TypeOK, taskVars, pipeVars, relayVars
<1>4. CASE Gone
  BY <1>4 DEF Gone, vars, TypeOK, taskVars, pipeVars, relayVars
<1>. QED  BY <1>1, <1>2, <1>3, <1>4

LEMMA NextTypeOK == TypeOK /\ [Next]_vars => TypeOK'
<1>. SUFFICES ASSUME TypeOK, [Next]_vars PROVE TypeOK'
  OBVIOUS
<1>1. CASE Relay
  <2>1. PICK t \in Tasks :
          \/ StartRelay(t) \/ ReadSource(t) \/ WriteFrame(t) \/ SourceEof(t)
          \/ Deliver(t) \/ PipeEof(t) \/ ReceiveFails(t) \/ SendFails(t)
          \/ Finish(t) \/ LocalError(t)
    BY <1>1 DEF Relay, ClientUpload, ServerDownload, ClientDownload, ServerUpload, Tasks
  <2>. QED  BY <2>1, RelayTypeOK
<1>2. CASE UNCHANGED vars
  BY <1>2 DEF vars, TypeOK, taskVars, pipeVars, relayVars
<1>. QED  BY <1>1, <1>2, ClientTypeOK, ServerTypeOK, OutsideTypeOK DEF Next

(* Every variable of the tunnel keeps to its type.                          *)
THEOREM TypeCorrect == Spec => []TypeOK
BY InitTypeOK, NextTypeOK, PTL DEF Spec

LEMMA AnyDigitAccepted == ASSUME Tolerance >= 5, TypeOK PROVE DigitsAccepted
<1>. SUFFICES ASSUME NEW t \in Tasks, NEW j \in 1..Len(pipe[In(t)])
              PROVE  Decodes(t, pipe[In(t)][j])
  BY DEF DigitsAccepted
<1>1. pipe[In(t)] \in Seq(Frame)
  BY DirsFacts DEF TypeOK
<1>2. pipe[In(t)][j].digit \in Digits /\ Clock(t) \in Int
  <2>1. pipe[In(t)][j] \in Frame
    BY <1>1
  <2>. QED  BY <2>1, ClockType DEF Frame
<1>3. PICK o \in 0..5 : \/ pipe[In(t)][j].digit = DigitOf(Clock(t) - o)
                        \/ pipe[In(t)][j].digit = DigitOf(Clock(t) + o)
  BY <1>2, DigitNear
<1>4. o \in 0..Tolerance
  BY ToleranceAssumption
<1>. QED  BY <1>3, <1>4 DEF Decodes, Accepts

(* With five minutes of tolerance, the default of max_time_diff_secs, no    *)
(* frame under way is ever refused for its digit, whatever the secret, the  *)
(* skew of the clocks and the length of the session.                        *)
THEOREM DigitsNeverRefused ==
  ASSUME Tolerance >= 5 PROVE Spec => []DigitsAccepted
BY AnyDigitAccepted, TypeCorrect, PTL

-----------------------------------------------------------------------------
(* That an end of stream is honest.  The strengthening follows the frames   *)
(* of one direction while neither task has failed and the connection stands *)
(* (Whole): first the frames of the handshake that are still under way,     *)
(* then every block from the one after got to the last that was stamped.    *)
ClientStages == {"socks", "prelude", "hello", "address", "response", "start",
                 "relay", "done", "failed"}
ServerStages == {"idle", "prelude", "hello", "address", "dial", "yes", "no",
                 "start", "relay", "done", "failed"}
StageOK ==
  /\ pc["client"] \in ClientStages /\ pc["server"] \in ServerStages
  /\ pc["client"] = "socks" => pc["server"] = "idle"

Answered(t) == IF pc[t] \in {"start", "relay", "done"} THEN 1 ELSE 0

Sent(d) == IF d = "down" THEN Answered("server")
           ELSE IF pc["client"] \in {"socks", "prelude"} THEN 0
           ELSE IF pc["client"] = "hello" THEN 1
           ELSE IF pc["client"] = "address" THEN 2 ELSE 3

Heard(d) == IF d = "down" THEN Answered("client")
            ELSE IF pc["server"] \in {"idle", "prelude"} THEN 0
            ELSE IF pc["server"] = "hello" THEN 1
            ELSE IF pc["server"] = "address" THEN 2 ELSE 3

Stamped(d) == IF sender[d] = "write" THEN read[d] - 1 ELSE read[d]

Whole(d) ==
  pc[From(d)] # "failed" /\ pc[To(d)] # "failed" /\ ending[d] # "reset"

InOrder(d) ==
  LET h == Sent(d) - Heard(d) IN
    /\ h >= 0 /\ got[d] <= Stamped(d)
    /\ Len(pipe[d]) = h + Stamped(d) - got[d]
    /\ \A j \in 1..Len(pipe[d]) : j > h => pipe[d][j].n = got[d] + j - h

SideInv(d) ==
  /\ sender[d] # "read" \/ read[d] # 0 => pc[From(d)] \in {"relay", "done", "failed"}
  /\ sender[d] = "write" => read[d] > 0
  /\ sender[d] = "done" => closed[d]
  /\ pc[From(d)] # "failed" /\ ending[d] = "fin" => sender[d] = "done"
  /\ ended[d] => \/ pc[From(d)] = "failed" \/ pc[To(d)] = "failed"
                 \/ /\ receiver[d] = "done" /\ sender[d] = "done"
                    /\ got[d] = read[d]
  /\ Whole(d) => InOrder(d)

TunnelInv == TypeOK /\ StageOK /\ \A d \in Dirs : SideInv(d)

LEMMA EndsFacts ==
  /\ \A t \in Tasks : From(Out(t)) = t /\ To(In(t)) = t
  /\ \A t \in Tasks : \A d \in Dirs : From(d) = t \/ To(d) = t
  /\ \A t \in Tasks : \A d \in Dirs : d = Out(t) \/ d = In(t)
  /\ \A d \in Dirs : From(d) # To(d)
BY DEF Tasks, Dirs, Out, In, To, From

(* A task that fails takes both directions out of Whole.                    *)
LEMMA FailSide ==
  ASSUME TunnelInv, NEW t \in Tasks, Fail(t), pc[t] # "idle"
  PROVE  StageOK' /\ \A d \in Dirs : SideInv(d)'
<1>1. pc' = [pc EXCEPT ![t] = "failed"]
      /\ UNCHANGED <<sender, receiver, read, got, closed>>
  BY DEF Fail, Goto, relayVars
<1>2. \A d \in Dirs : d # Out(t) => ending'[d] = ending[d]
  BY DirsFacts DEF Fail, TunnelInv, TypeOK
<1>3. StageOK'
  BY <1>1 DEF TunnelInv, TypeOK, StageOK, Tasks, ClientStages, ServerStages
<1>4. ASSUME NEW d \in Dirs PROVE SideInv(d)'
  <2>1. pc'[t] = "failed" /\ ~ Whole(d)'
    BY <1>1, EndsFacts DEF Whole, TunnelInv, TypeOK
  <2>2. CASE d = Out(t)
    BY <1>1, <2>1, <2>2, EndsFacts DEF TunnelInv, SideInv
  <2>3. CASE d # Out(t)
    <3>1. pc'[From(d)] = pc[From(d)] /\ ending'[d] = ending[d]
      BY <1>1, <1>2, <2>3, EndsFacts, DirsFacts DEF TunnelInv, TypeOK
    <3>2. To(d) = t
      BY <2>3, EndsFacts
    <3> QED BY <1>1, <2>1, <3>1, <3>2 DEF TunnelInv, SideInv
  <2> QED BY <2>2, <2>3
<1> QED BY <1>3, <1>4

(* A direction that no variable of which changes keeps its invariant.       *)
SideVars(d) == <<sender[d], receiver[d], read[d], got[d], closed[d], ended[d],
                 pipe[d], ending[d]>>
Stages(d) == <<pc[From(d)] \in {"relay", "done", "failed"}, pc[From(d)] = "failed",
               pc[To(d)] = "failed", Sent(d), Heard(d)>>

LEMMA SideKept ==
  ASSUME NEW d \in Dirs, SideInv(d), UNCHANGED SideVars(d), UNCHANGED Stages(d)
  PROVE  SideInv(d)'
<1>1. Stamped(d)' = Stamped(d) /\ Whole(d)' = Whole(d)
  BY DEF SideVars, Stages, Stamped, Whole
<1>2. InOrder(d)' = InOrder(d)
  BY <1>1 DEF SideVars, Stages, InOrder
<1> QED BY <1>1, <1>2 DEF SideVars, Stages, SideInv

(* Sizes are numbers, whatever the state.                                   *)
LEMMA SizeFacts ==
  ASSUME TunnelInv, NEW d \in Dirs
  PROVE  /\ Sent(d) \in 0..3 /\ Heard(d) \in 0..3 /\ Stamped(d) \in 0..MaxBlocks
         /\ read[d] \in Nat /\ got[d] \in Nat
         /\ pipe[d] \in Seq(Frame) /\ Len(pipe[d]) \in Nat
<1>1. read[d] \in 0..MaxBlocks /\ got[d] \in 0..MaxBlocks /\ pipe[d] \in Seq(Frame)
  BY DEF TunnelInv, TypeOK
<1>2. Sent(d) \in 0..3 /\ Heard(d) \in 0..3
  BY DEF Sent, Heard, Answered
<1>3. Stamped(d) \in 0..MaxBlocks
  BY <1>1, BoundsAssumption DEF TunnelInv, SideInv, Stamped
<1> QED BY <1>1, <1>2, <1>3, BoundsAssumption

LEMMA Ends ==
  /\ Out("client") = "up" /\ In("client") = "down" /\ Out("server") = "down"
  /\ In("server") = "up" /\ Dirs = {"up", "down"} /\ Tasks = {"client", "server"}
  /\ From("up") = "client" /\ To("up") = "server"
  /\ From("down") = "server" /\ To("down") = "client"
BY DEF Out, In, From, To, Dirs, Tasks

(* Before a relay a direction carries nothing but its handshake.            *)
LEMMA NoBlocksYet ==
  ASSUME TunnelInv, NEW d \in Dirs, pc[From(d)] \notin {"relay", "done", "failed"}
  PROVE  /\ sender[d] = "read" /\ read[d] = 0 /\ Stamped(d) = 0
         /\ InOrder(d) => got[d] = 0 /\ Len(pipe[d]) = Sent(d) - Heard(d)
<1>1. sender[d] = "read" /\ read[d] = 0 /\ Stamped(d) = 0
  BY DEF TunnelInv, SideInv, Stamped
<1> QED BY <1>1, SizeFacts DEF InOrder

(* One more frame of the handshake is written, or the next one is taken.    *)
LEMMA HandshakeWritten ==
  ASSUME TunnelInv, NEW d \in Dirs, pc[From(d)] \notin {"relay", "done", "failed"},
         pc'[From(d)] # "failed", NEW f, pipe'[d] = Append(pipe[d], f),
         pc'[To(d)] = pc[To(d)], Sent(d)' = Sent(d) + 1, Heard(d)' = Heard(d),
         UNCHANGED <<sender[d], receiver[d], read[d], got[d], closed[d], ended[d],
                     ending[d]>>
  PROVE  SideInv(d)'
<1>1. sender[d] = "read" /\ read[d] = 0
  BY NoBlocksYet
<1>2. Stamped(d)' = Stamped(d)
  BY DEF Stamped
<1>3. ASSUME Whole(d)' PROVE InOrder(d)'
  <2>1. InOrder(d)
    BY <1>3 DEF Whole, TunnelInv, SideInv
  <2>2. got[d] = 0 /\ Len(pipe[d]) = Sent(d) - Heard(d) /\ Stamped(d) = 0
    BY <2>1, NoBlocksYet
  <2>3. Len(pipe'[d]) = Len(pipe[d]) + 1
    BY SizeFacts
  <2>4. Sent(d)' - Heard(d)' = Sent(d) - Heard(d) + 1 /\ Stamped(d)' = 0 /\ got'[d] = 0
    BY <1>2, <2>2, SizeFacts
  <2>5. Sent(d) - Heard(d) >= 0
    BY <2>1 DEF InOrder
  <2>6. Sent(d)' - Heard(d)' >= 0 /\ Len(pipe'[d]) = Sent(d)' - Heard(d)'
    BY <2>2, <2>3, <2>4, <2>5, SizeFacts
  <2> QED BY <2>4, <2>6, SizeFacts DEF InOrder
<1> QED BY <1>1, <1>3 DEF SideInv, TunnelInv

LEMMA HandshakeTaken ==
  ASSUME TunnelInv, NEW d \in Dirs, pc[To(d)] \notin {"relay", "done", "failed"},
         pipe[d] # <<>>, pipe'[d] = Tail(pipe[d]),
         pc'[From(d)] = pc[From(d)], Sent(d)' = Sent(d), Heard(d)' = Heard(d) + 1,
         pc[From(d)] \in {"relay", "done"} => Heard(d) < Sent(d),
         UNCHANGED <<sender[d], receiver[d], read[d], got[d], closed[d], ended[d],
                     ending[d]>>
  PROVE  SideInv(d)'
<1>2. Stamped(d)' = Stamped(d)
  BY DEF Stamped
<1>3. ASSUME Whole(d)' PROVE InOrder(d)'
  <2>1. InOrder(d)
    BY <1>3 DEF Whole, TunnelInv, SideInv
  <2>2. Sent(d) > Heard(d)
    <3>1. CASE pc[From(d)] \in {"relay", "done"}
      BY <3>1, SizeFacts
    <3>2. CASE pc[From(d)] \notin {"relay", "done"}
      <4>1. Len(pipe[d]) = Sent(d) - Heard(d)
        BY <1>3, <2>1, <3>2, NoBlocksYet DEF Whole
      <4>2. Len(pipe[d]) > 0
        BY SizeFacts
      <4> QED BY <4>1, <4>2, SizeFacts
    <3> QED BY <3>1, <3>2
  <2> DEFINE h == Sent(d) - Heard(d)
  <2>3. /\ Len(pipe'[d]) = Len(pipe[d]) - 1
        /\ \A j \in 1..Len(pipe'[d]) : pipe'[d][j] = pipe[d][j + 1]
    BY SizeFacts
  <2>4. Sent(d)' - Heard(d)' = h - 1 /\ h \in Int /\ h > 0
    BY <2>2, SizeFacts
  <2>5. /\ got[d] <= Stamped(d) /\ Len(pipe[d]) = h + Stamped(d) - got[d]
        /\ \A j \in 1..Len(pipe[d]) : j > h => pipe[d][j].n = got[d] + j - h
    BY <2>1 DEF InOrder
  <2> HIDE DEF h
  <2>6. Len(pipe'[d]) = (h - 1) + Stamped(d) - got[d]
    BY <2>3, <2>4, <2>5, SizeFacts
  <2>7. ASSUME NEW j \in 1..Len(pipe'[d]), j > h - 1
        PROVE  pipe'[d][j].n = got[d] + j - (h - 1)
    <3>1. j + 1 \in 1..Len(pipe[d]) /\ j + 1 > h
      BY <2>3, <2>4, <2>7, SizeFacts
    <3>2. pipe[d][j + 1].n = got[d] + (j + 1) - h
      BY <2>5, <3>1
    <3> QED BY <2>3, <2>4, <3>2, SizeFacts
  <2> QED BY <1>2, <2>4, <2>5, <2>6, <2>7 DEF InOrder
<1> QED BY <1>3 DEF SideInv, TunnelInv

LEMMA ClientSide ==
  ASSUME TunnelInv, Connect \/ SendHandshake \/ ReadResponse
  PROVE  StageOK' /\ \A d \in Dirs : SideInv(d)'
<1> USE Ends
<1>0. pc \in [Tasks -> ClientStages \cup ServerStages] /\ StageOK
  BY DEF TunnelInv, TypeOK, ClientStages, ServerStages
<1>1. CASE Connect
  <2>1. /\ pc' = [client |-> "prelude", server |-> "prelude"]
        /\ pc["client"] = "socks" /\ pc["server"] = "idle"
        /\ UNCHANGED <<pipe, ending, sender, receiver, read, got, closed, ended>>
    BY <1>0, <1>1 DEF Connect, pipeVars, relayVars, StageOK
  <2>2. ASSUME NEW d \in Dirs PROVE UNCHANGED SideVars(d) /\ UNCHANGED Stages(d)
    BY <2>1 DEF SideVars, Stages, Sent, Heard, Answered
  <2>3. StageOK'
    BY <2>1 DEF StageOK, ClientStages, ServerStages
  <2> QED BY <2>2, <2>3, SideKept DEF TunnelInv
<1>2. CASE SendHandshake
  <2>1. /\ pc["client"] \in {"prelude", "hello", "address"}
        /\ pc' = [pc EXCEPT !["client"] =
                    [prelude |-> "hello", hello |-> "address",
                     address |-> "response"][pc["client"]]]
        /\ pipe' = [pipe EXCEPT !["up"] = Append(@, Stamp(pc["client"], 0, DigitOf(Clock("client"))))]
        /\ UNCHANGED <<ending, sender, receiver, read, got, closed, ended>>
    BY <1>2 DEF SendHandshake, Goto, Written, relayVars
  <2>2. pc'["server"] = pc["server"] /\ Sent("up")' = Sent("up") + 1
        /\ Heard("up")' = Heard("up") /\ pc'["client"] \in {"hello", "address", "response"}
    BY <1>0, <2>1 DEF Sent, Heard
  <2>3. SideInv("up")'
    <3>1. pipe'["up"] = Append(pipe["up"], Stamp(pc["client"], 0, DigitOf(Clock("client"))))
      BY <2>1 DEF TunnelInv, TypeOK
    <3> QED BY <2>1, <2>2, <3>1, HandshakeWritten
  <2>4. SideInv("down")'
    <3>1. UNCHANGED SideVars("down") /\ UNCHANGED Stages("down")
      BY <2>1, <2>2 DEF SideVars, Stages, Sent, Heard, Answered, TunnelInv, TypeOK
    <3> QED BY <3>1, SideKept DEF TunnelInv
  <2>5. StageOK'
    BY <1>0, <2>2 DEF StageOK, ClientStages
  <2> QED BY <2>3, <2>4, <2>5
<1>3. CASE ReadResponse
  <2>1. /\ pc["client"] = "response" /\ pc' = [pc EXCEPT !["client"] = "start"]
        /\ pipe["down"] # <<>> /\ pipe' = [pipe EXCEPT !["down"] = Tail(@)]
        /\ UNCHANGED <<ending, sender, receiver, read, got, closed, ended>>
    BY <1>3 DEF ReadResponse, Ready, Taken, Goto, relayVars
  <2>2. pc'["server"] = pc["server"] /\ pc'["client"] = "start"
    BY <1>0, <2>1
  <2>3. SideInv("down")'
    <3>1. /\ Heard("down")' = Heard("down") + 1 /\ Sent("down")' = Sent("down")
          /\ pc["server"] \in {"relay", "done"} => Heard("down") < Sent("down")
      BY <2>1, <2>2 DEF Heard, Sent, Answered
    <3>2. pipe'["down"] = Tail(pipe["down"])
      BY <2>1 DEF TunnelInv, TypeOK
    <3> QED BY <2>1, <2>2, <3>1, <3>2, HandshakeTaken
  <2>4. SideInv("up")'
    <3>1. UNCHANGED SideVars("up") /\ UNCHANGED Stages("up")
      BY <2>1, <2>2 DEF SideVars, Stages, Sent, Heard, TunnelInv, TypeOK
    <3> QED BY <3>1, SideKept DEF TunnelInv
  <2>5. StageOK'
    BY <1>0, <2>2 DEF StageOK, ClientStages
  <2> QED BY <2>3, <2>4, <2>5
<1> QED BY <1>1, <1>2, <1>3

LEMMA ServerSide ==
  ASSUME TunnelInv, ReadHandshake \/ Dial \/ Respond \/ RespondFailure
  PROVE  StageOK' /\ \A d \in Dirs : SideInv(d)'
<1> USE Ends
<1>0. pc \in [Tasks -> ClientStages \cup ServerStages] /\ StageOK
  BY DEF TunnelInv, TypeOK, ClientStages, ServerStages
<1>1. CASE ReadHandshake
  <2>1. /\ pc["server"] \in {"prelude", "hello", "address"}
        /\ pc' = [pc EXCEPT !["server"] =
                    [prelude |-> "hello", hello |-> "address",
                     address |-> "dial"][pc["server"]]]
        /\ pipe["up"] # <<>> /\ pipe' = [pipe EXCEPT !["up"] = Tail(@)]
        /\ UNCHANGED <<ending, sender, receiver, read, got, closed, ended>>
    BY <1>1 DEF ReadHandshake, Handshaking, Ready, Taken, Goto, relayVars
  <2>2. pc'["client"] = pc["client"] /\ pc'["server"] \in {"hello", "address", "dial"}
    BY <1>0, <2>1
  <2>3. SideInv("up")'
    <3>1. /\ Heard("up")' = Heard("up") + 1 /\ Sent("up")' = Sent("up")
          /\ pc["client"] \in {"relay", "done"} => Heard("up") < Sent("up")
      BY <1>0, <2>1, <2>2 DEF Heard, Sent
    <3>2. pipe'["up"] = Tail(pipe["up"])
      BY <2>1 DEF TunnelInv, TypeOK
    <3> QED BY <2>1, <2>2, <3>1, <3>2, HandshakeTaken
  <2>4. SideInv("down")'
    <3>1. UNCHANGED SideVars("down") /\ UNCHANGED Stages("down")
      BY <2>1, <2>2 DEF SideVars, Stages, Sent, Heard, Answered, TunnelInv, TypeOK
    <3> QED BY <3>1, SideKept DEF TunnelInv
  <2>5. StageOK'
    BY <1>0, <2>1, <2>2 DEF StageOK, ServerStages
  <2> QED BY <2>3, <2>4, <2>5
<1>2. CASE Dial
  <2>1. /\ pc["server"] = "dial" /\ pc'["server"] \in {"yes", "no"}
        /\ pc'["client"] = pc["client"]
        /\ UNCHANGED <<pipe, ending, sender, receiver, read, got, closed, ended>>
    BY <1>0, <1>2 DEF Dial, Goto, pipeVars, relayVars
  <2>2. ASSUME NEW d \in Dirs PROVE UNCHANGED SideVars(d) /\ UNCHANGED Stages(d)
    BY <2>1 DEF SideVars, Stages, Sent, Heard, Answered
  <2>3. StageOK'
    BY <1>0, <2>1 DEF StageOK, ServerStages
  <2> QED BY <2>2, <2>3, SideKept DEF TunnelInv
<1>3. CASE Respond
  <2>1. /\ pc["server"] = "yes" /\ pc' = [pc EXCEPT !["server"] = "start"]
        /\ pipe' = [pipe EXCEPT !["down"] = Append(@, Stamp("yes", 0, digit["server"]))]
        /\ UNCHANGED <<ending, sender, receiver, read, got, closed, ended>>
    BY <1>3 DEF Respond, Goto, Written, relayVars
  <2>2. pc'["client"] = pc["client"] /\ pc'["server"] = "start"
    BY <1>0, <2>1
  <2>3. SideInv("down")'
    <3>1. Sent("down")' = Sent("down") + 1 /\ Heard("down")' = Heard("down")
      BY <2>1, <2>2 DEF Sent, Heard, Answered
    <3>2. pipe'["down"] = Append(pipe["down"], Stamp("yes", 0, digit["server"]))
      BY <2>1 DEF TunnelInv, TypeOK
    <3> QED BY <2>1, <2>2, <3>1, <3>2, HandshakeWritten
  <2>4. SideInv("up")'
    <3>1. UNCHANGED SideVars("up") /\ UNCHANGED Stages("up")
      BY <2>1, <2>2 DEF SideVars, Stages, Sent, Heard, TunnelInv, TypeOK
    <3> QED BY <3>1, SideKept DEF TunnelInv
  <2>5. StageOK'
    BY <1>0, <2>1, <2>2 DEF StageOK, ServerStages
  <2> QED BY <2>3, <2>4, <2>5
<1>4. CASE RespondFailure
  <2>1. /\ pc["server"] = "no" /\ pc'["server"] = "failed" /\ pc'["client"] = pc["client"]
        /\ ending'["up"] = ending["up"]
        /\ UNCHANGED <<sender, receiver, read, got, closed, ended>>
    BY <1>0, <1>4 DEF RespondFailure, Goto, relayVars, TunnelInv, TypeOK
  <2>2. SideInv("up")' /\ SideInv("down")'
    BY <2>1 DEF TunnelInv, SideInv, Whole
  <2>3. StageOK'
    BY <1>0, <2>1 DEF StageOK, ServerStages
  <2> QED BY <2>2, <2>3
<1> QED BY <1>1, <1>2, <1>3, <1>4

(* The steps of a relay that change one direction leave the other alone.    *)
LEMMA OtherSide ==
  ASSUME TunnelInv, NEW d \in Dirs, UNCHANGED <<pc, ending>>,
         \A e \in Dirs : e # d => UNCHANGED SideVars(e), SideInv(d)'
  PROVE  StageOK' /\ \A e \in Dirs : SideInv(e)'
<1>1. \A e \in Dirs : UNCHANGED Stages(e)
  BY DEF Stages, Sent, Heard, Answered
<1>2. \A e \in Dirs : SideInv(e)'
  BY <1>1, SideKept DEF TunnelInv
<1> QED BY <1>2 DEF TunnelInv, StageOK

LEMMA SendingSide ==
  ASSUME TunnelInv, NEW t \in Tasks, ReadSource(t) \/ WriteFrame(t) \/ SourceEof(t)
  PROVE  StageOK' /\ \A d \in Dirs : SideInv(d)'
<1> DEFINE d == Out(t)
<1>0. d \in Dirs /\ From(d) = t /\ pc[t] = "relay" /\ pc' = pc
  BY DirsFacts, EndsFacts DEF ReadSource, WriteFrame, SourceEof, taskVars
<1>1. UNCHANGED <<Sent(d), Heard(d)>>
  BY <1>0 DEF Sent, Heard, Answered
<1> HIDE DEF d
<1>2. CASE ReadSource(t)
  <2>1. /\ sender[d] = "read" /\ sender' = [sender EXCEPT ![d] = "write"] /\ ~ closed[d]
        /\ read' = [read EXCEPT ![d] = @ + 1]
        /\ UNCHANGED <<pipe, ending, receiver, got, closed, ended>>
    BY <1>2 DEF ReadSource, pipeVars, d
  <2>2. sender'[d] = "write" /\ read'[d] = read[d] + 1 /\ Stamped(d)' = Stamped(d)
    BY <1>0, <2>1, SizeFacts DEF TunnelInv, TypeOK, Stamped
  <2>3. Whole(d)' => InOrder(d)'
    BY <1>0, <1>1, <2>1, <2>2 DEF TunnelInv, SideInv, Whole, InOrder
  <2>4. ended[d] => pc[To(d)] = "failed"
    BY <1>0, <2>1 DEF TunnelInv, SideInv
  <2>5. SideInv(d)'
    BY <1>0, <2>1, <2>2, <2>3, <2>4, SizeFacts DEF TunnelInv, SideInv
  <2>6. \A e \in Dirs : e # d => UNCHANGED SideVars(e)
    BY <2>1 DEF SideVars, TunnelInv, TypeOK
  <2> QED BY <1>0, <2>1, <2>5, <2>6, OtherSide
<1>3. CASE WriteFrame(t)
  <2>1. /\ sender[d] = "write" /\ sender' = [sender EXCEPT ![d] = "read"]
        /\ pipe' = [pipe EXCEPT ![d] = Append(@, Stamp("data", read[d], digit[t]))]
        /\ UNCHANGED <<ending, receiver, read, got, closed, ended>>
    BY <1>3 DEF WriteFrame, Written, d
  <2>2. /\ sender'[d] = "read" /\ read[d] > 0
        /\ Stamped(d) = read[d] - 1 /\ Stamped(d)' = read[d]
        /\ pipe'[d] = Append(pipe[d], Stamp("data", read[d], digit[t]))
    BY <1>0, <2>1 DEF TunnelInv, TypeOK, SideInv, Stamped
  <2>3. ASSUME Whole(d)' PROVE InOrder(d)'
    <3> DEFINE h == Sent(d) - Heard(d)
               f == Stamp("data", read[d], digit[t])
    <3>0. /\ h \in Int /\ read[d] \in Nat /\ got[d] \in Nat
          /\ pipe[d] \in Seq(Frame) /\ Len(pipe[d]) \in Nat
      BY <1>0, SizeFacts
    <3>1. /\ h >= 0 /\ got[d] <= read[d] - 1
          /\ Len(pipe[d]) = h + (read[d] - 1) - got[d]
          /\ \A j \in 1..Len(pipe[d]) : j > h => pipe[d][j].n = got[d] + j - h
      <4>1. InOrder(d)
        BY <1>0, <2>1, <2>3 DEF TunnelInv, SideInv, Whole
      <4> QED BY <2>2, <4>1 DEF InOrder
    <3>2. h' = h /\ f.n = read[d]
      BY <1>1 DEF Stamp
    <3>3. /\ Len(pipe'[d]) = Len(pipe[d]) + 1
          /\ pipe'[d][Len(pipe[d]) + 1] = f
          /\ \A j \in 1..Len(pipe[d]) : pipe'[d][j] = pipe[d][j]
      BY <2>2, <3>0
    <3> HIDE DEF h, f
    <3>4. ASSUME NEW j \in 1..Len(pipe'[d]), j > h PROVE pipe'[d][j].n = got[d] + j - h
      <4>1. CASE j \in 1..Len(pipe[d])
        BY <3>1, <3>3, <3>4, <4>1
      <4>2. CASE j = Len(pipe[d]) + 1
        <5>1. pipe'[d][j].n = read[d]
          BY <3>2, <3>3, <4>2
        <5>2. j - h = read[d] - got[d]
          BY <3>0, <3>1, <4>2
        <5> QED BY <3>0, <5>1, <5>2
      <4> QED BY <3>0, <3>3, <4>1, <4>2
    <3>5. /\ h >= 0 /\ got[d] <= read[d] /\ Len(pipe'[d]) = h + read[d] - got[d]
      BY <3>0, <3>1, <3>3
    <3> QED BY <1>1, <2>1, <2>2, <3>4, <3>5 DEF InOrder, h
  <2>4. ended[d] => pc[To(d)] = "failed"
    BY <1>0, <2>1 DEF TunnelInv, SideInv
  <2>5. SideInv(d)'
    BY <1>0, <2>1, <2>2, <2>3, <2>4 DEF TunnelInv, SideInv
  <2>6. \A e \in Dirs : e # d => UNCHANGED SideVars(e)
    BY <2>1 DEF SideVars, TunnelInv, TypeOK
  <2> QED BY <1>0, <2>1, <2>5, <2>6, OtherSide
<1>4. CASE SourceEof(t)
  <2>1. /\ sender[d] = "read" /\ sender' = [sender EXCEPT ![d] = "done"] /\ closed[d]
        /\ ending[d] = "open" /\ ending' = [ending EXCEPT ![d] = "fin"]
        /\ UNCHANGED <<pc, pipe, receiver, read, got, closed, ended>>
    BY <1>4 DEF SourceEof, taskVars, d
  <2>2. sender'[d] = "done" /\ ending'[d] = "fin" /\ Stamped(d)' = Stamped(d)
    BY <1>0, <2>1 DEF TunnelInv, TypeOK, Stamped
  <2>3. SideInv(d)'
    <3>1. Whole(d)' => InOrder(d)
      BY <1>0, <2>1 DEF TunnelInv, SideInv, Whole
    <3>2. InOrder(d)' = InOrder(d)
      BY <1>1, <2>1, <2>2 DEF InOrder
    <3>3. ended[d] => pc[To(d)] = "failed"
      BY <1>0, <2>1 DEF TunnelInv, SideInv
    <3> QED BY <1>0, <2>1, <2>2, <3>1, <3>2, <3>3 DEF TunnelInv, SideInv
  <2>4. ASSUME NEW e \in Dirs, e # d PROVE SideInv(e)'
    <3>1. UNCHANGED SideVars(e) /\ UNCHANGED Stages(e)
      BY <2>1, <2>4 DEF SideVars, Stages, Sent, Heard, Answered, TunnelInv, TypeOK
    <3> QED BY <3>1, SideKept DEF TunnelInv
  <2>5. StageOK'
    BY <2>1 DEF TunnelInv, StageOK
  <2> QED BY <2>3, <2>4, <2>5
<1> QED BY <1>2, <1>3, <1>4

LEMMA TailFacts ==
  ASSUME NEW S, NEW s \in Seq(S), s # <<>>
  PROVE  /\ Len(Tail(s)) = Len(s) - 1 /\ Len(s) >= 1 /\ Head(s) = s[1]
         /\ \A j \in 1..Len(Tail(s)) : Tail(s)[j] = s[j + 1]
OBVIOUS

LEMMA ReceivingSide ==
  ASSUME TunnelInv, NEW t \in Tasks, Deliver(t) \/ PipeEof(t)
  PROVE  StageOK' /\ \A d \in Dirs : SideInv(d)'
<1> DEFINE d == In(t)
<1>0. d \in Dirs /\ To(d) = t /\ pc[t] = "relay" /\ pc' = pc
      /\ UNCHANGED <<ending, sender, read, closed>>
  BY DirsFacts, EndsFacts DEF Deliver, PipeEof, taskVars, pipeVars
<1>1. /\ UNCHANGED <<Sent(d), Heard(d), Stamped(d)>>
      /\ Whole(d)' = Whole(d)
  BY <1>0 DEF Sent, Heard, Answered, Stamped, Whole
(* A task in its relay has heard the whole handshake.                       *)
<1>2. Sent(d) <= Heard(d)
  BY <1>0, Ends DEF Sent, Heard, Answered
<1>3. InOrder(d) => /\ got[d] <= Stamped(d) /\ Len(pipe[d]) = Stamped(d) - got[d]
                    /\ Sent(d) - Heard(d) = 0
                    /\ \A j \in 1..Len(pipe[d]) : pipe[d][j].n = got[d] + j
  <2>1. ASSUME InOrder(d) PROVE Sent(d) - Heard(d) = 0
    BY <1>0, <1>2, <2>1, SizeFacts DEF InOrder
  <2> QED BY <1>0, <2>1, SizeFacts DEF InOrder
<1> HIDE DEF d
<1>4. CASE Deliver(t)
  <2>1. /\ receiver[d] = "run" /\ pipe[d] # <<>> /\ pipe' = [pipe EXCEPT ![d] = Tail(@)]
        /\ got' = [got EXCEPT ![d] = Head(pipe[d]).n]
        /\ UNCHANGED <<receiver, ended>>
    BY <1>4 DEF Deliver, Ready, Taken, Upcoming, d
  <2>2. got'[d] = Head(pipe[d]).n /\ pipe'[d] = Tail(pipe[d])
    BY <1>0, <2>1 DEF TunnelInv, TypeOK, SideInv
  <2>4. ended[d] => pc[From(d)] = "failed"
    BY <1>0, <2>1 DEF TunnelInv, SideInv
  <2>3. ASSUME Whole(d) PROVE InOrder(d)'
    <3>0. /\ pipe[d] \in Seq(Frame) /\ Len(pipe[d]) \in Nat
          /\ Stamped(d) \in Nat /\ got[d] \in Nat
      BY <1>0, SizeFacts
    <3>1. /\ got[d] <= Stamped(d) /\ Len(pipe[d]) = Stamped(d) - got[d]
          /\ Sent(d) - Heard(d) = 0
          /\ \A j \in 1..Len(pipe[d]) : pipe[d][j].n = got[d] + j
      BY <1>0, <1>3, <2>3 DEF TunnelInv, SideInv
    <3>2. /\ Len(pipe'[d]) = Len(pipe[d]) - 1 /\ Len(pipe[d]) >= 1
          /\ Head(pipe[d]) = pipe[d][1]
          /\ \A j \in 1..Len(pipe'[d]) : pipe'[d][j] = pipe[d][j + 1]
      BY <2>1, <2>2, <3>0, TailFacts
    <3>3. got'[d] = got[d] + 1
      <4>1. 1 \in 1..Len(pipe[d])
        BY <3>0, <3>2
      <4> QED BY <2>2, <3>1, <3>2, <4>1
    <3>4. ASSUME NEW j \in 1..Len(pipe'[d]) PROVE pipe'[d][j].n = got'[d] + j
      <4>1. j + 1 \in 1..Len(pipe[d])
        BY <3>0, <3>2
      <4>2. pipe'[d][j] = pipe[d][j + 1]
        BY <3>2
      <4>3. pipe[d][j + 1].n = got[d] + (j + 1)
        BY <3>1, <4>1
      <4>4. j \in Nat
        BY <3>0, <3>2
      <4>5. got[d] + (j + 1) = got'[d] + j
        BY <3>0, <3>3, <4>4
      <4> QED BY <4>2, <4>3, <4>5
    <3>5. got'[d] <= Stamped(d) /\ Len(pipe'[d]) = Stamped(d) - got'[d]
      BY <3>0, <3>1, <3>2, <3>3
    <3>6. Sent(d)' - Heard(d)' = 0 /\ Stamped(d)' = Stamped(d)
      BY <1>1, <3>1
    <3> QED BY <1>0, <3>4, <3>5, <3>6, SizeFacts DEF InOrder
  <2>5. SideInv(d)'
    BY <1>0, <1>1, <2>1, <2>2, <2>3, <2>4 DEF TunnelInv, SideInv
  <2>6. \A e \in Dirs : e # d => UNCHANGED SideVars(e)
    BY <1>0, <2>1 DEF SideVars, TunnelInv, TypeOK
  <2> QED BY <1>0, <2>5, <2>6, OtherSide
<1>5. CASE PipeEof(t)
  <2>1. /\ pipe[d] = <<>> /\ ending[d] = "fin"
        /\ receiver' = [receiver EXCEPT ![d] = "done"]
        /\ ended' = [ended EXCEPT ![d] = TRUE]
        /\ UNCHANGED <<pipe, got>>
    BY <1>5 DEF PipeEof, Ready, pipeVars, d
  <2>2. receiver'[d] = "done"
    BY <1>0, <2>1 DEF TunnelInv, TypeOK
  <2>3. ASSUME pc[From(d)] # "failed" PROVE sender[d] = "done" /\ got[d] = read[d]
    <3>1. Whole(d) /\ sender[d] = "done"
      BY <1>0, <2>1, <2>3 DEF Whole, TunnelInv, SideInv
    <3>2. Stamped(d) = read[d]
      BY <3>1 DEF Stamped
    <3>3. Len(pipe[d]) = Stamped(d) - got[d]
      BY <1>0, <1>3, <3>1 DEF TunnelInv, SideInv
    <3> QED BY <1>0, <2>1, <3>1, <3>2, <3>3, SizeFacts
  <2>4. Whole(d)' => InOrder(d)'
    BY <1>0, <1>1, <2>1 DEF TunnelInv, SideInv, InOrder
  <2>5. SideInv(d)'
    BY <1>0, <2>1, <2>2, <2>3, <2>4 DEF TunnelInv, SideInv
  <2>6. \A e \in Dirs : e # d => UNCHANGED SideVars(e)
    BY <1>0, <2>1 DEF SideVars, TunnelInv, TypeOK
  <2> QED BY <1>0, <2>5, <2>6, OtherSide
<1> QED BY <1>4, <1>5

LEMMA NextSide == TunnelInv /\ [Next]_vars => TunnelInv'
<1> SUFFICES ASSUME TunnelInv, [Next]_vars PROVE StageOK' /\ \A d \in Dirs : SideInv(d)'
  BY NextTypeOK DEF TunnelInv
<1>0. pc \in [Tasks -> ClientStages \cup ServerStages] /\ StageOK
  BY DEF TunnelInv, TypeOK, ClientStages, ServerStages
<1>1. ASSUME NEW t \in Tasks, StartRelay(t) \/ Finish(t)
      PROVE  StageOK' /\ \A d \in Dirs : SideInv(d)'
  <2>1. /\ pc' = [pc EXCEPT ![t] = IF pc[t] = "start" THEN "relay" ELSE "done"]
        /\ pc[t] \in {"start", "relay"}
        /\ UNCHANGED <<pipe, ending, sender, receiver, read, got, closed, ended>>
    BY <1>1 DEF StartRelay, Finish, Goto, pipeVars, relayVars
  <2>2. StageOK'
    BY <1>0, <2>1, Ends DEF StageOK, ClientStages, ServerStages
  <2>3. ASSUME NEW d \in Dirs PROVE SideInv(d)'
    <3>1. UNCHANGED SideVars(d)
      BY <2>1 DEF SideVars
    <3>2. UNCHANGED <<Sent(d), Heard(d)>>
      BY <1>0, <2>1, Ends DEF Sent, Heard, Answered
    <3>3. (pc'[From(d)] = "failed") = (pc[From(d)] = "failed")
          /\ (pc'[To(d)] = "failed") = (pc[To(d)] = "failed")
          /\ (pc[From(d)] \in {"relay", "done", "failed"}
                => pc'[From(d)] \in {"relay", "done", "failed"})
      BY <1>0, <2>1, DirsFacts
    <3>4. Stamped(d)' = Stamped(d) /\ Whole(d)' = Whole(d)
      BY <3>1, <3>3 DEF SideVars, Stamped, Whole
    <3>5. InOrder(d)' = InOrder(d)
      BY <3>1, <3>2, <3>4 DEF SideVars, InOrder
    <3> QED BY <3>1, <3>3, <3>4, <3>5 DEF SideVars, SideInv, TunnelInv
  <2> QED BY <2>2, <2>3
<1>2. ASSUME NEW t \in Tasks, ReceiveFails(t) \/ SendFails(t) \/ LocalError(t)
      PROVE  StageOK' /\ \A d \in Dirs : SideInv(d)'
  BY <1>2, FailSide DEF ReceiveFails, SendFails, LocalError
<1>3. CASE Relay
  BY <1>1, <1>2, <1>3, SendingSide, ReceivingSide, Ends
  DEF Relay, ClientUpload, ServerDownload, ClientDownload, ServerUpload
<1>4. CASE ConnectFails \/ Refused \/ NoResponse
  BY <1>4, FailSide, Ends DEF ConnectFails, Refused, NoResponse
<1>5. CASE HandshakeFails \/ RespondFails
  BY <1>5, FailSide, Ends DEF HandshakeFails, RespondFails, Handshaking
<1>6. CASE \E e \in Dirs : Close(e)
  <2>1. /\ UNCHANGED <<pc, pipe, ending, sender, receiver, read, got, ended>>
        /\ \A d \in Dirs : closed[d] => closed'[d]
    BY <1>6 DEF Close, taskVars, pipeVars, relayVars, TunnelInv, TypeOK
  <2>2. ASSUME NEW d \in Dirs PROVE SideInv(d)'
    BY <2>1 DEF TunnelInv, SideInv, Whole, InOrder, Sent, Heard, Answered, Stamped
  <2> QED BY <1>0, <2>1, <2>2 DEF StageOK
<1>7. CASE PathBreaks
  <2>1. /\ UNCHANGED <<pc, sender, receiver, read, got, closed, ended>>
        /\ \A d \in Dirs : ending'[d] = "reset"
    BY <1>7 DEF PathBreaks, taskVars, relayVars
  <2>2. ASSUME NEW d \in Dirs PROVE SideInv(d)'
    BY <2>1 DEF TunnelInv, SideInv, Whole
  <2> QED BY <1>0, <2>1, <2>2 DEF StageOK
<1>8. CASE Tick \/ Gone \/ UNCHANGED vars
  <2>1. UNCHANGED <<pc, pipe, ending, sender, receiver, read, got, closed, ended>>
    BY <1>8 DEF Tick, Gone, vars, taskVars, pipeVars, relayVars
  <2>2. ASSUME NEW d \in Dirs PROVE UNCHANGED SideVars(d) /\ UNCHANGED Stages(d)
    BY <2>1 DEF SideVars, Stages, Sent, Heard, Answered
  <2> QED BY <1>0, <2>1, <2>2, SideKept DEF StageOK, TunnelInv
<1> QED
  BY <1>3, <1>4, <1>5, <1>6, <1>7, <1>8, ClientSide, ServerSide
  DEF Next, Client, Server

LEMMA InitTunnel == Init => TunnelInv
BY InitTypeOK, Ends
DEF Init, TunnelInv, StageOK, ClientStages, ServerStages, SideInv, Whole,
    InOrder, Sent, Heard, Answered, Stamped

(* A stream that ends short of the last block of its source ends with an    *)
(* error of one of the two tasks, for every tolerance and skew of the       *)
(* clocks, any number of blocks and whatever breaks when.                   *)
THEOREM EndsAreHonest == Spec => []EndIsHonest
<1>1. Init => TunnelInv
  BY InitTunnel
<1>2. TunnelInv /\ [Next]_vars => TunnelInv'
  BY NextSide
<1>3. TunnelInv => EndIsHonest
  BY DEF TunnelInv, SideInv, EndIsHonest
<1> QED BY <1>1, <1>2, <1>3, PTL DEF Spec

-----------------------------------------------------------------------------
(* Each direction implements the byte stream, when the tolerance covers     *)
(* every digit and nothing breaks from outside.  A task may still fail      *)
(* during the handshake, on a timeout or a refusal; Calm says that then the *)
(* other one never comes to relay, so that no failure cuts a stream.        *)
Relaying == {"start", "relay", "done"}
NotOf(kind) == { f \in Frame : f.kind # kind }

Calm ==
  /\ pc["client"] = "failed" => pc["server"] \in {"idle", "failed"}
  /\ pc["server"] = "failed" => pc["client"] \notin Relaying
  /\ reply = "ok" <=> pc["client"] \in Relaying
  /\ \A d \in Dirs : ending[d] = "reset" => pc[From(d)] = "failed"
  /\ \A d \in Dirs : receiver[d] = "done" => ended[d]
  /\ \A t \in Tasks : pc[t] = "done" => receiver[In(t)] = "done"
  /\ pc["server"] \notin Relaying \cup {"failed"} => pipe["down"] = <<>>
  /\ pipe["down"] \in Seq(NotOf(IF pc["server"] = "failed" THEN "yes" ELSE "no"))

(* While neither task has failed both directions are whole, and neither     *)
(* task is ahead of what the other has sent.                                *)
LEMMA CalmOrder ==
  ASSUME TunnelInv, Calm, pc["client"] # "failed", pc["server"] # "failed"
  PROVE  /\ \A d \in Dirs : Whole(d) /\ InOrder(d) /\ Heard(d) <= Sent(d)
         /\ pc["client"] \in Relaying => pc["server"] \in Relaying
         /\ pc["server"] \in Relaying =>
              /\ pc["client"] \in Relaying \cup {"response"}
              /\ pc["client"] = "response" => pipe["down"] # <<>>
<1>1. ASSUME NEW d \in Dirs PROVE Whole(d) /\ InOrder(d) /\ Heard(d) <= Sent(d)
  <2>1. Whole(d) /\ InOrder(d)
    BY Ends DEF Calm, Whole, TunnelInv, SideInv
  <2> QED BY <2>1, SizeFacts DEF InOrder
<1>2. pc["client"] \in Relaying => pc["server"] \in Relaying
  BY <1>1, Ends DEF Heard, Sent, Answered, Relaying
<1>3. ASSUME pc["server"] \in Relaying PROVE pc["client"] \in Relaying \cup {"response"}
  <2>1. Heard("up") = 3
    BY <1>3 DEF Heard, Relaying
  <2>2. Sent("up") = 3
    BY <1>1, <2>1, Ends, SizeFacts
  <2> QED BY <2>2 DEF Sent, Relaying, TunnelInv, StageOK, ClientStages
<1>4. ASSUME pc["server"] \in Relaying, pc["client"] = "response"
      PROVE  pipe["down"] # <<>>
  <2>1. Sent("down") = 1 /\ Heard("down") = 0
    BY <1>4 DEF Sent, Heard, Answered, Relaying
  <2>2. Len(pipe["down"]) >= 1
    BY <1>1, <2>1, Ends, SizeFacts DEF InOrder
  <2> QED BY <2>2, Ends, SizeFacts
<1> QED BY <1>1, <1>2, <1>3, <1>4

(* Failing: the client only before its relay and after the server, or       *)
(* before both; the server only before it has answered.                     *)
LEMMA CalmFail ==
  ASSUME TunnelInv, Calm, NEW t \in Tasks, Fail(t),
         t = "client" => pc["server"] \in {"idle", "failed"} /\ reply' # "ok",
         t = "server" => /\ pc["client"] \notin Relaying
                         /\ pc["server"] \notin Relaying \cup {"failed"}
                         /\ reply' = reply
  PROVE  Calm'
<1> USE Ends
<1>1. /\ pc' = [pc EXCEPT ![t] = "failed"]
      /\ UNCHANGED <<sender, receiver, read, got, closed>>
      /\ \A d \in Dirs : ended[d] => ended'[d]
  BY DEF Fail, Goto, relayVars, TunnelInv, TypeOK
<1>2. PICK e \in {"fin", "reset"}, m \in 0..Len(pipe[Out(t)]) :
        /\ ending' = [ending EXCEPT ![Out(t)] = IF @ = "open" THEN e ELSE @]
        /\ pipe' = [pipe EXCEPT ![Out(t)] =
                      IF ending[Out(t)] = "open" THEN SubSeq(@, 1, m) ELSE @]
  BY DEF Fail
<1>3. pc \in [Tasks -> ClientStages \cup ServerStages]
  BY DEF TunnelInv, TypeOK, ClientStages, ServerStages
<1>4. \A d \in Dirs : ending'[d] = "reset" => pc'[From(d)] = "failed"
  BY <1>1, <1>2, <1>3 DEF Calm, TunnelInv, TypeOK
<1>5. CASE t = "client"
  <2>1. pipe'["down"] = pipe["down"] /\ pc'["server"] = pc["server"]
        /\ pc'["client"] = "failed"
    BY <1>1, <1>2, <1>3, <1>5 DEF TunnelInv, TypeOK
  <2> QED BY <1>1, <1>4, <1>5, <2>1 DEF Calm, Relaying
<1>6. CASE t = "server"
  <2>1. pc'["client"] = pc["client"] /\ pc'["server"] = "failed"
    BY <1>1, <1>3, <1>6
  <2>2. pipe["down"] = <<>>
    BY <1>6 DEF Calm
  <2>3. pipe'["down"] = <<>>
    BY <1>2, <1>6, <2>2 DEF TunnelInv, TypeOK
  <2> QED BY <1>1, <1>4, <1>6, <2>1, <2>3 DEF Calm, Relaying
<1> QED BY <1>5, <1>6

LEMMA CalmBeforeRelay ==
  ASSUME TunnelInv, Calm, Tolerance >= 5, Connect \/ ConnectFails \/ Client \/ Server
  PROVE  Calm'
<1> USE Ends
<1>0. pc \in [Tasks -> ClientStages \cup ServerStages] /\ StageOK
      /\ pipe \in [Dirs -> Seq(Frame)]
  BY DEF TunnelInv, TypeOK, ClientStages, ServerStages
<1>1. CASE Connect
  BY <1>0, <1>1 DEF Connect, Calm, pipeVars, relayVars, Relaying, StageOK
<1>2. CASE ConnectFails
  <2>1. pc["client"] = "socks" /\ Fail("client") /\ reply' = reply
        /\ pc["server"] = "idle"
    BY <1>0, <1>2 DEF ConnectFails, StageOK
  <2>2. reply' # "ok"
    BY <2>1 DEF Calm, Relaying
  <2> QED BY <2>1, <2>2, CalmFail
<1>3. CASE SendHandshake
  <2>1. /\ pc["client"] \in {"prelude", "hello", "address"}
        /\ pc'["client"] \in {"hello", "address", "response"} /\ pc'["server"] = pc["server"]
        /\ pipe'["down"] = pipe["down"]
        /\ UNCHANGED <<ending, receiver, ended, reply>>
    BY <1>0, <1>3 DEF SendHandshake, Goto, Written, relayVars
  <2> QED BY <2>1 DEF Calm, Relaying
<1>4. CASE ReadResponse
  <2>1. /\ pc["client"] = "response" /\ pc'["client"] = "start" /\ pc'["server"] = pc["server"]
        /\ pipe["down"] # <<>> /\ pipe'["down"] = Tail(pipe["down"])
        /\ Head(pipe["down"]).kind = "yes"
        /\ reply' = "ok" /\ UNCHANGED <<ending, receiver, ended>>
    BY <1>0, <1>4 DEF ReadResponse, Ready, Taken, Upcoming, Goto, relayVars
  <2>2. pc["server"] # "failed"
    <3>1. Head(pipe["down"]) \in NotOf(IF pc["server"] = "failed" THEN "yes" ELSE "no")
      BY <2>1 DEF Calm
    <3> QED BY <2>1, <3>1 DEF NotOf
  <2>3. pipe'["down"] \in Seq(NotOf(IF pc["server"] = "failed" THEN "yes" ELSE "no"))
    <3> DEFINE K == NotOf(IF pc["server"] = "failed" THEN "yes" ELSE "no")
    <3>1. pipe["down"] \in Seq(K)
      BY DEF Calm
    <3> HIDE DEF K
    <3>2. pipe'["down"] \in Seq(K)
      BY <2>1, <3>1
    <3> QED BY <3>2 DEF K
  <2> QED BY <2>1, <2>2, <2>3 DEF Calm, Relaying
<1>5. CASE Refused
  <2>1. pc["client"] = "response" /\ pipe["down"] # <<>> /\ Fail("client")
    BY <1>5 DEF Refused, Ready
  <2>2. Head(pipe["down"]).kind = "no"
    <3>1. 1 \in 1..Len(pipe["down"]) /\ Head(pipe["down"]) = pipe["down"][1]
      BY <1>0, <2>1
    <3>2. Decodes("client", Upcoming("client"))
      BY <3>1, AnyDigitAccepted DEF DigitsAccepted, Upcoming, TunnelInv
    <3> QED BY <1>5, <3>2 DEF Refused, Upcoming
  <2>3. pc["server"] = "failed"
    <3>1. Head(pipe["down"]) \in NotOf(IF pc["server"] = "failed" THEN "yes" ELSE "no")
      BY <2>1 DEF Calm
    <3> QED BY <2>2, <3>1 DEF NotOf
  <2>4. reply' # "ok"
    BY <1>5, <2>1 DEF Refused, Calm, Relaying
  <2> QED BY <2>1, <2>3, <2>4, CalmFail
<1>6. CASE NoResponse
  <2>1. /\ pc["client"] \in {"prelude", "hello", "address", "response"}
        /\ pc["server"] \in {"failed", "done"} \/ ending["down"] # "open"
        /\ pc["client"] = "response" => pipe["down"] = <<>>
        /\ Fail("client") /\ reply' = reply
    BY <1>6 DEF NoResponse, Over, Ready
  <2>2. pc["server"] \in {"failed", "done", "relay"}
    BY <1>0, <2>1 DEF Calm, TunnelInv, SideInv, TypeOK
  <2>3. pc["server"] \notin Relaying
    BY <2>1, CalmOrder DEF Relaying
  <2>4. reply' # "ok"
    BY <2>1 DEF Calm, Relaying
  <2> QED BY <2>1, <2>2, <2>3, <2>4, CalmFail DEF Relaying
<1>7. CASE ReadHandshake
  <2>1. /\ pc["server"] \in {"prelude", "hello", "address"}
        /\ pc'["server"] \in {"hello", "address", "dial"} /\ pc'["client"] = pc["client"]
        /\ pipe'["down"] = pipe["down"]
        /\ UNCHANGED <<ending, receiver, ended, reply>>
    BY <1>0, <1>7 DEF ReadHandshake, Handshaking, Goto, Taken, relayVars
  <2> QED BY <2>1 DEF Calm, Relaying
<1>8. CASE Dial
  BY <1>0, <1>8 DEF Dial, Goto, Calm, pipeVars, relayVars, Relaying
(* A server that has not answered has no client in its relay.               *)
<1>9. ASSUME pc["server"] \in {"prelude", "hello", "address", "yes", "no"}
      PROVE  /\ pc["client"] \notin Relaying \cup {"failed"}
             /\ pc["server"] \notin Relaying \cup {"failed"}
  BY <1>9, CalmOrder DEF Calm, Relaying
<1>10. CASE HandshakeFails \/ RespondFails
  BY <1>9, <1>10, CalmFail DEF HandshakeFails, RespondFails, Handshaking
<1>11. CASE Respond \/ RespondFailure
  <2>1. pipe["down"] = <<>> /\ pc["client"] \notin Relaying \cup {"failed"}
        /\ UNCHANGED <<receiver, ended, reply>> /\ pc'["client"] = pc["client"]
    BY <1>0, <1>9, <1>11 DEF Respond, RespondFailure, Goto, relayVars, Calm
  <2>2. digit["server"] \in Digits
    BY DEF TunnelInv, TypeOK
  <2>3. CASE Respond
    <3>1. pipe'["down"] = Append(pipe["down"], Stamp("yes", 0, digit["server"]))
          /\ pc'["server"] = "start" /\ ending' = ending
      BY <1>0, <2>3 DEF Respond, Goto, Written
    <3>2. Stamp("yes", 0, digit["server"]) \in NotOf("no")
      BY <2>2, BoundsAssumption DEF Stamp, NotOf, Frame, Kinds
    <3>3. pipe'["down"] \in Seq(NotOf("no"))
      BY <2>1, <3>1, <3>2
    <3>4. /\ \A d \in Dirs : ending'[d] = "reset" => pc'[From(d)] = "failed"
          /\ \A u \in Tasks : pc'[u] # "done"
      <4>1. pc["server"] # "failed" /\ pc["client"] # "failed"
        BY <1>9, <2>3 DEF Respond
      <4> QED BY <2>1, <3>1, <4>1 DEF Calm, Relaying
    <3>5. pc'["server"] = "start" /\ pc'["client"] # "failed"
      BY <2>1, <3>1
    <3>6. \A d \in Dirs : receiver'[d] = "done" => ended'[d]
      BY <2>1 DEF Calm
    <3>7. reply' = "ok" <=> pc'["client"] \in Relaying
      BY <2>1 DEF Calm
    <3> QED BY <3>3, <3>4, <3>5, <3>6, <3>7 DEF Calm, Relaying
  <2>4. CASE RespondFailure
    <3>1. /\ pipe'["down"] = Append(pipe["down"], Stamp("no", 0, digit["server"]))
          /\ pc'["server"] = "failed" /\ ending' = [ending EXCEPT !["down"] = "fin"]
      BY <1>0, <2>4 DEF RespondFailure, Goto, Written
    <3>2. Stamp("no", 0, digit["server"]) \in NotOf("yes")
      BY <2>2, BoundsAssumption DEF Stamp, NotOf, Frame, Kinds
    <3>3. pipe'["down"] \in Seq(NotOf("yes"))
      BY <2>1, <3>1, <3>2
    <3>4. \A d \in Dirs : ending'[d] = "reset" => pc'[From(d)] = "failed"
      BY <2>1, <3>1 DEF Calm, TunnelInv, TypeOK
    <3> QED BY <2>1, <3>1, <3>3, <3>4 DEF Calm, Relaying
  <2> QED BY <1>11, <2>3, <2>4
<1> QED
  BY <1>1, <1>2, <1>3, <1>4, <1>5, <1>6, <1>7, <1>8, <1>10, <1>11
  DEF Client, Server

(* A task in its relay, with nothing to break it, does not fail.            *)
LEMMA RelayDoesNotFail ==
  ASSUME TunnelInv, Calm, Tolerance >= 5, Faults = {}, NEW t \in Tasks
  PROVE  ~ ReceiveFails(t) /\ ~ SendFails(t) /\ ~ LocalError(t)
<1> USE Ends
<1>1. ASSUME pc[t] = "relay"
      PROVE  \A u \in Tasks : pc[u] # "failed"
  BY <1>1 DEF Calm, Relaying
<1>2. ~ ReceiveFails(t)
  <2> SUFFICES ASSUME ReceiveFails(t) PROVE FALSE
    OBVIOUS
  <2>1. \A u \in Tasks : pc[u] # "failed"
    BY <1>1 DEF ReceiveFails
  <2>2. ending[In(t)] # "reset"
    BY <2>1, DirsFacts DEF Calm
  <2>3. ASSUME Ready(t) PROVE Decodes(t, Upcoming(t))
    <3>1. pipe[In(t)] \in Seq(Frame) /\ pipe[In(t)] # <<>>
      BY <2>3, DirsFacts DEF Ready, TunnelInv, TypeOK
    <3>2. 1 \in 1..Len(pipe[In(t)]) /\ Head(pipe[In(t)]) = pipe[In(t)][1]
      BY <3>1
    <3> QED BY <3>2, AnyDigitAccepted DEF DigitsAccepted, Upcoming, TunnelInv
  <2> QED BY <2>2, <2>3 DEF ReceiveFails
<1>3. ~ SendFails(t)
  <2> SUFFICES ASSUME SendFails(t) PROVE FALSE
    OBVIOUS
  <2>1. \A u \in Tasks : pc[u] # "failed"
    BY <1>1 DEF SendFails
  <2>2. ending[Out(t)] # "reset"
    BY <2>1, DirsFacts DEF Calm
  <2>3. pc[To(Out(t))] = "done"
    BY <2>1, <2>2, DirsFacts DEF SendFails, Over
  <2>4. In(To(Out(t))) = Out(t) /\ To(Out(t)) \in Tasks /\ From(Out(t)) = t
    OBVIOUS
  <2>5. ended[Out(t)]
    BY <2>3, <2>4, DirsFacts DEF Calm
  <2>6. sender[Out(t)] = "done"
    BY <2>1, <2>4, <2>5, DirsFacts DEF TunnelInv, SideInv
  <2> QED BY <2>6 DEF SendFails
<1>4. ~ LocalError(t)
  BY DEF LocalError
<1> QED BY <1>2, <1>3, <1>4

LEMMA CalmRelay ==
  ASSUME TunnelInv, Calm, NEW t \in Tasks,
         \/ StartRelay(t) \/ ReadSource(t) \/ WriteFrame(t) \/ SourceEof(t)
         \/ Deliver(t) \/ PipeEof(t) \/ Finish(t)
  PROVE  Calm'
<1> USE Ends
<1>0. pc \in [Tasks -> ClientStages \cup ServerStages]
      /\ pipe \in [Dirs -> Seq(Frame)]
  BY DEF TunnelInv, TypeOK, ClientStages, ServerStages
<1> DEFINE K == NotOf(IF pc["server"] = "failed" THEN "yes" ELSE "no")
<1>1. CASE StartRelay(t) \/ Finish(t)
  <2>1. /\ pc[t] \in Relaying /\ pc' = [pc EXCEPT ![t] = pc'[t]]
        /\ pc'[t] = "relay" \/ (pc'[t] = "done" /\ receiver[In(t)] = "done")
        /\ UNCHANGED <<pipe, ending, receiver, ended, reply>>
    BY <1>0, <1>1 DEF StartRelay, Finish, Goto, pipeVars, relayVars, Relaying
  <2> QED BY <1>0, <2>1 DEF Calm, Relaying
<1>2. CASE ReadSource(t) \/ SourceEof(t)
  <2>1. /\ pc[t] = "relay" /\ UNCHANGED <<pc, pipe, receiver, ended, reply>>
        /\ \A d \in Dirs : ending'[d] = "reset" => ending[d] = "reset"
    BY <1>2 DEF ReadSource, SourceEof, taskVars, pipeVars, TunnelInv, TypeOK
  <2> QED BY <2>1 DEF Calm
<1>3. CASE WriteFrame(t)
  <2>1. /\ pc[t] = "relay" /\ UNCHANGED <<pc, ending, receiver, ended, reply>>
        /\ pipe' = [pipe EXCEPT ![Out(t)] =
                      Append(@, Stamp("data", read[Out(t)], digit[t]))]
    BY <1>3 DEF WriteFrame, taskVars, Written
  <2>2. pipe'["down"] \in Seq(K)
    <3>1. Stamp("data", read[Out(t)], digit[t]) \in K
      BY DEF Stamp, NotOf, Frame, Kinds, TunnelInv, TypeOK
    <3>2. pipe["down"] \in Seq(K)
      BY DEF Calm
    <3> HIDE DEF K
    <3>3. CASE Out(t) = "down"
      BY <1>0, <2>1, <3>1, <3>2, <3>3
    <3>4. CASE Out(t) = "up"
      BY <1>0, <2>1, <3>2, <3>4
    <3> QED BY <3>3, <3>4
  <2>3. pc["server"] \notin Relaying \cup {"failed"} => pipe'["down"] = pipe["down"]
    BY <1>0, <2>1 DEF Relaying
  <2> QED BY <2>1, <2>2, <2>3 DEF Calm
<1>4. CASE Deliver(t) \/ PipeEof(t)
  <2>1. /\ pc[t] = "relay" /\ UNCHANGED <<pc, ending, reply>>
        /\ \/ pipe' = pipe
           \/ pipe[In(t)] # <<>> /\ pipe' = [pipe EXCEPT ![In(t)] = Tail(@)]
    BY <1>4 DEF Deliver, PipeEof, Ready, Taken, taskVars, pipeVars
  <2>2. \A d \in Dirs : /\ receiver'[d] = "done" => ended'[d]
                        /\ receiver[d] = "done" => receiver'[d] = "done"
    BY <1>4 DEF Deliver, PipeEof, Calm, TunnelInv, TypeOK
  <2>3. pipe'["down"] \in Seq(K)
    <3>1. pipe["down"] \in Seq(K)
      BY DEF Calm
    <3> HIDE DEF K
    <3>2. \/ pipe'["down"] = pipe["down"]
          \/ pipe["down"] # <<>> /\ pipe'["down"] = Tail(pipe["down"])
      BY <1>0, <2>1
    <3>3. pipe["down"] # <<>> => Tail(pipe["down"]) \in Seq(K)
      BY <3>1
    <3> QED BY <3>1, <3>2, <3>3
  <2>4. pc["server"] \notin Relaying \cup {"failed"} => pipe'["down"] = <<>>
    BY <1>0, <2>1 DEF Calm
  <2>5. \A u \in Tasks : pc'[u] = "done" => receiver'[In(u)] = "done"
    BY <2>1, <2>2 DEF Calm
  <2> QED BY <2>1, <2>2, <2>3, <2>4, <2>5 DEF Calm
<1> QED BY <1>1, <1>2, <1>3, <1>4

LEMMA NextCalm ==
  ASSUME Tolerance >= 5, Faults = {}, TunnelInv, Calm, [Next]_vars PROVE Calm'
<1>1. CASE Relay
  BY <1>1, CalmRelay, RelayDoesNotFail, Ends
  DEF Relay, ClientUpload, ServerDownload, ClientDownload, ServerUpload
<1>2. CASE (\E d \in Dirs : Close(d)) \/ Tick \/ Gone \/ UNCHANGED vars
  <2>1. UNCHANGED <<pc, pipe, ending, receiver, ended, reply>>
    BY <1>2 DEF Close, Tick, Gone, vars, taskVars, pipeVars, relayVars
  <2> QED BY <2>1 DEF Calm
<1>3. CASE PathBreaks
  BY <1>3 DEF PathBreaks
<1> QED BY <1>1, <1>2, <1>3, CalmBeforeRelay DEF Next

(* The end of stream that a sink is given; of the application's once its    *)
(* request has been granted.                                                *)
Shown(d) == IF d = "up" THEN ended["up"] ELSE ended["down"] /\ reply = "ok"

(* The four things a step may be for a direction.                           *)
Moves(d) ==
  \/ /\ ~ closed[d] /\ read'[d] = read[d] + 1
     /\ UNCHANGED <<closed[d], got[d], Shown(d)>>
  \/ closed'[d] = TRUE /\ UNCHANGED <<read[d], got[d], Shown(d)>>
  \/ /\ got[d] < read[d] /\ got'[d] = got[d] + 1
     /\ UNCHANGED <<read[d], closed[d], Shown(d)>>
  \/ /\ closed[d] /\ got[d] = read[d] /\ Shown(d)' = TRUE
     /\ UNCHANGED <<read[d], closed[d], got[d]>>
  \/ UNCHANGED <<read[d], closed[d], got[d], Shown(d)>>

LEMMA RelayMoves ==
  ASSUME TunnelInv, Calm, NEW t \in Tasks, NEW d \in Dirs,
         \/ ReadSource(t) \/ WriteFrame(t) \/ SourceEof(t) \/ Deliver(t)
         \/ PipeEof(t)
  PROVE  Moves(d)
<1> USE Ends DEF Moves, Shown
<1>0. /\ read \in [Dirs -> 0..MaxBlocks] /\ got \in [Dirs -> 0..MaxBlocks]
      /\ closed \in [Dirs -> BOOLEAN] /\ ended \in [Dirs -> BOOLEAN]
      /\ reply' = reply
  BY DEF TunnelInv, TypeOK, ReadSource, WriteFrame, SourceEof, Deliver, PipeEof, taskVars
<1>1. CASE WriteFrame(t) \/ SourceEof(t)
  BY <1>0, <1>1 DEF WriteFrame, SourceEof
<1>2. CASE ReadSource(t)
  <2>1. /\ ~ closed[Out(t)] /\ read' = [read EXCEPT ![Out(t)] = @ + 1]
        /\ UNCHANGED <<got, closed, ended>>
    BY <1>2 DEF ReadSource
  <2> QED BY <1>0, <2>1
<1>3. ASSUME pc[t] = "relay" PROVE Whole(In(t)) /\ InOrder(In(t))
  <2>1. pc["client"] # "failed" /\ pc["server"] # "failed"
    BY <1>3 DEF Calm, Relaying
  <2> QED BY <2>1, CalmOrder
<1>4. CASE Deliver(t)
  <2>1. /\ pc[t] = "relay" /\ pipe[In(t)] # <<>>
        /\ got' = [got EXCEPT ![In(t)] = Head(pipe[In(t)]).n]
        /\ UNCHANGED <<read, closed, ended>>
    BY <1>4 DEF Deliver, Ready, Upcoming
  <2>2. /\ Stamped(In(t)) \in Nat /\ got[In(t)] \in Nat /\ read[In(t)] \in Nat
        /\ pipe[In(t)] \in Seq(Frame) /\ Len(pipe[In(t)]) \in Nat
        /\ Sent(In(t)) \in Nat /\ Heard(In(t)) \in Nat
    BY SizeFacts
  <2>3. Sent(In(t)) - Heard(In(t)) = 0
    <3>1. Sent(In(t)) <= Heard(In(t))
      BY <2>1 DEF Sent, Heard, Answered
    <3> QED BY <1>3, <2>1, <2>2, <3>1 DEF InOrder
  <2>4. /\ Len(pipe[In(t)]) = Stamped(In(t)) - got[In(t)]
        /\ \A j \in 1..Len(pipe[In(t)]) : pipe[In(t)][j].n = got[In(t)] + j
    BY <1>3, <2>1, <2>2, <2>3 DEF InOrder
  <2>5. 1 \in 1..Len(pipe[In(t)]) /\ Head(pipe[In(t)]) = pipe[In(t)][1]
    BY <2>1, <2>2
  <2>6. Head(pipe[In(t)]).n = got[In(t)] + 1 /\ got[In(t)] < Stamped(In(t))
    BY <2>2, <2>4, <2>5
  <2>7. Stamped(In(t)) <= read[In(t)]
    BY <2>2 DEF Stamped
  <2>8. got[In(t)] < read[In(t)]
    BY <2>2, <2>6, <2>7
  <2> QED BY <1>0, <2>1, <2>6, <2>8
<1>5. CASE PipeEof(t)
  <2>1. /\ pc[t] = "relay" /\ pipe[In(t)] = <<>> /\ ending[In(t)] = "fin"
        /\ ended' = [ended EXCEPT ![In(t)] = TRUE]
        /\ UNCHANGED <<read, closed, got>>
    BY <1>5 DEF PipeEof, Ready
  <2>5. t = "client" => reply = "ok"
    BY <2>1 DEF Calm, Relaying
  <2>2. closed[In(t)] /\ sender[In(t)] = "done"
    BY <1>3, <2>1 DEF TunnelInv, SideInv, Whole
  <2>3. /\ Stamped(In(t)) = read[In(t)] /\ got[In(t)] \in Nat /\ read[In(t)] \in Nat
        /\ Sent(In(t)) \in Nat /\ Heard(In(t)) \in Nat
    BY <2>2, SizeFacts DEF Stamped
  <2>4. got[In(t)] = read[In(t)]
    BY <1>3, <2>1, <2>3 DEF InOrder
  <2>6. CASE d = In(t)
    <3>1. Shown(d)' = TRUE
      BY <1>0, <2>1, <2>5, <2>6
    <3> QED BY <2>1, <2>2, <2>4, <2>6, <3>1
  <2>7. CASE d # In(t)
    BY <1>0, <2>1, <2>7
  <2> QED BY <2>6, <2>7
<1> QED BY <1>1, <1>2, <1>4, <1>5

(* With the reply the application's stream begins: it has not ended, unless *)
(* honestly so.                                                             *)
LEMMA ResponseMoves ==
  ASSUME TunnelInv, Calm, ReadResponse, NEW d \in Dirs
  PROVE  Moves(d)
<1> USE Ends
<1>1. /\ pc["client"] = "response" /\ pipe["down"] # <<>>
      /\ Head(pipe["down"]).kind = "yes" /\ reply' = "ok"
      /\ UNCHANGED <<read, got, closed, ended>>
  BY DEF ReadResponse, Ready, Upcoming, relayVars
<1>2. reply # "ok" /\ pc["server"] # "failed"
  <2>1. pipe["down"] \in Seq(NotOf(IF pc["server"] = "failed" THEN "yes" ELSE "no"))
    BY DEF Calm
  <2>2. Head(pipe["down"]) \in NotOf(IF pc["server"] = "failed" THEN "yes" ELSE "no")
    BY <1>1, <2>1
  <2> QED BY <1>1, <2>2 DEF Calm, Relaying, NotOf
<1>3. ended["down"] => closed["down"] /\ got["down"] = read["down"]
  BY <1>1, <1>2 DEF TunnelInv, SideInv
<1>4. CASE d = "up"
  BY <1>1, <1>4 DEF Moves, Shown
<1>5. CASE d = "down"
  <2>1. Shown(d) = FALSE /\ Shown(d)' = ended["down"]
    BY <1>1, <1>2, <1>5 DEF Shown, TunnelInv, TypeOK
  <2>2. CASE ended["down"]
    BY <1>1, <1>3, <1>5, <2>1, <2>2 DEF Moves
  <2>3. CASE ~ ended["down"]
    <3>1. Shown(d)' = Shown(d)
      BY <2>1, <2>3 DEF TunnelInv, TypeOK
    <3> QED BY <1>1, <1>5, <3>1 DEF Moves
  <2> QED BY <2>2, <2>3
<1> QED BY <1>4, <1>5

LEMMA ClientFailMoves ==
  ASSUME TunnelInv, Calm, ConnectFails \/ Refused \/ NoResponse, NEW d \in Dirs
  PROVE  Moves(d)
<1> USE Ends
<1>1. /\ pc["client"] \in {"socks", "prelude", "hello", "address", "response"}
      /\ Fail("client") /\ reply' \in {reply, "refused"}
  BY DEF ConnectFails, Refused, NoResponse
<1>2. reply # "ok" /\ reply' # "ok"
  BY <1>1 DEF Calm, Relaying
<1>3. UNCHANGED <<read, got, closed>> /\ ended'["up"] = ended["up"]
  BY <1>1 DEF Fail, relayVars, TunnelInv, TypeOK
<1>4. Shown(d)' = Shown(d)
  BY <1>2, <1>3 DEF Shown
<1> QED BY <1>3, <1>4 DEF Moves

LEMMA ServerFailMoves ==
  ASSUME TunnelInv, Calm, HandshakeFails \/ RespondFails, NEW d \in Dirs
  PROVE  Moves(d)
<1> USE Ends
<1>1. /\ pc["server"] \in {"prelude", "hello", "address", "yes", "no"}
      /\ Fail("server") /\ reply' = reply
  BY DEF HandshakeFails, RespondFails, Handshaking
<1>2. pc["server"] # "yes"
  <2> SUFFICES ASSUME pc["server"] = "yes" PROVE FALSE
    OBVIOUS
  <2>1. RespondFails
    BY DEF HandshakeFails, Handshaking
  <2>2. pc["client"] # "failed" /\ ending["down"] # "reset"
    BY DEF Calm
  <2>3. pc["client"] \notin Relaying
    BY <2>2, CalmOrder DEF Relaying
  <2> QED BY <2>1, <2>2, <2>3 DEF RespondFails, Over, Relaying
<1>3. UNCHANGED <<read, got, closed, ended>>
  BY <1>1, <1>2 DEF Fail, HasSink, relayVars
<1> QED BY <1>1, <1>3 DEF Moves, Shown

LEMMA NextMoves ==
  ASSUME Tolerance >= 5, Faults = {}, TunnelInv, Calm, [Next]_vars, NEW d \in Dirs
  PROVE  Moves(d)
<1>1. CASE Relay
  <2>1. PICK t \in Tasks :
          \/ ReadSource(t) \/ WriteFrame(t) \/ SourceEof(t) \/ Deliver(t) \/ PipeEof(t)
          \/ StartRelay(t) \/ Finish(t)
    BY <1>1, RelayDoesNotFail, Ends
    DEF Relay, ClientUpload, ServerDownload, ClientDownload, ServerUpload
  <2>2. CASE StartRelay(t) \/ Finish(t)
    BY <2>2 DEF StartRelay, Finish, relayVars, Moves, Shown
  <2> QED BY <2>1, <2>2, RelayMoves
<1>2. CASE \E e \in Dirs : Close(e)
  BY <1>2 DEF Close, taskVars, relayVars, Moves, Shown, TunnelInv, TypeOK
<1>3. CASE Connect \/ SendHandshake
  BY <1>3 DEF Connect, SendHandshake, relayVars, Moves, Shown
<1>4. CASE ReadResponse
  BY <1>4, ResponseMoves
<1>5. CASE ConnectFails \/ Refused \/ NoResponse
  BY <1>5, ClientFailMoves
<1>6. CASE ReadHandshake \/ Dial \/ Respond \/ RespondFailure
  BY <1>6 DEF ReadHandshake, Dial, Respond, RespondFailure, relayVars, Moves, Shown
<1>7. CASE HandshakeFails \/ RespondFails
  BY <1>7, ServerFailMoves
<1>8. CASE Tick \/ Gone \/ PathBreaks \/ UNCHANGED vars
  BY <1>8 DEF Tick, Gone, PathBreaks, vars, taskVars, relayVars, Moves, Shown
<1> QED BY <1>1, <1>2, <1>3, <1>4, <1>5, <1>6, <1>7, <1>8 DEF Next, Client, Server

LEMMA InitCalm == Init => TunnelInv /\ Calm
<1>1. Init => Calm
  BY Ends DEF Init, Calm, Relaying
<1> QED BY <1>1, InitTunnel

LEMMA CalmInvariant ==
  ASSUME Tolerance >= 5, Faults = {} PROVE Spec => [](TunnelInv /\ Calm)
<1>1. TunnelInv /\ Calm /\ [Next]_vars => (TunnelInv /\ Calm)'
  BY NextSide, NextCalm
<1> QED BY <1>1, InitCalm, PTL DEF Spec

(* From the application to the target the tunnel is one ordered byte        *)
(* stream, for any secret, any skew and any number of blocks, if the        *)
(* tolerance covers every digit and nothing breaks once data flows.         *)
THEOREM UpIsByteStream ==
  ASSUME Tolerance >= 5, Faults = {} PROVE Spec => UpImplementsByteStream
<1>1. Init => Up!BSInit
  BY Ends DEF Init, Up!BSInit
<1>2. TunnelInv /\ Calm /\ [Next]_vars => [Up!BSNext]_(Up!bsVars)
  <2> SUFFICES ASSUME TunnelInv, Calm, [Next]_vars
               PROVE  Up!BSNext \/ UNCHANGED Up!bsVars
    OBVIOUS
  <2>1. Moves("up") /\ read["up"] \in Nat
    BY NextMoves, SizeFacts, Ends
  <2> QED BY <2>1 DEF Moves, Shown, Up!BSNext, Up!Produce, Up!Close, Up!Deliver, Up!End, Up!bsVars
<1> QED
  BY <1>1, <1>2, CalmInvariant, PTL DEF Spec, UpImplementsByteStream, Up!BSSpec

(* The same from the target to the application.                             *)
THEOREM DownIsByteStream ==
  ASSUME Tolerance >= 5, Faults = {} PROVE Spec => DownImplementsByteStream
<1>1. Init => Down!BSInit
  BY Ends DEF Init, Down!BSInit
<1>2. TunnelInv /\ Calm /\ [Next]_vars => [Down!BSNext]_(Down!bsVars)
  <2> SUFFICES ASSUME TunnelInv, Calm, [Next]_vars
               PROVE  Down!BSNext \/ UNCHANGED Down!bsVars
    OBVIOUS
  <2>1. Moves("down") /\ read["down"] \in Nat
    BY NextMoves, SizeFacts, Ends
  <2> QED
    BY <2>1 DEF Moves, Shown, Down!BSNext, Down!Produce, Down!Close, Down!Deliver,
                Down!End, Down!bsVars
<1> QED
  BY <1>1, <1>2, CalmInvariant, PTL DEF Spec, DownImplementsByteStream, Down!BSSpec
=============================================================================
