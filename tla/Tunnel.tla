------------------------------- MODULE Tunnel -------------------------------
(***************************************************************************)
(* A session over a single connection, from the application that speaks    *)
(* SOCKS5 to the target: the connection task of the desktop client         *)
(* (client-core/src/proxy.rs, handle_local_connection) and that of the     *)
(* server (server/src/server.rs, handle_client_connection), with the TCP   *)
(* connection between them.                                                *)
(*                                                                         *)
(* Data flow "up" (application to target) and "down".  In each direction   *)
(* one task reads plain blocks from its socket, the source, and writes     *)
(* frames to the connection, and the other decodes the frames and writes   *)
(* the blocks to its socket, the sink.  Both loops of a task run under     *)
(* try_join!, so a direction may end while the other goes on.              *)
(*                                                                         *)
(* Every frame carries a digit of the sender's minute (wire_prefix.rs),    *)
(* computed once for all the frames of a relay, and the receiver compares  *)
(* it with its own clock when it decodes the frame (frame.rs).             *)
(***************************************************************************)
EXTENDS Integers, Sequences

CONSTANTS
  Tolerance,   \* max_time_diff_secs in minutes, rounded up
  Secret,      \* first byte of the shared secret
  Skew,        \* minutes the server's clock is ahead of the client's
  PipeCap,     \* frames the connection holds in one direction
  MaxBlocks,   \* bound on the blocks of one direction
  MaxMinutes,  \* bound on the minutes that pass
  Faults       \* what may fail: "client", "server" (the socket on that side
               \* of the tunnel, once data flows), "path" (between them)

ASSUME ToleranceAssumption == Tolerance \in Nat /\ Secret \in 0..255 /\ Skew \in Int
ASSUME BoundsAssumption ==
  PipeCap \in Nat \ {0} /\ MaxBlocks \in Nat /\ MaxMinutes \in Nat
ASSUME FaultsAssumption == Faults \subseteq {"client", "server", "path"}

Tasks == {"client", "server"}
Dirs == {"up", "down"}
Out(t) == IF t = "client" THEN "up" ELSE "down"
In(t) == IF t = "client" THEN "down" ELSE "up"
From(d) == IF d = "up" THEN "client" ELSE "server"
To(d) == IF d = "up" THEN "server" ELSE "client"

Digits == 0..8
Kinds == {"prelude", "hello", "address", "yes", "no", "data"}
Frame == [kind : Kinds, n : 0..MaxBlocks, digit : Digits]

VARIABLES
  minute,    \* minutes passed
  pc,        \* pc[t]: where the task stands
  digit,     \* digit[t]: its auth_byte
  reply,     \* the SOCKS5 reply given to the application
  pipe,      \* pipe[d]: frames on the connection
  ending,    \* ending[d]: "open", "fin" or "reset" behind these frames
  sender,    \* sender[d]: "read", "write" (holds a block), "done"
  receiver,  \* receiver[d]: "run", "done"
  read,      \* read[d]: blocks read from the source
  got,       \* got[d]: number of the last block written to the sink
  closed,    \* closed[d]: the source has closed
  ended      \* ended[d]: the sink has been given an end of stream

taskVars == <<pc, digit, reply>>
pipeVars == <<pipe, ending>>
relayVars == <<sender, receiver, read, got>>
vars == <<minute, taskVars, pipeVars, relayVars, closed, ended>>

Over(t) == pc[t] \in {"failed", "done"}
Handshaking == pc["server"] \in {"prelude", "hello", "address"}

Init ==
  /\ minute = 0
  /\ pc = [t \in Tasks |-> IF t = "client" THEN "socks" ELSE "idle"]
  /\ digit = [t \in Tasks |-> 0]
  /\ reply = "none"
  /\ pipe = [d \in Dirs |-> <<>>]
  /\ ending = [d \in Dirs |-> "open"]
  /\ sender = [d \in Dirs |-> "read"]
  /\ receiver = [d \in Dirs |-> "run"]
  /\ read = [d \in Dirs |-> 0]
  /\ got = [d \in Dirs |-> 0]
  /\ closed = [d \in Dirs |-> FALSE]
  /\ ended = [d \in Dirs |-> FALSE]

-----------------------------------------------------------------------------
(* The digit of the first byte: generate_first_auth_byte and                *)
(* verify_first_auth_byte.  Minutes count from some instant long after      *)
(* 1970, so the subtraction does not saturate.                              *)
Clock(t) == IF t = "server" THEN minute + Skew ELSE minute

DigitOf(m) == ((m % 10) + Secret) % 9

(* Mutant of Accepts: the last minute of the tolerance is left out.         *)
AcceptsShort(dg, m) ==
  \E o \in 0..(Tolerance - 1) : dg = DigitOf(m - o) \/ dg = DigitOf(m + o)

Accepts(dg, m) ==
  \E o \in 0..Tolerance : dg = DigitOf(m - o) \/ dg = DigitOf(m + o)

(* A frame, as FrameCodec::encode makes it, and whether decode takes it:    *)
(* keys and tags always match between the two ends of a session.            *)
Stamp(kind, n, dg) == [kind |-> kind, n |-> n, digit |-> dg]
Decodes(t, f) == Accepts(f.digit, Clock(t))

CanWrite(t) == Len(pipe[Out(t)]) < PipeCap /\ ending[Out(t)] = "open"
Written(t, f) == pipe' = [pipe EXCEPT ![Out(t)] = Append(@, f)]

(* read_encrypted_frame: the next frame for t.                              *)
Ready(t) == pipe[In(t)] # <<>>
Upcoming(t) == Head(pipe[In(t)])
Taken(t) == pipe' = [pipe EXCEPT ![In(t)] = Tail(@)]

Goto(t, where) == pc' = [pc EXCEPT ![t] = where]

(* The client's task holds the application's socket from the start, the     *)
(* server's the target's once it is connected.                              *)
HasSink(t) == t = "client" \/ pc[t] \in {"yes", "start", "relay"}

(* The task of t returns an error, and its sockets are dropped: the peer    *)
(* finds a clean end, or a reset that also loses frames under way, and the  *)
(* sink an end of stream, or a reset.                                       *)
Fail(t) ==
  /\ Goto(t, "failed")
  /\ \E e \in {"fin", "reset"}, m \in 0..Len(pipe[Out(t)]) :
       /\ e = "fin" => m = Len(pipe[Out(t)])
       /\ ending' = [ending EXCEPT ![Out(t)] = IF @ = "open" THEN e ELSE @]
       /\ pipe' = [pipe EXCEPT ![Out(t)] =
                     IF ending[Out(t)] = "open" THEN SubSeq(@, 1, m) ELSE @]
  /\ \/ HasSink(t) /\ ended' = [ended EXCEPT ![In(t)] = TRUE]
     \/ UNCHANGED ended
  /\ UNCHANGED <<minute, digit, relayVars, closed>>

-----------------------------------------------------------------------------
(* Client: handle_local_connection up to the relay.                         *)

(* SOCKS5 greeting and request have been read, whatever the address; the    *)
(* server is connected to.  On any error the task ends without a reply.     *)
Connect ==
  /\ pc["client"] = "socks"
  /\ pc' = [client |-> "prelude", server |-> "prelude"]
  /\ UNCHANGED <<minute, digit, reply, pipeVars, relayVars, closed, ended>>

ConnectFails == pc["client"] = "socks" /\ Fail("client") /\ UNCHANGED reply

(* establish_session: prefix and salt, hello frame, address frame, each     *)
(* with the digit of its moment.                                            *)
SendHandshake ==
  /\ pc["client"] \in {"prelude", "hello", "address"} /\ CanWrite("client")
  /\ Written("client", Stamp(pc["client"], 0, DigitOf(Clock("client"))))
  /\ Goto("client", [prelude |-> "hello", hello |-> "address",
                     address |-> "response"][pc["client"]])
  /\ UNCHANGED <<minute, digit, reply, ending, relayVars, closed, ended>>

(* The response decides on the SOCKS5 reply; the task ends when it is a     *)
(* refusal, or no response at all, in which case there is no reply either.  *)
ReadResponse ==
  /\ pc["client"] = "response" /\ Ready("client")
  /\ Decodes("client", Upcoming("client")) /\ Upcoming("client").kind = "yes"
  /\ Taken("client") /\ reply' = "ok"
  /\ Goto("client", "start")
  /\ UNCHANGED <<minute, digit, ending, relayVars, closed, ended>>

Refused ==
  /\ pc["client"] = "response" /\ Ready("client")
  /\ \/ ~ Decodes("client", Upcoming("client")) /\ UNCHANGED reply
     \/ /\ Decodes("client", Upcoming("client"))
        /\ Upcoming("client").kind = "no" /\ reply' = "refused"
  /\ Fail("client")

NoResponse ==
  /\ pc["client"] \in {"prelude", "hello", "address", "response"}
  /\ Over("server") \/ ending["down"] # "open"
  /\ pc["client"] = "response" => ~ Ready("client")
  /\ Fail("client") /\ UNCHANGED reply

-----------------------------------------------------------------------------
(* Server: handle_client_connection up to the relay.                        *)

(* Prefix, hello (salt, HMAC and timestamp, replay cache) and address; with *)
(* the address the auth_byte of the response is computed, before the target *)
(* is connected to.                                                         *)
ReadHandshake ==
  /\ Handshaking /\ Ready("server") /\ Upcoming("server").kind = pc["server"]
  /\ Decodes("server", Upcoming("server"))
  /\ Taken("server")
  /\ Goto("server", [prelude |-> "hello", hello |-> "address",
                     address |-> "dial"][pc["server"]])
  /\ digit' = IF pc["server"] = "address"
                THEN [digit EXCEPT !["server"] = DigitOf(Clock("server"))] ELSE digit
  /\ UNCHANGED <<minute, reply, ending, relayVars, closed, ended>>

(* A frame or a packet is refused, the client is gone, or the handshake     *)
(* times out.                                                               *)
HandshakeFails == Handshaking /\ Fail("server") /\ UNCHANGED reply

(* connect_to_target, or its error or timeout.                              *)
Dial ==
  /\ pc["server"] = "dial"
  /\ Goto("server", "yes") \/ Goto("server", "no")
  /\ UNCHANGED <<minute, digit, reply, pipeVars, relayVars, closed, ended>>

Respond ==
  /\ pc["server"] = "yes" /\ CanWrite("server")
  /\ Written("server", Stamp("yes", 0, digit["server"]))
  /\ Goto("server", "start")
  /\ UNCHANGED <<minute, digit, reply, ending, relayVars, closed, ended>>

(* The refusal is written, if it can be, and the task returns the error.    *)
RespondFailure ==
  /\ pc["server"] = "no" /\ CanWrite("server")
  /\ Written("server", Stamp("no", 0, digit["server"]))
  /\ Goto("server", "failed")
  /\ ending' = [ending EXCEPT !["down"] = "fin"]
  /\ UNCHANGED <<minute, digit, reply, relayVars, closed, ended>>

RespondFails ==
  /\ pc["server"] \in {"yes", "no"}
  /\ Over("client") \/ ending["down"] = "reset"
  /\ Fail("server") /\ UNCHANGED reply

-----------------------------------------------------------------------------
(* relay_with_encryption, of either task.                                   *)

StartRelay(t) ==
  /\ pc[t] = "start"
  /\ digit' = [digit EXCEPT ![t] = DigitOf(Clock(t))]
  /\ Goto(t, "relay")
  /\ UNCHANGED <<minute, reply, pipeVars, relayVars, closed, ended>>

ReadSource(t) ==
  LET d == Out(t) IN
  /\ pc[t] = "relay" /\ sender[d] = "read" /\ ~ closed[d]
  /\ read[d] < MaxBlocks
  /\ read' = [read EXCEPT ![d] = @ + 1]
  /\ sender' = [sender EXCEPT ![d] = "write"]
  /\ UNCHANGED <<minute, taskVars, pipeVars, receiver, got, closed, ended>>

WriteFrame(t) ==
  LET d == Out(t) IN
  /\ pc[t] = "relay" /\ sender[d] = "write" /\ CanWrite(t)
  /\ Written(t, Stamp("data", read[d], digit[t]))
  /\ sender' = [sender EXCEPT ![d] = "read"]
  /\ UNCHANGED <<minute, taskVars, ending, receiver, read, got, closed, ended>>

(* Mutants of SourceEof: the block in hand is not written first; the write  *)
(* half is not shut down; the whole task ends, as with select! in place of  *)
(* try_join!.                                                               *)
SourceEofEarly(t) ==
  LET d == Out(t) IN
  /\ pc[t] = "relay" /\ sender[d] # "done" /\ closed[d] /\ ending[d] = "open"
  /\ ending' = [ending EXCEPT ![d] = "fin"]
  /\ sender' = [sender EXCEPT ![d] = "done"]
  /\ UNCHANGED <<minute, taskVars, pipe, receiver, read, got, closed, ended>>

SourceEofSilently(t) ==
  LET d == Out(t) IN
  /\ pc[t] = "relay" /\ sender[d] = "read" /\ closed[d] /\ ending[d] = "open"
  /\ sender' = [sender EXCEPT ![d] = "done"]
  /\ UNCHANGED <<minute, taskVars, pipeVars, receiver, read, got, closed, ended>>

SourceEofEndsTask(t) ==
  LET d == Out(t) IN
  /\ pc[t] = "relay" /\ sender[d] = "read" /\ closed[d] /\ ending[d] = "open"
  /\ ending' = [ending EXCEPT ![d] = "fin"]
  /\ sender' = [sender EXCEPT ![d] = "done"]
  /\ Goto(t, "done")
  /\ UNCHANGED <<minute, digit, reply, pipe, receiver, read, got, closed, ended>>

(* End of the source: the write half of the connection is shut down.        *)
SourceEof(t) ==
  LET d == Out(t) IN
  /\ pc[t] = "relay" /\ sender[d] = "read" /\ closed[d] /\ ending[d] = "open"
  /\ ending' = [ending EXCEPT ![d] = "fin"]
  /\ sender' = [sender EXCEPT ![d] = "done"]
  /\ UNCHANGED <<minute, taskVars, pipe, receiver, read, got, closed, ended>>

(* A block is decoded and written to the sink.                              *)
Deliver(t) ==
  LET d == In(t) IN
  /\ pc[t] = "relay" /\ receiver[d] = "run" /\ Ready(t) /\ Decodes(t, Upcoming(t))
  /\ Taken(t)
  /\ got' = [got EXCEPT ![d] = Upcoming(t).n]
  /\ UNCHANGED <<minute, taskVars, ending, sender, receiver, read, closed, ended>>

(* Mutant of PipeEof: any error of the read is taken for the end.           *)
PipeEofAny(t) ==
  LET d == In(t) IN
  /\ pc[t] = "relay" /\ receiver[d] = "run" /\ ~ Ready(t) /\ ending[d] # "open"
  /\ receiver' = [receiver EXCEPT ![d] = "done"]
  /\ ended' = [ended EXCEPT ![d] = TRUE]
  /\ UNCHANGED <<minute, taskVars, pipeVars, sender, read, got, closed>>

(* The connection ends, between two frames or within one (is_eof makes no   *)
(* difference): the sink is given the end.                                  *)
PipeEof(t) ==
  LET d == In(t) IN
  /\ pc[t] = "relay" /\ receiver[d] = "run" /\ ~ Ready(t) /\ ending[d] = "fin"
  /\ receiver' = [receiver EXCEPT ![d] = "done"]
  /\ ended' = [ended EXCEPT ![d] = TRUE]
  /\ UNCHANGED <<minute, taskVars, pipeVars, sender, read, got, closed>>

(* A frame that does not decode, or a reset connection.                     *)
ReceiveFails(t) ==
  /\ pc[t] = "relay" /\ receiver[In(t)] = "run"
  /\ \/ Ready(t) /\ ~ Decodes(t, Upcoming(t))
     \/ ~ Ready(t) /\ ending[In(t)] = "reset"
  /\ Fail(t) /\ UNCHANGED reply

(* Writing to, or shutting down, a connection whose peer is gone.           *)
SendFails(t) ==
  /\ pc[t] = "relay" /\ sender[Out(t)] # "done"
  /\ sender[Out(t)] = "write" \/ closed[Out(t)]
  /\ Over(To(Out(t))) \/ ending[Out(t)] = "reset"
  /\ Fail(t) /\ UNCHANGED reply

(* try_join!: both directions are done.                                     *)
Finish(t) ==
  /\ pc[t] = "relay" /\ sender[Out(t)] = "done" /\ receiver[In(t)] = "done"
  /\ Goto(t, "done")
  /\ UNCHANGED <<minute, digit, reply, pipeVars, relayVars, closed, ended>>

(* The socket to the application or to the target fails.                    *)
LocalError(t) ==
  /\ t \in Faults /\ pc[t] = "relay"
  /\ Fail(t) /\ UNCHANGED reply

ClientUpload == ReadSource("client") \/ WriteFrame("client") \/ SourceEof("client")
ServerDownload == ReadSource("server") \/ WriteFrame("server") \/ SourceEof("server")
ClientDownload == Deliver("client") \/ PipeEof("client")
ServerUpload == Deliver("server") \/ PipeEof("server")
Relay ==
  \/ ClientUpload \/ ServerDownload \/ ClientDownload \/ ServerUpload
  \/ \E t \in Tasks : StartRelay(t) \/ ReceiveFails(t) \/ SendFails(t)
                        \/ Finish(t) \/ LocalError(t)

-----------------------------------------------------------------------------
(* The world outside: application and target (external) close their side    *)
(* when they like, the connection may break, time passes.                   *)
Close(d) ==
  /\ ~ closed[d]
  /\ closed' = [closed EXCEPT ![d] = TRUE]
  /\ UNCHANGED <<minute, taskVars, pipeVars, relayVars, ended>>

PathBreaks ==
  /\ "path" \in Faults /\ pc["server"] # "idle"
  /\ \E m \in [Dirs -> 0..PipeCap] :
       /\ \A d \in Dirs : m[d] <= Len(pipe[d])
       /\ pipe' = [d \in Dirs |-> SubSeq(pipe[d], 1, m[d])]
  /\ ending' = [d \in Dirs |-> "reset"]
  /\ UNCHANGED <<minute, taskVars, relayVars, closed, ended>>

Tick ==
  /\ minute < MaxMinutes
  /\ minute' = minute + 1
  /\ UNCHANGED <<taskVars, pipeVars, relayVars, closed, ended>>

(* Nothing is left to do.                                                   *)
Gone ==
  /\ \A t \in Tasks : Over(t) \/ pc[t] = "idle"
  /\ UNCHANGED vars

Client == SendHandshake \/ ReadResponse \/ Refused \/ NoResponse
Server == ReadHandshake \/ HandshakeFails \/ Dial \/ Respond \/ RespondFailure
            \/ RespondFails

Next ==
  \/ Connect \/ ConnectFails \/ Client \/ Server \/ Relay
  \/ \E d \in Dirs : Close(d)
  \/ PathBreaks \/ Tick \/ Gone

Spec == Init /\ [][Next]_vars

(* The tasks are polled when they can run, and the handshake and the dial   *)
(* of the server have timeouts.  Nobody has to send, to close or to fail.   *)
Sending(t) == WriteFrame(t) \/ SourceEof(t) \/ SendFails(t)
Receiving(t) == Deliver(t) \/ PipeEof(t) \/ ReceiveFails(t)

Fairness ==
  /\ WF_vars(Connect) /\ WF_vars(Client) /\ WF_vars(Server)
  /\ \A t \in Tasks : /\ WF_vars(StartRelay(t)) /\ WF_vars(Finish(t))
                      /\ WF_vars(Sending(t)) /\ WF_vars(Receiving(t))

FairSpec == Spec /\ Fairness
-----------------------------------------------------------------------------
(* Type invariant.                                                          *)
TypeOK ==
  /\ minute \in 0..MaxMinutes
  /\ pc \in [Tasks -> {"socks", "idle", "prelude", "hello", "address", "dial",
                       "yes", "no", "response", "start", "relay", "done", "failed"}]
  /\ digit \in [Tasks -> Digits]
  /\ reply \in {"none", "ok", "refused"}
  /\ pipe \in [Dirs -> Seq(Frame)]
  /\ ending \in [Dirs -> {"open", "fin", "reset"}]
  /\ sender \in [Dirs -> {"read", "write", "done"}]
  /\ receiver \in [Dirs -> {"run", "done"}]
  /\ read \in [Dirs -> 0..MaxBlocks] /\ got \in [Dirs -> 0..MaxBlocks]
  /\ closed \in [Dirs -> BOOLEAN] /\ ended \in [Dirs -> BOOLEAN]

(* However long a session lasts, no frame of its own is refused for its     *)
(* digit, which was computed when the relay began: the receiver would end   *)
(* the session with an authentication error.                                *)
DigitsAccepted ==
  \A t \in Tasks : \A j \in 1..Len(pipe[In(t)]) : Decodes(t, pipe[In(t)][j])

(* A stream that ends short of the last block of its source ends with an    *)
(* error of one of the two tasks: a reset connection or a refused frame is  *)
(* never taken for the end, so it is never reported as a session that went  *)
(* well.  It does not hold without the error: the sockets of a task that    *)
(* fails are dropped, and application or target may read an end of stream.  *)
EndIsHonest ==
  \A d \in Dirs :
    ended[d] => \/ closed[d] /\ got[d] = read[d]
                \/ pc[From(d)] = "failed" \/ pc[To(d)] = "failed"

(* When nothing fails once data flows, each direction of the tunnel is the  *)
(* ordered byte stream that the striped downlink implements too.  Before    *)
(* the reply that grants the request there is no stream to the application: *)
(* an end it reads then is that of the SOCKS5 exchange.                     *)
Up == INSTANCE ByteStream WITH
        produced <- read["up"], closed <- closed["up"],
        delivered <- got["up"], ended <- ended["up"]
Down == INSTANCE ByteStream WITH
          produced <- read["down"], closed <- closed["down"],
          delivered <- got["down"], ended <- ended["down"] /\ reply = "ok"

UpImplementsByteStream == Up!BSSpec

(* The same of the blocks from the target to the application.               *)
DownImplementsByteStream == Down!BSSpec

(* Liveness: when nothing fails, every block read from the source arrives,  *)
(* also after the opposite direction has ended (half-closed connections).   *)
Delivered ==
  \A d \in Dirs : \A b \in 0..(MaxBlocks - 1) : read[d] > b ~> got[d] > b

(* Liveness: once the application has closed, and the target has too or the *)
(* server is gone, both tasks end and give their permits back.              *)
SessionEnds ==
  closed["up"] /\ (closed["down"] \/ Over("server")) ~>
    \A t \in Tasks : Over(t) \/ pc[t] = "idle"
=============================================================================
