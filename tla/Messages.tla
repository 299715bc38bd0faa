------------------------------ MODULE Messages ------------------------------
(***************************************************************************)
(* The bytes of a session's set-up, from the application's SOCKS5 request  *)
(* to the address the server dials and the answer that comes back:         *)
(* shared/src/protocol.rs (TargetAddr, Request), session.rs (ClientHello,  *)
(* ConnectResponse), auth.rs (AuthPacket), and the code that uses them in  *)
(* client-core/src/proxy.rs and server/src/server.rs.                      *)
(*                                                                         *)
(* An address is encoded twice: by the application, and by the client once *)
(* it has decoded it; the server decodes it a second time.  Lengths are    *)
(* written in one or two bytes, and are reduced to these.  Frames, keys    *)
(* and failures of the connections are the subject of Tunnel.              *)
(*                                                                         *)
(* Names are made of ASCII, of the byte Bad, which is not part of UTF-8,   *)
(* and of the replacement character.  auth.enabled is set at both ends,    *)
(* and the salt in the hello is that of the connection.                    *)
(***************************************************************************)
EXTENDS Integers, Sequences

CONSTANTS
  Greetings,   \* greetings of the application
  Requests,    \* its requests
  Usernames,   \* auth.username of the client
  Counts,      \* subflows asked for; the client of this repository asks for 1
  Limits,      \* server.max_subflows
  EarlyData    \* bytes the application sends behind its request

Byte == 0..255

Bad == 255
Replacement == <<239, 191, 189>>
MAX_SUBFLOWS == 8
CREDIT_FLAG == 128

Ipv4 == 1
Domain == 3
Ipv6 == 4

(* The length of a greeting and of an address is what its own bytes say.    *)
ASSUME GreetingsAssumption ==
  \A g \in Greetings :
    g \in Seq(Byte) /\ Len(g) > 1 /\ (g[1] = 5 /\ g[2] > 0 => Len(g) = 2 + g[2])

ASSUME RequestsAssumption ==
  \A r \in Requests :
    /\ r.version \in Byte /\ r.command \in Byte /\ r.type \in Byte
    /\ r.port \in Nat /\ r.port < 65536
    /\ r.host \in Seq(Byte) /\ Len(r.host) \in Byte
    /\ r.type = Ipv4 => Len(r.host) = 4
    /\ r.type = Ipv6 => Len(r.host) = 16

ASSUME ConfigsAssumption ==
  /\ Usernames \subseteq Seq(Byte)
  /\ Counts \subseteq Byte \ {0}
  /\ Limits \subseteq Nat
  /\ EarlyData \in Seq(Byte)

(* A TargetAddr is a record of type, host (bytes) and port, and a request   *)
(* has a version and a command as well.                                     *)
NoTarget == [type |-> 0]
NotAsked == [version |-> 0]

VARIABLES
  app,        \* what the application has written last
  asked,      \* its request
  stream,     \* bytes on their way to the client
  replies,    \* bytes the client has written to the application
  pc,         \* pc["client"], pc["server"]
  target,     \* the client's target address
  username, requested, limit,   \* the configurations, once they are used
  hello, address, response,     \* payloads between client and server
  plan,       \* the server's target and number of subflows
  connected,  \* the server is connected to plan.target
  count       \* the number of subflows the client has been told

clientVars == <<asked, stream, replies, target, count>>
configVars == <<username, requested, limit>>
serverVars == <<plan, connected>>
wireVars == <<hello, address, response>>
vars == <<app, pc, clientVars, configVars, serverVars, wireVars>>

-----------------------------------------------------------------------------
(* String::from_utf8_lossy: a byte that is no part of a character, and the  *)
(* beginning of a character that does not go on, become the replacement     *)
(* character.                                                               *)
Whole(bytes, i) ==
  \E k \in (i - 2)..i :
    k > 0 /\ k + 2 <= Len(bytes) /\ SubSeq(bytes, k, k + 2) = Replacement

LossyAt(bytes, i) ==
  CASE bytes[i] < 128 \/ Whole(bytes, i) -> <<bytes[i]>>
    [] ~Whole(bytes, i) /\ i > 1 /\ SubSeq(bytes, i - 1, i) = SubSeq(Replacement, 1, 2) -> <<>>
    [] OTHER -> Replacement

Spans(bytes) == { s \in (1..Len(bytes)) \X (1..Len(bytes)) : s[1] <= s[2] }
Middle(s) == (s[1] + s[2]) \div 2

Lossy(bytes) ==
  LET text[s \in Spans(bytes)] ==
        IF s[1] = s[2] THEN LossyAt(bytes, s[1])
        ELSE text[<<s[1], Middle(s)>>] \o text[<<Middle(s) + 1, s[2]>>]
  IN  IF bytes = <<>> THEN <<>> ELSE text[<<1, Len(bytes)>>]

U16(p) == <<p \div 256, p % 256>>
U16At(bytes, i) == bytes[i] * 256 + bytes[i + 1]

(* Mutant of Encode: the port in little-endian order.                       *)
EncodeLittle(t) ==
  <<t.type>> \o (IF t.type = Domain THEN <<Len(t.host) % 256>> ELSE <<>>)
    \o t.host \o <<t.port % 256, t.port \div 256>>

(* What an application sends for an address of at most 255 bytes.           *)
Socks5Address(r) ==
  <<r.type>> \o (IF r.type = Domain THEN <<Len(r.host)>> ELSE <<>>) \o r.host \o U16(r.port)

(* TargetAddr::encode: the length of a domain is written as u8.             *)
Encode(t) ==
  <<t.type>> \o (IF t.type = Domain THEN <<Len(t.host) % 256>> ELSE <<>>)
    \o t.host \o U16(t.port)

(* Where the port stands in an encoded address; 0 if that is not known.     *)
PortIndex(bytes) ==
  CASE bytes = <<>> -> 0
    [] bytes[1] = Ipv4 -> 6
    [] bytes[1] = Ipv6 -> 18
    [] bytes[1] = Domain /\ Len(bytes) > 1 -> 3 + bytes[2]
    [] OTHER -> 0

(* TargetAddr::decode: bytes behind the port are not looked at.             *)
Decode(bytes) ==
  LET at == PortIndex(bytes)
      first == IF bytes[1] = Domain THEN 3 ELSE 2
      host == SubSeq(bytes, first, at - 1)
  IN  IF at = 0 \/ Len(bytes) <= at THEN NoTarget
      ELSE [type |-> bytes[1], port |-> U16At(bytes, at),
            host |-> IF bytes[1] = Domain THEN Lossy(host) ELSE host]

(* Request::decode on the bytes read_socks5_request has collected; the      *)
(* command need not be CONNECT, and is not looked at afterwards.            *)
DecodeRequest(bytes) ==
  IF bytes[1] = 5 /\ bytes[2] \in {1, 2, 3} THEN Decode(SubSeq(bytes, 4, Len(bytes)))
                                            ELSE NoTarget

-----------------------------------------------------------------------------
(* AuthPacket::serialize and deserialize.  Body stands for the timestamp,   *)
(* the sequence and the HMAC, of 8, 8 and 32 bytes.                         *)
Body == [i \in 1..48 |-> 200]
ClientIp == <<48, 46, 48, 46, 48, 46, 48>>
Serialize(u) == <<Len(u) % 256>> \o u \o Body \o <<0, Len(ClientIp)>> \o ClientIp

NoPacket == [username |-> <<>>, body |-> <<>>, ip |-> <<>>]

Deserialize(bytes) ==
  LET n == bytes[1]
      ipLen == U16At(bytes, n + 50)
  IN  IF Len(bytes) < 51 \/ Len(bytes) < n + 51 \/ Len(bytes) < n + 51 + ipLen
      THEN NoPacket
      ELSE [username |-> SubSeq(bytes, 2, n + 1),
            body |-> SubSeq(bytes, n + 2, n + 49),
            ip |-> SubSeq(bytes, n + 52, n + 51 + ipLen)]

(* AuthPacket::verify: an HMAC matches the contents it was made of.         *)
Verified(packet, u) == packet = [username |-> u, body |-> Body, ip |-> ClientIp]

Salt == [i \in 1..32 |-> 7]

(* ClientHello::encode: one subflow has no byte of its own.                 *)
EncodeHello(u, n) ==
  LET auth == Serialize(u)
  IN  Salt \o U16(Len(auth) % 65536) \o auth \o (IF n > 1 THEN <<n>> ELSE <<>>)

NoHello == [auth |-> NoPacket, subflows |-> 0]

(* Mutant of Subflows: the range leaves out its end.                        *)
SubflowsBelow(rest) ==
  CASE rest = <<>> -> 1
    [] Len(rest) = 1 /\ rest[1] \in 1..(MAX_SUBFLOWS - 1) -> rest[1]
    [] OTHER -> 0

(* The bytes behind the authentication packet; 0 is an error.               *)
Subflows(rest) ==
  CASE rest = <<>> -> 1
    [] Len(rest) = 1 /\ rest[1] \in 1..MAX_SUBFLOWS -> rest[1]
    [] OTHER -> 0

(* ClientHello::decode.                                                     *)
DecodeHello(bytes) ==
  LET end == 34 + U16At(bytes, 33)
      auth == Deserialize(SubSeq(bytes, 35, end))
      n == Subflows(SubSeq(bytes, end + 1, Len(bytes)))
  IN  IF Len(bytes) < end \/ auth = NoPacket \/ n = 0 THEN NoHello
                                                      ELSE [auth |-> auth, subflows |-> n]

(* session_handshake: subflows.clamp(1, max_subflows.max(1)).               *)
Clamped(n, max) ==
  LET most == IF max > 1 THEN max ELSE 1
  IN  IF n > most THEN most ELSE n

(* connect_response_payload.                                                *)
EncodeResponse(ok, n) ==
  <<IF ok THEN 0 ELSE 1>> \o (IF n > 1 THEN <<n + CREDIT_FLAG>> ELSE <<>>)

(* Mutant of DecodeCount: the flag is not masked.                           *)
DecodeCountFlagged(bytes) == IF Len(bytes) = 1 THEN 1 ELSE bytes[2]

(* ConnectResponse::decode: of one byte or two, a success with a count in   *)
(* its range, a refusal with any, or else an error.                         *)
DecodeCount(bytes) == IF Len(bytes) = 1 THEN 1 ELSE bytes[2] % CREDIT_FLAG

Grants(bytes) ==
  Len(bytes) \in 1..2 /\ bytes[1] = 0 /\ DecodeCount(bytes) \in 1..MAX_SUBFLOWS

(* Mutant of Refuses: the form with a count is not known.                   *)
RefusesShort(bytes) == Len(bytes) = 1 /\ bytes[1] = 1

Refuses(bytes) == Len(bytes) \in 1..2 /\ bytes[1] = 1

-----------------------------------------------------------------------------
Init ==
  /\ app = "new" /\ asked = NotAsked
  /\ stream = <<>> /\ replies = <<>>
  /\ pc = [t \in {"client", "server"} |-> "start"]
  /\ target = NoTarget
  /\ username = <<>> /\ requested = 0 /\ limit = 0
  /\ hello = <<>> /\ address = <<>> /\ response = <<>>
  /\ plan = [target |-> NoTarget, subflows |-> 0]
  /\ connected = FALSE
  /\ count = 0

Goto(t, where) == pc' = [pc EXCEPT ![t] = where]

(* The application writes its greeting, its request and its first data,     *)
(* without waiting for answers.                                             *)
AppGreets ==
  /\ app = "new"
  /\ app' = "greeted"
  /\ \E g \in Greetings : stream' = stream \o g
  /\ UNCHANGED <<pc, asked, replies, target, count, configVars, serverVars, wireVars>>

AppAsks ==
  /\ app = "greeted"
  /\ app' = "asked"
  /\ \E r \in Requests :
       /\ asked' = r
       /\ stream' = stream \o <<r.version, r.command, 0>> \o Socks5Address(r)
  /\ UNCHANGED <<pc, replies, target, count, configVars, serverVars, wireVars>>

AppSends ==
  /\ app = "asked"
  /\ app' = "sent"
  /\ stream' = stream \o EarlyData
  /\ UNCHANGED <<pc, asked, replies, target, count, configVars, serverVars, wireVars>>

(* read_exact takes n bytes once they are there.                            *)
Has(n) == Len(stream) >= n
Took(n) == stream' = SubSeq(stream, n + 1, Len(stream))

(* handle_socks5_handshake.                                                 *)
Greet ==
  /\ pc["client"] = "start"
  /\ Has(2)
  /\ \/ /\ stream[1] # 5 \/ stream[2] = 0
        /\ Took(2)
        /\ Goto("client", "failed")
        /\ UNCHANGED replies
     \/ /\ stream[1] = 5 /\ stream[2] > 0 /\ Has(2 + stream[2])
        /\ Took(2 + stream[2])
        /\ LET none == \E i \in 3..(2 + stream[2]) : stream[i] = 0
           IN  /\ replies' = replies \o <<5, IF none THEN 0 ELSE 255>>
               /\ Goto("client", IF none THEN "greeted" ELSE "failed")
  /\ UNCHANGED <<app, asked, target, count, configVars, serverVars, wireVars>>

(* Mutant of RequestSize: the length byte is counted twice.                 *)
RequestSizeLong ==
  CASE stream[4] = Ipv4 -> 10
    [] stream[4] = Ipv6 -> 22
    [] stream[4] = Domain -> IF Has(5) THEN 8 + stream[5] ELSE 5
    [] OTHER -> 4

(* How many bytes read_socks5_request reads, by the type of the address.    *)
RequestSize ==
  CASE stream[4] = Ipv4 -> 10
    [] stream[4] = Ipv6 -> 22
    [] stream[4] = Domain -> IF Has(5) THEN 7 + stream[5] ELSE 5
    [] OTHER -> 4

(* read_socks5_request, and the connection to the server.                   *)
ReadRequest ==
  /\ pc["client"] = "greeted"
  /\ Has(4) /\ Has(RequestSize) /\ (stream[4] = Domain => Has(5))
  /\ Took(RequestSize)
  /\ LET t == DecodeRequest(SubSeq(stream, 1, RequestSize))
     IN  /\ target' = t
         /\ Goto("client", IF t = NoTarget THEN "failed" ELSE "asking")
  /\ UNCHANGED <<app, asked, replies, count, configVars, serverVars, wireVars>>

(* establish_session, with some configuration: the hello and the address.   *)
Establish ==
  /\ pc["client"] = "asking"
  /\ username' \in Usernames /\ requested' \in Counts
  /\ hello' = EncodeHello(username', requested')
  /\ address' = Encode(target)
  /\ Goto("client", "waiting")
  /\ UNCHANGED <<app, clientVars, limit, serverVars, response>>

(* session_handshake: the hello is decoded and verified.                    *)
ReadHello ==
  /\ pc["server"] = "start" /\ hello # <<>>
  /\ limit' \in Limits
  /\ LET h == DecodeHello(hello)
     IN  IF h # NoHello /\ Verified(h.auth, username)
         THEN plan' = [plan EXCEPT !.subflows = Clamped(h.subflows, limit')] /\ Goto("server", "hello")
         ELSE UNCHANGED plan /\ Goto("server", "closed")
  /\ UNCHANGED <<app, clientVars, username, requested, wireVars, connected>>

(* session_handshake: the address.                                          *)
ReadAddress ==
  /\ pc["server"] = "hello"
  /\ LET t == Decode(address)
     IN  /\ plan' = [plan EXCEPT !.target = t]
         /\ Goto("server", IF t = NoTarget THEN "closed" ELSE "dialling")
  /\ UNCHANGED <<app, clientVars, configVars, wireVars, connected>>

(* connect_to_target and the response, which has the count either way.      *)
Dial ==
  /\ pc["server"] = "dialling"
  /\ \E ok \in BOOLEAN :
       /\ connected' = ok
       /\ response' = EncodeResponse(ok, plan.subflows)
       /\ Goto("server", IF ok THEN "relaying" ELSE "closed")
  /\ UNCHANGED <<app, clientVars, configVars, plan, hello, address>>

(* handle_local_connection: the response decides the SOCKS5 reply; there is *)
(* none if the response does not decode, or the server closes without one.  *)
ReadResponse ==
  /\ pc["client"] = "waiting" /\ (response # <<>> \/ pc["server"] = "closed")
  /\ \/ /\ Grants(response)
        /\ count' = DecodeCount(response) /\ Goto("client", "relaying")
        /\ replies' = replies \o <<5, 0>>
     \/ /\ Refuses(response)
        /\ Goto("client", "failed")
        /\ replies' = replies \o <<5, 5>> /\ UNCHANGED count
     \/ /\ ~ Grants(response) /\ ~ Refuses(response)
        /\ Goto("client", "failed")
        /\ UNCHANGED <<replies, count>>
  /\ UNCHANGED <<app, asked, stream, target, configVars, serverVars, wireVars>>

Next ==
  \/ AppGreets \/ AppAsks \/ AppSends
  \/ Greet \/ ReadRequest \/ Establish \/ ReadResponse
  \/ ReadHello \/ ReadAddress \/ Dial

Spec == Init /\ [][Next]_vars

-----------------------------------------------------------------------------
(* The server dials the type, host and port the application has asked for,  *)
(* with the bytes that are no UTF-8 replaced, as long as the replaced name  *)
(* still fits the byte its length is written in.                            *)
DialsWhatWasAsked ==
  pc["server"] \in {"dialling", "relaying"}
    => LET host == IF asked.type = Domain THEN Lossy(asked.host) ELSE asked.host
       IN  Len(host) < 256
             => plan.target = [type |-> asked.type, host |-> host, port |-> asked.port]

(* What the client leaves in the application's stream, once it has read the *)
(* request, is what the application sent behind it: none of the data that   *)
(* is relayed later is taken for a part of the request, or lost to it.      *)
RequestFramed ==
  pc["client"] \in {"asking", "waiting", "relaying"}
    => stream = IF app = "sent" THEN EarlyData ELSE <<>>

(* A session is refused only for what the client is configured to: a name   *)
(* its length byte cannot hold, or a number of subflows out of range; the   *)
(* address the client has encoded is never refused.                         *)
RefusedForCause ==
  pc["server"] = "closed" /\ response = <<>>
    => Len(username) > 255 \/ requested > MAX_SUBFLOWS

(* Client and server agree on the number of subflows, which is neither more *)
(* than was asked for nor than the server allows, and the application is    *)
(* told success if the server is connected, and refusal if it is not, also  *)
(* when the refusal is that of several subflows.                            *)
AnswerAgrees ==
  /\ count > 0 => /\ count = plan.subflows /\ connected
                  /\ count <= requested /\ (count = 1 \/ count <= limit)
  /\ pc["client"] \in {"relaying", "failed"} /\ response # <<>>
       => replies[Len(replies)] = IF connected THEN 0 ELSE 5
=============================================================================
