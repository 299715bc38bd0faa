---------------------------- MODULE ReplayCache ----------------------------
(***************************************************************************)
(* The authentication of a session: the packet the client makes            *)
(* (shared/src/auth.rs, AuthPacket::new), the server's check of its time   *)
(* (AuthPacket::verify), and the cache of the packets it has accepted      *)
(* (server/src/server.rs, reject_replayed_auth).                           *)
(*                                                                         *)
(* verify and the cache read the clock separately, the cache before it     *)
(* awaits its lock, and connections run in parallel: a lookup may use a    *)
(* time older than that of a lookup before it, or later than that of its   *)
(* own verify.  The clock is SystemTime, which may also step back.         *)
(*                                                                         *)
(* All packets carry one user name and one secret, and verify's comparison *)
(* of the HMAC succeeds.                                                   *)
(***************************************************************************)
EXTENDS Integers

CONSTANTS
  Conns,      \* connections, each one handshake
  Tolerance,  \* max_time_diff_secs
  Sequences,  \* what the nanosecond clock of next_auth_sequence may show
  MaxClock    \* bound on the server's clock, and on the clients'

ASSUME ToleranceAssumption == Tolerance \in Nat
ASSUME BoundsAssumption == MaxClock \in Nat

Times == 0..MaxClock
AuthPacket == [timestamp : Times, sequence : Sequences]
NoPacket == [timestamp |-> 0]

VARIABLES
  clock,   \* the server's SystemTime, in seconds
  latest,  \* the latest time the clock has shown
  pc,      \* pc[c]: where the handshake of c stands
  packet,  \* packet[c]: the packet c carries
  now,     \* now[c]: the time reject_replayed_auth has read
  cache    \* AUTH_REPLAY_CACHE: packets, as their HMACs determine them

vars == <<clock, latest, pc, packet, now, cache>>

Init ==
  /\ clock \in Times
  /\ latest = clock
  /\ pc = [c \in Conns |-> "start"]
  /\ packet = [c \in Conns |-> NoPacket]
  /\ now = [c \in Conns |-> 0]
  /\ cache = {}

Goto(c, where) == pc' = [pc EXCEPT ![c] = where]

(* Mutant of Hmac: the sequence is left out.                                *)
HmacOfTime(p) == p.timestamp

(* compute_hmac: two packets have the same HMAC if they have the same       *)
(* contents.                                                                *)
Hmac(p) == <<p.timestamp, p.sequence>>

-----------------------------------------------------------------------------
(* AuthPacket::new, with the client's own clock and next_auth_sequence: two *)
(* connections may be made in one tick of the clock.                        *)
Make(c) ==
  /\ pc[c] = "start"
  /\ \E p \in AuthPacket : packet' = [packet EXCEPT ![c] = p]
  /\ Goto(c, "hello")
  /\ UNCHANGED <<clock, latest, now, cache>>

(* Mutant of InTime: only packets that are too old are refused.             *)
InTimeOld(p) == clock - p.timestamp <= Tolerance

(* verify: abs_diff of the clock and the timestamp.                         *)
InTime(p) == p.timestamp - Tolerance <= clock /\ clock <= p.timestamp + Tolerance

Verify(c) ==
  /\ pc[c] = "hello"
  /\ Goto(c, IF InTime(packet[c]) THEN "verified" ELSE "expired")
  /\ UNCHANGED <<clock, latest, packet, now, cache>>

(* reject_replayed_auth up to the await of the lock.                        *)
ReadNow(c) ==
  /\ pc[c] = "verified"
  /\ now' = [now EXCEPT ![c] = clock]
  /\ Goto(c, "locking")
  /\ UNCHANGED <<clock, latest, packet, cache>>

(* Mutant of Retained: the last second of the tolerance is left out.        *)
RetainedShort(t) == {p \in cache : p.timestamp > t - Tolerance}

(* retain: timestamp >= now.saturating_sub(max_age); no timestamp is below  *)
(* zero, so that the saturation makes no difference.                        *)
Retained(t) == {p \in cache : p.timestamp >= t - Tolerance}

(* The rest of reject_replayed_auth, under the lock.                        *)
LookUp(c) ==
  /\ pc[c] = "locking"
  /\ LET kept == Retained(now[c])
         found == \E p \in kept : Hmac(p) = Hmac(packet[c])
     IN  /\ cache' = kept \cup {packet[c]}
         /\ Goto(c, IF found THEN "replayed" ELSE "accepted")
  /\ UNCHANGED <<clock, latest, packet, now>>

(* The handshake timeout drops the handshake where it awaits.               *)
HandshakeTimeout(c) ==
  /\ pc[c] \in {"start", "hello", "locking"}
  /\ Goto(c, "dropped")
  /\ UNCHANGED <<clock, latest, packet, now, cache>>

(* The clock of the system goes on, or is set back.                         *)
Tick ==
  /\ clock < MaxClock
  /\ clock' = clock + 1
  /\ latest' = IF clock' > latest THEN clock' ELSE latest
  /\ UNCHANGED <<pc, packet, now, cache>>

StepBack ==
  /\ clock > 0
  /\ clock' = clock - 1
  /\ UNCHANGED <<latest, pc, packet, now, cache>>

Handshake(c) == Make(c) \/ Verify(c) \/ ReadNow(c) \/ LookUp(c) \/ HandshakeTimeout(c)

Next == Tick \/ StepBack \/ \E c \in Conns : Handshake(c)

Spec == Init /\ [][Next]_vars

-----------------------------------------------------------------------------
PCs == {"start", "hello", "verified", "locking",
        "accepted", "replayed", "expired", "dropped"}

(* The types of the variables, once a packet is made.                       *)
TypeOK ==
  /\ clock \in Times /\ latest \in Times /\ clock <= latest
  /\ pc \in [Conns -> PCs]
  /\ packet \in [Conns -> AuthPacket \cup {NoPacket}]
  /\ \A c \in Conns : pc[c] \notin {"start", "dropped"} => packet[c] \in AuthPacket
  /\ now \in [Conns -> Times]
  /\ cache \subseteq AuthPacket

Accepted(c) == pc[c] = "accepted"

(* Two connections are accepted with the same packet only if the server's   *)
(* clock has passed the end of its validity by the later of the two: within *)
(* it, a packet is accepted once, whatever the order in which the           *)
(* connections read the clock and take the lock of the cache.               *)
AcceptedOnceInTime ==
  \A c, d \in Conns :
    c # d /\ Accepted(c) /\ Accepted(d) /\ packet[c] = packet[d]
      => latest > packet[c].timestamp + Tolerance

(* A connection is refused as a replay only if another connection has been  *)
(* accepted with the same packet: one that was dropped at the lock, refused *)
(* for its time, or made in another tick never costs a client its session.  *)
RefusedOnlyIfSeen ==
  \A c \in Conns :
    pc[c] = "replayed"
      => \E d \in Conns \ {c} : Accepted(d) /\ packet[d] = packet[c]

(* An entry is at most the tolerance ahead of the latest clock, so that     *)
(* every entry can be purged once twice the tolerance has passed: the cache *)
(* does not keep packets of clients whose clocks are ahead for longer.      *)
EntriesExpire == \A p \in cache : p.timestamp <= latest + Tolerance
=============================================================================
