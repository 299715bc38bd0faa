------------------------- MODULE ReplayCacheProofs -------------------------
(* Theorems about ReplayCache for any number of connections, any tolerance  *)
(* and any clock.  That a packet is accepted once within its validity is    *)
(* not inductive as it stands: what makes it so is that an accepted packet  *)
(* leaves the cache only when some lookup has read a later clock.           *)
EXTENDS ReplayCache, TLAPS

(* An accepted packet is in the cache, or no longer valid.                  *)
Remembered ==
  \A c \in Conns :
    Accepted(c) => packet[c] \in cache \/ latest > packet[c].timestamp + Tolerance

(* No connection has read a time the clock has not shown.                   *)
NowSeen == \A c \in Conns : now[c] <= latest

(* Every entry of the cache was accepted for some connection.               *)
EntriesAccepted == \A p \in cache : \E c \in Conns : Accepted(c) /\ packet[c] = p

(* A packet that was verified is at most the tolerance ahead of the clock.  *)
VerifiedInTime ==
  \A c \in Conns : pc[c] \in {"verified", "locking"}
                     => packet[c].timestamp <= latest + Tolerance

Inv ==
  /\ TypeOK
  /\ NowSeen
  /\ Remembered
  /\ AcceptedOnceInTime
  /\ EntriesAccepted
  /\ RefusedOnlyIfSeen
  /\ VerifiedInTime
  /\ EntriesExpire

(* Timestamps and times are numbers.                                        *)
LEMMA PacketFacts ==
  /\ Times \subseteq Int
  /\ \A p \in AuthPacket : p.timestamp \in Int
BY BoundsAssumption DEF Times, AuthPacket

(* Two packets with the same HMAC are the same packet.                      *)
LEMMA HmacFacts ==
  ASSUME NEW p \in AuthPacket, NEW q \in AuthPacket, Hmac(p) = Hmac(q)
  PROVE  p = q
BY DEF Hmac, AuthPacket

LEMMA InitInv == Init => Inv
<1>. SUFFICES ASSUME Init PROVE Inv
  OBVIOUS
<1>1. TypeOK
  BY BoundsAssumption DEF Init, TypeOK, Times, PCs, NoPacket
<1>2. NowSeen
  <2>1. clock >= 0
    BY BoundsAssumption DEF Init, Times
  <2>2. \A c \in Conns : now[c] = 0
    BY DEF Init
  <2>. QED  BY <2>1, <2>2 DEF Init, NowSeen
<1>. QED
  BY <1>1, <1>2 DEF Init, Inv, Remembered, Accepted, AcceptedOnceInTime,
     EntriesAccepted, RefusedOnlyIfSeen, VerifiedInTime, EntriesExpire

(* The types, one step per action.                                          *)
LEMMA TypeStep == ASSUME TypeOK, [Next]_vars PROVE TypeOK'
<1>. USE DEF TypeOK, Goto, PCs
<1>1. ASSUME NEW c \in Conns, Make(c) PROVE TypeOK'
  <2>1. PICK p \in AuthPacket : packet' = [packet EXCEPT ![c] = p]
    BY <1>1 DEF Make
  <2>. QED  BY <1>1, <2>1 DEF Make
<1>2. ASSUME NEW c \in Conns, Verify(c) PROVE TypeOK'
  BY <1>2 DEF Verify
<1>3. ASSUME NEW c \in Conns, ReadNow(c) PROVE TypeOK'
  BY <1>3 DEF ReadNow
<1>4. ASSUME NEW c \in Conns, LookUp(c) PROVE TypeOK'
  BY <1>4 DEF LookUp, Retained
<1>5. ASSUME NEW c \in Conns, HandshakeTimeout(c) PROVE TypeOK'
  BY <1>5 DEF HandshakeTimeout
<1>6. CASE Tick
  BY <1>6, BoundsAssumption DEF Tick, Times
<1>7. CASE StepBack
  BY <1>7, BoundsAssumption DEF StepBack, Times
<1>8. CASE UNCHANGED vars
  BY <1>8 DEF vars
<1>. QED  BY <1>1, <1>2, <1>3, <1>4, <1>5, <1>6, <1>7, <1>8 DEF Next, Handshake

(* What every step but a lookup does: it leaves the cache and the verdicts  *)
(* alone, and changes the packets of new connections only.                  *)
Keeps ==
  /\ cache' = cache
  /\ latest' >= latest
  /\ \A c \in Conns : pc'[c] = "accepted" <=> pc[c] = "accepted"
  /\ \A c \in Conns : pc'[c] = "replayed" <=> pc[c] = "replayed"
  /\ \A c \in Conns : pc[c] # "start" => packet'[c] = packet[c]

LEMMA OtherSteps ==
  ASSUME TypeOK, [Next]_vars, ~ \E c \in Conns : LookUp(c)
  PROVE  Keeps
<1>. USE PacketFacts DEF TypeOK, Goto, PCs, Keeps
<1>1. ASSUME NEW c \in Conns, Make(c) PROVE Keeps
  <2>1. PICK p \in AuthPacket : packet' = [packet EXCEPT ![c] = p]
    BY <1>1 DEF Make
  <2>. QED  BY <1>1, <2>1 DEF Make
<1>2. ASSUME NEW c \in Conns, Verify(c) PROVE Keeps
  BY <1>2 DEF Verify
<1>3. ASSUME NEW c \in Conns, ReadNow(c) PROVE Keeps
  BY <1>3 DEF ReadNow
<1>4. ASSUME NEW c \in Conns, HandshakeTimeout(c) PROVE Keeps
  BY <1>4 DEF HandshakeTimeout
<1>5. CASE Tick
  BY <1>5 DEF Tick
<1>6. CASE StepBack
  BY <1>6 DEF StepBack
<1>7. CASE UNCHANGED vars
  BY <1>7 DEF vars
<1>. QED  BY <1>1, <1>2, <1>3, <1>4, <1>5, <1>6, <1>7 DEF Next, Handshake

(* A time that is read is one the clock shows.                              *)
LEMMA NowSeenStep ==
  ASSUME TypeOK, TypeOK', NowSeen, [Next]_vars
  PROVE  NowSeen'
<1>. USE PacketFacts DEF TypeOK, NowSeen
<1>1. ASSUME NEW c \in Conns, ReadNow(c) PROVE NowSeen'
  BY <1>1 DEF ReadNow
<1>2. ASSUME now' = now, latest' >= latest PROVE NowSeen'
  <2>1. latest \in Int /\ latest' \in Int /\ \A c \in Conns : now[c] \in Int
    OBVIOUS
  <2>. HIDE DEF TypeOK
  <2>. QED  BY <1>2, <2>1
<1>3. ASSUME NEW c \in Conns, Make(c) \/ Verify(c) \/ LookUp(c) \/ HandshakeTimeout(c)
      PROVE  now' = now /\ latest' >= latest
  BY <1>3 DEF Make, Verify, LookUp, HandshakeTimeout
<1>4. ASSUME Tick \/ StepBack \/ UNCHANGED vars PROVE now' = now /\ latest' >= latest
  BY <1>4 DEF Tick, StepBack, vars
<1>. QED  BY <1>1, <1>2, <1>3, <1>4 DEF Next, Handshake

(* verify compares the timestamp with the clock, and the latest time only   *)
(* grows.                                                                   *)
LEMMA VerifiedStep ==
  ASSUME TypeOK, TypeOK', VerifiedInTime, [Next]_vars
  PROVE  VerifiedInTime'
<1>. USE PacketFacts, ToleranceAssumption DEF TypeOK, VerifiedInTime, Goto, PCs
<1>1. ASSUME NEW c \in Conns, Make(c) PROVE VerifiedInTime'
  <2>1. PICK p \in AuthPacket : packet' = [packet EXCEPT ![c] = p]
    BY <1>1 DEF Make
  <2>. QED  BY <1>1, <2>1 DEF Make
<1>2. ASSUME NEW c \in Conns, Verify(c) PROVE VerifiedInTime'
  <2>1. pc'[c] = "verified" => packet[c].timestamp <= latest + Tolerance
    <3>1. SUFFICES ASSUME pc'[c] = "verified"
                   PROVE  packet[c].timestamp <= latest + Tolerance
      OBVIOUS
    <3>2. packet[c] \in AuthPacket /\ InTime(packet[c])
      BY <1>2, <3>1 DEF Verify
    <3>. QED  BY <3>2 DEF InTime
  <2>. QED  BY <1>2, <2>1 DEF Verify
<1>3. ASSUME NEW c \in Conns, ReadNow(c) PROVE VerifiedInTime'
  BY <1>3 DEF ReadNow
<1>4. ASSUME NEW c \in Conns, LookUp(c) PROVE VerifiedInTime'
  BY <1>4 DEF LookUp
<1>5. ASSUME NEW c \in Conns, HandshakeTimeout(c) PROVE VerifiedInTime'
  BY <1>5 DEF HandshakeTimeout
<1>6. CASE Tick \/ StepBack \/ UNCHANGED vars
  <2>1. pc' = pc /\ packet' = packet /\ latest' >= latest
    BY <1>6 DEF Tick, StepBack, vars
  <2>2. ASSUME NEW c \in Conns, pc'[c] \in {"verified", "locking"}
        PROVE  packet'[c].timestamp <= latest' + Tolerance
    <3>1. packet[c] \in AuthPacket /\ packet[c].timestamp <= latest + Tolerance
      BY <2>1, <2>2
    <3>. QED  BY <2>1, <3>1
  <2>. QED  BY <2>2
<1>. QED  BY <1>1, <1>2, <1>3, <1>4, <1>5, <1>6 DEF Next, Handshake

(* Where the cache and the verdicts stay, so do the facts about them.       *)
LEMMA KeepsStep ==
  ASSUME Inv, TypeOK', Keeps
  PROVE  /\ Remembered' /\ AcceptedOnceInTime' /\ EntriesAccepted'
         /\ RefusedOnlyIfSeen' /\ EntriesExpire'
<1>. USE PacketFacts, ToleranceAssumption DEF Inv, Keeps, Accepted
<1>1. \A c \in Conns : pc'[c] \in {"accepted", "replayed"}
                         => packet'[c] = packet[c] /\ packet[c] \in AuthPacket
  BY DEF TypeOK
<1>2. latest \in Int /\ latest' \in Int /\ \A p \in cache : p.timestamp \in Int
  BY DEF TypeOK
<1>3. \A c \in Conns : Accepted(c)' <=> Accepted(c)
  OBVIOUS
<1>4. Remembered'
  BY <1>1, <1>2 DEF Remembered
<1>5. AcceptedOnceInTime'
  BY <1>1, <1>2 DEF AcceptedOnceInTime
<1>6. EntriesAccepted'
  BY <1>1 DEF EntriesAccepted
<1>7. RefusedOnlyIfSeen'
  BY <1>1 DEF RefusedOnlyIfSeen
<1>8. EntriesExpire'
  BY <1>2 DEF EntriesExpire
<1>. QED  BY <1>4, <1>5, <1>6, <1>7, <1>8

(* A lookup purges what is older than the time it has read, which the clock *)
(* has shown, and accepts its packet if what is left does not hold it.      *)
LEMMA LookUpStep ==
  ASSUME Inv, TypeOK', NEW c \in Conns, LookUp(c)
  PROVE  /\ Remembered' /\ AcceptedOnceInTime' /\ EntriesAccepted'
         /\ RefusedOnlyIfSeen' /\ EntriesExpire'
<1>. DEFINE p == packet[c]
            kept == Retained(now[c])
<1>1. p \in AuthPacket /\ cache \subseteq AuthPacket /\ latest \in Int /\ now[c] \in Int
  BY PacketFacts DEF Inv, TypeOK, LookUp
<1>2. kept \subseteq cache /\ cache' = kept \cup {p}
  BY DEF LookUp, Retained
<1>3. packet' = packet /\ latest' = latest /\ pc[c] = "locking"
  BY DEF LookUp
<1>4. pc'[c] = IF p \in kept THEN "replayed" ELSE "accepted"
  <2>1. (\E q \in kept : Hmac(q) = Hmac(p)) <=> p \in kept
    BY <1>1, <1>2, HmacFacts
  <2>. QED  BY <2>1 DEF LookUp, Goto, Inv, TypeOK
<1>5. \A d \in Conns \ {c} : pc'[d] = pc[d]
  BY DEF LookUp, Goto, Inv, TypeOK
<1>6. \A q \in cache \ kept : latest > q.timestamp + Tolerance
  <2>1. now[c] <= latest
    BY DEF Inv, NowSeen
  <2>. QED  BY <1>1, <2>1, PacketFacts, ToleranceAssumption DEF Retained
<1>. HIDE DEF p, kept
<1>7. \A d \in Conns : Accepted(d) => d # c
  BY <1>3 DEF Accepted
<1>8. Remembered'
  <2>1. ASSUME NEW d \in Conns, Accepted(d)'
        PROVE  packet[d] \in cache' \/ latest > packet[d].timestamp + Tolerance
    <3>1. CASE d = c
      BY <3>1, <1>2 DEF p
    <3>2. CASE d # c
      <4>1. packet[d] \in cache \/ latest > packet[d].timestamp + Tolerance
        BY <3>2, <2>1, <1>5 DEF Inv, Remembered, Accepted
      <4>. QED  BY <4>1, <1>2, <1>6
    <3>. QED  BY <3>1, <3>2
  <2>. QED  BY <2>1, <1>3 DEF Remembered
<1>9. AcceptedOnceInTime'
  <2>1. ASSUME NEW d \in Conns \ {c}, pc'[c] = "accepted", Accepted(d), packet[d] = p
        PROVE  latest > p.timestamp + Tolerance
    <3>1. p \notin kept
      BY <2>1, <1>4
    <3>2. p \in cache \/ latest > p.timestamp + Tolerance
      BY <2>1 DEF Inv, Remembered
    <3>. QED  BY <3>1, <3>2, <1>6
  <2>2. ASSUME NEW d \in Conns, NEW e \in Conns, d # e,
               Accepted(d)', Accepted(e)', packet[d] = packet[e]
        PROVE  latest > packet[d].timestamp + Tolerance
    <3>1. CASE d # c /\ e # c
      BY <3>1, <2>2, <1>5 DEF Inv, AcceptedOnceInTime, Accepted
    <3>2. CASE d = c
      BY <3>2, <2>1, <2>2, <1>5 DEF Accepted, p
    <3>3. CASE e = c
      BY <3>3, <2>1, <2>2, <1>5 DEF Accepted, p
    <3>. QED  BY <3>1, <3>2, <3>3
  <2>. QED  BY <2>2, <1>3 DEF AcceptedOnceInTime
<1>10. \A d \in Conns : Accepted(d) => Accepted(d)'
  BY <1>5, <1>7 DEF Accepted
<1>11. p \in kept => \E d \in Conns \ {c} : Accepted(d) /\ packet[d] = p
  BY <1>2, <1>7 DEF Inv, EntriesAccepted
<1>12. EntriesAccepted'
  <2>1. ASSUME NEW q \in cache'
        PROVE  \E d \in Conns : Accepted(d)' /\ packet[d] = q
    <3>1. CASE q \in kept
      BY <3>1, <1>2, <1>10 DEF Inv, EntriesAccepted
    <3>2. CASE q = p /\ p \notin kept
      BY <3>2, <1>4 DEF Accepted, p
    <3>. QED  BY <2>1, <3>1, <3>2, <1>2
  <2>. QED  BY <2>1, <1>3 DEF EntriesAccepted
<1>13. RefusedOnlyIfSeen'
  <2>1. ASSUME NEW d \in Conns, pc'[d] = "replayed"
        PROVE  \E e \in Conns \ {d} : Accepted(e)' /\ packet[e] = packet[d]
    <3>1. CASE d = c
      BY <3>1, <2>1, <1>4, <1>10, <1>11 DEF p
    <3>2. CASE d # c
      <4>1. \E e \in Conns \ {d} : Accepted(e) /\ packet[e] = packet[d]
        BY <3>2, <2>1, <1>5 DEF Inv, RefusedOnlyIfSeen
      <4>. QED  BY <4>1, <1>10
    <3>. QED  BY <3>1, <3>2
  <2>. QED  BY <2>1, <1>3 DEF RefusedOnlyIfSeen
<1>14. EntriesExpire'
  <2>1. p.timestamp <= latest + Tolerance
    BY <1>3 DEF Inv, VerifiedInTime, p
  <2>. QED  BY <2>1, <1>2, <1>3 DEF Inv, EntriesExpire
<1>. QED  BY <1>8, <1>9, <1>12, <1>13, <1>14

LEMMA InvStep == Inv /\ [Next]_vars => Inv'
<1>. SUFFICES ASSUME Inv, [Next]_vars PROVE Inv'
  OBVIOUS
<1>1. TypeOK'
  BY TypeStep DEF Inv
<1>2. NowSeen' /\ VerifiedInTime'
  BY <1>1, NowSeenStep, VerifiedStep DEF Inv
<1>3. /\ Remembered' /\ AcceptedOnceInTime' /\ EntriesAccepted'
      /\ RefusedOnlyIfSeen' /\ EntriesExpire'
  <2>1. CASE \E c \in Conns : LookUp(c)
    BY <1>1, <2>1, LookUpStep
  <2>2. CASE ~ \E c \in Conns : LookUp(c)
    BY <1>1, <2>2, OtherSteps, KeepsStep DEF Inv
  <2>. QED  BY <2>1, <2>2
<1>. QED  BY <1>1, <1>2, <1>3 DEF Inv

LEMMA Invariance == Spec => []Inv
<1>. QED  BY InitInv, InvStep, PTL DEF Spec

(* The types of ReplayCache are an invariant.                               *)
THEOREM TypeCorrect == Spec => []TypeOK
<1>1. Inv => TypeOK
  BY DEF Inv
<1>. QED  BY <1>1, Invariance, PTL

(* For every tolerance and every number of connections, a packet is         *)
(* accepted once within its validity, although verify, the purge and the    *)
(* lookup use times of their own and the clock may step back.               *)
THEOREM AcceptedOnce == Spec => []AcceptedOnceInTime
<1>1. Inv => AcceptedOnceInTime
  BY DEF Inv
<1>. QED  BY <1>1, Invariance, PTL

(* Only a packet that was accepted before is refused as a replay.           *)
THEOREM RefusalsJustified == Spec => []RefusedOnlyIfSeen
<1>1. Inv => RefusedOnlyIfSeen
  BY DEF Inv
<1>. QED  BY <1>1, Invariance, PTL

(* The cache holds no packet that is further ahead than the tolerance.      *)
THEOREM CacheExpires == Spec => []EntriesExpire
<1>1. Inv => EntriesExpire
  BY DEF Inv
<1>. QED  BY <1>1, Invariance, PTL
=============================================================================
