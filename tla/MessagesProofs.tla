--------------------------- MODULE MessagesProofs ---------------------------
(* What Messages promises, for all greetings, requests, user names and      *)
(* configurations: the answer agrees at both ends (AnswersAgree), the       *)
(* request is taken off the stream as a whole (RequestsFramed), the server  *)
(* dials what was asked (DialedAsAsked), and refuses for cause only         *)
(* (RefusalsHaveCause).                                                     *)
(*                                                                          *)
(* The last two need what Lossy computes, a recursive function, for a name  *)
(* of any length.  The induction they take (Induct) comes from a fact       *)
(* without an operator for a parameter: the subsets of Nat that are finite  *)
(* are well-founded under inclusion.                                        *)
EXTENDS Messages, SequenceTheorems, FiniteSetTheorems, TLAPS

ClientSteps == {"start", "greeted", "asking", "waiting", "relaying", "failed"}
ServerSteps == {"start", "hello", "dialling", "relaying", "closed"}

-----------------------------------------------------------------------------
(* Bytes in front of a sequence, and behind it.                             *)

LEMMA Front ==
  ASSUME NEW s \in Seq(Byte), NEW t \in Seq(Byte)
  PROVE  /\ s \o t \in Seq(Byte) /\ Len(s \o t) = Len(s) + Len(t)
         /\ \A i \in 1..Len(s) : (s \o t)[i] = s[i]
         /\ \A i \in 1..Len(t) : (s \o t)[Len(s) + i] = t[i]
<1>1. /\ s \o t \in Seq(Byte) /\ Len(s \o t) = Len(s) + Len(t)
      /\ \A i \in 1..(Len(s) + Len(t)) :
           (s \o t)[i] = IF i <= Len(s) THEN s[i] ELSE t[i - Len(s)]
  BY ConcatProperties
<1>2. Len(s) \in Nat /\ Len(t) \in Nat
  BY LenProperties
<1>. QED
  BY <1>1, <1>2

LEMMA Behind ==
  ASSUME NEW s \in Seq(Byte), NEW t \in Seq(Byte)
  PROVE  SubSeq(s \o t, Len(s) + 1, Len(s \o t)) = t
<1>. DEFINE r == SubSeq(s \o t, Len(s) + 1, Len(s \o t))
<1>1. Len(s) \in Nat /\ Len(t) \in Nat
  BY LenProperties
<1>2. \A i \in (Len(s) + 1)..Len(s \o t) : (s \o t)[i] \in Byte
  BY Front, <1>1, ElementOfSeq
<1>3. /\ r \in Seq(Byte)
      /\ Len(r) = IF Len(s) + 1 <= Len(s \o t) THEN Len(s \o t) - (Len(s) + 1) + 1 ELSE 0
      /\ \A i \in 1..(Len(s \o t) - (Len(s) + 1) + 1) : r[i] = (s \o t)[Len(s) + 1 + i - 1]
  <2>1. Len(s) + 1 \in Int /\ Len(s \o t) \in Int
    BY <1>1, Front
  <2>. QED
    BY <1>2, <2>1, SubSeqProperties
<1>4. Len(r) = Len(t)
  BY <1>1, <1>3, Front
<1>5. \A i \in 1..Len(t) : r[i] = t[i]
  <2>. TAKE i \in 1..Len(t)
  <2>1. Len(s) + 1 + i - 1 = Len(s) + i
    BY <1>1
  <2>2. r[i] = (s \o t)[Len(s) + i]
    BY <1>1, <1>3, <2>1, Front
  <2>. QED
    BY <2>2, Front
<1>. QED
  BY <1>3, <1>4, <1>5, SeqEqual

LEMMA Cut ==
  ASSUME NEW s \in Seq(Byte), NEW m \in 1..Len(s), NEW n \in 0..Len(s), m <= n + 1
  PROVE  /\ SubSeq(s, m, n) \in Seq(Byte)
         /\ Len(SubSeq(s, m, n)) = n - m + 1
         /\ \A i \in 1..(n - m + 1) : SubSeq(s, m, n)[i] = s[m + i - 1]
<1>1. Len(s) \in Nat /\ m \in Int /\ n \in Int
  BY LenProperties
<1>2. \A i \in m..n : s[i] \in Byte
  BY <1>1, ElementOfSeq
<1>3. /\ SubSeq(s, m, n) \in Seq(Byte)
      /\ Len(SubSeq(s, m, n)) = IF m <= n THEN n - m + 1 ELSE 0
      /\ \A i \in 1..(n - m + 1) : SubSeq(s, m, n)[i] = s[m + i - 1]
  BY <1>1, <1>2, SubSeqProperties
<1>. QED
  BY <1>1, <1>3

LEMMA Rest ==
  ASSUME NEW s \in Seq(Byte), NEW t \in Seq(Byte), NEW c, c = s \o t,
         NEW k, k = Len(s) + 1
  PROVE  SubSeq(c, k, Len(c)) = t
  BY Behind

(* A part that is not empty begins with the element at its first index.     *)
LEMMA First ==
  ASSUME NEW s \in Seq(Byte), NEW m \in Nat, NEW n \in Nat,
         0 < m, m <= n, n <= Len(s)
  PROVE  /\ SubSeq(s, m, n) \in Seq(Byte)
         /\ Len(SubSeq(s, m, n)) = n - m + 1
         /\ SubSeq(s, m, n)[1] = s[m]
<1>1. Len(s) \in Nat /\ m \in 1..Len(s) /\ n \in 0..Len(s) /\ m <= n + 1
  BY LenProperties
<1>2. /\ SubSeq(s, m, n) \in Seq(Byte)
      /\ Len(SubSeq(s, m, n)) = n - m + 1
      /\ \A i \in 1..(n - m + 1) : SubSeq(s, m, n)[i] = s[m + i - 1]
  BY <1>1, Cut
<1>3. 1 \in 1..(n - m + 1) /\ m + 1 - 1 = m
  OBVIOUS
<1>. QED
  BY <1>2, <1>3

-----------------------------------------------------------------------------
(* Bytes, and numbers in one byte and in two.                               *)

LEMMA ByteIs == ASSUME NEW k PROVE k \in Byte <=> k \in Int /\ 0 <= k /\ k < 256
  BY DEF Byte

LEMMA LowByte == ASSUME NEW k \in Int PROVE k % 256 \in Byte
<1>1. k % 256 \in Int /\ 0 <= k % 256 /\ k % 256 < 256
  OBVIOUS
<1>. QED
  BY <1>1, ByteIs

LEMMA LowWord ==
  ASSUME NEW k \in Nat
  PROVE  k % 65536 \in Nat /\ k % 65536 < 65536 /\ (k < 65536 => k % 65536 = k)
  OBVIOUS

LEMMA HighByte == ASSUME NEW k \in Nat, k < 65536 PROVE k \div 256 \in Byte
<1>1. k \div 256 \in Int /\ 0 <= k \div 256 /\ k \div 256 < 256
  OBVIOUS
<1>. QED
  BY <1>1, ByteIs

LEMMA Remainder ==
  ASSUME NEW q \in Int, NEW r \in Int, 0 <= r, r < 256
  PROVE  (256 * q + r) % 256 = r
  OBVIOUS

LEMMA Divided == ASSUME NEW k \in Int PROVE (k \div 256) * 256 + (k % 256) = k
<1>1. /\ k \div 256 \in Int
      /\ 256 * (k \div 256) <= k /\ k < 256 * (k \div 256) + 256
  OBVIOUS
<1>2. \A q \in Int : 256 * q <= k /\ k < 256 * q + 256 => k % 256 = k - 256 * q
  <2>. TAKE q \in Int
  <2>. HAVE 256 * q <= k /\ k < 256 * q + 256
  <2>1. \E r \in Int : 0 <= r /\ r < 256 /\ k = 256 * q + r
    <3>. WITNESS k - 256 * q \in Int
    <3>. QED
      OBVIOUS
  <2>2. PICK r \in Int : 0 <= r /\ r < 256 /\ k = 256 * q + r
    BY <2>1
  <2>3. k % 256 = r
    BY <2>2, Remainder
  <2>. QED
    BY <2>2, <2>3
<1>3. k % 256 = k - 256 * (k \div 256)
  BY <1>1, <1>2
<1>. DEFINE q == k \div 256
            m == k % 256
<1>4. q \in Int /\ m = k - 256 * q
  BY <1>1, <1>3
<1>. HIDE DEF q, m
<1>5. q * 256 + m = k
  BY <1>4
<1>. QED
  BY <1>5 DEF q, m

LEMMA OneByte == ASSUME NEW e \in Byte PROVE <<e>> \in Seq(Byte) /\ Len(<<e>>) = 1
  OBVIOUS

LEMMA TwoBytes ==
  ASSUME NEW d \in Byte, NEW e \in Byte
  PROVE  <<d, e>> \in Seq(Byte) /\ Len(<<d, e>>) = 2
  OBVIOUS

LEMMA Word ==
  ASSUME NEW k \in Nat, k < 65536
  PROVE  U16(k) \in Seq(Byte) /\ Len(U16(k)) = 2 /\ U16At(U16(k), 1) = k
<1>1. k \div 256 \in Byte /\ k % 256 \in Byte
  BY HighByte, LowByte
<1>2. U16(k) \in Seq(Byte) /\ Len(U16(k)) = 2
  BY <1>1, TwoBytes DEF U16
<1>3. U16(k)[1] = k \div 256 /\ U16(k)[2] = k % 256
  BY DEF U16
<1>. QED
  BY <1>2, <1>3, Divided DEF U16At

-----------------------------------------------------------------------------
(* A concatenation by its elements.                                         *)
Joins(c, s, t) ==
  /\ c \in Seq(Byte) /\ Len(c) = Len(s) + Len(t)
  /\ \A i \in Nat : 0 < i /\ i <= Len(s) => c[i] = s[i]
  /\ \A i \in Nat : 0 < i /\ i <= Len(t) => c[Len(s) + i] = t[i]

LEMMA Joined ==
  ASSUME NEW s \in Seq(Byte), NEW t \in Seq(Byte)
  PROVE  \E c : c = s \o t /\ Joins(c, s, t)
<1>1. Len(s) \in Nat /\ Len(t) \in Nat
  BY LenProperties
<1>2. s \o t \in Seq(Byte) /\ Len(s \o t) = Len(s) + Len(t)
  BY Front
<1>3. ASSUME NEW i \in Nat, 0 < i, i <= Len(s) PROVE (s \o t)[i] = s[i]
  <2>1. i \in 1..Len(s)
    BY <1>1, <1>3
  <2>. QED
    BY <2>1, Front
<1>4. ASSUME NEW i \in Nat, 0 < i, i <= Len(t) PROVE (s \o t)[Len(s) + i] = t[i]
  <2>1. i \in 1..Len(t)
    BY <1>1, <1>4
  <2>. QED
    BY <2>1, Front
<1>5. Joins(s \o t, s, t)
  <2>. DEFINE c == s \o t
  <2>1. /\ c \in Seq(Byte) /\ Len(c) = Len(s) + Len(t)
        /\ \A i \in Nat : 0 < i /\ i <= Len(s) => c[i] = s[i]
        /\ \A i \in Nat : 0 < i /\ i <= Len(t) => c[Len(s) + i] = t[i]
    BY <1>2, <1>3, <1>4
  <2>. HIDE DEF c
  <2>2. Joins(c, s, t)
    BY <2>1 DEF Joins
  <2>. QED
    BY <2>2 DEF c
<1>. QED
  BY <1>5

(* The hello: if the server verifies the packet in it, the number of        *)
(* subflows behind the packet is the one the client has asked for.          *)

Count(n) == IF n > 1 THEN <<n>> ELSE <<>>

LEMMA CountType == ASSUME NEW n \in Byte PROVE Count(n) \in Seq(Byte)
  BY OneByte DEF Count

LEMMA BodyType == Body \in Seq(Byte) /\ Len(Body) = 48
<1>1. 200 \in Byte
  BY ByteIs
<1>. QED
  BY <1>1 DEF Body

LEMMA SaltType == Salt \in Seq(Byte) /\ Len(Salt) = 32
<1>1. 7 \in Byte
  BY ByteIs
<1>. QED
  BY <1>1 DEF Salt

LEMMA ClientIpType == ClientIp \in Seq(Byte) /\ Len(ClientIp) = 7
<1>1. 46 \in Byte /\ 48 \in Byte
  BY ByteIs
<1>. QED
  BY <1>1 DEF ClientIp

LEMMA Serialized ==
  ASSUME NEW u \in Seq(Byte)
  PROVE  /\ Serialize(u) \in Seq(Byte)
         /\ Len(Serialize(u)) = Len(u) + 58
         /\ Serialize(u)[1] = Len(u) % 256
<1>1. PICK e \in Byte : e = Len(u) % 256
  BY LenProperties, LowByte
<1>2. PICK f \in Seq(Byte) : f = <<e>> /\ Len(f) = 1 /\ f[1] = e
  BY OneByte
<1>3. PICK g \in Seq(Byte) : g = <<0, Len(ClientIp)>> /\ Len(g) = 2
  <2>1. 0 \in Byte /\ 7 \in Byte
    BY DEF Byte
  <2>2. PICK l \in Byte : l = Len(ClientIp)
    BY <2>1, ClientIpType
  <2>3. <<0, l>> \in Seq(Byte) /\ Len(<<0, l>>) = 2
    BY <2>1, TwoBytes
  <2>. QED
    BY <2>2, <2>3
<1>4. PICK a : a = f \o u /\ Joins(a, f, u)
  BY Joined
<1>5. a \in Seq(Byte) /\ Len(a) = Len(u) + 1 /\ a[1] = e
  BY <1>2, <1>4, LenProperties DEF Joins
<1>6. PICK b : b = a \o Body /\ Joins(b, a, Body)
  BY <1>5, BodyType, Joined
<1>7. b \in Seq(Byte) /\ Len(b) = Len(u) + 49 /\ b[1] = e
  BY <1>5, <1>6, BodyType, LenProperties DEF Joins
<1>8. PICK c : c = b \o g /\ Joins(c, b, g)
  BY <1>3, <1>7, Joined
<1>9. c \in Seq(Byte) /\ Len(c) = Len(u) + 51 /\ c[1] = e
  BY <1>3, <1>7, <1>8, LenProperties DEF Joins
<1>10. PICK d : d = c \o ClientIp /\ Joins(d, c, ClientIp)
  BY <1>9, ClientIpType, Joined
<1>11. d \in Seq(Byte) /\ Len(d) = Len(u) + 58 /\ d[1] = e
  BY <1>9, <1>10, ClientIpType, LenProperties DEF Joins
<1>12. d = Serialize(u)
  BY <1>1, <1>2, <1>3, <1>4, <1>6, <1>8, <1>10 DEF Serialize
<1>. QED
  BY <1>1, <1>11, <1>12

(* The hello begins with r, of 34 bytes, and the packet of u.               *)
HelloHead(h, r, u) ==
  r \in Seq(Byte) /\ Len(r) = 34 /\ h = r \o Serialize(u)

(* Of the hello b of u and n, h is what is before the number of subflows,   *)
(* and p the length of the packet that stands in it.                        *)
Parts(h, b, p, u, n) ==
  /\ h \in Seq(Byte) /\ b \in Seq(Byte) /\ p \in Nat
  /\ b = EncodeHello(u, n) /\ b = h \o Count(n)
  /\ Len(h) = Len(u) + 92
  /\ p = (Len(u) + 58) % 65536
  /\ U16At(b, 33) = p /\ b[35] = Len(u) % 256

LEMMA HelloBytes ==
  ASSUME NEW u \in Seq(Byte), NEW n \in Byte
  PROVE  \E h, b, p, r : Parts(h, b, p, u, n) /\ HelloHead(h, r, u)
<1>1. PICK L \in Nat : L = Len(u)
  BY LenProperties
<1>2. PICK a \in Seq(Byte) : a = Serialize(u) /\ Len(a) = L + 58 /\ a[1] = L % 256
  BY <1>1, Serialized
<1>3. PICK p \in Nat : p = (L + 58) % 65536 /\ p < 65536
  BY LowWord
<1>4. PICK w \in Seq(Byte) : w = U16(p) /\ Len(w) = 2 /\ w[1] * 256 + w[2] = p
  BY <1>3, Word DEF U16At
<1>5. PICK s \in Seq(Byte) : s = Salt /\ Len(s) = 32
  BY SaltType
<1>6. PICK r : r = s \o w /\ Joins(r, s, w)
  BY Joined
<1>7. r \in Seq(Byte) /\ Len(r) = 34 /\ r[33] = w[1] /\ r[34] = w[2]
  <2>1. r[32 + 1] = w[1] /\ r[32 + 2] = w[2]
    BY <1>4, <1>5, <1>6 DEF Joins
  <2>. QED
    BY <1>4, <1>5, <1>6, <2>1 DEF Joins
<1>8. PICK h : h = r \o a /\ Joins(h, r, a)
  BY <1>7, Joined
<1>9. /\ h \in Seq(Byte) /\ Len(h) = L + 92
      /\ h[33] = w[1] /\ h[34] = w[2] /\ h[35] = a[1]
  <2>1. h[34 + 1] = a[1]
    BY <1>2, <1>7, <1>8 DEF Joins
  <2>. QED
    BY <1>2, <1>7, <1>8, <2>1 DEF Joins
<1>10. PICK t \in Seq(Byte) : t = Count(n)
  BY CountType
<1>11. PICK b : b = h \o t /\ Joins(b, h, t)
  BY <1>9, Joined
<1>12. b \in Seq(Byte) /\ b[33] = w[1] /\ b[34] = w[2] /\ b[35] = a[1]
  BY <1>9, <1>11 DEF Joins
<1>13. b = EncodeHello(u, n)
  BY <1>1, <1>2, <1>3, <1>4, <1>5, <1>6, <1>8, <1>10, <1>11 DEF EncodeHello, Count
<1>14. U16At(b, 33) = p
  BY <1>4, <1>12 DEF U16At
<1>15. b = h \o Count(n) /\ p = (Len(u) + 58) % 65536
  BY <1>1, <1>3, <1>10, <1>11
<1>16. Len(h) = Len(u) + 92 /\ b[35] = Len(u) % 256
  <2>1. b[35] = L % 256
    BY <1>2, <1>9, <1>12, Zenon
  <2>. QED
    BY <1>1, <1>9, <2>1
<1>17. h \in Seq(Byte) /\ b \in Seq(Byte) /\ p \in Nat
  BY <1>3, <1>9, <1>12
<1>18. Parts(h, b, p, u, n)
  BY <1>13, <1>14, <1>15, <1>16, <1>17 DEF Parts
<1>19. HelloHead(h, r, u)
  BY <1>2, <1>7, <1>8 DEF HelloHead
<1>. QED
  BY <1>18, <1>19

(* Serialized packets begin with the length of the user name.               *)
LEMMA PacketName ==
  ASSUME NEW x \in Seq(Byte), NEW u \in Seq(Byte), NEW m \in Byte,
         Deserialize(x) # NoPacket, x[1] = m, m = Len(u) % 256,
         Verified(Deserialize(x), u)
  PROVE  Len(u) < 256
<1>1. Len(x) \in Nat /\ Len(u) \in Nat /\ m \in Int /\ 0 <= m /\ m < 256
  BY LenProperties, ByteIs
<1>2. /\ Len(x) >= 51 /\ Len(x) >= m + 51
      /\ Deserialize(x).username = SubSeq(x, 2, m + 1)
  <2>1. Deserialize(x).username = SubSeq(x, 2, m + 1)
    BY DEF Deserialize
  <2>2. ~(Len(x) < 51) /\ ~(Len(x) < m + 51)
    BY DEF Deserialize
  <2>. QED
    BY <1>1, <2>1, <2>2
<1>3. Deserialize(x).username = u
  BY DEF Verified
<1>4. 2 \in 1..Len(x) /\ m + 1 \in 0..Len(x) /\ 2 <= (m + 1) + 1
  BY <1>1, <1>2
<1>5. Len(SubSeq(x, 2, m + 1)) = (m + 1) - 2 + 1
  BY <1>4, Cut
<1>. QED
  BY <1>1, <1>2, <1>3, <1>5

(* The bytes behind the packet, if its length is read from the hello.       *)
LEMMA HelloAgreed ==
  ASSUME NEW u \in Seq(Byte), NEW n \in Byte, n > 0,
         DecodeHello(EncodeHello(u, n)) # NoHello,
         Verified(DecodeHello(EncodeHello(u, n)).auth, u)
  PROVE  DecodeHello(EncodeHello(u, n)).subflows = n /\ n <= MAX_SUBFLOWS
<1>1. PICK h, b, p : Parts(h, b, p, u, n)
  BY HelloBytes
<1>2. /\ h \in Seq(Byte) /\ b \in Seq(Byte) /\ p \in Nat
      /\ b = EncodeHello(u, n) /\ b = h \o Count(n) /\ Len(h) = Len(u) + 92
      /\ p = (Len(u) + 58) % 65536 /\ U16At(b, 33) = p /\ b[35] = Len(u) % 256
  BY <1>1 DEF Parts
<1>. DEFINE e == 34 + U16At(b, 33)
            x == SubSeq(b, 35, e)
            rest == SubSeq(b, e + 1, Len(b))
<1>3. DecodeHello(b) = IF Len(b) < e \/ Deserialize(x) = NoPacket \/ Subflows(rest) = 0
                       THEN NoHello
                       ELSE [auth |-> Deserialize(x), subflows |-> Subflows(rest)]
  BY DEF DecodeHello
<1>. HIDE DEF e, x, rest
<1>4. /\ ~(Len(b) < e) /\ Deserialize(x) # NoPacket /\ Subflows(rest) # 0
      /\ DecodeHello(b) = [auth |-> Deserialize(x), subflows |-> Subflows(rest)]
  <2>1. DecodeHello(b) # NoHello
    BY <1>2
  <2>2. ~(Len(b) < e \/ Deserialize(x) = NoPacket \/ Subflows(rest) = 0)
    BY <1>3, <2>1, Zenon
  <2>. QED
    BY <1>3, <2>2, Zenon
<1>5. Len(b) \in Nat /\ Len(u) \in Nat /\ e \in Nat /\ e = 34 + p /\ Len(b) >= e
  <2>1. Len(b) \in Nat /\ Len(u) \in Nat
    BY <1>2, LenProperties
  <2>2. e = 34 + p
    BY <1>2 DEF e
  <2>. QED
    BY <1>2, <1>4, <2>1, <2>2
<1>6. Len(x) >= 51 /\ e >= 35
  <2>1. ~(Len(x) < 51)
    BY <1>4 DEF Deserialize
  <2>2. Len(x) = p
    <3>1. CASE e = 34
      <4>1. x = <<>>
        <5>1. 35 \in Int /\ e \in Int /\ e < 35
          BY <3>1
        <5>2. SubSeq(b, 35, e) = <<>>
          BY <5>1, SubSeqEmpty, Zenon
        <5>. QED
          BY <5>2 DEF x
      <4>2. Len(<<>>) = 0
        OBVIOUS
      <4>. QED
        BY <1>2, <1>5, <3>1, <4>1, <4>2
    <3>2. CASE e > 34
      BY <1>2, <1>5, <3>2, First DEF x
    <3>. QED
      BY <1>2, <1>5, <3>1, <3>2
  <2>. QED
    BY <1>2, <1>5, <2>1, <2>2
<1>7. x \in Seq(Byte) /\ x[1] = b[35]
  BY <1>2, <1>5, <1>6, First DEF x
<1>8. Len(u) < 256
  <2>1. PICK m \in Byte : m = Len(u) % 256
    BY <1>5, LowByte
  <2>2. Deserialize(x) # NoPacket /\ x[1] = m /\ Verified(Deserialize(x), u)
    BY <1>2, <1>4, <1>7, <2>1
  <2>. QED
    BY <1>7, <2>1, <2>2, PacketName
<1>9. p = Len(u) + 58
  <2>1. PICK k \in Nat : k = Len(u) + 58 /\ k < 65536
    BY <1>5, <1>8
  <2>. QED
    BY <1>2, <2>1, LowWord
<1>10. rest = Count(n)
  <2>1. e + 1 = Len(h) + 1
    BY <1>2, <1>5, <1>9
  <2>2. h \in Seq(Byte) /\ Count(n) \in Seq(Byte) /\ b = h \o Count(n)
    BY <1>2, CountType
  <2>. QED
    BY <2>1, <2>2, Rest DEF rest
<1>11. Subflows(Count(n)) # 0 => Subflows(Count(n)) = n /\ n <= MAX_SUBFLOWS
  <2>1. CASE n = 1
    <3>1. Count(n) = <<>>
      BY <2>1 DEF Count
    <3>. QED
      BY <2>1, <3>1 DEF Subflows, MAX_SUBFLOWS
  <2>2. CASE n > 1
    <3>1. PICK c : c = Count(n) /\ c # <<>> /\ Len(c) = 1 /\ c[1] = n
      <4>1. Count(n) = <<n>>
        BY <2>2 DEF Count
      <4>. QED
        BY <4>1
    <3>2. Subflows(c) # 0 => Subflows(c) = c[1] /\ c[1] <= MAX_SUBFLOWS
      BY <3>1 DEF Subflows, MAX_SUBFLOWS
    <3>. QED
      BY <3>1, <3>2
  <2>. QED
    BY <2>1, <2>2, ByteIs
<1>. QED
  BY <1>2, <1>4, <1>10, <1>11

-----------------------------------------------------------------------------
(* A clamped number, and what is decoded of an answer.                      *)

LEMMA ClampedIs ==
  ASSUME NEW n \in Nat, n > 0, n <= MAX_SUBFLOWS, NEW max \in Nat
  PROVE  LET c == Clamped(n, max)
         IN  c \in 1..MAX_SUBFLOWS /\ c <= n /\ (c = 1 \/ c <= max)
  BY DEF Clamped, MAX_SUBFLOWS

LEMMA Pair == ASSUME NEW a \in Nat, NEW b \in Nat PROVE <<a>> \o <<b>> = <<a, b>>
<1>1. PICK s, t \in Seq(Nat) : /\ s = <<a>> /\ Len(s) = 1 /\ s[1] = a
                               /\ t = <<b>> /\ Len(t) = 1 /\ t[1] = b
  <2>1. /\ <<a>> \in Seq(Nat) /\ Len(<<a>>) = 1 /\ <<a>>[1] = a
        /\ <<b>> \in Seq(Nat) /\ Len(<<b>>) = 1 /\ <<b>>[1] = b
    OBVIOUS
  <2>. QED
    BY <2>1
<1>2. PICK c \in Seq(Nat) : c = <<a, b>> /\ Len(c) = 2 /\ c[1] = a /\ c[2] = b
  <2>1. <<a, b>> \in Seq(Nat) /\ Len(<<a, b>>) = 2 /\ <<a, b>>[1] = a /\ <<a, b>>[2] = b
    OBVIOUS
  <2>. QED
    BY <2>1
<1>3. PICK d : /\ d = s \o t /\ d \in Seq(Nat) /\ Len(d) = 1 + 1
               /\ \A i \in 1..(1 + 1) : d[i] = IF i <= 1 THEN s[i] ELSE t[i - 1]
  <2>1. /\ s \o t \in Seq(Nat) /\ Len(s \o t) = Len(s) + Len(t)
        /\ \A i \in 1..(Len(s) + Len(t)) :
             (s \o t)[i] = IF i <= Len(s) THEN s[i] ELSE t[i - Len(s)]
    BY ConcatProperties
  <2>. QED
    BY <1>1, <2>1
<1>4. Len(d) = Len(c) /\ \A i \in 1..Len(d) : d[i] = c[i]
  <2>1. d[1] = c[1] /\ d[2] = c[2]
    BY <1>1, <1>2, <1>3
  <2>. QED
    BY <1>2, <1>3, <2>1
<1>5. d = c
  BY <1>2, <1>3, <1>4, SeqEqual
<1>. QED
  BY <1>1, <1>2, <1>3, <1>5

LEMMA ResponseIs ==
  ASSUME NEW n \in 1..MAX_SUBFLOWS, NEW ok \in BOOLEAN
  PROVE  LET r == EncodeResponse(ok, n)
         IN  r # <<>> /\ (Grants(r) <=> ok) /\ (Refuses(r) <=> ~ ok) /\ DecodeCount(r) = n
<1>1. CASE n = 1
  <2>1. EncodeResponse(ok, n) = <<IF ok THEN 0 ELSE 1>>
    BY <1>1 DEF EncodeResponse
  <2>. QED
    BY <1>1, <2>1 DEF DecodeCount, Grants, Refuses, MAX_SUBFLOWS
<1>2. CASE n > 1
  <2>1. EncodeResponse(ok, n) = <<IF ok THEN 0 ELSE 1, n + CREDIT_FLAG>>
    <3>1. \A a, b \in Nat : <<a>> \o <<b>> = <<a, b>>
      BY Pair
    <3>2. PICK a \in Nat : a = IF ok THEN 0 ELSE 1
      OBVIOUS
    <3>3. PICK b \in Nat : b = n + CREDIT_FLAG
      BY DEF CREDIT_FLAG, MAX_SUBFLOWS
    <3>4. EncodeResponse(ok, n) = <<a>> \o <<b>>
      BY <1>2, <3>2, <3>3 DEF EncodeResponse
    <3>. QED
      BY <3>1, <3>2, <3>3, <3>4
  <2>2. (n + CREDIT_FLAG) % CREDIT_FLAG = n
    BY <1>2 DEF CREDIT_FLAG, MAX_SUBFLOWS
  <2>3. DecodeCount(EncodeResponse(ok, n)) = n
    BY <2>1, <2>2 DEF DecodeCount
  <2>. QED
    BY <2>1, <2>3 DEF Grants, Refuses
<1>. QED
  BY <1>1, <1>2 DEF MAX_SUBFLOWS

-----------------------------------------------------------------------------
(* The invariant behind AnswerAgrees: the plan of a server that goes on is  *)
(* within what was asked for and its limit (PlanOK), and an answer is the   *)
(* encoding of the plan, or of a failure (AnswerOK).  StepOK says what the  *)
(* payloads are in each step of client and server.                          *)
StepOK ==
  /\ pc \in [{"client", "server"} -> ClientSteps \cup ServerSteps]
  /\ pc["client"] \in ClientSteps /\ pc["server"] \in ServerSteps
  /\ pc["client"] \in {"start", "greeted", "asking"} => hello = <<>>
  /\ hello = <<>> => pc["server"] = "start"
  /\ hello # <<>> => /\ username \in Usernames /\ requested \in Counts
                     /\ hello = EncodeHello(username, requested)
  /\ pc["server"] \in {"start", "hello", "dialling"} => response = <<>>
  /\ pc["client"] # "relaying" => count = 0
  /\ pc["client"] = "relaying" => response # <<>>
  /\ pc["client"] = "failed" /\ response = <<>>
       => hello = <<>> \/ pc["server"] = "closed"

PlanOK ==
  /\ plan = [target |-> plan.target, subflows |-> plan.subflows]
  /\ pc["server"] \in {"hello", "dialling", "relaying"}
       => /\ plan.subflows \in 1..MAX_SUBFLOWS
          /\ plan.subflows <= requested
          /\ plan.subflows = 1 \/ plan.subflows <= limit

AnswerOK ==
  /\ replies \in Seq(Nat)
  /\ connected \in BOOLEAN
  /\ response # <<>>
       => /\ response = EncodeResponse(connected, plan.subflows)
          /\ plan.subflows \in 1..MAX_SUBFLOWS
          /\ connected => pc["server"] = "relaying"

AnswerInv == StepOK /\ PlanOK /\ AnswerOK /\ AnswerAgrees

LEMMA AnswerInit == Init => AnswerInv
<1>. SUFFICES ASSUME Init PROVE AnswerInv
  OBVIOUS
<1>1. StepOK
  BY DEF Init, StepOK, ClientSteps, ServerSteps
<1>2. PlanOK
  BY DEF Init, PlanOK
<1>3. AnswerOK
  BY EmptySeq DEF Init, AnswerOK
<1>4. AnswerAgrees
  BY DEF Init, AnswerAgrees
<1>. QED
  BY <1>1, <1>2, <1>3, <1>4 DEF AnswerInv

LEMMA Replied ==
  ASSUME NEW s \in Seq(Nat), NEW e \in Nat
  PROVE  LET r == s \o <<5, e>> IN r \in Seq(Nat) /\ r[Len(r)] = e
<1>1. <<5, e>> \in Seq(Nat) /\ Len(<<5, e>>) = 2 /\ <<5, e>>[2] = e /\ Len(s) \in Nat
  BY LenProperties
<1>2. PICK t \in Seq(Nat) : t = <<5, e>> /\ Len(t) = 2 /\ t[2] = e
  BY <1>1
<1>3. /\ s \o t \in Seq(Nat) /\ Len(s \o t) = Len(s) + Len(t)
      /\ \A i \in 1..(Len(s) + Len(t)) :
           (s \o t)[i] = IF i <= Len(s) THEN s[i] ELSE t[i - Len(s)]
  BY ConcatProperties
<1>4. PICK r \in Seq(Nat) : r = s \o t /\ Len(r) = Len(s) + 2 /\ r[Len(s) + 2] = t[2]
  <2>1. Len(s) + 2 \in 1..(Len(s) + Len(t)) /\ ~(Len(s) + 2 <= Len(s)) /\ (Len(s) + 2) - Len(s) = 2
    BY <1>1, <1>2
  <2>2. (s \o t)[Len(s) + 2] = t[2]
    BY <1>3, <2>1
  <2>. QED
    BY <1>2, <1>3, <2>2
<1>. QED
  BY <1>2, <1>4

(* The application does not touch what AnswerInv speaks of.                 *)
LEMMA AppAnswers ==
  AnswerInv /\ (AppGreets \/ AppAsks \/ AppSends) => AnswerInv'
  BY DEF AnswerInv, StepOK, PlanOK, AnswerOK, AnswerAgrees, AppGreets, AppAsks, AppSends,
         configVars, serverVars, wireVars

LEMMA GreetAnswers == AnswerInv /\ Greet => AnswerInv'
<1>. SUFFICES ASSUME AnswerInv, Greet PROVE AnswerInv'
  OBVIOUS
<1>1. response = <<>> /\ count = 0 /\ hello = <<>> /\ pc["server"] = "start"
  BY DEF AnswerInv, StepOK, Greet
<1>2. UNCHANGED <<hello, response, count, username, requested, limit, plan, connected>>
  BY DEF Greet, configVars, serverVars, wireVars
<1>3. pc' \in {[pc EXCEPT !["client"] = "failed"], [pc EXCEPT !["client"] = "greeted"]}
  BY DEF Greet, Goto
<1>4. replies' \in Seq(Nat)
  <2>1. replies' = replies \/ replies' = replies \o <<5, 0>> \/ replies' = replies \o <<5, 255>>
    BY DEF Greet
  <2>2. replies \in Seq(Nat)
    BY DEF AnswerInv, AnswerOK
  <2>3. replies \o <<5, 0>> \in Seq(Nat) /\ replies \o <<5, 255>> \in Seq(Nat)
    BY <2>2, Replied
  <2>. QED
    BY <2>1, <2>2, <2>3, Zenon
<1>5. StepOK'
  BY <1>1, <1>2, <1>3 DEF AnswerInv, StepOK, ClientSteps, ServerSteps
<1>6. PlanOK' /\ AnswerOK' /\ AnswerAgrees'
  <2>1. pc'["server"] = "start"
    BY <1>1, <1>3 DEF AnswerInv, StepOK
  <2>. QED
    BY <1>1, <1>2, <1>4, <2>1 DEF AnswerInv, PlanOK, AnswerOK, AnswerAgrees
<1>. QED
  BY <1>5, <1>6 DEF AnswerInv

LEMMA RequestAnswers == AnswerInv /\ ReadRequest => AnswerInv'
<1>. SUFFICES ASSUME AnswerInv, ReadRequest PROVE AnswerInv'
  OBVIOUS
<1>1. response = <<>> /\ count = 0 /\ hello = <<>> /\ pc["server"] = "start"
  BY DEF AnswerInv, StepOK, ReadRequest
<1>2. UNCHANGED <<hello, response, count, username, requested, limit, plan, connected, replies>>
  BY DEF ReadRequest, configVars, serverVars, wireVars
<1>3. pc' \in {[pc EXCEPT !["client"] = "failed"], [pc EXCEPT !["client"] = "asking"]}
  BY DEF ReadRequest, Goto
<1>4. StepOK'
  BY <1>1, <1>2, <1>3 DEF AnswerInv, StepOK, ClientSteps, ServerSteps
<1>5. PlanOK' /\ AnswerOK' /\ AnswerAgrees'
  <2>1. pc'["server"] = "start"
    BY <1>1, <1>3 DEF AnswerInv, StepOK
  <2>. QED
    BY <1>1, <1>2, <2>1 DEF AnswerInv, PlanOK, AnswerOK, AnswerAgrees
<1>. QED
  BY <1>4, <1>5 DEF AnswerInv

LEMMA EstablishAnswers == AnswerInv /\ Establish => AnswerInv'
<1>. SUFFICES ASSUME AnswerInv, Establish PROVE AnswerInv'
  OBVIOUS
<1>1. response = <<>> /\ count = 0 /\ hello = <<>> /\ pc["server"] = "start"
  BY DEF AnswerInv, StepOK, Establish
<1>2. UNCHANGED <<response, count, limit, plan, connected, replies>>
  BY DEF Establish, clientVars, serverVars
<1>3. /\ pc' = [pc EXCEPT !["client"] = "waiting"]
      /\ username' \in Usernames /\ requested' \in Counts
      /\ hello' = EncodeHello(username', requested')
  BY DEF Establish, Goto
<1>4. pc'["server"] = "start" /\ pc'["client"] = "waiting"
  BY <1>1, <1>3 DEF AnswerInv, StepOK
<1>5. StepOK'
  BY <1>1, <1>2, <1>3, <1>4 DEF AnswerInv, StepOK, ClientSteps, ServerSteps
<1>6. PlanOK' /\ AnswerOK' /\ AnswerAgrees'
  BY <1>1, <1>2, <1>4 DEF AnswerInv, PlanOK, AnswerOK, AnswerAgrees
<1>. QED
  BY <1>5, <1>6 DEF AnswerInv

LEMMA HelloAnswers == AnswerInv /\ ReadHello => AnswerInv'
<1>. SUFFICES ASSUME AnswerInv, ReadHello PROVE AnswerInv'
  OBVIOUS
<1>1. /\ hello # <<>> /\ response = <<>> /\ count = 0
      /\ username \in Usernames /\ requested \in Counts
      /\ hello = EncodeHello(username, requested)
      /\ pc["client"] \in {"waiting", "failed"}
  BY DEF AnswerInv, StepOK, ReadHello, ClientSteps
<1>2. UNCHANGED <<hello, response, count, username, requested, connected, replies>>
  BY DEF ReadHello, clientVars, wireVars
<1>3. limit' \in Nat
  BY ConfigsAssumption DEF ReadHello
<1>4. CASE DecodeHello(hello) # NoHello /\ Verified(DecodeHello(hello).auth, username)
  <2>1. /\ plan' = [plan EXCEPT !.subflows = Clamped(DecodeHello(hello).subflows, limit')]
        /\ pc' = [pc EXCEPT !["server"] = "hello"]
    BY <1>4 DEF ReadHello, Goto
  <2>2. requested \in Byte /\ requested > 0 /\ username \in Seq(Byte)
    BY <1>1, ConfigsAssumption, ByteIs
  <2>3. DecodeHello(hello).subflows = requested /\ requested <= MAX_SUBFLOWS
    BY <1>1, <1>4, <2>2, HelloAgreed
  <2>4. PICK c \in 1..MAX_SUBFLOWS :
          c = Clamped(requested, limit') /\ c <= requested /\ (c = 1 \/ c <= limit')
    <3>1. requested \in Nat /\ limit' \in Nat
      BY <1>3, <2>2, ByteIs
    <3>. QED
      BY <2>2, <2>3, <3>1, ClampedIs
  <2>5. plan' = [target |-> plan.target, subflows |-> c]
    BY <2>1, <2>3, <2>4 DEF AnswerInv, PlanOK
  <2>6. pc'["server"] = "hello" /\ pc'["client"] = pc["client"]
    BY <2>1 DEF AnswerInv, StepOK
  <2>7. StepOK'
    <3>1. /\ pc' \in [{"client", "server"} -> ClientSteps \cup ServerSteps]
          /\ pc'["client"] \in ClientSteps /\ pc'["server"] \in ServerSteps
      BY <2>1, <2>6 DEF AnswerInv, StepOK, ClientSteps, ServerSteps
    <3>2. hello' # <<>> /\ response' = <<>> /\ count' = 0
      BY <1>1, <1>2
    <3>3. /\ username' \in Usernames /\ requested' \in Counts
          /\ hello' = EncodeHello(username', requested')
      BY <1>1, <1>2
    <3>4. pc'["client"] \in {"waiting", "failed"}
      BY <1>1, <2>6
    <3>5. pc["client"] = "failed" => hello = <<>> \/ pc["server"] = "closed"
      BY <1>1 DEF AnswerInv, StepOK
    <3>6. pc'["client"] = "waiting"
      BY <1>1, <2>6, <3>4, <3>5 DEF ReadHello
    <3>. QED
      BY <2>6, <3>1, <3>2, <3>3, <3>6 DEF StepOK
  <2>8. PlanOK'
    BY <1>2, <2>4, <2>5 DEF PlanOK
  <2>9. AnswerOK' /\ AnswerAgrees'
    BY <1>1, <1>2 DEF AnswerInv, AnswerOK, AnswerAgrees
  <2>. QED
    BY <2>7, <2>8, <2>9 DEF AnswerInv
<1>5. CASE ~(DecodeHello(hello) # NoHello /\ Verified(DecodeHello(hello).auth, username))
  <2>1. plan' = plan /\ pc' = [pc EXCEPT !["server"] = "closed"]
    BY <1>5 DEF ReadHello, Goto
  <2>2. pc'["server"] = "closed" /\ pc'["client"] = pc["client"]
    BY <2>1 DEF AnswerInv, StepOK
  <2>3. StepOK'
    BY <1>1, <1>2, <2>1, <2>2 DEF AnswerInv, StepOK, ClientSteps, ServerSteps
  <2>4. PlanOK' /\ AnswerOK' /\ AnswerAgrees'
    BY <1>1, <1>2, <2>1, <2>2 DEF AnswerInv, PlanOK, AnswerOK, AnswerAgrees
  <2>. QED
    BY <2>3, <2>4 DEF AnswerInv
<1>. QED
  BY <1>4, <1>5

LEMMA AddressAnswers == AnswerInv /\ ReadAddress => AnswerInv'
<1>. SUFFICES ASSUME AnswerInv, ReadAddress PROVE AnswerInv'
  OBVIOUS
<1>1. response = <<>> /\ count = 0 /\ hello # <<>> /\ pc["server"] = "hello"
  BY DEF AnswerInv, StepOK, ReadAddress
<1>2. UNCHANGED <<hello, response, count, username, requested, limit, connected, replies>>
  BY DEF ReadAddress, clientVars, configVars, wireVars
<1>3. PICK where \in {"closed", "dialling"} : pc' = [pc EXCEPT !["server"] = where]
  BY DEF ReadAddress, Goto
<1>4. PICK t : plan' = [plan EXCEPT !.target = t]
  BY DEF ReadAddress
<1>5. plan' = [target |-> t, subflows |-> plan.subflows]
  BY <1>4 DEF AnswerInv, PlanOK
<1>6. pc'["server"] = where /\ pc'["client"] = pc["client"]
  BY <1>3 DEF AnswerInv, StepOK
<1>7. StepOK'
  BY <1>1, <1>2, <1>3, <1>6 DEF AnswerInv, StepOK, ClientSteps, ServerSteps
<1>8. PlanOK'
  BY <1>1, <1>2, <1>5, <1>6 DEF AnswerInv, PlanOK
<1>9. AnswerOK' /\ AnswerAgrees'
  BY <1>1, <1>2 DEF AnswerInv, AnswerOK, AnswerAgrees
<1>. QED
  BY <1>7, <1>8, <1>9 DEF AnswerInv

LEMMA DialAnswers == AnswerInv /\ Dial => AnswerInv'
<1>. SUFFICES ASSUME AnswerInv, Dial PROVE AnswerInv'
  OBVIOUS
<1>1. response = <<>> /\ count = 0 /\ hello # <<>> /\ pc["server"] = "dialling"
  BY DEF AnswerInv, StepOK, Dial
<1>2. UNCHANGED <<hello, count, username, requested, limit, plan, replies>>
  BY DEF Dial, clientVars, configVars
<1>3. PICK ok \in BOOLEAN :
        /\ connected' = ok
        /\ response' = EncodeResponse(ok, plan.subflows)
        /\ pc' = [pc EXCEPT !["server"] = IF ok THEN "relaying" ELSE "closed"]
  BY DEF Dial, Goto
<1>4. /\ pc'["server"] = IF ok THEN "relaying" ELSE "closed"
      /\ pc'["client"] = pc["client"] /\ pc["client"] \in {"waiting"}
  BY <1>1, <1>3 DEF AnswerInv, StepOK, ClientSteps
<1>5. response' # <<>>
  <2>1. plan.subflows \in 1..MAX_SUBFLOWS
    BY <1>1 DEF AnswerInv, PlanOK
  <2>. QED
    BY <1>3, <2>1, ResponseIs
<1>6. StepOK'
  BY <1>1, <1>2, <1>3, <1>4, <1>5 DEF AnswerInv, StepOK, ClientSteps, ServerSteps
<1>7. PlanOK'
  BY <1>1, <1>2, <1>4 DEF AnswerInv, PlanOK
<1>8. AnswerOK' /\ AnswerAgrees'
  BY <1>1, <1>2, <1>3, <1>4 DEF AnswerInv, PlanOK, AnswerOK, AnswerAgrees
<1>. QED
  BY <1>6, <1>7, <1>8 DEF AnswerInv

LEMMA EmptyAnswer == ~ Grants(<<>>) /\ ~ Refuses(<<>>)
  BY DEF Grants, Refuses

LEMMA ResponseAnswers == AnswerInv /\ ReadResponse => AnswerInv'
<1>. SUFFICES ASSUME AnswerInv, ReadResponse PROVE AnswerInv'
  OBVIOUS
<1>1. pc["client"] = "waiting" /\ count = 0
  BY DEF AnswerInv, StepOK, ReadResponse
<1>2. UNCHANGED <<hello, response, username, requested, limit, plan, connected>>
  BY DEF ReadResponse, configVars, serverVars, wireVars
<1>3. CASE response # <<>>
  <2>1. PICK n \in 1..MAX_SUBFLOWS :
          n = plan.subflows /\ response = EncodeResponse(connected, n)
    BY <1>3 DEF AnswerInv, AnswerOK
  <2>2. /\ Grants(response) <=> connected
        /\ Refuses(response) <=> ~ connected
        /\ DecodeCount(response) = n
    BY <2>1, ResponseIs DEF AnswerInv, AnswerOK
  <2>3. /\ replies' = replies \o <<5, IF connected THEN 0 ELSE 5>>
        /\ connected => /\ count' = n
                        /\ pc' = [pc EXCEPT !["client"] = "relaying"]
        /\ ~ connected => count' = count /\ pc' = [pc EXCEPT !["client"] = "failed"]
    BY <2>2 DEF ReadResponse, Goto
  <2>4. replies' \in Seq(Nat) /\ replies'[Len(replies')] = IF connected THEN 0 ELSE 5
    <3>1. PICK e \in Nat : e = IF connected THEN 0 ELSE 5
      OBVIOUS
    <3>2. replies \in Seq(Nat)
      BY DEF AnswerInv, AnswerOK
    <3>3. replies \o <<5, e>> \in Seq(Nat) /\ (replies \o <<5, e>>)[Len(replies \o <<5, e>>)] = e
      BY <3>2, Replied
    <3>. QED
      BY <2>3, <3>1, <3>3
  <2>5. PICK where \in {"relaying", "failed"} :
          /\ pc' = [pc EXCEPT !["client"] = where]
          /\ where = "failed" => count' = 0
          /\ where = "relaying" => count' = n /\ connected
    BY <1>1, <2>3 DEF AnswerInv, AnswerOK
  <2>6. pc'["client"] = where /\ pc'["server"] = pc["server"]
    BY <2>5 DEF AnswerInv, StepOK
  <2>7. StepOK'
    BY <1>1, <1>2, <1>3, <2>5, <2>6 DEF AnswerInv, StepOK, ClientSteps, ServerSteps
  <2>8. PlanOK'
    BY <1>2, <2>6 DEF AnswerInv, PlanOK
  <2>9. AnswerOK'
    BY <1>2, <2>4, <2>6 DEF AnswerInv, AnswerOK
  <2>10. AnswerAgrees'
    <3>1. count' > 0 => /\ count' = plan.subflows /\ connected
                        /\ count' <= requested /\ (count' = 1 \/ count' <= limit)
      <4>1. count' > 0 => connected /\ count' = plan.subflows
        BY <2>1, <2>5
      <4>2. connected => pc["server"] = "relaying"
        BY <1>3 DEF AnswerInv, AnswerOK
      <4>. QED
        BY <4>1, <4>2 DEF AnswerInv, PlanOK
    <3>. QED
      BY <1>2, <2>4, <3>1 DEF AnswerAgrees
  <2>. QED
    BY <2>7, <2>8, <2>9, <2>10 DEF AnswerInv
<1>4. CASE response = <<>>
  <2>1. /\ pc' = [pc EXCEPT !["client"] = "failed"] /\ pc["server"] = "closed"
        /\ UNCHANGED <<replies, count>>
    BY <1>4, EmptyAnswer DEF ReadResponse, Goto
  <2>2. pc'["client"] = "failed" /\ pc'["server"] = "closed"
    BY <2>1 DEF AnswerInv, StepOK
  <2>3. StepOK'
    BY <1>1, <1>2, <1>4, <2>1, <2>2 DEF AnswerInv, StepOK, ClientSteps, ServerSteps
  <2>4. PlanOK' /\ AnswerOK' /\ AnswerAgrees'
    BY <1>1, <1>2, <1>4, <2>1, <2>2 DEF AnswerInv, PlanOK, AnswerOK, AnswerAgrees
  <2>. QED
    BY <2>3, <2>4 DEF AnswerInv
<1>. QED
  BY <1>3, <1>4

LEMMA AnswerNext == AnswerInv /\ [Next]_vars => AnswerInv'
<1>. SUFFICES ASSUME AnswerInv, [Next]_vars PROVE AnswerInv'
  OBVIOUS
<1>1. CASE AppGreets \/ AppAsks \/ AppSends
  BY <1>1, AppAnswers
<1>2. CASE Greet
  BY <1>2, GreetAnswers
<1>3. CASE ReadRequest
  BY <1>3, RequestAnswers
<1>4. CASE Establish
  BY <1>4, EstablishAnswers
<1>5. CASE ReadResponse
  BY <1>5, ResponseAnswers
<1>6. CASE ReadHello
  BY <1>6, HelloAnswers
<1>7. CASE ReadAddress
  BY <1>7, AddressAnswers
<1>8. CASE Dial
  BY <1>8, DialAnswers
<1>9. CASE UNCHANGED vars
  BY <1>9 DEF vars, clientVars, configVars, serverVars, wireVars,
              AnswerInv, StepOK, PlanOK, AnswerOK, AnswerAgrees
<1>. QED
  BY <1>1, <1>2, <1>3, <1>4, <1>5, <1>6, <1>7, <1>8, <1>9 DEF Next

(* Client and server agree on the number of subflows, and the application   *)
(* is told success if the server is connected and refusal if it is not,     *)
(* whatever the user name, the number asked for and the server's limit are. *)
THEOREM AnswersAgree == Spec => []AnswerAgrees
<1>1. Spec => []AnswerInv
  BY AnswerInit, AnswerNext, PTL DEF Spec
<1>2. AnswerInv => AnswerAgrees
  BY DEF AnswerInv
<1>. QED
  BY <1>1, <1>2, PTL

-----------------------------------------------------------------------------
(* The bytes of a request, and how many of them the client reads.           *)
Wire(r) == <<r.version, r.command, 0>> \o Socks5Address(r)

LEMMA ThreeBytes ==
  ASSUME NEW c \in Byte, NEW d \in Byte, NEW e \in Byte
  PROVE  <<c, d, e>> \in Seq(Byte) /\ Len(<<c, d, e>>) = 3
  OBVIOUS

LEMMA Single ==
  ASSUME NEW e \in Byte
  PROVE  \E t \in Seq(Byte) : t = <<e>> /\ Len(t) = 1 /\ t[1] = e
  BY OneByte

(* The bytes l in which the length n of a name is written, k of them.       *)
LengthBytes(l, k, n, named) ==
  /\ l \in Seq(Byte) /\ k \in Nat
  /\ l = IF named THEN <<n>> ELSE <<>>
  /\ k = IF named THEN 1 ELSE 0
  /\ Len(l) = k /\ (k = 1 => l[1] = n)

LEMMA LengthIs ==
  ASSUME NEW n \in Byte, NEW named \in BOOLEAN
  PROVE  \E l, k : LengthBytes(l, k, n, named)
<1>1. CASE named
  <2>1. PICK t \in Seq(Byte) : t = <<n>> /\ Len(t) = 1 /\ t[1] = n
    BY Single
  <2>2. LengthBytes(t, 1, n, named)
    BY <1>1, <2>1 DEF LengthBytes
  <2>. QED
    BY <2>2
<1>2. CASE ~named
  <2>1. PICK t \in Seq(Byte) : t = <<>> /\ Len(t) = 0
    BY EmptySeq
  <2>2. LengthBytes(t, 0, n, named)
    BY <1>2, <2>1 DEF LengthBytes
  <2>. QED
    BY <2>2
<1>. QED
  BY <1>1, <1>2

(* The address a of a type, a host of n bytes and a port of two, w.         *)
Address(a, type, l, k, n, host, w) ==
  /\ a \in Seq(Byte) /\ a = <<type>> \o l \o host \o w
  /\ Len(a) = 3 + k + n /\ a[1] = type /\ (k = 1 => a[2] = n)

LEMMA AddressBytes ==
  ASSUME NEW type \in Byte, NEW host \in Seq(Byte), NEW n \in Nat, n = Len(host),
         NEW l, NEW k, NEW named, LengthBytes(l, k, n, named),
         NEW w \in Seq(Byte), Len(w) = 2
  PROVE  \E a : Address(a, type, l, k, n, host, w)
<1>1. PICK t \in Seq(Byte) : t = <<type>> /\ Len(t) = 1 /\ t[1] = type
  BY Single
<1>2. l \in Seq(Byte) /\ k \in Nat /\ Len(l) = k /\ (k = 1 => l[1] = n)
  BY DEF LengthBytes
<1>3. PICK a : a = t \o l /\ Joins(a, t, l)
  BY <1>2, Joined
<1>4. a \in Seq(Byte) /\ Len(a) = 1 + k /\ a[1] = type /\ (k = 1 => a[2] = n)
  <2>1. k = 1 => a[1 + 1] = l[1]
    BY <1>1, <1>2, <1>3 DEF Joins
  <2>. QED
    BY <1>1, <1>2, <1>3, <2>1 DEF Joins
<1>5. PICK b : b = a \o host /\ Joins(b, a, host)
  BY <1>4, Joined
<1>6. b \in Seq(Byte) /\ Len(b) = 1 + k + n /\ b[1] = type /\ (k = 1 => b[2] = n)
  BY <1>2, <1>4, <1>5 DEF Joins
<1>7. PICK c : c = b \o w /\ Joins(c, b, w)
  BY <1>6, Joined
<1>8. c \in Seq(Byte) /\ Len(c) = 3 + k + n /\ c[1] = type /\ (k = 1 => c[2] = n)
  BY <1>2, <1>6, <1>7 DEF Joins
<1>9. c = <<type>> \o l \o host \o w
  BY <1>1, <1>3, <1>5, <1>7, Zenon
<1>10. Address(c, type, l, k, n, host, w)
  BY <1>8, <1>9, Zenon DEF Address
<1>. QED
  BY <1>10

LEMMA WireBytes ==
  ASSUME NEW v \in Seq(Byte), Len(v) = 3, NEW a \in Seq(Byte), Len(a) >= 2
  PROVE  \E c \in Seq(Byte) : /\ c = v \o a /\ Len(c) = Len(a) + 3
                              /\ c[4] = a[1] /\ c[5] = a[2]
<1>1. PICK c : c = v \o a /\ Joins(c, v, a)
  BY Joined
<1>2. Len(a) \in Nat
  BY LenProperties
<1>3. c[3 + 1] = a[1] /\ c[3 + 2] = a[2]
  BY <1>1, <1>2 DEF Joins
<1>4. c \in Seq(Byte) /\ Len(c) = Len(a) + 3 /\ c[4] = a[1] /\ c[5] = a[2]
  BY <1>1, <1>2, <1>3 DEF Joins
<1>. QED
  BY <1>1, <1>4, Zenon

(* The request a of r, whose address has n bytes.                           *)
Request(a, n, r) ==
  /\ a \in Seq(Byte) /\ n \in Nat
  /\ a = Wire(r) /\ Len(a) > 5 /\ a[4] = r.type /\ Socks5Address(r) \in Seq(Byte)
  /\ r.type = Ipv4 => Len(a) = 10
  /\ r.type = Ipv6 => Len(a) = 22
  /\ r.type = Domain => Len(a) = n + 7 /\ a[5] = n

LEMMA WireIs == ASSUME NEW r \in Requests PROVE \E a, n : Request(a, n, r)
<1>1. PICK type \in Byte, host \in Seq(Byte), port \in Nat, x \in Byte, y \in Byte :
        /\ type = r.type /\ host = r.host /\ port = r.port /\ x = r.version /\ y = r.command
        /\ Len(host) \in Byte /\ port < 65536
        /\ type = Ipv4 => Len(host) = 4
        /\ type = Ipv6 => Len(host) = 16
  BY RequestsAssumption
<1>2. PICK n \in Nat : n \in Byte /\ n = Len(host)
  BY <1>1, LenProperties
<1>3. PICK l, k : LengthBytes(l, k, n, type = Domain)
  BY <1>2, LengthIs
<1>4. /\ l \in Seq(Byte) /\ k \in Nat
      /\ l = IF type = Domain THEN <<n>> ELSE <<>>
      /\ k = IF type = Domain THEN 1 ELSE 0
      /\ Len(l) = k /\ (k = 1 => l[1] = n)
  BY <1>3 DEF LengthBytes
<1>5. PICK w \in Seq(Byte) : w = U16(port) /\ Len(w) = 2
  BY <1>1, Word
<1>6. PICK a : Address(a, type, l, k, n, host, w)
  BY <1>2, <1>3, <1>5, AddressBytes
<1>7. a = <<type>> \o l \o host \o w
  BY <1>6, Zenon DEF Address
<1>8. a \in Seq(Byte) /\ Len(a) = 3 + k + n /\ a[1] = type /\ (k = 1 => a[2] = n)
  BY <1>6, Zenon DEF Address
<1>9. a = Socks5Address(r)
  BY <1>1, <1>2, <1>4, <1>5, <1>7 DEF Socks5Address
<1>10. PICK v \in Seq(Byte) : v = <<x, y, 0>> /\ Len(v) = 3
  <2>1. 0 \in Byte
    BY DEF Byte
  <2>2. <<x, y, 0>> \in Seq(Byte) /\ Len(<<x, y, 0>>) = 3
    BY <2>1, ThreeBytes
  <2>. QED
    BY <2>2
<1>11. n \in Nat /\ Len(a) >= 2
  BY <1>4, <1>8, ByteIs
<1>12. PICK c \in Seq(Byte) : c = v \o a /\ Len(c) = Len(a) + 3 /\ c[4] = a[1] /\ c[5] = a[2]
  BY <1>10, <1>11, <1>8, WireBytes
<1>13. Len(c) = Len(a) + 3 /\ c[4] = a[1] /\ c[5] = a[2]
  BY <1>12
<1>14. c = Wire(r)
  BY <1>1, <1>9, <1>10, <1>12 DEF Wire
<1>15. Len(c) = 6 + k + n
  BY <1>4, <1>8, <1>11, <1>13
<1>16. /\ type = Ipv4 => Len(c) = 10
       /\ type = Ipv6 => Len(c) = 22
       /\ type = Domain => Len(c) = n + 7 /\ c[5] = n
  <2>1. CASE type = Domain
    <3>1. k = 1 /\ type # Ipv4 /\ type # Ipv6
      BY <1>4, <2>1 DEF Ipv4, Ipv6, Domain
    <3>. QED
      BY <1>8, <1>11, <1>13, <1>15, <3>1
  <2>2. CASE type # Domain
    <3>1. k = 0
      BY <1>4, <2>2
    <3>2. (type = Ipv4 => n = 4) /\ (type = Ipv6 => n = 16)
      BY <1>1, <1>2
    <3>3. Len(c) = 6 + n
      BY <1>11, <1>15, <3>1
    <3>. QED
      BY <2>2, <3>2, <3>3
  <2>. QED
    BY <2>1, <2>2
<1>17. Len(c) > 5 /\ c[4] = type
  BY <1>4, <1>8, <1>11, <1>13, <1>15
<1>18. Socks5Address(r) \in Seq(Byte)
  BY <1>8, <1>9
<1>19. Request(c, n, r)
  BY <1>1, <1>11, <1>12, <1>14, <1>16, <1>17, <1>18 DEF Request
<1>. QED
  BY <1>19

LEMMA SizeIs ==
  ASSUME NEW r \in Requests, NEW t \in Seq(Byte), stream = Wire(r) \o t,
         stream[4] \in {Ipv4, Ipv6, Domain}
  PROVE  RequestSize = Len(Wire(r))
<1>1. PICK a, n : Request(a, n, r)
  BY WireIs
<1>2. /\ a \in Seq(Byte) /\ n \in Nat
      /\ a = Wire(r) /\ Len(a) > 5 /\ a[4] = r.type
      /\ r.type = Ipv4 => Len(a) = 10
      /\ r.type = Ipv6 => Len(a) = 22
      /\ r.type = Domain => Len(a) = n + 7 /\ a[5] = n
  BY <1>1 DEF Request
<1>3. PICK c : c = stream /\ Joins(c, a, t)
  BY <1>2, Joined
<1>4. Len(a) \in Nat /\ Len(t) \in Nat
  BY LenProperties
<1>5. Len(c) \in Nat /\ Len(c) >= 5 /\ c[4] = a[4] /\ c[5] = a[5]
  BY <1>2, <1>3, <1>4 DEF Joins
<1>6. Ipv4 # Ipv6 /\ Ipv4 # Domain /\ Ipv6 # Domain
  BY DEF Ipv4, Ipv6, Domain
<1>7. Has(5)
  BY <1>3, <1>5 DEF Has
<1>8. CASE stream[4] = Ipv4
  <2>1. RequestSize = 10
    BY <1>6, <1>8, Zenon DEF RequestSize
  <2>. QED
    BY <1>2, <1>3, <1>5, <1>8, <2>1
<1>9. CASE stream[4] = Ipv6
  <2>1. RequestSize = 22
    BY <1>6, <1>9, Zenon DEF RequestSize
  <2>. QED
    BY <1>2, <1>3, <1>5, <1>9, <2>1
<1>10. CASE stream[4] = Domain
  <2>1. RequestSize = 7 + stream[5]
    BY <1>6, <1>7, <1>10, Zenon DEF RequestSize
  <2>2. stream[5] = n /\ Len(a) = n + 7
    BY <1>2, <1>3, <1>5, <1>10
  <2>. QED
    BY <1>2, <2>1, <2>2
<1>. QED
  BY <1>8, <1>9, <1>10

KnownTypes == {Ipv4, Ipv6, Domain}

(* A request is decoded only if the type of its address is known.           *)
LEMMA TypeKnown ==
  ASSUME NEW s \in Seq(Byte), NEW k \in Nat, 4 <= k, k <= Len(s),
         DecodeRequest(SubSeq(s, 1, k)) # NoTarget
  PROVE  s[4] \in {Ipv4, Ipv6, Domain}
<1>1. PICK b \in Seq(Byte) : b = SubSeq(s, 1, k) /\ Len(b) = k /\ b[4] = s[4]
  <2>1. Len(s) \in Nat /\ 1 \in 1..Len(s) /\ k \in 0..Len(s) /\ 1 <= k + 1
    BY LenProperties
  <2>2. /\ SubSeq(s, 1, k) \in Seq(Byte) /\ Len(SubSeq(s, 1, k)) = k - 1 + 1
        /\ \A i \in 1..(k - 1 + 1) : SubSeq(s, 1, k)[i] = s[1 + i - 1]
    BY <2>1, Cut
  <2>3. 4 \in 1..(k - 1 + 1) /\ 1 + 4 - 1 = 4 /\ k - 1 + 1 = k
    OBVIOUS
  <2>. QED
    BY <2>2, <2>3
<1>2. PICK y \in Seq(Byte) : y = SubSeq(b, 4, Len(b)) /\ y[1] = b[4]
  <2>1. 4 \in Nat /\ Len(b) \in Nat /\ 4 <= Len(b) /\ Len(b) <= Len(b)
    BY <1>1
  <2>2. SubSeq(b, 4, Len(b)) \in Seq(Byte) /\ SubSeq(b, 4, Len(b))[1] = b[4]
    BY <2>1, First
  <2>. QED
    BY <2>2
<1>3. Decode(y) # NoTarget
  BY <1>1, <1>2 DEF DecodeRequest
<1>4. PortIndex(y) # 0
  BY <1>3 DEF Decode
<1>5. y[1] \in {Ipv4, Ipv6, Domain}
  BY <1>4 DEF PortIndex
<1>. QED
  BY <1>1, <1>2, <1>5

-----------------------------------------------------------------------------
(* The invariant behind RequestFramed: the stream holds what the            *)
(* application has written and the client has not read.                     *)
Pending ==
  CASE app = "asked" -> Wire(asked)
    [] app = "sent" -> Wire(asked) \o EarlyData
    [] OTHER -> <<>>

FrameInv ==
  /\ app \in {"new", "greeted", "asked", "sent"}
  /\ app \in {"asked", "sent"} => asked \in Requests
  /\ pc["client"] = "start"
       => /\ app = "new" => stream = <<>>
          /\ app # "new" => \E g \in Greetings : stream = g \o Pending
  /\ pc["client"] = "greeted" => app # "new" /\ stream = Pending
  /\ pc["client"] \in {"asking", "waiting", "relaying"} => app \in {"asked", "sent"}
  /\ RequestFramed

LEMMA PendingIs ==
  /\ app \in {"new", "greeted"} => Pending = <<>>
  /\ app = "asked" => Pending = Wire(asked)
  /\ app = "sent" => Pending = Wire(asked) \o EarlyData
<1>1. \A s \in {"new", "greeted", "asked", "sent"} :
        /\ s \in {"new", "greeted"} => s # "asked" /\ s # "sent"
        /\ s = "asked" => s # "sent"
  OBVIOUS
<1>. QED
  BY <1>1, Zenon DEF Pending

LEMMA PendingType == FrameInv => Pending \in Seq(Byte)
<1>. SUFFICES ASSUME FrameInv PROVE Pending \in Seq(Byte)
  OBVIOUS
<1>1. CASE app \in {"new", "greeted"}
  BY <1>1, PendingIs, EmptySeq
<1>2. CASE app \in {"asked", "sent"}
  <2>1. Wire(asked) \in Seq(Byte)
    <3>1. asked \in Requests
      BY <1>2 DEF FrameInv
    <3>2. PICK a, n : Request(a, n, asked)
      BY <3>1, WireIs
    <3>. QED
      BY <3>2 DEF Request
  <2>2. EarlyData \in Seq(Byte)
    BY ConfigsAssumption
  <2>3. Wire(asked) \o EarlyData \in Seq(Byte)
    BY <2>1, <2>2, Front
  <2>. QED
    BY <1>2, <2>1, <2>3, PendingIs
<1>. QED
  BY <1>1, <1>2 DEF FrameInv

LEMMA GreetsFrame == FrameInv /\ AppGreets => FrameInv'
<1>. SUFFICES ASSUME FrameInv, AppGreets PROVE FrameInv'
  OBVIOUS
<1>1. app = "new" /\ app' = "greeted" /\ pc' = pc /\ asked' = asked
  BY DEF AppGreets
<1>2. PICK g \in Greetings : stream' = stream \o g
  BY DEF AppGreets
<1>3. Pending' = <<>>
  <2>1. app' # "asked" /\ app' # "sent"
    BY <1>1
  <2>. QED
    BY <2>1, Zenon DEF Pending
<1>4. pc["client"] = "start" => stream' = g \o Pending'
  <2>1. g \in Seq(Byte)
    BY GreetingsAssumption
  <2>2. <<>> \o g = g /\ g \o <<>> = g
    BY <2>1, ConcatEmptySeq
  <2>3. pc["client"] = "start" => stream = <<>>
    BY <1>1 DEF FrameInv
  <2>. QED
    BY <1>2, <1>3, <2>2, <2>3, Zenon
<1>5. pc["client"] \notin {"greeted", "asking", "waiting", "relaying"}
  BY <1>1 DEF FrameInv
<1>. QED
  BY <1>1, <1>4, <1>5, Zenon DEF FrameInv, RequestFramed

LEMMA AsksFrame == FrameInv /\ AppAsks => FrameInv'
<1>. SUFFICES ASSUME FrameInv, AppAsks PROVE FrameInv'
  OBVIOUS
<1>1. app = "greeted" /\ app' = "asked" /\ pc' = pc
  BY DEF AppAsks
<1>2. PICK r \in Requests :
        asked' = r /\ stream' = stream \o <<r.version, r.command, 0>> \o Socks5Address(r)
  BY DEF AppAsks
<1>3. Pending = <<>>
  BY <1>1, PendingIs
<1>4. Pending' = Wire(r)
  <2>1. Pending' = Wire(asked)'
    <3>1. app' # "sent"
      BY <1>1
    <3>. QED
      BY <1>1, <3>1, Zenon DEF Pending
  <2>. QED
    BY <1>2, <2>1 DEF Wire, Socks5Address
<1>5. stream \in Seq(Byte) => stream' = stream \o Wire(r)
  <2>1. PICK v \in Seq(Byte) : v = <<r.version, r.command, 0>>
    <3>1. r.version \in Byte /\ r.command \in Byte /\ 0 \in Byte
      BY RequestsAssumption DEF Byte
    <3>. QED
      BY <3>1, ThreeBytes
  <2>2. PICK a \in Seq(Byte) : a = Socks5Address(r)
    <3>1. PICK c, n : Request(c, n, r)
      BY WireIs
    <3>. QED
      BY <3>1 DEF Request
  <2>3. stream \in Seq(Byte) => (stream \o v) \o a = stream \o (v \o a)
    BY ConcatAssociative
  <2>. QED
    BY <1>2, <2>1, <2>2, <2>3, Zenon DEF Wire
<1>6. pc["client"] = "start" => \E g \in Greetings : stream' = g \o Pending'
  <2>. SUFFICES ASSUME pc["client"] = "start"
                PROVE  \E g \in Greetings : stream' = g \o Pending'
    OBVIOUS
  <2>1. PICK g \in Greetings : stream = g \o <<>>
    BY <1>1, <1>3 DEF FrameInv
  <2>2. g \in Seq(Byte) /\ g \o <<>> = g
    BY GreetingsAssumption, ConcatEmptySeq
  <2>. QED
    BY <1>4, <1>5, <2>1, <2>2, Zenon
<1>7. pc["client"] = "greeted" => stream' = Pending'
  <2>. SUFFICES ASSUME pc["client"] = "greeted" PROVE stream' = Pending'
    OBVIOUS
  <2>1. stream = <<>>
    BY <1>3 DEF FrameInv
  <2>2. <<>> \in Seq(Byte) /\ Wire(r) \in Seq(Byte)
    <3>1. PICK a, n : Request(a, n, r)
      BY WireIs
    <3>. QED
      BY <3>1, EmptySeq DEF Request
  <2>3. <<>> \o Wire(r) = Wire(r)
    BY <2>2, ConcatEmptySeq
  <2>. QED
    BY <1>4, <1>5, <2>1, <2>2, <2>3, Zenon
<1>8. pc["client"] \notin {"asking", "waiting", "relaying"}
  BY <1>1 DEF FrameInv
<1>. QED
  BY <1>1, <1>2, <1>6, <1>7, <1>8, Zenon DEF FrameInv, RequestFramed

LEMMA SendsFrame == FrameInv /\ AppSends => FrameInv'
<1>. SUFFICES ASSUME FrameInv, AppSends PROVE FrameInv'
  OBVIOUS
<1>1. /\ app = "asked" /\ app' = "sent" /\ pc' = pc /\ asked' = asked
      /\ stream' = stream \o EarlyData
  BY DEF AppSends
<1>2. asked \in Requests /\ EarlyData \in Seq(Byte)
  BY <1>1, ConfigsAssumption DEF FrameInv
<1>3. Pending = Wire(asked) /\ Pending' = Wire(asked) \o EarlyData
  <2>1. Pending = Wire(asked)
    BY <1>1, PendingIs
  <2>2. Pending' = Wire(asked)' \o EarlyData
    <3>1. app' # "asked"
      BY <1>1
    <3>. QED
      BY <1>1, <3>1, Zenon DEF Pending
  <2>3. Wire(asked)' = Wire(asked)
    BY <1>1 DEF Wire, Socks5Address
  <2>. QED
    BY <2>1, <2>2, <2>3
<1>4. Pending \in Seq(Byte)
  BY PendingType
<1>5. pc["client"] = "start" => \E g \in Greetings : stream' = g \o Pending'
  <2>. SUFFICES ASSUME pc["client"] = "start"
                PROVE  \E g \in Greetings : stream' = g \o Pending'
    OBVIOUS
  <2>1. PICK g \in Greetings : stream = g \o Pending
    BY <1>1 DEF FrameInv
  <2>2. g \in Seq(Byte)
    BY GreetingsAssumption
  <2>3. (g \o Pending) \o EarlyData = g \o (Pending \o EarlyData)
    BY <1>2, <1>4, <2>2, ConcatAssociative
  <2>. QED
    BY <1>1, <1>3, <2>1, <2>3, Zenon
<1>6. pc["client"] = "greeted" => stream' = Pending'
  BY <1>1, <1>3, Zenon DEF FrameInv
<1>7. pc["client"] \in {"asking", "waiting", "relaying"} => stream' = EarlyData
  <2>1. pc["client"] \in {"asking", "waiting", "relaying"} => stream = <<>>
    BY <1>1 DEF FrameInv, RequestFramed
  <2>2. <<>> \o EarlyData = EarlyData
    BY <1>2, ConcatEmptySeq
  <2>. QED
    BY <1>1, <2>1, <2>2, Zenon
<1>. QED
  BY <1>1, <1>2, <1>5, <1>6, <1>7, Zenon DEF FrameInv, RequestFramed

LEMMA GreetFrame == FrameInv /\ StepOK /\ Greet => FrameInv'
<1>. SUFFICES ASSUME FrameInv, StepOK, Greet PROVE FrameInv'
  OBVIOUS
<1>1. pc["client"] = "start" /\ Has(2) /\ app' = app /\ asked' = asked
  BY DEF Greet
<1>2. PICK where \in {"failed", "greeted"} : pc' = [pc EXCEPT !["client"] = where]
  BY DEF Greet, Goto
<1>3. pc'["client"] = where
  BY <1>2 DEF StepOK
<1>4. Pending' = Pending
  BY <1>1 DEF Pending, Wire, Socks5Address
<1>5. CASE where = "greeted"
  <2>1. pc' # [pc EXCEPT !["client"] = "failed"]
    BY <1>2, <1>3, <1>5 DEF StepOK
  <2>2. stream[1] = 5 /\ stream[2] > 0 /\ Took(2 + stream[2])
    BY <2>1 DEF Greet, Goto
  <2>3. app # "new"
    <3>1. Len(<<>>) = 0
      OBVIOUS
    <3>. QED
      BY <1>1, <3>1 DEF FrameInv, Has
  <2>4. PICK g \in Greetings : stream = g \o Pending
    BY <1>1, <2>3 DEF FrameInv
  <2>5. g \in Seq(Byte) /\ Len(g) > 1 /\ (g[1] = 5 /\ g[2] > 0 => Len(g) = 2 + g[2])
    BY GreetingsAssumption
  <2>6. Pending \in Seq(Byte)
    BY PendingType
  <2>7. PICK c : c = stream /\ Joins(c, g, Pending)
    BY <2>4, <2>5, <2>6, Joined
  <2>8. c[1] = g[1] /\ c[2] = g[2]
    <3>1. Len(g) \in Nat
      BY <2>5, LenProperties
    <3>. QED
      BY <2>5, <2>7, <3>1 DEF Joins
  <2>9. 2 + stream[2] = Len(g)
    BY <2>2, <2>5, <2>7, <2>8
  <2>10. stream' = Pending
    <3>1. stream' = SubSeq(stream, Len(g) + 1, Len(stream))
      BY <2>2, <2>9 DEF Took
    <3>2. SubSeq(stream, Len(g) + 1, Len(stream)) = Pending
      BY <2>4, <2>5, <2>6, Rest
    <3>. QED
      BY <3>1, <3>2
  <2>. QED
    BY <1>1, <1>3, <1>4, <1>5, <2>3, <2>10 DEF FrameInv, RequestFramed
<1>6. CASE where = "failed"
  BY <1>1, <1>3, <1>6 DEF FrameInv, RequestFramed
<1>. QED
  BY <1>5, <1>6

(* What read_socks5_request takes off the stream is the request that was    *)
(* asked, if it can be decoded.                                             *)
LEMMA RequestRead ==
  ASSUME FrameInv, ReadRequest, DecodeRequest(SubSeq(stream, 1, RequestSize)) # NoTarget
  PROVE  /\ app \in {"asked", "sent"} /\ asked \in Requests /\ asked.type \in KnownTypes
         /\ \E t \in Seq(Byte) : /\ stream = Wire(asked) \o t
                                 /\ t = IF app = "sent" THEN EarlyData ELSE <<>>
         /\ RequestSize = Len(Wire(asked))
<1>1. /\ pc["client"] = "greeted"
      /\ Has(4) /\ Has(RequestSize) /\ (stream[4] = Domain => Has(5))
  BY DEF ReadRequest
<1>2. app # "new" /\ stream = Pending
  BY <1>1 DEF FrameInv
<1>3. app \in {"asked", "sent"}
  <2>1. app = "greeted" => stream = <<>>
    BY <1>2, PendingIs
  <2>2. Len(<<>>) = 0
    OBVIOUS
  <2>. QED
    BY <1>1, <1>2, <2>1, <2>2 DEF FrameInv, Has
<1>4. asked \in Requests
  BY <1>3 DEF FrameInv
<1>5. PICK t \in Seq(Byte) :
        stream = Wire(asked) \o t /\ t = IF app = "sent" THEN EarlyData ELSE <<>>
  <2>1. CASE app = "asked"
    <3>1. PICK a, n : Request(a, n, asked)
      BY <1>4, WireIs
    <3>2. Wire(asked) \o <<>> = Wire(asked)
      BY <3>1, ConcatEmptySeq DEF Request
    <3>. QED
      BY <1>2, <2>1, <3>2, PendingIs, EmptySeq
  <2>2. CASE app = "sent"
    BY <1>2, <2>2, PendingIs, ConfigsAssumption
  <2>. QED
    BY <1>3, <2>1, <2>2
<1>6. stream \in Seq(Byte)
  BY <1>2, PendingType
<1>7. RequestSize \in Nat /\ 4 <= RequestSize /\ RequestSize <= Len(stream)
  <2>1. stream[4] = Domain => stream[5] \in Nat
    <3>1. stream[4] = Domain => 5 \in 1..Len(stream)
      BY <1>1, <1>6, LenProperties DEF Has
    <3>2. stream[4] = Domain => stream[5] \in Byte
      BY <1>6, <3>1, ElementOfSeq
    <3>. QED
      BY <3>2, ByteIs
  <2>2. \/ RequestSize = 10 \/ RequestSize = 22 \/ RequestSize = 4 \/ RequestSize = 5
        \/ /\ stream[4] = Domain
           /\ RequestSize = 7 + stream[5]
    <3>1. Ipv4 # Ipv6 /\ Ipv4 # Domain /\ Ipv6 # Domain
      BY DEF Ipv4, Ipv6, Domain
    <3>2. CASE stream[4] = Ipv4
      BY <3>1, <3>2, Zenon DEF RequestSize
    <3>3. CASE stream[4] = Ipv6
      BY <3>1, <3>3, Zenon DEF RequestSize
    <3>4. CASE stream[4] = Domain
      BY <1>1, <3>1, <3>4, Zenon DEF RequestSize
    <3>5. CASE stream[4] \notin {Ipv4, Ipv6, Domain}
      BY <3>1, <3>5, Zenon DEF RequestSize
    <3>. QED
      BY <3>2, <3>3, <3>4, <3>5
  <2>3. Len(stream) \in Nat
    BY <1>6, LenProperties
  <2>4. RequestSize \in Nat /\ 4 <= RequestSize
    BY <2>1, <2>2
  <2>. QED
    BY <1>1, <2>3, <2>4 DEF Has
<1>8. stream[4] \in KnownTypes
  BY <1>6, <1>7, TypeKnown DEF KnownTypes
<1>9. RequestSize = Len(Wire(asked))
  BY <1>4, <1>5, <1>8, SizeIs DEF KnownTypes
<1>10. asked.type \in KnownTypes
  <2>1. PICK a, n : Request(a, n, asked)
    BY <1>4, WireIs
  <2>2. a \in Seq(Byte) /\ a = Wire(asked) /\ Len(a) > 5 /\ a[4] = asked.type
    BY <2>1 DEF Request
  <2>3. Joins(stream, a, t)
    BY <1>5, <2>2, Joined
  <2>4. stream[4] = a[4]
    BY <2>2, <2>3, LenProperties DEF Joins
  <2>. QED
    BY <1>8, <2>2, <2>4
<1>. QED
  BY <1>3, <1>4, <1>5, <1>9, <1>10

LEMMA RequestFrame == FrameInv /\ StepOK /\ ReadRequest => FrameInv'
<1>. SUFFICES ASSUME FrameInv, StepOK, ReadRequest PROVE FrameInv'
  OBVIOUS
<1>1. app' = app /\ asked' = asked /\ Took(RequestSize)
  BY DEF ReadRequest
<1>2. PICK where \in {"failed", "asking"} :
        /\ pc' = [pc EXCEPT !["client"] = where]
        /\ where = "asking" => DecodeRequest(SubSeq(stream, 1, RequestSize)) # NoTarget
  BY DEF ReadRequest, Goto
<1>3. pc'["client"] = where
  BY <1>2 DEF StepOK
<1>4. CASE where = "asking"
  <2>1. /\ app \in {"asked", "sent"} /\ asked \in Requests
        /\ RequestSize = Len(Wire(asked))
    BY <1>2, <1>4, RequestRead
  <2>2. PICK t \in Seq(Byte) :
          stream = Wire(asked) \o t /\ t = IF app = "sent" THEN EarlyData ELSE <<>>
    BY <1>2, <1>4, RequestRead
  <2>3. Wire(asked) \in Seq(Byte)
    <3>1. PICK a, n : Request(a, n, asked)
      BY <2>1, WireIs
    <3>. QED
      BY <3>1 DEF Request
  <2>4. stream' = t
    <3>1. stream' = SubSeq(stream, Len(Wire(asked)) + 1, Len(stream))
      BY <1>1, <2>1 DEF Took
    <3>2. SubSeq(stream, Len(Wire(asked)) + 1, Len(stream)) = t
      BY <2>2, <2>3, Rest
    <3>. QED
      BY <3>1, <3>2
  <2>. QED
    BY <1>1, <1>3, <1>4, <2>1, <2>2, <2>4 DEF FrameInv, RequestFramed
<1>5. CASE where = "failed"
  BY <1>1, <1>3, <1>5 DEF FrameInv, RequestFramed
<1>. QED
  BY <1>4, <1>5

LEMMA FrameNext == FrameInv /\ StepOK /\ [Next]_vars => FrameInv'
<1>. SUFFICES ASSUME FrameInv, StepOK, [Next]_vars PROVE FrameInv'
  OBVIOUS
<1>1. ASSUME UNCHANGED <<app, asked, stream>>,
             \/ pc'["client"] = pc["client"] \/ pc'["client"] = "failed"
             \/ /\ pc["client"] \in {"asking", "waiting", "relaying"}
                /\ pc'["client"] \in {"asking", "waiting", "relaying"}
      PROVE  FrameInv'
  <2>1. Pending' = Pending
    BY <1>1 DEF Pending, Wire, Socks5Address
  <2>. QED
    BY <1>1, <2>1 DEF FrameInv, RequestFramed
<1>2. CASE AppGreets \/ AppAsks \/ AppSends \/ Greet \/ ReadRequest
  BY <1>2, GreetsFrame, AsksFrame, SendsFrame, GreetFrame, RequestFrame
<1>3. CASE Establish
  <2>1. pc["client"] = "asking" /\ pc'["client"] = "waiting" /\ UNCHANGED <<app, asked, stream>>
    BY <1>3 DEF Establish, Goto, StepOK, clientVars
  <2>. QED
    BY <1>1, <2>1
<1>4. CASE ReadResponse
  <2>1. pc["client"] = "waiting" /\ UNCHANGED <<app, asked, stream>>
    BY <1>4 DEF ReadResponse
  <2>2. pc' \in {[pc EXCEPT !["client"] = "relaying"], [pc EXCEPT !["client"] = "failed"]}
    BY <1>4 DEF ReadResponse, Goto
  <2>3. pc'["client"] \in {"relaying", "failed"}
    BY <2>2 DEF StepOK
  <2>. QED
    BY <1>1, <2>1, <2>3
<1>5. CASE ReadHello \/ ReadAddress \/ Dial
  <2>1. UNCHANGED <<app, asked, stream>>
    BY <1>5 DEF ReadHello, ReadAddress, Dial, clientVars
  <2>2. \E where : pc' = [pc EXCEPT !["server"] = where]
    BY <1>5 DEF ReadHello, ReadAddress, Dial, Goto
  <2>3. pc'["client"] = pc["client"]
    BY <2>2 DEF StepOK
  <2>. QED
    BY <1>1, <2>1, <2>3
<1>6. CASE UNCHANGED vars
  BY <1>1, <1>6 DEF vars, clientVars
<1>. QED
  BY <1>2, <1>3, <1>4, <1>5, <1>6 DEF Next

(* The client takes from the application's stream its request and nothing   *)
(* behind it, for every greeting and every address of at most 255 bytes.    *)
THEOREM RequestsFramed == Spec => []RequestFramed
<1>1. Init => FrameInv
  BY DEF Init, FrameInv, RequestFramed
<1>2. AnswerInv => StepOK
  BY DEF AnswerInv
<1>3. FrameInv => RequestFramed
  BY DEF FrameInv
<1>. QED
  BY <1>1, <1>2, <1>3, AnswerInit, AnswerNext, FrameNext, PTL DEF Spec

-----------------------------------------------------------------------------
(* Induction: a set of numbers has a least one, since the sets of numbers   *)
(* below its members are finite.                                            *)
LEMMA Least ==
  ASSUME NEW S \in SUBSET Nat, S # {}
  PROVE  \E x \in S : \A y \in S : x <= y
<1>. DEFINE Below(x) == 0..(x - 1)
            T == { Below(x) : x \in S }
            R == StrictSubsetOrdering(Nat)
<1>1. IsWellFoundedOn(R, FiniteSubsetsOf(Nat))
  BY FS_StrictSubsetOrderingWellFounded
<1>2. T \subseteq FiniteSubsetsOf(Nat)
  <2>1. ASSUME NEW x \in S PROVE IsFiniteSet(Below(x)) /\ Below(x) \subseteq Nat
    BY FS_Interval
  <2>. QED
    BY <2>1 DEF FiniteSubsetsOf
<1>3. T # {}
  OBVIOUS
<1>. HIDE DEF T, R
<1>4. PICK m \in T : \A t \in T : ~ (<<t, m>> \in R)
  BY <1>1, <1>2, <1>3, WFMin, Zenon
<1>5. PICK x \in S : m = Below(x)
  BY DEF T
<1>6. ASSUME NEW y \in S, ~ (x <= y) PROVE FALSE
  <2>1. Below(y) \in T /\ Below(y) \in SUBSET Nat /\ m \in SUBSET Nat
    BY <1>5 DEF T
  <2>2. Below(y) \subseteq m /\ Below(y) # m
    <3>1. x \in Nat /\ y \in Nat /\ y < x
      BY <1>6
    <3>2. y \in Below(x) /\ y \notin Below(y)
      BY <3>1
    <3>. QED
      BY <1>5, <3>1, <3>2
  <2>3. <<Below(y), m>> \in R
    BY <2>1, <2>2 DEF R, StrictSubsetOrdering
  <2>. QED
    BY <2>1, <2>3, <1>4
<1>. QED
  BY <1>6

LEMMA Induct ==
  ASSUME NEW G, 0 \in G, \A n \in Nat : n \in G => n + 1 \in G
  PROVE  Nat \subseteq G
<1>1. SUFFICES ASSUME Nat \ G # {} PROVE FALSE
  OBVIOUS
<1>2. PICK x \in Nat \ G : \A y \in Nat \ G : x <= y
  BY <1>1, Least
<1>3. x # 0 /\ x - 1 \in Nat /\ x - 1 \in G
  BY <1>2
<1>. QED
  BY <1>2, <1>3

-----------------------------------------------------------------------------
(* The function text of Lossy: it exists, its values are sequences, and     *)
(* that of a span is the concatenation of the values of its bytes.          *)

(* A span is made of its two halves, which are shorter.                     *)
LEMMA SpanIs ==
  ASSUME NEW b \in Seq(Byte)
  PROVE  \A s : s \in Spans(b) <=>
           \E i, j \in Nat : s = <<i, j>> /\ 0 < i /\ i <= j /\ j <= Len(b)
<1>1. Len(b) \in Nat
  BY LenProperties
<1>. QED
  BY <1>1 DEF Spans

LEMMA Halves ==
  ASSUME NEW b \in Seq(Byte), NEW s \in Spans(b), s[1] # s[2]
  PROVE  LET i == s[1]  j == s[2]  m == Middle(s)
         IN  /\ i \in Nat /\ j \in Nat /\ m \in Nat
             /\ 0 < i /\ i <= m /\ m < j /\ j <= Len(b)
             /\ <<i, m>> \in Spans(b) /\ <<m + 1, j>> \in Spans(b)
<1>1. PICK i \in Nat, j \in Nat : s = <<i, j>> /\ 0 < i /\ i <= j /\ j <= Len(b)
  BY SpanIs
<1>2. i < j
  BY <1>1
<1>3. PICK m \in Nat : m = (i + j) \div 2 /\ i <= m /\ m < j
  BY <1>2
<1>4. m = Middle(s)
  BY <1>1, <1>3 DEF Middle
<1>5. <<i, m>> \in Spans(b) /\ <<m + 1, j>> \in Spans(b)
  <2>1. Len(b) \in Nat
    BY LenProperties
  <2>. QED
    BY <1>1, <1>2, <1>3, <2>1, SpanIs
<1>. QED
  BY <1>1, <1>2, <1>3, <1>4, <1>5

(* What the function text of Lossy is at a span, if it is g elsewhere.      *)
TextAt(b, g, s) ==
  IF s[1] = s[2] THEN LossyAt(b, s[1])
                 ELSE g[<<s[1], Middle(s)>>] \o g[<<Middle(s) + 1, s[2]>>]

TextOf(b, g) == g = [s \in Spans(b) |-> TextAt(b, g, s)]

Text(b) == CHOOSE g : TextOf(b, g)

LEMMA LossyIs == ASSUME NEW b, b # <<>> PROVE Lossy(b) = Text(b)[<<1, Len(b)>>]
  BY DEF Lossy, Text, TextOf, TextAt

(* It is defined at all spans shorter than k.                               *)
Shorter(b, k) == { s \in Spans(b) : s[2] - s[1] < k }

TextUpTo(b, g, k) ==
  /\ g = [s \in Spans(b) |-> g[s]]
  /\ \A s \in Shorter(b, k) : g[s] = TextAt(b, g, s)

LEMMA TextStep ==
  ASSUME NEW b \in Seq(Byte), NEW k \in Nat, NEW g, TextUpTo(b, g, k)
  PROVE  \E h : TextUpTo(b, h, k + 1)
<1>. DEFINE h == [s \in Spans(b) |-> IF s \in Shorter(b, k) THEN g[s] ELSE TextAt(b, g, s)]
<1>1. \A s \in Shorter(b, k) : h[s] = g[s] /\ h[s] = TextAt(b, g, s)
  BY DEF TextUpTo, Shorter
<1>2. \A s \in Spans(b) : h[s] = TextAt(b, g, s)
  BY <1>1
<1>. HIDE DEF h
<1>3. ASSUME NEW s \in Shorter(b, k + 1) PROVE TextAt(b, g, s) = TextAt(b, h, s)
  <2>1. CASE s[1] = s[2]
    BY <2>1 DEF TextAt
  <2>2. CASE s[1] # s[2]
    <3>1. PICK i \in Nat, j \in Nat, m \in Nat :
            /\ i = s[1] /\ j = s[2] /\ m = Middle(s) /\ i <= m /\ m < j
            /\ <<i, m>> \in Spans(b) /\ <<m + 1, j>> \in Spans(b)
      BY <2>2, Halves DEF Shorter
    <3>2. j - i < k + 1
      BY <3>1 DEF Shorter
    <3>3. <<i, m>> \in Shorter(b, k) /\ <<m + 1, j>> \in Shorter(b, k)
      BY <3>1, <3>2 DEF Shorter
    <3>. QED
      BY <1>1, <2>2, <3>1, <3>3 DEF TextAt
  <2>. QED
    BY <2>1, <2>2
<1>4. TextUpTo(b, h, k + 1)
  <2>1. h = [s \in Spans(b) |-> h[s]]
    BY DEF h
  <2>2. \A s \in Shorter(b, k + 1) : s \in Spans(b)
    BY DEF Shorter
  <2>. QED
    BY <1>2, <1>3, <2>1, <2>2 DEF TextUpTo
<1>. QED
  BY <1>4

LEMMA TextExists == ASSUME NEW b \in Seq(Byte) PROVE TextOf(b, Text(b))
<1>. DEFINE G == { k \in Nat : \E g : TextUpTo(b, g, k) }
<1>1. 0 \in G
  <2>1. TextUpTo(b, [s \in Spans(b) |-> <<>>], 0)
    <3>1. Shorter(b, 0) = {}
      BY SpanIs DEF Shorter
    <3>. QED
      BY <3>1 DEF TextUpTo
  <2>. QED
    BY <2>1
<1>2. \A k \in Nat : k \in G => k + 1 \in G
  BY TextStep
<1>3. Nat \subseteq G
  <2>. HIDE DEF G
  <2>. QED
    BY <1>1, <1>2, Induct
<1>4. Len(b) \in Nat
  BY LenProperties
<1>5. PICK g : TextUpTo(b, g, Len(b))
  BY <1>3, <1>4
<1>6. Shorter(b, Len(b)) = Spans(b)
  BY <1>4, SpanIs DEF Shorter
<1>7. TextOf(b, g)
  BY <1>5, <1>6 DEF TextUpTo, TextOf
<1>. QED
  BY <1>7 DEF Text

-----------------------------------------------------------------------------
(* What a single byte becomes.                                              *)
LEMMA ReplacementType ==
  /\ Replacement \in Seq(Byte) /\ Len(Replacement) = 3
  /\ Replacement[1] = 239 /\ Replacement[2] = 191 /\ Replacement[3] = 189
<1>1. 239 \in Byte /\ 191 \in Byte /\ 189 \in Byte
  BY ByteIs
<1>2. <<239, 191, 189>> \in Seq(Byte) /\ Len(<<239, 191, 189>>) = 3
  BY <1>1, ThreeBytes
<1>. QED
  BY <1>2 DEF Replacement

LEMMA AtIs ==
  ASSUME NEW b, NEW i
  PROVE  LossyAt(b, i) \in {<<b[i]>>, <<>>, Replacement}
  BY Zenon DEF LossyAt

LEMMA AtType ==
  ASSUME NEW b \in Seq(Byte), NEW i \in 1..Len(b)
  PROVE  LossyAt(b, i) \in Seq(Byte)
<1>1. b[i] \in Byte
  BY ElementOfSeq
<1>2. <<b[i]>> \in Seq(Byte)
  BY <1>1, OneByte
<1>3. Replacement \in Seq(Byte) /\ <<>> \in Seq(Byte)
  BY ReplacementType, EmptySeq
<1>4. LossyAt(b, i) = <<b[i]>> \/ LossyAt(b, i) = <<>> \/ LossyAt(b, i) = Replacement
  BY AtIs, Zenon
<1>. QED
  BY <1>2, <1>3, <1>4, Zenon

LEMMA TextSplits ==
  ASSUME NEW b \in Seq(Byte), NEW s \in Spans(b)
  PROVE  Text(b)[s] = TextAt(b, Text(b), s)
<1>1. PICK g : g = Text(b)
  OBVIOUS
<1>2. g = [r \in Spans(b) |-> TextAt(b, g, r)]
  BY <1>1, TextExists DEF TextOf
<1>3. g[s] = TextAt(b, g, s)
  <2>. DEFINE F(r) == TextAt(b, g, r)
  <2>. HIDE DEF F
  <2>1. g = [r \in Spans(b) |-> F(r)]
    BY <1>2 DEF F
  <2>2. g[s] = F(s)
    BY <2>1
  <2>. QED
    BY <2>2 DEF F
<1>. QED
  BY <1>1, <1>3

LEMMA TextHalves ==
  ASSUME NEW b \in Seq(Byte), NEW i \in Nat, NEW j \in Nat, 0 < i, i < j, j <= Len(b)
  PROVE  \E m \in Nat :
           /\ i <= m /\ m < j
           /\ Text(b)[<<i, j>>] = Text(b)[<<i, m>>] \o Text(b)[<<m + 1, j>>]
<1>1. PICK s \in Spans(b) : s = <<i, j>> /\ s[1] = i /\ s[2] = j
  <2>1. i <= j
    OBVIOUS
  <2>2. <<i, j>> \in Spans(b)
    BY <2>1, SpanIs
  <2>. QED
    BY <2>2
<1>2. PICK m \in Nat : m = Middle(s) /\ i <= m /\ m < j
  <2>1. s[1] # s[2]
    BY <1>1
  <2>2. Middle(s) \in Nat /\ s[1] <= Middle(s) /\ Middle(s) < s[2]
    BY <2>1, Halves
  <2>. QED
    BY <1>1, <2>2
<1>3. Text(b)[s] = Text(b)[<<s[1], Middle(s)>>] \o Text(b)[<<Middle(s) + 1, s[2]>>]
  <2>1. s[1] # s[2]
    BY <1>1
  <2>. QED
    BY <2>1, TextSplits, Zenon DEF TextAt
<1>. QED
  BY <1>1, <1>2, <1>3

LEMMA TextOne ==
  ASSUME NEW b \in Seq(Byte), NEW i \in 1..Len(b)
  PROVE  Text(b)[<<i, i>>] = LossyAt(b, i)
<1>1. PICK s \in Spans(b) : s = <<i, i>> /\ s[1] = i /\ s[2] = i
  <2>1. i \in Nat /\ 0 < i /\ i <= i /\ i <= Len(b)
    BY LenProperties
  <2>2. <<i, i>> \in Spans(b)
    BY <2>1, SpanIs
  <2>. QED
    BY <2>2
<1>2. Text(b)[s] = LossyAt(b, i)
  BY <1>1, TextSplits DEF TextAt
<1>. QED
  BY <1>1, <1>2

LEMMA TextType ==
  ASSUME NEW b \in Seq(Byte)
  PROVE  \A i, j \in Nat : 0 < i /\ i <= j /\ j <= Len(b) => Text(b)[<<i, j>>] \in Seq(Byte)
<1>. DEFINE Holds(k) == \A i, j \in Nat : 0 < i /\ i <= j /\ j <= Len(b) /\ j - i < k
                                            => Text(b)[<<i, j>>] \in Seq(Byte)
            G == { k \in Nat : Holds(k) }
<1>1. Len(b) \in Nat
  BY LenProperties
<1>2. Holds(0)
  OBVIOUS
<1>3. ASSUME NEW k \in Nat, Holds(k) PROVE Holds(k + 1)
  <2>. SUFFICES ASSUME NEW i \in Nat, NEW j \in Nat, 0 < i, i <= j, j <= Len(b), j - i < k + 1
                PROVE  Text(b)[<<i, j>>] \in Seq(Byte)
    OBVIOUS
  <2>1. CASE i = j
    BY <1>1, <2>1, TextOne, AtType
  <2>2. CASE i < j
    <3>1. PICK m \in Nat : /\ i <= m /\ m < j
                           /\ Text(b)[<<i, j>>] = Text(b)[<<i, m>>] \o Text(b)[<<m + 1, j>>]
      BY <2>2, TextHalves
    <3>2. Text(b)[<<i, m>>] \in Seq(Byte) /\ Text(b)[<<m + 1, j>>] \in Seq(Byte)
      BY <1>1, <1>3, <3>1
    <3>. QED
      BY <3>1, <3>2, Front
  <2>. QED
    BY <2>1, <2>2
<1>4. Nat \subseteq G
  <2>. HIDE DEF Holds
  <2>1. 0 \in G /\ \A k \in Nat : k \in G => k + 1 \in G
    BY <1>2, <1>3
  <2>. HIDE DEF G
  <2>. QED
    BY <2>1, Induct
<1>5. Holds(Len(b))
  BY <1>1, <1>4
<1>. QED
  BY <1>1, <1>5

LEMMA Associative ==
  ASSUME NEW x \in Seq(Byte), NEW y \in Seq(Byte), NEW z \in Seq(Byte)
  PROVE  (x \o y) \o z = x \o (y \o z)
  BY ConcatAssociative

Piece(b, i, j) == Text(b)[<<i, j>>]

(* The text of a span is that of its parts, wherever it is divided.         *)
LEMMA TextDivided ==
  ASSUME NEW b \in Seq(Byte)
  PROVE  \A i, p, j \in Nat :
           0 < i /\ i <= p /\ p < j /\ j <= Len(b)
             => Piece(b, i, j) = Piece(b, i, p) \o Piece(b, p + 1, j)
<1>. DEFINE Holds(k) == \A i, p, j \in Nat :
                          0 < i /\ i <= p /\ p < j /\ j <= Len(b) /\ j - i < k
                            => Piece(b, i, j) = Piece(b, i, p) \o Piece(b, p + 1, j)
            G == { k \in Nat : Holds(k) }
<1>1. Len(b) \in Nat
  BY LenProperties
<1>2. \A i, j \in Nat : 0 < i /\ i <= j /\ j <= Len(b) => Piece(b, i, j) \in Seq(Byte)
  BY TextType DEF Piece
<1>3. \A i, j \in Nat : 0 < i /\ i < j /\ j <= Len(b)
        => \E m \in Nat : i <= m /\ m < j /\ Piece(b, i, j) = Piece(b, i, m) \o Piece(b, m + 1, j)
  BY TextHalves DEF Piece
<1>4. Holds(0)
  OBVIOUS
<1>5. ASSUME NEW k \in Nat, Holds(k) PROVE Holds(k + 1)
  <2>. SUFFICES ASSUME NEW i \in Nat, NEW p \in Nat, NEW j \in Nat,
                       0 < i, i <= p, p < j, j <= Len(b), j - i < k + 1
                PROVE  Piece(b, i, j) = Piece(b, i, p) \o Piece(b, p + 1, j)
    OBVIOUS
  <2>1. PICK m \in Nat : i <= m /\ m < j /\ Piece(b, i, j) = Piece(b, i, m) \o Piece(b, m + 1, j)
    <3>1. i < j
      OBVIOUS
    <3>. QED
      BY <1>3, <3>1
  <2>2. CASE p < m
    <3>1. Piece(b, i, m) = Piece(b, i, p) \o Piece(b, p + 1, m)
      <4>1. m - i < k /\ m <= Len(b)
        BY <1>1, <2>1
      <4>. QED
        BY <1>5, <2>2, <4>1
    <3>2. Piece(b, p + 1, j) = Piece(b, p + 1, m) \o Piece(b, m + 1, j)
      <4>1. PICK q \in Nat : q = p + 1
        OBVIOUS
      <4>2. 0 < q /\ q <= m /\ j - q < k
        BY <2>2, <4>1
      <4>3. Piece(b, q, j) = Piece(b, q, m) \o Piece(b, m + 1, j)
        BY <1>5, <2>1, <4>2
      <4>. QED
        BY <4>1, <4>3
    <3>3. /\ Piece(b, i, p) \in Seq(Byte) /\ Piece(b, p + 1, m) \in Seq(Byte)
          /\ Piece(b, m + 1, j) \in Seq(Byte)
      <4>1. /\ 0 < i /\ i <= p /\ p <= Len(b)
            /\ p + 1 \in Nat /\ 0 < p + 1 /\ p + 1 <= m /\ m <= Len(b)
            /\ m + 1 \in Nat /\ 0 < m + 1 /\ m + 1 <= j
        BY <1>1, <2>1, <2>2
      <4>. QED
        BY <1>2, <4>1
    <3>4. (Piece(b, i, p) \o Piece(b, p + 1, m)) \o Piece(b, m + 1, j)
            = Piece(b, i, p) \o (Piece(b, p + 1, m) \o Piece(b, m + 1, j))
      BY <3>3, Associative
    <3>. QED
      BY <2>1, <3>1, <3>2, <3>4
  <2>3. CASE m < p
    <3>1. Piece(b, i, p) = Piece(b, i, m) \o Piece(b, m + 1, p)
      <4>1. p - i < k /\ p <= Len(b)
        BY <1>1
      <4>. QED
        BY <1>5, <2>1, <2>3, <4>1
    <3>2. Piece(b, m + 1, j) = Piece(b, m + 1, p) \o Piece(b, p + 1, j)
      <4>1. PICK q \in Nat : q = m + 1
        OBVIOUS
      <4>2. 0 < q /\ q <= p /\ j - q < k
        BY <2>1, <2>3, <4>1
      <4>3. Piece(b, q, j) = Piece(b, q, p) \o Piece(b, p + 1, j)
        BY <1>5, <4>2
      <4>. QED
        BY <4>1, <4>3
    <3>3. /\ Piece(b, i, m) \in Seq(Byte) /\ Piece(b, m + 1, p) \in Seq(Byte)
          /\ Piece(b, p + 1, j) \in Seq(Byte)
      <4>1. /\ 0 < i /\ i <= m /\ m <= Len(b)
            /\ m + 1 \in Nat /\ 0 < m + 1 /\ m + 1 <= p /\ p <= Len(b)
            /\ p + 1 \in Nat /\ 0 < p + 1 /\ p + 1 <= j
        BY <1>1, <2>1, <2>3
      <4>. QED
        BY <1>2, <4>1
    <3>4. (Piece(b, i, m) \o Piece(b, m + 1, p)) \o Piece(b, p + 1, j)
            = Piece(b, i, m) \o (Piece(b, m + 1, p) \o Piece(b, p + 1, j))
      BY <3>3, Associative
    <3>. QED
      BY <2>1, <3>1, <3>2, <3>4
  <2>4. CASE m = p
    BY <2>1, <2>4
  <2>. QED
    BY <2>2, <2>3, <2>4
<1>6. Nat \subseteq G
  <2>. HIDE DEF Holds
  <2>1. 0 \in G /\ \A k \in Nat : k \in G => k + 1 \in G
    BY <1>4, <1>5
  <2>. HIDE DEF G
  <2>. QED
    BY <2>1, Induct
<1>7. Holds(Len(b))
  BY <1>1, <1>6
<1>8. \A i, p, j \in Nat : 0 < i /\ i <= p /\ p < j /\ j <= Len(b)
                             => Piece(b, i, j) = Piece(b, i, p) \o Piece(b, p + 1, j)
  <2>. TAKE i \in Nat, p \in Nat, j \in Nat
  <2>. HAVE 0 < i /\ i <= p /\ p < j /\ j <= Len(b)
  <2>1. j - i < Len(b)
    BY <1>1
  <2>. QED
    BY <1>7, <2>1
<1>. QED
  BY <1>8

(* What the first j bytes have become.                                      *)
Become(b, j) == IF j = 0 THEN <<>> ELSE Text(b)[<<1, j>>]

LEMMA BecomeIs ==
  ASSUME NEW b \in Seq(Byte)
  PROVE  /\ Become(b, 0) = <<>>
         /\ \A j \in Nat : j < Len(b)
              => /\ Become(b, j) \in Seq(Byte)
                 /\ Become(b, j + 1) = Become(b, j) \o LossyAt(b, j + 1)
         /\ Lossy(b) = Become(b, Len(b)) /\ Lossy(b) \in Seq(Byte)
<1>1. Len(b) \in Nat
  BY LenProperties
<1>2. \A j \in Nat : j <= Len(b) => Become(b, j) \in Seq(Byte)
  <2>. TAKE j \in Nat
  <2>. HAVE j <= Len(b)
  <2>1. CASE j = 0
    BY <2>1, EmptySeq DEF Become
  <2>2. CASE j > 0
    <3>1. 1 \in Nat /\ 0 < 1 /\ 1 <= j
      BY <2>2
    <3>2. Text(b)[<<1, j>>] \in Seq(Byte)
      BY <3>1, TextType
    <3>. QED
      BY <2>2, <3>2 DEF Become
  <2>. QED
    BY <2>1, <2>2
<1>3. \A j \in Nat : j < Len(b) => Become(b, j + 1) = Become(b, j) \o LossyAt(b, j + 1)
  <2>. TAKE j \in Nat
  <2>. HAVE j < Len(b)
  <2>1. PICK n \in Nat : n = j + 1 /\ n \in 1..Len(b)
    BY <1>1
  <2>2. Text(b)[<<n, n>>] = LossyAt(b, n) /\ LossyAt(b, n) \in Seq(Byte)
    BY <2>1, TextOne, AtType
  <2>3. CASE j = 0
    <3>1. Become(b, n) = LossyAt(b, n)
      BY <2>1, <2>2, <2>3 DEF Become
    <3>2. Become(b, j) = <<>>
      BY <2>3 DEF Become
    <3>3. <<>> \o LossyAt(b, n) = LossyAt(b, n)
      BY <2>2, ConcatEmptySeq
    <3>. QED
      BY <2>1, <3>1, <3>2, <3>3
  <2>4. CASE j > 0
    <3>1. 1 \in Nat /\ 0 < 1 /\ 1 <= j /\ j < n /\ n <= Len(b)
      BY <1>1, <2>1, <2>4
    <3>2. Text(b)[<<1, n>>] = Text(b)[<<1, j>>] \o Text(b)[<<j + 1, n>>]
      BY <3>1, TextDivided DEF Piece
    <3>3. Become(b, n) = Text(b)[<<1, n>>] /\ Become(b, j) = Text(b)[<<1, j>>]
      BY <2>1, <2>4 DEF Become
    <3>. QED
      BY <2>1, <2>2, <3>2, <3>3
  <2>. QED
    BY <2>3, <2>4
<1>4. Lossy(b) = Become(b, Len(b))
  <2>1. CASE b = <<>>
    <3>1. Len(b) = 0
      BY <2>1
    <3>2. Lossy(b) = <<>>
      BY <2>1 DEF Lossy
    <3>. QED
      BY <3>1, <3>2 DEF Become
  <2>2. CASE b # <<>>
    <3>1. Len(b) # 0
      BY <2>2, EmptySeq
    <3>. QED
      BY <2>2, <3>1, LossyIs DEF Become
  <2>. QED
    BY <2>1, <2>2
<1>5. Become(b, 0) = <<>> /\ Lossy(b) \in Seq(Byte)
  BY <1>1, <1>2, <1>4 DEF Become
<1>. QED
  BY <1>1, <1>2, <1>3, <1>4, <1>5

-----------------------------------------------------------------------------
(* Where a replacement character stands.                                    *)
Starts(b, k) ==
  k \in Nat /\ 0 < k /\ k + 2 <= Len(b) /\ b[k] = 239 /\ b[k + 1] = 191 /\ b[k + 2] = 189

LEMMA StartsIs ==
  ASSUME NEW b \in Seq(Byte), NEW k \in Int, 0 < k, k + 2 <= Len(b)
  PROVE  SubSeq(b, k, k + 2) = Replacement <=> Starts(b, k)
<1>. DEFINE n == k + 2
            x == SubSeq(b, k, n)
<1>1. /\ x \in Seq(Byte) /\ Len(x) = 3
      /\ \A i \in 1..(n - k + 1) : x[i] = b[k + i - 1]
  <2>1. Len(b) \in Nat
    BY LenProperties
  <2>2. k \in 1..Len(b) /\ n \in 0..Len(b) /\ k <= n + 1
    BY <2>1
  <2>3. /\ x \in Seq(Byte) /\ Len(x) = n - k + 1
        /\ \A i \in 1..(n - k + 1) : x[i] = b[k + i - 1]
    <3>. HIDE DEF n
    <3>. QED
      BY <2>2, Cut
  <2>. QED
    BY <2>3
<1>2. x[1] = b[k] /\ x[2] = b[k + 1] /\ x[3] = b[k + 2]
  <2>1. /\ 1 \in 1..(n - k + 1) /\ 2 \in 1..(n - k + 1) /\ 3 \in 1..(n - k + 1)
        /\ k + 1 - 1 = k /\ k + 2 - 1 = k + 1 /\ k + 3 - 1 = k + 2
    OBVIOUS
  <2>. HIDE DEF n, x
  <2>. QED
    BY <1>1, <2>1
<1>. HIDE DEF x
<1>3. x = Replacement <=> x[1] = 239 /\ x[2] = 191 /\ x[3] = 189
  <2>1. ASSUME x[1] = 239, x[2] = 191, x[3] = 189 PROVE x = Replacement
    <3>1. PICK r \in Seq(Byte) : /\ r = Replacement /\ Len(r) = 3
                                 /\ r[1] = 239 /\ r[2] = 191 /\ r[3] = 189
      BY ReplacementType
    <3>2. \A i \in 1..Len(x) : x[i] = r[i]
      <4>1. \A i \in 1..3 : i = 1 \/ i = 2 \/ i = 3
        OBVIOUS
      <4>. QED
        BY <1>1, <2>1, <3>1, <4>1
    <3>3. x \in Seq(Byte) /\ Len(x) = Len(r)
      BY <1>1, <3>1
    <3>4. x = r
      BY <3>2, <3>3, SeqEqual
    <3>. QED
      BY <3>1, <3>4
  <2>. QED
    BY <2>1, ReplacementType
<1>. QED
  BY <1>2, <1>3 DEF Starts, x

LEMMA WholeIs ==
  ASSUME NEW b \in Seq(Byte), NEW i \in Nat
  PROVE  Whole(b, i) <=> Starts(b, i) \/ Starts(b, i - 1) \/ Starts(b, i - 2)
<1>1. ASSUME Whole(b, i) PROVE Starts(b, i) \/ Starts(b, i - 1) \/ Starts(b, i - 2)
  <2>1. PICK k \in (i - 2)..i : k > 0 /\ k + 2 <= Len(b) /\ SubSeq(b, k, k + 2) = Replacement
    BY <1>1 DEF Whole
  <2>2. Starts(b, k)
    BY <2>1, StartsIs
  <2>3. k = i \/ k = i - 1 \/ k = i - 2
    OBVIOUS
  <2>. QED
    BY <2>2, <2>3
<1>2. ASSUME NEW k \in (i - 2)..i, Starts(b, k) PROVE Whole(b, i)
  <2>1. k > 0 /\ k + 2 <= Len(b) /\ 0 < k
    BY <1>2 DEF Starts
  <2>2. SubSeq(b, k, k + 2) = Replacement
    BY <1>2, <2>1, StartsIs
  <2>. QED
    BY <2>1, <2>2 DEF Whole
<1>3. i \in (i - 2)..i /\ i - 1 \in (i - 2)..i /\ i - 2 \in (i - 2)..i
  OBVIOUS
<1>. QED
  BY <1>1, <1>2, <1>3

-----------------------------------------------------------------------------
(* What becomes of a byte that is part of a character, and of another.      *)
LEMMA AtKept ==
  ASSUME NEW b \in Seq(Byte), NEW i \in 1..Len(b), b[i] < 128 \/ Whole(b, i)
  PROVE  LossyAt(b, i) = <<b[i]>>
<1>1. CASE Whole(b, i)
  BY <1>1, Zenon DEF LossyAt
<1>2. CASE b[i] < 128
  <2>1. ASSUME i > 1 PROVE SubSeq(b, i - 1, i) # SubSeq(Replacement, 1, 2)
    <3>1. Len(b) \in Nat /\ i - 1 \in 1..Len(b) /\ i \in 0..Len(b) /\ i - 1 <= i + 1
      BY <2>1, LenProperties
    <3>2. \A k \in 1..(i - (i - 1) + 1) : SubSeq(b, i - 1, i)[k] = b[i - 1 + k - 1]
      BY <3>1, Cut
    <3>3. 2 \in 1..(i - (i - 1) + 1) /\ i - 1 + 2 - 1 = i
      BY <3>1
    <3>4. SubSeq(b, i - 1, i)[2] = b[i]
      BY <3>2, <3>3
    <3>5. SubSeq(Replacement, 1, 2)[2] = 191
      <4>1. Replacement \in Seq(Byte) /\ 1 \in 1..Len(Replacement) /\ 2 \in 0..Len(Replacement)
        BY ReplacementType
      <4>2. \A k \in 1..(2 - 1 + 1) : SubSeq(Replacement, 1, 2)[k] = Replacement[1 + k - 1]
        BY <4>1, Cut
      <4>3. 2 \in 1..(2 - 1 + 1) /\ 1 + 2 - 1 = 2
        OBVIOUS
      <4>. QED
        BY <4>2, <4>3, ReplacementType
    <3>. QED
      BY <1>2, <3>4, <3>5
  <2>. QED
    BY <1>2, <2>1, Zenon DEF LossyAt
<1>. QED
  BY <1>1, <1>2

LEMMA AtOther ==
  ASSUME NEW b, NEW i, ~ (b[i] < 128 \/ Whole(b, i))
  PROVE  LossyAt(b, i) = <<>> \/ LossyAt(b, i) = Replacement
  BY Zenon DEF LossyAt

(* A text without a byte to replace.                                        *)
Clean(b) == b \in Seq(Byte) /\ \A i \in 1..Len(b) : b[i] < 128 \/ Whole(b, i)

LEMMA CleanStays == ASSUME NEW b, Clean(b) PROVE Lossy(b) = b
<1>. DEFINE Same(j) == j <= Len(b) => /\ Len(Become(b, j)) = j
                                     /\ \A i \in Nat : 0 < i /\ i <= j => Become(b, j)[i] = b[i]
            G == { j \in Nat : Same(j) }
<1>1. b \in Seq(Byte) /\ Len(b) \in Nat
  BY LenProperties DEF Clean
<1>2. Same(0)
  <2>1. Become(b, 0) = <<>>
    BY <1>1, BecomeIs
  <2>. QED
    BY <2>1, EmptySeq
<1>3. ASSUME NEW j \in Nat, Same(j) PROVE Same(j + 1)
  <2>. SUFFICES ASSUME j + 1 <= Len(b)
                PROVE  /\ Len(Become(b, j + 1)) = j + 1
                       /\ \A i \in Nat : 0 < i /\ i <= j + 1 => Become(b, j + 1)[i] = b[i]
    OBVIOUS
  <2>1. PICK n \in 1..Len(b) : n = j + 1
    BY <1>1
  <2>2. LossyAt(b, n) = <<b[n]>> /\ b[n] \in Byte
    <3>1. b[n] < 128 \/ Whole(b, n)
      BY DEF Clean
    <3>2. LossyAt(b, n) = <<b[n]>>
      BY <1>1, <3>1, AtKept
    <3>3. b[n] \in Byte
      BY <1>1, ElementOfSeq
    <3>. QED
      BY <3>2, <3>3
  <2>3. PICK x \in Seq(Byte) : x = Become(b, j)
    BY <1>1, <2>1, BecomeIs
  <2>4. PICK y \in Seq(Byte) : y = LossyAt(b, n) /\ Len(y) = 1 /\ y[1] = b[n]
    BY <2>2, Single
  <2>5. PICK z : z = x \o y /\ Joins(z, x, y)
    BY Joined
  <2>6. z = Become(b, j + 1)
    <3>1. j < Len(b)
      BY <1>1
    <3>. QED
      BY <1>1, <2>1, <2>3, <2>4, <2>5, <3>1, BecomeIs
  <2>7. Len(x) = j /\ \A i \in Nat : 0 < i /\ i <= j => x[i] = b[i]
    <3>1. j <= Len(b)
      BY <1>1
    <3>. QED
      BY <1>3, <2>3, <3>1
  <2>8. z[j + 1] = y[1]
    BY <2>4, <2>5, <2>7 DEF Joins
  <2>9. Len(z) = j + 1 /\ \A i \in Nat : 0 < i /\ i <= j + 1 => z[i] = b[i]
    <3>1. Len(z) = j + 1 /\ \A i \in Nat : 0 < i /\ i <= j => z[i] = x[i]
      BY <2>4, <2>5, <2>7 DEF Joins
    <3>2. \A i \in Nat : i <= j + 1 => i <= j \/ i = j + 1
      OBVIOUS
    <3>3. z[j + 1] = b[j + 1]
      BY <2>1, <2>4, <2>8
    <3>. QED
      BY <2>7, <3>1, <3>2, <3>3
  <2>. QED
    BY <2>6, <2>9
<1>4. Nat \subseteq G
  <2>. HIDE DEF Same
  <2>1. 0 \in G /\ \A j \in Nat : j \in G => j + 1 \in G
    BY <1>2, <1>3
  <2>. HIDE DEF G
  <2>. QED
    BY <2>1, Induct
<1>5. Same(Len(b))
  BY <1>1, <1>4
<1>6. PICK z \in Seq(Byte) : z = Lossy(b) /\ z = Become(b, Len(b))
  BY <1>1, BecomeIs
<1>7. Len(z) = Len(b) /\ \A i \in 1..Len(z) : z[i] = b[i]
  BY <1>1, <1>5, <1>6
<1>. QED
  BY <1>1, <1>6, <1>7, SeqEqual

(* What is appended to a text does not change what is whole in it.          *)
LEMMA StillWhole ==
  ASSUME NEW s \in Seq(Byte), NEW t \in Seq(Byte), NEW c, Joins(c, s, t),
         NEW i \in Nat, Whole(s, i)
  PROVE  Whole(c, i)
<1>1. c \in Seq(Byte) /\ Len(s) \in Nat /\ Len(t) \in Nat /\ Len(c) = Len(s) + Len(t)
  BY LenProperties DEF Joins
<1>2. PICK k \in Nat : Starts(s, k) /\ (k = i \/ k = i - 1 \/ k = i - 2)
  BY WholeIs DEF Starts
<1>3. Starts(c, k)
  <2>1. c[k] = s[k] /\ c[k + 1] = s[k + 1] /\ c[k + 2] = s[k + 2]
    <3>1. \A j \in Nat : 0 < j /\ j <= Len(s) => c[j] = s[j]
      BY DEF Joins
    <3>2. 0 < k /\ k + 2 <= Len(s)
      BY <1>2 DEF Starts
    <3>3. /\ k <= Len(s) /\ k + 1 <= Len(s) /\ k + 1 \in Nat /\ k + 2 \in Nat
          /\ 0 < k + 1 /\ 0 < k + 2
      BY <1>1, <3>2
    <3>. QED
      BY <3>1, <3>2, <3>3
  <2>. QED
    BY <1>1, <1>2, <2>1 DEF Starts
<1>. QED
  BY <1>1, <1>2, <1>3, WholeIs

LEMMA CleanMore ==
  ASSUME NEW s, Clean(s), NEW t \in Seq(Byte), NEW c, Joins(c, s, t),
         \A i \in Nat : 0 < i /\ i <= Len(t)
           => t[i] < 128 \/ Whole(c, Len(s) + i)
  PROVE  Clean(c)
<1>1. /\ s \in Seq(Byte) /\ c \in Seq(Byte) /\ Len(s) \in Nat /\ Len(t) \in Nat
      /\ Len(c) = Len(s) + Len(t)
  BY LenProperties DEF Joins, Clean
<1>2. ASSUME NEW i \in 1..Len(c) PROVE c[i] < 128 \/ Whole(c, i)
  <2>1. CASE i <= Len(s)
    <3>1. i \in Nat /\ i \in 1..Len(s) /\ c[i] = s[i]
      BY <1>1, <2>1 DEF Joins
    <3>2. s[i] < 128 \/ Whole(s, i)
      BY <3>1 DEF Clean
    <3>. QED
      BY <1>1, <3>1, <3>2, StillWhole
  <2>2. CASE i > Len(s)
    <3>1. PICK k \in Nat : k = i - Len(s) /\ 0 < k /\ k <= Len(t) /\ i = Len(s) + k
      <4>1. /\ i - Len(s) \in Nat /\ 0 < i - Len(s) /\ i - Len(s) <= Len(t)
            /\ i = Len(s) + (i - Len(s))
        BY <1>1, <2>2
      <4>. QED
        BY <4>1
    <3>2. c[i] = t[k]
      BY <3>1 DEF Joins
    <3>. QED
      BY <3>1, <3>2
  <2>. QED
    BY <1>1, <2>1, <2>2
<1>. QED
  BY <1>1, <1>2 DEF Clean

LEMMA CleanAscii ==
  ASSUME NEW s, Clean(s), NEW e \in Byte, e < 128
  PROVE  Clean(s \o <<e>>)
<1>1. PICK t \in Seq(Byte) : t = <<e>> /\ Len(t) = 1 /\ t[1] = e
  BY Single
<1>2. PICK c : c = s \o t /\ Joins(c, s, t)
  BY Joined DEF Clean
<1>3. \A i \in Nat : 0 < i /\ i <= Len(t) => t[i] < 128
  <2>1. \A i \in Nat : 0 < i /\ i <= 1 => i = 1
    OBVIOUS
  <2>. QED
    BY <1>1, <2>1
<1>. QED
  BY <1>1, <1>2, <1>3, CleanMore

LEMMA CleanReplacement == ASSUME NEW s, Clean(s) PROVE Clean(s \o Replacement)
<1>1. s \in Seq(Byte) /\ Len(s) \in Nat
  BY LenProperties DEF Clean
<1>2. PICK t \in Seq(Byte) : t = Replacement /\ Len(t) = 3 /\ t[1] = 239 /\ t[2] = 191 /\ t[3] = 189
  BY ReplacementType
<1>3. PICK c : c = s \o t /\ Joins(c, s, t)
  BY <1>1, Joined
<1>4. PICK k \in Nat : k = Len(s) + 1
  BY <1>1
<1>5. c \in Seq(Byte) /\ Starts(c, k)
  <2>1. c[Len(s) + 1] = t[1] /\ c[Len(s) + 2] = t[2] /\ c[Len(s) + 3] = t[3]
    BY <1>2, <1>3 DEF Joins
  <2>2. k + 1 = Len(s) + 2 /\ k + 2 = Len(s) + 3 /\ Len(c) = Len(s) + 3
    BY <1>1, <1>2, <1>3, <1>4 DEF Joins
  <2>3. c[k] = 239 /\ c[k + 1] = 191 /\ c[k + 2] = 189
    BY <1>2, <1>4, <2>1, <2>2
  <2>4. c \in Seq(Byte)
    BY <1>3 DEF Joins
  <2>. QED
    BY <1>1, <1>4, <2>2, <2>3, <2>4 DEF Starts
<1>6. \A i \in Nat : 0 < i /\ i <= Len(t) => t[i] < 128 \/ Whole(c, Len(s) + i)
  <2>. TAKE i \in Nat
  <2>. HAVE 0 < i /\ i <= Len(t)
  <2>1. PICK j \in Nat : j = Len(s) + i /\ (k = j \/ k = j - 1 \/ k = j - 2)
    BY <1>1, <1>2, <1>4
  <2>2. Whole(c, j)
    BY <1>5, <2>1, WholeIs
  <2>. QED
    BY <2>1, <2>2
<1>7. Clean(c)
  BY <1>2, <1>3, <1>6, CleanMore
<1>. QED
  BY <1>2, <1>3, <1>7

-----------------------------------------------------------------------------
(* A lossy text is clean.  What the text of the first j bytes ends with of  *)
(* a character that goes on:                                                *)
Lead == <<239>>
Leads == <<239, 191>>

Begun(b, j) == IF Starts(b, j) THEN Lead ELSE IF Starts(b, j - 1) THEN Leads ELSE <<>>

(* No two characters overlap.                                               *)
LEMMA Apart ==
  ASSUME NEW b \in Seq(Byte), NEW k, Starts(b, k)
  PROVE  ~Starts(b, k + 1) /\ ~Starts(b, k + 2) /\ ~Starts(b, k - 1) /\ ~Starts(b, k - 2)
<1>1. k \in Nat /\ k - 1 + 1 = k /\ k - 2 + 2 = k
  BY DEF Starts
<1>. QED
  BY <1>1 DEF Starts

LEMMA TwoIs ==
  ASSUME NEW d \in Byte, NEW e \in Byte
  PROVE  \E t \in Seq(Byte) : t = <<d, e>> /\ Len(t) = 2 /\ t[1] = d /\ t[2] = e
<1>1. <<d, e>> \in Seq(Byte) /\ Len(<<d, e>>) = 2 /\ <<d, e>>[1] = d /\ <<d, e>>[2] = e
  BY TwoBytes
<1>. QED
  BY <1>1

LEMMA BeginningsIs ==
  /\ Lead \in Seq(Byte) /\ Leads \in Seq(Byte)
  /\ <<191>> \in Seq(Byte) /\ <<189>> \in Seq(Byte)
  /\ Lead \o <<191>> = Leads /\ Leads \o <<189>> = Replacement
<1>1. PICK d \in Byte, e \in Byte, f \in Byte : d = 239 /\ e = 191 /\ f = 189
  BY ByteIs
<1>2. Lead \in Seq(Byte) /\ <<191>> \in Seq(Byte) /\ <<189>> \in Seq(Byte)
  BY <1>1, OneByte DEF Lead
<1>3. Lead \o <<191>> = Leads
  BY <1>1, Pair, ByteIs DEF Lead, Leads
<1>4. PICK x \in Seq(Byte) : x = Leads /\ Len(x) = 2 /\ x[1] = d /\ x[2] = e
  BY <1>1, TwoIs DEF Leads
<1>5. PICK y \in Seq(Byte) : y = <<189>> /\ Len(y) = 1 /\ y[1] = f
  BY <1>1, Single
<1>6. PICK z : z = x \o y /\ Joins(z, x, y)
  BY Joined
<1>7. z \in Seq(Byte) /\ Len(z) = 3 /\ z[1] = d /\ z[2] = e /\ z[3] = f
  <2>1. z[2 + 1] = y[1]
    BY <1>4, <1>5, <1>6 DEF Joins
  <2>. QED
    BY <1>4, <1>5, <1>6, <2>1 DEF Joins
<1>8. PICK r \in Seq(Byte) : r = Replacement /\ Len(r) = 3 /\ r[1] = d /\ r[2] = e /\ r[3] = f
  BY <1>1, ReplacementType
<1>9. z = r
  <2>1. \A i \in 1..3 : i = 1 \/ i = 2 \/ i = 3
    OBVIOUS
  <2>2. Len(z) = Len(r) /\ \A i \in 1..Len(z) : z[i] = r[i]
    BY <1>7, <1>8, <2>1
  <2>. QED
    BY <1>7, <2>2, SeqEqual
<1>. QED
  BY <1>2, <1>3, <1>4, <1>5, <1>6, <1>8, <1>9

LEMMA Grown ==
  ASSUME NEW s \in Seq(Byte)
  PROVE  (s \o Lead) \o <<191>> = s \o Leads /\ (s \o Leads) \o <<189>> = s \o Replacement
<1>1. PICK d \in Seq(Byte), e \in Seq(Byte) : d = <<191>> /\ e = <<189>>
  BY BeginningsIs
<1>2. Lead \in Seq(Byte) /\ Leads \in Seq(Byte) /\ Lead \o d = Leads /\ Leads \o e = Replacement
  BY <1>1, BeginningsIs
<1>3. (s \o Lead) \o d = s \o (Lead \o d)
  BY <1>2, Associative
<1>4. (s \o Leads) \o e = s \o (Leads \o e)
  BY <1>2, Associative
<1>. QED
  BY <1>1, <1>2, <1>3, <1>4

LEMMA LossyClean == ASSUME NEW b \in Seq(Byte) PROVE Clean(Lossy(b))
<1>. DEFINE Good(j) == j <= Len(b) => \E s : Clean(s) /\ Become(b, j) = s \o Begun(b, j)
            G == { j \in Nat : Good(j) }
<1>1. Len(b) \in Nat
  BY LenProperties
<1>2. Clean(<<>>) /\ <<>> \o <<>> = <<>>
  <2>1. <<>> \in Seq(Byte) /\ Len(<<>>) = 0
    BY EmptySeq
  <2>. QED
    BY <2>1, ConcatEmptySeq DEF Clean
<1>3. Good(0)
  <2>1. ~Starts(b, 0) /\ ~Starts(b, 0 - 1)
    BY DEF Starts
  <2>2. Become(b, 0) = <<>> /\ Begun(b, 0) = <<>>
    BY <2>1, BecomeIs DEF Begun
  <2>. QED
    BY <1>2, <2>2
<1>4. ASSUME NEW j \in Nat, Good(j) PROVE Good(j + 1)
  <2>. SUFFICES ASSUME j + 1 <= Len(b)
                PROVE  \E s : Clean(s) /\ Become(b, j + 1) = s \o Begun(b, j + 1)
    OBVIOUS
  <2>1. PICK i \in 1..Len(b) : i = j + 1 /\ i - 1 = j /\ i - 2 = j - 1
    BY <1>1
  <2>2. PICK s : Clean(s) /\ Become(b, j) = s \o Begun(b, j)
    <3>1. j <= Len(b)
      BY <1>1
    <3>. QED
      BY <1>4, <3>1
  <2>3. s \in Seq(Byte) /\ s \o <<>> = s
    BY <2>2, ConcatEmptySeq DEF Clean
  <2>4. Become(b, i) = (s \o Begun(b, j)) \o LossyAt(b, i)
    <3>1. j < Len(b)
      BY <1>1
    <3>. QED
      BY <2>1, <2>2, <3>1, BecomeIs
  <2>5. i \in Nat /\ b[i] \in Byte /\ 239 \in Byte /\ 191 \in Byte /\ 189 \in Byte
    <3>1. b[i] \in Byte
      BY ElementOfSeq
    <3>2. 239 \in Byte /\ 191 \in Byte /\ 189 \in Byte
      BY ByteIs
    <3>. QED
      BY <2>1, <3>1, <3>2
  <2>6. CASE Starts(b, i)
    <3>1. ~Starts(b, j) /\ ~Starts(b, j - 1)
      BY <2>1, <2>6, Apart
    <3>2. Begun(b, j) = <<>> /\ Begun(b, i) = Lead
      BY <2>6, <3>1 DEF Begun
    <3>3. b[i] = 239
      BY <2>6 DEF Starts
    <3>4. Whole(b, i)
      BY <2>5, <2>6, WholeIs
    <3>5. LossyAt(b, i) = Lead
      BY <3>3, <3>4, AtKept DEF Lead
    <3>. QED
      BY <2>1, <2>2, <2>3, <2>4, <3>2, <3>5
  <2>7. CASE Starts(b, j)
    <3>1. ~Starts(b, i)
      BY <2>1, <2>7, Apart
    <3>2. Begun(b, j) = Lead /\ Begun(b, i) = Leads
      BY <2>1, <2>7, <3>1 DEF Begun
    <3>3. b[i] = 191
      BY <2>1, <2>7 DEF Starts
    <3>4. Whole(b, i)
      BY <2>1, <2>5, <2>7, WholeIs
    <3>5. LossyAt(b, i) = <<191>>
      BY <3>3, <3>4, AtKept
    <3>6. (s \o Lead) \o <<191>> = s \o Leads
      BY <2>3, <2>5, Grown
    <3>. QED
      BY <2>1, <2>2, <2>4, <3>2, <3>5, <3>6
  <2>8. CASE Starts(b, j - 1)
    <3>1. ~Starts(b, i) /\ ~Starts(b, j)
      <4>1. j - 1 + 1 = j /\ j - 1 + 2 = i
        BY <2>1
      <4>. QED
        BY <2>8, <4>1, Apart
    <3>2. Begun(b, j) = Leads /\ Begun(b, i) = <<>>
      BY <2>1, <2>8, <3>1 DEF Begun
    <3>3. b[i] = 189
      <4>1. j - 1 + 2 = i
        BY <2>1
      <4>. QED
        BY <2>8, <4>1 DEF Starts
    <3>4. Whole(b, i)
      BY <2>1, <2>5, <2>8, WholeIs
    <3>5. LossyAt(b, i) = <<189>>
      BY <3>3, <3>4, AtKept
    <3>6. (s \o Leads) \o <<189>> = s \o Replacement
      BY <2>3, <2>5, Grown
    <3>7. PICK t : t = s \o Replacement /\ Clean(t)
      BY <2>2, CleanReplacement
    <3>8. t \o <<>> = t
      BY <3>7, ConcatEmptySeq DEF Clean
    <3>. QED
      BY <2>1, <2>4, <3>2, <3>5, <3>6, <3>7, <3>8
  <2>9. CASE ~Starts(b, i) /\ ~Starts(b, j) /\ ~Starts(b, j - 1)
    <3>1. ~Whole(b, i)
      BY <2>1, <2>5, <2>9, WholeIs
    <3>2. Begun(b, j) = <<>> /\ Begun(b, i) = <<>>
      BY <2>1, <2>9 DEF Begun
    <3>3. Become(b, i) = s \o LossyAt(b, i)
      BY <2>3, <2>4, <3>2
    <3>4. Clean(s \o LossyAt(b, i))
      <4>1. CASE b[i] < 128
        <5>1. LossyAt(b, i) = <<b[i]>>
          BY <4>1, AtKept
        <5>. QED
          BY <2>2, <2>5, <4>1, <5>1, CleanAscii
      <4>2. CASE ~ (b[i] < 128)
        <5>1. LossyAt(b, i) = <<>> \/ LossyAt(b, i) = Replacement
          BY <3>1, <4>2, AtOther
        <5>2. Clean(s \o Replacement) /\ Clean(s \o <<>>)
          BY <2>2, <2>3, CleanReplacement
        <5>. QED
          BY <5>1, <5>2, Zenon
      <4>. QED
        BY <4>1, <4>2
    <3>5. PICK t : t = s \o LossyAt(b, i) /\ Clean(t)
      BY <3>4
    <3>6. t \o <<>> = t
      BY <3>5, ConcatEmptySeq DEF Clean
    <3>. QED
      BY <2>1, <3>2, <3>3, <3>5, <3>6
  <2>. QED
    BY <2>6, <2>7, <2>8, <2>9
<1>5. Nat \subseteq G
  <2>. HIDE DEF Good
  <2>1. 0 \in G /\ \A j \in Nat : j \in G => j + 1 \in G
    BY <1>3, <1>4
  <2>. HIDE DEF G
  <2>. QED
    BY <2>1, Induct
<1>6. PICK n \in Nat : n = Len(b)
  BY <1>1
<1>7. PICK s : Clean(s) /\ Become(b, n) = s \o Begun(b, n)
  <2>1. Good(n)
    <3>. HIDE DEF Good
    <3>. QED
      BY <1>5
  <2>2. n <= Len(b)
    BY <1>1, <1>6
  <2>. QED
    BY <2>1, <2>2
<1>8. Begun(b, n) = <<>>
  <2>1. ~Starts(b, n) /\ ~Starts(b, n - 1)
    BY <1>6 DEF Starts
  <2>. QED
    BY <2>1 DEF Begun
<1>9. s \o <<>> = s
  BY <1>7, ConcatEmptySeq DEF Clean
<1>10. Lossy(b) = Become(b, n)
  BY <1>6, BecomeIs
<1>. QED
  BY <1>7, <1>8, <1>9, <1>10

(* What was decoded once is decoded again as it is.                         *)
LEMMA LossyAgain == ASSUME NEW b \in Seq(Byte) PROVE Lossy(Lossy(b)) = Lossy(b)
  BY LossyClean, CleanStays

-----------------------------------------------------------------------------
(* What stands between two parts of a sequence.                             *)
Begins(c, d) ==
  /\ c \in Seq(Byte) /\ Len(d) <= Len(c)
  /\ \A i \in Nat : 0 < i /\ i <= Len(d) => c[i] = d[i]

LEMMA BeginsIs ==
  ASSUME NEW s \in Seq(Byte), NEW t \in Seq(Byte), NEW c, Joins(c, s, t)
  PROVE  Begins(c, s) /\ \A d \in Seq(Byte) : Begins(s, d) => Begins(c, d)
<1>1. Len(s) \in Nat /\ Len(t) \in Nat
  BY LenProperties
<1>2. Begins(c, s)
  <2>1. c \in Seq(Byte) /\ Len(c) = Len(s) + Len(t)
    BY DEF Joins
  <2>2. \A i \in Nat : 0 < i /\ i <= Len(s) => c[i] = s[i]
    BY DEF Joins
  <2>3. Len(s) <= Len(c)
    BY <1>1, <2>1
  <2>. QED
    BY <2>1, <2>2, <2>3 DEF Begins
<1>3. ASSUME NEW d \in Seq(Byte), Begins(s, d) PROVE Begins(c, d)
  <2>1. Len(d) \in Nat /\ Len(c) \in Nat
    BY <1>2, LenProperties DEF Begins
  <2>2. Len(d) <= Len(s) /\ Len(s) <= Len(c)
    BY <1>2, <1>3 DEF Begins
  <2>3. \A i \in Nat : 0 < i /\ i <= Len(d) => c[i] = d[i]
    <3>. TAKE i \in Nat
    <3>. HAVE 0 < i /\ i <= Len(d)
    <3>1. i <= Len(s)
      BY <1>1, <2>1, <2>2
    <3>. QED
      BY <1>2, <1>3, <3>1 DEF Begins
  <2>4. Len(d) <= Len(c)
    BY <1>1, <2>1, <2>2
  <2>. QED
    BY <1>2, <2>3, <2>4 DEF Begins
<1>. QED
  BY <1>2, <1>3

LEMMA Appended ==
  ASSUME NEW s \in Seq(Byte), NEW t \in Seq(Byte)
  PROVE  \E c \in Seq(Byte) : /\ c = s \o t /\ Len(c) = Len(s) + Len(t)
                              /\ Joins(c, s, t) /\ Begins(c, s)
<1>1. PICK c : c = s \o t /\ Joins(c, s, t)
  BY Joined
<1>2. Begins(c, s)
  BY <1>1, BeginsIs
<1>3. c \in Seq(Byte) /\ Len(c) = Len(s) + Len(t)
  BY <1>1 DEF Joins
<1>. QED
  BY <1>1, <1>2, <1>3

LEMMA Between ==
  ASSUME NEW s \in Seq(Byte), NEW t \in Seq(Byte), NEW d, Joins(d, s, t),
         NEW c, Begins(c, d), Len(s) < Len(c)
  PROVE  SubSeq(c, Len(s) + 1, Len(s) + Len(t)) = t
<1>. DEFINE m == Len(s) + 1
            n == Len(s) + Len(t)
<1>1. Len(s) \in Nat /\ Len(t) \in Nat /\ c \in Seq(Byte) /\ Len(c) \in Nat
  BY LenProperties DEF Begins
<1>2. Len(d) = n /\ n <= Len(c)
  BY DEF Joins, Begins
<1>3. m \in 1..Len(c) /\ n \in 0..Len(c) /\ m <= n + 1
  BY <1>1, <1>2
<1>. DEFINE x == SubSeq(c, m, n)
<1>4. x \in Seq(Byte) /\ Len(x) = n - m + 1 /\ \A i \in 1..(n - m + 1) : x[i] = c[m + i - 1]
  BY <1>1, <1>3, Cut
<1>. HIDE DEF x
<1>5. Len(x) = Len(t)
  BY <1>1, <1>4
<1>6. \A i \in 1..Len(x) : x[i] = t[i]
  <2>. TAKE i \in 1..Len(x)
  <2>1. PICK k \in Nat : k = Len(s) + i /\ 0 < k /\ k <= Len(d) /\ k = m + i - 1
    <3>1. i \in Nat /\ 0 < i /\ i <= Len(t)
      BY <1>1, <1>5
    <3>2. Len(s) + i \in Nat /\ 0 < Len(s) + i /\ Len(s) + i <= Len(d) /\ Len(s) + i = m + i - 1
      BY <1>1, <1>2, <3>1
    <3>. QED
      BY <3>2
  <2>2. x[i] = c[k]
    BY <1>1, <1>4, <2>1
  <2>3. c[k] = d[k]
    BY <2>1 DEF Begins
  <2>4. d[Len(s) + i] = t[i]
    BY <1>1, <1>5 DEF Joins
  <2>. QED
    BY <2>1, <2>2, <2>3, <2>4
<1>7. x = t
  BY <1>4, <1>5, <1>6, SeqEqual
<1>. QED
  BY <1>7 DEF x

-----------------------------------------------------------------------------
(* What the server reads in a packet is what the client has put in it.      *)
LEMMA PacketIs ==
  ASSUME NEW u \in Seq(Byte), Len(u) < 256
  PROVE  Deserialize(Serialize(u)) = [username |-> u, body |-> Body, ip |-> ClientIp]
<1>1. PICK L \in Nat : L = Len(u) /\ L < 256
  BY LenProperties
<1>2. PICK e \in Byte : e = Len(u) % 256 /\ e = L
  <2>1. L \in Byte /\ Len(u) % 256 = L
    BY <1>1, ByteIs
  <2>. QED
    BY <2>1
<1>3. PICK f \in Seq(Byte) : f = <<e>> /\ Len(f) = 1 /\ f[1] = e
  BY Single
<1>4. PICK g \in Seq(Byte) : g = <<0, Len(ClientIp)>> /\ Len(g) = 2 /\ g[1] = 0 /\ g[2] = 7
  <2>1. 0 \in Byte /\ 7 \in Byte
    BY DEF Byte
  <2>2. PICK z \in Byte, l \in Byte : z = 0 /\ l = 7
    BY <2>1
  <2>3. PICK t \in Seq(Byte) : t = <<z, l>> /\ Len(t) = 2 /\ t[1] = z /\ t[2] = l
    BY TwoIs
  <2>. QED
    BY <2>2, <2>3, ClientIpType
<1>5. PICK a \in Seq(Byte) :
        /\ a = f \o u /\ Len(a) = Len(f) + Len(u)
        /\ Joins(a, f, u) /\ Begins(a, f)
  BY Appended
<1>6. PICK b \in Seq(Byte) :
        /\ b = a \o Body /\ Len(b) = Len(a) + Len(Body)
        /\ Joins(b, a, Body) /\ Begins(b, a)
  BY BodyType, Appended
<1>7. PICK c \in Seq(Byte) :
        /\ c = b \o g /\ Len(c) = Len(b) + Len(g)
        /\ Joins(c, b, g) /\ Begins(c, b)
  BY Appended
<1>8. PICK d \in Seq(Byte) :
        /\ d = c \o ClientIp /\ Len(d) = Len(c) + Len(ClientIp)
        /\ Joins(d, c, ClientIp) /\ Begins(d, c)
  BY ClientIpType, Appended
<1>9. Len(a) = L + 1 /\ Len(b) = L + 49 /\ Len(c) = L + 51 /\ Len(d) = L + 58
  BY <1>1, <1>3, <1>4, <1>5, <1>6, <1>7, <1>8, BodyType, ClientIpType
<1>10. Begins(d, b) /\ Begins(d, a)
  <2>1. Begins(c, a)
    BY <1>6, <1>7, BeginsIs
  <2>2. ClientIp \in Seq(Byte)
    BY ClientIpType
  <2>. QED
    BY <1>7, <1>8, <2>1, <2>2, BeginsIs
<1>11. d = Serialize(u)
  BY <1>2, <1>3, <1>4, <1>5, <1>6, <1>7, <1>8 DEF Serialize
<1>12. d[1] = L
  <2>1. a[1] = f[1]
    BY <1>3, <1>5 DEF Begins
  <2>2. d[1] = a[1]
    <3>1. 1 \in Nat /\ 0 < 1 /\ 1 <= Len(a)
      BY <1>9
    <3>. QED
      BY <1>10, <3>1 DEF Begins
  <2>. QED
    BY <1>2, <1>3, <2>1, <2>2
<1>13. d[L + 50] = 0 /\ d[L + 51] = 7
  <2>1. c[Len(b) + 1] = g[1] /\ c[Len(b) + 2] = g[2]
    BY <1>4, <1>7 DEF Joins
  <2>2. Len(b) + 1 = L + 50 /\ Len(b) + 2 = L + 51
    BY <1>9
  <2>3. d[L + 50] = c[L + 50] /\ d[L + 51] = c[L + 51]
    <3>1. L + 50 \in Nat /\ L + 51 \in Nat /\ 0 < L + 50 /\ 0 < L + 51
          /\ L + 50 <= Len(c) /\ L + 51 <= Len(c)
      BY <1>9
    <3>. QED
      BY <1>8, <3>1 DEF Begins
  <2>. QED
    BY <1>4, <2>1, <2>2, <2>3
<1>14. U16At(d, L + 50) = 7
  <2>1. L + 50 + 1 = L + 51
    OBVIOUS
  <2>. QED
    BY <1>13, <2>1 DEF U16At
<1>15. SubSeq(d, 2, L + 1) = u
  <2>1. Len(f) < Len(d) /\ Len(f) + 1 = 2 /\ Len(f) + Len(u) = L + 1
    BY <1>1, <1>3, <1>9
  <2>2. SubSeq(d, Len(f) + 1, Len(f) + Len(u)) = u
    BY <1>5, <1>10, <2>1, Between
  <2>. QED
    BY <2>1, <2>2
<1>16. SubSeq(d, L + 2, L + 49) = Body
  <2>1. Len(a) < Len(d) /\ Len(a) + 1 = L + 2 /\ Len(a) + Len(Body) = L + 49
    BY <1>9, BodyType
  <2>2. SubSeq(d, Len(a) + 1, Len(a) + Len(Body)) = Body
    BY <1>6, <1>10, <2>1, BodyType, Between
  <2>. QED
    BY <2>1, <2>2
<1>17. SubSeq(d, L + 52, L + 51 + 7) = ClientIp
  <2>1. Len(c) < Len(d) /\ Len(c) + 1 = L + 52 /\ Len(c) + Len(ClientIp) = L + 51 + 7
    BY <1>9, ClientIpType
  <2>2. Begins(d, d)
    BY <1>8, LenProperties DEF Begins
  <2>3. SubSeq(d, Len(c) + 1, Len(c) + Len(ClientIp)) = ClientIp
    BY <1>8, <2>1, <2>2, ClientIpType, Between
  <2>. QED
    BY <2>1, <2>3
<1>18. ~ (Len(d) < 51) /\ ~ (Len(d) < L + 51) /\ ~ (Len(d) < L + 51 + 7)
  BY <1>9
<1>19. Deserialize(d) = [username |-> u, body |-> Body, ip |-> ClientIp]
  <2>1. Deserialize(d) = [username |-> SubSeq(d, 2, L + 1), body |-> SubSeq(d, L + 2, L + 49),
                          ip |-> SubSeq(d, L + 52, L + 51 + 7)]
    BY <1>12, <1>14, <1>18, Zenon DEF Deserialize
  <2>. QED
    BY <1>15, <1>16, <1>17, <2>1, Zenon
<1>. QED
  BY <1>11, <1>19

-----------------------------------------------------------------------------
(* A hello with a name and a number in range is accepted.                   *)
LEMMA CountIs ==
  ASSUME NEW n \in Byte, n > 0, n <= MAX_SUBFLOWS
  PROVE  Subflows(Count(n)) = n
<1>1. CASE n = 1
  <2>1. Count(n) = <<>>
    BY <1>1 DEF Count
  <2>. QED
    BY <1>1, <2>1 DEF Subflows
<1>2. CASE n > 1
  <2>1. PICK c : c = Count(n) /\ c # <<>> /\ Len(c) = 1 /\ c[1] = n
    <3>1. Count(n) = <<n>>
      BY <1>2 DEF Count
    <3>. QED
      BY <3>1
  <2>2. n \in 1..MAX_SUBFLOWS
    BY <1>2, ByteIs DEF MAX_SUBFLOWS
  <2>. QED
    BY <2>1, <2>2 DEF Subflows
<1>. QED
  BY <1>1, <1>2, ByteIs

LEMMA Inside ==
  ASSUME NEW r \in Seq(Byte), NEW a \in Seq(Byte), NEW t \in Seq(Byte), Len(a) > 0
  PROVE  SubSeq((r \o a) \o t, Len(r) + 1, Len(r) + Len(a)) = a
<1>1. PICK h \in Seq(Byte) : h = r \o a /\ Len(h) = Len(r) + Len(a) /\ Joins(h, r, a)
  BY Appended
<1>2. PICK b : b = h \o t /\ Begins(b, h)
  BY Appended
<1>3. Len(r) < Len(b)
  <2>1. Len(h) <= Len(b) /\ b \in Seq(Byte)
    BY <1>2 DEF Begins
  <2>2. Len(r) \in Nat /\ Len(a) \in Nat /\ Len(b) \in Nat
    BY <2>1, LenProperties
  <2>. QED
    BY <1>1, <2>1, <2>2
<1>4. SubSeq(b, Len(r) + 1, Len(r) + Len(a)) = a
  BY <1>1, <1>2, <1>3, Between
<1>. QED
  BY <1>1, <1>2, <1>4

(* A hello is refused only for its user name or its number of subflows.     *)
LEMMA HelloAccepted ==
  ASSUME NEW u \in Seq(Byte), Len(u) < 256, NEW n \in Byte, n > 0, n <= MAX_SUBFLOWS
  PROVE  /\ DecodeHello(EncodeHello(u, n)) # NoHello
         /\ Verified(DecodeHello(EncodeHello(u, n)).auth, u)
<1>1. PICK h, b, p, r : Parts(h, b, p, u, n) /\ HelloHead(h, r, u)
  BY HelloBytes
<1>2. /\ b \in Seq(Byte) /\ p \in Nat /\ h \in Seq(Byte)
      /\ b = EncodeHello(u, n) /\ b = h \o Count(n)
      /\ Len(h) = Len(u) + 92
      /\ p = (Len(u) + 58) % 65536
      /\ U16At(b, 33) = p
  BY <1>1 DEF Parts
<1>3. r \in Seq(Byte) /\ Len(r) = 34 /\ h = r \o Serialize(u)
  BY <1>1 DEF HelloHead
<1>4. PICK a : a = Serialize(u) /\ a \in Seq(Byte) /\ Len(a) = Len(u) + 58
  BY Serialized
<1>5. p = Len(u) + 58 /\ Len(u) \in Nat
  <2>1. PICK k \in Nat : k = Len(u) + 58 /\ k < 65536
    BY LenProperties
  <2>. QED
    BY <1>2, <2>1, LowWord, LenProperties
<1>6. PICK t \in Seq(Byte) : t = Count(n) /\ Subflows(t) = n
  BY CountType, CountIs
<1>7. SubSeq(b, 35, 34 + p) = a
  <2>1. Len(r) + 1 = 35 /\ Len(r) + Len(a) = 34 + p /\ Len(a) > 0
    BY <1>3, <1>4, <1>5
  <2>2. SubSeq((r \o a) \o t, Len(r) + 1, Len(r) + Len(a)) = a
    BY <1>3, <1>4, <2>1, Inside
  <2>. QED
    BY <1>2, <1>3, <1>4, <1>6, <2>1, <2>2
<1>8. SubSeq(b, 34 + p + 1, Len(b)) = t
  <2>1. 34 + p + 1 = Len(h) + 1
    BY <1>2, <1>5
  <2>. QED
    BY <1>2, <1>6, <2>1, Rest
<1>9. ~ (Len(b) < 34 + p) /\ n # 0
  <2>1. Len(h \o t) = Len(h) + Len(t)
    <3>1. h \in Seq(Byte)
      BY <1>2
    <3>. QED
      BY <3>1, Front
  <2>2. Len(b) = Len(h) + Len(t) /\ Len(h) = 34 + p /\ Len(t) \in Nat
    BY <1>2, <1>5, <1>6, <2>1, LenProperties
  <2>. QED
    BY <1>2, <2>2, ByteIs
<1>10. Deserialize(a) = [username |-> u, body |-> Body, ip |-> ClientIp]
  BY <1>4, PacketIs
<1>11. Deserialize(a) # NoPacket
  <2>1. PICK q : q = Deserialize(a) /\ q.body = Body
    BY <1>10
  <2>2. Len(Body) # Len(NoPacket.body)
    BY BodyType DEF NoPacket
  <2>. QED
    BY <2>1, <2>2
<1>12. DecodeHello(b) = [auth |-> Deserialize(a), subflows |-> n]
  <2>. DEFINE e == 34 + U16At(b, 33)
              x == SubSeq(b, 35, e)
              rest == SubSeq(b, e + 1, Len(b))
  <2>1. DecodeHello(b) = IF Len(b) < e \/ Deserialize(x) = NoPacket \/ Subflows(rest) = 0
                         THEN NoHello
                         ELSE [auth |-> Deserialize(x), subflows |-> Subflows(rest)]
    BY DEF DecodeHello
  <2>2. e = 34 + p /\ x = a /\ rest = t
    <3>1. e = 34 + p
      BY <1>2
    <3>. HIDE DEF e
    <3>. QED
      BY <1>7, <1>8, <3>1
  <2>. HIDE DEF e, x, rest
  <2>3. ~ (Len(b) < e) /\ Deserialize(x) # NoPacket /\ Subflows(rest) # 0
    BY <1>6, <1>9, <1>11, <2>2, Zenon
  <2>. QED
    BY <1>6, <2>1, <2>2, <2>3, Zenon
<1>13. DecodeHello(b) # NoHello /\ DecodeHello(b).auth = Deserialize(a)
  <2>1. PICK q : q = DecodeHello(b) /\ q = [auth |-> Deserialize(a), subflows |-> n]
    BY <1>12
  <2>2. q.subflows = n /\ q.auth = Deserialize(a) /\ NoHello.subflows = 0
    BY <2>1 DEF NoHello
  <2>. QED
    BY <2>1, <2>2
<1>. QED
  BY <1>2, <1>10, <1>13 DEF Verified

-----------------------------------------------------------------------------
(* What an address is decoded to.                                           *)

(* The address d of a type, its length byte m if k is 1, a host of n bytes  *)
(* and a port.                                                              *)
Target(d, type, m, k, n, host, port) ==
  /\ d \in Seq(Byte) /\ d # <<>> /\ Len(d) = n + k + 3
  /\ d[1] = type /\ (k = 1 => d[2] = m)
  /\ SubSeq(d, k + 2, n + k + 1) = host
  /\ U16At(d, n + k + 2) = port

Layout(d, f, l, host, w) ==
  /\ d \in Seq(Byte) /\ d = f \o l \o host \o w
  /\ Len(d) = Len(host) + Len(l) + 3
  /\ d[1] = f[1] /\ (Len(l) = 1 => d[2] = l[1])
  /\ SubSeq(d, Len(l) + 2, Len(host) + Len(l) + 1) = host
  /\ d[Len(host) + Len(l) + 2] = w[1] /\ d[Len(host) + Len(l) + 3] = w[2]

LEMMA AddressParts ==
  ASSUME NEW host \in Seq(Byte), NEW f \in Seq(Byte), Len(f) = 1,
         NEW l \in Seq(Byte), NEW w \in Seq(Byte), Len(w) = 2
  PROVE  \E d : Layout(d, f, l, host, w)
<1>1. Len(l) \in Nat /\ Len(host) \in Nat
  BY LenProperties
<1>2. PICK b : b = f \o l /\ Joins(b, f, l)
  BY Joined
<1>3. b \in Seq(Byte) /\ Len(b) = Len(l) + 1 /\ b[1] = f[1] /\ (Len(l) = 1 => b[2] = l[1])
  <2>1. Len(l) = 1 => b[1 + 1] = l[1]
    BY <1>2 DEF Joins
  <2>. QED
    BY <1>1, <1>2, <2>1 DEF Joins
<1>4. PICK c : c = b \o host /\ Joins(c, b, host)
  BY <1>3, Joined
<1>5. /\ c \in Seq(Byte) /\ Len(c) = Len(host) + Len(l) + 1
      /\ c[1] = b[1] /\ (Len(l) = 1 => c[2] = b[2])
  BY <1>1, <1>3, <1>4 DEF Joins
<1>6. PICK d : d = c \o w /\ Joins(d, c, w)
  BY <1>5, Joined
<1>7. /\ d \in Seq(Byte) /\ Len(d) = Len(host) + Len(l) + 3
      /\ d[1] = c[1] /\ (Len(l) = 1 => d[2] = c[2])
  BY <1>1, <1>5, <1>6 DEF Joins
<1>8. d[Len(host) + Len(l) + 2] = w[1] /\ d[Len(host) + Len(l) + 3] = w[2]
  <2>1. d[Len(c) + 1] = w[1] /\ d[Len(c) + 2] = w[2]
    BY <1>6 DEF Joins
  <2>2. Len(c) + 1 = Len(host) + Len(l) + 2 /\ Len(c) + 2 = Len(host) + Len(l) + 3
    BY <1>1, <1>5
  <2>. QED
    BY <2>1, <2>2
<1>9. SubSeq(d, Len(l) + 2, Len(host) + Len(l) + 1) = host
  <2>1. Begins(d, c)
    BY <1>5, <1>6, BeginsIs
  <2>2. Len(b) < Len(d) /\ Len(b) + 1 = Len(l) + 2 /\ Len(b) + Len(host) = Len(host) + Len(l) + 1
    BY <1>1, <1>3, <1>7
  <2>3. SubSeq(d, Len(b) + 1, Len(b) + Len(host)) = host
    BY <1>3, <1>4, <2>1, <2>2, Between
  <2>. QED
    BY <2>2, <2>3
<1>10. Layout(d, f, l, host, w)
  BY <1>2, <1>3, <1>4, <1>5, <1>6, <1>7, <1>8, <1>9 DEF Layout
<1>. QED
  BY <1>10

LEMMA Addressed ==
  ASSUME NEW type \in Byte, NEW host \in Seq(Byte), NEW n \in Nat, n = Len(host),
         NEW m, NEW k, NEW l, NEW named, LengthBytes(l, k, m, named),
         NEW port \in Nat, port < 65536
  PROVE  Target(<<type>> \o l \o host \o U16(port), type, m, k, n, host, port)
<1>1. PICK f : f = <<type>> /\ f \in Seq(Byte) /\ Len(f) = 1 /\ f[1] = type
  BY Single
<1>2. PICK w : w = U16(port) /\ w \in Seq(Byte) /\ Len(w) = 2 /\ w[1] * 256 + w[2] = port
  BY Word DEF U16At
<1>3. l \in Seq(Byte) /\ k \in Nat /\ Len(l) = k /\ (k = 1 => l[1] = m)
  BY DEF LengthBytes
<1>4. PICK d : Layout(d, f, l, host, w)
  <2>1. f \in Seq(Byte) /\ Len(f) = 1 /\ w \in Seq(Byte) /\ Len(w) = 2 /\ l \in Seq(Byte)
    BY <1>1, <1>2, <1>3
  <2>. QED
    BY <2>1, AddressParts
<1>5. U16At(d, n + k + 2) = port
  <2>1. d[n + k + 2] = w[1] /\ d[n + k + 3] = w[2] /\ n + k + 2 + 1 = n + k + 3
    BY <1>3, <1>4 DEF Layout
  <2>. QED
    BY <1>2, <2>1 DEF U16At
<1>6. d # <<>>
  <2>1. Len(d) # 0
    BY <1>3, <1>4 DEF Layout
  <2>. QED
    BY <2>1
<1>7. Target(d, type, m, k, n, host, port)
  BY <1>1, <1>3, <1>4, <1>5, <1>6 DEF Layout, Target
<1>8. d = <<type>> \o l \o host \o U16(port)
  BY <1>1, <1>2, <1>4 DEF Layout
<1>. QED
  BY <1>7, <1>8

LEMMA Types == /\ Ipv4 \in Byte /\ Ipv6 \in Byte /\ Domain \in Byte
               /\ Ipv4 # 0 /\ Ipv6 # 0 /\ Domain # 0
               /\ Ipv4 # Domain /\ Ipv6 # Domain /\ Ipv4 # Ipv6
  BY DEF Ipv4, Domain, Ipv6, Byte

(* A decoded target is one.                                                 *)
LEMMA SomeTarget ==
  ASSUME NEW t, NEW type, NEW port, NEW host, type # 0,
         t = [type |-> type, port |-> port, host |-> host]
  PROVE  t # NoTarget
<1>1. t.type = type /\ NoTarget.type = 0
  BY DEF NoTarget
<1>. QED
  BY <1>1

LEMMA DecodeName ==
  ASSUME NEW bytes, bytes[1] = Domain, NEW at, at = PortIndex(bytes), at # 0, ~ (Len(bytes) <= at)
  PROVE  Decode(bytes) = [type |-> bytes[1], port |-> U16At(bytes, at),
                          host |-> Lossy(SubSeq(bytes, 3, at - 1))]
  BY DEF Decode

LEMMA DecodeNumber ==
  ASSUME NEW bytes, bytes[1] # Domain, NEW at, at = PortIndex(bytes), at # 0, ~ (Len(bytes) <= at)
  PROVE  Decode(bytes) = [type |-> bytes[1], port |-> U16At(bytes, at),
                          host |-> SubSeq(bytes, 2, at - 1)]
  BY DEF Decode

LEMMA NameDecoded ==
  ASSUME NEW host \in Seq(Byte), NEW n \in Nat, NEW m \in Byte, m <= n, NEW port,
         NEW d, Target(d, Domain, m, 1, n, host, port)
  PROVE  /\ Decode(d) # NoTarget
         /\ m = n => Decode(d) = [type |-> Domain, port |-> port, host |-> Lossy(host)]
<1>1. /\ d # <<>> /\ Len(d) = n + 4 /\ d[1] = Domain /\ d[2] = m
      /\ SubSeq(d, 3, n + 2) = host /\ U16At(d, n + 3) = port
  <2>1. n + 1 + 3 = n + 4 /\ 1 + 2 = 3 /\ n + 1 + 1 = n + 2 /\ n + 1 + 2 = n + 3
    OBVIOUS
  <2>. QED
    BY <2>1 DEF Target
<1>2. Len(d) > 1 /\ 3 + m # 0 /\ ~ (Len(d) <= 3 + m)
  BY <1>1, ByteIs
<1>3. PortIndex(d) = 3 + m
  BY <1>1, <1>2, Types, Zenon DEF PortIndex
<1>4. PICK at : at = 3 + m
  OBVIOUS
<1>5. Decode(d) = [type |-> d[1], port |-> U16At(d, at), host |-> Lossy(SubSeq(d, 3, at - 1))]
  <2>1. d[1] = Domain /\ at = PortIndex(d) /\ at # 0 /\ ~ (Len(d) <= at)
    BY <1>1, <1>2, <1>3, <1>4
  <2>. QED
    BY <2>1, DecodeName
<1>6. Decode(d) # NoTarget
  BY <1>1, <1>5, Types, SomeTarget
<1>7. ASSUME m = n PROVE at = n + 3 /\ at - 1 = n + 2
  BY <1>4, <1>7, ByteIs
<1>. QED
  BY <1>1, <1>5, <1>6, <1>7

LEMMA NumberDecoded ==
  ASSUME NEW type \in {Ipv4, Ipv6}, NEW host, NEW n \in Nat,
         type = Ipv4 => n = 4, type = Ipv6 => n = 16, NEW m, NEW port,
         NEW d, Target(d, type, m, 0, n, host, port)
  PROVE  /\ Decode(d) # NoTarget
         /\ Decode(d) = [type |-> type, port |-> port, host |-> host]
<1>1. /\ d # <<>> /\ Len(d) = n + 3 /\ d[1] = type
      /\ SubSeq(d, 2, n + 1) = host /\ U16At(d, n + 2) = port
  <2>1. n + 0 + 3 = n + 3 /\ 0 + 2 = 2 /\ n + 0 + 1 = n + 1 /\ n + 0 + 2 = n + 2
    OBVIOUS
  <2>. QED
    BY <2>1 DEF Target
<1>2. ~ (Len(d) <= n + 2) /\ n + 2 # 0 /\ n + 2 - 1 = n + 1 /\ type # Domain /\ type # 0
  BY <1>1, Types
<1>3. PortIndex(d) = n + 2
  <2>1. CASE type = Ipv4
    <3>1. PortIndex(d) = 6
      BY <1>1, <2>1, Types, Zenon DEF PortIndex
    <3>. QED
      BY <2>1, <3>1
  <2>2. CASE type = Ipv6
    <3>1. PortIndex(d) = 18
      BY <1>1, <2>2, Types, Zenon DEF PortIndex
    <3>. QED
      BY <2>2, <3>1
  <2>. QED
    BY <2>1, <2>2
<1>4. Decode(d) = [type |-> type, port |-> port, host |-> host]
  <2>1. PICK at : at = n + 2 /\ at - 1 = n + 1
    OBVIOUS
  <2>2. d[1] # Domain /\ at = PortIndex(d) /\ at # 0 /\ ~ (Len(d) <= at)
    BY <1>1, <1>2, <1>3, <2>1
  <2>3. Decode(d) = [type |-> d[1], port |-> U16At(d, at), host |-> SubSeq(d, 2, at - 1)]
    BY <2>2, DecodeNumber
  <2>4. U16At(d, at) = port /\ SubSeq(d, 2, at - 1) = host
    BY <1>1, <2>1
  <2>. QED
    BY <1>1, <2>3, <2>4
<1>. QED
  BY <1>2, <1>4, SomeTarget

(* An address whose length byte, if it has one, is m.                       *)
Bytes(type, m, host, port) ==
  <<type>> \o (IF type = Domain THEN <<m>> ELSE <<>>) \o host \o U16(port)

Name(type, host) == IF type = Domain THEN Lossy(host) ELSE host

LEMMA AskedBytes ==
  ASSUME NEW r PROVE Socks5Address(r) = Bytes(r.type, Len(r.host), r.host, r.port)
  BY Zenon DEF Socks5Address, Bytes

LEMMA EncodedBytes ==
  ASSUME NEW t PROVE Encode(t) = Bytes(t.type, Len(t.host) % 256, t.host, t.port)
  BY Zenon DEF Encode, Bytes

(* The parts of an address of a known type, whose host has n bytes.          *)
Plain(type, host, n, port) ==
  /\ type \in KnownTypes /\ host \in Seq(Byte) /\ n \in Nat /\ n = Len(host)
  /\ type = Ipv4 => n = 4
  /\ type = Ipv6 => n = 16
  /\ port \in Nat /\ port < 65536

(* A type, its length byte or none, the host and the port.                  *)
Laid(type, l, host, port) == <<type>> \o l \o host \o U16(port)

LEMMA LaidIs ==
  ASSUME NEW type \in KnownTypes, NEW host, NEW n, NEW port, Plain(type, host, n, port),
         NEW m, NEW k, NEW l, NEW named, LengthBytes(l, k, m, named)
  PROVE  Target(Laid(type, l, host, port), type, m, k, n, host, port)
<1>1. /\ type \in Byte /\ host \in Seq(Byte) /\ n \in Nat /\ n = Len(host)
      /\ port \in Nat /\ port < 65536
  BY Types DEF Plain, KnownTypes
<1>2. Target(<<type>> \o l \o host \o U16(port), type, m, k, n, host, port)
  BY <1>1, Addressed
<1>. QED
  BY <1>2, Zenon DEF Laid

LEMMA SameBytes ==
  ASSUME NEW type, NEW m, NEW host, NEW port,
         NEW l, l = (IF type = Domain THEN <<m>> ELSE <<>>)
  PROVE  Laid(type, l, host, port) = Bytes(type, m, host, port)
  BY Zenon DEF Bytes, Laid

LEMMA BytesIs ==
  ASSUME NEW type, NEW host, NEW n, NEW port, Plain(type, host, n, port),
         NEW m \in Byte, m <= n
  PROVE  /\ Decode(Bytes(type, m, host, port)) # NoTarget
         /\ type # Domain \/ m = n
              => Decode(Bytes(type, m, host, port))
                   = [type |-> type, port |-> port, host |-> Name(type, host)]
<1>. DEFINE d == Bytes(type, m, host, port)
<1>1. PICK named \in BOOLEAN : named <=> type = Domain
  OBVIOUS
<1>2. PICK l, k : LengthBytes(l, k, m, named)
  BY LengthIs
<1>3. Target(Laid(type, l, host, port), type, m, k, n, host, port)
  <2>1. type \in KnownTypes
    BY DEF Plain
  <2>. QED
    BY <1>2, <2>1, LaidIs
<1>4. l = (IF type = Domain THEN <<m>> ELSE <<>>)
  BY <1>1, <1>2, Zenon DEF LengthBytes
<1>5. k = IF type = Domain THEN 1 ELSE 0
  BY <1>1, <1>2, Zenon DEF LengthBytes
<1>6. Target(d, type, m, k, n, host, port)
  <2>1. Laid(type, l, host, port) = d
    BY <1>4, SameBytes
  <2>. QED
    BY <1>3, <2>1
<1>7. /\ type \in KnownTypes /\ host \in Seq(Byte) /\ n \in Nat
      /\ type = Ipv4 => n = 4
      /\ type = Ipv6 => n = 16
  BY DEF Plain
<1>. HIDE DEF d
<1>8. CASE type = Domain
  <2>1. Target(d, Domain, m, 1, n, host, port)
    BY <1>5, <1>6, <1>8, Zenon
  <2>2. /\ Decode(d) # NoTarget
        /\ m = n => Decode(d) = [type |-> Domain, port |-> port, host |-> Lossy(host)]
    BY <1>7, <2>1, NameDecoded
  <2>3. Name(type, host) = Lossy(host)
    BY <1>8, Zenon DEF Name
  <2>. QED
    BY <1>8, <2>2, <2>3, Zenon DEF d
<1>9. CASE type # Domain
  <2>1. Target(d, type, m, 0, n, host, port)
    BY <1>5, <1>6, <1>9, Zenon
  <2>2. type \in {Ipv4, Ipv6}
    BY <1>7, <1>9 DEF KnownTypes
  <2>3. /\ Decode(d) # NoTarget
        /\ Decode(d) = [type |-> type, port |-> port, host |-> host]
    BY <1>7, <2>1, <2>2, NumberDecoded
  <2>4. Name(type, host) = host
    BY <1>9, Zenon DEF Name
  <2>. QED
    BY <2>3, <2>4, Zenon DEF d
<1>. QED
  BY <1>8, <1>9

(* What the application asks for, as it is dialled.                         *)
Host(r) == Name(r.type, r.host)
Wanted(r) == [type |-> r.type, port |-> r.port, host |-> Host(r)]

LEMMA HostIs ==
  ASSUME NEW r \in Requests, r.type \in KnownTypes
  PROVE  /\ Host(r) \in Seq(Byte)
         /\ r.type = Ipv4 => Len(Host(r)) = 4
         /\ r.type = Ipv6 => Len(Host(r)) = 16
         /\ Name(r.type, Host(r)) = Host(r)
<1>1. /\ r.host \in Seq(Byte)
      /\ r.type = Ipv4 => Len(r.host) = 4
      /\ r.type = Ipv6 => Len(r.host) = 16
  BY RequestsAssumption
<1>2. CASE r.type = Domain
  <2>1. Host(r) = Lossy(r.host)
    BY <1>2, Zenon DEF Host, Name
  <2>2. Lossy(r.host) \in Seq(Byte) /\ Lossy(Lossy(r.host)) = Lossy(r.host)
    BY <1>1, BecomeIs, LossyAgain
  <2>. QED
    BY <1>2, <2>1, <2>2, Types DEF Name
<1>3. CASE r.type # Domain
  <2>1. Host(r) = r.host
    BY <1>3, Zenon DEF Host, Name
  <2>. QED
    BY <1>1, <1>3, <2>1 DEF Name
<1>. QED
  BY <1>2, <1>3

(* The client reads what the application asks for.                          *)
LEMMA AskedIs ==
  ASSUME NEW r \in Requests, r.type \in KnownTypes
  PROVE  Decode(Socks5Address(r)) = Wanted(r)
<1>1. Plain(r.type, r.host, Len(r.host), r.port) /\ Len(r.host) \in Byte
  BY RequestsAssumption, ByteIs DEF Plain
<1>2. Len(r.host) <= Len(r.host)
  BY <1>1, ByteIs
<1>3. Decode(Bytes(r.type, Len(r.host), r.host, r.port))
        = [type |-> r.type, port |-> r.port, host |-> Name(r.type, r.host)]
  BY <1>1, <1>2, BytesIs
<1>. QED
  BY <1>3, AskedBytes, Zenon DEF Wanted, Host

(* The server reads what the client encodes.                                *)
LEMMA EncodedIs ==
  ASSUME NEW r \in Requests, r.type \in KnownTypes
  PROVE  /\ Decode(Encode(Wanted(r))) # NoTarget
         /\ Len(Host(r)) < 256 => Decode(Encode(Wanted(r))) = Wanted(r)
<1>1. /\ Plain(r.type, Host(r), Len(Host(r)), r.port)
      /\ Name(r.type, Host(r)) = Host(r) /\ Len(Host(r)) \in Nat
  <2>1. /\ Host(r) \in Seq(Byte)
        /\ r.type = Ipv4 => Len(Host(r)) = 4
        /\ r.type = Ipv6 => Len(Host(r)) = 16
        /\ Name(r.type, Host(r)) = Host(r)
    BY HostIs
  <2>2. r.port \in Nat /\ r.port < 65536
    BY RequestsAssumption
  <2>3. Len(Host(r)) \in Nat
    BY <2>1, LenProperties
  <2>. QED
    BY <2>1, <2>2, <2>3 DEF Plain
<1>2. PICK m \in Byte : /\ m = Len(Host(r)) % 256 /\ m <= Len(Host(r))
                        /\ Len(Host(r)) < 256 => m = Len(Host(r))
  <2>1. PICK n \in Nat : n = Len(Host(r))
    BY <1>1
  <2>2. n % 256 \in Byte
    BY LowByte
  <2>3. n % 256 <= n /\ (n < 256 => n % 256 = n)
    OBVIOUS
  <2>. QED
    BY <2>1, <2>2, <2>3
<1>3. /\ Decode(Bytes(r.type, m, Host(r), r.port)) # NoTarget
      /\ r.type # Domain \/ m = Len(Host(r))
           => Decode(Bytes(r.type, m, Host(r), r.port))
                = [type |-> r.type, port |-> r.port, host |-> Name(r.type, Host(r))]
  BY <1>1, <1>2, BytesIs
<1>4. Wanted(r) = [type |-> r.type, port |-> r.port, host |-> Name(r.type, Host(r))]
  BY <1>1, Zenon DEF Wanted
<1>5. Wanted(r).type = r.type /\ Wanted(r).port = r.port /\ Wanted(r).host = Host(r)
  BY DEF Wanted
<1>6. Encode(Wanted(r)) = Bytes(r.type, m, Host(r), r.port)
  <2>1. Encode(Wanted(r)) = Bytes(Wanted(r).type, Len(Wanted(r).host) % 256,
                                  Wanted(r).host, Wanted(r).port)
    BY EncodedBytes
  <2>. QED
    BY <1>2, <1>5, <2>1
<1>. QED
  BY <1>2, <1>3, <1>4, <1>5, <1>6, Zenon

LEMMA WantedIs ==
  ASSUME NEW r \in Requests, r.type \in KnownTypes
  PROVE  Wanted(r) # NoTarget
<1>1. Decode(Encode(Wanted(r))) # NoTarget
  BY EncodedIs
<1>2. r.type # 0
  BY Types DEF KnownTypes
<1>. QED
  BY <1>2, SomeTarget DEF Wanted

(* A request that is decoded is decoded to what was asked for.             *)
LEMMA RequestDecoded ==
  ASSUME NEW r \in Requests, r.type \in KnownTypes,
         DecodeRequest(Wire(r)) # NoTarget
  PROVE  DecodeRequest(Wire(r)) = Wanted(r)
<1>1. PICK v \in Seq(Byte) : v = <<r.version, r.command, 0>> /\ Len(v) = 3
  <2>1. r.version \in Byte /\ r.command \in Byte /\ 0 \in Byte
    BY RequestsAssumption DEF Byte
  <2>2. PICK x \in Byte, y \in Byte : x = r.version /\ y = r.command
    BY <2>1
  <2>3. <<x, y, 0>> \in Seq(Byte) /\ Len(<<x, y, 0>>) = 3
    BY <2>1, ThreeBytes
  <2>. QED
    BY <2>2, <2>3
<1>2. PICK a \in Seq(Byte) : a = Socks5Address(r)
  <2>1. PICK c, n : Request(c, n, r)
    BY WireIs
  <2>. QED
    BY <2>1 DEF Request
<1>3. PICK w : w = Wire(r) /\ w = v \o a
  BY <1>1, <1>2, Zenon DEF Wire
<1>4. SubSeq(w, 4, Len(w)) = a
  <2>1. PICK k : k = 4 /\ k = Len(v) + 1
    BY <1>1
  <2>2. SubSeq(w, k, Len(w)) = a
    BY <1>3, <2>1, Rest
  <2>. QED
    BY <2>1, <2>2
<1>5. DecodeRequest(w) = Decode(SubSeq(w, 4, Len(w)))
  BY <1>3 DEF DecodeRequest
<1>. QED
  BY <1>2, <1>3, <1>4, <1>5, AskedIs

LEMMA FrontCut ==
  ASSUME NEW s \in Seq(Byte), NEW t \in Seq(Byte), NEW c, c = s \o t, NEW k, k = Len(s),
         0 < k
  PROVE  SubSeq(c, 1, k) = s
<1>1. PICK d : d = c /\ Joins(d, s, t)
  BY Joined
<1>2. Len(s) \in Nat /\ Len(t) \in Nat /\ c \in Seq(Byte) /\ Len(c) = Len(s) + Len(t)
  BY <1>1, LenProperties DEF Joins
<1>3. 1 \in 1..Len(c) /\ k \in 0..Len(c) /\ 1 <= k + 1 /\ k - 1 + 1 = Len(s)
  BY <1>2
<1>4. /\ SubSeq(c, 1, k) \in Seq(Byte) /\ Len(SubSeq(c, 1, k)) = Len(s)
      /\ \A i \in 1..Len(s) : SubSeq(c, 1, k)[i] = c[1 + i - 1]
  <2>1. /\ SubSeq(c, 1, k) \in Seq(Byte) /\ Len(SubSeq(c, 1, k)) = k - 1 + 1
        /\ \A i \in 1..(k - 1 + 1) : SubSeq(c, 1, k)[i] = c[1 + i - 1]
    BY <1>2, <1>3, Cut
  <2>. QED
    BY <1>3, <2>1
<1>5. ASSUME NEW i \in 1..Len(s) PROVE SubSeq(c, 1, k)[i] = s[i]
  <2>1. i \in Nat /\ 0 < i /\ i <= Len(s) /\ 1 + i - 1 = i
    BY <1>2
  <2>. QED
    BY <1>1, <1>4, <2>1 DEF Joins
<1>. QED
  BY <1>4, <1>5, SeqEqual

(* The invariant behind DialsWhatWasAsked and RefusedForCause: the target   *)
(* of the client and the address it sends are those of the request, and so  *)
(* is the server's target, if the length of its host fits into a byte.      *)
Asked == app \in {"asked", "sent"} /\ asked \in Requests /\ asked.type \in KnownTypes

TargetInv ==
  /\ pc["client"] \in {"asking", "waiting", "relaying"} => Asked /\ target = Wanted(asked)
  /\ hello # <<>> => Asked /\ address = Encode(Wanted(asked))
  /\ pc["server"] \in {"dialling", "relaying"}
       => (Len(Host(asked)) < 256 => plan.target = Wanted(asked))
  /\ RefusedForCause

LEMMA TargetInit == Init => TargetInv
  BY DEF Init, TargetInv, RefusedForCause

LEMMA AppTargets ==
  TargetInv /\ AnswerInv /\ (AppGreets \/ AppAsks \/ AppSends) => TargetInv'
<1>. SUFFICES ASSUME TargetInv, AnswerInv, AppGreets \/ AppAsks \/ AppSends PROVE TargetInv'
  OBVIOUS
<1>1. UNCHANGED <<pc, target, hello, address, response, plan, username, requested>>
  BY DEF AppGreets, AppAsks, AppSends, configVars, serverVars, wireVars
<1>2. RefusedForCause'
  BY <1>1 DEF TargetInv, RefusedForCause
<1>3. CASE Asked
  <2>1. asked' = asked /\ app' \in {"asked", "sent"}
    BY <1>3 DEF Asked, AppGreets, AppAsks, AppSends
  <2>2. Asked' /\ Host(asked)' = Host(asked) /\ Wanted(asked)' = Wanted(asked)
    BY <1>3, <2>1 DEF Asked, Host, Wanted
  <2>3. Encode(Wanted(asked))' = Encode(Wanted(asked))
    BY <2>1, Zenon DEF Wanted, Host
  <2>. QED
    BY <1>1, <1>2, <2>2, <2>3 DEF TargetInv
<1>4. CASE ~Asked
  <2>1. pc["client"] \notin {"asking", "waiting", "relaying"} /\ hello = <<>>
    BY <1>4 DEF TargetInv
  <2>2. pc["server"] = "start"
    BY <2>1 DEF AnswerInv, StepOK
  <2>. QED
    BY <1>1, <1>2, <2>1, <2>2 DEF TargetInv
<1>. QED
  BY <1>3, <1>4

(* A step that leaves the request and the payloads alone.                   *)
LEMMA TargetKept ==
  ASSUME TargetInv, UNCHANGED <<app, asked, target, hello, address, plan, username, requested>>,
         pc'["client"] \in {"asking", "waiting", "relaying"}
           => pc["client"] \in {"asking", "waiting", "relaying"},
         pc'["server"] \in {"dialling", "relaying"} => pc["server"] \in {"dialling", "relaying"},
         RefusedForCause'
  PROVE  TargetInv'
<1>1. Asked' = Asked /\ Host(asked)' = Host(asked) /\ Wanted(asked)' = Wanted(asked)
  BY DEF Asked, Host, Wanted
<1>2. Encode(Wanted(asked))' = Encode(Wanted(asked))
  BY Zenon DEF Wanted, Host
<1>. QED
  BY <1>1, <1>2 DEF TargetInv

LEMMA ClientTargets ==
  TargetInv /\ AnswerInv /\ (Greet \/ ReadResponse) => TargetInv'
<1>. SUFFICES ASSUME TargetInv, AnswerInv, Greet \/ ReadResponse PROVE TargetInv'
  OBVIOUS
<1>1. UNCHANGED <<app, asked, target, hello, address, response, plan, username, requested>>
  BY DEF Greet, ReadResponse, configVars, serverVars, wireVars
<1>2. PICK where \in {"greeted", "failed", "relaying"} :
        /\ pc' = [pc EXCEPT !["client"] = where]
        /\ where = "relaying" => pc["client"] = "waiting"
  BY DEF Greet, ReadResponse, Goto
<1>3. pc'["client"] = where /\ pc'["server"] = pc["server"]
  BY <1>2 DEF AnswerInv, StepOK
<1>4. RefusedForCause'
  BY <1>1, <1>3 DEF TargetInv, RefusedForCause
<1>. QED
  BY <1>1, <1>2, <1>3, <1>4, TargetKept

LEMMA RequestTargets == TargetInv /\ AnswerInv /\ FrameInv /\ ReadRequest => TargetInv'
<1>. SUFFICES ASSUME TargetInv, AnswerInv, FrameInv, ReadRequest PROVE TargetInv'
  OBVIOUS
<1>1. /\ hello = <<>> /\ pc["server"] = "start"
      /\ UNCHANGED <<app, asked, hello, address, response, plan, username, requested>>
  BY DEF AnswerInv, StepOK, ReadRequest, configVars, serverVars, wireVars
<1>2. PICK t : /\ t = DecodeRequest(SubSeq(stream, 1, RequestSize)) /\ target' = t
               /\ pc' = [pc EXCEPT !["client"] = IF t = NoTarget THEN "failed" ELSE "asking"]
  BY DEF ReadRequest, Goto
<1>3. /\ pc'["client"] = IF t = NoTarget THEN "failed" ELSE "asking"
      /\ pc'["server"] = "start"
  BY <1>1, <1>2 DEF AnswerInv, StepOK
<1>4. RefusedForCause'
  BY <1>3 DEF RefusedForCause
<1>5. CASE t = NoTarget
  BY <1>1, <1>3, <1>4, <1>5 DEF TargetInv
<1>6. CASE t # NoTarget
  <2>1. /\ app \in {"asked", "sent"} /\ asked \in Requests /\ asked.type \in KnownTypes
        /\ RequestSize = Len(Wire(asked))
    BY <1>2, <1>6, RequestRead
  <2>2. PICK e \in Seq(Byte) : stream = Wire(asked) \o e
    BY <1>2, <1>6, RequestRead
  <2>3. Wire(asked) \in Seq(Byte) /\ 0 < Len(Wire(asked))
    <3>1. PICK a, n : Request(a, n, asked)
      BY <2>1, WireIs
    <3>2. a \in Seq(Byte) /\ a = Wire(asked) /\ Len(a) > 5
      BY <3>1 DEF Request
    <3>. QED
      BY <3>2, LenProperties
  <2>4. SubSeq(stream, 1, RequestSize) = Wire(asked)
    BY <2>1, <2>2, <2>3, FrontCut
  <2>5. t = Wanted(asked)
    BY <1>2, <1>6, <2>1, <2>4, RequestDecoded
  <2>6. Asked' /\ Wanted(asked)' = Wanted(asked)
    BY <1>1, <2>1 DEF Asked, Wanted, Host
  <2>. QED
    BY <1>1, <1>2, <1>3, <1>4, <2>5, <2>6 DEF TargetInv
<1>. QED
  BY <1>5, <1>6

LEMMA EstablishTargets == TargetInv /\ AnswerInv /\ Establish => TargetInv'
<1>. SUFFICES ASSUME TargetInv, AnswerInv, Establish PROVE TargetInv'
  OBVIOUS
<1>1. /\ hello = <<>> /\ pc["server"] = "start" /\ pc["client"] = "asking"
      /\ pc' = [pc EXCEPT !["client"] = "waiting"]
      /\ address' = Encode(target)
      /\ UNCHANGED <<app, asked, target>>
  BY DEF AnswerInv, StepOK, Establish, Goto, clientVars
<1>2. pc'["client"] = "waiting" /\ pc'["server"] = "start"
  BY <1>1 DEF AnswerInv, StepOK
<1>3. Asked /\ target = Wanted(asked)
  BY <1>1 DEF TargetInv
<1>4. Asked' /\ Wanted(asked)' = Wanted(asked)
  BY <1>1, <1>3 DEF Asked, Wanted, Host
<1>5. address' = Encode(Wanted(asked)')
  BY <1>1, <1>3, <1>4, Zenon
<1>6. RefusedForCause'
  BY <1>2 DEF RefusedForCause
<1>. QED
  BY <1>1, <1>2, <1>3, <1>4, <1>5, <1>6 DEF TargetInv

LEMMA HelloTargets == TargetInv /\ AnswerInv /\ ReadHello => TargetInv'
<1>. SUFFICES ASSUME TargetInv, AnswerInv, ReadHello PROVE TargetInv'
  OBVIOUS
<1>1. /\ username \in Usernames /\ requested \in Counts
      /\ hello = EncodeHello(username, requested)
      /\ UNCHANGED <<app, asked, target, hello, address, response, username, requested>>
  BY DEF AnswerInv, StepOK, ReadHello, clientVars, wireVars
<1>2. PICK where \in {"hello", "closed"} : pc' = [pc EXCEPT !["server"] = where]
  BY DEF ReadHello, Goto
<1>3. pc'["server"] = where /\ pc'["client"] = pc["client"]
  BY <1>2 DEF AnswerInv, StepOK
<1>4. RefusedForCause'
  <2>1. CASE where = "hello"
    BY <1>3, <2>1 DEF RefusedForCause
  <2>2. CASE where = "closed"
    <3>1. ~ (DecodeHello(hello) # NoHello /\ Verified(DecodeHello(hello).auth, username))
      <4>1. pc' # [pc EXCEPT !["server"] = "hello"]
        BY <1>2, <1>3, <2>2 DEF AnswerInv, StepOK
      <4>. QED
        BY <4>1 DEF ReadHello, Goto
    <3>2. username \in Seq(Byte) /\ requested \in Byte /\ requested > 0
      BY <1>1, ConfigsAssumption, ByteIs
    <3>3. ~ (Len(username) < 256 /\ requested <= MAX_SUBFLOWS)
      BY <1>1, <3>1, <3>2, HelloAccepted
    <3>4. Len(username) > 255 \/ requested > MAX_SUBFLOWS
      BY <3>2, <3>3, ByteIs, LenProperties DEF MAX_SUBFLOWS
    <3>. QED
      BY <1>1, <3>4 DEF RefusedForCause
  <2>. QED
    BY <2>1, <2>2
<1>5. Asked' = Asked /\ Host(asked)' = Host(asked) /\ Wanted(asked)' = Wanted(asked)
  BY <1>1 DEF Asked, Host, Wanted
<1>6. Encode(Wanted(asked))' = Encode(Wanted(asked))
  BY <1>1, Zenon DEF Wanted, Host
<1>. QED
  BY <1>1, <1>3, <1>4, <1>5, <1>6 DEF TargetInv

LEMMA AddressTargets == TargetInv /\ AnswerInv /\ ReadAddress => TargetInv'
<1>. SUFFICES ASSUME TargetInv, AnswerInv, ReadAddress PROVE TargetInv'
  OBVIOUS
<1>1. /\ hello # <<>>
      /\ UNCHANGED <<app, asked, target, hello, address, response, username, requested>>
  BY DEF AnswerInv, StepOK, ReadAddress, clientVars, configVars, wireVars
<1>2. Asked /\ address = Encode(Wanted(asked))
  BY <1>1 DEF TargetInv
<1>3. PICK t : /\ t = Decode(address) /\ plan' = [plan EXCEPT !.target = t]
               /\ pc' = [pc EXCEPT !["server"] = IF t = NoTarget THEN "closed" ELSE "dialling"]
  BY DEF ReadAddress, Goto
<1>4. t # NoTarget /\ (Len(Host(asked)) < 256 => t = Wanted(asked))
  BY <1>2, <1>3, EncodedIs DEF Asked
<1>5. plan'.target = t
  BY <1>3 DEF AnswerInv, PlanOK
<1>6. pc'["server"] = "dialling" /\ pc'["client"] = pc["client"]
  BY <1>3, <1>4 DEF AnswerInv, StepOK
<1>7. RefusedForCause'
  BY <1>6 DEF RefusedForCause
<1>8. Asked' = Asked /\ Host(asked)' = Host(asked) /\ Wanted(asked)' = Wanted(asked)
  BY <1>1 DEF Asked, Host, Wanted
<1>9. Encode(Wanted(asked))' = Encode(Wanted(asked))
  BY <1>1, Zenon DEF Wanted, Host
<1>. QED
  BY <1>1, <1>4, <1>5, <1>6, <1>7, <1>8, <1>9 DEF TargetInv

LEMMA DialTargets == TargetInv /\ AnswerInv /\ Dial => TargetInv'
<1>. SUFFICES ASSUME TargetInv, AnswerInv, Dial PROVE TargetInv'
  OBVIOUS
<1>1. /\ pc["server"] = "dialling"
      /\ UNCHANGED <<app, asked, target, hello, address, plan, username, requested>>
  BY DEF Dial, clientVars, configVars
<1>2. PICK ok \in BOOLEAN :
        /\ response' = EncodeResponse(ok, plan.subflows)
        /\ pc' = [pc EXCEPT !["server"] = IF ok THEN "relaying" ELSE "closed"]
  BY DEF Dial, Goto
<1>3. response' # <<>>
  <2>1. plan.subflows \in 1..MAX_SUBFLOWS
    BY <1>1 DEF AnswerInv, PlanOK
  <2>. QED
    BY <1>2, <2>1, ResponseIs
<1>4. pc'["client"] = pc["client"]
  BY <1>2 DEF AnswerInv, StepOK
<1>5. RefusedForCause'
  BY <1>3 DEF RefusedForCause
<1>. QED
  BY <1>1, <1>4, <1>5, TargetKept

LEMMA TargetNext == TargetInv /\ AnswerInv /\ FrameInv /\ [Next]_vars => TargetInv'
<1>. SUFFICES ASSUME TargetInv, AnswerInv, FrameInv, [Next]_vars PROVE TargetInv'
  OBVIOUS
<1>1. CASE AppGreets \/ AppAsks \/ AppSends
  BY <1>1, AppTargets
<1>2. CASE Greet \/ ReadResponse
  BY <1>2, ClientTargets
<1>3. CASE ReadRequest
  BY <1>3, RequestTargets
<1>4. CASE Establish
  BY <1>4, EstablishTargets
<1>5. CASE ReadHello
  BY <1>5, HelloTargets
<1>6. CASE ReadAddress
  BY <1>6, AddressTargets
<1>7. CASE Dial
  BY <1>7, DialTargets
<1>8. CASE UNCHANGED vars
  <2>1. /\ UNCHANGED <<app, asked, target, hello, address, plan, username, requested>>
        /\ pc' = pc /\ response' = response
    BY <1>8 DEF vars, clientVars, configVars, serverVars, wireVars
  <2>2. RefusedForCause'
    BY <2>1 DEF TargetInv, RefusedForCause
  <2>. QED
    BY <2>1, <2>2, TargetKept
<1>. QED
  BY <1>1, <1>2, <1>3, <1>4, <1>5, <1>6, <1>7, <1>8 DEF Next

LEMMA TargetsHold == Spec => [](TargetInv /\ AnswerInv)
<1>1. Init => FrameInv
  BY DEF Init, FrameInv, RequestFramed
<1>2. AnswerInv => StepOK
  BY DEF AnswerInv
<1>. QED
  BY <1>1, <1>2, AnswerInit, AnswerNext, FrameNext, TargetInit, TargetNext, PTL DEF Spec

(* The server dials the type, host and port the application has asked for,  *)
(* for every request an application can write, as long as the host, with    *)
(* the bytes that are no UTF-8 replaced, fits into its length byte.         *)
THEOREM DialedAsAsked == Spec => []DialsWhatWasAsked
<1>1. TargetInv /\ AnswerInv => DialsWhatWasAsked
  <2>. SUFFICES ASSUME TargetInv, AnswerInv, pc["server"] \in {"dialling", "relaying"}
                PROVE  DialsWhatWasAsked
    BY DEF DialsWhatWasAsked
  <2>1. Len(Host(asked)) < 256 => plan.target = Wanted(asked)
    BY DEF TargetInv
  <2>2. Wanted(asked) = [type |-> asked.type, host |-> Host(asked), port |-> asked.port]
    BY DEF Wanted
  <2>3. Host(asked) = IF asked.type = Domain THEN Lossy(asked.host) ELSE asked.host
    BY Zenon DEF Host, Name
  <2>. QED
    BY <2>1, <2>2, <2>3, Zenon DEF DialsWhatWasAsked
<1>. QED
  BY <1>1, TargetsHold, PTL

(* A session is refused only for a user name or a number of subflows that   *)
(* the hello cannot hold or the server does not take.                       *)
THEOREM RefusalsHaveCause == Spec => []RefusedForCause
<1>1. TargetInv => RefusedForCause
  BY DEF TargetInv
<1>. QED
  BY <1>1, TargetsHold, PTL
=============================================================================
