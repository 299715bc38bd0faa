-------------------------- MODULE PartitionProofs --------------------------
(***************************************************************************)
(* Striping partitions the stream (EachByteOnce), for every number of      *)
(* subflows and every size.  The lanes are written so that a frame that    *)
(* moves from a channel into a writer's hands and on to the connection     *)
(* stays where it is; what is left are frames that are made, handed over,  *)
(* received and lost, each a fact about functions of sequences.            *)
(***************************************************************************)
EXTENDS StripingProofs

Places == 0..NSub

(* Byte b is in frame j of lane i of L.                                     *)
Holds(L, i, j, b) == j \in 1..Len(L[i]) /\ b \in Bytes(L[i][j])

(* No byte is in two frames of L, or in one and in G.                       *)
Apart(L, G) ==
  /\ \A i, h \in Places : \A j, l, b \in Nat :
       Holds(L, i, j, b) /\ Holds(L, h, l, b) => i = h /\ j = l
  /\ \A i \in Places : \A j, b \in Nat : Holds(L, i, j, b) => b \notin G

(* Every byte below o is in G or in a frame of L.                           *)
Complete(L, G, o) ==
  \A b \in 0..(o - 1) : b \in G \/ \E i \in Places : \E j \in Nat : Holds(L, i, j, b)

LEMMA BytesFacts ==
  /\ \A f \in Frame : Bytes(f) \subseteq Nat
  /\ \A o \in Nat : Bytes(Fin(o)) = {}
  /\ \A o, m \in Nat : Bytes(Data(o, m)) = o..(o + m - 1)
  /\ \A o \in Nat : \A f \in FrameUpTo(o) : \A b \in Bytes(f) : b \in 0..(o - 1)
  BY DEF Bytes, Frame, Fin, Data, FrameUpTo

LEMMA ConcatFacts ==
  ASSUME NEW S, NEW s \in Seq(S), NEW t \in Seq(S)
  PROVE  /\ Len(s \o t) = Len(s) + Len(t)
         /\ \A j \in 1..Len(s) : (s \o t)[j] = s[j]
         /\ \A j \in 1..Len(t) : (s \o t)[Len(s) + j] = t[j]
         /\ \A j \in (Len(s) + 1)..(Len(s) + Len(t)) : (s \o t)[j] = t[j - Len(s)]
  OBVIOUS

(* s has the frames of t at the places f, which differ.                     *)
PartOf(s, t, f) ==
  /\ f \in [1..Len(s) -> 1..Len(t)]
  /\ \A j, l \in 1..Len(s) : f[j] = f[l] => j = l
  /\ \A j \in 1..Len(s) : s[j] = t[f[j]]

(* What H has and G has not comes from the other frames.                    *)
FromRest(H, G, s, t, f) ==
  \A b \in H : b \in G \/ \E m \in 1..Len(t) :
                             b \in Bytes(t[m]) /\ \A j \in 1..Len(s) : f[j] # m

(* Frames of a lane are lost, and the bytes of lost ones may be received.   *)
LEMMA LaneShrinks ==
  ASSUME NEW L \in [Places -> Seq(Frame)], NEW G, NEW H, Apart(L, G),
         NEW i \in Places, NEW s \in Seq(Frame), NEW f,
         PartOf(s, L[i], f), FromRest(H, G, s, L[i], f)
  PROVE  Apart([L EXCEPT ![i] = s], H)
<1> USE DEF PartOf, FromRest
<1> DEFINE M == [L EXCEPT ![i] = s]
           at(h, j) == IF h = i THEN f[j] ELSE j
<1>1. ASSUME NEW h \in Places, NEW j \in Nat, NEW b \in Nat, Holds(M, h, j, b)
      PROVE  at(h, j) \in Nat /\ Holds(L, h, at(h, j), b)
  <2>1. CASE h = i
    <3>1. j \in 1..Len(s) /\ b \in Bytes(s[j])
      BY <1>1, <2>1 DEF Holds
    <3>2. f[j] \in 1..Len(L[i])
      BY <3>1
    <3>3. s[j] = L[i][f[j]]
      BY <3>1
    <3>4. f[j] \in Nat
      BY <3>2
    <3> QED BY <2>1, <3>1, <3>2, <3>3, <3>4 DEF Holds
  <2>2. CASE h # i
    BY <1>1, <2>2 DEF Holds
  <2> QED BY <2>1, <2>2
<1>2. ASSUME NEW h \in Places, NEW g \in Places, NEW j \in Nat, NEW l \in Nat, NEW b \in Nat,
             Holds(M, h, j, b), Holds(M, g, l, b)
      PROVE  h = g /\ j = l
  <2>1. h = g /\ at(h, j) = at(g, l)
    BY <1>1, <1>2 DEF Apart
  <2> QED BY <2>1, <1>2 DEF Holds
<1>3. ASSUME NEW h \in Places, NEW j \in Nat, NEW b \in Nat, Holds(M, h, j, b)
      PROVE  b \notin H
  <2>1. at(h, j) \in Nat /\ Holds(L, h, at(h, j), b)
    BY <1>1, <1>3
  <2>2. b \notin G
    BY <2>1 DEF Apart
  <2>3. ASSUME NEW m \in 1..Len(L[i]), b \in Bytes(L[i][m]), \A q \in 1..Len(s) : f[q] # m
        PROVE  FALSE
    <3>1. Holds(L, i, m, b) /\ m \in Nat
      BY <2>3 DEF Holds
    <3>2. h = i /\ at(h, j) = m
      BY <2>1, <3>1 DEF Apart
    <3> QED BY <1>3, <2>3, <3>2 DEF Holds
  <2> QED BY <2>2, <2>3
<1> QED
  BY <1>2, <1>3 DEF Apart

(* The connection, the writer or the loop at the front of a lane loses the  *)
(* frames it has from some point on.                                        *)
LEMMA LaneLoses ==
  ASSUME NEW L \in [Places -> Seq(Frame)], NEW G, Apart(L, G), NEW i \in Places,
         NEW u \in Seq(Frame), NEW v \in Seq(Frame), NEW z \in Seq(Frame),
         L[i] = u \o z, Len(v) <= Len(u), \A j \in 1..Len(v) : v[j] = u[j]
  PROVE  Apart([L EXCEPT ![i] = v \o z], G)
<1> DEFINE s == v \o z
           f == [j \in 1..Len(s) |-> IF j <= Len(v) THEN j ELSE j - Len(v) + Len(u)]
<1>1. /\ Len(u) \in Nat /\ Len(v) \in Nat /\ Len(z) \in Nat
      /\ s \in Seq(Frame) /\ Len(s) = Len(v) + Len(z)
      /\ Len(L[i]) = Len(u) + Len(z)
  BY LenProperties, ConcatProperties
<1>2. f \in [1..Len(s) -> 1..Len(L[i])]
  BY <1>1
<1>3. \A j, l \in 1..Len(s) : f[j] = f[l] => j = l
  BY <1>1
<1>4. ASSUME NEW j \in 1..Len(s) PROVE s[j] = L[i][f[j]]
  <2>1. CASE j <= Len(v)
    <3>1. s[j] = v[j] /\ f[j] = j /\ j \in 1..Len(v) /\ j \in 1..Len(u)
      BY <1>1, <2>1
    <3>2. (u \o z)[j] = u[j]
      BY <3>1, ConcatFacts
    <3> QED BY <3>1, <3>2
  <2>2. CASE j > Len(v)
    <3>1. f[j] = j - Len(v) + Len(u) /\ j \in (Len(v) + 1)..(Len(v) + Len(z))
      BY <1>1, <2>2
    <3>2. s[j] = z[j - Len(v)]
      BY <3>1, ConcatFacts
    <3>3. f[j] \in (Len(u) + 1)..(Len(u) + Len(z)) /\ f[j] - Len(u) = j - Len(v)
      BY <1>1, <3>1
    <3>4. (u \o z)[f[j]] = z[f[j] - Len(u)]
      BY <3>3, ConcatFacts
    <3> QED BY <3>2, <3>3, <3>4
  <2> QED BY <1>1, <2>1, <2>2
<1> HIDE DEF s, f
<1>5. PartOf(s, L[i], f)
  BY <1>2, <1>3, <1>4 DEF PartOf
<1>6. FromRest(G, G, s, L[i], f)
  BY DEF FromRest
<1>7. Apart([L EXCEPT ![i] = s], G)
  BY <1>1, <1>5, <1>6, LaneShrinks
<1> QED BY <1>7 DEF s

(* The first frame of a lane is received.                                   *)
LEMMA LaneReceived ==
  ASSUME NEW L \in [Places -> Seq(Frame)], NEW G, Apart(L, G), NEW i \in Places,
         L[i] # <<>>
  PROVE  LET M == [L EXCEPT ![i] = Tail(L[i])]
             H == G \cup Bytes(L[i][1])
         IN  /\ Apart(M, H)
             /\ \A o \in Nat : Complete(L, G, o) => Complete(M, H, o)
<1> DEFINE s == Tail(L[i])
           M == [L EXCEPT ![i] = s]
           H == G \cup Bytes(L[i][1])
           f == [j \in 1..Len(s) |-> j + 1]
<1>1. /\ s \in Seq(Frame) /\ Len(L[i]) \in Nat /\ Len(s) \in Nat /\ Len(s) = Len(L[i]) - 1
      /\ \A j \in 1..Len(s) : s[j] = L[i][j + 1]
  BY HeadTailProperties, LenProperties
<1> HIDE DEF s
<1>2. f \in [1..Len(s) -> 1..Len(L[i])] /\ 1 \in 1..Len(L[i])
        /\ \A j \in 1..Len(s) : f[j] # 1
  BY <1>1
<1>3. \A j, l \in 1..Len(s) : f[j] = f[l] => j = l
  BY <1>1
<1>4. \A j \in 1..Len(s) : s[j] = L[i][f[j]]
  BY <1>1
<1>5. FromRest(H, G, s, L[i], f)
  BY <1>2 DEF FromRest
<1> HIDE DEF f, H
<1>6. Apart(M, H)
  <2>1. PartOf(s, L[i], f)
    BY <1>2, <1>3, <1>4 DEF PartOf
  <2> QED BY <1>1, <1>5, <2>1, LaneShrinks
<1>7. ASSUME NEW h \in Places, NEW j \in Nat, NEW b, Holds(L, h, j, b)
      PROVE  b \in H \/ \E l \in Nat : Holds(M, h, l, b)
  <2>1. CASE h # i
    BY <1>7, <2>1 DEF Holds
  <2>2. CASE h = i /\ j = 1
    BY <1>7, <2>2 DEF Holds, H
  <2>3. CASE h = i /\ j # 1
    <3>1. j \in 1..Len(L[i]) /\ b \in Bytes(L[i][j])
      BY <1>7, <2>3 DEF Holds
    <3>2. j - 1 \in 1..Len(s) /\ j - 1 \in Nat /\ (j - 1) + 1 = j
      BY <1>1, <2>3, <3>1
    <3>3. s[j - 1] = L[i][j] /\ M[h] = s
      BY <1>1, <2>3, <3>2
    <3> HIDE DEF M
    <3>4. Holds(M, h, j - 1, b)
      BY <3>1, <3>2, <3>3 DEF Holds
    <3> QED BY <3>2, <3>4
  <2> QED BY <2>1, <2>2, <2>3
<1>8. ASSUME NEW o \in Nat, Complete(L, G, o) PROVE Complete(M, H, o)
  <2> SUFFICES ASSUME NEW b \in 0..(o - 1)
               PROVE  b \in H \/ \E h \in Places : \E l \in Nat : Holds(M, h, l, b)
    BY DEF Complete
  <2>1. CASE b \in G
    BY <2>1 DEF H
  <2>2. ASSUME NEW h \in Places, NEW j \in Nat, Holds(L, h, j, b)
        PROVE  b \in H \/ \E g \in Places : \E l \in Nat : Holds(M, g, l, b)
    BY <1>7, <2>2
  <2> QED BY <1>8, <2>1, <2>2 DEF Complete
<1> QED
  BY <1>6, <1>8 DEF s, H

(* The frames of the last lane go to the end of another one.                *)
LEMMA LaneHandsOver ==
  ASSUME NEW L \in [Places -> Seq(Frame)], NEW G, Apart(L, G), NEW i \in Subflows
  PROVE  LET M == [L EXCEPT ![NSub] = <<>>, ![i] = L[i] \o L[NSub]]
         IN  /\ Apart(M, G)
             /\ \A o \in Nat : Complete(L, G, o) => Complete(M, G, o)
<1> DEFINE M == [L EXCEPT ![NSub] = <<>>, ![i] = L[i] \o L[NSub]]
           from(h, j) == IF h = i /\ j > Len(L[i]) THEN NSub ELSE h
           at(h, j) == IF h = i /\ j > Len(L[i]) THEN j - Len(L[i]) ELSE j
<1>1. i \in Places /\ NSub \in Places /\ i # NSub
  BY SizesAssumption DEF Places, Subflows
<1>2. L[i] \in Seq(Frame) /\ L[NSub] \in Seq(Frame)
  BY <1>1
<1>3. /\ M[NSub] = <<>> /\ M[i] = L[i] \o L[NSub]
      /\ \A h \in Places : h # i /\ h # NSub => M[h] = L[h]
  BY <1>1
<1> HIDE DEF M
<1>4. /\ Len(M[i]) = Len(L[i]) + Len(L[NSub])
      /\ \A j \in 1..Len(L[i]) : M[i][j] = L[i][j]
      /\ \A j \in 1..Len(L[NSub]) : M[i][Len(L[i]) + j] = L[NSub][j]
      /\ \A j \in (Len(L[i]) + 1)..(Len(L[i]) + Len(L[NSub])) :
           M[i][j] = L[NSub][j - Len(L[i])]
  <2> DEFINE s == L[i]
             t == L[NSub]
  <2>1. s \in Seq(Frame) /\ t \in Seq(Frame) /\ M[i] = s \o t
    BY <1>2, <1>3
  <2> HIDE DEF s, t
  <2>2. /\ Len(s \o t) = Len(s) + Len(t)
        /\ \A j \in 1..Len(s) : (s \o t)[j] = s[j]
        /\ \A j \in 1..Len(t) : (s \o t)[Len(s) + j] = t[j]
        /\ \A j \in (Len(s) + 1)..(Len(s) + Len(t)) : (s \o t)[j] = t[j - Len(s)]
    BY <2>1, ConcatFacts
  <2> QED BY <2>1, <2>2 DEF s, t
<1>0. Len(L[i]) \in Nat /\ Len(L[NSub]) \in Nat
  BY <1>2, LenProperties
<1>5. ASSUME NEW h \in Places, NEW j \in Nat, NEW b \in Nat, Holds(M, h, j, b)
      PROVE  /\ from(h, j) \in Places /\ at(h, j) \in Nat
             /\ Holds(L, from(h, j), at(h, j), b)
             /\ h # NSub
  BY <1>1, <1>2, <1>3, <1>4, <1>5 DEF Holds
<1>6. ASSUME NEW h \in Places, NEW g \in Places, NEW j \in Nat, NEW l \in Nat, NEW b \in Nat,
             Holds(M, h, j, b), Holds(M, g, l, b)
      PROVE  h = g /\ j = l
  <2>1. from(h, j) = from(g, l) /\ at(h, j) = at(g, l)
    BY <1>5, <1>6 DEF Apart
  <2>2. h # NSub /\ g # NSub
    BY <1>5, <1>6
  <2> QED BY <1>1, <1>2, <2>1, <2>2
<1>7. ASSUME NEW h \in Places, NEW j \in Nat, NEW b \in Nat, Holds(M, h, j, b)
      PROVE  b \notin G
  BY <1>5, <1>7 DEF Apart
<1>8. ASSUME NEW h \in Places, NEW j \in Nat, NEW b, Holds(L, h, j, b)
      PROVE  \E g \in Places : \E l \in Nat : Holds(M, g, l, b)
  <2>1. CASE h = NSub
    <3>1. j \in 1..Len(L[NSub]) /\ b \in Bytes(L[NSub][j])
      BY <1>8, <2>1 DEF Holds
    <3>2. Len(L[i]) + j \in 1..Len(M[i]) /\ M[i][Len(L[i]) + j] = L[NSub][j]
      <4>1. M[i][Len(L[i]) + j] = L[NSub][j]
        BY <1>4, <3>1
      <4>2. j \in Nat /\ 1 <= j /\ j <= Len(L[NSub]) /\ Len(M[i]) = Len(L[i]) + Len(L[NSub])
        BY <1>0, <1>4, <3>1
      <4>3. ASSUME NEW a \in Nat, NEW c \in Nat, j <= c PROVE a + j \in 1..(a + c)
        BY <4>2, <4>3
      <4> QED BY <1>0, <4>1, <4>2, <4>3
    <3>3. Len(L[i]) + j \in Nat /\ Holds(M, i, Len(L[i]) + j, b)
      BY <1>0, <3>1, <3>2 DEF Holds
    <3> QED BY <1>1, <3>3
  <2>2. CASE h = i
    <3>1. Holds(M, i, j, b)
      BY <1>2, <1>4, <1>8, <2>2 DEF Holds
    <3> QED BY <1>1, <3>1
  <2>3. CASE h # i /\ h # NSub
    <3>1. Holds(M, h, j, b)
      BY <1>3, <1>8, <2>3 DEF Holds
    <3> QED BY <3>1
  <2> QED BY <2>1, <2>2, <2>3
<1>9. Apart(M, G)
  BY <1>6, <1>7 DEF Apart
<1>10. ASSUME NEW o \in Nat, Complete(L, G, o) PROVE Complete(M, G, o)
  BY <1>8, <1>10 DEF Complete
<1> QED
  BY <1>9, <1>10 DEF M

(* A frame without bytes is put behind a lane.                              *)
LEMMA LaneEnds ==
  ASSUME NEW L \in [Places -> Seq(Frame)], NEW G, Apart(L, G), NEW i \in Places,
         NEW f \in Frame, Bytes(f) = {}
  PROVE  LET M == [L EXCEPT ![i] = Append(L[i], f)]
         IN  /\ Apart(M, G)
             /\ \A o \in Nat : Complete(L, G, o) => Complete(M, G, o)
<1> DEFINE M == [L EXCEPT ![i] = Append(L[i], f)]
<1>1. ASSUME NEW h \in Places, NEW j \in Nat, NEW b
      PROVE  Holds(M, h, j, b) <=> Holds(L, h, j, b)
  <2>1. CASE h = i
    BY <2>1 DEF Holds
  <2>2. CASE h # i
    BY <2>2 DEF Holds
  <2> QED BY <2>1, <2>2
<1> HIDE DEF M
<1>2. Apart(M, G)
  BY <1>1 DEF Apart
<1>3. ASSUME NEW o \in Nat, Complete(L, G, o) PROVE Complete(M, G, o)
  BY <1>1, <1>3 DEF Complete
<1> QED
  BY <1>2, <1>3 DEF M

(* A frame of the bytes that follow is made.                                *)
LEMMA LaneBegins ==
  ASSUME NEW o \in Nat, NEW m \in Nat,
         NEW L \in [Places -> Seq(FrameUpTo(o))], NEW G, Apart(L, G),
         \A b \in G : b < o, L[NSub] = <<>>
  PROVE  LET M == [L EXCEPT ![NSub] = <<Data(o, m)>>]
         IN  Apart(M, G) /\ (Complete(L, G, o) => Complete(M, G, o + m))
<1> DEFINE M == [L EXCEPT ![NSub] = <<Data(o, m)>>]
<1>1. NSub \in Places
  BY SizesAssumption DEF Places
<1>2. ASSUME NEW h \in Places, NEW j \in Nat, NEW b
      PROVE  Holds(M, h, j, b) <=> \/ Holds(L, h, j, b)
                                   \/ h = NSub /\ j = 1 /\ b \in o..(o + m - 1)
  <2>1. CASE h = NSub
    <3>1. M[h] = <<Data(o, m)>> /\ L[h] = <<>>
      BY <1>1, <2>1
    <3>2. Bytes(Data(o, m)) = o..(o + m - 1)
      BY BytesFacts
    <3> HIDE DEF M
    <3>3. Len(M[h]) = 1 /\ M[h][1] = Data(o, m) /\ Len(L[h]) = 0
      BY <3>1
    <3> QED BY <2>1, <3>2, <3>3 DEF Holds
  <2>2. CASE h # NSub
    BY <1>1, <2>2 DEF Holds
  <2> QED BY <2>1, <2>2
<1>3. ASSUME NEW h \in Places, NEW j \in Nat, NEW b, Holds(L, h, j, b) PROVE b \in 0..(o - 1)
  <2>1. L[h][j] \in FrameUpTo(o)
    BY <1>3 DEF Holds
  <2> QED BY <1>3, <2>1, BytesFacts DEF Holds
<1> HIDE DEF M
<1>4. Apart(M, G)
  <2>1. ASSUME NEW h \in Places, NEW g \in Places, NEW j \in Nat, NEW l \in Nat, NEW b \in Nat,
               Holds(M, h, j, b), Holds(M, g, l, b)
        PROVE  h = g /\ j = l
    BY <1>2, <1>3, <2>1 DEF Apart
  <2>2. ASSUME NEW h \in Places, NEW j \in Nat, NEW b \in Nat, Holds(M, h, j, b)
        PROVE  b \notin G
    BY <1>2, <2>2 DEF Apart
  <2> QED BY <2>1, <2>2 DEF Apart
<1>5. ASSUME Complete(L, G, o) PROVE Complete(M, G, o + m)
  <2> SUFFICES ASSUME NEW b \in 0..(o + m - 1)
               PROVE  b \in G \/ \E i \in Places : \E j \in Nat : Holds(M, i, j, b)
    BY DEF Complete
  <2>1. CASE b \in 0..(o - 1)
    BY <1>2, <1>5, <2>1 DEF Complete
  <2>2. CASE b \in o..(o + m - 1)
    BY <1>1, <1>2, <2>2
  <2> QED BY <2>1, <2>2
<1> QED
  BY <1>4, <1>5 DEF M

-----------------------------------------------------------------------------
(* The invariant.  A frame is between its making and its queue in two       *)
(* states only, so that nothing is made over it; and a writer leaves its    *)
(* loop because a connection failed or because nothing is left for it, so   *)
(* that what goes with its receiver was lost already or is nothing.         *)
Lane(i) == wire[i] \o cur[i] \o chan[i]

LeftWith(i) == writer[i] # "run" => dead \/ (SendersDropped /\ chan[i] = <<>>)

Handover ==
  /\ item # <<>> => pc \in {"scan", "send"}
  /\ \A i \in Subflows : LeftWith(i)

Accounted ==
  /\ Apart(Lanes, got)
  /\ Failed \/ Complete(Lanes, got, offset)

LEMMA LanesFacts ==
  ASSUME NEW S, wire \in [Subflows -> Seq(S)], cur \in [Subflows -> Seq(S)],
         chan \in [Subflows -> Seq(S)], item \in Seq(S)
  PROVE  /\ Lanes \in [Places -> Seq(S)]
         /\ Lanes[NSub] = item
         /\ \A i \in Subflows : Lanes[i] = Lane(i)
<1>1. NSub \in Nat \ {0} /\ NSub \in Places /\ NSub \notin Subflows
        /\ Places = Subflows \cup {NSub}
  BY SizesAssumption DEF Places, Subflows
<1>2. \A i \in Subflows : Lane(i) \in Seq(S)
  BY DEF Lane
<1>3. Lanes = [i \in Places |-> IF i = NSub THEN item ELSE Lane(i)]
  BY DEF Lanes, Lane, Places
<1> QED
  BY <1>1, <1>2, <1>3

LEMMA PlacesFacts ==
  NSub \in Places /\ NSub \notin Subflows /\ Places = Subflows \cup {NSub}
  BY SizesAssumption DEF Places, Subflows

LEMMA BehindFacts ==
  ASSUME NEW S, NEW s \in Seq(S), NEW t \in Seq(S), NEW u \in Seq(S), NEW f \in S
  PROVE  s \o Append(t, f) = Append(s \o t, f) /\ s \o (t \o u) = (s \o t) \o u
<1>1. s \o (t \o u) = (s \o t) \o u
  BY ConcatAssociative
<1>2. t \o <<f>> = Append(t, f) /\ (s \o t) \o <<f>> = Append(s \o t, f)
        /\ <<f>> \in Seq(S)
  BY AppendIsConcat, ConcatProperties
<1>3. s \o (t \o <<f>>) = (s \o t) \o <<f>>
  BY <1>2, ConcatAssociative
<1> QED BY <1>1, <1>2, <1>3

LEMMA FrontFacts ==
  ASSUME NEW S, NEW s \in Seq(S), NEW t \in Seq(S), s # <<>>
  PROVE  /\ s \o t \in Seq(S) /\ s \o t # <<>> /\ (s \o t)[1] = s[1]
         /\ Tail(s \o t) = Tail(s) \o t
  OBVIOUS

(* A step that touches one lane alters that lane.                           *)
LEMMA LanesStep ==
  ASSUME TypeOK, NEW i \in Subflows,
         \A h \in Subflows \ {i} : wire'[h] = wire[h] /\ cur'[h] = cur[h] /\ chan'[h] = chan[h],
         item' = item
  PROVE  Lanes' = [Lanes EXCEPT ![i] = Lane(i)']
<1>1. NSub \in Nat \ {0} /\ NSub \in Places /\ NSub \notin Subflows
        /\ Places = Subflows \cup {NSub}
  BY SizesAssumption DEF Places, Subflows
<1>2. Lanes = [h \in Places |-> IF h = NSub THEN item ELSE Lane(h)]
  BY DEF Lanes, Lane, Places
<1>3. Lanes' = [h \in Places |-> IF h = NSub THEN item' ELSE Lane(h)']
  BY DEF Lanes, Lane, Places
<1>4. \A h \in Subflows \ {i} : Lane(h)' = Lane(h)
  BY DEF Lane
<1> QED
  BY <1>1, <1>2, <1>3, <1>4

(* The lanes are the same sequences while frames move along them.           *)
LEMMA LanesKept ==
  ASSUME TypeOK, NEW i \in Subflows, WriterRecv(i) \/ WriterWrite(i)
  PROVE  Lanes' = Lanes
<1>0. chan[i] \in Seq(Frame) /\ cur[i] \in Seq(Frame) /\ wire[i] \in Seq(Frame)
  BY DEF TypeOK
<1>1. Lane(i)' = Lane(i)
  <2>1. CASE WriterRecv(i)
    <3>1. /\ cur[i] = <<>> /\ cur'[i] = <<Head(chan[i])>> /\ wire'[i] = wire[i]
          /\ chan[i] # <<>> /\ chan'[i] = Tail(chan[i])
      BY <2>1 DEF WriterRecv, TypeOK
    <3>2. <<Head(chan[i])>> \o Tail(chan[i]) = chan[i]
      BY <1>0, <3>1
    <3>3. wire[i] \o <<>> = wire[i]
      BY <1>0
    <3>4. (wire[i] \o <<Head(chan[i])>>) \o Tail(chan[i])
            = wire[i] \o (<<Head(chan[i])>> \o Tail(chan[i]))
      <4>1. \A s, t, u \in Seq(Frame) : (s \o t) \o u = s \o (t \o u)
        BY ConcatAssociative
      <4>2. <<Head(chan[i])>> \in Seq(Frame) /\ Tail(chan[i]) \in Seq(Frame)
        BY <1>0, <3>1
      <4> HIDE <3>1
      <4> QED BY <1>0, <4>1, <4>2
    <3> QED BY <3>1, <3>2, <3>3, <3>4 DEF Lane
  <2>2. CASE WriterWrite(i)
    <3>1. wire'[i] = wire[i] \o cur[i] /\ cur'[i] = <<>> /\ chan'[i] = chan[i]
      BY <2>2 DEF WriterWrite, TypeOK
    <3>2. (wire[i] \o cur[i]) \o <<>> = wire[i] \o cur[i]
      BY <1>0
    <3> QED BY <3>1, <3>2 DEF Lane
  <2> QED BY <2>1, <2>2
<1>2. Lanes' = [Lanes EXCEPT ![i] = Lane(i)']
  BY LanesStep DEF WriterRecv, WriterWrite, downloadVars, TypeOK
<1>3. Lanes[i] = Lane(i) /\ Lanes \in [Places -> Seq(Frame)]
  BY LanesFacts DEF TypeOK
<1> QED
  BY <1>1, <1>2, <1>3

LEMMA DownloadHandover == TypeOK /\ Handover /\ Download => Handover'
<1> SUFFICES ASSUME TypeOK, Handover, Download PROVE Handover'
  OBVIOUS
<1> USE DEF Handover, LeftWith, SendersDropped, writerVars
<1>1. CASE SeeDead \/ ReadTarget \/ ReadEof \/ ReadError
  BY <1>1 DEF SeeDead, ReadTarget, ReadEof, ReadError
<1>2. CASE CreditPass \/ CreditGiveUp
  BY <1>2 DEF CreditPass, CreditGiveUp, Encode
<1>3. CASE CreditStall \/ CreditWake \/ ScanQueue \/ ScanDone
  BY <1>3 DEF CreditStall, CreditWake, ScanQueue, ScanDone
<1>4. CASE Send \/ SendClosed \/ SendFin
  BY <1>4 DEF Send, SendClosed, SendFin
<1>5. CASE FinsSent \/ JoinWriters
  BY <1>5 DEF FinsSent, JoinWriters
<1> QED
  BY <1>1, <1>2, <1>3, <1>4, <1>5 DEF Download

LEMMA WriterHandover ==
  ASSUME TypeOK, Handover, NEW i \in Subflows, Writer(i) \/ WriterFail(i)
  PROVE  Handover'
<1>0. UNCHANGED <<pc, item>>
  BY DEF Writer, WriterRecv, WriterWrite, WriterDrained, WriterExit, WriterFail,
         downloadVars
<1>1. UNCHANGED <<pc, item>> /\ (dead => dead')
  <2>1. CASE Writer(i)
    <3>1. dead' = dead
      BY <2>1 DEF Writer, WriterRecv, WriterWrite, WriterDrained, WriterExit
    <3> QED BY <1>0, <3>1
  <2>2. CASE WriterFail(i)
    <3>1. dead'
      BY <2>2 DEF WriterFail
    <3> QED BY <1>0, <3>1
  <2> QED BY <2>1, <2>2
<1>2. ASSUME NEW h \in Subflows PROVE LeftWith(h)'
  <2>1. LeftWith(h)
    BY DEF Handover
  <2>2. CASE h # i
    <3>1. writer'[h] = writer[h] /\ chan'[h] = chan[h]
      BY <2>2 DEF TypeOK, Writer, WriterRecv, WriterWrite, WriterDrained,
                  WriterExit, WriterFail
    <3> QED BY <1>1, <2>1, <3>1 DEF LeftWith, SendersDropped
  <2>3. CASE h = i /\ (WriterRecv(i) \/ WriterWrite(i))
    <3>1. writer'[i] = "run"
      BY <2>3 DEF WriterRecv, WriterWrite
    <3> QED BY <2>3, <3>1 DEF LeftWith
  <2>4. CASE h = i /\ WriterDrained(i)
    <3>1. chan'[i] = <<>> /\ SendersDropped
      BY <2>4 DEF WriterDrained
    <3> QED BY <1>1, <2>4, <3>1 DEF LeftWith, SendersDropped
  <2>5. CASE h = i /\ WriterExit(i)
    <3>1. chan'[i] = <<>> /\ writer[i] # "run"
      BY <2>5 DEF WriterExit, TypeOK
    <3> QED BY <1>1, <2>1, <2>5, <3>1 DEF LeftWith, SendersDropped
  <2>6. CASE h = i /\ WriterFail(i)
    <3>1. dead'
      BY <2>6 DEF WriterFail
    <3> QED BY <3>1 DEF LeftWith
  <2> QED BY <2>2, <2>3, <2>4, <2>5, <2>6 DEF Writer
<1> QED BY <1>1, <1>2 DEF Handover

LEMMA NextHandover == TypeOK /\ Handover /\ [Next]_vars => Handover'
<1> SUFFICES ASSUME TypeOK, Handover, [Next]_vars PROVE Handover'
  OBVIOUS
<1> USE DEF Handover, LeftWith, SendersDropped
<1>1. CASE Download
  BY <1>1, DownloadHandover
<1>2. CASE \E i \in Subflows : Writer(i) \/ WriterFail(i)
  BY <1>2, WriterHandover
<1>3. ASSUME NEW i \in Subflows, ClientReceive(i) PROVE Handover'
  BY <1>3 DEF ClientReceive, downloadVars, writerVars
<1>4. CASE UploadCloses \/ ClientTake \/ Done \/ UNCHANGED vars
  BY <1>4 DEF UploadCloses, ClientTake, Done, vars, downloadVars, writerVars
<1>5. CASE UploadFails
  BY <1>5 DEF UploadFails, writerVars
<1>6. ASSUME NEW i \in Joins, Reader(i) \/ ReaderExit(i) \/ ClientReport(i)
      PROVE  Handover'
  <2>1. UNCHANGED <<pc, item, writerVars>>
    BY <1>6 DEF Reader, ReaderLoad, ReaderSwap,
                ReaderEnable, ReaderNotify, ReaderExit,
                ClientReport, downloadVars
  <2> QED BY <2>1 DEF writerVars
<1> QED
  BY <1>1, <1>2, <1>3, <1>4, <1>5, <1>6 DEF Next

-----------------------------------------------------------------------------
(* A failed session stays failed.                                           *)
LEMMA FailedStays == StreamInv /\ Failed /\ [Next]_vars => Failed'
<1> SUFFICES ASSUME StreamInv, Failed, [Next]_vars PROVE Failed'
  OBVIOUS
<1> USE DEF Failed
<1>1. CASE Download
  <2>1. dead' = dead /\ pc # "dropped"
    BY <1>1 DEF Download, SeeDead, ReadTarget, ReadEof, ReadError, CreditPass,
                CreditStall, CreditWake, CreditGiveUp, Encode, ScanQueue, ScanDone,
                Send, SendClosed, SendFin, FinsSent, JoinWriters, writerVars
  <2>2. result = "err" => result' = "err"
    BY <1>1 DEF Download, SeeDead, ReadTarget, ReadEof, ReadError, CreditPass,
                CreditStall, CreditWake, CreditGiveUp, Encode, ScanQueue, ScanDone,
                Send, SendClosed, SendFin, FinsSent, JoinWriters, StreamInv, Scheduling
  <2> QED BY <2>1, <2>2
<1>2. ASSUME NEW i \in Subflows, Writer(i) PROVE Failed'
  <2>1. UNCHANGED <<pc, result, dead>>
    BY <1>2 DEF Writer, WriterRecv, WriterWrite, WriterDrained, WriterExit, downloadVars
  <2> QED BY <2>1
<1>3. ASSUME NEW i \in Subflows, WriterFail(i) PROVE Failed'
  BY <1>3 DEF WriterFail
<1>4. ASSUME NEW i \in Subflows, ClientReceive(i) PROVE Failed'
  BY <1>4 DEF ClientReceive, downloadVars, writerVars
<1>5. CASE UploadCloses \/ ClientTake \/ Done \/ UNCHANGED vars
  <2>1. UNCHANGED <<pc, result, dead>>
    BY <1>5 DEF UploadCloses, ClientTake, Done, vars, downloadVars, writerVars
  <2> QED BY <2>1
<1>6. CASE UploadFails
  <2>1. UNCHANGED <<result, dead>> /\ pc # "dropped"
    BY <1>6 DEF UploadFails, writerVars, AwaitPoints
  <2> QED BY <2>1
<1>7. ASSUME NEW i \in Joins, Reader(i) \/ ReaderExit(i) \/ ClientReport(i)
      PROVE  Failed'
  <2>1. UNCHANGED <<pc, result, dead>>
    BY <1>7 DEF Reader, ReaderLoad, ReaderSwap,
                ReaderEnable, ReaderNotify, ReaderExit,
                ClientReport, downloadVars, writerVars
  <2> QED BY <2>1
<1> QED
  BY <1>1, <1>2, <1>3, <1>4, <1>5, <1>6, <1>7 DEF Next

(* A step that leaves the frames where they are, or loses some and fails    *)
(* the session, keeps the account.                                          *)
LEMMA AccountKept ==
  ASSUME StreamInv, Accounted, [Next]_vars,
         UNCHANGED <<got, offset>>,
         \/ Lanes' = Lanes
         \/ Failed' /\ Apart(Lanes', got)
  PROVE  Accounted'
  BY FailedStays DEF Accounted

(* The step of a frame of data that is made.                                *)
LEMMA EncodeAccount ==
  ASSUME TypeOK, WithinOffset, StreamInv, Handover, Accounted, [Next]_vars,
         NEW m, Encode(m), pc \in {"credit", "await"}
  PROVE  Accounted'
<1>1. item = <<>> /\ item' = <<Data(offset, n)>> /\ offset' = offset + n
        /\ UNCHANGED <<chan, cur, wire, got>>
  BY DEF Encode, Handover, writerVars, clientVars
<1>2. offset \in Nat /\ n \in Nat /\ \A b \in got : b < offset
  BY DEF TypeOK, WithinOffset
<1>3. Lanes \in [Places -> Seq(FrameUpTo(offset))] /\ Lanes[NSub] = <<>>
  BY <1>1, LanesFacts DEF WithinOffset
<1>4. Lanes' = [Lanes EXCEPT ![NSub] = <<Data(offset, n)>>]
  <2>1. Lanes = [i \in Places |-> IF i = NSub THEN item ELSE Lane(i)]
    BY DEF Lanes, Lane, Places
  <2>2. Lanes' = [i \in Places |-> IF i = NSub THEN item' ELSE Lane(i)]
    BY <1>1 DEF Lanes, Lane, Places
  <2> QED BY <1>1, <2>1, <2>2
<1>5. /\ Apart(Lanes', got)
      /\ Complete(Lanes, got, offset) => Complete(Lanes', got, offset + n)
  <2> DEFINE M == [Lanes EXCEPT ![NSub] = <<Data(offset, n)>>]
  <2>1. Apart(M, got) /\ (Complete(Lanes, got, offset) => Complete(M, got, offset + n))
    BY <1>2, <1>3, LaneBegins DEF Accounted
  <2> QED BY <1>4, <2>1
<1> QED
  BY <1>1, <1>5, FailedStays DEF Accounted

(* The frame the loop has is lost with it.                                  *)
LEMMA ItemLost ==
  ASSUME TypeOK, Accounted, item' = <<>>, UNCHANGED <<chan, cur, wire>>
  PROVE  Apart(Lanes', got)
<1>1. Lanes \in [Places -> Seq(Frame)] /\ Lanes[NSub] = item
  BY LanesFacts DEF TypeOK
<1>2. NSub \in Places /\ item \in Seq(Frame) /\ <<>> \in Seq(Frame)
  BY SizesAssumption DEF Places, TypeOK
<1>3. Lanes' = [Lanes EXCEPT ![NSub] = <<>>]
  <2>1. Lanes = [i \in Places |-> IF i = NSub THEN item ELSE Lane(i)]
    BY DEF Lanes, Lane, Places
  <2>2. Lanes' = [i \in Places |-> IF i = NSub THEN item' ELSE Lane(i)]
    BY DEF Lanes, Lane, Places
  <2> QED BY <2>1, <2>2
<1>4. item \o <<>> = item /\ <<>> \o <<>> = <<>> /\ Len(<<>>) <= Len(item)
        /\ \A j \in 1..Len(<<>>) : <<>>[j] = item[j]
  BY <1>2, LenProperties
<1>5. Apart([Lanes EXCEPT ![NSub] = <<>> \o <<>>], got)
  <2> DEFINE v == <<>>
             z == <<>>
  <2>1. v \in Seq(Frame) /\ z \in Seq(Frame) /\ Lanes[NSub] = item \o z
          /\ Len(v) <= Len(item) /\ \A j \in 1..Len(v) : v[j] = item[j]
    BY <1>1, <1>2, <1>4
  <2> HIDE DEF v, z
  <2>2. Apart([Lanes EXCEPT ![NSub] = v \o z], got)
    BY <1>1, <1>2, <2>1, LaneLoses DEF Accounted
  <2> QED BY <2>2 DEF v, z
<1> QED BY <1>3, <1>4, <1>5

LEMMA DownloadAccount ==
  ASSUME TypeOK, WithinOffset, StreamInv, Handover, Accounted, [Next]_vars, Download
  PROVE  Accounted'
<1>1. CASE CreditPass
  BY <1>1, EncodeAccount DEF CreditPass
<1>2. CASE CreditGiveUp
  BY <1>2, EncodeAccount DEF CreditGiveUp
<1>3. CASE \/ SeeDead \/ ReadTarget \/ ReadEof \/ ReadError \/ CreditStall \/ CreditWake
           \/ ScanQueue \/ ScanDone \/ FinsSent \/ JoinWriters
  <2>1. UNCHANGED <<item, chan, cur, wire, got, offset>>
    BY <1>3 DEF SeeDead, ReadTarget, ReadEof, ReadError, CreditStall, CreditWake,
                ScanQueue, ScanDone, FinsSent, JoinWriters, writerVars, clientVars
  <2>2. Lanes' = Lanes
    BY <2>1 DEF Lanes
  <2> QED BY <2>1, <2>2, AccountKept
<1>4. CASE Send
  <2>0. PICK e \in Subflows : e = best
    BY DEF TypeOK
  <2>1. /\ e \in Subflows /\ item' = <<>> /\ chan' = [chan EXCEPT ![e] = @ \o item]
        /\ UNCHANGED <<cur, wire, got, offset>>
    BY <1>4, <2>0 DEF Send, clientVars
  <2>2. Lanes \in [Places -> Seq(Frame)] /\ Lanes[NSub] = item
          /\ Lanes[e] = Lane(e)
    BY <2>1, LanesFacts DEF TypeOK
  <2>3. Lane(e)' = Lane(e) \o item
    <3>1. chan'[e] = chan[e] \o item
      BY <2>1 DEF TypeOK
    <3> DEFINE a == wire[e] \o cur[e]
               c == chan[e]
    <3>2. a \in Seq(Frame) /\ c \in Seq(Frame) /\ item \in Seq(Frame)
      BY <2>1 DEF TypeOK
    <3>3. Lane(e) = a \o c /\ Lane(e)' = a \o (c \o item)
      BY <2>1, <3>1 DEF Lane
    <3> HIDE DEF a, c
    <3>4. a \o (c \o item) = (a \o c) \o item
      BY <3>2, ConcatAssociative
    <3> QED BY <3>3, <3>4
  <2>4. Lanes' = [Lanes EXCEPT ![NSub] = <<>>, ![e] = Lanes[e] \o Lanes[NSub]]
    <3>1. Lanes = [i \in Places |-> IF i = NSub THEN item ELSE Lane(i)]
      BY DEF Lanes, Lane, Places
    <3>2. Lanes' = [i \in Places |-> IF i = NSub THEN item' ELSE Lane(i)']
      BY DEF Lanes, Lane, Places
    <3>3. \A i \in Places : i # NSub /\ i # e => Lane(i)' = Lane(i)
      <4>1. \A i \in Subflows \ {e} : chan'[i] = chan[i]
        BY <2>1 DEF TypeOK
      <4> QED BY <2>1, <4>1, PlacesFacts DEF Lane
    <3>4. NSub \in Places /\ e \in Places /\ e # NSub
      BY <2>1, PlacesFacts
    <3>5. Lanes[e] \o Lanes[NSub] = Lane(e)'
      BY <2>2, <2>3
    <3>6. Lanes' = [i \in Places |-> IF i = NSub THEN <<>> ELSE
                                     IF i = e THEN Lane(e)' ELSE Lanes[i]]
      <4>1. \A i \in Places : (IF i = NSub THEN item' ELSE Lane(i)')
                = IF i = NSub THEN <<>> ELSE IF i = e THEN Lane(e)' ELSE Lanes[i]
        <5>1. \A i \in Places : i # NSub => Lanes[i] = Lane(i)
          BY <3>1
        <5>2. item' = <<>>
          BY <2>1
        <5> QED BY <3>3, <3>4, <5>1, <5>2
      <4> QED BY <3>2, <4>1
    <3> QED BY <2>2, <3>4, <3>5, <3>6
  <2>5. /\ Apart(Lanes', got)
        /\ \A o \in Nat : Complete(Lanes, got, o) => Complete(Lanes', got, o)
    <3> DEFINE M == [Lanes EXCEPT ![NSub] = <<>>, ![e] = Lanes[e] \o Lanes[NSub]]
    <3>1. /\ Apart(M, got)
          /\ \A o \in Nat : Complete(Lanes, got, o) => Complete(M, got, o)
      BY <2>1, <2>2, LaneHandsOver DEF Accounted
    <3> QED BY <2>4, <3>1
  <2> QED BY <2>1, <2>5, FailedStays DEF Accounted, TypeOK
<1>5. CASE SendClosed
  <2>1. item' = <<>> /\ UNCHANGED <<chan, cur, wire, got, offset>> /\ Failed'
    BY <1>5 DEF SendClosed, writerVars, clientVars, Failed
  <2> QED BY <2>1, ItemLost, AccountKept
<1>6. CASE SendFin
  <2>0. PICK e \in Subflows : e = k
    BY <1>6, SizesAssumption DEF SendFin, Subflows, TypeOK
  <2>1. e \in Subflows /\ UNCHANGED <<item, cur, wire, got, offset>>
    BY <1>6, <2>0 DEF SendFin, clientVars
  <2>2. CASE UNCHANGED chan
    <3>1. Lanes' = Lanes
      BY <2>1, <2>2 DEF Lanes
    <3> QED BY <2>1, <3>1, AccountKept
  <2>3. CASE chan' = [chan EXCEPT ![e] = Append(@, Fin(offset))]
    <3>1. Lanes \in [Places -> Seq(Frame)] /\ Lanes[e] = Lane(e)
      BY <2>1, LanesFacts DEF TypeOK
    <3>2. Fin(offset) \in Frame /\ Bytes(Fin(offset)) = {} /\ e \in Places
      BY <2>1, FrameFacts, BytesFacts, PlacesFacts DEF TypeOK
    <3>3. Lane(e)' = Append(Lane(e), Fin(offset))
      <4>1. chan'[e] = Append(chan[e], Fin(offset))
        BY <2>1, <2>3 DEF TypeOK
      <4> DEFINE a == wire[e] \o cur[e]
                 c == chan[e]
                 f == Fin(offset)
      <4>2. a \in Seq(Frame) /\ c \in Seq(Frame) /\ f \in Frame
        BY <2>1, <3>2 DEF TypeOK
      <4>3. Lane(e) = a \o c /\ Lane(e)' = a \o Append(c, f)
        BY <2>1, <4>1 DEF Lane
      <4> HIDE DEF a, c, f
      <4>4. a \o Append(c, f) = Append(a \o c, f)
        BY <4>2, BehindFacts
      <4> QED BY <4>3, <4>4 DEF f
    <3>4. Lanes' = [Lanes EXCEPT ![e] = Append(Lanes[e], Fin(offset))]
      <4>1. \A h \in Subflows \ {e} : wire'[h] = wire[h] /\ cur'[h] = cur[h] /\ chan'[h] = chan[h]
        BY <2>1, <2>3 DEF TypeOK
      <4>2. Lanes' = [Lanes EXCEPT ![e] = Lane(e)']
        <5>1. item' = item /\ TypeOK
          BY <2>1
        <5> QED BY <2>1, <4>1, <5>1, LanesStep
      <4> QED BY <3>1, <3>3, <4>2
    <3>5. /\ Apart(Lanes', got)
          /\ \A o \in Nat : Complete(Lanes, got, o) => Complete(Lanes', got, o)
      <4> DEFINE M == [Lanes EXCEPT ![e] = Append(Lanes[e], Fin(offset))]
      <4>1. /\ Apart(M, got)
            /\ \A o \in Nat : Complete(Lanes, got, o) => Complete(M, got, o)
        BY <3>1, <3>2, LaneEnds DEF Accounted
      <4> QED BY <3>4, <4>1
    <3> QED BY <2>1, <3>5, FailedStays DEF Accounted, TypeOK
  <2> QED BY <1>6, <2>0, <2>2, <2>3 DEF SendFin
<1> QED
  BY <1>1, <1>2, <1>3, <1>4, <1>5, <1>6 DEF Download

LEMMA WriterAccount ==
  ASSUME TypeOK, StreamInv, Handover, Accounted, [Next]_vars,
         NEW i \in Subflows, Writer(i) \/ WriterFail(i)
  PROVE  Accounted'
<1>1. UNCHANGED <<got, offset, item>>
  BY DEF Writer, WriterRecv, WriterWrite, WriterDrained, WriterExit, WriterFail,
         downloadVars, clientVars
<1>2. /\ Lanes \in [Places -> Seq(Frame)] /\ Lanes[i] = Lane(i) /\ i \in Places
      /\ wire[i] \in Seq(Frame) /\ cur[i] \in Seq(Frame) /\ chan[i] \in Seq(Frame)
  BY LanesFacts, PlacesFacts DEF TypeOK
<1>3. CASE WriterRecv(i) \/ WriterWrite(i)
  BY <1>1, <1>3, LanesKept, AccountKept
<1>4. CASE WriterDrained(i)
  <2>1. Lanes' = Lanes
    BY <1>1, <1>4 DEF WriterDrained, Lanes
  <2> QED BY <1>1, <2>1, AccountKept
<1>5. CASE WriterExit(i) /\ ~ dead
  <2>1. chan[i] = <<>> /\ chan'[i] = <<>>
    BY <1>5 DEF WriterExit, Handover, LeftWith, TypeOK
  <2>2. UNCHANGED <<wire, cur>> /\ chan' = [chan EXCEPT ![i] = <<>>]
    BY <1>5 DEF WriterExit
  <2>3. chan' = chan
    BY <2>1, <2>2 DEF TypeOK
  <2>4. Lanes' = Lanes
    BY <1>1, <2>2, <2>3 DEF Lanes
  <2> QED BY <1>1, <2>4, AccountKept
<1>6. CASE WriterExit(i) /\ dead
  <2> DEFINE a == wire[i] \o cur[i]
             c == chan[i]
             z == <<>>
  <2>1. a \in Seq(Frame) /\ c \in Seq(Frame) /\ z \in Seq(Frame)
    BY <1>2
  <2>2. UNCHANGED <<wire, cur>> /\ chan' = [chan EXCEPT ![i] = <<>>] /\ dead'
    BY <1>6 DEF WriterExit
  <2>3. Lane(i) = a \o c /\ Lane(i)' = a \o z
    BY <2>2 DEF Lane, TypeOK
  <2> HIDE DEF a, c
  <2>4. /\ a \o c \in Seq(Frame) /\ (a \o c) \o z = a \o c
        /\ Len(a) <= Len(a \o c) /\ \A j \in 1..Len(a) : a[j] = (a \o c)[j]
    BY <2>1, ConcatFacts, LenProperties
  <2> HIDE DEF z
  <2>5. Apart([Lanes EXCEPT ![i] = a \o z], got)
    <3> DEFINE u == a \o c
    <3>1. u \in Seq(Frame) /\ Lanes[i] = u \o z /\ Len(a) <= Len(u)
            /\ \A j \in 1..Len(a) : a[j] = u[j]
      BY <1>2, <2>3, <2>4
    <3> HIDE DEF u
    <3> QED BY <1>2, <2>1, <3>1, LaneLoses DEF Accounted
  <2>6. Lanes' = [Lanes EXCEPT ![i] = Lane(i)']
    <3>1. \A h \in Subflows \ {i} :
            wire'[h] = wire[h] /\ cur'[h] = cur[h] /\ chan'[h] = chan[h]
      BY <2>2 DEF TypeOK
    <3> QED BY <1>1, <3>1, LanesStep
  <2> QED BY <1>1, <2>2, <2>3, <2>5, <2>6, AccountKept DEF Failed
<1>7. CASE WriterFail(i)
  <2>1. PICK m \in 0..Len(wire[i]) : wire' = [wire EXCEPT ![i] = SubSeq(@, 1, m)]
    BY <1>7 DEF WriterFail
  <2>2. cur' = [cur EXCEPT ![i] = <<>>] /\ chan' = chan /\ dead'
    BY <1>7 DEF WriterFail
  <2> DEFINE w == wire[i]
             c == cur[i]
             z == chan[i]
             v == SubSeq(w, 1, m)
             u == w \o c
  <2>3. w \in Seq(Frame) /\ c \in Seq(Frame) /\ z \in Seq(Frame)
          /\ Lane(i) = u \o z /\ Lane(i)' = (v \o <<>>) \o z /\ m \in 0..Len(w)
    BY <1>2, <2>1, <2>2 DEF Lane, TypeOK
  <2> HIDE DEF w, c, z, u, v
  <2>4. v \in Seq(Frame) /\ Len(v) = m /\ Len(w) \in Nat /\ \A j \in 1..m : v[j] = w[j]
    BY <2>3, SubSeqProperties, LenProperties DEF v
  <2>5. u \in Seq(Frame) /\ Len(u) = Len(w) + Len(c) /\ Len(c) \in Nat
          /\ \A j \in 1..Len(w) : u[j] = w[j]
    BY <2>3, ConcatFacts, LenProperties DEF u
  <2>6. Len(v) <= Len(u) /\ \A j \in 1..Len(v) : v[j] = u[j]
    <3>1. Len(v) = m /\ m \in Nat /\ m <= Len(w) /\ Len(v) <= Len(u)
      BY <2>3, <2>4, <2>5
    <3>2. ASSUME NEW j \in 1..m PROVE v[j] = u[j]
      <4>1. v[j] = w[j]
        BY <2>4
      <4>2. j \in 1..Len(w)
        BY <2>4, <3>1
      <4> QED BY <2>5, <4>1, <4>2
    <3> QED BY <3>1, <3>2
  <2>7. v \o <<>> = v
    BY <2>4
  <2>8. Apart([Lanes EXCEPT ![i] = v \o z], got)
    BY <1>2, <2>3, <2>4, <2>5, <2>6, LaneLoses DEF Accounted
  <2>9. Lanes' = [Lanes EXCEPT ![i] = Lane(i)']
    <3>1. \A h \in Subflows \ {i} :
            wire'[h] = wire[h] /\ cur'[h] = cur[h] /\ chan'[h] = chan[h]
      BY <2>1, <2>2 DEF TypeOK
    <3> QED BY <1>1, <3>1, LanesStep
  <2> QED BY <1>1, <2>2, <2>3, <2>7, <2>8, <2>9, AccountKept DEF Failed
<1> QED
  BY <1>3, <1>4, <1>5, <1>6, <1>7 DEF Writer

LEMMA ReceiveAccount ==
  ASSUME TypeOK, StreamInv, Accounted, [Next]_vars,
         NEW i \in Subflows, ClientReceive(i)
  PROVE  Accounted'
<1>1. UNCHANGED <<item, offset, cur, chan>> /\ wire[i] # <<>>
        /\ wire' = [wire EXCEPT ![i] = Tail(@)]
  BY DEF ClientReceive, downloadVars, writerVars
<1>2. /\ Lanes \in [Places -> Seq(Frame)] /\ Lanes[i] = Lane(i) /\ i \in Places
      /\ wire[i] \in Seq(Frame) /\ cur[i] \in Seq(Frame) /\ chan[i] \in Seq(Frame)
  BY LanesFacts, PlacesFacts DEF TypeOK
<1>3. got' = got \cup Bytes(Head(wire[i]))
  <2>1. Head(wire[i]) \in Frame
    BY <1>1, <1>2
  <2>2. IsFin(Head(wire[i])) => Bytes(Head(wire[i])) = {}
    BY <2>1 DEF IsFin, Bytes, Frame
  <2> QED BY <2>2 DEF ClientReceive
<1>4. Lane(i) # <<>> /\ Lane(i)[1] = Head(wire[i]) /\ Lane(i)' = Tail(Lane(i))
  <2> DEFINE w == wire[i]
             c == cur[i]
             d == chan[i]
  <2>1. w \in Seq(Frame) /\ c \in Seq(Frame) /\ d \in Seq(Frame) /\ w # <<>>
          /\ Lane(i) = (w \o c) \o d /\ Lane(i)' = (Tail(w) \o c) \o d
    BY <1>1, <1>2 DEF Lane, TypeOK
  <2> HIDE DEF w, c, d
  <2>2. w \o c \in Seq(Frame) /\ (w \o c) # <<>> /\ (w \o c)[1] = w[1]
          /\ Tail(w \o c) = Tail(w) \o c
    BY <2>1, FrontFacts
  <2> DEFINE e == w \o c
  <2>3. e \in Seq(Frame) /\ e # <<>> /\ Lane(i) = e \o d /\ Lane(i)' = Tail(e) \o d
    BY <2>1, <2>2
  <2>4. e[1] = w[1] /\ w[1] = Head(wire[i])
    BY <2>1, <2>2 DEF w
  <2> HIDE DEF e
  <2>5. e \o d # <<>> /\ (e \o d)[1] = e[1] /\ Tail(e \o d) = Tail(e) \o d
    BY <2>1, <2>3, FrontFacts
  <2> QED BY <2>3, <2>4, <2>5
<1>5. Lanes' = [Lanes EXCEPT ![i] = Tail(Lanes[i])]
  <2>1. \A h \in Subflows \ {i} :
          wire'[h] = wire[h] /\ cur'[h] = cur[h] /\ chan'[h] = chan[h]
    BY <1>1 DEF TypeOK
  <2>2. Lanes' = [Lanes EXCEPT ![i] = Lane(i)']
    BY <1>1, <2>1, LanesStep
  <2> QED BY <1>2, <1>4, <2>2
<1>6. /\ Apart(Lanes', got')
      /\ \A o \in Nat : Complete(Lanes, got, o) => Complete(Lanes', got', o)
  <2> DEFINE M == [Lanes EXCEPT ![i] = Tail(Lanes[i])]
             H == got \cup Bytes(Lanes[i][1])
  <2>1. /\ Apart(M, H)
        /\ \A o \in Nat : Complete(Lanes, got, o) => Complete(M, H, o)
    BY <1>2, <1>4, LaneReceived DEF Accounted
  <2>2. M = Lanes' /\ H = got'
    BY <1>2, <1>3, <1>4, <1>5
  <2> QED BY <2>1, <2>2
<1> QED
  BY <1>1, <1>6, FailedStays DEF Accounted, TypeOK

LEMMA NextAccounted ==
  TypeOK /\ WithinOffset /\ StreamInv /\ Handover /\ Accounted /\ [Next]_vars => Accounted'
<1> SUFFICES ASSUME TypeOK, WithinOffset, StreamInv, Handover, Accounted, [Next]_vars
             PROVE  Accounted'
  OBVIOUS
<1>1. CASE Download
  BY <1>1, DownloadAccount
<1>2. CASE \E i \in Subflows : Writer(i) \/ WriterFail(i)
  BY <1>2, WriterAccount
<1>3. CASE \E i \in Subflows : ClientReceive(i)
  BY <1>3, ReceiveAccount
<1>4. CASE UploadFails
  <2>1. item' = <<>> /\ UNCHANGED <<chan, cur, wire, got, offset>>
    BY <1>4 DEF UploadFails, writerVars, clientVars
  <2>2. CASE pc # "ended"
    <3>1. Failed'
      BY <1>4, <2>2 DEF UploadFails, Failed
    <3> QED BY <2>1, <3>1, ItemLost, AccountKept
  <2>3. CASE pc = "ended"
    <3>1. item = <<>>
      BY <2>3 DEF Handover
    <3>2. Lanes' = Lanes
      BY <2>1, <3>1 DEF Lanes
    <3> QED BY <2>1, <3>2, AccountKept
  <2> QED BY <2>2, <2>3
<1>5. ASSUME UNCHANGED <<item, chan, cur, wire, got, offset>> PROVE Accounted'
  <2>1. Lanes' = Lanes
    BY <1>5 DEF Lanes
  <2> QED BY <1>5, <2>1, AccountKept
<1>6. CASE UploadCloses \/ ClientTake \/ Done \/ UNCHANGED vars
  BY <1>5, <1>6 DEF UploadCloses, ClientTake, Done, vars, downloadVars, writerVars,
                    clientVars
<1>7. ASSUME NEW i \in Joins, Reader(i) \/ ReaderExit(i) \/ ClientReport(i)
      PROVE  Accounted'
  BY <1>5, <1>7 DEF Reader, ReaderLoad, ReaderSwap,
                    ReaderEnable, ReaderNotify, ReaderExit,
                    ClientReport, downloadVars, writerVars, clientVars
<1> QED
  BY <1>1, <1>2, <1>3, <1>4, <1>6, <1>7 DEF Next

LEMMA InitAccounted == Init => Handover /\ Accounted
<1> SUFFICES ASSUME Init PROVE Handover /\ Accounted
  OBVIOUS
<1>1. Handover
  BY DEF Init, Handover, LeftWith
<1>2. \A i \in Places : Lanes[i] = <<>>
  <2>1. item = <<>> /\ \A i \in Subflows : wire[i] = <<>> /\ cur[i] = <<>> /\ chan[i] = <<>>
    BY DEF Init
  <2>2. \A i \in Subflows : Lane(i) = <<>>
    BY <2>1 DEF Lane
  <2>3. Lanes = [i \in Places |-> IF i = NSub THEN item ELSE Lane(i)]
    BY DEF Lanes, Lane, Places
  <2> QED BY <2>1, <2>2, <2>3, PlacesFacts
<1>3. Apart(Lanes, got)
  BY <1>2 DEF Apart, Holds
<1>4. Complete(Lanes, got, offset)
  BY DEF Complete, Init
<1> QED
  BY <1>1, <1>3, <1>4 DEF Accounted

(* The account says what EachByteOnce says.                                 *)
LEMMA AccountedOnce ==
  TypeOK /\ WithinOffset /\ Accounted => EachByteOnce
<1> SUFFICES ASSUME TypeOK, WithinOffset, Accounted PROVE EachByteOnce
  OBVIOUS
<1>1. Lanes \in [Places -> Seq(FrameUpTo(offset))] /\ offset \in Nat
  BY LanesFacts DEF TypeOK, WithinOffset
<1>2. \A c : c \in Carried <=> \E i \in Places : \E j \in 1..Len(Lanes[i]) :
                              \E b \in Bytes(Lanes[i][j]) : c = << <<i, j>>, b>>
  BY <1>1 DEF Carried, Places
<1>3. ASSUME NEW i \in Places, NEW j \in 1..Len(Lanes[i]), NEW b \in Bytes(Lanes[i][j])
      PROVE  /\ j \in Nat /\ b \in 0..(offset - 1) /\ Holds(Lanes, i, j, b)
             /\ b \notin got
  <2>1. Lanes[i][j] \in FrameUpTo(offset) /\ j \in Nat
    BY <1>1
  <2>2. b \in 0..(offset - 1)
    BY <1>1, <2>1, BytesFacts
  <2>3. Holds(Lanes, i, j, b)
    BY DEF Holds
  <2> QED BY <2>1, <2>2, <2>3 DEF Accounted, Apart
<1>4. ASSUME NEW c \in Carried, NEW d \in Carried, c[2] = d[2] PROVE c = d
  <2>1. PICK i, j, b : /\ c = << <<i, j>>, b>> /\ i \in Places /\ j \in 1..Len(Lanes[i])
                       /\ b \in Bytes(Lanes[i][j])
    BY <1>2
  <2>2. PICK h, l, e : /\ d = << <<h, l>>, e>> /\ h \in Places /\ l \in 1..Len(Lanes[h])
                       /\ e \in Bytes(Lanes[h][l])
    BY <1>2
  <2>3. b = e
    BY <1>4, <2>1, <2>2
  <2>4. /\ j \in Nat /\ b \in Nat /\ Holds(Lanes, i, j, b)
        /\ l \in Nat /\ Holds(Lanes, h, l, b)
    BY <1>1, <1>3, <2>1, <2>2, <2>3
  <2>5. i = h /\ j = l
    BY <2>1, <2>2, <2>4 DEF Accounted, Apart
  <2> QED BY <2>1, <2>2, <2>3, <2>5
<1> DEFINE onTheWay == { c[2] : c \in Carried }
<1>5. \A b : b \in onTheWay <=> \E i \in Places : \E j \in 1..Len(Lanes[i]) :
                                  b \in Bytes(Lanes[i][j])
  <2>1. ASSUME NEW c \in Carried
        PROVE  \E i \in Places : \E j \in 1..Len(Lanes[i]) : c[2] \in Bytes(Lanes[i][j])
    BY <1>2
  <2>2. ASSUME NEW i \in Places, NEW j \in 1..Len(Lanes[i]), NEW b \in Bytes(Lanes[i][j])
        PROVE  b \in onTheWay
    <3>1. << <<i, j>>, b>> \in Carried /\ << <<i, j>>, b>>[2] = b
      BY <1>2
    <3> QED BY <3>1
  <2> QED BY <2>1, <2>2
<1> HIDE DEF onTheWay
<1>6. got \cap onTheWay = {} /\ got \cup onTheWay \subseteq 0..(offset - 1)
  <2>1. got \subseteq 0..(offset - 1)
    BY <1>1 DEF TypeOK, WithinOffset
  <2> QED BY <1>3, <1>5, <2>1
<1>7. Failed \/ 0..(offset - 1) \subseteq got \cup onTheWay
  BY <1>5 DEF Accounted, Complete, Holds
<1> QED
  BY <1>4, <1>6, <1>7 DEF EachByteOnce, onTheWay

(* Striping neither loses, repeats nor invents a byte, for every number of  *)
(* subflows, every depth of queue and every set of connections that fail:   *)
(* each byte read from the target is with the client or in one frame on its *)
(* way, unless the session has failed.                                      *)
THEOREM BytesPartitioned == Spec => []EachByteOnce
<1>1. Init => StreamInv
  BY SubflowsFacts DEF Init, StreamInv, Scheduling
<1>2. TypeOK /\ StreamInv /\ [Next]_vars => StreamInv'
  BY NextStream
<1>3. TypeOK /\ Handover /\ [Next]_vars => Handover'
  BY NextHandover
<1>4. TypeOK /\ WithinOffset /\ StreamInv /\ Handover /\ Accounted /\ [Next]_vars => Accounted'
  BY NextAccounted
<1>5. TypeOK /\ WithinOffset /\ Accounted => EachByteOnce
  BY AccountedOnce
<1>6. CreditInv => TypeOK /\ WithinOffset
  BY DEF CreditInv
<1> QED
  BY <1>1, <1>2, <1>3, <1>4, <1>5, <1>6, InitAccounted, CreditInvariant, PTL DEF Spec

-----------------------------------------------------------------------------
(* The wait for credit.  The frame under the loop is at most one chunk and  *)
(* so never fills the window by itself: something past the consumed count   *)
(* was enqueued, and the account says where it is.                          *)
ReadBound == n <= Chunk

LEMMA NextReadBound == TypeOK /\ ReadBound /\ [Next]_vars => ReadBound'
<1> SUFFICES ASSUME TypeOK, ReadBound, [Next]_vars PROVE ReadBound'
  OBVIOUS
<1>0. Chunk \in Nat
  BY SizesAssumption
<1> USE DEF ReadBound
<1>1. CASE ReadTarget
  BY <1>0, <1>1 DEF ReadTarget
<1>2. CASE Send \/ SendClosed
  BY <1>0, <1>2 DEF Send, SendClosed
<1>3. CASE Download /\ ~ (ReadTarget \/ Send \/ SendClosed)
  <2>1. n' = n
    BY <1>3 DEF Download, SeeDead, ReadEof, ReadError, CreditPass, CreditStall,
                CreditWake, CreditGiveUp, Encode, ScanQueue, ScanDone, SendFin,
                FinsSent, JoinWriters
  <2> QED BY <2>1
<1>4. ASSUME NEW i \in Subflows, Writer(i) \/ WriterFail(i) \/ ClientReceive(i)
      PROVE  ReadBound'
  BY <1>4 DEF Writer, WriterRecv, WriterWrite, WriterDrained, WriterExit, WriterFail,
              ClientReceive, downloadVars
<1>5. ASSUME NEW i \in Joins, Reader(i) \/ ReaderExit(i) \/ ClientReport(i)
      PROVE  ReadBound'
  BY <1>5 DEF Reader, ReaderLoad, ReaderSwap,
              ReaderEnable, ReaderNotify, ReaderExit,
              ClientReport, downloadVars
<1>6. CASE UploadCloses \/ UploadFails \/ ClientTake \/ Done \/ UNCHANGED vars
  BY <1>6 DEF UploadCloses, UploadFails, ClientTake, Done, vars, downloadVars
<1> QED
  BY <1>1, <1>2, <1>3, <1>4, <1>5, <1>6 DEF Next

(* At the wait for credit the writers of a session that has not failed run, *)
(* and what is below the offset and not received is in their lanes.         *)
LEMMA WaitRunsWriters ==
  ASSUME TypeOK, Handover, Accounted, pc = "await", ~ Failed,
         NEW b \in 0..(offset - 1)
  PROVE  \/ b \in got
         \/ \E i \in Subflows :
              writer[i] = "run" /\ \E j \in DOMAIN Lanes[i] : b \in Bytes(Lanes[i][j])
<1>1. Complete(Lanes, got, offset) /\ ~ dead /\ ~ SendersDropped
  BY DEF Accounted, Failed, SendersDropped
<1>2. item = <<>> /\ \A i \in Subflows : writer[i] = "run"
  BY <1>1 DEF Handover, LeftWith
<1>3. /\ Lanes \in [Places -> Seq(Frame)] /\ Lanes[NSub] = item
      /\ Places = Subflows \cup {NSub}
  BY LanesFacts, PlacesFacts DEF TypeOK
<1>4. ASSUME NEW i \in Places, NEW j \in Nat, Holds(Lanes, i, j, b)
      PROVE  i \in Subflows /\ j \in DOMAIN Lanes[i] /\ b \in Bytes(Lanes[i][j])
  <2>1. j \in 1..Len(Lanes[i]) /\ b \in Bytes(Lanes[i][j])
    BY <1>4 DEF Holds
  <2>2. Lanes[i] \in Seq(Frame) /\ DOMAIN Lanes[i] = 1..Len(Lanes[i])
    BY <1>3
  <2>3. Lanes[i] # <<>>
    BY <2>1, <2>2
  <2> QED BY <1>2, <1>3, <2>1, <2>2, <2>3
<1> QED
  BY <1>1, <1>2, <1>4 DEF Complete

LEMMA StallAnswered ==
  TypeOK /\ CreditSound /\ ReadBound /\ NoLostWakeup /\ Handover /\ Accounted
    => StallHasRemedy
<1> SUFFICES ASSUME TypeOK, CreditSound, ReadBound, NoLostWakeup, Handover, Accounted,
                    pc = "await", ~ notified, ~ Failed, ~ (consumed < taken),
                    ~ \E i \in Joins : reader[i] \in {"enable", "notify"}
             PROVE  \/ taken \in got
                    \/ \E i \in Subflows :
                         /\ writer[i] = "run"
                         /\ \E j \in DOMAIN Lanes[i] : taken \in Bytes(Lanes[i][j])
  BY DEF StallHasRemedy
<1>1. offset + n - consumed >= Window
  BY DEF NoLostWakeup, Blocked
<1>2. taken \in 0..(offset - 1)
  <2>1. /\ offset \in Nat /\ n \in Nat /\ consumed \in Nat /\ taken \in Nat
        /\ Window \in Nat /\ Chunk \in Nat /\ Chunk < Window
    BY SizesAssumption DEF TypeOK
  <2>2. consumed <= taken /\ ~ (consumed < taken) /\ n <= Chunk
    BY DEF CreditSound, ReadBound
  <2> QED BY <1>1, <2>1, <2>2
<1> QED
  BY <1>2, WaitRunsWriters

(* The credit window cannot lock the session up, whatever the sizes, the    *)
(* number of subflows and the order in which reports overtake each other:   *)
(* while the loop sleeps for credit, somebody else can go on.               *)
THEOREM CreditNeverLocks == Spec => []StallHasRemedy
<1>1. Init => StreamInv
  BY SubflowsFacts DEF Init, StreamInv, Scheduling
<1>2. Init => ReadBound
  BY SizesAssumption DEF Init, ReadBound
<1>3. TypeOK /\ ReadBound /\ [Next]_vars => ReadBound'
  BY NextReadBound
<1>4. TypeOK /\ StreamInv /\ [Next]_vars => StreamInv'
  BY NextStream
<1>5. TypeOK /\ Handover /\ [Next]_vars => Handover'
  BY NextHandover
<1>6. TypeOK /\ WithinOffset /\ StreamInv /\ Handover /\ Accounted /\ [Next]_vars => Accounted'
  BY NextAccounted
<1>7. CreditInv => TypeOK /\ WithinOffset
  BY DEF CreditInv
<1>8. TypeOK /\ CreditSound /\ ReadBound /\ NoLostWakeup /\ Handover /\ Accounted
        => StallHasRemedy
  BY StallAnswered
<1> QED
  BY <1>1, <1>2, <1>3, <1>4, <1>5, <1>6, <1>7, <1>8, InitAccounted, CreditInvariant,
     CreditIsSound, WakeupsNotLost, PTL DEF Spec
=============================================================================
