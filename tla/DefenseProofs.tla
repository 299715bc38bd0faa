---------------------------- MODULE DefenseProofs ----------------------------
(***************************************************************************)
(* Theorems about Defense, for every number of connections, failure limit, *)
(* window, multiplier and width of the power, whether it wraps or panics.  *)
(***************************************************************************)
EXTENDS Defense, FiniteSetTheorems, TLAPS

NumTasks == Cardinality(Tasks)
Handshakes == Cardinality(In("handshake"))
Pending == Cardinality(In("ban"))

Full == Live /\ failures >= MaxFailures
FirstPending == \E t \in In("ban") : level[t] = 1

(* While the window is live and full, either the ban reaches its end and    *)
(* nobody is admitted any more, or each failure past the limit is one of    *)
(* the tasks that are about to ban.                                         *)
Covered ==
  /\ banLeft >= Window - windowAge
  /\ failures + Handshakes <= MaxFailures - 1 + NumTasks
Uncovered == failures <= MaxFailures - 1 + Pending

DefenseInv ==
  /\ TypeOK
  /\ BoundedFailures
  /\ \A t \in In("ban") : level[t] \in Nat \ {0}
  /\ Full /\ "zero" \notin lost => FirstPending \/ banLeft >= Window - windowAge
  /\ Full /\ lost = {} => Covered \/ Uncovered

-----------------------------------------------------------------------------
(* Induction: a set of numbers has a least one, since the sets of numbers   *)
(* below its members are finite.                                            *)
LEMMA Least ==
  ASSUME NEW S \in SUBSET Nat, S # {}
  PROVE  \E x \in S : \A y \in S : x <= y
<1>. DEFINE Below(x) == 0..(x - 1)
            T == { Below(x) : x \in S }
            R == StrictSubsetOrdering(Nat)
<1>1. IsWellFoundedOn(R, FiniteSubsetsOf(Nat))
  BY FS_StrictSubsetOrderingWellFounded
<1>2. T \subseteq FiniteSubsetsOf(Nat)
  <2>1. ASSUME NEW x \in S PROVE IsFiniteSet(Below(x)) /\ Below(x) \subseteq Nat
    BY FS_Interval
  <2>. QED
    BY <2>1 DEF FiniteSubsetsOf
<1>3. T # {}
  OBVIOUS
<1>. HIDE DEF T, R
<1>4. PICK m \in T : \A t \in T : ~ (<<t, m>> \in R)
  BY <1>1, <1>2, <1>3, WFMin, Zenon
<1>5. PICK x \in S : m = Below(x)
  BY DEF T
<1>6. ASSUME NEW y \in S, ~ (x <= y) PROVE FALSE
  <2>1. Below(y) \in T /\ Below(y) \in SUBSET Nat /\ m \in SUBSET Nat
    BY <1>5 DEF T
  <2>2. Below(y) \subseteq m /\ Below(y) # m
    <3>1. x \in Nat /\ y \in Nat /\ y < x
      BY <1>6
    <3>2. y \in Below(x) /\ y \notin Below(y)
      BY <3>1
    <3>. QED
      BY <1>5, <3>1, <3>2
  <2>3. <<Below(y), m>> \in R
    BY <2>1, <2>2 DEF R, StrictSubsetOrdering
  <2>. QED
    BY <2>1, <2>3, <1>4
<1>. QED
  BY <1>6

LEMMA Induct ==
  ASSUME NEW G, 0 \in G, \A n \in Nat : n \in G => n + 1 \in G
  PROVE  Nat \subseteq G
<1>1. SUFFICES ASSUME Nat \ G # {} PROVE FALSE
  OBVIOUS
<1>2. PICK x \in Nat \ G : \A y \in Nat \ G : x <= y
  BY <1>1, Least
<1>3. x # 0 /\ x - 1 \in Nat /\ x - 1 \in G
  BY <1>2
<1>. QED
  BY <1>2, <1>3

-----------------------------------------------------------------------------
(* Power exists, as a function into the natural numbers; so a ban has no    *)
(* length at all or at least that of the window.                            *)

PowerUpTo(g, k) ==
  /\ g[0] = 1
  /\ \A i \in 1..k : g[i] = (g[i - 1] * Multiplier) % Word

LEMMA PowerUpToStep ==
  ASSUME NEW k \in Nat, NEW g \in [Nat -> Nat], PowerUpTo(g, k)
  PROVE  \E h \in [Nat -> Nat] : PowerUpTo(h, k + 1)
<1>. DEFINE p == (g[k] * Multiplier) % Word
            h == [g EXCEPT ![k + 1] = p]
<1>1. p \in Nat
  BY ConfigAssumption
<1>2. h \in [Nat -> Nat] /\ h[k + 1] = p /\ \A i \in 0..k : h[i] = g[i]
  BY <1>1
<1>. HIDE DEF h, p
<1>3. \A i \in 1..(k + 1) : h[i] = (h[i - 1] * Multiplier) % Word
  <2>. TAKE i \in 1..(k + 1)
  <2>1. CASE i = k + 1
    <3>1. h[i - 1] = g[k]
      BY <1>2, <2>1
    <3>. QED
      BY <1>2, <2>1, <3>1 DEF p
  <2>2. CASE i # k + 1
    <3>1. i \in 1..k /\ i \in 0..k /\ i - 1 \in 0..k
      BY <2>2
    <3>2. h[i] = g[i] /\ h[i - 1] = g[i - 1]
      BY <1>2, <3>1
    <3>. QED
      BY <3>1, <3>2 DEF PowerUpTo
  <2>. QED
    BY <2>1, <2>2
<1>4. h[0] = 1
  BY <1>2 DEF PowerUpTo
<1>. QED
  BY <1>2, <1>3, <1>4 DEF PowerUpTo

LEMMA PowerUpToExists == \A k \in Nat : \E g \in [Nat -> Nat] : PowerUpTo(g, k)
<1>. DEFINE G == { k \in Nat : \E g \in [Nat -> Nat] : PowerUpTo(g, k) }
<1>1. 0 \in G
  <2>1. [i \in Nat |-> 1] \in [Nat -> Nat] /\ PowerUpTo([i \in Nat |-> 1], 0)
    BY DEF PowerUpTo
  <2>. QED
    BY <2>1
<1>2. \A k \in Nat : k \in G => k + 1 \in G
  BY PowerUpToStep
<1>3. Nat \subseteq G
  <2>. HIDE DEF G
  <2>. QED
    BY <1>1, <1>2, Induct
<1>. QED
  BY <1>3

(* Two of them agree as far as both go.                                     *)
LEMMA PowerUpToUnique ==
  ASSUME NEW k \in Nat, NEW n \in Nat, k <= n,
         NEW g \in [Nat -> Nat], PowerUpTo(g, k),
         NEW h \in [Nat -> Nat], PowerUpTo(h, n)
  PROVE  g[k] = h[k]
<1>. DEFINE G == { i \in Nat : i <= k => g[i] = h[i] }
<1>1. 0 \in G
  BY DEF PowerUpTo
<1>2. ASSUME NEW i \in Nat, i \in G PROVE i + 1 \in G
  <2>. SUFFICES ASSUME i + 1 <= k PROVE g[i + 1] = h[i + 1]
    OBVIOUS
  <2>1. i + 1 \in 1..k /\ i + 1 \in 1..n /\ (i + 1) - 1 = i /\ g[i] = h[i]
    BY <1>2
  <2>. QED
    BY <2>1 DEF PowerUpTo
<1>3. Nat \subseteq G
  <2>. HIDE DEF G
  <2>. QED
    BY <1>1, <1>2, Induct
<1>. QED
  BY <1>3

PowerOf(f) == f = [i \in Nat |-> IF i = 0 THEN 1 ELSE (f[i - 1] * Multiplier) % Word]

LEMMA PowerExists == \E f \in [Nat -> Nat] : PowerOf(f)
<1>. DEFINE G(k) == CHOOSE g \in [Nat -> Nat] : PowerUpTo(g, k)
            f == [k \in Nat |-> G(k)[k]]
<1>1. \A k \in Nat : G(k) \in [Nat -> Nat] /\ PowerUpTo(G(k), k)
  BY PowerUpToExists
<1>. HIDE DEF G
<1>2. f \in [Nat -> Nat] /\ \A k \in Nat : f[k] = G(k)[k]
  BY <1>1
<1>. HIDE DEF f
<1>3. ASSUME NEW i \in Nat
      PROVE  f[i] = IF i = 0 THEN 1 ELSE (f[i - 1] * Multiplier) % Word
  <2>1. CASE i = 0
    BY <1>1, <1>2, <2>1 DEF PowerUpTo
  <2>2. CASE i # 0
    <3>1. i - 1 \in Nat /\ i - 1 <= i /\ i \in 1..i
      BY <2>2
    <3>2. G(i - 1)[i - 1] = G(i)[i - 1]
      BY <1>1, <3>1, PowerUpToUnique
    <3>3. G(i)[i] = (G(i)[i - 1] * Multiplier) % Word
      BY <1>1, <3>1 DEF PowerUpTo
    <3>. QED
      BY <1>2, <2>2, <3>1, <3>2, <3>3
  <2>. QED
    BY <2>1, <2>2
<1>4. f = [i \in Nat |-> f[i]]
  BY <1>2
<1>5. PowerOf(f)
  <2>. DEFINE F(i) == IF i = 0 THEN 1 ELSE (f[i - 1] * Multiplier) % Word
  <2>1. \A i \in Nat : f[i] = F(i)
    BY <1>3
  <2>. HIDE DEF F
  <2>2. f = [i \in Nat |-> F(i)]
    BY <1>4, <2>1
  <2>. QED
    BY <2>2 DEF PowerOf, F
<1>. QED
  BY <1>2, <1>5

LEMMA PowerIs == Power[0] = 1 /\ \A i \in Nat : Power[i] \in Nat
<1>1. PowerOf(Power)
  BY PowerExists DEF Power, PowerOf
<1>2. PICK f : f = Power
  OBVIOUS
<1>. DEFINE F(i) == IF i = 0 THEN 1 ELSE (f[i - 1] * Multiplier) % Word
<1>3. f = [i \in Nat |-> F(i)]
  BY <1>1, <1>2 DEF PowerOf
<1>4. f[0] = 1
  <2>1. F(0) = 1
    OBVIOUS
  <2>. HIDE DEF F
  <2>. QED
    BY <1>3, <2>1
<1>5. \A i \in Nat : i # 0 => f[i] = (f[i - 1] * Multiplier) % Word
  <2>1. \A i \in Nat : i # 0 => F(i) = (f[i - 1] * Multiplier) % Word
    OBVIOUS
  <2>. HIDE DEF F
  <2>. QED
    BY <1>3, <2>1
<1>. DEFINE G == { i \in Nat : f[i] \in Nat }
<1>. HIDE DEF F
<1>6. \A n \in Nat : n \in G => n + 1 \in G
  <2>. SUFFICES ASSUME NEW n \in Nat, f[n] \in Nat PROVE f[n + 1] \in Nat
    OBVIOUS
  <2>1. n + 1 # 0 /\ (n + 1) - 1 = n /\ n + 1 \in Nat
    OBVIOUS
  <2>2. f[n + 1] = (f[n] * Multiplier) % Word
    BY <1>5, <2>1
  <2>. QED
    BY <2>2, ConfigAssumption
<1>7. 0 \in G
  BY <1>4
<1>8. Nat \subseteq G
  <2>. HIDE DEF G
  <2>. QED
    BY <1>6, <1>7, Induct
<1>. QED
  BY <1>2, <1>4, <1>8

LEMMA DurationIs ==
  /\ \A l \in Nat \ {0} : Duration(l) = 0 \/ Duration(l) \in Window..MaxBan
  /\ ~ Overflows(0)
<1>1. ASSUME NEW l \in Nat \ {0} PROVE Duration(l) = 0 \/ Duration(l) \in Window..MaxBan
  <2>1. PICK p \in Nat : p = Power[l - 1]
    BY PowerIs
  <2>2. InitialBan * p \in Nat /\ (p = 0 => InitialBan * p = 0)
    BY ConfigAssumption
  <2>3. p # 0 => InitialBan * p >= InitialBan
    BY ConfigAssumption
  <2>. QED
    BY <2>1, <2>2, <2>3, ConfigAssumption DEF Duration
<1>. QED
  BY <1>1 DEF Overflows

-----------------------------------------------------------------------------
(* How many tasks are where.                                                *)

LEMMA Counts ==
  ASSUME TypeOK
  PROVE  /\ NumTasks \in Nat /\ Handshakes \in Nat /\ Pending \in Nat
         /\ Handshakes + Pending <= NumTasks
<1> DEFINE H == In("handshake")
           B == In("ban")
<1>1. H \subseteq Tasks /\ B \subseteq Tasks /\ H \cap B = {}
  BY DEF In
<1>2. IsFiniteSet(H) /\ IsFiniteSet(B)
  BY <1>1, FS_Subset, TasksAssumption
<1>3. Cardinality(H \cup B) = Cardinality(H) + Cardinality(B) - Cardinality({})
  BY <1>1, <1>2, FS_Union
<1>4. H \cup B \in SUBSET Tasks
  BY <1>1
<1>5. Cardinality(H \cup B) <= NumTasks
  BY <1>4, FS_Subset, TasksAssumption DEF NumTasks
<1>6. Cardinality(H) \in Nat /\ Cardinality(B) \in Nat /\ NumTasks \in Nat
  BY <1>2, FS_CardinalityType, TasksAssumption DEF NumTasks
<1> QED
  BY <1>3, <1>5, <1>6, FS_EmptySet DEF Handshakes, Pending

LEMMA HandshakeLeft ==
  ASSUME TypeOK, NEW t \in In("handshake"), NEW s \in {"idle", "ban"},
         task' = [task EXCEPT ![t] = s]
  PROVE  /\ Handshakes' = Handshakes - 1
         /\ Pending' = IF s = "ban" THEN Pending + 1 ELSE Pending
<1>1. In("handshake")' = In("handshake") \ {t}
  BY DEF In, TypeOK
<1>2. In("ban")' = IF s = "ban" THEN In("ban") \cup {t} ELSE In("ban")
  BY DEF In, TypeOK
<1>3. t \notin In("ban")
  BY DEF In
<1>4. IsFiniteSet(In("handshake")) /\ IsFiniteSet(In("ban"))
  BY FS_Subset, TasksAssumption DEF In
<1>5. Handshakes' = Handshakes - 1
  BY <1>1, <1>4, FS_RemoveElement DEF Handshakes
<1>6. Pending' = IF s = "ban" THEN Pending + 1 ELSE Pending
  BY <1>2, <1>3, <1>4, FS_AddElement DEF Pending
<1> QED
  BY <1>5, <1>6

-----------------------------------------------------------------------------
LEMMA ZeroInRange == 0 \in 0..(2 * Window) /\ 0 \in 0..MaxBan
  BY ConfigAssumption

LEMMA InitInv == Init => DefenseInv
<1> SUFFICES ASSUME Init PROVE DefenseInv
  OBVIOUS
<1>1. TypeOK
  BY ZeroInRange DEF Init, TypeOK
<1>2. BoundedFailures
  BY <1>1, Counts, ConfigAssumption DEF Init, BoundedFailures, NumTasks
<1> QED
  BY <1>1, <1>2 DEF Init, DefenseInv, Full, In, Live

LEMMA AdmitInv ==
  ASSUME DefenseInv, NEW t \in Tasks, Admit(t)
  PROVE  DefenseInv'
<1>1. TypeOK'
  BY DEF DefenseInv, TypeOK, Admit
<1>2. In("ban")' = In("ban")
  BY DEF In, Admit, DefenseInv, TypeOK
<1>3. Full /\ lost = {} => Uncovered
  BY ConfigAssumption DEF DefenseInv, Covered, Full, Live, Admit, TypeOK
<1>4. Full' /\ lost' = {} => Uncovered'
  BY <1>2, <1>3 DEF Admit, Full, Live, Uncovered, Pending
<1>5. FirstPending => FirstPending'
  BY <1>2 DEF FirstPending, Admit
<1> QED
  BY <1>1, <1>2, <1>4, <1>5 DEF DefenseInv, Admit, BoundedFailures, Full, Live

LEMMA SucceedInv ==
  ASSUME DefenseInv, NEW t \in Tasks, Succeed(t)
  PROVE  DefenseInv'
<1>1. TypeOK'
  BY DEF DefenseInv, TypeOK, Succeed
<1>2. Handshakes' = Handshakes - 1 /\ Pending' = Pending
  BY HandshakeLeft DEF Succeed, In, DefenseInv
<1>3. In("ban")' = In("ban")
  BY DEF In, Succeed, DefenseInv, TypeOK
<1>4. Covered => Covered'
  BY <1>2, Counts, ConfigAssumption
     DEF Succeed, Covered, DefenseInv, TypeOK, NumTasks
<1>5. Uncovered => Uncovered'
  BY <1>2 DEF Succeed, Uncovered
<1>6. FirstPending => FirstPending'
  BY <1>3 DEF FirstPending, Succeed
<1> QED
  BY <1>1, <1>3, <1>4, <1>5, <1>6 DEF DefenseInv, Succeed, BoundedFailures, Full, Live

LEMMA FailInv ==
  ASSUME DefenseInv, NEW t \in Tasks, Fail(t)
  PROVE  DefenseInv'
<1>1. TypeOK /\ task[t] = "handshake" /\ t \in In("handshake")
  BY DEF DefenseInv, Fail, In
<1>2. Counted \in Nat \ {0} /\ failures' = Counted
  BY <1>1 DEF Counted, TypeOK, Fail
<1>3. /\ NumTasks \in Nat /\ Handshakes \in Nat /\ Pending \in Nat
      /\ Handshakes + Pending <= NumTasks
  BY <1>1, Counts
<1>4. IsFiniteSet(In("handshake"))
  BY FS_Subset, TasksAssumption DEF In
<1>5. Handshakes # 0
  BY <1>1, <1>4, FS_EmptySet DEF Handshakes
<1>6. CASE Counted < MaxFailures
  <2>1. task' = [task EXCEPT ![t] = "idle"] /\ level' = level
          /\ tracked' = TRUE /\ windowAge' \in {0, windowAge} /\ banLeft' = banLeft
          /\ lost' \in {{}, lost}
    BY <1>2, <1>6, ConfigAssumption DEF Fail
  <2>2. TypeOK'
    <3>1. lost' \subseteq {"zero", "panic"}
      BY <1>1, <2>1 DEF TypeOK
    <3>. QED
      BY <1>1, <1>2, <2>1, <3>1, ZeroInRange DEF TypeOK
  <2>3. In("ban")' = In("ban")
    BY <1>1, <2>1 DEF In, TypeOK
  <2>4. BoundedFailures'
    BY <1>2, <1>3, <1>6, ConfigAssumption DEF BoundedFailures, NumTasks
  <2>5. ~ Full'
    BY <1>2, <1>6, ConfigAssumption DEF Full
  <2> QED
    BY <2>1, <2>2, <2>3, <2>4, <2>5 DEF DefenseInv
<1>7. CASE Counted >= MaxFailures
  <2>1. task' = [task EXCEPT ![t] = "ban"]
          /\ level' = [level EXCEPT ![t] = Counted - MaxFailures + 1]
          /\ tracked' = TRUE /\ banLeft' = banLeft
          /\ windowAge' = (IF Live THEN windowAge ELSE 0)
          /\ lost' = (IF Live THEN lost ELSE {})
    BY <1>7 DEF Fail
  <2>2. TypeOK'
    BY <1>1, <1>2, <1>7, <2>1, ConfigAssumption DEF TypeOK
  <2>3. Handshakes' = Handshakes - 1 /\ Pending' = Pending + 1
    BY <1>1, <2>1, HandshakeLeft
  <2>4. In("ban")' = In("ban") \cup {t}
    BY <1>1, <2>1 DEF In, TypeOK
  <2>5. ASSUME Full, lost = {}
        PROVE  Covered' \/ Uncovered'
    <3>1. Counted = failures + 1 /\ windowAge' = windowAge
      BY <2>1, <2>5 DEF Counted, Full
    <3>2. Covered => Covered'
      BY <1>1, <1>2, <1>3, <2>1, <2>3, <3>1, ConfigAssumption
         DEF Covered, TypeOK, NumTasks
    <3>3. Uncovered => Uncovered'
      BY <1>1, <1>2, <1>3, <2>3, <3>1, ConfigAssumption DEF Uncovered, TypeOK
    <3> QED BY <2>5, <3>2, <3>3 DEF DefenseInv
  <2>6. ASSUME ~ Full
        PROVE  /\ Uncovered'
               /\ level'[t] = 1
    <3>1. Counted = MaxFailures
      BY <1>1, <1>2, <1>7, <2>6, ConfigAssumption DEF Counted, Full, TypeOK
    <3>2. Counted - MaxFailures + 1 = 1 /\ level \in [Tasks -> Nat]
      BY <1>1, <3>1, ConfigAssumption DEF TypeOK
    <3> QED BY <1>2, <1>3, <2>1, <2>3, <3>1, <3>2, ConfigAssumption DEF Uncovered
  <2>7. lost' = {} => Covered' \/ Uncovered'
    BY <2>1, <2>5, <2>6 DEF Full
  <2>8. /\ Handshakes' \in Nat /\ Pending' \in Nat
        /\ Handshakes' + Pending' <= NumTasks
    BY <1>3, <1>5, <2>3
  <2>9. BoundedFailures'
    <3> SUFFICES ASSUME lost' = {} PROVE failures' <= MaxFailures - 1 + NumTasks
      BY DEF BoundedFailures, NumTasks
    <3> DEFINE limit == MaxFailures - 1
    <3>1. failures' \in Nat /\ limit \in Nat
      BY <1>2, ConfigAssumption
    <3>2. Uncovered' => failures' <= limit + Pending'
      BY DEF Uncovered
    <3>3. Covered' => failures' + Handshakes' <= limit + NumTasks
      BY DEF Covered, NumTasks
    <3> HIDE DEF limit
    <3>4. \A f, m, h, p, n \in Nat :
            h + p <= n /\ (f <= m + p \/ f + h <= m + n) => f <= m + n
      OBVIOUS
    <3>5. failures' <= limit + Pending' \/ failures' + Handshakes' <= limit + NumTasks
      BY <2>7, <3>2, <3>3
    <3>6. failures' <= limit + NumTasks
      BY <1>3, <2>8, <3>1, <3>4, <3>5
    <3> QED BY <3>6 DEF limit
  <2>10. Counted - MaxFailures + 1 \in Nat \ {0}
    BY <1>2, <1>7, ConfigAssumption
  <2>11. \A u \in In("ban")' : level'[u] \in Nat \ {0}
    BY <1>1, <2>1, <2>4, <2>10 DEF DefenseInv, TypeOK
  <2>12. "zero" \notin lost' => FirstPending' \/ banLeft' >= Window - windowAge'
    <3>1. CASE ~ Full
      BY <2>4, <2>6, <3>1 DEF FirstPending
    <3>2. CASE Full
      <4>1. windowAge' = windowAge /\ lost' = lost /\ banLeft' = banLeft
        BY <2>1, <3>2 DEF Full
      <4>2. \A u \in In("ban") : u # t /\ u \in In("ban")' /\ level'[u] = level[u]
        BY <1>1, <2>1, <2>4 DEF In, TypeOK
      <4>3. FirstPending => FirstPending'
        BY <4>2 DEF FirstPending
      <4> QED BY <3>2, <4>1, <4>3 DEF DefenseInv
    <3> QED BY <3>1, <3>2
  <2> QED
    BY <2>2, <2>7, <2>9, <2>11, <2>12 DEF DefenseInv
<1> QED
  BY <1>2, <1>6, <1>7, ConfigAssumption

LEMMA BanIpInv ==
  ASSUME DefenseInv, NEW t \in Tasks, BanIp(t)
  PROVE  DefenseInv'
<1>1. t \in In("ban") /\ TypeOK /\ level[t] \in Nat \ {0}
  BY DEF BanIp, In, DefenseInv
<1>2. /\ task' = [task EXCEPT ![t] = "idle"] /\ level' = [level EXCEPT ![t] = 0]
      /\ UNCHANGED <<tracked, failures, windowAge>>
  BY DEF BanIp
<1>3. \/ banLeft' \in Window..MaxBan /\ lost' = lost
      \/ banLeft' = 0 /\ lost' = lost \cup {"zero"}
      \/ banLeft' = banLeft /\ lost' = lost \cup {"panic"} /\ level[t] # 1
  BY <1>1, DurationIs, ConfigAssumption DEF BanIp
<1>4. TypeOK'
  <2>1. /\ task' \in [Tasks -> {"idle", "handshake", "ban"}]
        /\ level' \in [Tasks -> Nat]
    BY <1>1, <1>2 DEF TypeOK
  <2>2. banLeft' \in 0..MaxBan
    BY <1>1, <1>3, ZeroInRange, ConfigAssumption DEF TypeOK
  <2>3. lost' \subseteq {"zero", "panic"}
    BY <1>1, <1>3 DEF TypeOK
  <2>. QED
    BY <1>1, <1>2, <2>1, <2>2, <2>3 DEF TypeOK
<1>5. In("handshake")' = In("handshake") /\ In("ban")' = In("ban") \ {t}
  BY <1>1, <1>2 DEF In, TypeOK
<1>6. Handshakes' = Handshakes
  BY <1>5 DEF Handshakes
<1>7. Full' => Full
  BY <1>2 DEF Full, Live
<1>8. Full' /\ lost' = {} => Covered'
  <2>. SUFFICES ASSUME Full', lost' = {} PROVE Covered'
    OBVIOUS
  <2>1. lost = {} /\ banLeft' \in Window..MaxBan
    BY <1>3
  <2>2. failures + Handshakes <= MaxFailures - 1 + NumTasks
    BY <1>1, <1>7, <2>1, Counts, ConfigAssumption
       DEF DefenseInv, Covered, Uncovered, TypeOK
  <2>. QED
    BY <1>1, <1>2, <1>6, <2>1, <2>2, ConfigAssumption DEF Covered, TypeOK, NumTasks
<1>9. Full' /\ "zero" \notin lost' => FirstPending' \/ banLeft' >= Window - windowAge'
  <2>. SUFFICES ASSUME Full', "zero" \notin lost'
                PROVE  FirstPending' \/ banLeft' >= Window - windowAge'
    OBVIOUS
  <2>1. CASE banLeft' \in Window..MaxBan
    BY <1>1, <1>2, <2>1, ConfigAssumption DEF TypeOK
  <2>2. CASE banLeft' = banLeft /\ lost' = lost \cup {"panic"} /\ level[t] # 1
    <3>1. FirstPending \/ banLeft >= Window - windowAge
      BY <1>7, <2>2 DEF DefenseInv
    <3>2. FirstPending => FirstPending'
      BY <1>1, <1>2, <1>5, <2>2 DEF FirstPending, TypeOK, In
    <3>. QED BY <1>2, <2>2, <3>1, <3>2
  <2>. QED
    BY <1>3, <2>1, <2>2
<1>10. \A u \in In("ban")' : level'[u] \in Nat \ {0}
  BY <1>1, <1>2, <1>5 DEF DefenseInv, TypeOK, In
<1>11. BoundedFailures'
  <2>1. lost' = {} => lost = {}
    BY <1>3
  <2>. QED
    BY <1>2, <2>1 DEF DefenseInv, BoundedFailures
<1> QED
  BY <1>4, <1>8, <1>9, <1>10, <1>11 DEF DefenseInv

LEMMA ClockInv == DefenseInv /\ (Cleanup \/ Tick) => DefenseInv'
<1> SUFFICES ASSUME DefenseInv, Cleanup \/ Tick PROVE DefenseInv'
  OBVIOUS
<1>1. TypeOK /\ UNCHANGED <<task, level>>
  BY DEF DefenseInv, Cleanup, Tick
<1>2. In("ban")' = In("ban") /\ In("handshake")' = In("handshake")
  BY <1>1 DEF In
<1>3. CASE Cleanup
  <2>1. TypeOK'
    BY <1>1, <1>3, ZeroInRange DEF Cleanup, TypeOK
  <2>2. BoundedFailures'
    BY <1>1, <1>3, Counts, ConfigAssumption DEF Cleanup, BoundedFailures, NumTasks
  <2> QED
    BY <1>1, <1>2, <1>3, <2>1, <2>2 DEF DefenseInv, Cleanup, Full, Live
<1>4. CASE Tick
  <2>1. TypeOK'
    BY <1>1, <1>4, ConfigAssumption DEF Tick, TypeOK
  <2>2. UNCHANGED <<failures, tracked, lost>> /\ (Full' => Full)
    BY <1>1, <1>4, ConfigAssumption DEF Tick, Full, Live, TypeOK
  <2>3. Full' /\ banLeft >= Window - windowAge => banLeft' >= Window - windowAge'
    BY <1>1, <1>4, ConfigAssumption DEF Tick, Full, Live, TypeOK
  <2>4. Full' /\ Covered => Covered'
    BY <1>2, <2>2, <2>3 DEF Covered, Handshakes, NumTasks
  <2>5. Uncovered => Uncovered'
    BY <1>2, <2>2 DEF Uncovered, Pending
  <2>6. FirstPending => FirstPending'
    BY <1>1, <1>2 DEF FirstPending
  <2> QED
    BY <1>1, <1>2, <2>1, <2>2, <2>3, <2>4, <2>5, <2>6
       DEF DefenseInv, BoundedFailures
<1> QED
  BY <1>3, <1>4

LEMMA NextInv == DefenseInv /\ [Next]_vars => DefenseInv'
<1> SUFFICES ASSUME DefenseInv, [Next]_vars PROVE DefenseInv'
  OBVIOUS
<1>1. CASE UNCHANGED vars
  BY <1>1 DEF vars, DefenseInv, TypeOK, BoundedFailures, In, Full, Live, Covered,
              Uncovered, FirstPending, Handshakes, Pending, NumTasks
<1> QED
  BY <1>1, AdmitInv, SucceedInv, FailInv, BanIpInv, ClockInv DEF Next

LEMMA InvHolds == Spec => []DefenseInv
  BY InitInv, NextInv, PTL DEF Spec

(* Type correctness: in particular no ban exceeds the maximum.              *)
THEOREM TypeCorrect == Spec => []TypeOK
<1>1. DefenseInv => TypeOK
  BY DEF DefenseInv
<1> QED BY <1>1, InvHolds, PTL

(* An address gets at most MaxFailures - 1 failures and one per connection  *)
(* in a window, unless the power of a level wrapped to zero or panicked.    *)
THEOREM FailuresBounded == Spec => []BoundedFailures
<1>1. DefenseInv => BoundedFailures
  BY DEF DefenseInv
<1> QED BY <1>1, InvHolds, PTL

(* A full window's ban reaches the end of the window, or its first ban is   *)
(* on its way, unless the power of a level wrapped to zero.                 *)
THEOREM BanReachesWindowEnd == Spec => []BannedToWindowEnd
<1>1. DefenseInv => BannedToWindowEnd
  BY DEF DefenseInv, BannedToWindowEnd, Full, FirstPending
<1> QED BY <1>1, InvHolds, PTL
=============================================================================
