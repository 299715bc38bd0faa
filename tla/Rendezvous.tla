----------------------------- MODULE Rendezvous -----------------------------
(***************************************************************************)
(* How the connections of one multipath session find each other on the     *)
(* server (server/src/multipath.rs, server/src/server.rs).  Join           *)
(* connections register under the session's id in SessionRegistry, before  *)
(* or after connection 0 opens the session; connection 0 collects them for *)
(* at most JOIN_WINDOW; a sweeper removes slots older than SLOT_TTL; and   *)
(* every connection has a handshake timeout, which can cancel a collection *)
(* half way.  One id is modelled: the registry's slots are independent.    *)
(*                                                                         *)
(* Time is discrete.  Timers count down and the clock stops at a timer     *)
(* that is due, so they fire on time; nothing else is in a hurry.          *)
(***************************************************************************)
EXTENDS Integers, Sequences, FiniteSets

CONSTANTS
  Conns,        \* join connections of the session
  Index,        \* Index[c]: the subflow index that c sends
  MaxSubflows,  \* MAX_SUBFLOWS: indexes are below it
  Expected,     \* number of subflows agreed on by connection 0's hello
  ChanCap,      \* capacity of the channel made by open_session
  JoinWindow,   \* JOIN_WINDOW
  SlotTTL,      \* SLOT_TTL
  SweepPeriod,  \* period of the sweeper task
  Handshake,    \* handshake_timeout_seconds
  Permits       \* max_connections

ASSUME IndexAssumption ==
  /\ MaxSubflows \in Nat /\ Expected \in 2..MaxSubflows
  /\ Index \in [Conns -> 1..(MaxSubflows - 1)]
ASSUME FiniteConns == IsFiniteSet(Conns)
ASSUME ChannelAssumption == ChanCap \in Nat /\ MaxSubflows - 1 <= ChanCap
ASSUME PermitsAssumption == Permits \in Nat \ {0}
ASSUME TimesAssumption ==
  /\ JoinWindow \in Nat \ {0} /\ SlotTTL \in Nat /\ JoinWindow < SlotTTL
  /\ SweepPeriod \in Nat \ {0} /\ Handshake \in Nat \ {0}

VARIABLES
  join,       \* join[c]: where connection c is
  joinLeft,   \* joinLeft[c]: time left to its handshake
  verdict,    \* verdict[c]: what register_join returned for c (history)
  slot,       \* the registry's slot: "none", "gathering", "ready"
  joins,      \* Gathering: the connections held
  joined,     \* Ready: the indexes registered
  age,        \* time since the slot was created
  chan,       \* the channel of open_session
  sess,       \* where connection 0 is
  sessLeft,   \* time left to its handshake
  windowLeft, \* time left to its collection
  collected,  \* the connections it has collected
  sweepIn,    \* time to the next sweep
  acceptor    \* the accept loop: "acquire", "accept" (holds a permit), "backoff"

joinVars == <<join, joinLeft, verdict>>
slotVars == <<slot, joins, joined, age, chan>>
sessVars == <<sess, sessLeft, windowLeft, collected>>
vars == <<joinVars, slotVars, sessVars, sweepIn, acceptor>>

Indexes(S) == { Index[c] : c \in S }
Queued == { chan[j] : j \in 1..Len(chan) }

(* The connections of S are dropped, which closes them.                     *)
Closing(S) == [c \in Conns |-> IF c \in S THEN "closed" ELSE join[c]]

Handshaking == sess \in {"hello", "collecting", "closing"}

(* The receiver lives in collect_subflows.                                  *)
ReceiverAlive == sess \in {"collecting", "closing"}

Init ==
  /\ join = [c \in Conns |-> "backlog"]
  /\ joinLeft = [c \in Conns |-> 0]
  /\ verdict = [c \in Conns |-> "none"]
  /\ slot = "none" /\ joins = {} /\ joined = {} /\ age = 0 /\ chan = <<>>
  /\ sess = "idle" /\ sessLeft = 0 /\ windowLeft = 0 /\ collected = {}
  /\ sweepIn = SweepPeriod
  /\ acceptor = "acquire"

-----------------------------------------------------------------------------
(* ProxyServer::run.  The task of a connection holds its permit until it    *)
(* returns: a join until it is registered, connection 0 to the end of the   *)
(* relay.                                                                   *)
Relaying == sess = "relaying"
Taken == Cardinality({ c \in Conns : join[c] \in {"hello", "acked"} })
           + IF Handshaking \/ Relaying THEN 1 ELSE 0

Acquire ==
  /\ acceptor = "acquire" /\ Taken < Permits
  /\ acceptor' = "accept"
  /\ UNCHANGED <<joinVars, slotVars, sessVars, sweepIn>>

(* accept() returns a connection, and the loop goes on to the next permit.  *)
Accepts == acceptor = "accept" /\ acceptor' = "acquire"

(* accept() fails: the permit is given back, and the loop sleeps.           *)
AcceptFails ==
  /\ acceptor = "accept"
  /\ acceptor' = "backoff"
  /\ UNCHANGED <<joinVars, slotVars, sessVars, sweepIn>>

Retry ==
  /\ acceptor = "backoff"
  /\ acceptor' = "acquire"
  /\ UNCHANGED <<joinVars, slotVars, sessVars, sweepIn>>

-----------------------------------------------------------------------------
(* handle_join                                                              *)

(* Connection c is accepted; its handshake timer starts.                    *)
Connect(c) ==
  /\ join[c] = "backlog" /\ Accepts
  /\ join' = [join EXCEPT ![c] = "hello"]
  /\ joinLeft' = [joinLeft EXCEPT ![c] = Handshake]
  /\ UNCHANGED <<verdict, slotVars, sessVars, sweepIn>>

(* The empty join frame is read and the ack frame written.                  *)
Ack(c) ==
  /\ join[c] = "hello"
  /\ join' = [join EXCEPT ![c] = "acked"]
  /\ UNCHANGED <<joinLeft, verdict, slotVars, sessVars, sweepIn, acceptor>>

(* Mutant of RegisterGathering: the connections are kept in a list, and a   *)
(* repeated index is not noticed.                                           *)
RegisterGatheringAll(c) ==
  /\ join[c] = "acked" /\ slot = "gathering"
  /\ joins' = joins \cup {c}
  /\ join' = [join EXCEPT ![c] = "held"]
  /\ verdict' = [verdict EXCEPT ![c] = "accepted"]
  /\ UNCHANGED <<joinLeft, slot, joined, age, chan, sessVars, sweepIn, acceptor>>

(* register_join on a gathering slot: HashMap::insert keeps the newcomer    *)
(* and drops the connection it replaces, and the newcomer is told false.    *)
RegisterGathering(c) ==
  /\ join[c] = "acked" /\ slot = "gathering"
  /\ LET replaced == { d \in joins : Index[d] = Index[c] } IN
       /\ joins' = (joins \ replaced) \cup {c}
       /\ join' = [Closing(replaced) EXCEPT ![c] = "held"]
       /\ verdict' = [verdict EXCEPT ![c] =
                        IF replaced = {} THEN "accepted" ELSE "rejected"]
  /\ UNCHANGED <<joinLeft, slot, joined, age, chan, sessVars, sweepIn, acceptor>>

(* Mutant of Admits: `joined` is not consulted.                             *)
AdmitsRepeated(c) == ReceiverAlive /\ Len(chan) < ChanCap

(* Mutant of Admits: the last place of the channel is not used.             *)
AdmitsFewer(c) ==
  Index[c] \notin joined /\ ReceiverAlive /\ Len(chan) < ChanCap - 1

(* register_join on a ready slot: a known index, a full channel or a        *)
(* receiver that is gone reject the newcomer, which is then closed.         *)
Admits(c) ==
  Index[c] \notin joined /\ ReceiverAlive /\ Len(chan) < ChanCap

RegisterReady(c) ==
  /\ join[c] = "acked" /\ slot = "ready" /\ Admits(c)
  /\ chan' = Append(chan, c)
  /\ joined' = joined \cup {Index[c]}
  /\ join' = [join EXCEPT ![c] = "queued"]
  /\ verdict' = [verdict EXCEPT ![c] = "accepted"]
  /\ UNCHANGED <<joinLeft, slot, joins, age, sessVars, sweepIn, acceptor>>

RejectReady(c) ==
  /\ join[c] = "acked" /\ slot = "ready" /\ ~ Admits(c)
  /\ join' = [join EXCEPT ![c] = "closed"]
  /\ verdict' = [verdict EXCEPT ![c] = "rejected"]
  /\ UNCHANGED <<joinLeft, slotVars, sessVars, sweepIn, acceptor>>

(* register_join with no slot: a new one starts gathering.                  *)
RegisterFirst(c) ==
  /\ join[c] = "acked" /\ slot = "none"
  /\ slot' = "gathering" /\ joins' = {c} /\ joined' = {} /\ age' = 0
  /\ join' = [join EXCEPT ![c] = "held"]
  /\ verdict' = [verdict EXCEPT ![c] = "accepted"]
  /\ UNCHANGED <<joinLeft, chan, sessVars, sweepIn, acceptor>>

(* The peer goes away or sends a bad frame, or the timeout drops the        *)
(* handshake, possibly after the ack was sent.                              *)
JoinFails(c) ==
  /\ \/ join[c] = "hello"
     \/ join[c] = "acked" /\ joinLeft[c] = 0
  /\ join' = [join EXCEPT ![c] = "closed"]
  /\ UNCHANGED <<joinLeft, verdict, slotVars, sessVars, sweepIn, acceptor>>

-----------------------------------------------------------------------------
(* session_handshake and collect_subflows                                   *)

SessConnect ==
  /\ sess = "idle" /\ Accepts
  /\ sess' = "hello" /\ sessLeft' = Handshake
  /\ UNCHANGED <<joinVars, slotVars, windowLeft, collected, sweepIn>>

(* Connection 0's hello is bad or it goes away before open_session.         *)
SessFails ==
  /\ sess = "hello"
  /\ sess' = "cancelled"
  /\ UNCHANGED <<joinVars, slotVars, sessLeft, windowLeft, collected, sweepIn, acceptor>>

(* Mutant of Open: the new slot overwrites what has gathered.               *)
OpenForgets ==
  /\ sess = "hello"
  /\ sess' = "collecting" /\ windowLeft' = JoinWindow
  /\ slot' = "ready" /\ joined' = {} /\ joins' = {} /\ age' = 0
  /\ chan' = <<>> /\ collected' = {}
  /\ join' = Closing(joins)
  /\ UNCHANGED <<joinLeft, verdict, sessLeft, sweepIn, acceptor>>

(* open_session: what has gathered is taken over and the slot made ready;   *)
(* then connections with an index the session does not use are dropped.     *)
Open ==
  /\ sess = "hello"
  /\ sess' = "collecting" /\ windowLeft' = JoinWindow
  /\ slot' = "ready" /\ joined' = Indexes(joins) /\ joins' = {} /\ age' = 0
  /\ chan' = <<>>
  /\ collected' = { c \in joins : Index[c] < Expected }
  /\ join' = [c \in Conns |->
                IF c \notin joins THEN join[c]
                ELSE IF Index[c] < Expected THEN "collected" ELSE "closed"]
  /\ UNCHANGED <<joinLeft, verdict, sessLeft, sweepIn, acceptor>>

(* Mutant of Missing: connection 0 is counted among the collected ones.     *)
MissingOneLess == Cardinality(collected) < Expected - 2

Missing == Cardinality(collected) < Expected - 1

(* rx.recv() within the window.                                             *)
Recv ==
  /\ sess = "collecting" /\ Missing /\ windowLeft > 0 /\ chan # <<>>
  /\ chan' = Tail(chan)
  /\ LET c == Head(chan) IN
       IF Index[c] < Expected
         THEN /\ collected' = collected \cup {c}
              /\ join' = [join EXCEPT ![c] = "collected"]
         ELSE /\ join' = [join EXCEPT ![c] = "closed"]
              /\ UNCHANGED collected
  /\ UNCHANGED <<joinLeft, verdict, slot, joins, joined, age, sess, sessLeft,
                 windowLeft, sweepIn, acceptor>>

(* The loop is left: all are there, or the window is over.                  *)
StopCollecting ==
  /\ sess = "collecting"
  /\ ~ Missing \/ windowLeft = 0
  /\ sess' = "closing"
  /\ UNCHANGED <<joinVars, slotVars, sessLeft, windowLeft, collected, sweepIn, acceptor>>

(* close_session, then the return, which drops the receiver and what is     *)
(* left in it.                                                              *)
CloseSession ==
  /\ sess = "closing"
  /\ sess' = "relaying"
  /\ join' = Closing(joins \cup Queued)
  /\ slot' = "none" /\ joins' = {} /\ joined' = {} /\ age' = 0 /\ chan' = <<>>
  /\ UNCHANGED <<joinLeft, verdict, sessLeft, windowLeft, collected, sweepIn, acceptor>>

(* The handshake timeout drops the future wherever it waits; close_session  *)
(* is then never called.                                                    *)
SessTimeout ==
  /\ Handshaking /\ sessLeft = 0
  /\ sess' = "cancelled"
  /\ join' = Closing(collected \cup Queued)
  /\ collected' = {} /\ chan' = <<>>
  /\ UNCHANGED <<joinLeft, verdict, slot, joins, joined, age, sessLeft,
                 windowLeft, sweepIn, acceptor>>

(* The relay is over and its connections are dropped.                       *)
SessEnds ==
  /\ sess = "relaying"
  /\ sess' = "ended"
  /\ join' = Closing(collected) /\ collected' = {}
  /\ UNCHANGED <<joinLeft, verdict, slotVars, sessLeft, windowLeft, sweepIn, acceptor>>

-----------------------------------------------------------------------------
(* Mutants of Sweep: the comparison is off by one; the age is not looked at; *)
(* only ready slots are removed, and gathering ones counted as new.         *)
SweepLate ==
  /\ sweepIn = 0
  /\ sweepIn' = SweepPeriod
  /\ IF slot # "none" /\ age > SlotTTL
       THEN /\ join' = Closing(joins)
            /\ slot' = "none" /\ joins' = {} /\ joined' = {} /\ age' = 0
       ELSE UNCHANGED <<join, slot, joins, joined, age>>
  /\ UNCHANGED <<joinLeft, verdict, chan, sessVars, acceptor>>

SweepAlways ==
  /\ sweepIn = 0
  /\ sweepIn' = SweepPeriod
  /\ join' = Closing(joins)
  /\ slot' = "none" /\ joins' = {} /\ joined' = {} /\ age' = 0
  /\ UNCHANGED <<joinLeft, verdict, chan, sessVars, acceptor>>

SweepReadyOnly ==
  /\ sweepIn = 0
  /\ sweepIn' = SweepPeriod
  /\ IF slot # "none" /\ age >= SlotTTL
       THEN /\ age' = 0
            /\ slot' = IF slot = "ready" THEN "none" ELSE slot
            /\ joined' = {}
       ELSE UNCHANGED <<slot, joined, age>>
  /\ UNCHANGED <<joinVars, joins, chan, sessVars, acceptor>>

(* The sweeper: removing a slot drops what it holds; connections already in *)
(* the channel stay there.                                                  *)
Sweep ==
  /\ sweepIn = 0
  /\ sweepIn' = SweepPeriod
  /\ IF slot # "none" /\ age >= SlotTTL
       THEN /\ join' = Closing(joins)
            /\ slot' = "none" /\ joins' = {} /\ joined' = {} /\ age' = 0
       ELSE UNCHANGED <<join, slot, joins, joined, age>>
  /\ UNCHANGED <<joinLeft, verdict, chan, sessVars, acceptor>>

(* Time passes, unless a timer is due.                                      *)
Due ==
  \/ sweepIn = 0
  \/ sess = "collecting" /\ windowLeft = 0
  \/ Handshaking /\ sessLeft = 0
  \/ \E c \in Conns : join[c] \in {"hello", "acked"} /\ joinLeft[c] = 0

Tick ==
  /\ ~ Due
  /\ sweepIn' = sweepIn - 1
  /\ age' = IF slot = "none" THEN 0 ELSE age + 1
  /\ sessLeft' = IF Handshaking THEN sessLeft - 1 ELSE 0
  /\ windowLeft' = IF sess = "collecting" THEN windowLeft - 1 ELSE 0
  /\ joinLeft' = [c \in Conns |->
                    IF join[c] \in {"hello", "acked"} THEN joinLeft[c] - 1 ELSE 0]
  /\ UNCHANGED <<join, verdict, slot, joins, joined, chan, sess, collected, acceptor>>

Register(c) == RegisterGathering(c) \/ RegisterReady(c) \/ RejectReady(c)
                 \/ RegisterFirst(c)

Next ==
  \/ Acquire \/ AcceptFails \/ Retry
  \/ \E c \in Conns : Connect(c) \/ Ack(c) \/ Register(c) \/ JoinFails(c)
  \/ SessConnect \/ SessFails \/ Open \/ Recv \/ StopCollecting
  \/ CloseSession \/ SessTimeout \/ SessEnds
  \/ Sweep \/ Tick

Spec == Init /\ [][Next]_vars

(* The runtime polls tasks that can run, and time passes.                   *)
Fairness ==
  /\ WF_vars(Tick) /\ WF_vars(Sweep)
  /\ WF_vars(Recv) /\ WF_vars(StopCollecting) /\ WF_vars(CloseSession)
  /\ WF_vars(SessTimeout)
  /\ WF_vars(SessEnds)
  /\ WF_vars(Acquire) /\ WF_vars(Retry)
  /\ \A c \in Conns : /\ WF_vars(Register(c)) /\ WF_vars(JoinFails(c))
                      /\ SF_vars(Connect(c))

FairSpec == Spec /\ Fairness
-----------------------------------------------------------------------------
(* Type invariant.                                                          *)
TypeOK ==
  /\ join \in [Conns -> {"backlog", "hello", "acked", "held",
                         "queued", "collected", "closed"}]
  /\ joinLeft \in [Conns -> 0..Handshake]
  /\ verdict \in [Conns -> {"none", "accepted", "rejected"}]
  /\ slot \in {"none", "gathering", "ready"}
  /\ joins \subseteq Conns /\ joined \subseteq 1..(MaxSubflows - 1)
  /\ age \in Nat /\ chan \in Seq(Conns)
  /\ sess \in {"idle", "hello", "collecting", "closing", "relaying", "ended",
               "cancelled"}
  /\ sessLeft \in 0..Handshake /\ windowLeft \in 0..JoinWindow
  /\ collected \subseteq Conns
  /\ sweepIn \in 0..SweepPeriod
  /\ acceptor \in {"acquire", "accept", "backoff"}

(* The session relays over at most one connection per index, and only over  *)
(* indexes below the agreed count, whether its connections came before or   *)
(* after connection 0, and however often a client repeats an index.         *)
OneConnPerIndex ==
  /\ \A c, d \in collected : Index[c] = Index[d] => c = d
  /\ \A c \in collected : Index[c] < Expected

(* A connection that the ready slot ought to take never finds the channel   *)
(* full, so try_send's error is no back-pressure that loses a subflow.      *)
ChannelNeverFull ==
  slot = "ready" /\ Len(chan) = ChanCap =>
    \A c \in Conns : Index[c] \in joined

(* The sweeper never removes the slot of a session that is still            *)
(* collecting: rx.recv() cannot return None.                                *)
CollectingHasSlot == sess = "collecting" => slot = "ready"

(* No slot, and so no connection held in it, outlives SLOT_TTL by as much   *)
(* as one sweep period: this is how long a join that nobody claims stays.   *)
SlotLifetime == slot # "none" => age < SlotTTL + SweepPeriod

(* A connection that was handed to a collecting session and that it can use *)
(* is dropped only when the window is over or the handshake timed out: the  *)
(* loop never stops early while one is missing.                             *)
QueuedIsUsed ==
  [][\A c \in Conns :
       join[c] = "queued" /\ join'[c] = "closed" /\ Index[c] < Expected =>
         windowLeft = 0 \/ sess' = "cancelled"]_vars

(* Liveness: every join connection is accepted, although connection 0 may   *)
(* hold the last permit while it waits for it and while it relays, and does *)
(* not hang in the registry: it is taken by the session or closed.          *)
JoinSettles == <>(\A c \in Conns : join[c] \in {"collected", "closed"})

(* A join is rejected only if another connection has registered with its    *)
(* index, or connection 0 was cancelled: rejection counts as a failed       *)
(* authentication of the client's address (server.rs:163), and a client     *)
(* that opens each index once must not be charged with it.                  *)
RejectedForCause ==
  \A c \in Conns :
    verdict[c] = "rejected" =>
      \/ sess = "cancelled"
      \/ \E d \in Conns \ {c} : Index[d] = Index[c] /\ verdict[d] # "none"

(* What Collection sees of a connection and of the session.                 *)
Seat(where) ==
  CASE where \in {"backlog", "hello", "acked"} -> "away"
    [] where \in {"held", "queued"} -> "offered"
    [] where = "collected" -> "member"
    [] where = "closed" -> "gone"

Stage(where) ==
  CASE where \in {"idle", "hello"} -> "before"
    [] where = "collecting" -> "open"
    [] where \in {"closing", "relaying"} -> "settled"
    [] where \in {"ended", "cancelled"} -> "over"

Place == [c \in Conns |-> Seat(join[c])]
CL == INSTANCE Collection WITH place <- Place, phase <- Stage(sess)

(* The slot, the channel and the timers together do what Collection says:   *)
(* whichever of the registry's two states a connection meets, and whatever  *)
(* times out, the members of the session only grow until it settles, none   *)
(* is replaced, and no connection is lost between slot, channel and session *)
(* while the session can use it.                                            *)
ImplementsCollection == CL!CollectionSpec

=============================================================================
