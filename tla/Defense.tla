------------------------------ MODULE Defense ------------------------------
(***************************************************************************)
(* The ban on failed handshakes (server/src/defense.rs), as the concurrent *)
(* connection tasks of one IP address drive it (server/src/server.rs).     *)
(* record_auth_failure counts under one lock, releases it, and inserts the *)
(* ban under another: between the two, other tasks of the address are      *)
(* admitted, fail and ban.  Addresses are independent, so one is modelled. *)
(*                                                                         *)
(* Time is discrete; a record holds the time left to it rather than the    *)
(* instant it began.  The power of the multiplier is a u32: a release      *)
(* build wraps it, possibly to zero, and a debug build panics.             *)
(***************************************************************************)
EXTENDS Integers, FiniteSets

CONSTANTS
  Tasks,        \* connection tasks: the permits of max_connections
  MaxFailures,  \* max_auth_failures
  Window,       \* rate_limit_window
  InitialBan,   \* initial_ban_duration
  Multiplier,   \* ban_multiplier
  MaxBan,       \* max_ban_duration
  Word          \* the modulus of a u32

ASSUME TasksAssumption == IsFiniteSet(Tasks)
ASSUME ConfigAssumption ==
  /\ MaxFailures \in Nat \ {0} /\ Window \in Nat \ {0}
  /\ InitialBan \in Nat /\ MaxBan \in Nat /\ Window <= InitialBan
  /\ InitialBan <= MaxBan
  /\ Multiplier \in Nat \ {0} /\ Word \in Nat \ {0, 1}

VARIABLES
  task,       \* task[t]: "idle", "handshake", "ban" (about to insert one)
  level,      \* level[t]: the level of that ban, else 0
  tracked,    \* stats has an entry
  failures,   \* its auth_failures
  windowAge,  \* time since its window_start, counted up to 2 * Window
  banLeft,    \* what is left of the ban, 0 when there is none in force
  lost        \* history: "zero" when a ban of no length, "panic" when no ban
              \* at all, came of a level reached in the window

vars == <<task, level, tracked, failures, windowAge, banLeft, lost>>

In(s) == { t \in Tasks : task[t] = s }

Init ==
  /\ task = [t \in Tasks |-> "idle"]
  /\ level = [t \in Tasks |-> 0]
  /\ tracked = FALSE /\ failures = 0 /\ windowAge = 0 /\ banLeft = 0
  /\ lost = {}

(* Mutant of Admit: is_banned is not asked.                                 *)
AdmitUnchecked(t) ==
  /\ task[t] = "idle"
  /\ task' = [task EXCEPT ![t] = "handshake"]
  /\ UNCHANGED <<level, tracked, failures, windowAge, banLeft, lost>>

(* handle_client_connection goes on to the handshake when is_banned says    *)
(* no; it drops the connection, and nothing changes, when it says yes.      *)
Admit(t) ==
  /\ task[t] = "idle" /\ banLeft = 0
  /\ task' = [task EXCEPT ![t] = "handshake"]
  /\ UNCHANGED <<level, tracked, failures, windowAge, banLeft, lost>>

Succeed(t) ==
  /\ task[t] = "handshake"
  /\ task' = [task EXCEPT ![t] = "idle"]
  /\ UNCHANGED <<level, tracked, failures, windowAge, banLeft, lost>>

(* record_auth_failure up to the release of the stats lock: a window that   *)
(* is over is begun again.                                                  *)
Live == tracked /\ windowAge < Window
Counted == (IF Live THEN failures ELSE 0) + 1

(* Mutant of Fail: one failure more is let pass.                            *)
FailLate(t) ==
  /\ task[t] = "handshake"
  /\ tracked' = TRUE
  /\ failures' = Counted
  /\ windowAge' = IF Live THEN windowAge ELSE 0
  /\ lost' = IF Live THEN lost ELSE {}
  /\ IF Counted > MaxFailures
       THEN /\ task' = [task EXCEPT ![t] = "ban"]
            /\ level' = [level EXCEPT ![t] = Counted - MaxFailures + 1]
       ELSE /\ task' = [task EXCEPT ![t] = "idle"]
            /\ UNCHANGED level
  /\ UNCHANGED banLeft

Fail(t) ==
  /\ task[t] = "handshake"
  /\ tracked' = TRUE
  /\ failures' = Counted
  /\ windowAge' = IF Live THEN windowAge ELSE 0
  /\ lost' = IF Live THEN lost ELSE {}
  /\ IF Counted >= MaxFailures
       THEN /\ task' = [task EXCEPT ![t] = "ban"]
            /\ level' = [level EXCEPT ![t] = Counted - MaxFailures + 1]
       ELSE /\ task' = [task EXCEPT ![t] = "idle"]
            /\ UNCHANGED level
  /\ UNCHANGED banLeft

(* u32::pow as a release build computes it, and whether the i-th power does *)
(* not fit a u32, which ends the task in a debug build.                     *)
Power[i \in Nat] == IF i = 0 THEN 1 ELSE (Power[i - 1] * Multiplier) % Word
Overflows(i) == \E j \in 1..i : Power[j] # Power[j - 1] * Multiplier

(* Mutant of Duration: the maximum is not applied.                          *)
DurationUncapped(l) == InitialBan * Power[l - 1]

(* saturating_mul and min.                                                  *)
Duration(l) ==
  LET d == InitialBan * Power[l - 1]
  IN  IF d < MaxBan THEN d ELSE MaxBan

(* ban_ip: the record there may be is replaced, whatever its level; a panic *)
(* leaves it.                                                               *)
BanIp(t) ==
  /\ task[t] = "ban"
  /\ \/ /\ banLeft' = Duration(level[t])
        /\ lost' = IF banLeft' = 0 THEN lost \cup {"zero"} ELSE lost
     \/ /\ Overflows(level[t] - 1)
        /\ lost' = lost \cup {"panic"}
        /\ UNCHANGED banLeft
  /\ task' = [task EXCEPT ![t] = "idle"]
  /\ level' = [level EXCEPT ![t] = 0]
  /\ UNCHANGED <<tracked, failures, windowAge>>

(* cleanup: statistics are kept for two windows.  An expired ban record is  *)
(* removed too, which makes no difference to is_banned.                     *)
Cleanup ==
  /\ tracked /\ windowAge >= 2 * Window
  /\ tracked' = FALSE /\ failures' = 0 /\ windowAge' = 0 /\ lost' = {}
  /\ UNCHANGED <<task, level, banLeft>>

Tick ==
  /\ windowAge' = IF tracked /\ windowAge < 2 * Window THEN windowAge + 1 ELSE windowAge
  /\ banLeft' = IF banLeft > 0 THEN banLeft - 1 ELSE 0
  /\ UNCHANGED <<task, level, tracked, failures, lost>>

Next ==
  \/ \E t \in Tasks : Admit(t) \/ Succeed(t) \/ Fail(t) \/ BanIp(t)
  \/ Cleanup
  \/ Tick

Spec == Init /\ [][Next]_vars
-----------------------------------------------------------------------------
(* Type invariant; no ban is longer than the configured maximum.            *)
TypeOK ==
  /\ task \in [Tasks -> {"idle", "handshake", "ban"}]
  /\ level \in [Tasks -> Nat]
  /\ tracked \in BOOLEAN
  /\ failures \in Nat /\ windowAge \in 0..(2 * Window)
  /\ banLeft \in 0..MaxBan
  /\ lost \subseteq {"zero", "panic"}

(* In one window an address gets at most MaxFailures - 1 failed handshakes  *)
(* and one more for each connection it has open at a time, although tasks   *)
(* go on being admitted between a count that is full and its ban, and bans  *)
(* overtake each other - as long as each of those bans was inserted and had *)
(* a length.  A level whose power wraps to zero, or panics, ends the bound. *)
BoundedFailures ==
  lost = {} => failures <= MaxFailures - 1 + Cardinality(Tasks)

(* While the window in which an address failed too often is not over, it is *)
(* banned to the window's end, or the task that reached the limit is about  *)
(* to ban it: a ban that overtakes a longer one does not let it in earlier, *)
(* nor does a panic of another task, nor a power that wraps, unless it      *)
(* wraps to zero: that ban replaces the one in force and lets it in.        *)
BannedToWindowEnd ==
  Live /\ failures >= MaxFailures /\ "zero" \notin lost =>
    \/ \E t \in In("ban") : level[t] = 1
    \/ banLeft >= Window - windowAge

(* What the test test_auth_failure_ban says of an address that reached the  *)
(* limit ("it should be banned"), in this window and once its bans are      *)
(* inserted.  record_auth_failure breaks it: the level grows with every     *)
(* failure, and the power of a large level is zero.                         *)
LimitBans ==
  Live /\ failures >= MaxFailures => In("ban") # {} \/ banLeft > 0

=============================================================================
