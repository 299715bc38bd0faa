------------------------ MODULE DesktopClientProofs ------------------------
(***************************************************************************)
(* Theorems about DesktopClient, for every number of concurrent commands,  *)
(* ports, permits and clients.                                             *)
(*                                                                         *)
(* DesktopInv adds to the properties who holds the proxy mutex, what the   *)
(* holder knows about the client in it, and that a signal which was sent   *)
(* is awaited by the command that sent it.                                 *)
(***************************************************************************)
EXTENDS DesktopClient, TLAPS

Discarding == {"startPort", "startProbe", "startProbed"}
Making == {"startNew", "startBind"}

(* The proxy mutex is held by the command that has to release it.           *)
LockInv ==
  \A u \in Callers :
    /\ proxyLock = u <=> pc[u] \in Discarding \cup Making \cup {"stopWait"}
    /\ pc[u] \in Discarding => current # 0
    /\ pc[u] \in Making => current = 0

(* What a command works on.                                                 *)
WorkInv ==
  \A u \in Callers :
    /\ pc[u] \in {"startBind", "stopWait"} => mine[u] \in Clients
    /\ pc[u] \in {"port", "portProbe", "portProbed"} => port[u] \in Ports

(* A client that has not bound its port is not the current one, and nobody  *)
(* has told it anything.                                                    *)
NewInv ==
  /\ \A i \in Clients : state[i] \in {"none", "Starting"} => signal[i] = "none" /\ i # current
  /\ \A u \in Callers : pc[u] = "startBind" => state[mine[u]] = "Starting"

(* A client that was told to stop, and has not yet, is waited for.          *)
SentInv ==
  \A i \in Clients :
    Accepting(i) /\ signal[i] = "sent"
      => \E u \in Callers : pc[u] = "stopWait" /\ mine[u] = i

DesktopInv ==
  /\ TypeOK /\ LockInv /\ WorkInv /\ NewInv /\ SentInv
  /\ NoOrphanListener /\ AckedPortKept

-----------------------------------------------------------------------------
LEMMA Configs ==
  /\ default_config \in ClientConfig /\ UserConfig \in ClientConfig
  /\ UserConfig.listen_port = FirstPort
  /\ Torn \notin ClientConfig /\ Torn.listen_port = NoPort
  /\ Absent \notin ClientConfig /\ Absent.listen_port = NoPort
  /\ \A c \in ClientConfig : c.listen_port \in Ports
  BY PortsAssumption DEF default_config, UserConfig, Torn, Absent, ClientConfig

LEMMA FileTypes ==
  ASSUME NEW f \in ClientConfig \cup {Torn, Absent}
  PROVE  /\ Loaded(f) \in ClientConfig
         /\ Created(f) \subseteq ClientConfig \cup {Torn, Absent}
         /\ f \in ClientConfig => Loaded(f) = f /\ Created(f) = {f}
  BY Configs DEF Loaded, Created

(* Everything of a process that has just begun.                             *)
Fresh ==
  /\ proxyLock = Free /\ current = 0 /\ configLock = Free
  /\ pc = Commands("idle") /\ port = Commands(NoPort) /\ mine = Commands(0)
  /\ state = All("none") /\ bound = All(NoPort) /\ loop = All("none")
  /\ signal = All("none") /\ relays = All(0)

ConfigsOK ==
  /\ config \in ClientConfig /\ file \in ClientConfig \cup {Torn, Absent}
  /\ acked \in Ports \cup {NoPort}

LEMMA FreshInv == Fresh /\ ConfigsOK /\ AckedPortKept => DesktopInv
<1> SUFFICES ASSUME Fresh, ConfigsOK, AckedPortKept PROVE DesktopInv
  OBVIOUS
<1> USE DEF ConfigsOK
<1>1. TypeOK
  BY BoundsAssumption DEF Fresh, TypeOK, Commands, All
<1>2. LockInv /\ WorkInv
  BY CallersAssumption DEF Fresh, LockInv, WorkInv, Discarding, Making, Commands
<1>3. NewInv /\ SentInv /\ NoOrphanListener
  BY BoundsAssumption
     DEF Fresh, NewInv, SentInv, NoOrphanListener, Accepting, All, Commands, Clients
<1> QED
  BY <1>1, <1>2, <1>3 DEF DesktopInv

LEMMA InitInv == Init => DesktopInv
<1> SUFFICES ASSUME Init PROVE DesktopInv
  OBVIOUS
<1>1. Fresh
  BY DEF Init, Fresh
<1>2. ConfigsOK
  BY FileTypes, Configs, PortsAssumption DEF Init, ConfigsOK
<1>3. AckedPortKept
  BY FileTypes, Configs DEF Init, AckedPortKept
<1> QED
  BY <1>1, <1>2, <1>3, FreshInv

-----------------------------------------------------------------------------
(* Types.                                                                   *)

LEMMA StartTypes ==
  ASSUME TypeOK, LockInv, WorkInv, NEW u \in Callers, StartCall(u) \/ Start(u)
  PROVE  TypeOK'
<1> USE BoundsAssumption
    DEF TypeOK, appVars, configVars, commandVars, clientVars, Goto, Return
<1>1. CASE StartCall(u) \/ StartLock(u) \/ StartReadPort(u)
  BY <1>1, Configs DEF StartCall, StartLock, StartReadPort
<1>2. CASE StartProbe(u) \/ StartInvalid(u)
  BY <1>2 DEF StartProbe, StartInvalid
<1>3. CASE StartDiscard(u)
  <2>1. current \in Clients
    BY <1>3 DEF StartDiscard, LockInv, Discarding, Clients
  <2>2. signal' \in [Clients -> {"none", "sent", "closed"}]
    BY <1>3, <2>1 DEF StartDiscard
  <2> QED
    BY <1>3, <2>2 DEF StartDiscard
<1>4. CASE StartNew(u)
  BY <1>4, Configs, BoundsAssumption DEF StartNew, Clients
<1>5. CASE StartBind(u)
  <2>1. mine[u] \in Clients
    BY <1>5 DEF StartBind, WorkInv
  <2>2. /\ state' \in [Clients -> {"none", "Starting", "Running", "Stopping", "Stopped"}]
        /\ bound' \in [Clients -> Ports \cup {NoPort}]
        /\ loop' \in [Clients -> {"none", "select", "permit", "done"}]
    BY <1>5, <2>1 DEF StartBind
  <2>3. current' \in 0..MaxClients
    BY <1>5, <2>1 DEF StartBind, Clients
  <2> QED
    BY <1>5, <2>2, <2>3 DEF StartBind
<1> QED
  BY <1>1, <1>2, <1>3, <1>4, <1>5 DEF Start

LEMMA StopTypes ==
  ASSUME TypeOK, WorkInv, NEW u \in Callers, StopCall(u) \/ Stop(u)
  PROVE  TypeOK'
<1> USE BoundsAssumption
    DEF TypeOK, appVars, configVars, commandVars, clientVars, Goto, Return
<1>1. CASE StopCall(u) \/ StopNothing(u)
  BY <1>1 DEF StopCall, StopNothing
<1>2. CASE StopSignal(u)
  <2>1. current \in Clients
    BY <1>2 DEF StopSignal, Clients
  <2>2. /\ state' \in [Clients -> {"none", "Starting", "Running", "Stopping", "Stopped"}]
        /\ signal' \in [Clients -> {"none", "sent", "closed"}]
    BY <1>2, <2>1 DEF StopSignal
  <2> QED
    BY <1>2, <2>2 DEF StopSignal
<1>3. CASE StopWait(u)
  <2>1. mine[u] \in Clients
    BY <1>3 DEF StopWait, WorkInv
  <2>2. state' \in [Clients -> {"none", "Starting", "Running", "Stopping", "Stopped"}]
    BY <1>3, <2>1 DEF StopWait
  <2> QED
    BY <1>3, <2>2 DEF StopWait
<1> QED
  BY <1>1, <1>2, <1>3 DEF Stop

LEMMA SaveTypes ==
  ASSUME NEW c \in ClientConfig, NEW ok \in BOOLEAN, Saves(c, ok),
         file \in ClientConfig \cup {Torn, Absent}
  PROVE  file' \in ClientConfig \cup {Torn, Absent}
  BY DEF Saves

LEMMA CommandTypes ==
  ASSUME TypeOK, WorkInv, NEW u \in Callers,
         \/ StatusCall(u) \/ PortCall(u) \/ ServersCall(u)
         \/ Status(u) \/ UpdatePort(u) \/ ServersSet(u)
  PROVE  TypeOK'
<1> USE BoundsAssumption
    DEF TypeOK, appVars, configVars, commandVars, clientVars, Goto, Return
<1>1. CASE StatusCall(u) \/ PortCall(u) \/ ServersCall(u)
  BY <1>1 DEF StatusCall, PortCall, ServersCall
<1>2. CASE Status(u)
  BY <1>2, Configs DEF Status, StatusRead, StatusReadPort, StatusProbe, StatusProbed
<1>3. CASE PortLock(u) \/ PortProbe(u)
  BY <1>3 DEF PortLock, PortProbe
<1>4. CASE PortSet(u)
  <2>1. port[u] \in Ports
    BY <1>4 DEF PortSet, WorkInv
  <2>2. config' \in ClientConfig
    BY <1>4, <2>1 DEF PortSet, ClientConfig
  <2>3. file' \in ClientConfig \cup {Torn, Absent} /\ acked' \in Ports \cup {NoPort}
    BY <1>4, <2>1, <2>2, SaveTypes DEF PortSet
  <2> QED
    BY <1>4, <2>2, <2>3 DEF PortSet
<1>5. CASE ServersSet(u)
  <2>1. file' \in ClientConfig \cup {Torn, Absent}
    BY <1>5, SaveTypes DEF ServersSet
  <2> QED
    BY <1>5, <2>1 DEF ServersSet
<1> QED
  BY <1>1, <1>2, <1>3, <1>4, <1>5 DEF UpdatePort

LEMMA ClientTypes ==
  ASSUME TypeOK, NEW i \in Clients,
         Accept(i) \/ TakePermit(i) \/ SeeSignal(i) \/ RelayEnds(i)
  PROVE  TypeOK'
  BY BoundsAssumption DEF TypeOK, appVars, configVars, commandVars,
     Accept, TakePermit, SeeSignal, RelayEnds

-----------------------------------------------------------------------------
(* The mutex, and what its holder knows.                                    *)

LEMMA StartLocks ==
  ASSUME TypeOK, LockInv, WorkInv, NEW u \in Callers, StartCall(u) \/ Start(u)
  PROVE  LockInv' /\ WorkInv'
<1> USE CallersAssumption
    DEF TypeOK, LockInv, WorkInv, Discarding, Making, appVars, commandVars, Goto, Return
<1>1. CASE StartCall(u) \/ StartLock(u) \/ StartReadPort(u)
  BY <1>1 DEF StartCall, StartLock, StartReadPort
<1>2. CASE StartProbe(u) \/ StartInvalid(u)
  BY <1>2 DEF StartProbe, StartInvalid
<1>3. CASE StartDiscard(u)
  BY <1>3 DEF StartDiscard
<1>4. CASE StartNew(u)
  BY <1>4 DEF StartNew
<1>5. CASE StartBind(u)
  BY <1>5 DEF StartBind
<1> QED
  BY <1>1, <1>2, <1>3, <1>4, <1>5 DEF Start

LEMMA StopLocks ==
  ASSUME TypeOK, LockInv, WorkInv, NEW u \in Callers, StopCall(u) \/ Stop(u)
  PROVE  LockInv' /\ WorkInv'
<1> USE CallersAssumption
    DEF TypeOK, LockInv, WorkInv, Discarding, Making, appVars, commandVars, Goto, Return
<1>1. CASE StopCall(u) \/ StopNothing(u)
  BY <1>1 DEF StopCall, StopNothing
<1>2. CASE StopSignal(u)
  BY <1>2, BoundsAssumption DEF StopSignal, Clients
<1>3. CASE StopWait(u)
  BY <1>3 DEF StopWait
<1> QED
  BY <1>1, <1>2, <1>3 DEF Stop

LEMMA CommandLocks ==
  ASSUME TypeOK, LockInv, WorkInv, NEW u \in Callers,
         \/ StatusCall(u) \/ PortCall(u) \/ ServersCall(u)
         \/ Status(u) \/ UpdatePort(u) \/ ServersSet(u)
  PROVE  LockInv' /\ WorkInv'
<1> USE CallersAssumption
    DEF TypeOK, LockInv, WorkInv, Discarding, Making, appVars, commandVars, Goto, Return
<1>1. CASE StatusCall(u) \/ PortCall(u) \/ ServersCall(u)
  BY <1>1 DEF StatusCall, PortCall, ServersCall
<1>2. CASE Status(u)
  BY <1>2 DEF Status, StatusRead, StatusReadPort, StatusProbe, StatusProbed
<1>3. CASE UpdatePort(u)
  BY <1>3 DEF UpdatePort, PortLock, PortProbe, PortSet
<1>4. CASE ServersSet(u)
  BY <1>4 DEF ServersSet
<1> QED
  BY <1>1, <1>2, <1>3, <1>4

LEMMA ClientLocks ==
  ASSUME LockInv, WorkInv, NEW i \in Clients,
         Accept(i) \/ TakePermit(i) \/ SeeSignal(i) \/ RelayEnds(i)
  PROVE  LockInv' /\ WorkInv'
  BY DEF LockInv, WorkInv, appVars, commandVars, Accept, TakePermit, SeeSignal, RelayEnds

-----------------------------------------------------------------------------
(* Listeners and their signals.                                             *)

(* A step that does not touch the clients, nor a command that waits.        *)
LEMMA SignalsKept ==
  ASSUME TypeOK, SentInv, NoOrphanListener, NEW u \in Callers,
         pc[u] # "stopWait", UNCHANGED <<current, loop, signal>>,
         \A v \in Callers \ {u} : pc'[v] = pc[v] /\ mine'[v] = mine[v]
  PROVE  SentInv' /\ NoOrphanListener'
  BY DEF SentInv, NoOrphanListener, Accepting

LEMMA StartSignals ==
  ASSUME TypeOK, LockInv, WorkInv, NewInv, SentInv, NoOrphanListener, NEW u \in Callers,
         StartCall(u) \/ Start(u)
  PROVE  SentInv' /\ NoOrphanListener'
<1> USE DEF TypeOK, appVars, commandVars, clientVars, Goto, Return
<1>1. CASE StartCall(u) \/ StartLock(u) \/ StartReadPort(u)
  BY <1>1, SignalsKept DEF StartCall, StartLock, StartReadPort
<1>2. CASE StartProbe(u) \/ StartInvalid(u)
  BY <1>2, SignalsKept DEF StartProbe, StartInvalid
<1>3. CASE StartDiscard(u)
  <2>1. current \in Clients
    BY <1>3, BoundsAssumption DEF StartDiscard, LockInv, Discarding, Clients
  <2>2. \A i \in Clients : Accepting(i)' = Accepting(i)
    BY <1>3 DEF StartDiscard, Accepting
  <2>3. NoOrphanListener'
    BY <1>3, <2>1, <2>2 DEF StartDiscard, NoOrphanListener
  <2>4. SentInv'
    BY <1>3, <2>1, <2>2 DEF StartDiscard, SentInv
  <2> QED
    BY <2>3, <2>4
<1>4. CASE StartNew(u)
  BY <1>4, SignalsKept DEF StartNew
<1>5. CASE StartBind(u)
  <2>1. mine[u] \in Clients /\ current = 0
    BY <1>5 DEF StartBind, WorkInv, LockInv, Making
  <2>2. NoOrphanListener'
    <3> SUFFICES ASSUME NEW i \in Clients, Accepting(i)', i # current'
                 PROVE  signal'[i] # "none"
      BY DEF NoOrphanListener
    <3>1. i # mine[u] => Accepting(i) /\ signal' = signal
      BY <1>5, <2>1 DEF StartBind, Accepting
    <3>2. i # mine[u]
      BY <1>5, <2>1 DEF StartBind, Accepting, NoOrphanListener, NewInv
    <3> QED
      BY <3>1, <3>2, <2>1 DEF NoOrphanListener, Clients
  <2>3. signal[mine[u]] = "none"
    BY <1>5, <2>1 DEF StartBind, NewInv
  <2>4. \A i \in Clients : Accepting(i)' /\ signal'[i] = "sent" => Accepting(i) /\ i # mine[u]
    BY <1>5, <2>1, <2>3 DEF StartBind, Accepting
  <2>5. SentInv'
    BY <1>5, <2>4 DEF StartBind, SentInv
  <2> QED
    BY <2>2, <2>5
<1> QED
  BY <1>1, <1>2, <1>3, <1>4, <1>5 DEF Start

LEMMA StopSignals ==
  ASSUME TypeOK, LockInv, WorkInv, NewInv, SentInv, NoOrphanListener, NEW u \in Callers,
         StopCall(u) \/ Stop(u)
  PROVE  SentInv' /\ NoOrphanListener'
<1> USE DEF TypeOK, appVars, commandVars, clientVars, Goto, Return
<1>1. CASE StopCall(u) \/ StopNothing(u)
  BY <1>1, SignalsKept DEF StopCall, StopNothing
<1>2. CASE StopSignal(u)
  <2>1. current \in Clients
    BY <1>2, BoundsAssumption DEF StopSignal, Clients
  <2>2. \A i \in Clients : Accepting(i)' = Accepting(i)
    BY <1>2 DEF StopSignal, Accepting
  <2>3. NoOrphanListener'
    BY <1>2, <2>1, <2>2 DEF StopSignal, NoOrphanListener
  <2>4. SentInv'
    BY <1>2, <2>1, <2>2 DEF StopSignal, SentInv
  <2> QED
    BY <2>3, <2>4
<1>3. CASE StopWait(u)
  BY <1>3 DEF StopWait, SentInv, NoOrphanListener, Accepting
<1> QED
  BY <1>1, <1>2, <1>3 DEF Stop

LEMMA CommandSignals ==
  ASSUME TypeOK, SentInv, NoOrphanListener, NEW u \in Callers,
         \/ StatusCall(u) \/ PortCall(u) \/ ServersCall(u)
         \/ Status(u) \/ UpdatePort(u) \/ ServersSet(u)
  PROVE  SentInv' /\ NoOrphanListener'
<1> USE SignalsKept DEF TypeOK, appVars, commandVars, clientVars, Goto, Return
<1>1. CASE StatusCall(u) \/ PortCall(u) \/ ServersCall(u)
  BY <1>1 DEF StatusCall, PortCall, ServersCall
<1>2. CASE Status(u)
  BY <1>2 DEF Status, StatusRead, StatusReadPort, StatusProbe, StatusProbed
<1>3. CASE UpdatePort(u)
  BY <1>3 DEF UpdatePort, PortLock, PortProbe, PortSet
<1>4. CASE ServersSet(u)
  BY <1>4 DEF ServersSet
<1> QED
  BY <1>1, <1>2, <1>3, <1>4

LEMMA ClientSignals ==
  ASSUME TypeOK, SentInv, NoOrphanListener, NEW i \in Clients,
         Accept(i) \/ TakePermit(i) \/ SeeSignal(i) \/ RelayEnds(i)
  PROVE  SentInv' /\ NoOrphanListener'
  BY DEF TypeOK, SentInv, NoOrphanListener, Accepting, appVars, commandVars,
     Accept, TakePermit, SeeSignal, RelayEnds

-----------------------------------------------------------------------------
(* New clients.                                                             *)

LEMMA StartClients ==
  ASSUME TypeOK, LockInv, WorkInv, NewInv, NEW u \in Callers, StartCall(u) \/ Start(u)
  PROVE  NewInv'
<1> USE BoundsAssumption DEF TypeOK, NewInv, appVars, clientVars, Goto, Return
<1>1. CASE StartCall(u) \/ StartLock(u) \/ StartReadPort(u)
  BY <1>1 DEF StartCall, StartLock, StartReadPort
<1>2. CASE StartProbe(u) \/ StartInvalid(u)
  BY <1>2 DEF StartProbe, StartInvalid
<1>3. CASE StartDiscard(u)
  BY <1>3 DEF StartDiscard, LockInv, Discarding, Clients
<1>4. CASE StartNew(u)
  <2>1. \A v \in Callers \ {u} : pc[v] # "startBind"
    BY <1>4 DEF StartNew, LockInv, Making
  <2> QED
    BY <1>4, <2>1 DEF StartNew
<1>5. CASE StartBind(u)
  <2>1. \A v \in Callers \ {u} : pc[v] # "startBind"
    BY <1>5 DEF StartBind, LockInv, Making
  <2>2. mine[u] \in Clients /\ current = 0
    BY <1>5 DEF StartBind, WorkInv, LockInv, Making
  <2> QED
    BY <1>5, <2>1, <2>2 DEF StartBind
<1> QED
  BY <1>1, <1>2, <1>3, <1>4, <1>5 DEF Start

LEMMA StopClients ==
  ASSUME TypeOK, LockInv, WorkInv, NewInv, NEW u \in Callers, StopCall(u) \/ Stop(u)
  PROVE  NewInv'
<1> USE BoundsAssumption DEF TypeOK, NewInv, appVars, clientVars, Goto, Return
<1>1. CASE StopCall(u) \/ StopNothing(u)
  BY <1>1 DEF StopCall, StopNothing
<1>2. CASE StopSignal(u)
  <2>1. \A v \in Callers : pc[v] # "startBind"
    BY <1>2, CallersAssumption DEF StopSignal, LockInv, Making
  <2> QED
    BY <1>2, <2>1 DEF StopSignal, Clients
<1>3. CASE StopWait(u)
  <2>1. \A v \in Callers : pc[v] # "startBind"
    BY <1>3 DEF StopWait, LockInv, Making
  <2>2. mine[u] \in Clients
    BY <1>3 DEF StopWait, WorkInv
  <2> QED
    BY <1>3, <2>1, <2>2 DEF StopWait
<1> QED
  BY <1>1, <1>2, <1>3 DEF Stop

LEMMA CommandClients ==
  ASSUME TypeOK, NewInv, NEW u \in Callers,
         \/ StatusCall(u) \/ PortCall(u) \/ ServersCall(u)
         \/ Status(u) \/ UpdatePort(u) \/ ServersSet(u)
  PROVE  NewInv'
<1> USE DEF TypeOK, NewInv, appVars, clientVars, Goto, Return
<1>1. CASE StatusCall(u) \/ PortCall(u) \/ ServersCall(u)
  BY <1>1 DEF StatusCall, PortCall, ServersCall
<1>2. CASE Status(u)
  BY <1>2 DEF Status, StatusRead, StatusReadPort, StatusProbe, StatusProbed
<1>3. CASE UpdatePort(u)
  BY <1>3 DEF UpdatePort, PortLock, PortProbe, PortSet
<1>4. CASE ServersSet(u)
  BY <1>4 DEF ServersSet
<1> QED
  BY <1>1, <1>2, <1>3, <1>4

LEMMA ClientClients ==
  ASSUME NewInv, NEW i \in Clients,
         Accept(i) \/ TakePermit(i) \/ SeeSignal(i) \/ RelayEnds(i)
  PROVE  NewInv'
  BY DEF NewInv, appVars, commandVars, Accept, TakePermit, SeeSignal, RelayEnds

-----------------------------------------------------------------------------
(* The port in the file.                                                    *)

LEMMA SavedPort ==
  ASSUME TypeOK, WorkInv, AckedPortKept, NEW u \in Callers, UpdatePort(u) \/ ServersSet(u)
  PROVE  AckedPortKept'
<1>1. CASE PortLock(u) \/ PortProbe(u)
  BY <1>1 DEF AckedPortKept, PortLock, PortProbe, configVars
<1>2. CASE PortSet(u)
  <2>1. port[u] \in Ports
    BY <1>2 DEF PortSet, WorkInv
  <2>2. config'.listen_port = port[u]
    BY <1>2 DEF PortSet, TypeOK, ClientConfig
  <2> QED
    BY <1>2, <2>1, <2>2, PortsAssumption DEF PortSet, Saves, AckedPortKept
<1>3. CASE ServersSet(u)
  BY <1>3 DEF ServersSet, Saves, AckedPortKept
<1> QED
  BY <1>1, <1>2, <1>3 DEF UpdatePort

LEMMA OthersKeepPort ==
  ASSUME AckedPortKept,
         \/ \E u \in Callers :
              \/ StartCall(u) \/ StopCall(u) \/ StatusCall(u) \/ PortCall(u)
              \/ ServersCall(u) \/ Start(u) \/ Stop(u) \/ Status(u)
         \/ \E i \in Clients : Accept(i) \/ TakePermit(i) \/ SeeSignal(i) \/ RelayEnds(i)
  PROVE  AckedPortKept'
<1>1. UNCHANGED configVars
  BY DEF appVars, StartCall, StopCall, StatusCall, PortCall, ServersCall,
     Start, StartLock, StartReadPort, StartProbe, StartDiscard, StartInvalid, StartNew,
     StartBind, Stop, StopNothing, StopSignal, StopWait, Status, StatusRead,
     StatusReadPort, StatusProbe, StatusProbed, Accept, TakePermit, SeeSignal, RelayEnds
<1> QED
  BY <1>1 DEF AckedPortKept, configVars

LEMMA RestartInv ==
  ASSUME DesktopInv, Restart \/ Repair \/ KilledInSave
  PROVE  DesktopInv'
<1> USE DEF DesktopInv, TypeOK
<1>1. Fresh'
  BY DEF Restart, Repair, KilledInSave, Relaunched, Fresh
<1>2. ConfigsOK'
  <2>1. config' \in ClientConfig /\ file' \in ClientConfig \cup {Torn, Absent}
    BY FileTypes, Configs DEF Restart, Repair, KilledInSave, Relaunched
  <2>2. acked' \in Ports \cup {NoPort}
    BY PortsAssumption DEF Restart, Repair, KilledInSave
  <2> QED
    BY <2>1, <2>2 DEF ConfigsOK
<1>3. AckedPortKept'
  <2>1. CASE Restart
    BY <2>1, FileTypes, Configs DEF Restart, Relaunched, AckedPortKept
  <2>2. CASE Repair
    BY <2>2, FileTypes, Configs DEF Repair, Relaunched, AckedPortKept
  <2>3. CASE KilledInSave
    BY <2>3 DEF KilledInSave, AckedPortKept
  <2> QED
    BY <2>1, <2>2, <2>3
<1>4. Fresh' /\ ConfigsOK' /\ AckedPortKept' => DesktopInv'
  BY FreshInv, PTL
<1> QED
  BY <1>1, <1>2, <1>3, <1>4

-----------------------------------------------------------------------------
LEMMA NextInv == DesktopInv /\ [Next]_vars => DesktopInv'
<1> SUFFICES ASSUME DesktopInv, [Next]_vars PROVE DesktopInv'
  OBVIOUS
<1> USE DEF DesktopInv
<1>1. ASSUME NEW u \in Callers, StartCall(u) \/ Start(u) PROVE DesktopInv'
  BY <1>1, StartTypes, StartLocks, StartSignals, StartClients, OthersKeepPort
<1>2. ASSUME NEW u \in Callers, StopCall(u) \/ Stop(u) PROVE DesktopInv'
  BY <1>2, StopTypes, StopLocks, StopSignals, StopClients, OthersKeepPort
<1>3. ASSUME NEW u \in Callers,
             \/ StatusCall(u) \/ PortCall(u) \/ ServersCall(u)
             \/ Status(u) \/ UpdatePort(u) \/ ServersSet(u)
      PROVE  DesktopInv'
  BY <1>3, CommandTypes, CommandLocks, CommandSignals, CommandClients, OthersKeepPort, SavedPort
<1>4. ASSUME NEW i \in Clients, Accept(i) \/ TakePermit(i) \/ SeeSignal(i) \/ RelayEnds(i)
      PROVE  DesktopInv'
  BY <1>4, ClientTypes, ClientLocks, ClientSignals, ClientClients, OthersKeepPort
<1>5. CASE Restart \/ Repair \/ KilledInSave
  BY <1>5, RestartInv
<1>6. CASE UNCHANGED vars
  BY <1>6 DEF vars, appVars, configVars, commandVars, clientVars, TypeOK, LockInv,
     WorkInv, NewInv, SentInv, NoOrphanListener, AckedPortKept, Accepting
<1> QED
  BY <1>1, <1>2, <1>3, <1>4, <1>5, <1>6 DEF Next, Command

LEMMA Invariance == Spec => []DesktopInv
  BY InitInv, NextInv, PTL DEF Spec

(* The types are right, and no client serves more connections than it has   *)
(* permits.                                                                 *)
THEOREM TypeCorrect == Spec => []TypeOK
<1>1. DesktopInv => TypeOK
  BY DEF DesktopInv
<1> QED
  BY <1>1, Invariance, PTL

(* start_proxy and stop_proxy never lose a client that listens: whichever   *)
(* commands cross each other, it is the current one or has been told to end.*)
THEOREM NoListenerLost == Spec => []NoOrphanListener
<1>1. DesktopInv => NoOrphanListener
  BY DEF DesktopInv
<1> QED
  BY <1>1, Invariance, PTL

(* When a start binds its port, every client that was stopped has closed    *)
(* its listener: the stop that sent the signal holds the mutex until then.  *)
THEOREM StopFreesPort == Spec => []StoppedFreesPort
<1>1. DesktopInv => StoppedFreesPort
  <2> SUFFICES ASSUME DesktopInv, NEW u \in Callers, pc[u] = "startBind",
                      NEW i \in Clients, Accepting(i)
               PROVE  signal[i] = "closed"
    BY DEF StoppedFreesPort
  <2> USE DEF DesktopInv
  <2>1. proxyLock = u /\ current = 0
    BY DEF LockInv, Making
  <2>2. \A v \in Callers : pc[v] # "stopWait"
    BY <2>1 DEF LockInv
  <2>3. signal[i] # "sent"
    BY <2>2 DEF SentInv
  <2>4. signal[i] # "none"
    BY <2>1 DEF NoOrphanListener, Clients
  <2> QED
    BY <2>3, <2>4 DEF TypeOK
<1> QED
  BY <1>1, Invariance, PTL

(* A port the user was told is saved outlives commands, failed saves and    *)
(* restarts, unless a later write is cut short.                             *)
THEOREM SavedPortSurvives == Spec => []AckedPortKept
<1>1. DesktopInv => AckedPortKept
  BY DEF DesktopInv
<1> QED
  BY <1>1, Invariance, PTL

-----------------------------------------------------------------------------
(* Who waits for whom.                                                      *)

(* The config mutex is held while a port is probed and set, and only then.  *)
ConfigLockInv ==
  \A u \in Callers : configLock = u <=> pc[u] \in {"portProbe", "portProbed"}

(* The current client has an accept task; so has one that is waited for,    *)
(* and it has been told.                                                    *)
TaskInv ==
  /\ current # 0 => loop[current] # "none"
  /\ \A u \in Callers :
       pc[u] = "stopWait" => loop[mine[u]] # "none" /\ signal[mine[u]] # "none"

LEMMA NextConfigLock ==
  ASSUME TypeOK, ConfigLockInv, [Next]_vars
  PROVE  ConfigLockInv'
<1> USE CallersAssumption DEF ConfigLockInv, TypeOK, Goto, Return, appVars, commandVars
<1>1. ASSUME NEW u \in Callers, StartCall(u) \/ StopCall(u) \/ StatusCall(u)
                                  \/ PortCall(u) \/ ServersCall(u)
      PROVE  ConfigLockInv'
  BY <1>1 DEF StartCall, StopCall, StatusCall, PortCall, ServersCall
<1>2. ASSUME NEW u \in Callers, Start(u) PROVE ConfigLockInv'
  BY <1>2 DEF Start, StartLock, StartReadPort, StartProbe, StartDiscard, StartInvalid,
              StartNew, StartBind
<1>3. ASSUME NEW u \in Callers, Stop(u) \/ Status(u) PROVE ConfigLockInv'
  BY <1>3 DEF Stop, StopNothing, StopSignal, StopWait, Status, StatusRead,
              StatusReadPort, StatusProbe, StatusProbed
<1>4. ASSUME NEW u \in Callers, UpdatePort(u) \/ ServersSet(u) PROVE ConfigLockInv'
  BY <1>4 DEF UpdatePort, PortLock, PortProbe, PortSet, ServersSet
<1>5. ASSUME NEW i \in Clients, Accept(i) \/ TakePermit(i) \/ SeeSignal(i) \/ RelayEnds(i)
      PROVE  ConfigLockInv'
  BY <1>5 DEF Accept, TakePermit, SeeSignal, RelayEnds
<1>6. CASE Restart \/ Repair \/ KilledInSave
  BY <1>6 DEF Restart, Repair, KilledInSave, Relaunched, Commands
<1>7. CASE UNCHANGED vars
  BY <1>7 DEF vars
<1> QED
  BY <1>1, <1>2, <1>3, <1>4, <1>5, <1>6, <1>7 DEF Next, Command

(* A step of one command that leaves the clients alone.                     *)
LEMMA TasksKept ==
  ASSUME TypeOK, TaskInv, NEW u \in Callers, UNCHANGED <<current, loop, signal>>,
         pc'[u] # "stopWait",
         \A v \in Callers \ {u} : pc'[v] = pc[v] /\ mine'[v] = mine[v]
  PROVE  TaskInv'
  BY DEF TaskInv

LEMMA NextTask ==
  ASSUME DesktopInv, TaskInv, [Next]_vars
  PROVE  TaskInv'
<1> USE DEF Goto, Return, appVars, commandVars, clientVars
<1>0. /\ TypeOK /\ LockInv /\ WorkInv /\ NewInv
      /\ \A u \in Callers : pc[u] = "stopWait" => mine[u] \in Clients
  BY DEF DesktopInv, WorkInv
<1>1. ASSUME NEW u \in Callers, StartCall(u) \/ StopCall(u) \/ StatusCall(u)
                                  \/ PortCall(u) \/ ServersCall(u)
      PROVE  TaskInv'
  BY <1>0, <1>1, TasksKept DEF StartCall, StopCall, StatusCall, PortCall, ServersCall, TypeOK
<1>2. ASSUME NEW u \in Callers,
             StartLock(u) \/ StartReadPort(u) \/ StartProbe(u) \/ StartInvalid(u) \/ StartNew(u)
      PROVE  TaskInv'
  BY <1>0, <1>2, TasksKept
     DEF StartLock, StartReadPort, StartProbe, StartInvalid, StartNew, TypeOK
<1>3. ASSUME NEW u \in Callers, StartDiscard(u) PROVE TaskInv'
  BY <1>0, <1>3 DEF StartDiscard, TaskInv, TypeOK
<1>4. ASSUME NEW u \in Callers, StartBind(u) PROVE TaskInv'
  <2>1. mine[u] \in Clients /\ pc'[u] = "idle"
          /\ (\A v \in Callers \ {u} : pc'[v] = pc[v] /\ mine'[v] = mine[v])
    BY <1>0, <1>4 DEF StartBind, WorkInv, TypeOK
  <2>2. signal' = signal /\ \A i \in Clients : loop[i] # "none" => loop'[i] # "none"
    BY <1>0, <1>4 DEF StartBind, TypeOK
  <2>3. current' # 0 => loop'[current'] # "none"
    <3>1. CASE Taken(port[u])
      <4>1. current' = current /\ loop' = loop
        BY <1>4, <3>1 DEF StartBind
      <4> QED BY <4>1 DEF TaskInv
    <3>2. CASE ~ Taken(port[u])
      BY <1>0, <1>4, <2>1, <3>2 DEF StartBind, TypeOK
    <3> QED BY <3>1, <3>2
  <2> QED BY <1>0, <2>1, <2>2, <2>3 DEF TaskInv
<1>5. ASSUME NEW u \in Callers, StopNothing(u) \/ Status(u) \/ UpdatePort(u) \/ ServersSet(u)
      PROVE  TaskInv'
  BY <1>0, <1>5, TasksKept
     DEF StopNothing, Status, StatusRead, StatusReadPort, StatusProbe, StatusProbed,
         UpdatePort, PortLock, PortProbe, PortSet, ServersSet, TypeOK
<1>6. ASSUME NEW u \in Callers, StopSignal(u) PROVE TaskInv'
  <2>1. current \in Clients /\ loop[current] # "none"
    BY <1>0, <1>6, BoundsAssumption DEF StopSignal, TaskInv, TypeOK, Clients
  <2> QED BY <1>0, <1>6, <2>1 DEF StopSignal, TaskInv, TypeOK
<1>7. ASSUME NEW u \in Callers, StopWait(u) PROVE TaskInv'
  BY <1>0, <1>7, TasksKept DEF StopWait, TypeOK
<1>8. ASSUME NEW i \in Clients, Accept(i) \/ TakePermit(i) \/ SeeSignal(i) \/ RelayEnds(i)
      PROVE  TaskInv'
  <2>1. UNCHANGED <<current, pc, mine, signal>>
    BY <1>8 DEF Accept, TakePermit, SeeSignal, RelayEnds
  <2>2. \A j \in Clients : loop[j] # "none" => loop'[j] # "none"
    BY <1>0, <1>8 DEF Accept, TakePermit, SeeSignal, RelayEnds, TypeOK
  <2>3. current # 0 => current \in Clients
    BY <1>0, BoundsAssumption DEF TypeOK, Clients
  <2> QED BY <1>0, <2>1, <2>2, <2>3 DEF TaskInv
<1>9. CASE Restart \/ Repair \/ KilledInSave
  BY <1>9 DEF Restart, Repair, KilledInSave, Relaunched, Commands, TaskInv
<1>10. CASE UNCHANGED vars
  BY <1>10 DEF vars, TaskInv
<1> QED
  BY <1>1, <1>2, <1>3, <1>4, <1>5, <1>6, <1>7, <1>8, <1>9, <1>10
     DEF Next, Command, Start, Stop

(* The window does not freeze in a circle of waits: the holder of either    *)
(* mutex waits at most for what is on its way, for every number of          *)
(* commands, clients and permits.                                           *)
THEOREM NoCircularWait == Spec => []HolderGoesOn
<1>1. Init => ConfigLockInv /\ TaskInv
  BY CallersAssumption DEF Init, ConfigLockInv, TaskInv, Commands
<1>2. DesktopInv /\ ConfigLockInv /\ [Next]_vars => ConfigLockInv'
  BY NextConfigLock DEF DesktopInv
<1>3. DesktopInv /\ TaskInv /\ [Next]_vars => TaskInv'
  BY NextTask
<1>4. DesktopInv /\ ConfigLockInv /\ TaskInv => HolderGoesOn
  <2> SUFFICES ASSUME DesktopInv, ConfigLockInv, TaskInv, NEW u \in Callers, proxyLock = u,
                      pc[u] = "stopWait"
               PROVE  \/ loop[mine[u]] = "done"
                      \/ Accepting(mine[u]) /\ signal[mine[u]] # "none"
    BY DEF HolderGoesOn, ConfigLockInv, DesktopInv, LockInv, Discarding, Making
  <2>1. mine[u] \in Clients /\ loop[mine[u]] \in {"select", "permit", "done"}
    BY DEF DesktopInv, WorkInv, TypeOK, TaskInv
  <2> QED BY <2>1 DEF TaskInv, Accepting
<1> QED
  BY <1>1, <1>2, <1>3, <1>4, Invariance, PTL DEF Spec
=============================================================================
