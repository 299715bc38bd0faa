---------------------------- MODULE DesktopClient ----------------------------
(***************************************************************************)
(* Starting and stopping the client of the desktop application, and its    *)
(* settings.  client-gui/src-tauri/src/lib.rs: the commands start_proxy,   *)
(* stop_proxy, get_proxy_status, update_local_proxy_port and               *)
(* update_servers_config run as concurrent tasks that share two mutexes,   *)
(* and find out whether the proxy listens by binding its port for a        *)
(* moment.  client-core/src/proxy.rs: ProxyClient, whose accept task takes *)
(* a permit for every connection, listens for the stop signal between two  *)
(* of them, and ends by itself when the client that holds the sender is    *)
(* dropped.  client-core/src/config.rs: the file that outlives the         *)
(* process, which is written in place, and may be cut short.               *)
(*                                                                         *)
(* Each start makes a client; the clients of a process are numbered.  Of   *)
(* the settings, the local port is modelled, and whether the secret is one *)
(* that validate() accepts; the default is not.                            *)
(***************************************************************************)
EXTENDS Integers, FiniteSets

CONSTANTS
  Callers,     \* commands that can be on their way at the same time
  Ports,       \* local ports the user may choose
  FirstPort,   \* the port in the file the user has written
  DefaultPort, \* the port of default_config
  Permits,     \* permits of the client's semaphore
  MaxClients   \* bound on the clients a process creates

Free == "free"
NoPort == 0

ASSUME CallersAssumption == Free \notin Callers
ASSUME PortsAssumption == {FirstPort, DefaultPort} \subseteq Ports /\ NoPort \notin Ports
ASSUME BoundsAssumption == Permits \in Nat \ {0} /\ MaxClients \in Nat \ {0}

Clients == 1..MaxClients

ClientConfig == [listen_port : Ports, secret : BOOLEAN]
default_config == [listen_port |-> DefaultPort, secret |-> FALSE]
UserConfig == [listen_port |-> FirstPort, secret |-> TRUE]

(* A file that does not parse, and none.                                    *)
Torn == [listen_port |-> NoPort, secret |-> FALSE]
Absent == [listen_port |-> NoPort, secret |-> TRUE]

VARIABLES
  \* AppState
  proxyLock,   \* the caller that holds the proxy mutex, or Free
  current,     \* the client in it, 0 when there is none
  configLock,  \* the caller that holds the config mutex, or Free
  config,      \* the configuration in it
  \* commands
  pc,          \* pc[u]: where the command of caller u stands
  port,        \* port[u]: the port it has read or been given
  mine,        \* mine[u]: the client it works on
  \* clients
  state,       \* state[i]: ProxyState
  bound,       \* bound[i]: the port of its listener
  loop,        \* loop[i]: its accept task: "none", "select", "permit", "done"
  signal,      \* signal[i]: "none", "sent", or "closed" with its sender
  relays,      \* relays[i]: connections that hold a permit
  \* settings
  file,        \* the configuration file
  acked        \* the port the user was last told is saved (history)

configVars == <<config, file, acked>>
appVars == <<proxyLock, current, configLock, configVars>>
commandVars == <<pc, port, mine>>
clientVars == <<state, bound, loop, signal, relays>>
vars == <<appVars, commandVars, clientVars>>

-----------------------------------------------------------------------------
(* The accept task owns the listener.                                       *)
Accepting(i) == loop[i] \in {"select", "permit"}

(* A command that has bound a port to find out, and not yet closed it.      *)
Probing(u) == pc[u] \in {"startProbed", "statusProbed", "portProbed"}

(* A bind of port p fails.                                                  *)
Taken(p) ==
  \/ \E i \in Clients : Accepting(i) /\ bound[i] = p
  \/ \E u \in Callers : Probing(u) /\ port[u] = p

Goto(u, where) == pc' = [pc EXCEPT ![u] = where]

(* The command of u is over, and its local variables with it.               *)
Return(u) ==
  /\ Goto(u, "idle")
  /\ port' = [port EXCEPT ![u] = NoPort]
  /\ mine' = [mine EXCEPT ![u] = 0]

(* load_or_create, and default_config when it fails.                        *)
Loaded(f) == IF f \in ClientConfig THEN f ELSE default_config

(* What it leaves on the disk: a missing file is created, if it can be.     *)
Created(f) == IF f = Absent THEN {default_config, Torn, Absent} ELSE {f}

Commands(v) == [u \in Callers |-> v]
All(v) == [i \in Clients |-> v]

(* The application has never run, or the user has written its file.         *)
Init ==
  /\ proxyLock = Free /\ current = 0 /\ configLock = Free
  /\ \/ config = Loaded(Absent) /\ file \in Created(Absent) /\ acked = NoPort
     \/ config = Loaded(UserConfig) /\ file = UserConfig /\ acked = FirstPort
  /\ pc = Commands("idle") /\ port = Commands(NoPort) /\ mine = Commands(0)
  /\ state = All("none") /\ bound = All(NoPort) /\ loop = All("none")
  /\ signal = All("none") /\ relays = All(0)

-----------------------------------------------------------------------------
(* start_proxy: holds the proxy mutex from StartLock until it returns.      *)

Starting(u) ==
  pc[u] \in {"start", "startPort", "startProbe", "startProbed", "startNew"}

(* Bound: every start on its way has a client to make.                      *)
StartCall(u) ==
  /\ pc[u] = "idle"
  /\ Cardinality({ v \in Callers : Starting(v) })
       < Cardinality({ i \in Clients : state[i] = "none" })
  /\ Goto(u, "start")
  /\ UNCHANGED <<appVars, port, mine, clientVars>>

StartLock(u) ==
  /\ pc[u] = "start" /\ proxyLock = Free
  /\ proxyLock' = u
  /\ Goto(u, IF current # 0 THEN "startPort" ELSE "startNew")
  /\ UNCHANGED <<current, configLock, configVars, port, mine, clientVars>>

StartReadPort(u) ==
  /\ pc[u] = "startPort" /\ configLock = Free
  /\ port' = [port EXCEPT ![u] = config.listen_port]
  /\ Goto(u, "startProbe")
  /\ UNCHANGED <<appVars, mine, clientVars>>

(* check_port_listening; a port in use is taken for the proxy.              *)
StartProbe(u) ==
  /\ pc[u] = "startProbe"
  /\ \/ Taken(port[u]) /\ Return(u) /\ proxyLock' = Free
     \/ ~ Taken(port[u]) /\ Goto(u, "startProbed") /\ UNCHANGED <<proxyLock, port, mine>>
  /\ UNCHANGED <<current, configLock, configVars, clientVars>>

(* Mutant of StartDiscard: the sender survives the client, as it would if   *)
(* the accept task kept a clone of it.                                      *)
StartDiscardSilently(u) ==
  /\ pc[u] = "startProbed"
  /\ current' = 0
  /\ Goto(u, "startNew")
  /\ UNCHANGED <<proxyLock, configLock, configVars, port, mine, clientVars>>

(* The port is closed again; the old client is dropped, and with it the     *)
(* sender its accept task listens to.                                       *)
StartDiscard(u) ==
  /\ pc[u] = "startProbed"
  /\ current' = 0
  /\ signal' = [signal EXCEPT ![current] = "closed"]
  /\ Goto(u, "startNew")
  /\ UNCHANGED <<proxyLock, configLock, configVars, port, mine, state,
                 bound, loop, relays>>

(* The configuration is cloned; ProxyClient::new refuses its secret.        *)
StartInvalid(u) ==
  /\ pc[u] = "startNew" /\ configLock = Free /\ ~ config.secret
  /\ proxyLock' = Free
  /\ Return(u)
  /\ UNCHANGED <<current, configLock, configVars, clientVars>>

(* The configuration is cloned and ProxyClient::start entered.              *)
StartNew(u) ==
  /\ pc[u] = "startNew" /\ configLock = Free /\ config.secret
  /\ \E i \in Clients :
       /\ state[i] = "none" /\ \A j \in 1..(i - 1) : state[j] # "none"
       /\ mine' = [mine EXCEPT ![u] = i]
       /\ state' = [state EXCEPT ![i] = "Starting"]
  /\ port' = [port EXCEPT ![u] = config.listen_port]
  /\ Goto(u, "startBind")
  /\ UNCHANGED <<appVars, bound, loop, signal, relays>>

(* bind_port fails and the new client is dropped, or its accept task is     *)
(* spawned and it becomes the current one.                                  *)
StartBind(u) ==
  /\ pc[u] = "startBind"
  /\ LET i == mine[u] IN
       IF Taken(port[u])
         THEN /\ state' = [state EXCEPT ![i] = "Stopped"]
              /\ UNCHANGED <<current, bound, loop>>
         ELSE /\ bound' = [bound EXCEPT ![i] = port[u]]
              /\ loop' = [loop EXCEPT ![i] = "select"]
              /\ state' = [state EXCEPT ![i] = "Running"]
              /\ current' = i
  /\ proxyLock' = Free
  /\ Return(u)
  /\ UNCHANGED <<configLock, configVars, signal, relays>>

Start(u) == StartLock(u) \/ StartReadPort(u) \/ StartProbe(u) \/ StartDiscard(u)
              \/ StartInvalid(u) \/ StartNew(u) \/ StartBind(u)

-----------------------------------------------------------------------------
(* stop_proxy: takes the client out, and holds the mutex while stop() waits *)
(* for the accept task.                                                     *)

StopCall(u) ==
  /\ pc[u] = "idle"
  /\ Goto(u, "stop")
  /\ UNCHANGED <<appVars, port, mine, clientVars>>

StopNothing(u) ==
  /\ pc[u] = "stop" /\ proxyLock = Free /\ current = 0
  /\ Return(u)
  /\ UNCHANGED <<appVars, clientVars>>

(* Mutant of StopSignal: the signal is left out, and the handle awaited.    *)
StopSilently(u) ==
  /\ pc[u] = "stop" /\ proxyLock = Free /\ current # 0
  /\ proxyLock' = u /\ current' = 0
  /\ mine' = [mine EXCEPT ![u] = current]
  /\ state' = [state EXCEPT ![current] = "Stopping"]
  /\ Goto(u, "stopWait")
  /\ UNCHANGED <<configLock, configVars, port, bound, loop, signal, relays>>

StopSignal(u) ==
  /\ pc[u] = "stop" /\ proxyLock = Free /\ current # 0
  /\ proxyLock' = u /\ current' = 0
  /\ mine' = [mine EXCEPT ![u] = current]
  /\ state' = [state EXCEPT ![current] = "Stopping"]
  /\ signal' = [signal EXCEPT ![current] = "sent"]
  /\ Goto(u, "stopWait")
  /\ UNCHANGED <<configLock, configVars, port, bound, loop, relays>>

(* Mutant of StopWait: the handle is not awaited.                           *)
StopReturn(u) ==
  /\ pc[u] = "stopWait"
  /\ state' = [state EXCEPT ![mine[u]] = "Stopped"]
  /\ proxyLock' = Free
  /\ Return(u)
  /\ UNCHANGED <<current, configLock, configVars, bound, loop, signal, relays>>

StopWait(u) ==
  /\ pc[u] = "stopWait" /\ loop[mine[u]] = "done"
  /\ state' = [state EXCEPT ![mine[u]] = "Stopped"]
  /\ proxyLock' = Free
  /\ Return(u)
  /\ UNCHANGED <<current, configLock, configVars, bound, loop, signal, relays>>

Stop(u) == StopNothing(u) \/ StopSignal(u) \/ StopWait(u)

-----------------------------------------------------------------------------
(* get_proxy_status: reads the client's state under the proxy mutex,        *)
(* releases it, and looks at the port of the configuration.                 *)

StatusCall(u) ==
  /\ pc[u] = "idle"
  /\ Goto(u, "status")
  /\ UNCHANGED <<appVars, port, mine, clientVars>>

(* Without a client the answer is "Stopped".                                *)
StatusRead(u) ==
  /\ pc[u] = "status" /\ proxyLock = Free
  /\ \/ current = 0 /\ Return(u)
     \/ /\ current # 0
        /\ mine' = [mine EXCEPT ![u] = current]
        /\ Goto(u, "statusPort")
        /\ UNCHANGED port
  /\ UNCHANGED <<appVars, clientVars>>

StatusReadPort(u) ==
  /\ pc[u] = "statusPort" /\ configLock = Free
  /\ port' = [port EXCEPT ![u] = config.listen_port]
  /\ Goto(u, "statusProbe")
  /\ UNCHANGED <<appVars, mine, clientVars>>

(* The answer is "Running" when the bind fails, and "Error" when it         *)
(* succeeds.                                                                *)
StatusProbe(u) ==
  /\ pc[u] = "statusProbe"
  /\ \/ Taken(port[u]) /\ Return(u)
     \/ ~ Taken(port[u]) /\ Goto(u, "statusProbed") /\ UNCHANGED <<port, mine>>
  /\ UNCHANGED <<appVars, clientVars>>

StatusProbed(u) ==
  /\ pc[u] = "statusProbed"
  /\ Return(u)
  /\ UNCHANGED <<appVars, clientVars>>

Status(u) == StatusRead(u) \/ StatusReadPort(u) \/ StatusProbe(u) \/ StatusProbed(u)

-----------------------------------------------------------------------------
(* update_local_proxy_port: holds the config mutex while it probes the new  *)
(* port.  A client that runs is not told.                                   *)

PortCall(u) ==
  /\ pc[u] = "idle"
  /\ \E p \in Ports : port' = [port EXCEPT ![u] = p]
  /\ Goto(u, "port")
  /\ UNCHANGED <<appVars, mine, clientVars>>

PortLock(u) ==
  /\ pc[u] = "port" /\ configLock = Free
  /\ configLock' = u
  /\ Goto(u, "portProbe")
  /\ UNCHANGED <<proxyLock, current, configVars, port, mine, clientVars>>

PortProbe(u) ==
  /\ pc[u] = "portProbe"
  /\ \/ Taken(port[u]) /\ Return(u) /\ configLock' = Free
     \/ ~ Taken(port[u]) /\ Goto(u, "portProbed") /\ UNCHANGED <<configLock, port, mine>>
  /\ UNCHANGED <<proxyLock, current, configVars, clientVars>>

(* Mutant of Saves: the error of the write is lost.                         *)
SavesSilently(c, ok) == ok /\ file' \in {c, file, Torn}

(* save_to_file, with the creation of its directory: the file is truncated  *)
(* and written, and either may fail.                                        *)
Saves(c, ok) == file' \in IF ok THEN {c} ELSE {file, Torn}

(* Mutant of PortSet: the client is stopped for the new port to be used     *)
(* before the config mutex is released.                                     *)
PortSetStops(u) ==
  /\ pc[u] = "portProbed"
  /\ config' = [config EXCEPT !.listen_port = port[u]]
  /\ \E ok \in BOOLEAN : Saves(config', ok) /\ acked' = IF ok THEN port[u] ELSE NoPort
  /\ Goto(u, "stop")
  /\ UNCHANGED <<proxyLock, current, configLock, port, mine, clientVars>>

PortSet(u) ==
  /\ pc[u] = "portProbed"
  /\ config' = [config EXCEPT !.listen_port = port[u]]
  /\ \E ok \in BOOLEAN : Saves(config', ok) /\ acked' = IF ok THEN port[u] ELSE NoPort
  /\ configLock' = Free
  /\ Return(u)
  /\ UNCHANGED <<proxyLock, current, clientVars>>

UpdatePort(u) == PortLock(u) \/ PortProbe(u) \/ PortSet(u)

-----------------------------------------------------------------------------
(* update_servers_config and update_config: the port is saved with them.    *)

ServersCall(u) ==
  /\ pc[u] = "idle"
  /\ Goto(u, "servers")
  /\ UNCHANGED <<appVars, port, mine, clientVars>>

ServersSet(u) ==
  /\ pc[u] = "servers" /\ configLock = Free
  /\ \E ok \in BOOLEAN : Saves(config, ok)
  /\ acked' = IF file' = Torn THEN NoPort ELSE acked
  /\ Return(u)
  /\ UNCHANGED <<proxyLock, current, configLock, config, clientVars>>

-----------------------------------------------------------------------------
(* run_proxy_with_listener: the branch taken for a new connection waits for *)
(* a permit, and the stop signal is not looked at meanwhile.                *)

Accept(i) ==
  /\ loop[i] = "select"
  /\ loop' = [loop EXCEPT ![i] = "permit"]
  /\ UNCHANGED <<appVars, commandVars, state, bound, signal, relays>>

(* Mutant of TakePermit: connections are served without a permit.           *)
TakeNoPermit(i) ==
  /\ loop[i] = "permit"
  /\ relays' = [relays EXCEPT ![i] = @ + 1]
  /\ loop' = [loop EXCEPT ![i] = "select"]
  /\ UNCHANGED <<appVars, commandVars, state, bound, signal>>

TakePermit(i) ==
  /\ loop[i] = "permit" /\ relays[i] < Permits
  /\ relays' = [relays EXCEPT ![i] = @ + 1]
  /\ loop' = [loop EXCEPT ![i] = "select"]
  /\ UNCHANGED <<appVars, commandVars, state, bound, signal>>

(* recv() returns, with the signal or because the sender is gone.           *)
SeeSignal(i) ==
  /\ loop[i] = "select" /\ signal[i] # "none"
  /\ loop' = [loop EXCEPT ![i] = "done"]
  /\ bound' = [bound EXCEPT ![i] = NoPort]
  /\ UNCHANGED <<appVars, commandVars, state, signal, relays>>

(* handle_local_connection returns; it goes on after its client stopped.    *)
RelayEnds(i) ==
  /\ relays[i] > 0
  /\ relays' = [relays EXCEPT ![i] = @ - 1]
  /\ UNCHANGED <<appVars, commandVars, state, bound, loop, signal>>

-----------------------------------------------------------------------------
(* The process ends, and another one begins with the file f.                *)
Relaunched(f) ==
  /\ proxyLock' = Free /\ current' = 0 /\ configLock' = Free
  /\ config' = Loaded(f) /\ file' \in Created(f)
  /\ pc' = Commands("idle") /\ port' = Commands(NoPort) /\ mine' = Commands(0)
  /\ state' = All("none") /\ bound' = All(NoPort) /\ loop' = All("none")
  /\ signal' = All("none") /\ relays' = All(0)

(* It is ended at any time, by quit_app or from outside.                    *)
Restart == Relaunched(file) /\ UNCHANGED acked

(* The user writes the file by hand between two runs.                       *)
Repair == Relaunched(UserConfig) /\ acked' = FirstPort

(* It is ended between the truncation of the file and the end of the write. *)
KilledInSave ==
  /\ \E u \in Callers : \/ pc[u] = "portProbed"
                        \/ pc[u] = "servers" /\ configLock = Free
  /\ Relaunched(Torn) /\ acked' = NoPort

Command(u) == Start(u) \/ Stop(u) \/ Status(u) \/ UpdatePort(u) \/ ServersSet(u)

Next ==
  \/ \E u \in Callers : \/ StartCall(u) \/ StopCall(u) \/ StatusCall(u) \/ PortCall(u)
                        \/ ServersCall(u) \/ Command(u)
  \/ \E i \in Clients : Accept(i) \/ TakePermit(i) \/ SeeSignal(i) \/ RelayEnds(i)
  \/ Restart \/ Repair \/ KilledInSave

Spec == Init /\ [][Next]_vars

(* tokio's mutexes are handed over in order of arrival, and its select!     *)
(* starts at a random branch: a command or a signal that can go on again    *)
(* and again does go on.                                                    *)
Scheduling ==
  /\ \A u \in Callers : SF_vars(Command(u))
  /\ \A i \in Clients : SF_vars(SeeSignal(i)) /\ WF_vars(TakePermit(i))

(* The connections of applications come to an end.                          *)
RelaysEnd == \A i \in Clients : WF_vars(RelayEnds(i))

ScheduledSpec == Spec /\ Scheduling
FairSpec == ScheduledSpec /\ RelaysEnd
-----------------------------------------------------------------------------
(* Type invariant; no client serves more connections than it has permits.   *)
TypeOK ==
  /\ proxyLock \in Callers \cup {Free} /\ configLock \in Callers \cup {Free}
  /\ current \in 0..MaxClients /\ config \in ClientConfig
  /\ file \in ClientConfig \cup {Torn, Absent} /\ acked \in Ports \cup {NoPort}
  /\ pc \in [Callers -> {"idle",
        "start", "startPort", "startProbe", "startProbed", "startNew",
        "startBind", "stop", "stopWait", "status", "statusPort",
        "statusProbe", "statusProbed", "port", "portProbe", "portProbed", "servers"}]
  /\ port \in [Callers -> Ports \cup {NoPort}]
  /\ mine \in [Callers -> 0..MaxClients]
  /\ state \in [Clients -> {"none", "Starting", "Running", "Stopping", "Stopped"}]
  /\ bound \in [Clients -> Ports \cup {NoPort}]
  /\ loop \in [Clients -> {"none", "select", "permit", "done"}]
  /\ signal \in [Clients -> {"none", "sent", "closed"}]
  /\ relays \in [Clients -> 0..Permits]

(* No listener is left behind: an accept task that is not the current       *)
(* client's has been told to end, whichever commands crossed each other.    *)
NoOrphanListener ==
  \A i \in Clients : Accepting(i) /\ i # current => signal[i] # "none"

(* Stopping frees the port: when a new client binds, no client that was     *)
(* stopped still listens; only one that start_proxy dropped may.            *)
StoppedFreesPort ==
  \A u \in Callers : pc[u] = "startBind" =>
    \A i \in Clients : Accepting(i) => signal[i] = "closed"

(* A port the user was told is saved is the port the next start listens on, *)
(* and the next process finds in the file: whatever commands crossed the    *)
(* change, whichever later one failed to open the file, and whenever the    *)
(* process was killed, unless a write was cut short.                        *)
AckedPortKept ==
  acked # NoPort => config.listen_port = acked /\ file.listen_port = acked

(* The two mutexes are never waited for in a circle, nor held for ever:     *)
(* whoever holds the config mutex waits for nothing, and whoever holds the  *)
(* proxy mutex at most for the config mutex, or for an accept task that has *)
(* ended or has been told to.                                               *)
HolderGoesOn ==
  \A u \in Callers :
    /\ configLock = u => pc[u] \in {"portProbe", "portProbed"}
    /\ proxyLock = u =>
         \/ pc[u] \in {"startPort", "startProbe", "startProbed", "startNew", "startBind"}
         \/ /\ pc[u] = "stopWait"
            /\ \/ loop[mine[u]] = "done"
               \/ Accepting(mine[u]) /\ signal[mine[u]] # "none"

(* Liveness: every command comes back, so the window does not freeze: the   *)
(* mutexes are released on every path and never waited for in a circle.     *)
CommandsReturn == \A u \in Callers : pc[u] # "idle" ~> pc[u] = "idle"

-----------------------------------------------------------------------------
(* What comments say, and the code does not do.                             *)

(* "Stop the proxy client ... wait for the task to end" (proxy.rs:103,118): *)
(* stop() ends.                                                             *)
StopReturns == \A u \in Callers : pc[u] = "stopWait" ~> pc[u] = "idle"
=============================================================================
