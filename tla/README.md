# Xway in TLA+

Xway is a tunnelling proxy in Rust. An application speaks SOCKS5 to the local
client; the client carries each connection over an encrypted session to the
server, and the server connects to the target. A session uses one TCP
connection, or several *subflows* over which the server stripes the download.
A desktop application (Tauri) starts, stops and watches the client.

This directory models the parts of the program that decide something under
concurrency, failure or time, checks them with TLC on small instances, and
proves the main invariants with TLAPS for every value of the constants.

Run everything from this directory, for example

    tlc -config MCStriping_session.cfg MCStriping
    tlapm StripingProofs.tla

1. Inventory of the system · 2. Modules and code · 3. Runs · 4. Fairness ·
5. Proofs · 6. Where comments and code differ · 7. What is left out · 8. State and plan

## 1. Inventory of the system

Paths are relative to `src/`. "Hard" names what makes a part difficult to test.

### Server (`server/src`)

| Component | State | Operations | Interacts with | Hard | Correct when |
|---|---|---|---|---|---|
| Accept loop, `server.rs` `ProxyServer::run` | a semaphore of `max_connections` | accept, spawn a task per connection with its permit, retry after an accept error | every connection task | a join hands its socket to a session and gives its permit back at once | no connection waits for ever behind a session that holds the last permit while it waits for that very connection |
| Connection task, `handle_client_connection` | phase of the connection | ban check, handshake under a timeout, dial under a timeout, response, relay | ban, registry, replay cache, relay | the timeout drops a handshake wherever it awaits | exactly one response before any data; failures are counted |
| Session registry, `multipath.rs` `SessionRegistry`, `handle_join`, `collect_subflows` | one slot per session id: gathering connections, or a channel to the session and the indexes seen; its age | `register_join`, `open_session`, `close_session`, `sweep` | connection tasks of one session, sweeper task | joins come before, during and after connection 0's window; cancellation; stale slots | one connection per index; no accepted connection is lost early; nothing stays for ever |
| Striped downlink, `multipath.rs` `relay_download_striped`, `spawn_subflow_writer`, `read_credit_updates`, `relay_split` | a bounded queue and a counter per subflow, credit count, two watch channels, the stream's offset | read, wait for credit, pick the shortest queue, enqueue, write, count reports, FIN, join the writers | tasks that run concurrently, the client's reordering and its window updates | atomics read while they change, reports that overtake each other, lost wake-ups, subflows that fail at each await | an ordered byte stream, a bounded window, no stall, a true result |
| Single-path relay, `server.rs` `relay_with_encryption` | two loops under `try_join!` | decode to the target, encode from the target, shut down at an end | the client's relay | half-closed connections, failure of one direction, errors taken for an end | each direction is a byte stream with an honest end; the task ends |
| Ban on failed handshakes, `defense.rs` `DefenseManager` | per address: failures, window start, ban and its duration | `is_banned`, `record_auth_failure`, `ban_ip`, `cleanup` | all connection tasks of an address | the count and the ban are under different locks | failures in a window are bounded; a ban lasts |
| Replay cache, `server.rs` `reject_replayed_auth` | HMAC → timestamp | purge, insert | connection tasks; the clock is read again after `verify`, before the lock is awaited | a packet that is valid by one reading of the clock and purged by the other; a clock that is set back; two packets made in one tick | no packet is accepted twice within its validity, none is refused without cause |

### Client (`client-core/src`, `client-gui/src-tauri/src`, `client/src`)

| Component | State | Operations | Interacts with | Hard | Correct when |
|---|---|---|---|---|---|
| Connection task, `proxy.rs` `handle_local_connection` | phase, `auth_byte` of the relay | SOCKS5, `connect_to_remote_server`, `establish_session`, relay | the server's connection task | as the relay above | the SOCKS5 reply is the server's answer; streams as above |
| Client life cycle, `proxy.rs` `ProxyClient` | state, stop channel, task handle, semaphore of 100 | `start`, `stop`, the accept loop, `update_config` | the commands; connection tasks | the loop waits for a permit and does not see the stop signal | one listener; stop ends it and frees the port |
| Desktop commands, `lib.rs` | a mutex around the client, another around the configuration | `start_proxy`, `stop_proxy`, `get_proxy_status`, `update_local_proxy_port`, `update_servers_config`, and commands for traffic and the system proxy | the window's poll and the user's clicks run concurrently | locks held across awaits, the port probe, a port changed while the proxy runs | commands return; no listener without a client |
| Settings file, `config.rs` | the file | `load_or_create` at the start of a process, `save_to_file` after each change | the commands that change the configuration | a save that fails before or after the file was truncated; a process killed in the middle of one | what the user was told is saved is there after a restart |
| Statistics, `state.rs` | counters | count, read | relay tasks | none | — |
| System proxy, `platform/` and `lib.rs` | settings of the operating system | set, clear | the commands | I/O only | — |

### Shared (`shared/src`)

| Component | State | Operations | Hard | Correct when |
|---|---|---|---|---|
| First byte, `wire_prefix.rs` | none | a digit of the minute and the secret; accept within a tolerance | the digit of a relay is computed once and grows old | an honest frame is never refused |
| Frames, `frame.rs` | nonce counter per direction | encode, decode, read, write; stream payloads with offset and FIN | counter at its limit, an end of file inside a frame | frames decode to what was encoded, in order |
| Authentication packet, `auth.rs` | none | make, `verify` with a clock | boundary of the tolerance | fresh packets only |
| Session and protocol messages, `session.rs`, `protocol.rs` | none | encode and decode | lengths in one byte; a name that grows when it is decoded and is encoded once more; data behind a request | the server dials what was asked for; both ends read the same answer |
| Errors, crate roots | none | — | none | — |

The files under `client-gui/ui` present what the commands return. The client's
half of a multipath session is not in the repository; the models take from the
server what it must do.

## 2. Modules and code

| Module | Models | Composes |
|---|---|---|
| `ByteStream` | what any relay promises: an ordered byte stream with an end that is neither early nor lost | — |
| `Striping` | the striped downlink with its writers, readers and the end of the upload | implements `ByteStream` |
| `Collection` | what registry and collection promise together: the members of a session only grow until it settles, one for each index, and none that it can use is lost while it is open | — |
| `Rendezvous` | the accept loop with its permits, the registry, join handshakes, collection, sweeper, timeouts | implements `Collection` |
| `Defense` | the ban, driven by the connection tasks of one address | — |
| `Tunnel` | a single-path session: the client's task, the server's task, the connection between them | implements `ByteStream` in both directions |
| `DesktopClient` | the commands, their two mutexes, the life of `ProxyClient`, the settings file and restarts | — |
| `ReplayCache` | making, verifying and looking up authentication packets | — |
| `Messages` | the bytes of a session's set-up from SOCKS5 request to SOCKS5 reply | — |
| `MC*` | instances for TLC | |
| `*Proofs` | theorems (`PartitionProofs` continues `StripingProofs`) | |

**Striping.** `pc` follows `relay_download_striped` through its await points;
`chan[i]`, `queued[i]`, `cur[i]` and `writer[i]` are writer i's channel, the
counter the scheduler loads, the item in its hands and its loop;
`reader[i]` steps through `read_credit_updates`: it loads the count
(`ReaderLoad`), tries to exchange it for the reported one and, when another
reader was faster, compares with the new one and tries again (`ReaderSwap`,
with `attempt[i]` for the locals `reported` and `current`), then stores
`enabled` and notifies, one step each; a spurious failure of the weak exchange
changes nothing. `notified` is the unseen version of the watch channel. `ScanQueue` loads one counter at a time, as
`min_by_key` does, so writers may decrement between two loads. A FIN is not
added to the counter but is subtracted, and the counter wraps (`UsizeMax`):
`QueueAccounting` says that this happens only after the last scheduling
decision. `try_join!` is `UploadFails` and the `upload' = "dropped"` of
`ReadError` and `JoinWriters`: dropping the download drops the senders, and
writer tasks go on alone. The client (external) receives in any order, takes in
order, and reports what it took on any join. `unmetered` is a history variable,
the bytes that were sent while credit was not in force.

**Rendezvous.** One session id. A join connection moves
`backlog → hello → acked → held | queued → collected | closed`; connection 0
moves `idle → hello → collecting → closing → relaying → ended`, or to
`cancelled` when its handshake timeout drops the future, in which case
`close_session` is never called. `acceptor` is the loop of `ProxyServer::run`:
it takes a permit before it accepts, and sleeps after an accept error. `Taken`
counts the permits in use: a join gives its permit back when it is registered,
connection 0 holds its own to the end of the relay. Time is discrete: timers
count down, and `Tick` is not enabled while one is due. `verdict` is a history
variable, what `register_join` returned. For `Collection` a connection in the
slot and one in the channel are both *offered* (`Seat`): it knows no slot,
channel, timer or sweeper, and `Open`, which moves what has gathered into the
session and lets later joins go through the channel, is where the two must not
come apart. The promise is that of a session that has opened and is not over:
before, a repeated index may replace a connection (section 6), and what is
offered may be swept.

**Defense.** One address. `Fail` is `record_auth_failure` up to the release of
its lock, `BanIp` the insertion that follows; other tasks act in between. Times
are kept as time left, and `windowAge` is counted up to the age at which it
makes no difference any more. The level of a ban grows with every failure of the
window and is the exponent of a `u32` power: a release build wraps it (`Power`,
modulo `Word`), possibly to zero, and a debug build panics where it overflows
(`Overflows`), so `BanIp` may end either way. The multiplication by the initial
duration saturates and is capped by `MaxBan`. `lost` is a history variable: in
the present window a ban had no length (`"zero"`) or was not inserted
(`"panic"`).

**Tunnel.** Both tasks from the SOCKS5 request to their end. A frame is its
kind, the number of its block and its digit; keys, nonces and padding are left
out, since they match between the two ends of a session. `digit[t]` is the
`auth_byte` local of the code, computed once for a relay, and for the response
before the target is connected to. `Fail` drops the sockets of a task: the peer
finds a clean end, or a reset that loses frames under way, and the task's own
sink (`HasSink`: the application's socket, or the target's once there is one)
sees an ordinary end of stream, or a reset. So the application may read an end
before the SOCKS5 reply, which is none of the download's: `DownImplementsByteStream`
is about what it reads after the reply that grants the request. `PipeEof` does not
tell an end within a frame from an end between two, because `is_eof` does not.

**DesktopClient.** Each command stops where the code awaits; a mutex is the
caller that holds it. `Probing` is the moment in which `check_port_listening`
has bound the port itself. A client dropped by `start_proxy` closes the stop
channel, which its accept task sees as a signal. Clients are numbered and
`MaxClients` bounds those of one process; every other operation is unbounded.
`file` outlives the process: a save opens the file (and may fail to), truncates
and writes it, and the write may be cut short, by an error or by the end of the
process; `Torn` is what is left then. A restart loads the file, and falls back
to the defaults when it does not parse; between two runs the user may write it
by hand (`Repair`). `acked` is a history variable, the port the user was last told is
saved; a torn write withdraws it.

**ReplayCache.** `Make` is the client's `AuthPacket::new`, with a clock of its
own. The server's handshake is in three steps, because it reads the clock
twice and awaits the lock between: `Verify`, `ReadNow`, `LookUp`. The handshake
timeout can drop it at the lock. `Tick` and `StepBack` move the server's clock;
`latest` (history) is the latest time it has shown.

**Messages.** Bytes are bytes here, since the properties are about lengths and
positions: an address is encoded by the application, decoded and encoded again
by the client, and decoded by the server. `Lossy` is `String::from_utf8_lossy`
on names of ASCII, a byte that is no UTF-8 and the replacement character. Steps
that read wait until their bytes are there; the application writes without
waiting. The response carries the number of subflows when there are several,
also when it is a refusal, and the client takes it for a grant, for a refusal, or
for an error that ends the connection without a SOCKS5 reply (`Grants`,
`Refuses`). Frames, keys and failures are `Tunnel`'s matter.

## 3. Runs

Constants are small, but each is chosen so that a named case occurs.

| Run | Instance | Question and result |
|---|---|---|
| `striping_session` | 2 subflows, queues of one frame, window 2, 2 bytes, subflow 0 may fail | From the first read to the last writer: `EachByteOnce`, refinement of `ByteStream`, `DeliveredOrFailed`, `LoopLeftThenEnded`. A window of two makes the second frame wait for a report. |
| `striping_relaying` | 3 subflows, two of which report, reads of 1 or 2 bytes, window 3, 4 bytes, subflow 0 may fail, both joins may fall silent; explored while the loop runs (`WhileRelaying`) | `QueueAccounting`, `CreditSound`, `CreditBound`, `NoLostWakeup`, `StallHasRemedy`, `ConsumedMonotone`. Two reporting joins are needed for reports that overtake each other, also between the load and the exchange of one, reads of two bytes for a frame that is longer than one, silent joins for the loop that gives up waiting, and a fourth frame to find the queue of a failed writer closed. The end of a session is `striping_session`'s matter; with both, three subflows have too many states. |
| `striping_dead` | 3 subflows | violates `DeadEndsSession` (section 6) |
| `rendezvous_session` | joins 11, 12 (both index 1) and 20 (index 2), 2 subflows agreed on | `OneConnPerIndex`, `ChannelNeverFull`, `CollectingHasSlot`, `SlotLifetime`, `RejectedForCause`, `QueuedIsUsed`, refinement of `Collection`, `JoinSettles`. A repeated index, an index at the agreed count, joins before, in and after the window; the channel has its least size, `MaxSubflows - 1`; the handshake is longer than the window, as in the code, and a late Open leaves it less. Two permits: connection 0 and one join hold them all, and the other joins wait in the backlog. |
| `defense_safety` | 4 connections, 3 failures, window 2, multiplier 2, a word of 8, so that level 4 has the power 0 | `BoundedFailures`, `BannedToWindowEnd`: three tasks fail while the first one's ban is on its way, the shortest ban overtakes the longest, and the longest has no length or panics. TLC's integers cannot hold 2^32; the word is scaled so that the level of the wrap is one that the tasks reach, as the 33rd is for the default 1000 connections. A lost ban lets failures go on without end: `FewFailures` explores up to 8 in a window, two more than the bound the property states. |
| `defense_wrap` | as `defense_safety` | violates `LimitBans` (section 6) |
| `desktop_commands` | 2 commands at a time, 2 ports, 2 clients per process, 1 permit | `NoOrphanListener`, `StoppedFreesPort`, `AckedPortKept`, `HolderGoesOn`, `CommandsReturn`: every pair of commands crosses at every await, and the process is killed in any state; two ports are enough for the configuration, the file and the client to differ, two clients for a second start. |
| `desktop_stop` | same, connections need not end | violates `StopReturns` (section 6) |
| `tunnel_relay` | tolerance 5 minutes, clocks 1 minute apart, 6 minutes, 2 blocks per direction, nothing fails | `DigitsAccepted`, refinement of `ByteStream` up and down, `Delivered`: six minutes are more than the tolerance, so frames grow older than it; either side may close first and the other go on. |
| `tunnel_faults` | tolerance 0, 2 frames per direction on the connection, every fault | `EndIsHonest`, `SessionEnds`: sockets and connection fail between any two steps, and a minute that passes makes frames undecodable. |
| `replay_accept` | 3 handshakes, tolerance 1, 2 sequences, clock 0..3 | `AcceptedOnceInTime`, `RefusedOnlyIfSeen`, `EntriesExpire`: three handshakes are one that is accepted, one that purges and one that replays; the clock passes the validity of a packet and is set back into it. |
| `messages_dial` | the widths of the code | `DialsWhatWasAsked`, `RequestFramed`, `RefusedForCause`, `AnswerAgrees`: names of 0 to 255 bytes, among them such that are not UTF-8 and grow to 255 bytes and past them; user names of 6, 255 and 256 bytes; counts and limits at their ends. |

`TypeOK` of a module carries, beside the types, what a wrong step would exceed:
the wrap of `queued`, timers that would pass their end, the longest ban, the
permits. It is proved for every module but `Messages` (`TypeCorrect`, section 5)
and checked where no other property would show the excess, in `defense_safety`
and `desktop_commands`.

`CHECK_DEADLOCK` is off in `replay_accept` and `messages_dial`, where a fixed
number of handshakes or one session comes to its end, and on in every other
run. Where the system may come to rest there, the module says when: `Done` in
Striping and `Gone` in Tunnel step only in states in which everything has ended,
so any other state without a successor is reported.

## 4. Fairness

- *Striping.* tokio polls a task that can go on, so the loop, the writers and
  the readers are weakly fair. The client goes on receiving, taking and
  reporting. The target need not send or close, the upload need not end, no
  connection has to fail.
- *Rendezvous.* Time passes, a timer that is due fires, the runtime polls
  the collection, the registration and the accept loop. Peers need not send
  anything; a handshake that waits fails at its timeout. A connection in the
  backlog is accepted if the loop comes to accept again and again (strong
  fairness: the backlog is in order of arrival, and accept errors are
  transient). Relays end (`SessEnds`), since connection 0 may hold the last
  permit while it relays.
- *Tunnel.* Tasks are polled; the handshake and the dial of the server have
  timeouts, so they end. `SessionEnds` assumes that the application and the
  target close, because the relay has no timeout of its own.
- *DesktopClient.* tokio's mutexes are handed over in order of arrival, so a
  command that can go on again and again does go on (strong fairness), and
  `select!` starts at a random branch, so a signal that is there again and
  again is seen. `CommandsReturn` assumes in addition that connections end
  (`RelaysEnd`); `desktop_stop` shows that it is needed.
- *Defense*, *ReplayCache* and *Messages* have no liveness property.

## 5. Proofs

TLAPS proves these for every value of the constants that satisfies the named
assumptions of the modules (`ASSUME`s, which TLC evaluates in each run).

| Module | Theorem | Argument |
|---|---|---|
| `StripingProofs` | `TypeCorrect`: `[]TypeOK` | one lemma per group of actions |
| | `CreditIsSound`: `[]CreditSound`, `CreditCorrect`: `[]CreditBound` | `CreditInv`: nothing anywhere in the system lies past `offset` (`WithinOffset`: frames, bytes received, totals), no report, no count and nothing a reader is about to store exceeds `taken` (`WithinTaken`), and the bound itself. The bound alone is not inductive: it needs that the server's count is not ahead of the client, which needs that reports on their way are not either. |
| | `ConsumedNeverFalls`: `ConsumedMonotone` | `Raising`, in `CreditInv`: a reader that is about to exchange has a report larger than the count it saw, so what it stores is larger than the count it replaces, which is the one it saw; when another stored meanwhile it sees that one |
| | `WakeupsNotLost`: `[]NoLostWakeup` | only a reader can open the condition, and it passes `enable` and `notify` afterwards |
| | `SchedulerSeesQueues`: `[]QueueAccounting` | `QueueInv`: as long as frames are scheduled, no FIN is anywhere in a queue, so every decrement has its increment |
| | `DownlinkImplementsByteStream`: `ImplementsByteStream` | `StreamInv`: every FIN, in whichever queue, hand or connection it is, announces the offset the loop stopped at, and none exists before the target has closed. A taken byte lies below the offset (`CreditInv`), so the client's count can reach a total only at the end. |
| `PartitionProofs` | `BytesPartitioned`: `[]EachByteOnce` | `Accounted`: no byte is in two frames of the lanes, or in a frame and received, and while the session has not failed every byte below the offset is somewhere. A lane is a connection, the writer's hands and its channel in one sequence, so that frames that move along it change nothing; what remains are lemmas on frames that are made (`LaneBegins`), handed over (`LaneHandsOver`), received (`LaneReceived`) and lost (`LaneLoses`). `Handover` says why a writer that leaves its loop drops nothing that was not lost already. |
| | `CreditNeverLocks`: `[]StallHasRemedy` | The byte the client waits for, `taken`, lies below the offset, because the loop waits only if `offset + n - consumed >= Window`, while `n <= Chunk < Window` (`ReadBound`, `SizesAssumption`) and every report has arrived; by `Accounted` it is received or in a lane, and by `Handover` the writer of that lane runs (`WaitRunsWriters`). |
| `RendezvousProofs` | `TypeCorrect` | timers stop the clock, so none passes its end |
| | `SweeperSparesCollection`, `SlotsAreSwept` | `TimerInv`: while a session collects, its slot is ready and its age and the window's remainder add up to at most `JoinWindow`, which is less than `SlotTTL`; an old slot's age is bounded by the time to the next sweep |
| | `IndexesDistinct`, `ChannelHasRoom` | `IndexInv`: the connections held, queued and collected have different indexes, all of them recorded in `joined`; a full channel therefore holds every index there is |
| | `RejectionsHaveCause`: `[]RejectedForCause` | an index is known to the registry only from a connection that registered it |
| | `QueuedIsCollected`: `QueuedIsUsed` | `PlaceInv`: what is in the slot, in the channel or collected is there according to its state too, and a collection that stopped before its window was over misses none. If it misses none, the indexes collected are all there are, so no other connection in the channel is of use (`NoneLeft`, by counting). |
| | `RegistryImplementsCollection`: `ImplementsCollection` | `HomeInv`, the converse of `PlaceInv`: so *offered* is exactly slot and channel, and *member* exactly what was collected (`Seen`). Then each action is a step of `Collection` or a stutter; `TimerInv` excludes that the sweeper meets an open session, `IndexInv` that a member is repeated. |
| `DefenseProofs` | `TypeCorrect`, `FailuresBounded`, `BanReachesWindowEnd` | `DefenseInv`: in a full window either the ban covers the rest of it and the failures still to come are those of tasks in a handshake (`Covered`), or every failure past the limit is one of the tasks about to ban (`Uncovered`). Nothing is assumed of the multiplier, the word or the levels reached: a power is a natural number (`PowerIs`), so that a ban that has a length is at least the initial one and so covers the window (`DurationIs`), and what a lost ban breaks is what `lost` excepts. The first ban of a window, of level 1, is never lost (`FirstPending`), which is why a panic does not break `BannedToWindowEnd`; it does break the bound of the failures, since a task that panics may be admitted again while the first ban is still on its way. |
| `TunnelProofs` | `TypeCorrect` | one lemma per group of actions |
| | `DigitsNeverRefused`: a tolerance of five minutes or more gives `[]DigitsAccepted` | eleven minutes in a row contain every last digit, so every digit a peer can compute is within the tolerance, whatever the age of the frame and the skew of the clocks. (The same argument says that with the default of 300 seconds the first byte tells a peer with the secret from one without it only by chance; the HMAC does the rest.) |
| | `EndsAreHonest`: `[]EndIsHonest` | `TunnelInv`: while neither task has failed, the connection holds first the frames of the handshake that are still to be read, then every block from the one after the last written to the last that was stamped (`InOrder`); and a receiver has seen an end only if the sender is done and everything it read was written, or one of the two tasks has failed (dropping its sockets) |
| | `UpIsByteStream`, `DownIsByteStream` (tolerance of five minutes or more, no faults) | `Calm`: no task fails, since no digit is refused; with `TunnelInv` each step is one of `ByteStream` or leaves its variables |
| `ReplayCacheProofs` | `TypeCorrect`, `AcceptedOnce`, `RefusalsJustified`, `CacheExpires` | `Remembered`: a packet that was accepted is in the cache, or the latest time is past its validity. It survives a purge by a stale or a later clock because a purge removes only what is past its validity by the clock it was read from, and that clock has been shown. |
| `DesktopClientProofs` | `TypeCorrect`, `NoListenerLost`, `StopFreesPort`, `SavedPortSurvives` | `DesktopInv`: who holds which mutex in which step (`LockInv`), which client a command works on (`WorkInv`), which clients have not been made yet (`NewInv`), and that a client that is not current was sent or left a signal (`SentInv`) |
| | `NoCircularWait`: `[]HolderGoesOn` | `ConfigLockInv`: the config mutex is held just while a port is probed and set; `TaskInv`: a client that is waited for has an accept task and has been told |
| `MessagesProofs` | `AnswersAgree`: `[]AnswerAgrees` | `HelloAgreed`: a packet verifies only if its name fits the length byte, so the length in front of it is exact and what is behind it is the count. `AnswerInv` then follows the count through plan and response. |
| | `RequestsFramed`: `[]RequestFramed` | `FrameInv`: the stream is what the application has written less what was read; `SizeIs`: the length read from a request is the request's length. Both rest on `GreetingsAssumption` and `RequestsAssumption`, that a greeting and a name have the length their bytes say. |
| | `DialedAsAsked`: `[]DialsWhatWasAsked`, `RefusalsHaveCause`: `[]RefusedForCause` | `TargetInv`: the client's target is what was asked for with the lossy name, the hello carries its encoding, and decoding that gives it back if the name fits its length byte. What this needs of `Lossy`: it leaves a text alone that it has made itself (`LossyAgain`), since client and server both decode. |

Every safety invariant, action property and refinement that a passing run checks is
stated by a theorem. Only model-checked are the liveness properties
(`DeliveredOrFailed`, `LoopLeftThenEnded`, `JoinSettles`, `CommandsReturn`,
`Delivered`, `SessionEnds`) and the fairness they rest on, which are beyond the
prover. For two of them a theorem gives the part that is safety:
`StallHasRemedy` says that the wait for credit is no deadlock, `HolderGoesOn`
that the mutexes are not waited for in a circle; that the step which is possible
is taken is what fairness adds.

`Lossy` is a recursive function over the two halves of a name (`Spans`,
`Middle`). The library's induction theorems take an operator as a parameter,
which no backend can instantiate; `MessagesProofs` obtains induction from the
well-foundedness of strict inclusion on finite sets of numbers (`Induct`), whose
statement is about a set, for the existence of the function (`TextExists`) and
for what it makes of a name of any length (`CleanStays`, `LossyClean`).
`DefenseProofs` does the same for `Power`.

## 6. Where comments and code differ

Three are runs that TLC finds violated; `PROJECT.json` quotes the lines.

- `DeadEndsSession`. A failed write on any subflow means that the session is dead; but the loop
  does not look at `dead_rx` while it waits for credit (`multipath.rs:405`,
  `:462`).
- `StopReturns`. `stop` waits for the accept task, which waits for a permit and
  not for the signal (`proxy.rs:118`, `:242`).
- `LimitBans`. An address that reached the limit "should be banned"
  (`defense.rs:215`), and the ban is said to grow exponentially (`:173`). Its
  exponent grows with the failures of connections that were admitted before the
  ban, and `pow` overflows (`:177`): with the default multiplier 2, the 35th
  failure of a window has the level 33, and in a release build a ban of zero
  seconds replaces the one in force; a debug build panics, and what is in force
  stays.

These were met while modelling and have no run:

- `register_join` returns false for a duplicate index so that the caller closes
  that connection (`multipath.rs:134`); on a gathering slot it keeps the newcomer,
  tells it false and drops the one that was there (`:139`): the connection the
  session uses is the rejected one.
- The same sentence about failed writes, of the result: a write that fails after
  the end of the target's stream was read leaves it `Ok` (`multipath.rs:493`).
- A path that is reset, or a frame that is refused, fails the task that reads it,
  and the operating system closes the sockets it drops with an ordinary FIN
  (`proxy.rs:513`, `server.rs:373`): the application or the target reads an end of
  stream, although the sender has not ended. `EndIsHonest` says what holds: an end
  that is too early comes only of a task that has failed.
- `register_join` "returns false when the session is closed"
  (`multipath.rs:134`), yet after `close_session` it makes a new slot and returns
  true; the sweeper closes the connection in the end (`SlotLifetime`,
  `JoinSettles`).
- The client's reordering is said to be limited to one subflow's queue
  (`multipath.rs:403`); the shortest queue is chosen whatever its offsets, so only
  `GLOBAL_WINDOW` limits it, and only with credit in force (`CreditBound`).
- `get_proxy_status` answers `Error` because "the port is not listening"
  (`lib.rs:129`); it probes the port of the configuration, which may have been
  changed since the client was started.
- A name of 86 or more bytes that are not UTF-8 is longer than 255 bytes once it
  is decoded (`protocol.rs:172`), its length byte wraps when it is encoded again
  (`protocol.rs:135`), and the server dials another name and port.
  `DialsWhatWasAsked` leaves these names out; a user name of 256 bytes or more
  likewise makes every session refused (`RefusedForCause`).
- The client does not look at the command of a request: BIND and UDP ASSOCIATE
  are treated as CONNECT.
- `auth.rs:4` describes the packet without the client address that the code
  writes behind the HMAC.
- A settings file that does not parse gives the defaults, with a secret that
  `validate` refuses: starts fail until it is repaired, and a change of the port
  meanwhile writes the defaults over the user's file (`lib.rs:101`).

## 7. What is left out

- Cryptography, padding, nonces and sizes of socket buffers: frames are records,
  and the two ends of a session have the same keys. The nonce counter is a
  `u64` that no session exhausts.
- `state.rs`: counters of connections and bytes that nothing decides on. A poll
  of the traffic reads them.
- The system proxy, the tray, the window and `platform/`: calls to the operating
  system and presentation of what the commands return. The commands that only
  read, and `update_local_proxy_port` with a port below 1024, which returns at
  once, change nothing.
- `ProxyClient::update_config`, which the programs do not call (the command of
  that name saves new servers and is modelled with `ServersSet`); `client/` and the
  server's `main.rs`, which parse arguments and call `start` or `run`; the
  parsing of the server's configuration.
- Edits of the settings file by the user while the application runs.
- In `Messages`: a server with `auth.enabled` off, a salt that differs, and the
  types of `protocol.rs` the programs do not use (`HandshakeRequest`, `Reply`
  and others).
- The client's half of a multipath session is not in the repository; `Striping`
  and `Rendezvous` take it as the server's comments describe it.
- Weak memory: atomics are sequentially consistent in the model. The code uses
  acquire and release on `consumed` and `enabled`, and `queued` is only a hint
  for the scheduler.
- A panic of a task, but for that of `pow` in `ban_ip`: tokio would drop the task,
  as a failure does.
- A server that is restarted with an empty replay cache, and a clock that is set
  back after it has shown a later time (`AcceptedOnceInTime` is about neither).

## 8. State and plan

Done, in the order of importance: `Striping`, `Rendezvous`, `Defense`, `Tunnel`,
`DesktopClient`, `ReplayCache`, `Messages`, the abstract `ByteStream` and
`Collection`, and the theorems above. What could follow:

1. A module that composes the permits and joins of `Rendezvous` with `Defense`:
   how many timed-out or rejected joins of one client ban its address.
2. `striping_session` with three subflows, if its states can be reduced; the
   theorems already hold for any number.
3. Several sessions in one registry, which the models treat as independent.
