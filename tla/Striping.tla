------------------------------ MODULE Striping ------------------------------
(***************************************************************************)
(* The relay phase of a multipath session (server/src/multipath.rs):       *)
(* relay_download_striped cuts the target's bytes into frames stamped with *)
(* their offset, gives each frame to the subflow with the shortest queue,  *)
(* and one writer task per subflow writes it to that subflow's connection. *)
(* The reading halves of the join subflows carry the client's              *)
(* WINDOW_UPDATEs, from which read_credit_updates maintains the global     *)
(* window the download loop waits on.  relay_split joins the download with *)
(* the upload.                                                             *)
(*                                                                         *)
(* The client is another program, not part of the repository: it is        *)
(* modelled as the comments of multipath.rs describe it (reassembly by     *)
(* offset, cumulative counts of the bytes its reader has taken).           *)
(*                                                                         *)
(* A frame is [off, len]; the FIN frame is the one with len = 0, and its   *)
(* off is the total (Downlink::Data and Downlink::Fin).                    *)
(***************************************************************************)
EXTENDS Integers, Sequences

CONSTANTS
  NSub,       \* number of subflows; 0 is the session's own connection
  Capacity,   \* WRITER_QUEUE: depth of a writer's channel, in frames
  Window,     \* GLOBAL_WINDOW: bytes enqueued and not yet consumed
  Chunk,      \* STREAM_CHUNK: most bytes one read of the target returns
  UsizeMax,   \* usize::MAX, where the queued counters wrap
  WireCap,    \* frames a connection holds between the two programs
  UpCap,      \* WINDOW_UPDATEs a join subflow holds
  MaxBytes,   \* bound on the bytes the target sends
  Faulty,     \* subflows whose connection may fail
  Silenced    \* joins on which the client's half may end or become garbled

ASSUME SizesAssumption ==
  /\ NSub \in Nat \ {0} /\ Capacity \in Nat \ {0}
  /\ Chunk \in Nat \ {0} /\ Window \in Nat /\ Chunk < Window
  /\ UsizeMax \in Nat /\ UsizeMax > Capacity + 2
  /\ WireCap \in Nat \ {0} /\ UpCap \in Nat /\ MaxBytes \in Nat
ASSUME FaultyAssumption ==
  Faulty \subseteq 0..(NSub - 1) /\ Silenced \subseteq 1..(NSub - 1)

Subflows == 0..(NSub - 1)
Joins == 1..(NSub - 1)
Frame == [off : Nat, len : Nat]
Data(off, n) == [off |-> off, len |-> n]
Fin(total) == [off |-> total, len |-> 0]
Attempt == [reported : Nat, current : Nat]
NoAttempt == [reported |-> 0, current |-> 0]
IsFin(f) == f.len = 0
Bytes(f) == f.off .. (f.off + f.len - 1)

VARIABLES
  \* relay_download_striped and try_join!
  pc,        \* where the download future stands
  result,    \* its result once the loop is left
  n,         \* bytes the last read returned
  offset,    \* bytes read and enqueued
  item,      \* <<f>> when frame f is on its way into a queue
  k,         \* loop index: queue looked at, or sender given its FIN
  best,      \* shortest queue seen so far and its length
  load,
  upload,    \* "open", "ok", "err", or "dropped" with the session
  \* writers
  chan,      \* chan[i]: the mpsc channel of writer i
  queued,    \* queued[i]: the counter the scheduler reads
  cur,       \* cur[i]: the item writer i is writing, <<>> when none
  writer,    \* writer[i]: "run", "closing" (left its loop), "exited"
  dead,      \* the watch channel dead_tx
  \* read_credit_updates
  reader,    \* reader[i]: where the reader of join i stands
  attempt,   \* attempt[i]: the exchange it is trying, reported for current
  consumed, enabled,
  notified,  \* the notify watch holds a version the loop has not seen
  \* connections and client (external)
  wire,      \* wire[i]: frames written and not yet received
  up,        \* up[i]: WINDOW_UPDATEs not yet read
  got,       \* bytes received, in any order
  taken,     \* bytes the client's reader has taken, always in order
  finals,    \* totals announced by the FINs received
  \* history
  unmetered  \* bytes enqueued by a step that was not held to the window

downloadVars == <<pc, result, n, offset, item, k, best, load>>
writerVars == <<chan, queued, cur, writer, dead>>
creditVars == <<reader, attempt, consumed, enabled, notified>>
clientVars == <<got, taken, finals>>
vars == <<downloadVars, upload, writerVars, creditVars, wire, up, clientVars,
          unmetered>>

-----------------------------------------------------------------------------
(* The senders live in the download future: they are dropped when it leaves *)
(* its loop (after the FINs), returns, or is dropped by try_join!.          *)
SendersDropped == pc \in {"join", "ended", "dropped"}

(* Points where the download future awaits, and can be dropped.             *)
AwaitPoints == {"select", "await", "send", "fin", "join"}

Init ==
  /\ pc = "select" /\ result = "none" /\ n = 0 /\ offset = 0 /\ item = <<>>
  /\ k = 0 /\ best = 0 /\ load = 0 /\ upload = "open"
  /\ chan = [i \in Subflows |-> <<>>]
  /\ queued = [i \in Subflows |-> 0]
  /\ cur = [i \in Subflows |-> <<>>]
  /\ writer = [i \in Subflows |-> "run"]
  /\ dead = FALSE
  /\ reader = [i \in Joins |-> "read"]
  /\ attempt = [i \in Joins |-> NoAttempt]
  /\ consumed = 0 /\ enabled = FALSE /\ notified = FALSE
  /\ wire = [i \in Subflows |-> <<>>]
  /\ up = [i \in Joins |-> <<>>]
  /\ got = {} /\ taken = 0 /\ finals = {}
  /\ unmetered = 0

-----------------------------------------------------------------------------
(* relay_download_striped                                                   *)

(* select!: a writer has failed.                                            *)
SeeDead ==
  /\ pc = "select" /\ dead
  /\ pc' = "join" /\ result' = "err"
  /\ UNCHANGED <<n, offset, item, k, best, load, upload, writerVars,
                 creditVars, wire, up, clientVars, unmetered>>

(* select!: the target returns up to Chunk bytes.                           *)
ReadTarget ==
  /\ pc = "select"
  /\ \E m \in 1..Chunk : offset + m <= MaxBytes /\ n' = m
  /\ pc' = "credit"
  /\ UNCHANGED <<result, offset, item, k, best, load, upload, writerVars,
                 creditVars, wire, up, clientVars, unmetered>>

(* select!: end of the target's stream; the FINs follow.                    *)
ReadEof ==
  /\ pc = "select"
  /\ pc' = "fin" /\ result' = "ok" /\ k' = 0
  /\ UNCHANGED <<n, offset, item, best, load, upload, writerVars, creditVars,
                 wire, up, clientVars, unmetered>>

(* Mutant of ReadError: the error leaves the loop as the end of the stream  *)
(* does.                                                                    *)
ReadErrorSendsFins ==
  /\ pc = "select"
  /\ pc' = "fin" /\ result' = "err" /\ k' = 0
  /\ UNCHANGED <<n, offset, item, best, load, upload, writerVars, creditVars,
                 wire, up, clientVars, unmetered>>

(* `read?` returns at once: senders dropped, writers left to themselves,    *)
(* and try_join! drops the upload.                                          *)
ReadError ==
  /\ pc = "select"
  /\ pc' = "ended" /\ result' = "err"
  /\ upload' = IF upload = "open" THEN "dropped" ELSE upload
  /\ UNCHANGED <<n, offset, item, k, best, load, writerVars, creditVars, wire,
                 up, clientVars, unmetered>>

(* Mutant of Blocked: the frame about to be enqueued is not counted.        *)
BlockedWithoutFrame == enabled /\ offset - consumed >= Window

(* Mutant of Blocked: the frame about to be enqueued is counted twice.      *)
BlockedTwice == enabled /\ offset + n + n - consumed >= Window

Blocked == enabled /\ offset + n - consumed >= Window

(* Mutant of Encode: the offset is advanced before it is stamped.           *)
EncodeAdvanced(metered) ==
  /\ item' = <<Data(offset + n, n)>>
  /\ offset' = offset + n
  /\ unmetered' = IF metered THEN unmetered ELSE offset + n
  /\ pc' = "scan" /\ k' = 0
  /\ UNCHANGED <<result, n, best, load, upload, writerVars, creditVars, wire,
                 up, clientVars>>

(* The credit loop is left: the frame is encoded at the current offset.     *)
Encode(metered) ==
  /\ item' = <<Data(offset, n)>>
  /\ offset' = offset + n
  /\ unmetered' = IF metered THEN unmetered ELSE offset + n
  /\ pc' = "scan" /\ k' = 0
  /\ UNCHANGED <<result, n, best, load, upload, writerVars, creditVars, wire,
                 up, clientVars>>

CreditPass ==
  /\ pc = "credit" /\ ~ Blocked
  /\ Encode(enabled)

(* The condition holds: the loop goes on to wait.  A notification that came  *)
(* since the test is not missed, because the watch channel keeps it.        *)
CreditStall ==
  /\ pc = "credit" /\ Blocked
  /\ pc' = "await"
  /\ UNCHANGED <<result, n, offset, item, k, best, load, upload, writerVars,
                 creditVars, wire, up, clientVars, unmetered>>

(* notify.changed() sees a new version, and the loop tests again.           *)
CreditWake ==
  /\ pc = "await" /\ notified
  /\ notified' = FALSE /\ pc' = "credit"
  /\ UNCHANGED <<result, n, offset, item, k, best, load, upload, writerVars,
                 reader, attempt, consumed, enabled, wire, up, clientVars,
                 unmetered>>

(* notify.changed() fails: every reader is gone, the wait is given up.      *)
CreditGiveUp ==
  /\ pc = "await" /\ ~ notified
  /\ \A i \in Joins : reader[i] = "done"
  /\ Encode(FALSE)

(* min_by_key over the queues: one counter is loaded at a time while the    *)
(* writers go on decrementing; the first minimum wins.                      *)
ScanQueue ==
  /\ pc = "scan" /\ k < NSub
  /\ IF k = 0 \/ queued[k] < load
       THEN best' = k /\ load' = queued[k]
       ELSE UNCHANGED <<best, load>>
  /\ k' = k + 1
  /\ UNCHANGED <<pc, result, n, offset, item, upload, writerVars, creditVars,
                 wire, up, clientVars, unmetered>>

(* Mutant of ScanDone: fetch_add is left out.                               *)
ScanDoneUncounted ==
  /\ pc = "scan" /\ k = NSub
  /\ pc' = "send" /\ k' = 0 /\ load' = 0
  /\ UNCHANGED <<result, n, offset, item, best, upload, writerVars, creditVars,
                 wire, up, clientVars, unmetered>>

ScanDone ==
  /\ pc = "scan" /\ k = NSub
  /\ queued' = [queued EXCEPT ![best] = IF @ = UsizeMax THEN 0 ELSE @ + 1]
  /\ pc' = "send" /\ k' = 0 /\ load' = 0
  /\ UNCHANGED <<result, n, offset, item, best, upload, chan, cur, writer,
                 dead, creditVars, wire, up, clientVars, unmetered>>

(* send().await, once there is room: back to select!.                       *)
Send ==
  /\ pc = "send" /\ writer[best] # "exited" /\ Len(chan[best]) < Capacity
  /\ chan' = [chan EXCEPT ![best] = @ \o item]
  /\ item' = <<>> /\ n' = 0 /\ best' = 0 /\ pc' = "select"
  /\ UNCHANGED <<result, offset, k, load, upload, queued, cur, writer, dead,
                 creditVars, wire, up, clientVars, unmetered>>

SendClosed ==
  /\ pc = "send" /\ writer[best] = "exited"
  /\ pc' = "join" /\ result' = "err" /\ item' = <<>> /\ n' = 0 /\ best' = 0
  /\ UNCHANGED <<offset, k, load, upload, writerVars, creditVars,
                 wire, up, clientVars, unmetered>>

(* Mutant of SendFin: a closed sender is not passed over.                   *)
SendFinToAll ==
  /\ pc = "fin" /\ k < NSub
  /\ writer[k] # "exited" /\ Len(chan[k]) < Capacity
  /\ chan' = [chan EXCEPT ![k] = Append(@, Fin(offset))]
  /\ k' = k + 1
  /\ UNCHANGED <<pc, result, n, offset, item, best, load, upload, queued, cur,
                 writer, dead, creditVars, wire, up, clientVars, unmetered>>

(* The FINs, to one sender after the other; a closed one is passed over.    *)
SendFin ==
  /\ pc = "fin" /\ k < NSub
  /\ \/ /\ writer[k] # "exited" /\ Len(chan[k]) < Capacity
        /\ chan' = [chan EXCEPT ![k] = Append(@, Fin(offset))]
     \/ writer[k] = "exited" /\ UNCHANGED chan
  /\ k' = k + 1
  /\ UNCHANGED <<pc, result, n, offset, item, best, load, upload, queued, cur,
                 writer, dead, creditVars, wire, up, clientVars, unmetered>>

FinsSent ==
  /\ pc = "fin" /\ k = NSub
  /\ pc' = "join" /\ k' = 0
  /\ UNCHANGED <<result, n, offset, item, best, load, upload, writerVars,
                 creditVars, wire, up, clientVars, unmetered>>

(* Every writer has exited; an Err result drops the upload as well.         *)
JoinWriters ==
  /\ pc = "join" /\ \A i \in Subflows : writer[i] = "exited"
  /\ pc' = "ended"
  /\ upload' = IF result = "err" /\ upload = "open" THEN "dropped" ELSE upload
  /\ UNCHANGED <<result, n, offset, item, k, best, load, writerVars,
                 creditVars, wire, up, clientVars, unmetered>>

Download ==
  \/ SeeDead \/ ReadTarget \/ ReadEof \/ ReadError
  \/ CreditPass \/ CreditStall \/ CreditWake \/ CreditGiveUp
  \/ ScanQueue \/ ScanDone \/ Send \/ SendClosed
  \/ SendFin \/ FinsSent \/ JoinWriters

(* relay_upload: the client half closes, or the upload fails and try_join!  *)
(* drops a download that has not ended.                                     *)
UploadCloses ==
  /\ upload = "open" /\ pc # "dropped"
  /\ upload' = "ok"
  /\ UNCHANGED <<downloadVars, writerVars, creditVars, wire, up, clientVars,
                 unmetered>>

UploadFails ==
  /\ upload = "open" /\ pc \in AwaitPoints \cup {"ended"}
  /\ upload' = "err"
  /\ pc' = IF pc = "ended" THEN pc ELSE "dropped"
  /\ item' = <<>>
  /\ UNCHANGED <<result, n, offset, k, best, load, writerVars, creditVars,
                 wire, up, clientVars, unmetered>>

-----------------------------------------------------------------------------
(* spawn_subflow_writer                                                     *)

WriterRecv(i) ==
  /\ writer[i] = "run" /\ cur[i] = <<>> /\ chan[i] # <<>>
  /\ cur' = [cur EXCEPT ![i] = <<Head(chan[i])>>]
  /\ chan' = [chan EXCEPT ![i] = Tail(@)]
  /\ UNCHANGED <<downloadVars, upload, queued, writer, dead, creditVars, wire,
                 up, clientVars, unmetered>>

(* The frame is written; fetch_sub is done for a FIN too, which never was   *)
(* added.                                                                   *)
WriterWrite(i) ==
  /\ writer[i] = "run" /\ cur[i] # <<>> /\ Len(wire[i]) < WireCap
  /\ wire' = [wire EXCEPT ![i] = @ \o cur[i]]
  /\ cur' = [cur EXCEPT ![i] = <<>>]
  /\ queued' = [queued EXCEPT ![i] = IF @ = 0 THEN UsizeMax ELSE @ - 1]
  /\ UNCHANGED <<downloadVars, upload, chan, writer, dead, creditVars, up,
                 clientVars, unmetered>>

(* The connection fails under a write: the frames on it after some point    *)
(* never arrive.                                                            *)
WriterFail(i) ==
  /\ i \in Faulty
  /\ writer[i] = "run" /\ cur[i] # <<>>
  /\ \E m \in 0..Len(wire[i]) :
       wire' = [wire EXCEPT ![i] = SubSeq(@, 1, m)]
  /\ cur' = [cur EXCEPT ![i] = <<>>]
  /\ dead' = TRUE
  /\ writer' = [writer EXCEPT ![i] = "closing"]
  /\ UNCHANGED <<downloadVars, upload, chan, queued, creditVars, up,
                 clientVars, unmetered>>

(* recv() returns None: senders dropped and channel drained.                *)
WriterDrained(i) ==
  /\ writer[i] = "run" /\ cur[i] = <<>> /\ chan[i] = <<>> /\ SendersDropped
  /\ writer' = [writer EXCEPT ![i] = "closing"]
  /\ UNCHANGED <<downloadVars, upload, chan, queued, cur, dead, creditVars,
                 wire, up, clientVars, unmetered>>

(* shutdown() is over and the task ends: its receiver goes with what it     *)
(* still holds.                                                             *)
WriterExit(i) ==
  /\ writer[i] = "closing"
  /\ writer' = [writer EXCEPT ![i] = "exited"]
  /\ chan' = [chan EXCEPT ![i] = <<>>]
  /\ UNCHANGED <<downloadVars, upload, queued, cur, dead, creditVars, wire, up,
                 clientVars, unmetered>>

Writer(i) == WriterRecv(i) \/ WriterWrite(i) \/ WriterDrained(i) \/ WriterExit(i)

-----------------------------------------------------------------------------
(* read_credit_updates: load the count, exchange it for the reported one as *)
(* long as that is larger (the other readers do the same), then enable,     *)
(* then notify.                                                             *)

(* Where a reader stands that has seen that the count is c.                 *)
Try(i, reported, c) ==
  /\ reader' = [reader EXCEPT ![i] = IF reported > c THEN "swap" ELSE "enable"]
  /\ attempt' = [attempt EXCEPT ![i] =
                   IF reported > c THEN [reported |-> reported, current |-> c]
                                   ELSE NoAttempt]

(* A report is read, and the count loaded.                                  *)
ReaderLoad(i) ==
  /\ reader[i] = "read" /\ up[i] # <<>>
  /\ up' = [up EXCEPT ![i] = Tail(@)]
  /\ Try(i, Head(up[i]), consumed)
  /\ UNCHANGED <<downloadVars, upload, writerVars, consumed, enabled, notified,
                 wire, clientVars, unmetered>>

(* Mutants of ReaderSwap: what was reported is added to the count; it is    *)
(* stored without a look at what another reader stored since the load.      *)
ReaderAdds(i) ==
  /\ reader[i] = "swap"
  /\ consumed' = consumed + attempt[i].reported
  /\ reader' = [reader EXCEPT ![i] = "enable"]
  /\ attempt' = [attempt EXCEPT ![i] = NoAttempt]
  /\ UNCHANGED <<downloadVars, upload, writerVars, enabled, notified, wire, up,
                 clientVars, unmetered>>

ReaderStores(i) ==
  /\ reader[i] = "swap"
  /\ consumed' = attempt[i].reported
  /\ reader' = [reader EXCEPT ![i] = "enable"]
  /\ attempt' = [attempt EXCEPT ![i] = NoAttempt]
  /\ UNCHANGED <<downloadVars, upload, writerVars, enabled, notified, wire, up,
                 clientVars, unmetered>>

(* compare_exchange_weak: the count is the one last seen and is replaced,   *)
(* or it is seen anew.  (A spurious failure sees the same count again: no   *)
(* step of the model.)                                                      *)
ReaderSwap(i) ==
  /\ reader[i] = "swap"
  /\ \/ /\ consumed = attempt[i].current
        /\ consumed' = attempt[i].reported
        /\ reader' = [reader EXCEPT ![i] = "enable"]
        /\ attempt' = [attempt EXCEPT ![i] = NoAttempt]
     \/ /\ consumed # attempt[i].current
        /\ Try(i, attempt[i].reported, consumed)
        /\ UNCHANGED consumed
  /\ UNCHANGED <<downloadVars, upload, writerVars, enabled, notified, wire, up,
                 clientVars, unmetered>>

ReaderEnable(i) ==
  /\ reader[i] = "enable"
  /\ enabled' = TRUE
  /\ reader' = [reader EXCEPT ![i] = "notify"]
  /\ UNCHANGED <<downloadVars, upload, writerVars, attempt, consumed, notified,
                 wire, up, clientVars, unmetered>>

(* Mutant of ReaderNotify: the waiting loop is not woken.                   *)
ReaderSilent(i) ==
  /\ reader[i] = "notify"
  /\ reader' = [reader EXCEPT ![i] = "read"]
  /\ UNCHANGED <<downloadVars, upload, writerVars, attempt, consumed, enabled,
                 notified, wire, up, clientVars, unmetered>>

ReaderNotify(i) ==
  /\ reader[i] = "notify"
  /\ notified' = TRUE
  /\ reader' = [reader EXCEPT ![i] = "read"]
  /\ UNCHANGED <<downloadVars, upload, writerVars, attempt, consumed, enabled,
                 wire, up, clientVars, unmetered>>

(* A read or decode error ends the reader, and nothing else.                *)
ReaderExit(i) ==
  /\ i \in Faulty \cup Silenced \/ writer[i] = "exited"
  /\ reader[i] = "read"
  /\ reader' = [reader EXCEPT ![i] = "done"]
  /\ up' = [up EXCEPT ![i] = <<>>]
  /\ UNCHANGED <<downloadVars, upload, writerVars, attempt, consumed, enabled,
                 notified, wire, clientVars, unmetered>>

Reader(i) ==
  ReaderLoad(i) \/ ReaderSwap(i) \/ ReaderEnable(i) \/ ReaderNotify(i)

-----------------------------------------------------------------------------
(* The client (external): frames arrive in order on each subflow, its       *)
(* reader takes the bytes in order of offset, and it reports how many it    *)
(* took on any join subflow, again and again.                               *)

ClientReceive(i) ==
  /\ wire[i] # <<>>
  /\ wire' = [wire EXCEPT ![i] = Tail(@)]
  /\ LET f == Head(wire[i]) IN
       IF IsFin(f) THEN finals' = finals \cup {f.off} /\ UNCHANGED got
                   ELSE got' = got \cup Bytes(f) /\ UNCHANGED finals
  /\ UNCHANGED <<downloadVars, upload, writerVars, creditVars, up, taken,
                 unmetered>>

ClientTake ==
  /\ taken \in got
  /\ taken' = taken + 1
  /\ UNCHANGED <<downloadVars, upload, writerVars, creditVars, wire, up, got,
                 finals, unmetered>>

ClientReport(i) ==
  /\ reader[i] # "done" /\ Len(up[i]) < UpCap
  /\ up' = [up EXCEPT ![i] = Append(@, taken)]
  /\ UNCHANGED <<downloadVars, upload, writerVars, creditVars, wire,
                 clientVars, unmetered>>

-----------------------------------------------------------------------------
(* The relay is over when the download has ended or been dropped and the    *)
(* writers have finished; only then may nothing be left to do.              *)
Done ==
  /\ pc \in {"ended", "dropped"} /\ upload # "open"
  /\ \A i \in Subflows : writer[i] = "exited" /\ wire[i] = <<>>
  /\ \A i \in Joins : reader[i] = "done"
  /\ taken \notin got
  /\ UNCHANGED vars

Next ==
  \/ Download
  \/ UploadCloses
  \/ UploadFails
  \/ \E i \in Subflows : Writer(i) \/ WriterFail(i) \/ ClientReceive(i)
  \/ \E i \in Joins : Reader(i) \/ ReaderExit(i) \/ ClientReport(i)
  \/ ClientTake
  \/ Done

Spec == Init /\ [][Next]_vars

(* Scheduling: tokio polls every task that can make progress, so the        *)
(* download, the writers and the readers are weakly fair; the client goes   *)
(* on receiving, taking and reporting.  Nothing forces the target to send   *)
(* or close, the upload to end, or a connection to fail.                    *)
DownloadProgress ==
  \/ SeeDead \/ CreditPass \/ CreditStall \/ CreditWake \/ CreditGiveUp
  \/ ScanQueue \/ ScanDone \/ Send \/ SendClosed
  \/ SendFin \/ FinsSent \/ JoinWriters

Fairness ==
  /\ WF_vars(DownloadProgress)
  /\ \A i \in Subflows : WF_vars(Writer(i)) /\ WF_vars(ClientReceive(i))
  /\ \A i \in Joins : WF_vars(Reader(i)) /\ WF_vars(ClientReport(i))
  /\ WF_vars(ClientTake)

FairSpec == Spec /\ Fairness
-----------------------------------------------------------------------------
(* Type invariant: every variable has the kind of value its comment says;   *)
(* in particular no frame and no received byte lies beyond the offset of    *)
(* the download loop.                                                       *)
Stages == {"select", "credit", "await", "scan", "send", "fin", "join",
           "ended", "dropped"}

TypeOK ==
  /\ pc \in Stages
  /\ result \in {"none", "ok", "err"}
  /\ n \in Nat /\ offset \in Nat
  /\ item \in Seq(Frame)
  /\ k \in Nat /\ best \in Subflows /\ load \in Nat
  /\ upload \in {"open", "ok", "err", "dropped"}
  /\ chan \in [Subflows -> Seq(Frame)]
  /\ queued \in [Subflows -> 0..UsizeMax]
  /\ cur \in [Subflows -> Seq(Frame)]
  /\ writer \in [Subflows -> {"run", "closing", "exited"}]
  /\ dead \in BOOLEAN
  /\ reader \in [Joins -> {"read", "swap", "enable", "notify", "done"}]
  /\ attempt \in [Joins -> Attempt]
  /\ consumed \in Nat /\ enabled \in BOOLEAN /\ notified \in BOOLEAN
  /\ wire \in [Subflows -> Seq(Frame)]
  /\ up \in [Joins -> Seq(Nat)]
  /\ got \subseteq Nat /\ taken \in Nat /\ finals \subseteq Nat
  /\ unmetered \in Nat

(* The counter the shortest-queue scheduler compares is, for every writer   *)
(* that runs, exactly the number of frames handed to it and not yet         *)
(* written, as long as frames are being scheduled: the decrement without an *)
(* increment that spawn_subflow_writer does for a FIN (and that wraps the   *)
(* counter) only comes when no scheduling decision is left to take.         *)
Scheduling == pc \in {"select", "credit", "await", "scan", "send"}

QueueAccounting ==
  Scheduling =>
    \A i \in Subflows : writer[i] = "run" =>
      queued[i] = Len(chan[i]) + Len(cur[i])
                    + (IF pc = "send" /\ best = i THEN 1 ELSE 0)

(* The window arithmetic offset + n - consumed of the credit loop never     *)
(* underflows, though updates arrive on several joins in any order: what    *)
(* the server believes consumed was taken by the client, and what was taken *)
(* had been enqueued.                                                       *)
CreditSound == consumed <= taken /\ taken <= offset

(* Everything enqueued past the bytes sent blindly (before the first        *)
(* WINDOW_UPDATE, or after every reader is gone) keeps the bytes the client *)
(* has yet to take under GLOBAL_WINDOW, the bound its reorder buffer is     *)
(* sized for.                                                               *)
CreditBound == offset > unmetered => offset - taken < Window

(* The download loop never sleeps on notify while its condition is already  *)
(* open and no wake-up is on the way.                                       *)
NoLostWakeup ==
  pc = "await" /\ ~ Blocked =>
    notified \/ \E i \in Joins : reader[i] \in {"enable", "notify"}

(* The frames on their way, in the order in which they arrive: lane i holds *)
(* those handed to subflow i, the last lane the one the loop still has.     *)
Lanes == [i \in 0..NSub |-> IF i = NSub THEN item
                                        ELSE wire[i] \o cur[i] \o chan[i]]

(* Each byte on its way, with the place of its frame.                       *)
Carried == UNION { UNION { {<<i, j>>} \X Bytes(Lanes[i][j]) :
                             j \in DOMAIN Lanes[i] } : i \in 0..NSub }

Failed == dead \/ result = "err" \/ pc = "dropped"

(* Striping partitions the stream: whatever the interleaving of scheduler,  *)
(* writers and connections, no byte is in two places (sent twice, or in two *)
(* frames), none beyond the offset exists, and none below it is lost unless *)
(* the session has failed.                                                  *)
EachByteOnce ==
  LET onTheWay == { c[2] : c \in Carried } IN
    /\ \A c, d \in Carried : c[2] = d[2] => c = d
    /\ got \cap onTheWay = {}
    /\ got \cup onTheWay \subseteq 0..(offset - 1)
    /\ Failed \/ 0..(offset - 1) \subseteq got \cup onTheWay

(* The credit wait is never a deadlock: a loop that sleeps for credit in a  *)
(* session that has not failed is owed progress by somebody who can make    *)
(* it.  A wake-up is on its way, the wait is about to be given up, the      *)
(* client has a count to report or a byte to take, or the byte its reader   *)
(* waits for is on a subflow whose writer runs.  (The frame under the loop  *)
(* alone never fills the window, and it keeps back no byte the client       *)
(* needs in order to report.)                                               *)
StallHasRemedy ==
  pc = "await" /\ ~ notified /\ ~ Failed =>
    \/ \A i \in Joins : reader[i] = "done"
    \/ \E i \in Joins : reader[i] \in {"enable", "notify"}
    \/ consumed < taken \/ taken \in got
    \/ \E i \in Subflows :
         /\ writer[i] = "run"
         /\ \E j \in DOMAIN Lanes[i] : taken \in Bytes(Lanes[i][j])

(* The consumed count only grows, although several readers raise it from    *)
(* reports that overtake each other, and another may store between the load *)
(* and the exchange of one.                                                 *)
ConsumedMonotone == [][consumed' >= consumed]_vars

(* The striped downlink implements one ordered byte stream: the client's    *)
(* reader never sees a clean end before the target closed and all its bytes *)
(* were taken.                                                              *)
BS == INSTANCE ByteStream WITH
        produced <- offset, closed <- result = "ok", delivered <- taken,
        ended <- taken \in finals

ImplementsByteStream == BS!BSSpec

(* Liveness: what was read from the target reaches the client's reader,     *)
(* unless the session fails; the credit window cannot stall it for ever.    *)
(* (The target sends MaxBytes at most, so the client does catch up.)        *)
BytesRead == IF pc \in {"credit", "await"} THEN offset + n ELSE offset

DeliveredOrFailed == []<>(taken = BytesRead \/ Failed)

(* Liveness: once the loop is left, the FINs, the writers and the join of   *)
(* their handles come to an end, dead subflows or not.                      *)
LoopLeftThenEnded == result # "none" ~> pc \in {"ended", "dropped"}

-----------------------------------------------------------------------------
(* What a comment of multipath.rs says, and the code does not do.           *)

(* "A write failure on any subflow means that the session is dead"          *)
(* (multipath.rs:405-406): the download loop ends.                          *)
DeadEndsSession == dead ~> SendersDropped
=============================================================================
