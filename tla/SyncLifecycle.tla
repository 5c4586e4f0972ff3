---------------------------- MODULE SyncLifecycle ----------------------------
(***************************************************************************)
(* The life of an import: the upload route stores a file, commits a        *)
(* sync_logs row and enqueues a Celery message; a worker takes a delivery, *)
(* marks the row RUNNING, imports the file in one database transaction,    *)
(* and then deletes the file, or marks the row FAILED and retries.         *)
(*                                                                         *)
(* One job is one upload.  A row of the file is a unit: an attempt that    *)
(* commits leaves some rows processed and the others failed (SyncRows      *)
(* refines that step).  Timestamps are whether they have been written.     *)
(***************************************************************************)
EXTENDS Integers, FiniteSets

CONSTANTS
  Jobs,        \* uploads a client may submit
  Workers,     \* worker processes of the container (docker-compose: 2)
  Rows,        \* Rows[j]: number of data rows in the file of job j
  MaxRetries,  \* Celery's max_retries (3 in the code)
  Faults,      \* the kinds of fault the environment may inject
  MaxFaults    \* bound: how many faults happen in one behaviour

FaultKinds ==
  {"api",         \* the API request dies, its commit fails or the broker refuses it
   "connection",  \* a database call outside the import's try block fails
   "commit",      \* the import's commit takes effect but reports an error
   "publish",     \* the broker refuses the message of a retry
   "delete",      \* unlinking the file raises
   "kill",        \* one worker process dies abruptly (out of memory, SIGKILL)
   "crash",       \* the worker container dies: its deliveries are unacknowledged
   "redeliver"}   \* the visibility timeout passes while a worker holds a delivery

Repeating == {"crash", "redeliver"}
Disturbing == Repeating \cup {"commit", "delete"}

ASSUME ConstantsAssumption ==
  /\ Jobs # {} /\ IsFiniteSet(Workers)
  /\ Rows \in [Jobs -> Nat]
  /\ MaxRetries \in Nat
  /\ MaxFaults \in Nat
  /\ Faults \subseteq FaultKinds

VARIABLES
  upload,    \* upload[j]: where the request that submits j is
  file,      \* file[j]: the stored upload exists on the shared volume
  log,       \* log[j]: the committed sync_logs row
  imports,   \* imports[j]: imports of j committed to the inventory tables
  queue,     \* queue[m]: deliveries of m the broker still owes
  pc,        \* pc[w]: where worker w is in sync_erp_data
  task,      \* task[w]: the message worker w holds
  seen,      \* seen[w]: the row as the session of worker w last loaded it
  attempts,  \* history: attempts[j] deliveries of j taken by a worker
  faults,    \* faults injected so far
  once,      \* history: no delivery was repeated so far (Repeating)
  calm       \* history: nor a commit or delete reported wrongly (Disturbing)

vars ==
  <<upload, file, log, imports, queue, pc, task, seen, attempts, faults, once, calm>>
stored == <<file, log, imports>>
broker == <<queue, attempts>>
worker == <<pc, task, seen>>
environment == <<faults, once, calm>>

Messages == [job : Jobs, retries : 0 .. MaxRetries]

(* What an idle worker holds is of no account; one value stands for it. *)
NoMessage == CHOOSE m \in Messages : TRUE

NoScore == -1

(* A sync_logs row; status NONE stands for a row that is not there. *)
NoLog ==
  [status |-> "NONE", started |-> FALSE, completed |-> FALSE, score |-> NoScore,
   total |-> 0, processed |-> 0, failed |-> 0]

(* Bug: the counters have no default and start as NULL. *)
NewLogWithoutDefaults ==
  [NoLog EXCEPT !.status = "PENDING", !.total = NoScore]

NewLog == [NoLog EXCEPT !.status = "PENDING"]

(* A file without rows scores 0; any other at least half of the points. *)
ScoreValues == {NoScore, 0} \cup 500 .. 1000

Statuses == {"NONE", "PENDING", "RUNNING", "COMPLETED", "FAILED"}

SyncLogs ==
  [status : Statuses, started : BOOLEAN, completed : BOOLEAN, score : ScoreValues,
   total : Nat, processed : Nat, failed : Nat]

(* DEFAULT_QUALITY_BASE less up to 50 points for failed rows, in tenths of *)
(* a point, rounded to the nearest: of two equally near, the binary         *)
(* fraction of the percentage decides, which is left open.                 *)
Quality(processed, failed) ==
  LET total == processed + failed
      tenths == 1000 * total - 500 * failed
      q == tenths \div total
  IN  IF total = 0 THEN {0}
      ELSE {s \in {q, q + 1} : 2 * (s * total - tenths) \in -total .. total}

(* The ORM's UPDATE names only the columns that differ from what the       *)
(* session loaded; another session's writes to the others stay.            *)
Flush(row, loaded, new) ==
  [c \in DOMAIN row |-> IF new[c] = loaded[c] THEN row[c] ELSE new[c]]

TypeOK ==
  /\ upload \in [Jobs -> {"idle", "saved", "committed", "answered", "rejected", "aborted"}]
  /\ file \in [Jobs -> BOOLEAN]
  /\ log \in [Jobs -> SyncLogs]
  /\ imports \in [Jobs -> Nat]
  /\ queue \in [Messages -> Nat]
  /\ pc \in [Workers -> {"idle", "received", "loaded", "running", "imported",
                         "failing", "raised", "done"}]
  /\ task \in [Workers -> Messages]
  /\ seen \in [Workers -> SyncLogs]
  /\ attempts \in [Jobs -> Nat]
  /\ faults \in 0 .. MaxFaults
  /\ once \in BOOLEAN /\ calm \in BOOLEAN

Init ==
  /\ upload = [j \in Jobs |-> "idle"]
  /\ file = [j \in Jobs |-> FALSE]
  /\ log = [j \in Jobs |-> NoLog]
  /\ imports = [j \in Jobs |-> 0]
  /\ queue = [m \in Messages |-> 0]
  /\ pc = [w \in Workers |-> "idle"]
  /\ task = [w \in Workers |-> NoMessage]
  /\ seen = [w \in Workers |-> NoLog]
  /\ attempts = [j \in Jobs |-> 0]
  /\ faults = 0
  /\ once = TRUE /\ calm = TRUE

Job(w) == task[w].job

Fault(kind) ==
  /\ kind \in Faults /\ faults < MaxFaults
  /\ faults' = faults + 1
  /\ once' = (once /\ kind \notin Repeating)
  /\ calm' = (calm /\ kind \notin Disturbing)

Goto(w, from, to) == pc[w] = from /\ pc' = [pc EXCEPT ![w] = to]

-----------------------------------------------------------------------------
(* The upload request: upload_file and SyncService.start_sync. *)

Request(j, from, to) == upload[j] = from /\ upload' = [upload EXCEPT ![j] = to]

(* Wrong role, unsupported extension, empty or oversized file: 4xx, and    *)
(* nothing has been written.                                               *)
RejectUpload(j) ==
  /\ Request(j, "idle", "rejected")
  /\ UNCHANGED <<stored, broker, worker, environment>>

SaveFile(j) ==
  /\ Request(j, "idle", "saved")
  /\ file' = [file EXCEPT ![j] = TRUE]
  /\ UNCHANGED <<log, imports, broker, worker, environment>>

CommitLog(j) ==
  /\ Request(j, "saved", "committed")
  /\ log' = [log EXCEPT ![j] = NewLog]
  /\ UNCHANGED <<file, imports, broker, worker, environment>>

(* Bug: the message is published before the row is committed. *)
EnqueueBeforeCommit(j) ==
  /\ upload[j] = "saved"
  /\ upload' = [upload EXCEPT ![j] = "answered"]
  /\ queue' = [queue EXCEPT ![[job |-> j, retries |-> 0]] = @ + 1]
  /\ UNCHANGED <<attempts, stored, worker, environment>>

Enqueue(j) ==
  /\ Request(j, "committed", "answered")
  /\ queue' = [queue EXCEPT ![[job |-> j, retries |-> 0]] = @ + 1]
  /\ UNCHANGED <<attempts, stored, worker, environment>>

(* The request ends between two of its writes: a file without a row, or a  *)
(* PENDING row without a message.                                          *)
AbortUpload(j) ==
  /\ Fault("api")
  /\ upload[j] \in {"saved", "committed"}
  /\ upload' = [upload EXCEPT ![j] = "aborted"]
  /\ UNCHANGED <<stored, broker, worker>>

-----------------------------------------------------------------------------
(* The worker: sync_erp_data around SyncService.process_sync. *)

(* Bug: the delivery stays in the queue although a worker has taken it. *)
ReceiveWithoutTaking(w, m) ==
  /\ queue[m] > 0
  /\ Goto(w, "idle", "received")
  /\ task' = [task EXCEPT ![w] = m]
  /\ attempts' = [attempts EXCEPT ![m.job] = @ + 1]
  /\ UNCHANGED <<upload, queue, seen, stored, environment>>

Receive(w, m) ==
  /\ queue[m] > 0
  /\ Goto(w, "idle", "received")
  /\ queue' = [queue EXCEPT ![m] = @ - 1]
  /\ task' = [task EXCEPT ![w] = m]
  /\ attempts' = [attempts EXCEPT ![m.job] = @ + 1]
  /\ UNCHANGED <<upload, seen, stored, environment>>

(* set_tenant_context and db.get; without a row the task just returns. *)
Load(w) ==
  /\ Goto(w, "received", IF log[Job(w)].status = "NONE" THEN "done" ELSE "loaded")
  /\ seen' = [seen EXCEPT ![w] = log[Job(w)]]
  /\ UNCHANGED <<upload, task, stored, broker, environment>>

(* status = RUNNING and started_at are committed; then the whole file is    *)
(* read, or is not there.  A deletion between the two is one of Fatal's.   *)
MarkRunning(w) ==
  LET new == [seen[w] EXCEPT !.status = "RUNNING", !.started = TRUE]
  IN  /\ Goto(w, "loaded", IF file[Job(w)] THEN "running" ELSE "failing")
      /\ log' = [log EXCEPT ![Job(w)] = Flush(@, seen[w], new)]
      /\ seen' = [seen EXCEPT ![w] = new]
      /\ UNCHANGED <<upload, file, imports, task, broker, environment>>

(* `ok` of the rows read are stored, and rows, counters, score and status  *)
(* are committed together, whatever became of the file in the meantime.    *)
Import(w, to) ==
  \E ok \in 0 .. Rows[Job(w)] :
    LET counted == [seen[w] EXCEPT
                      !.status = "COMPLETED", !.completed = TRUE, !.total = @ + Rows[Job(w)],
                      !.processed = @ + ok, !.failed = @ + (Rows[Job(w)] - ok)]
    IN  \E score \in Quality(counted.processed, counted.failed) :
          LET new == [counted EXCEPT !.score = score]
          IN  /\ Goto(w, "running", to)
              /\ log' = [log EXCEPT ![Job(w)] = Flush(@, seen[w], new)]
              /\ imports' = [imports EXCEPT ![Job(w)] = @ + 1]
              /\ seen' = [seen EXCEPT ![w] = new]
              /\ UNCHANGED <<upload, file, task, broker>>

Complete(w) == Import(w, "imported") /\ UNCHANGED environment

(* The commit takes effect but its answer is lost: the session raises, and *)
(* the except branch treats the attempt as failed.                         *)
LoseCommit(w) == Fault("commit") /\ Import(w, "failing")

(* Anything raised inside the try block: the file is unreadable, or gone   *)
(* before it was opened, or the database refused a statement or the commit.*)
(* Nothing was committed.                                                  *)
Fatal(w) ==
  /\ Goto(w, "running", "failing")
  /\ UNCHANGED <<upload, task, seen, stored, broker, environment>>

(* Bug: the counters of the failed attempt are not rolled back. *)
MarkFailedWithoutRollback(w) ==
  /\ Goto(w, "failing", "raised")
  /\ log' = [log EXCEPT ![Job(w)].status = "FAILED", ![Job(w)].completed = TRUE,
                        ![Job(w)].total = @ + Rows[Job(w)]]
  /\ UNCHANGED <<upload, file, imports, task, seen, broker, environment>>

(* Bug: the source file is deleted whether or not the import succeeded. *)
MarkFailedAndDelete(w) ==
  /\ Goto(w, "failing", "raised")
  /\ log' = [log EXCEPT ![Job(w)].status = "FAILED", ![Job(w)].completed = TRUE]
  /\ file' = [file EXCEPT ![Job(w)] = FALSE]
  /\ UNCHANGED <<upload, imports, task, seen, broker, environment>>

(* rollback, refresh, then status and completed_at are committed; the      *)
(* exception goes on to the task.  The ORM omits a status that the refresh *)
(* already found FAILED: what another session commits before this commit   *)
(* then stays, as if this step had come before that session's.             *)
MarkFailed(w) ==
  /\ Goto(w, "failing", "raised")
  /\ log' = [log EXCEPT ![Job(w)].status = "FAILED", ![Job(w)].completed = TRUE]
  /\ UNCHANGED <<upload, file, imports, task, seen, broker, environment>>

(* A database call outside the try block fails: loading the row, marking   *)
(* it RUNNING, or refreshing it and marking it FAILED.                     *)
LoseConnection(w) ==
  /\ Fault("connection")
  /\ pc[w] \in {"received", "loaded", "failing"}
  /\ pc' = [pc EXCEPT ![w] = "raised"]
  /\ UNCHANGED <<upload, task, seen, stored, broker>>

(* Bug: deleting the file of a completed job raises. *)
DeleteFileAndRaise(w) ==
  /\ Goto(w, "imported", "raised")
  /\ file' = [file EXCEPT ![Job(w)] = FALSE]
  /\ UNCHANGED <<upload, log, imports, task, seen, broker, environment>>

(* Bug: the file of a completed job is left behind. *)
DeleteNothing(w) ==
  /\ Goto(w, "imported", "done")
  /\ UNCHANGED <<upload, task, seen, stored, broker, environment>>

(* The finally block after a successful import; a missing file is fine. *)
DeleteFile(w) ==
  /\ Goto(w, "imported", "done")
  /\ file' = [file EXCEPT ![Job(w)] = FALSE]
  /\ UNCHANGED <<upload, log, imports, task, seen, broker, environment>>

(* The finally block raises after COMPLETED was committed. *)
DeleteFails(w) ==
  /\ Fault("delete")
  /\ Goto(w, "imported", "raised")
  /\ UNCHANGED <<upload, task, seen, stored, broker>>

(* The last attempt failed: delete_upload, then the task fails. *)
GiveUp(w) ==
  /\ Goto(w, "raised", "done")
  /\ task[w].retries >= MaxRetries
  /\ file' = [file EXCEPT ![Job(w)] = FALSE]
  /\ UNCHANGED <<upload, log, imports, task, seen, broker, environment>>

(* delete_upload raises (database or volume): the task fails all the same. *)
GiveUpFails(w) ==
  /\ Fault("connection") \/ Fault("delete")
  /\ Goto(w, "raised", "done")
  /\ task[w].retries >= MaxRetries
  /\ UNCHANGED <<upload, task, seen, stored, broker>>

(* Bug: the retry carries the retry count it was received with. *)
PublishSameRetry(w) ==
  /\ task[w].retries < MaxRetries
  /\ Goto(w, "raised", "done")
  /\ queue' = [queue EXCEPT ![task[w]] = @ + 1]
  /\ UNCHANGED <<upload, task, seen, attempts, stored, environment>>

(* self.retry publishes the next attempt; the delivery in hand is          *)
(* acknowledged only afterwards.                                           *)
PublishRetry(w) ==
  /\ task[w].retries < MaxRetries
  /\ Goto(w, "raised", "done")
  /\ queue' = [queue EXCEPT ![[job |-> Job(w), retries |-> task[w].retries + 1]] = @ + 1]
  /\ UNCHANGED <<upload, task, seen, attempts, stored, environment>>

(* The broker refuses the retry: Celery rejects the delivery, unqueued. *)
PublishFails(w) ==
  /\ Fault("publish")
  /\ task[w].retries < MaxRetries
  /\ Goto(w, "raised", "done")
  /\ UNCHANGED <<upload, task, seen, stored, broker>>

Release(w) ==
  /\ task' = [task EXCEPT ![w] = NoMessage]
  /\ seen' = [seen EXCEPT ![w] = NoLog]

(* acks_late: the delivery is acknowledged when the task has ended. *)
Acknowledge(w) ==
  /\ Goto(w, "done", "idle")
  /\ Release(w)
  /\ UNCHANGED <<upload, stored, broker, environment>>

-----------------------------------------------------------------------------
(* Faults of the worker side. *)

(* One process dies: the parent records WorkerLostError and acknowledges,  *)
(* because task_reject_on_worker_lost is not set.                          *)
KillWorker(w) ==
  /\ Fault("kill")
  /\ pc[w] # "idle"
  /\ pc' = [pc EXCEPT ![w] = "idle"]
  /\ Release(w)
  /\ UNCHANGED <<upload, stored, broker>>

ReleaseAll ==
  /\ pc' = [w \in Workers |-> "idle"]
  /\ task' = [w \in Workers |-> NoMessage]
  /\ seen' = [w \in Workers |-> NoLog]

Held(m) == {w \in Workers : pc[w] # "idle" /\ task[w] = m}

(* Bug: deliveries are acknowledged on receipt, so a crash loses them. *)
CrashHostEarlyAck ==
  /\ Fault("crash")
  /\ \E w \in Workers : pc[w] # "idle"
  /\ ReleaseAll
  /\ UNCHANGED <<upload, stored, broker>>

(* The container dies; open transactions roll back and every               *)
(* unacknowledged delivery comes back after the visibility timeout.        *)
CrashHost ==
  /\ Fault("crash")
  /\ \E w \in Workers : pc[w] # "idle"
  /\ ReleaseAll
  /\ queue' = [m \in Messages |-> queue[m] + Cardinality(Held(m))]
  /\ UNCHANGED <<upload, attempts, stored>>

(* The import outlasts the visibility timeout: the broker delivers again. *)
Redeliver(w) ==
  /\ Fault("redeliver")
  /\ pc[w] # "idle"
  /\ queue' = [queue EXCEPT ![task[w]] = @ + 1]
  /\ UNCHANGED <<upload, attempts, stored, worker>>

-----------------------------------------------------------------------------
ApiStep(j) == SaveFile(j) \/ CommitLog(j) \/ Enqueue(j)

WorkerStep(w) ==
  \/ \E m \in Messages : Receive(w, m)
  \/ Load(w)
  \/ MarkRunning(w)
  \/ Complete(w)
  \/ Fatal(w)
  \/ MarkFailed(w)
  \/ DeleteFile(w)
  \/ GiveUp(w)
  \/ PublishRetry(w)
  \/ Acknowledge(w)

WorkerFault(w) ==
  \/ LoseConnection(w)
  \/ LoseCommit(w)
  \/ DeleteFails(w)
  \/ GiveUpFails(w)
  \/ PublishFails(w)
  \/ KillWorker(w)
  \/ Redeliver(w)

Next ==
  \/ \E j \in Jobs : ApiStep(j) \/ RejectUpload(j) \/ AbortUpload(j)
  \/ \E w \in Workers : WorkerStep(w) \/ WorkerFault(w)
  \/ CrashHost

Spec == Init /\ [][Next]_vars

(* A worker process that can go on does: Celery polls its queue, and a     *)
(* task that runs reaches its next statement.                              *)
FairSpec == Spec /\ \A w \in Workers : WF_vars(WorkerStep(w))

-----------------------------------------------------------------------------
(* Properties. *)

(* A delivery of j is queued, or a worker has one whose outcome is open. *)
Queued(j) == \E m \in Messages : m.job = j /\ queue[m] > 0
Active(w) == pc[w] \notin {"idle", "done"}
Attempted(j) == \E w \in Workers : Active(w) /\ Job(w) = j

(* Every message, queued or in the hands of a worker, names a sync_logs    *)
(* row that was committed before: the "not found" return of process_sync   *)
(* is never taken, and no upload is accepted and silently skipped.         *)
QueuedIsCommitted ==
  /\ \A m \in Messages : queue[m] > 0 => log[m.job].status # "NONE"
  /\ \A w \in Workers : pc[w] # "idle" => log[Job(w)].status # "NONE"

(* Under every fault, the source file of an accepted upload disappears     *)
(* only after an import of it was committed or after 1 + MaxRetries        *)
(* deliveries of it were attempted (sync.py's finally block, delete_upload *)
(* after the last attempt).                                                *)
DiscardJustified ==
  \A j \in Jobs :
    upload[j] \notin {"idle", "rejected"} /\ ~file[j]
      => imports[j] > 0 \/ attempts[j] > MaxRetries

(* Under every fault, a sync_logs row never counts a row whose import was  *)
(* rolled back: the counters stay within what committed imports have read. *)
NeverOvercounted ==
  \A j \in Jobs :
    /\ log[j].total <= Rows[j] * imports[j]
    /\ log[j].processed + log[j].failed <= Rows[j] * imports[j]

OneDelivery ==
  /\ \A m, n \in Messages :
       queue[m] > 0 /\ queue[n] > 0 /\ m.job = n.job => m = n /\ queue[m] = 1
  /\ \A w \in Workers, m \in Messages : Active(w) /\ queue[m] > 0 => m.job # Job(w)
  /\ \A v, w \in Workers : Active(v) /\ Active(w) /\ Job(v) = Job(w) => v = w

(* Until a delivery is repeated, a job has one delivery: no two executions *)
(* of it overlap, and none runs while a retry of it is queued.             *)
SingleDelivery == once => OneDelivery

FileKept == \A j \in Jobs : Queued(j) \/ Attempted(j) => file[j]

(* Until a delivery is repeated, an attempt that may still read the file,  *)
(* now or after a retry, finds it (architecture.md, Import Lifecycle 5).   *)
RetainedForRetry == once => FileKept

(* The counters and the score of l are those of n imports of as many rows. *)
Accounts(l, rows, n) ==
  /\ l.total = l.processed + l.failed
  /\ l.total = rows * n
  /\ l.score \in IF n = 0 THEN {NoScore} ELSE Quality(l.processed, l.failed)

CountedOnce == \A j \in Jobs : Accounts(log[j], Rows[j], imports[j])

(* Until a delivery is repeated, a row accounts for each data row of the   *)
(* file once per committed import: none is lost between processed and      *)
(* failed, nothing of an attempt that was rolled back is counted, and the  *)
(* score beside the counters is the score of these counters.               *)
Accounting == once => CountedOnce

(* Until a delivery is repeated, a commit's answer is lost or a delete     *)
(* raises, COMPLETED is final: nothing that the status route shows of a    *)
(* completed job changes, whatever requests, connections and workers die.  *)
CompletedIsFinal ==
  [][\A j \in Jobs :
       calm' /\ log[j].status = "COMPLETED" => log'[j] = log[j]]_vars

Terminal(j) == log[j].status \in {"COMPLETED", "FAILED"}

(* Every accepted upload comes to rest COMPLETED or FAILED, whatever the   *)
(* broker redelivers: the poller of the status route gets an answer.       *)
EventuallyTerminal ==
  \A j \in Jobs : upload[j] = "answered" ~> []Terminal(j)

(* Every accepted upload is finally removed from the volume, by the        *)
(* attempt that succeeds or by the last one that fails.                    *)
EventuallyDiscarded ==
  \A j \in Jobs : upload[j] = "answered" ~> []~file[j]

(* "Fatal failures are marked failed and raised to Celery"                 *)
(* (architecture.md:54): once nothing of an accepted upload is queued or   *)
(* running any more, its row says COMPLETED or FAILED.                     *)
FatalIsMarkedFailed ==
  \A j \in Jobs :
    upload[j] = "answered" /\ ~Queued(j) /\ ~Attempted(j) => Terminal(j)

(* No orphans (architecture.md:57): once nothing of an accepted upload is  *)
(* queued or running any more, its file is no longer on the volume.        *)
NoOrphan ==
  \A j \in Jobs :
    upload[j] = "answered" /\ ~Queued(j) /\ ~Attempted(j) => ~file[j]

(* Until a Disturbing fault the life of a job implements the abstract one: *)
(* at most 1 + MaxRetries attempts, each with the file in place, one       *)
(* import at most, and the file discarded only after it or after the last. *)
Abstract ==
  INSTANCE ImportJob WITH
    status <- [j \in Jobs |-> log[j].status],
    imported <- [j \in Jobs |-> imports[j] > 0],
    undisturbed <- calm
ImplementsImportJob == Abstract!Spec

-----------------------------------------------------------------------------
(* What the proofs of SyncLifecycle_proofs add to the properties to make   *)
(* them inductive.                                                         *)

(* A committed row stays committed. *)
AcceptedIsCommitted ==
  \A j \in Jobs : upload[j] \in {"committed", "answered"} => log[j].status # "NONE"

(* A message with r retries was published by the attempt after r others. *)
Lineage ==
  /\ \A m \in Messages : queue[m] > 0 => attempts[m.job] >= m.retries
  /\ \A w \in Workers : pc[w] # "idle" => attempts[Job(w)] > task[w].retries

ImportedFirst == \A w \in Workers : pc[w] = "imported" => imports[Job(w)] > 0

(* Every committed import of j read each row once, as a good or a bad one:  *)
(* the counters of the row, and those a worker is going to write, never    *)
(* exceed the sums over these imports, whatever columns sessions overwrite. *)
Within(l, rows, good, bad) == l.total <= rows /\ l.processed <= good /\ l.failed <= bad

CountInv ==
  \E good, bad \in [Jobs -> Nat] :
    /\ \A j \in Jobs : good[j] + bad[j] = Rows[j] * imports[j]
    /\ \A j \in Jobs : Within(log[j], Rows[j] * imports[j], good[j], bad[j])
    /\ \A w \in Workers :
         LET j == Job(w)
         IN  pc[w] \in {"loaded", "running"}
               => Within(seen[w], Rows[j] * imports[j], good[j], bad[j])

CommitInv == QueuedIsCommitted /\ AcceptedIsCommitted
DiscardInv == DiscardJustified /\ Lineage /\ ImportedFirst

(* Whoever can still mark an accepted upload is at it, or will be. *)
Pending(w) == pc[w] \in {"received", "loaded", "running", "failing"}

MarkedInv ==
  /\ \A j \in Jobs :
       upload[j] = "answered" /\ ~Terminal(j)
         => Queued(j) \/ \E w \in Workers : Pending(w) /\ Job(w) = j
  /\ \A w \in Workers : pc[w] = "running" => seen[w].status = "RUNNING"

UnqueuedUntilAnswered ==
  \A j \in Jobs : upload[j] # "answered" => ~Queued(j) /\ ~Attempted(j)

StoredUntilAnswered ==
  \A j \in Jobs : upload[j] \in {"saved", "committed"} => file[j]

(* Nobody writes the row between a worker's load and its next write. *)
SessionFresh ==
  \A w \in Workers : pc[w] \in {"loaded", "running"} => seen[w] = log[Job(w)]

NotImportedUntilCommitted ==
  \A j \in Jobs : upload[j] \in {"idle", "saved"} => imports[j] = 0

SingleInv == OneDelivery /\ UnqueuedUntilAnswered
RetainInv == FileKept /\ StoredUntilAnswered
AccountInv == CountedOnce /\ SessionFresh /\ NotImportedUntilCommitted

(* Until a Disturbing fault, a job that may still be imported has not been, *)
(* and its one delivery carries the number of its attempts.                *)
Open(j) == log[j].status \in {"PENDING", "RUNNING", "FAILED"} /\ imports[j] = 0

StageInv ==
  \A j \in Jobs :
    /\ upload[j] \in {"idle", "saved"} => log[j].status = "NONE"
    /\ upload[j] = "idle" => ~file[j]
    /\ upload[j] \in {"idle", "saved", "committed"} => imports[j] = 0 /\ attempts[j] = 0
    /\ upload[j] = "committed" => Open(j)

Due(m) == attempts[m.job] = m.retries /\ Open(m.job)

OnTurn(w) ==
  /\ attempts[Job(w)] = task[w].retries + 1
  /\ IF pc[w] = "imported"
     THEN log[Job(w)].status = "COMPLETED" /\ imports[Job(w)] > 0
     ELSE Open(Job(w))
  /\ pc[w] \in {"running", "failing"} => log[Job(w)].status = "RUNNING"

TurnInv ==
  /\ \A m \in Messages : queue[m] > 0 => Due(m)
  /\ \A w \in Workers : Active(w) => OnTurn(w)

CalmInv == StageInv /\ TurnInv

=============================================================================
