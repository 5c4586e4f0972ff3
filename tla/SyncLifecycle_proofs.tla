------------------------ MODULE SyncLifecycle_proofs ------------------------
(***************************************************************************)
(* Proofs about SyncLifecycle for every set of jobs, workers and faults.   *)
(***************************************************************************)
EXTENDS SyncLifecycle, FiniteSetTheorems, TLAPS

(* An UPDATE of the changed columns leaves a well-formed row. *)
LEMMA FlushType ==
  ASSUME NEW row \in SyncLogs, NEW loaded \in SyncLogs, NEW new \in SyncLogs
  PROVE  Flush(row, loaded, new) \in SyncLogs
  BY DEF Flush, SyncLogs, Statuses

LEMMA FlushStatus ==
  ASSUME NEW row \in SyncLogs, NEW loaded \in SyncLogs, NEW new \in SyncLogs
  PROVE  Flush(row, loaded, new).status
           = IF new.status = loaded.status THEN row.status ELSE new.status
  BY DEF Flush, SyncLogs

LEMMA FlushCounters ==
  ASSUME NEW row \in SyncLogs, NEW loaded \in SyncLogs, NEW new \in SyncLogs
  PROVE  LET f == Flush(row, loaded, new)
         IN  /\ f.total = IF new.total = loaded.total THEN row.total ELSE new.total
             /\ f.processed
                  = IF new.processed = loaded.processed THEN row.processed ELSE new.processed
             /\ f.failed = IF new.failed = loaded.failed THEN row.failed ELSE new.failed
  BY DEF Flush, SyncLogs

(* A session that loaded the current row writes just what it holds. *)
LEMMA FlushFresh ==
  ASSUME NEW row \in SyncLogs, NEW new \in SyncLogs
  PROVE  Flush(row, row, new) = new
  BY DEF Flush, SyncLogs

(* A score is between half of the points and all of them, or 0 for a file  *)
(* without rows.                                                           *)
LEMMA QualityType ==
  ASSUME NEW p \in Nat, NEW f \in Nat, NEW score \in Quality(p, f)
  PROVE  score \in ScoreValues
<1> DEFINE total == p + f
           tenths == 1000 * total - 500 * f
           q == tenths \div total
<1>1. CASE total = 0
  BY <1>1 DEF Quality, ScoreValues
<1>2. CASE total # 0
  <2>1. total \in Nat \ {0} /\ tenths \in Int /\ q \in Int
    BY <1>2
  <2>2. score \in {q, q + 1} /\ 2 * (score * total - tenths) \in -total .. total
    BY <1>2 DEF Quality
  <2>3. tenths <= 1000 * total /\ tenths >= 500 * total
    BY <2>1
  <2> HIDE DEF q, tenths, total
  <2>4. score \in Int
    BY <2>1, <2>2
  <2>5. 2 * (score * total) <= 2 * tenths + total /\ 2 * (score * total) >= 2 * tenths - total
    <3>1. score * total \in Int
      BY <2>1, <2>4
    <3> DEFINE product == score * total
    <3> HIDE DEF product
    <3>2. product \in Int /\ 2 * (product - tenths) \in -total .. total
      BY <2>2, <3>1 DEF product
    <3>3. 2 * product <= 2 * tenths + total /\ 2 * product >= 2 * tenths - total
      BY <2>1, <3>2
    <3> QED
      BY <3>3 DEF product
  <2>6. score <= 1000
    <3>1. ASSUME score >= 1001 PROVE FALSE
      <4>1. score * total >= 1001 * total
        BY <2>1, <2>4, <3>1
      <4> QED
        BY <2>1, <2>3, <2>4, <2>5, <4>1
    <3> QED
      BY <2>4, <3>1
  <2>7. score >= 500
    <3>1. ASSUME score <= 499 PROVE FALSE
      <4>1. score * total <= 499 * total
        BY <2>1, <2>4, <3>1
      <4> QED
        BY <2>1, <2>3, <2>4, <2>5, <4>1
    <3> QED
      BY <2>4, <3>1
  <2> QED
    BY <2>4, <2>6, <2>7 DEF ScoreValues
<1> QED
  BY <1>1, <1>2

(* Every import gets a score: rounding to the nearest has a result. *)
LEMMA QualityDefined ==
  ASSUME NEW p \in Nat, NEW f \in Nat
  PROVE  Quality(p, f) # {}
<1> DEFINE total == p + f
           tenths == 1000 * total - 500 * f
           q == tenths \div total
<1>1. CASE total = 0
  BY <1>1 DEF Quality
<1>2. CASE total # 0
  <2>1. total \in Nat \ {0} /\ tenths \in Int /\ q \in Int
    BY <1>2
  <2>2. q * total \in Int /\ q * total <= tenths /\ tenths < q * total + total
    <3> DEFINE t == total
               n == tenths
    <3>1. t \in Nat \ {0} /\ n \in Int /\ n \div t \in Int
      BY <2>1
    <3> HIDE DEF t, n
    <3>2. /\ (n \div t) * t \in Int /\ (n \div t) * t <= n
          /\ n < (n \div t) * t + t
      BY <3>1
    <3> QED
      BY <3>2 DEF t, n
  <2>3. Quality(p, f) = {s \in {q, q + 1} : 2 * (s * total - tenths) \in -total .. total}
    BY <1>2 DEF Quality
  <2> HIDE DEF q, tenths, total
  <2>4. (q + 1) * total = q * total + total
    BY <2>1
  <2>5. CASE 2 * (tenths - q * total) <= total
    <3>1. 2 * (q * total - tenths) \in -total .. total
      <4> DEFINE product == q * total
      <4>1. product \in Int /\ product <= tenths /\ 2 * (tenths - product) <= total
        BY <2>2, <2>5
      <4> HIDE DEF product
      <4>2. 2 * (product - tenths) \in -total .. total
        BY <2>1, <4>1
      <4> QED
        BY <4>2 DEF product
    <3> QED
      BY <2>3, <3>1
  <2>6. CASE 2 * (tenths - q * total) > total
    <3>1. 2 * ((q + 1) * total - tenths) \in -total .. total
      <4> DEFINE product == q * total
      <4>1. product \in Int /\ tenths < product + total /\ 2 * (tenths - product) > total
        BY <2>2, <2>6
      <4> HIDE DEF product
      <4>2. 2 * ((product + total) - tenths) \in -total .. total
        BY <2>1, <4>1
      <4> QED
        BY <2>4, <4>2 DEF product
    <3> QED
      BY <2>3, <3>1
  <2> QED
    BY <2>1, <2>2, <2>5, <2>6
<1> QED
  BY <1>1, <1>2

(* A score of 100.0 does not say that no row failed: it is given whenever  *)
(* fewer than one row in a thousand did, and never when more did           *)
(* (_calculate_quality rounds to one decimal).                             *)
THEOREM PerfectScore ==
  ASSUME NEW p \in Nat, NEW f \in Nat, p + f # 0
  PROVE  /\ 1000 * f < p + f => Quality(p, f) = {1000}
         /\ 1000 * f > p + f => 1000 \notin Quality(p, f)
<1> DEFINE total == p + f
           tenths == 1000 * total - 500 * f
<1>1. total \in Nat \ {0} /\ tenths \in Int
  OBVIOUS
<1>2. ASSUME NEW s \in Quality(p, f)
      PROVE  s \in ScoreValues \ {NoScore} /\ 2 * (s * total - tenths) \in -total .. total
  <2>1. 2 * (s * total - tenths) \in -total .. total /\ s \in {tenths \div total, (tenths \div total) + 1}
    BY <1>2 DEF Quality
  <2>2. s \in ScoreValues
    BY <1>2, QualityType
  <2>3. s # NoScore
    <3>1. ASSUME s = -1 PROVE FALSE
      <4>1. tenths >= 500 * total
        OBVIOUS
      <4> HIDE DEF tenths, total
      <4>2. s * total = -total
        BY <1>1, <3>1
      <4> QED
        BY <1>1, <2>1, <4>1, <4>2
    <3> QED
      BY <3>1 DEF NoScore
  <2> QED
    BY <2>1, <2>2, <2>3
<1>3. ASSUME 1000 * f < total, NEW s \in Quality(p, f) PROVE s = 1000
  <2>1. s \in Int /\ s <= 1000
    BY <1>2, <1>3 DEF ScoreValues, NoScore
  <2>2. 2 * (1000 * total - tenths) < total
    BY <1>3
  <2> HIDE DEF tenths, total
  <2>3. ASSUME s <= 999 PROVE FALSE
    <3>1. s * total \in Int /\ s * total <= 999 * total
      BY <1>1, <2>1, <2>3
    <3> DEFINE product == s * total
    <3>2. product \in Int /\ product <= 999 * total /\ 2 * (product - tenths) >= -total
      BY <1>1, <1>2, <1>3, <3>1
    <3> HIDE DEF product
    <3> QED
      BY <1>1, <2>2, <3>2
  <2> QED
    BY <2>1, <2>3
<1>4. ASSUME 1000 * f > total PROVE 1000 \notin Quality(p, f)
  <2>1. 2 * (1000 * total - tenths) > total
    BY <1>4
  <2> QED
    BY <1>1, <1>2, <2>1
<1>5. Quality(p, f) # {}
  BY QualityDefined
<1> QED
  BY <1>3, <1>4, <1>5

(* The deliveries of one message that workers hold can be counted. *)
LEMMA HeldCount ==
  ASSUME NEW m
  PROVE  Cardinality(Held(m)) \in Nat /\ (Held(m) = {} => Cardinality(Held(m)) = 0)
<1>1. IsFiniteSet(Held(m))
  BY ConstantsAssumption, FS_Subset DEF Held
<1> QED
  BY <1>1, FS_CardinalityType, FS_EmptySet

(* The rows the code writes are well formed. *)
LEMMA NewLogType == NoLog \in SyncLogs /\ NewLog \in SyncLogs
<1>1. NoLog \in SyncLogs
  BY DEF NoLog, SyncLogs, Statuses, NoScore, ScoreValues
<1>2. [NoLog EXCEPT !.status = "PENDING"] \in SyncLogs
  BY <1>1 DEF SyncLogs, Statuses
<1> QED
  BY <1>1, <1>2 DEF NewLog

LEMMA RunningLogType ==
  ASSUME NEW l \in SyncLogs
  PROVE  [l EXCEPT !.status = "RUNNING", !.started = TRUE] \in SyncLogs
  BY DEF SyncLogs, Statuses

LEMMA FailedLogType ==
  ASSUME NEW l \in SyncLogs
  PROVE  [l EXCEPT !.status = "FAILED", !.completed = TRUE] \in SyncLogs
  BY DEF SyncLogs, Statuses

LEMMA ScoredLogType ==
  ASSUME NEW l \in SyncLogs, NEW s \in ScoreValues
  PROVE  LET scored == [l EXCEPT !.score = s]
         IN  /\ scored \in SyncLogs /\ scored.score = s /\ scored.status = l.status
             /\ scored.total = l.total /\ scored.processed = l.processed
             /\ scored.failed = l.failed
  BY DEF SyncLogs

LEMMA MessageParts ==
  /\ \A m \in Messages : m.job \in Jobs /\ m.retries \in 0 .. MaxRetries
  /\ \A j \in Jobs, r \in 0 .. MaxRetries :
       LET m == [job |-> j, retries |-> r]
       IN  m \in Messages /\ m.job = j /\ m.retries = r
  BY DEF Messages

LEMMA NoMessageType == NoMessage \in Messages
<1>1. PICK j \in Jobs : TRUE
  BY ConstantsAssumption
<1>2. [job |-> j, retries |-> 0] \in Messages
  BY MessageParts, ConstantsAssumption
<1> QED
  BY <1>2 DEF NoMessage

(* The fault history only loses its innocence. *)
LEMMA HistoryWas ==
  ASSUME TypeOK, [Next]_vars
  PROVE  (once' => once) /\ (calm' => calm /\ once' = once)
<1> USE DEF environment, Fault, Repeating, Disturbing
<1>1. ASSUME NEW w \in Workers, WorkerFault(w)
      PROVE  (once' => once) /\ (calm' => calm /\ once' = once)
  BY <1>1 DEF WorkerFault, LoseConnection, LoseCommit, DeleteFails, GiveUpFails,
     PublishFails, KillWorker, Redeliver, TypeOK
<1>2. ASSUME NEW w \in Workers, WorkerStep(w) PROVE UNCHANGED <<once, calm>>
  BY <1>2 DEF WorkerStep, Receive, Load, MarkRunning, Complete, Fatal, MarkFailed,
     DeleteFile, GiveUp, PublishRetry, Acknowledge
<1>3. ASSUME NEW j \in Jobs, ApiStep(j) \/ RejectUpload(j) \/ AbortUpload(j)
      PROVE  (once' => once) /\ (calm' => calm /\ once' = once)
  BY <1>3 DEF ApiStep, SaveFile, CommitLog, Enqueue, RejectUpload, AbortUpload, TypeOK
<1>4. CASE CrashHost
  BY <1>4 DEF CrashHost, ReleaseAll, TypeOK
<1> QED
  BY <1>1, <1>2, <1>3, <1>4 DEF Next, vars

(* A worker that ends a task, acknowledged or killed, only frees itself. *)
LEMMA Quits ==
  ASSUME NEW w \in Workers, Acknowledge(w) \/ KillWorker(w)
  PROVE  /\ pc' = [pc EXCEPT ![w] = "idle"]
         /\ task' = [task EXCEPT ![w] = NoMessage]
         /\ seen' = [seen EXCEPT ![w] = NoLog]
         /\ UNCHANGED <<upload, file, log, imports, queue, attempts>>
  BY DEF Acknowledge, KillWorker, Release, Goto, stored, broker

(* Marking a row RUNNING, and reading its file or not finding it.          *)
LEMMA MarkStep ==
  ASSUME NEW w \in Workers, MarkRunning(w)
  PROVE  LET new == [seen[w] EXCEPT !.status = "RUNNING", !.started = TRUE]
         IN  /\ pc[w] = "loaded"
             /\ \E to \in {"running", "failing"} : pc' = [pc EXCEPT ![w] = to]
             /\ log' = [log EXCEPT ![Job(w)] = Flush(log[Job(w)], seen[w], new)]
             /\ seen' = [seen EXCEPT ![w] = new]
             /\ UNCHANGED <<upload, file, imports, task, queue, attempts>>
  BY DEF MarkRunning, Goto, broker

(* What an import does to the row, with the new session object named.      *)
LEMMA ImportStep ==
  ASSUME TypeOK, NEW w \in Workers, NEW to, Import(w, to)
  PROVE  /\ pc[w] = "running" /\ pc' = [pc EXCEPT ![w] = to]
         /\ imports' = [imports EXCEPT ![Job(w)] = @ + 1]
         /\ UNCHANGED <<upload, file, task, queue, attempts>>
         /\ \E new \in SyncLogs, ok \in 0 .. Rows[Job(w)] :
              /\ new.status = "COMPLETED"
              /\ new.total = seen[w].total + Rows[Job(w)]
              /\ new.processed = seen[w].processed + ok
              /\ new.failed = seen[w].failed + (Rows[Job(w)] - ok)
              /\ new.processed + new.failed
                   = seen[w].processed + seen[w].failed + Rows[Job(w)]
              /\ new.score \in Quality(new.processed, new.failed)
              /\ log' = [log EXCEPT ![Job(w)] = Flush(log[Job(w)], seen[w], new)]
              /\ seen' = [seen EXCEPT ![w] = new]
<1>0. task[w] \in Messages /\ Job(w) \in Jobs /\ seen[w] \in SyncLogs
  BY MessageParts DEF TypeOK, Job
<1> DEFINE n == Rows[Job(w)]
           counted(ok) == [seen[w] EXCEPT
                             !.status = "COMPLETED", !.completed = TRUE, !.total = @ + n,
                             !.processed = @ + ok, !.failed = @ + (n - ok)]
<1>1. PICK ok \in 0 .. n : \E score \in Quality(counted(ok).processed, counted(ok).failed) :
        LET new == [counted(ok) EXCEPT !.score = score]
        IN  /\ pc[w] = "running" /\ pc' = [pc EXCEPT ![w] = to]
            /\ log' = [log EXCEPT ![Job(w)] = Flush(@, seen[w], new)]
            /\ seen' = [seen EXCEPT ![w] = new]
  BY DEF Import, Goto
<1> DEFINE c == counted(ok)
<1>2. n \in Nat
  BY <1>0, ConstantsAssumption
<1>3. /\ c \in SyncLogs /\ c.status = "COMPLETED" /\ c.total = seen[w].total + n
      /\ c.processed = seen[w].processed + ok /\ c.failed = seen[w].failed + (n - ok)
      /\ c.processed + c.failed = seen[w].processed + seen[w].failed + n
  <2>1. n \in Nat /\ ok \in 0 .. n
    BY <1>2
  <2>2. c = [seen[w] EXCEPT !.status = "COMPLETED", !.completed = TRUE, !.total = @ + n,
                            !.processed = @ + ok, !.failed = @ + (n - ok)]
    OBVIOUS
  <2>3. /\ seen[w].total \in Nat /\ seen[w].processed \in Nat /\ seen[w].failed \in Nat
    BY <1>0 DEF SyncLogs
  <2> HIDE DEF c, n
  <2>4. /\ c.status = "COMPLETED" /\ c.total = seen[w].total + n
        /\ c.processed = seen[w].processed + ok /\ c.failed = seen[w].failed + (n - ok)
    BY <1>0, <2>2 DEF SyncLogs
  <2>5. c.total \in Nat /\ c.processed \in Nat /\ c.failed \in Nat
        /\ c.processed + c.failed = seen[w].processed + seen[w].failed + n
    BY <2>1, <2>3, <2>4
  <2>6. c \in SyncLogs
    <3>1. /\ seen[w].total + n \in Nat /\ seen[w].processed + ok \in Nat
          /\ seen[w].failed + (n - ok) \in Nat
      BY <2>4, <2>5
    <3> QED
      BY <1>0, <2>2, <3>1 DEF SyncLogs, Statuses
  <2> QED
    BY <2>4, <2>5, <2>6
<1> HIDE DEF c
<1>4. PICK score \in Quality(c.processed, c.failed) :
        LET new == [c EXCEPT !.score = score]
        IN  /\ pc[w] = "running" /\ pc' = [pc EXCEPT ![w] = to]
            /\ log' = [log EXCEPT ![Job(w)] = Flush(log[Job(w)], seen[w], new)]
            /\ seen' = [seen EXCEPT ![w] = new]
  BY <1>1 DEF c
<1> DEFINE new == [c EXCEPT !.score = score]
<1>5. /\ new \in SyncLogs /\ new.score = score /\ new.status = c.status
      /\ new.total = c.total /\ new.processed = c.processed /\ new.failed = c.failed
  <2>1. c.processed \in Nat /\ c.failed \in Nat
    BY <1>3 DEF SyncLogs
  <2>2. score \in ScoreValues
    BY <1>4, <2>1, QualityType
  <2> QED
    BY <1>3, <2>2, ScoredLogType
<1>6. pc' = [pc EXCEPT ![w] = to] /\ seen' = [seen EXCEPT ![w] = new] /\ pc[w] = "running"
      /\ log' = [log EXCEPT ![Job(w)] = Flush(log[Job(w)], seen[w], new)]
  BY <1>4
<1> HIDE DEF new
<1>7. imports' = [imports EXCEPT ![Job(w)] = @ + 1]
      /\ UNCHANGED <<upload, file, task, queue, attempts>>
  BY DEF Import, broker
<1>8. new.score \in Quality(new.processed, new.failed)
  BY <1>4, <1>5
<1> QED
  BY <1>3, <1>5, <1>6, <1>7, <1>8

(* The import of any number of good and bad rows keeps the types. *)
LEMMA ImportType ==
  ASSUME TypeOK, NEW w \in Workers, NEW to \in {"imported", "failing"},
         Import(w, to), faults' \in 0 .. MaxFaults,
         once' \in BOOLEAN, calm' \in BOOLEAN
  PROVE  TypeOK'
<1>0. Job(w) \in Jobs
  BY MessageParts DEF TypeOK, Job
<1>1. PICK new \in SyncLogs :
        /\ log' = [log EXCEPT ![Job(w)] = Flush(log[Job(w)], seen[w], new)]
        /\ seen' = [seen EXCEPT ![w] = new]
  BY ImportStep
<1>2. Flush(log[Job(w)], seen[w], new) \in SyncLogs
  BY <1>0, FlushType DEF TypeOK
<1> QED
  BY <1>0, <1>1, <1>2, ImportStep DEF TypeOK

(* Every variable keeps its type: a row's counters stay numbers, a retry   *)
(* count never passes MaxRetries, and the fault budget is kept.            *)
THEOREM TypeCorrect == Spec => []TypeOK
<1> USE ConstantsAssumption
<1>1. Init => TypeOK
  <2> SUFFICES ASSUME Init PROVE TypeOK
    OBVIOUS
  <2>1. NoLog \in SyncLogs
    BY DEF NoLog, SyncLogs, Statuses, NoScore, ScoreValues
  <2>2. NoMessage \in Messages
    BY NoMessageType
  <2> QED
    BY <2>1, <2>2 DEF Init, TypeOK
<1>2. TypeOK /\ [Next]_vars => TypeOK'
  <2> SUFFICES ASSUME TypeOK, [Next]_vars PROVE TypeOK'
    OBVIOUS
  <2> USE DEF TypeOK, stored, broker, worker, environment, Goto, Request, Job, Fault
  <2>0. NoLog \in SyncLogs /\ NewLog \in SyncLogs /\ NoMessage \in Messages
    BY NewLogType, NoMessageType
  <2>1. ASSUME NEW j \in Jobs, ApiStep(j) \/ RejectUpload(j) \/ AbortUpload(j)
        PROVE  TypeOK'
    <3>1. CASE SaveFile(j)
      BY <3>1 DEF SaveFile
    <3>2. CASE CommitLog(j)
      BY <3>2, <2>0 DEF CommitLog
    <3>3. CASE Enqueue(j)
      <4>1. [job |-> j, retries |-> 0] \in Messages
        BY DEF Messages
      <4> QED
        BY <3>3, <4>1 DEF Enqueue
    <3>4. CASE RejectUpload(j)
      BY <3>4 DEF RejectUpload
    <3>5. CASE AbortUpload(j)
      BY <3>5 DEF AbortUpload
    <3> QED
      BY <2>1, <3>1, <3>2, <3>3, <3>4, <3>5 DEF ApiStep
  <2>2. ASSUME NEW w \in Workers, WorkerStep(w) PROVE TypeOK'
    <3>0. task[w] \in Messages /\ Job(w) \in Jobs
      BY MessageParts
    <3>1. ASSUME NEW m \in Messages, Receive(w, m) PROVE TypeOK'
      <4>1. m.job \in Jobs /\ queue[m] - 1 \in Nat
        BY <3>1, MessageParts DEF Receive
      <4> QED
        BY <3>1, <4>1 DEF Receive
    <3>2. CASE Load(w)
      BY <3>0, <3>2 DEF Load
    <3>3. CASE MarkRunning(w)
      <4> DEFINE new == [seen[w] EXCEPT !.status = "RUNNING", !.started = TRUE]
      <4>1. new \in SyncLogs
        BY RunningLogType
      <4>2. Flush(log[Job(w)], seen[w], new) \in SyncLogs
        BY <3>0, <4>1, FlushType
      <4> QED
        BY <3>0, <3>3, <4>1, <4>2 DEF MarkRunning
    <3>4. CASE Complete(w)
      BY <3>4, ImportType DEF Complete
    <3>5. CASE Fatal(w)
      BY <3>5 DEF Fatal
    <3>6. CASE MarkFailed(w)
      BY <3>0, <3>6, FailedLogType DEF MarkFailed
    <3>7. CASE DeleteFile(w)
      BY <3>0, <3>7 DEF DeleteFile
    <3>8. CASE GiveUp(w)
      BY <3>0, <3>8 DEF GiveUp
    <3>9. CASE PublishRetry(w)
      <4>1. [job |-> Job(w), retries |-> task[w].retries + 1] \in Messages
        BY <3>0, <3>9, MessageParts DEF PublishRetry
      <4> QED
        BY <3>0, <3>9, <4>1 DEF PublishRetry
    <3>10. CASE Acknowledge(w)
      BY <2>0, <3>10 DEF Acknowledge, Release
    <3> QED
      BY <2>2, <3>1, <3>2, <3>3, <3>4, <3>5, <3>6, <3>7, <3>8, <3>9, <3>10 DEF WorkerStep
  <2>3. ASSUME NEW w \in Workers, WorkerFault(w) PROVE TypeOK'
    <3>1. CASE LoseConnection(w)
      BY <3>1 DEF LoseConnection
    <3>2. CASE LoseCommit(w)
      BY <3>2, ImportType DEF LoseCommit
    <3>3. CASE DeleteFails(w)
      BY <3>3 DEF DeleteFails
    <3>4. CASE GiveUpFails(w)
      <4>1. faults' \in 0 .. MaxFaults /\ once' \in BOOLEAN /\ calm' \in BOOLEAN
        <5>1. ASSUME NEW kind, Fault(kind)
              PROVE  faults' \in 0 .. MaxFaults /\ once' \in BOOLEAN /\ calm' \in BOOLEAN
          BY <5>1
        <5> QED
          BY <3>4, <5>1 DEF GiveUpFails
      <4> QED
        BY <3>4, <4>1 DEF GiveUpFails
    <3>5. CASE PublishFails(w)
      BY <3>5 DEF PublishFails
    <3>6. CASE KillWorker(w)
      BY <3>6, <2>0 DEF KillWorker, Release
    <3>7. CASE Redeliver(w)
      BY <3>7 DEF Redeliver
    <3> QED
      BY <2>3, <3>1, <3>2, <3>3, <3>4, <3>5, <3>6, <3>7 DEF WorkerFault
  <2>4. CASE CrashHost
    BY <2>4, <2>0, HeldCount DEF CrashHost, ReleaseAll
  <2>5. CASE UNCHANGED vars
    BY <2>5 DEF vars
  <2> QED
    BY <2>1, <2>2, <2>3, <2>4, <2>5 DEF Next
<1> QED
  BY <1>1, <1>2, PTL DEF Spec

-----------------------------------------------------------------------------
(* No step takes a committed sync_logs row away. *)
LEMMA RowStays ==
  ASSUME TypeOK, [Next]_vars, NEW j \in Jobs, log[j].status # "NONE"
  PROVE  log'[j].status # "NONE"
<1> USE DEF stored
<1>1. ASSUME NEW i \in Jobs, ApiStep(i) \/ RejectUpload(i) \/ AbortUpload(i)
      PROVE  log'[j].status # "NONE"
  <2>1. CASE CommitLog(i)
    BY <2>1 DEF CommitLog, NewLog, NoLog, TypeOK
  <2> QED
    BY <1>1, <2>1 DEF ApiStep, SaveFile, Enqueue, RejectUpload, AbortUpload
<1>2. ASSUME NEW w \in Workers, WorkerStep(w) \/ WorkerFault(w)
      PROVE  log'[j].status # "NONE"
  <2>0. Job(w) \in Jobs /\ seen[w] \in SyncLogs /\ log[Job(w)] \in SyncLogs
    BY MessageParts DEF TypeOK, Job
  <2>1. CASE MarkRunning(w)
    <3> DEFINE new == [seen[w] EXCEPT !.status = "RUNNING", !.started = TRUE]
    <3>1. new \in SyncLogs /\ new.status = "RUNNING"
      BY <2>0, RunningLogType DEF SyncLogs
    <3>2. log' = [log EXCEPT ![Job(w)] = Flush(log[Job(w)], seen[w], new)]
      BY <2>1 DEF MarkRunning
    <3> HIDE DEF new
    <3> QED
      BY <2>0, <3>1, <3>2, FlushStatus DEF TypeOK
  <2>2. ASSUME NEW to, Import(w, to) PROVE log'[j].status # "NONE"
    <3>1. PICK new \in SyncLogs :
            new.status = "COMPLETED"
            /\ log' = [log EXCEPT ![Job(w)] = Flush(log[Job(w)], seen[w], new)]
      BY <2>2, ImportStep
    <3> QED
      BY <2>0, <3>1, FlushStatus DEF TypeOK
  <2>3. CASE MarkFailed(w)
    BY <2>0, <2>3 DEF MarkFailed, TypeOK, SyncLogs
  <2> QED
    BY <1>2, <2>1, <2>2, <2>3 DEF WorkerStep, WorkerFault, Receive, Load, Complete, Fatal,
       DeleteFile, GiveUp, PublishRetry, Acknowledge, LoseConnection, LoseCommit,
       DeleteFails, GiveUpFails, PublishFails, KillWorker, Redeliver
<1> QED
  BY <1>1, <1>2 DEF Next, CrashHost, vars

(* Every message names a committed row: the upload route publishes after   *)
(* start_sync has committed, and retries keep the job.                     *)
THEOREM QueuedIsCommittedHolds == Spec => []QueuedIsCommitted
<1>1. Init => CommitInv
  BY DEF Init, CommitInv, QueuedIsCommitted, AcceptedIsCommitted
<1>2. TypeOK /\ CommitInv /\ [Next]_vars => CommitInv'
  <2> SUFFICES ASSUME TypeOK, CommitInv, [Next]_vars PROVE CommitInv'
    OBVIOUS
  <2> USE DEF CommitInv, QueuedIsCommitted, AcceptedIsCommitted
  <2> USE DEF stored, broker, worker, environment, Goto, Request, Job
  <2>0. \A j \in Jobs : log[j].status # "NONE" => log'[j].status # "NONE"
    BY RowStays
  <2>1. ASSUME NEW j \in Jobs, ApiStep(j) \/ RejectUpload(j) \/ AbortUpload(j)
        PROVE  CommitInv'
    <3>1. CASE SaveFile(j) \/ RejectUpload(j) \/ AbortUpload(j)
      BY <3>1, <2>0 DEF SaveFile, RejectUpload, AbortUpload, TypeOK
    <3>2. CASE CommitLog(j)
      <4>1. log'[j].status = "PENDING"
        BY <3>2 DEF CommitLog, NewLog, NoLog, TypeOK
      <4> QED
        BY <3>2, <4>1, <2>0, MessageParts DEF CommitLog, TypeOK
    <3>3. CASE Enqueue(j)
      BY <3>3, <2>0, MessageParts, ConstantsAssumption DEF Enqueue, TypeOK
    <3> QED
      BY <2>1, <3>1, <3>2, <3>3 DEF ApiStep
  <2>2. ASSUME NEW w \in Workers, WorkerStep(w) \/ WorkerFault(w) PROVE CommitInv'
    <3>0. task[w] \in Messages /\ Job(w) \in Jobs
      BY MessageParts DEF TypeOK
    <3>1. ASSUME NEW m \in Messages, Receive(w, m) PROVE CommitInv'
      BY <3>1, <2>0, MessageParts DEF Receive, TypeOK
    <3>2. CASE PublishRetry(w)
      <4>1. [job |-> Job(w), retries |-> task[w].retries + 1].job = Job(w)
        OBVIOUS
      <4> QED
        BY <3>0, <3>2, <4>1, <2>0, MessageParts DEF PublishRetry, TypeOK
    <3>3. CASE Redeliver(w)
      BY <3>0, <3>3, <2>0, MessageParts DEF Redeliver, TypeOK
    <3>4. ASSUME NEW to, Import(w, to) PROVE CommitInv'
      <4>1. /\ pc[w] = "running" /\ pc' = [pc EXCEPT ![w] = to]
            /\ UNCHANGED <<upload, task, queue>>
        BY <3>4, ImportStep
      <4> QED
        BY <3>0, <4>1, <2>0, MessageParts DEF TypeOK
    <3>5. CASE MarkRunning(w)
      BY <3>0, <3>5, <2>0, MessageParts DEF MarkRunning, TypeOK
    <3>6. CASE Load(w) \/ Fatal(w) \/ MarkFailed(w) \/ DeleteFile(w) \/ GiveUp(w)
      BY <3>0, <3>6, <2>0, MessageParts
         DEF Load, Fatal, MarkFailed, DeleteFile, GiveUp, TypeOK
    <3>7. CASE LoseConnection(w) \/ DeleteFails(w) \/ GiveUpFails(w) \/ PublishFails(w)
      BY <3>0, <3>7, <2>0, MessageParts
         DEF LoseConnection, DeleteFails, GiveUpFails, PublishFails, TypeOK
    <3>8. CASE Acknowledge(w) \/ KillWorker(w)
      BY <3>0, <3>8, <2>0, Quits, MessageParts DEF TypeOK
    <3> QED
      BY <2>2, <3>1, <3>2, <3>3, <3>4, <3>5, <3>6, <3>7, <3>8
         DEF WorkerStep, WorkerFault, Complete, LoseCommit
  <2>3. CASE CrashHost
    <3>1. ASSUME NEW m \in Messages, queue'[m] > 0 PROVE log[m.job].status # "NONE"
      <4>1. CASE Held(m) = {}
        BY <2>3, <3>1, <4>1, HeldCount DEF CrashHost, ReleaseAll, TypeOK
      <4>2. CASE Held(m) # {}
        BY <4>2 DEF Held
      <4> QED
        BY <4>1, <4>2
    <3> QED
      BY <2>3, <3>1, <2>0, MessageParts DEF CrashHost, ReleaseAll, TypeOK
  <2>4. CASE UNCHANGED vars
    BY <2>4 DEF vars
  <2> QED
    BY <2>1, <2>2, <2>3, <2>4 DEF Next
<1> QED
  BY <1>1, <1>2, TypeCorrect, PTL DEF Spec, CommitInv

(* Whatever faults happen, an upload's file is gone only after a committed *)
(* import or after 1 + MaxRetries attempts.  The invariant counts attempts *)
(* along the retries: a message with r retries has r attempts behind it.   *)
THEOREM DiscardJustifiedHolds == Spec => []DiscardJustified
<1>1. Init => DiscardInv
  BY ConstantsAssumption, MessageParts
     DEF Init, DiscardInv, DiscardJustified, Lineage, ImportedFirst
<1>2. TypeOK /\ DiscardInv /\ [Next]_vars => DiscardInv'
  <2> SUFFICES ASSUME TypeOK, DiscardInv, [Next]_vars PROVE DiscardInv'
    OBVIOUS
  <2> USE DEF DiscardInv, DiscardJustified, Lineage, ImportedFirst
  <2> USE DEF stored, broker, worker, environment, Goto, Request, Job
  <2>1. ASSUME NEW j \in Jobs, ApiStep(j) \/ RejectUpload(j) \/ AbortUpload(j)
        PROVE  DiscardInv'
    <3>1. CASE SaveFile(j) \/ RejectUpload(j) \/ AbortUpload(j) \/ CommitLog(j)
      <4>1. CASE SaveFile(j)
        BY <4>1 DEF SaveFile, TypeOK
      <4>2. CASE RejectUpload(j)
        BY <4>2 DEF RejectUpload, TypeOK
      <4>3. CASE AbortUpload(j)
        BY <4>3 DEF AbortUpload, TypeOK
      <4>4. CASE CommitLog(j)
        BY <4>4 DEF CommitLog, TypeOK
      <4> QED
        BY <3>1, <4>1, <4>2, <4>3, <4>4
    <3>2. CASE Enqueue(j)
      BY <3>2, MessageParts, ConstantsAssumption DEF Enqueue, TypeOK
    <3> QED
      BY <2>1, <3>1, <3>2 DEF ApiStep
  <2>2. ASSUME NEW w \in Workers, WorkerStep(w) \/ WorkerFault(w) PROVE DiscardInv'
    <3>0. task[w] \in Messages /\ Job(w) \in Jobs /\ task[w].retries \in 0 .. MaxRetries
      BY MessageParts DEF TypeOK
    <3>1. ASSUME NEW m \in Messages, Receive(w, m) PROVE DiscardInv'
      <4>1. m.job \in Jobs /\ m.retries \in 0 .. MaxRetries /\ attempts[m.job] >= m.retries
        BY <3>1, MessageParts DEF Receive
      <4>2. \A j \in Jobs : attempts'[j] \in Nat /\ attempts'[j] >= attempts[j]
        BY <3>1, <4>1 DEF Receive, TypeOK
      <4>3. attempts'[m.job] > m.retries
        BY <3>1, <4>1 DEF Receive, TypeOK
      <4>4. DiscardJustified'
        BY <3>1, <4>2, ConstantsAssumption DEF Receive, TypeOK
      <4>5. \A n \in Messages : queue'[n] > 0 => queue[n] > 0
        BY <3>1 DEF Receive, TypeOK
      <4>6. \A n \in Messages : queue'[n] > 0 => attempts'[n.job] >= n.retries
        BY <4>2, <4>5, MessageParts DEF TypeOK
      <4>7. \A v \in Workers : pc'[v] # "idle" => attempts'[task'[v].job] > task'[v].retries
        BY <3>1, <4>2, <4>3, MessageParts DEF Receive, TypeOK
      <4> QED
        BY <3>1, <4>4, <4>6, <4>7 DEF Receive, TypeOK
    <3>2. CASE PublishRetry(w)
      <4> DEFINE next == [job |-> Job(w), retries |-> task[w].retries + 1]
      <4>1. next \in Messages /\ next.job = Job(w) /\ next.retries = task[w].retries + 1
        <5>1. task[w].retries + 1 \in 0 .. MaxRetries
          BY <3>0, <3>2, ConstantsAssumption DEF PublishRetry
        <5> QED
          BY <3>0, <5>1, MessageParts
      <4>2. attempts[Job(w)] >= next.retries
        BY <3>0, <3>2, <4>1 DEF PublishRetry, TypeOK
      <4>3. queue' = [queue EXCEPT ![next] = @ + 1]
        BY <3>2 DEF PublishRetry
      <4> HIDE DEF next
      <4> QED
        BY <3>0, <3>2, <4>1, <4>2, <4>3, MessageParts DEF PublishRetry, TypeOK
    <3>3. CASE Redeliver(w)
      BY <3>0, <3>3, MessageParts DEF Redeliver, TypeOK
    <3>4. ASSUME NEW to, Import(w, to) PROVE DiscardInv'
      <4>1. /\ pc[w] = "running" /\ pc' = [pc EXCEPT ![w] = to]
            /\ imports' = [imports EXCEPT ![Job(w)] = @ + 1]
            /\ UNCHANGED <<upload, file, task, queue, attempts>>
        BY <3>4, ImportStep
      <4>2. imports'[Job(w)] > 0 /\ \A j \in Jobs : imports[j] > 0 => imports'[j] > 0
        BY <3>0, <4>1 DEF TypeOK
      <4> QED
        BY <3>0, <4>1, <4>2, MessageParts DEF TypeOK
    <3>5. CASE GiveUp(w)
      <4>1. attempts[Job(w)] > MaxRetries
        BY <3>0, <3>5, ConstantsAssumption DEF GiveUp, TypeOK
      <4> QED
        BY <3>0, <3>5, <4>1, MessageParts DEF GiveUp, TypeOK
    <3>6. CASE DeleteFile(w)
      BY <3>0, <3>6, MessageParts DEF DeleteFile, TypeOK
    <3>7. CASE Load(w) \/ MarkRunning(w) \/ Fatal(w) \/ MarkFailed(w)
      BY <3>0, <3>7, MessageParts DEF Load, MarkRunning, Fatal, MarkFailed, TypeOK
    <3>8. CASE LoseConnection(w) \/ DeleteFails(w) \/ GiveUpFails(w) \/ PublishFails(w)
      BY <3>0, <3>8, MessageParts
         DEF LoseConnection, DeleteFails, GiveUpFails, PublishFails, TypeOK
    <3>9. CASE Acknowledge(w) \/ KillWorker(w)
      <4>1. /\ pc' = [pc EXCEPT ![w] = "idle"]
            /\ task' = [task EXCEPT ![w] = NoMessage]
            /\ UNCHANGED <<upload, file, imports, queue, attempts>>
        BY <3>9, Quits
      <4>2. \A v \in Workers : pc'[v] # "idle" => pc[v] # "idle" /\ task'[v] = task[v]
        BY <4>1 DEF TypeOK
      <4> QED
        BY <4>1, <4>2
    <3> QED
      BY <2>2, <3>1, <3>2, <3>3, <3>4, <3>5, <3>6, <3>7, <3>8, <3>9
         DEF WorkerStep, WorkerFault, Complete, LoseCommit
  <2>3. CASE CrashHost
    <3>1. ASSUME NEW m \in Messages, queue'[m] > 0 PROVE attempts[m.job] >= m.retries
      <4>1. CASE Held(m) = {}
        BY <2>3, <3>1, <4>1, HeldCount DEF CrashHost, ReleaseAll, TypeOK
      <4>2. CASE Held(m) # {}
        BY <4>2, MessageParts DEF Held, TypeOK
      <4> QED
        BY <4>1, <4>2
    <3> QED
      BY <2>3, <3>1, MessageParts DEF CrashHost, ReleaseAll, TypeOK
  <2>4. CASE UNCHANGED vars
    BY <2>4 DEF vars
  <2> QED
    BY <2>1, <2>2, <2>3, <2>4 DEF Next
<1> QED
  BY <1>1, <1>2, TypeCorrect, PTL DEF Spec, DiscardInv

-----------------------------------------------------------------------------
(* Without a crash or an expired visibility timeout, the executions of a   *)
(* job are strictly sequential: the retry is published when its attempt is *)
(* over, and only the upload route publishes a first message.              *)
LEMMA SingleInvariant == Spec => [](once => SingleInv)
<1>1. Init => SingleInv
  BY DEF Init, SingleInv, OneDelivery, UnqueuedUntilAnswered, Queued, Attempted, Active
<1>2. once' /\ TypeOK /\ SingleInv /\ [Next]_vars => SingleInv'
  <2> SUFFICES ASSUME once', TypeOK, SingleInv, [Next]_vars PROVE SingleInv'
    OBVIOUS
  <2> USE DEF SingleInv, OneDelivery, UnqueuedUntilAnswered, Queued, Attempted, Active
  <2> USE DEF stored, broker, worker, environment, Goto, Request, Job
  <2>1. ASSUME NEW j \in Jobs, ApiStep(j) \/ RejectUpload(j) \/ AbortUpload(j)
        PROVE  SingleInv'
    <3>1. CASE SaveFile(j) \/ RejectUpload(j) \/ AbortUpload(j) \/ CommitLog(j)
      <4>1. CASE SaveFile(j)
        BY <4>1 DEF SaveFile, TypeOK
      <4>2. CASE RejectUpload(j)
        BY <4>2 DEF RejectUpload, TypeOK
      <4>3. CASE AbortUpload(j)
        BY <4>3 DEF AbortUpload, TypeOK
      <4>4. CASE CommitLog(j)
        BY <4>4 DEF CommitLog, TypeOK
      <4> QED
        BY <3>1, <4>1, <4>2, <4>3, <4>4
    <3>2. CASE Enqueue(j)
      <4> DEFINE first == [job |-> j, retries |-> 0]
      <4>1. first \in Messages /\ first.job = j
        BY MessageParts, ConstantsAssumption
      <4>2. /\ queue' = [queue EXCEPT ![first] = @ + 1]
            /\ upload' = [upload EXCEPT ![j] = "answered"]
            /\ upload[j] = "committed" /\ UNCHANGED <<pc, task>>
        BY <3>2 DEF Enqueue
      <4> HIDE DEF first
      <4>3. \A m \in Messages : m.job = j => queue[m] = 0
        BY <4>2 DEF TypeOK
      <4> QED
        BY <4>1, <4>2, <4>3 DEF TypeOK
    <3> QED
      BY <2>1, <3>1, <3>2 DEF ApiStep
  <2>2. ASSUME NEW w \in Workers, WorkerStep(w) \/ WorkerFault(w) PROVE SingleInv'
    <3>0. task[w] \in Messages /\ Job(w) \in Jobs /\ task[w].retries \in 0 .. MaxRetries
      BY MessageParts DEF TypeOK
    <3>1. ASSUME NEW m \in Messages, Receive(w, m) PROVE SingleInv'
      <4>0. queue[m] = 1
        BY <3>1 DEF Receive
      <4>1. /\ queue[m] = 1 /\ queue' = [queue EXCEPT ![m] = 0]
            /\ pc[w] = "idle" /\ pc' = [pc EXCEPT ![w] = "received"]
            /\ task' = [task EXCEPT ![w] = m] /\ UNCHANGED upload
        BY <3>1, <4>0 DEF Receive
      <4>2. \A n \in Messages : n.job = m.job => queue'[n] = 0
        BY <4>1 DEF TypeOK
      <4>3. \A v \in Workers : Active(v) => Job(v) # m.job
        BY <4>1
      <4>4. upload[m.job] = "answered"
        BY <4>1, MessageParts
      <4> QED
        BY <4>1, <4>2, <4>3, <4>4 DEF TypeOK
    <3>2. CASE PublishRetry(w)
      <4> DEFINE next == [job |-> Job(w), retries |-> task[w].retries + 1]
      <4>1. next \in Messages /\ next.job = Job(w)
        <5>1. task[w].retries + 1 \in 0 .. MaxRetries
          BY <3>0, <3>2, ConstantsAssumption DEF PublishRetry
        <5> QED
          BY <3>0, <5>1, MessageParts
      <4>2. /\ queue' = [queue EXCEPT ![next] = @ + 1]
            /\ pc[w] = "raised" /\ pc' = [pc EXCEPT ![w] = "done"]
            /\ UNCHANGED <<task, upload>>
        BY <3>2 DEF PublishRetry
      <4> HIDE DEF next
      <4>3. \A m \in Messages : m.job = Job(w) => queue[m] = 0
        BY <4>2 DEF TypeOK
      <4> QED
        BY <3>0, <4>1, <4>2, <4>3 DEF TypeOK
    <3>3. CASE Redeliver(w)
      BY <3>3 DEF Redeliver, Fault, Repeating
    <3>4. ASSUME NEW to \in {"imported", "failing"}, Import(w, to) PROVE SingleInv'
      <4>1. /\ pc[w] = "running" /\ pc' = [pc EXCEPT ![w] = to]
            /\ UNCHANGED <<upload, task, queue>>
        BY <3>4, ImportStep
      <4> QED
        BY <3>0, <4>1 DEF TypeOK
    <3>5. CASE Load(w) \/ MarkRunning(w) \/ Fatal(w) \/ MarkFailed(w)
               \/ GiveUp(w) \/ DeleteFile(w)
      <4>1. /\ UNCHANGED <<upload, task, queue>>
            /\ \A v \in Workers : Active(v)' => Active(v)
        BY <3>5 DEF Load, MarkRunning, Fatal, MarkFailed, GiveUp, DeleteFile, TypeOK
      <4> QED
        BY <4>1
    <3>6. CASE LoseConnection(w) \/ DeleteFails(w) \/ GiveUpFails(w) \/ PublishFails(w)
      BY <3>0, <3>6 DEF LoseConnection, DeleteFails, GiveUpFails, PublishFails, TypeOK
    <3>7. CASE Acknowledge(w) \/ KillWorker(w)
      BY <3>0, <3>7, Quits DEF TypeOK
    <3> QED
      BY <2>2, <3>1, <3>2, <3>3, <3>4, <3>5, <3>6, <3>7
         DEF WorkerStep, WorkerFault, Complete, LoseCommit
  <2>3. CASE CrashHost
    BY <2>3 DEF CrashHost, Fault, Repeating
  <2>4. CASE UNCHANGED vars
    BY <2>4 DEF vars
  <2> QED
    BY <2>1, <2>2, <2>3, <2>4 DEF Next
<1>3. TypeOK /\ (once => SingleInv) /\ [Next]_vars => (once => SingleInv)'
  BY <1>2, HistoryWas
<1> QED
  BY <1>1, <1>3, TypeCorrect, PTL DEF Spec

(* No two executions of a job overlap and no retry of it waits while one   *)
(* runs, as long as the environment repeats no delivery.                   *)
THEOREM SingleDeliveryHolds == Spec => []SingleDelivery
<1>1. (once => SingleInv) => SingleDelivery
  BY DEF SingleInv, SingleDelivery
<1> QED
  BY <1>1, SingleInvariant, PTL

(* A file that an attempt, running or still to come, is going to read is   *)
(* there: whoever deletes it is the only attempt left.                     *)
LEMMA RetainInvariant == Spec => [](once => RetainInv)
<1>1. Init => RetainInv
  BY DEF Init, RetainInv, FileKept, StoredUntilAnswered, Queued, Attempted, Active
<1>2. once' /\ TypeOK /\ SingleInv /\ RetainInv /\ [Next]_vars => RetainInv'
  <2> SUFFICES ASSUME once', TypeOK, SingleInv, RetainInv, [Next]_vars
               PROVE  RetainInv'
    OBVIOUS
  <2> USE DEF RetainInv, FileKept, StoredUntilAnswered, Queued, Attempted, Active
  <2> USE DEF stored, broker, worker, environment, Goto, Request, Job
  <2>1. ASSUME NEW j \in Jobs, ApiStep(j) \/ RejectUpload(j) \/ AbortUpload(j)
        PROVE  RetainInv'
    <3>1. CASE SaveFile(j) \/ RejectUpload(j) \/ AbortUpload(j) \/ CommitLog(j)
      <4>1. CASE SaveFile(j)
        BY <4>1 DEF SaveFile, TypeOK
      <4>2. CASE RejectUpload(j)
        BY <4>2 DEF RejectUpload, TypeOK
      <4>3. CASE AbortUpload(j)
        BY <4>3 DEF AbortUpload, TypeOK
      <4>4. CASE CommitLog(j)
        BY <4>4 DEF CommitLog, TypeOK
      <4> QED
        BY <3>1, <4>1, <4>2, <4>3, <4>4
    <3>2. CASE Enqueue(j)
      <4> DEFINE first == [job |-> j, retries |-> 0]
      <4>1. first \in Messages /\ first.job = j
        BY MessageParts, ConstantsAssumption
      <4>2. /\ queue' = [queue EXCEPT ![first] = @ + 1]
            /\ upload' = [upload EXCEPT ![j] = "answered"]
            /\ upload[j] = "committed" /\ UNCHANGED <<pc, task, file>>
        BY <3>2 DEF Enqueue
      <4> HIDE DEF first
      <4> QED
        BY <4>1, <4>2 DEF TypeOK
    <3> QED
      BY <2>1, <3>1, <3>2 DEF ApiStep
  <2>2. ASSUME NEW w \in Workers, WorkerStep(w) \/ WorkerFault(w) PROVE RetainInv'
    <3>0. task[w] \in Messages /\ Job(w) \in Jobs /\ task[w].retries \in 0 .. MaxRetries
      BY MessageParts DEF TypeOK
    <3>1. ASSUME NEW m \in Messages, Receive(w, m) PROVE RetainInv'
      <4>1. m.job \in Jobs /\ file[m.job]
        BY <3>1, MessageParts DEF Receive
      <4>2. \A n \in Messages : queue'[n] > 0 => queue[n] > 0
        BY <3>1 DEF Receive, TypeOK
      <4> QED
        BY <3>1, <4>1, <4>2 DEF Receive, TypeOK
    <3>2. CASE PublishRetry(w)
      <4> DEFINE next == [job |-> Job(w), retries |-> task[w].retries + 1]
      <4>1. next \in Messages /\ next.job = Job(w)
        <5>1. task[w].retries + 1 \in 0 .. MaxRetries
          BY <3>0, <3>2, ConstantsAssumption DEF PublishRetry
        <5> QED
          BY <3>0, <5>1, MessageParts
      <4>2. /\ queue' = [queue EXCEPT ![next] = @ + 1]
            /\ pc[w] = "raised" /\ pc' = [pc EXCEPT ![w] = "done"]
            /\ UNCHANGED <<task, upload, file>>
        BY <3>2 DEF PublishRetry
      <4> HIDE DEF next
      <4> QED
        BY <3>0, <4>1, <4>2 DEF TypeOK
    <3>3. CASE Redeliver(w)
      BY <3>3 DEF Redeliver, Fault, Repeating
    <3>4. ASSUME NEW to \in {"imported", "failing"}, Import(w, to) PROVE RetainInv'
      <4>1. /\ pc[w] = "running" /\ pc' = [pc EXCEPT ![w] = to]
            /\ UNCHANGED <<upload, task, queue, file>>
        BY <3>4, ImportStep
      <4> QED
        BY <3>0, <4>1 DEF TypeOK
    <3>5. CASE GiveUp(w) \/ DeleteFile(w)
      <4>1. /\ Active(w) /\ pc' = [pc EXCEPT ![w] = "done"]
            /\ file' = [file EXCEPT ![Job(w)] = FALSE]
            /\ UNCHANGED <<upload, task, queue>>
        BY <3>5 DEF GiveUp, DeleteFile
      <4>2. \A m \in Messages : queue[m] > 0 => m.job # Job(w)
        BY <4>1 DEF SingleInv, OneDelivery
      <4>3. \A v \in Workers : Active(v) /\ Job(v) = Job(w) => v = w
        BY <4>1 DEF SingleInv, OneDelivery
      <4>4. upload[Job(w)] = "answered"
        BY <3>0, <4>1 DEF SingleInv, UnqueuedUntilAnswered
      <4> QED
        BY <3>0, <4>1, <4>2, <4>3, <4>4 DEF TypeOK
    <3>6. CASE Load(w) \/ MarkRunning(w) \/ Fatal(w) \/ MarkFailed(w)
      <4>1. /\ UNCHANGED <<upload, task, queue, file>>
            /\ \A v \in Workers : Active(v)' => Active(v)
        <5>1. CASE Load(w)
          BY <5>1 DEF Load, TypeOK
        <5>2. CASE MarkRunning(w)
          BY <5>2 DEF MarkRunning, TypeOK
        <5>3. CASE Fatal(w) \/ MarkFailed(w)
          BY <5>3 DEF Fatal, MarkFailed, TypeOK
        <5> QED
          BY <3>6, <5>1, <5>2, <5>3
      <4> QED
        BY <4>1
    <3>7. CASE LoseConnection(w) \/ DeleteFails(w) \/ GiveUpFails(w) \/ PublishFails(w)
      <4>1. /\ UNCHANGED <<upload, task, queue, file>>
            /\ \A v \in Workers : Active(v)' => Active(v)
        BY <3>7 DEF LoseConnection, DeleteFails, GiveUpFails, PublishFails, TypeOK
      <4> QED
        BY <4>1
    <3>8. CASE Acknowledge(w) \/ KillWorker(w)
      BY <3>0, <3>8, Quits DEF TypeOK
    <3> QED
      BY <2>2, <3>1, <3>2, <3>3, <3>4, <3>5, <3>6, <3>7, <3>8
         DEF WorkerStep, WorkerFault, Complete, LoseCommit
  <2>3. CASE CrashHost
    BY <2>3 DEF CrashHost, Fault, Repeating
  <2>4. CASE UNCHANGED vars
    BY <2>4 DEF vars
  <2> QED
    BY <2>1, <2>2, <2>3, <2>4 DEF Next
<1>3. TypeOK /\ (once => SingleInv) /\ (once => RetainInv) /\ [Next]_vars
        => (once => RetainInv)'
  BY <1>2, HistoryWas
<1> QED
  BY <1>1, <1>3, SingleInvariant, TypeCorrect, PTL DEF Spec

(* Until a delivery is repeated, an attempt that may still read the file,  *)
(* running or after a retry, finds it.                                     *)
THEOREM RetainedForRetryHolds == Spec => []RetainedForRetry
<1>1. (once => RetainInv) => RetainedForRetry
  BY DEF RetainInv, RetainedForRetry
<1> QED
  BY <1>1, RetainInvariant, PTL

(* The retries of a job account for its rows exactly once per committed    *)
(* import: the session that writes the counters holds the current row.     *)
LEMMA AccountsWhenWritten ==
  ASSUME TypeOK, CountedOnce, NEW k \in Jobs, NEW l, NEW n,
         log' = [log EXCEPT ![k] = l], imports' = [imports EXCEPT ![k] = n],
         Accounts(l, Rows[k], n)
  PROVE  CountedOnce'
<1> SUFFICES ASSUME NEW j \in Jobs PROVE Accounts(log'[j], Rows[j], imports'[j])
  BY DEF CountedOnce
<1>1. log'[k] = l /\ imports'[k] = n
  BY DEF TypeOK
<1>2. j # k => log'[j] = log[j] /\ imports'[j] = imports[j]
  BY DEF TypeOK
<1> QED
  BY <1>1, <1>2 DEF CountedOnce

LEMMA AccountInvariant == Spec => [](once => AccountInv)
<1>1. Init => AccountInv
  <2>1. \A n \in Nat : n * 0 = 0
    OBVIOUS
  <2> QED
    BY <2>1, ConstantsAssumption
       DEF Init, AccountInv, CountedOnce, Accounts, SessionFresh, NotImportedUntilCommitted,
           NoLog
<1>2. once' /\ TypeOK /\ SingleInv /\ AccountInv /\ [Next]_vars => AccountInv'
  <2> SUFFICES ASSUME once', TypeOK, SingleInv, AccountInv, [Next]_vars
               PROVE  AccountInv'
    OBVIOUS
  <2> USE DEF AccountInv, CountedOnce, SessionFresh, NotImportedUntilCommitted
  <2> USE DEF stored, broker, worker, environment, Goto, Request, Job
  <2>0. ASSUME NEW v \in Workers, NEW w \in Workers, Active(v), Active(w), Job(v) = Job(w)
        PROVE  v = w
    BY <2>0 DEF SingleInv, OneDelivery
  <2>1. ASSUME NEW j \in Jobs, ApiStep(j) \/ RejectUpload(j) \/ AbortUpload(j)
        PROVE  AccountInv'
    <3>1. CASE SaveFile(j) \/ RejectUpload(j) \/ AbortUpload(j) \/ Enqueue(j)
      BY <3>1 DEF SaveFile, RejectUpload, AbortUpload, Enqueue, TypeOK
    <3>2. CASE CommitLog(j)
      <4>1. \A w \in Workers : pc[w] \in {"loaded", "running"} => Job(w) # j
        BY <3>2 DEF CommitLog, SingleInv, UnqueuedUntilAnswered, Attempted, Active
      <4>2. log' = [log EXCEPT ![j] = NewLog] /\ UNCHANGED <<imports, pc, task, seen>>
            /\ upload[j] = "saved" /\ upload' = [upload EXCEPT ![j] = "committed"]
        BY <3>2 DEF CommitLog
      <4>3. imports[j] = 0 /\ Rows[j] * 0 = 0
        BY <4>2, ConstantsAssumption
      <4>4. Accounts(NewLog, Rows[j], 0)
        BY <4>3 DEF Accounts, NewLog, NoLog
      <4>x. imports' = [imports EXCEPT ![j] = 0]
        BY <4>2, <4>3 DEF TypeOK
      <4>5. CountedOnce'
        BY <4>2, <4>4, <4>x, AccountsWhenWritten
      <4> QED
        BY <4>1, <4>2, <4>5, MessageParts DEF TypeOK
    <3> QED
      BY <2>1, <3>1, <3>2 DEF ApiStep
  <2>2. ASSUME NEW w \in Workers, WorkerStep(w) \/ WorkerFault(w) PROVE AccountInv'
    <3>0. /\ task[w] \in Messages /\ Job(w) \in Jobs
          /\ log[Job(w)] \in SyncLogs /\ seen[w] \in SyncLogs
      BY MessageParts DEF TypeOK
    <3>1. ASSUME NEW m \in Messages, Receive(w, m) PROVE AccountInv'
      BY <3>1, MessageParts DEF Receive, TypeOK
    <3>2. CASE Load(w)
      BY <3>0, <3>2 DEF Load, TypeOK
    <3>3. CASE MarkRunning(w)
      <4> DEFINE new == [seen[w] EXCEPT !.status = "RUNNING", !.started = TRUE]
      <4>1. /\ pc[w] = "loaded"
            /\ \E to \in {"running", "failing"} : pc' = [pc EXCEPT ![w] = to]
            /\ log' = [log EXCEPT ![Job(w)] = Flush(log[Job(w)], seen[w], new)]
            /\ seen' = [seen EXCEPT ![w] = new]
            /\ UNCHANGED <<imports, task, upload>>
        BY <3>3, MarkStep
      <4>2. /\ new \in SyncLogs /\ new.total = seen[w].total
            /\ new.processed = seen[w].processed /\ new.failed = seen[w].failed
            /\ new.score = seen[w].score
        BY <3>0, RunningLogType DEF SyncLogs
      <4> HIDE DEF new
      <4>3. seen[w] = log[Job(w)]
        BY <4>1
      <4>4. log' = [log EXCEPT ![Job(w)] = new]
        <5>1. Flush(log[Job(w)], log[Job(w)], new) = new
          BY <3>0, <4>2, FlushFresh
        <5> QED
          BY <4>1, <4>3, <5>1
      <4>5. CountedOnce'
        <5>1. Accounts(new, Rows[Job(w)], imports[Job(w)])
          <6>1. Accounts(log[Job(w)], Rows[Job(w)], imports[Job(w)])
            BY <3>0
          <6> QED
            BY <4>2, <4>3, <6>1 DEF Accounts
        <5>2. imports' = [imports EXCEPT ![Job(w)] = imports[Job(w)]]
          BY <3>0, <4>1 DEF TypeOK
        <5> QED
          BY <3>0, <4>4, <5>1, <5>2, AccountsWhenWritten
      <4>6. SessionFresh'
        BY <2>0, <3>0, <4>1, <4>4 DEF Active, TypeOK
      <4> QED
        BY <4>1, <4>5, <4>6
    <3>4. ASSUME NEW to \in {"imported", "failing"}, Import(w, to) PROVE AccountInv'
      <4>1. PICK new \in SyncLogs :
              /\ new.total = seen[w].total + Rows[Job(w)]
              /\ new.processed + new.failed
                   = seen[w].processed + seen[w].failed + Rows[Job(w)]
              /\ new.score \in Quality(new.processed, new.failed)
              /\ log' = [log EXCEPT ![Job(w)] = Flush(log[Job(w)], seen[w], new)]
              /\ seen' = [seen EXCEPT ![w] = new]
        BY <3>4, ImportStep
      <4>2. /\ pc[w] = "running" /\ pc' = [pc EXCEPT ![w] = to]
            /\ imports' = [imports EXCEPT ![Job(w)] = @ + 1]
            /\ UNCHANGED <<upload, task>>
        BY <3>4, ImportStep
      <4>3. seen[w] = log[Job(w)]
        BY <4>2
      <4>4. log' = [log EXCEPT ![Job(w)] = new]
        <5>1. Flush(log[Job(w)], log[Job(w)], new) = new
          BY <3>0, FlushFresh
        <5> QED
          BY <4>1, <4>3, <5>1
      <4>5. Rows[Job(w)] * imports[Job(w)] + Rows[Job(w)] = Rows[Job(w)] * imports'[Job(w)]
        <5>1. \A a, b \in Nat : a * b + a = a * (b + 1)
          OBVIOUS
        <5>2. Rows[Job(w)] \in Nat /\ imports[Job(w)] \in Nat
              /\ imports'[Job(w)] = imports[Job(w)] + 1
          BY <3>0, <4>2, ConstantsAssumption DEF TypeOK
        <5> QED
          BY <5>1, <5>2
      <4>6. new.total = new.processed + new.failed
            /\ new.total = Rows[Job(w)] * imports'[Job(w)]
        <5> DEFINE l == log[Job(w)]
        <5>1. l.total = l.processed + l.failed /\ l.total = Rows[Job(w)] * imports[Job(w)]
          BY <3>0 DEF Accounts
        <5> QED
          BY <3>0, <4>1, <4>3, <4>5, <5>1 DEF SyncLogs
      <4>7. CountedOnce'
        <5>1. imports[Job(w)] + 1 # 0 /\ imports'[Job(w)] = imports[Job(w)] + 1
          BY <3>0, <4>2 DEF TypeOK
        <5>2. Accounts(new, Rows[Job(w)], imports[Job(w)] + 1)
          BY <4>1, <4>6, <5>1 DEF Accounts
        <5> QED
          BY <3>0, <4>2, <4>4, <5>2, AccountsWhenWritten
      <4>8. SessionFresh'
        BY <2>0, <3>0, <4>1, <4>2, <4>4 DEF Active, TypeOK
      <4>9. upload[Job(w)] = "answered"
        BY <3>0, <4>2 DEF SingleInv, UnqueuedUntilAnswered, Attempted, Active
      <4> QED
        BY <3>0, <4>2, <4>7, <4>8, <4>9 DEF TypeOK
    <3>5. CASE MarkFailed(w)
      <4>1. /\ pc[w] = "failing" /\ pc' = [pc EXCEPT ![w] = "raised"]
            /\ log' = [log EXCEPT ![Job(w)].status = "FAILED", ![Job(w)].completed = TRUE]
            /\ UNCHANGED <<imports, seen, task, upload>>
        BY <3>5 DEF MarkFailed
      <4>2. CountedOnce'
        <5> DEFINE l == [log[Job(w)] EXCEPT !.status = "FAILED", !.completed = TRUE]
        <5>1. /\ log' = [log EXCEPT ![Job(w)] = l]
              /\ imports' = [imports EXCEPT ![Job(w)] = imports[Job(w)]]
          BY <3>0, <4>1 DEF TypeOK
        <5>2. /\ l.total = log[Job(w)].total /\ l.processed = log[Job(w)].processed
              /\ l.failed = log[Job(w)].failed /\ l.score = log[Job(w)].score
          BY <3>0 DEF SyncLogs
        <5>3. Accounts(log[Job(w)], Rows[Job(w)], imports[Job(w)])
          BY <3>0
        <5>4. Accounts(l, Rows[Job(w)], imports[Job(w)])
          <6> HIDE DEF l
          <6> QED
            BY <5>2, <5>3 DEF Accounts
        <5> QED
          BY <3>0, <5>1, <5>4, AccountsWhenWritten
      <4>3. \A j \in Jobs : j # Job(w) => log'[j] = log[j]
        BY <4>1 DEF TypeOK
      <4>4. \A v \in Workers : pc'[v] \in {"loaded", "running"}
                                 => pc'[v] = pc[v] /\ Job(v) # Job(w)
        BY <2>0, <4>1 DEF Active, TypeOK
      <4>5. SessionFresh'
        BY <4>1, <4>3, <4>4, MessageParts DEF TypeOK
      <4> QED
        BY <4>1, <4>2, <4>5
    <3>6. CASE Fatal(w) \/ DeleteFile(w) \/ GiveUp(w) \/ PublishRetry(w)
      BY <3>6 DEF Fatal, DeleteFile, GiveUp, PublishRetry, TypeOK
    <3>7. CASE LoseConnection(w) \/ DeleteFails(w) \/ GiveUpFails(w) \/ PublishFails(w)
               \/ Redeliver(w)
      BY <3>7 DEF LoseConnection, DeleteFails, GiveUpFails, PublishFails, Redeliver, TypeOK
    <3>8. CASE Acknowledge(w) \/ KillWorker(w)
      BY <3>8, Quits DEF TypeOK
    <3> QED
      BY <2>2, <3>1, <3>2, <3>3, <3>4, <3>5, <3>6, <3>7, <3>8
         DEF WorkerStep, WorkerFault, Complete, LoseCommit
  <2>3. CASE CrashHost
    BY <2>3 DEF CrashHost, Fault, Repeating
  <2>4. CASE UNCHANGED vars
    BY <2>4 DEF vars
  <2> QED
    BY <2>1, <2>2, <2>3, <2>4 DEF Next
<1>3. TypeOK /\ (once => SingleInv) /\ (once => AccountInv) /\ [Next]_vars
        => (once => AccountInv)'
  BY <1>2, HistoryWas
<1> QED
  BY <1>1, <1>3, SingleInvariant, TypeCorrect, PTL DEF Spec

(* Until a delivery is repeated, the counters of a job account for each of *)
(* its rows exactly once per committed import.                             *)
THEOREM AccountingHolds == Spec => []Accounting
<1>1. (once => AccountInv) => Accounting
  BY DEF AccountInv, Accounting
<1> QED
  BY <1>1, AccountInvariant, PTL

-----------------------------------------------------------------------------
(* Whatever faults happen, and however many sessions overwrite one row     *)
(* column by column, the row never counts more than its committed imports  *)
(* have read.  The witnesses are the sums of good and of bad rows over     *)
(* these imports: a committed import adds its own to both.                 *)
LEMMA NewLogCounts ==
  ASSUME NEW c \in {NoLog, NewLog}
  PROVE  c.total = 0 /\ c.processed = 0 /\ c.failed = 0
  BY DEF NoLog, NewLog

THEOREM NeverOvercountedHolds == Spec => []NeverOvercounted
<1>1. Init => CountInv
  <2> SUFFICES ASSUME Init PROVE CountInv
    OBVIOUS
  <2> DEFINE none == [j \in Jobs |-> 0]
  <2>1. \A j \in Jobs : Rows[j] * 0 = 0
    BY ConstantsAssumption
  <2>2. none \in [Jobs -> Nat] /\ \A j \in Jobs : none[j] + none[j] = Rows[j] * imports[j]
    BY <2>1 DEF Init
  <2>3. \A j \in Jobs : Within(log[j], Rows[j] * imports[j], none[j], none[j])
    BY <2>1, NewLogCounts DEF Init, Within
  <2>4. \A w \in Workers : pc[w] = "idle"
    BY DEF Init
  <2> HIDE DEF none
  <2> QED
    BY <2>2, <2>3, <2>4 DEF CountInv
<1>2. TypeOK /\ CountInv /\ [Next]_vars => CountInv'
  <2> SUFFICES ASSUME TypeOK, CountInv, [Next]_vars PROVE CountInv'
    OBVIOUS
  <2> USE DEF stored, broker, worker, environment, Goto, Request, Job
  <2>0. PICK good \in [Jobs -> Nat], bad \in [Jobs -> Nat] :
          /\ \A j \in Jobs : good[j] + bad[j] = Rows[j] * imports[j]
          /\ \A j \in Jobs : Within(log[j], Rows[j] * imports[j], good[j], bad[j])
          /\ \A w \in Workers :
               pc[w] \in {"loaded", "running"}
                 => Within(seen[w], Rows[Job(w)] * imports[Job(w)], good[Job(w)], bad[Job(w)])
    BY DEF CountInv
  <2>q. ASSUME UNCHANGED <<log, imports>>,
               \A w \in Workers : pc'[w] \in {"loaded", "running"}
                 => pc[w] \in {"loaded", "running"} /\ task'[w] = task[w] /\ seen'[w] = seen[w]
        PROVE  CountInv'
    <3>1. \A w \in Workers : pc'[w] \in {"loaded", "running"}
            => Within(seen'[w], Rows[task'[w].job] * imports'[task'[w].job],
                      good[task'[w].job], bad[task'[w].job])
      BY <2>0, <2>q
    <3> QED
      BY <2>0, <2>q, <3>1 DEF CountInv
  <2>1. ASSUME NEW j \in Jobs, ApiStep(j) \/ RejectUpload(j) \/ AbortUpload(j)
        PROVE  CountInv'
    <3>1. CASE SaveFile(j) \/ RejectUpload(j) \/ AbortUpload(j) \/ Enqueue(j)
      BY <3>1, <2>q DEF SaveFile, RejectUpload, AbortUpload, Enqueue
    <3>2. CASE CommitLog(j)
      <4>1. log' = [log EXCEPT ![j] = NewLog] /\ UNCHANGED <<imports, pc, task, seen>>
        BY <3>2 DEF CommitLog
      <4>2. Rows[j] * imports[j] \in Nat
        BY ConstantsAssumption DEF TypeOK
      <4>3. Within(NewLog, Rows[j] * imports[j], good[j], bad[j])
        BY <2>0, <4>2, NewLogCounts DEF Within
      <4>4. \A i \in Jobs : log'[i] = log[i] \/ (i = j /\ log'[i] = NewLog)
        BY <4>1 DEF TypeOK
      <4>5. \A i \in Jobs : Within(log'[i], Rows[i] * imports'[i], good[i], bad[i])
        BY <2>0, <4>1, <4>3, <4>4 DEF Within
      <4> QED
        BY <2>0, <4>1, <4>5 DEF CountInv, Within
    <3> QED
      BY <2>1, <3>1, <3>2 DEF ApiStep
  <2>2. ASSUME NEW w \in Workers, WorkerStep(w) \/ WorkerFault(w) PROVE CountInv'
    <3>0. /\ task[w] \in Messages /\ Job(w) \in Jobs
          /\ log[Job(w)] \in SyncLogs /\ seen[w] \in SyncLogs
      BY MessageParts DEF TypeOK
    <3>1. ASSUME NEW m \in Messages, Receive(w, m) PROVE CountInv'
      BY <3>1, <2>q DEF Receive, TypeOK
    <3>2. CASE Load(w)
      <4>1. UNCHANGED <<log, imports, task>> /\ seen' = [seen EXCEPT ![w] = log[Job(w)]]
            /\ \A v \in Workers : v # w => pc'[v] = pc[v]
        BY <3>2 DEF Load, TypeOK
      <4>2. \A v \in Workers : IF v = w THEN seen'[v] = log[Job(w)] ELSE seen'[v] = seen[v]
        BY <4>1 DEF TypeOK
      <4>3. \A j \in Jobs : Within(log'[j], Rows[j] * imports'[j], good[j], bad[j])
        BY <2>0, <4>1
      <4>4. ASSUME NEW v \in Workers, pc'[v] \in {"loaded", "running"}
            PROVE  Within(seen'[v], Rows[Job(v)] * imports[Job(v)], good[Job(v)], bad[Job(v)])
        <5>1. CASE v = w
          BY <2>0, <3>0, <4>2, <5>1
        <5>2. CASE v # w
          BY <2>0, <4>1, <4>2, <4>4, <5>2
        <5> QED
          BY <5>1, <5>2
      <4> QED
        BY <2>0, <4>1, <4>3, <4>4 DEF CountInv
    <3>3. CASE MarkRunning(w)
      <4> DEFINE new == [seen[w] EXCEPT !.status = "RUNNING", !.started = TRUE]
      <4>1. /\ pc[w] = "loaded"
            /\ \E to \in {"running", "failing"} : pc' = [pc EXCEPT ![w] = to]
            /\ log' = [log EXCEPT ![Job(w)] = Flush(log[Job(w)], seen[w], new)]
            /\ seen' = [seen EXCEPT ![w] = new]
            /\ UNCHANGED <<imports, task>>
        BY <3>3, MarkStep
      <4>2. /\ new \in SyncLogs /\ new.total = seen[w].total
            /\ new.processed = seen[w].processed /\ new.failed = seen[w].failed
            /\ new.score = seen[w].score
        BY <3>0, RunningLogType DEF SyncLogs
      <4> HIDE DEF new
      <4>3. LET f == Flush(log[Job(w)], seen[w], new)
            IN  /\ f.total = log[Job(w)].total /\ f.processed = log[Job(w)].processed
                /\ f.failed = log[Job(w)].failed
        BY <3>0, <4>2, FlushCounters
      <4>4. \A j \in Jobs : Within(log'[j], Rows[j] * imports'[j], good[j], bad[j])
        BY <2>0, <3>0, <4>1, <4>3 DEF Within, TypeOK
      <4>5. \A v \in Workers : pc'[v] \in {"loaded", "running"}
              => LET j == task'[v].job
                 IN  Within(seen'[v], Rows[j] * imports'[j], good[j], bad[j])
        BY <2>0, <3>0, <4>1, <4>2 DEF Within, TypeOK
      <4> QED
        BY <2>0, <4>1, <4>4, <4>5 DEF CountInv
    <3>4. ASSUME NEW to \in {"imported", "failing"}, Import(w, to) PROVE CountInv'
      <4> DEFINE n == Rows[Job(w)]
      <4>1. PICK new \in SyncLogs, ok \in 0 .. n :
              /\ new.total = seen[w].total + n
              /\ new.processed = seen[w].processed + ok
              /\ new.failed = seen[w].failed + (n - ok)
              /\ log' = [log EXCEPT ![Job(w)] = Flush(log[Job(w)], seen[w], new)]
              /\ seen' = [seen EXCEPT ![w] = new]
        BY <3>4, ImportStep
      <4>2. /\ pc[w] = "running" /\ pc' = [pc EXCEPT ![w] = to]
            /\ imports' = [imports EXCEPT ![Job(w)] = @ + 1]
            /\ UNCHANGED task
        BY <3>4, ImportStep
      <4> DEFINE good2 == [good EXCEPT ![Job(w)] = @ + ok]
                 bad2 == [bad EXCEPT ![Job(w)] = @ + (n - ok)]
      <4>3. n \in Nat /\ ok \in Nat /\ n - ok \in Nat
        BY <3>0, ConstantsAssumption
      <4>4. good2 \in [Jobs -> Nat] /\ bad2 \in [Jobs -> Nat]
        BY <3>0, <4>3
      <4>5. /\ good2[Job(w)] = good[Job(w)] + ok /\ bad2[Job(w)] = bad[Job(w)] + (n - ok)
            /\ \A j \in Jobs : j # Job(w) => good2[j] = good[j] /\ bad2[j] = bad[j]
        BY <3>0
      <4>6. n * imports'[Job(w)] = n * imports[Job(w)] + n
        <5>1. \A a, b \in Nat : a * (b + 1) = a * b + a
          OBVIOUS
        <5>2. imports[Job(w)] \in Nat /\ imports'[Job(w)] = imports[Job(w)] + 1
          BY <3>0, <4>2 DEF TypeOK
        <5> QED
          BY <4>3, <5>1, <5>2
      <4>n. n * imports[Job(w)] \in Nat
        BY <3>0, <4>3 DEF TypeOK
      <4> HIDE DEF good2, bad2
      <4>7. \A j \in Jobs : j # Job(w) => imports'[j] = imports[j] /\ log'[j] = log[j]
        BY <3>0, <4>1, <4>2 DEF TypeOK
      <4>8. \A j \in Jobs : good2[j] + bad2[j] = Rows[j] * imports'[j]
        <5>1. good2[Job(w)] + bad2[Job(w)] = n * imports'[Job(w)]
          BY <2>0, <3>0, <4>3, <4>5, <4>6
        <5> QED
          BY <2>0, <4>5, <4>7, <5>1
      <4>9. Within(new, Rows[Job(w)] * imports'[Job(w)], good2[Job(w)], bad2[Job(w)])
        <5>1. Within(seen[w], Rows[Job(w)] * imports[Job(w)], good[Job(w)], bad[Job(w)])
          BY <2>0, <4>2
        <5>2. /\ seen[w].total \in Nat /\ seen[w].processed \in Nat /\ seen[w].failed \in Nat
              /\ good[Job(w)] \in Nat /\ bad[Job(w)] \in Nat
          BY <3>0 DEF SyncLogs
        <5> QED
          BY <3>0, <4>1, <4>2, <4>3, <4>5, <4>6, <4>n, <5>1, <5>2 DEF Within
      <4>10. Within(log'[Job(w)], Rows[Job(w)] * imports'[Job(w)], good2[Job(w)], bad2[Job(w)])
        <5> DEFINE f == Flush(log[Job(w)], seen[w], new)
        <5>1. /\ f.total \in {log[Job(w)].total, new.total}
              /\ f.processed \in {log[Job(w)].processed, new.processed}
              /\ f.failed \in {log[Job(w)].failed, new.failed}
          BY <3>0, FlushCounters
        <5>2. log'[Job(w)] = f
          BY <3>0, <4>1 DEF TypeOK
        <5>3. Within(log[Job(w)], Rows[Job(w)] * imports[Job(w)], good[Job(w)], bad[Job(w)])
          BY <2>0, <3>0
        <5>4. /\ log[Job(w)].total \in Nat /\ log[Job(w)].processed \in Nat
              /\ log[Job(w)].failed \in Nat /\ good[Job(w)] \in Nat /\ bad[Job(w)] \in Nat
          BY <3>0 DEF SyncLogs
        <5> HIDE DEF f
        <5>5. Within(log'[Job(w)], n * imports'[Job(w)], good2[Job(w)], bad2[Job(w)]) <=>
                /\ f.total <= n * imports'[Job(w)]
                /\ f.processed <= good2[Job(w)] /\ f.failed <= bad2[Job(w)]
          BY <4>2, <5>2 DEF Within
        <5>6. new.total <= n * imports'[Job(w)] /\ new.processed <= good2[Job(w)]
              /\ new.failed <= bad2[Job(w)]
          BY <4>2, <4>9 DEF Within
        <5>7. log[Job(w)].total <= n * imports'[Job(w)] /\ log[Job(w)].processed <= good2[Job(w)]
              /\ log[Job(w)].failed <= bad2[Job(w)]
          BY <4>3, <4>5, <4>6, <4>n, <5>3, <5>4 DEF Within
        <5> QED
          BY <5>1, <5>5, <5>6, <5>7
      <4>11. \A j \in Jobs : Within(log'[j], Rows[j] * imports'[j], good2[j], bad2[j])
        BY <2>0, <4>5, <4>7, <4>10 DEF Within
      <4>12. \A v \in Workers : pc'[v] \in {"loaded", "running"}
               => LET j == task'[v].job
                  IN  Within(seen'[v], Rows[j] * imports'[j], good2[j], bad2[j])
        <5>1. SUFFICES ASSUME NEW v \in Workers, pc'[v] \in {"loaded", "running"}
                       PROVE  LET j == task'[v].job
                              IN  Within(seen'[v], Rows[j] * imports'[j], good2[j], bad2[j])
          OBVIOUS
        <5>2. v # w /\ pc'[v] = pc[v] /\ seen'[v] = seen[v] /\ task'[v] = task[v]
          BY <4>1, <4>2, <5>1 DEF TypeOK
        <5>3. /\ Within(seen[v], Rows[Job(v)] * imports[Job(v)], good[Job(v)], bad[Job(v)])
              /\ Job(v) \in Jobs /\ seen[v] \in SyncLogs
          BY <2>0, <5>1, <5>2, MessageParts DEF TypeOK
        <5>4. CASE Job(v) # Job(w)
          BY <4>5, <4>7, <5>2, <5>3, <5>4 DEF Within
        <5>5. CASE Job(v) = Job(w)
          <6>1. /\ seen[v].total \in Nat /\ seen[v].processed \in Nat /\ seen[v].failed \in Nat
                /\ good[Job(w)] \in Nat /\ bad[Job(w)] \in Nat
            BY <3>0, <5>3 DEF SyncLogs
          <6> QED
            BY <4>3, <4>5, <4>6, <4>n, <5>2, <5>3, <5>5, <6>1 DEF Within
        <5> QED
          BY <5>4, <5>5
      <4> QED
        BY <4>4, <4>8, <4>11, <4>12 DEF CountInv
    <3>5. CASE MarkFailed(w)
      <4>1. /\ pc[w] = "failing" /\ pc' = [pc EXCEPT ![w] = "raised"]
            /\ log' = [log EXCEPT ![Job(w)].status = "FAILED", ![Job(w)].completed = TRUE]
            /\ UNCHANGED <<imports, seen, task>>
        BY <3>5 DEF MarkFailed
      <4>2. \A j \in Jobs : /\ log'[j].total = log[j].total
                            /\ log'[j].processed = log[j].processed
                            /\ log'[j].failed = log[j].failed
        BY <3>0, <4>1 DEF TypeOK, SyncLogs
      <4>3. \A v \in Workers : pc'[v] \in {"loaded", "running"} => pc[v] \in {"loaded", "running"}
        BY <4>1 DEF TypeOK
      <4> QED
        <5>1. \A j \in Jobs : Within(log'[j], Rows[j] * imports'[j], good[j], bad[j])
          BY <2>0, <4>1, <4>2 DEF Within
        <5>2. \A v \in Workers : pc'[v] \in {"loaded", "running"}
                => Within(seen'[v], Rows[task'[v].job] * imports'[task'[v].job],
                          good[task'[v].job], bad[task'[v].job])
          BY <2>0, <4>1, <4>3
        <5>3. imports' = imports
          BY <4>1
        <5> QED
          BY <2>0, <5>3, <5>1, <5>2 DEF CountInv
    <3>6. CASE Fatal(w) \/ DeleteFile(w) \/ GiveUp(w) \/ PublishRetry(w)
      BY <3>6, <2>q DEF Fatal, DeleteFile, GiveUp, PublishRetry, TypeOK
    <3>7. CASE LoseConnection(w) \/ DeleteFails(w) \/ GiveUpFails(w) \/ PublishFails(w)
               \/ Redeliver(w)
      BY <3>7, <2>q
         DEF LoseConnection, DeleteFails, GiveUpFails, PublishFails, Redeliver, TypeOK
    <3>8. CASE Acknowledge(w) \/ KillWorker(w)
      BY <3>8, <2>q, Quits DEF TypeOK
    <3> QED
      BY <2>2, <3>1, <3>2, <3>3, <3>4, <3>5, <3>6, <3>7, <3>8
         DEF WorkerStep, WorkerFault, Complete, LoseCommit
  <2>3. CASE CrashHost
    BY <2>3, <2>q DEF CrashHost, ReleaseAll
  <2>4. CASE UNCHANGED vars
    BY <2>4, <2>q DEF vars
  <2> QED
    BY <2>1, <2>2, <2>3, <2>4 DEF Next
<1>3. TypeOK /\ CountInv => NeverOvercounted
  <2> SUFFICES ASSUME TypeOK, CountInv, NEW j \in Jobs
               PROVE  /\ log[j].total <= Rows[j] * imports[j]
                      /\ log[j].processed + log[j].failed <= Rows[j] * imports[j]
    BY DEF NeverOvercounted
  <2>1. PICK good \in [Jobs -> Nat], bad \in [Jobs -> Nat] :
          /\ good[j] + bad[j] = Rows[j] * imports[j]
          /\ Within(log[j], Rows[j] * imports[j], good[j], bad[j])
    BY DEF CountInv
  <2>2. log[j].processed \in Nat /\ log[j].failed \in Nat /\ log[j].total \in Nat
        /\ Rows[j] * imports[j] \in Nat
    BY ConstantsAssumption DEF TypeOK, SyncLogs
  <2> QED
    BY <2>1, <2>2 DEF Within
<1> QED
  BY <1>1, <1>2, <1>3, TypeCorrect, PTL DEF Spec

-----------------------------------------------------------------------------
(* As long as no worker process is killed and no connection is lost, there *)
(* is somebody who can still mark an upload that is not marked yet.        *)
Cared(j) == Queued(j) \/ \E w \in Workers : Pending(w) /\ Job(w) = j

LEMMA MarkedStays ==
  ASSUME MarkedInv,
         \A j \in Jobs : upload'[j] = "answered" => upload[j] = "answered" \/ Queued(j)',
         \A j \in Jobs : Terminal(j) => Terminal(j)' \/ Cared(j)',
         \A j \in Jobs : Cared(j) => Terminal(j)' \/ Cared(j)',
         \A w \in Workers : pc'[w] = "running" => seen'[w].status = "RUNNING"
  PROVE  MarkedInv'
<1>1. ASSUME NEW j \in Jobs, upload'[j] = "answered" PROVE Terminal(j)' \/ Cared(j)'
  <2>1. CASE Queued(j)'
    BY <2>1 DEF Cared
  <2>2. CASE upload[j] = "answered"
    <3>1. Terminal(j) \/ Cared(j)
      BY <2>2 DEF MarkedInv, Cared
    <3> QED
      BY <3>1
  <2> QED
    BY <1>1, <2>1, <2>2
<1> QED
  BY <1>1 DEF MarkedInv, Cared

(* A step of one worker that takes nothing from the queue. *)
LEMMA WorkerKeepsMarked ==
  ASSUME TypeOK, MarkedInv, NEW w \in Workers, upload' = upload,
         \A v \in Workers \ {w} : pc'[v] = pc[v] /\ task'[v] = task[v] /\ seen'[v] = seen[v],
         \A j \in Jobs : j # Job(w) => log'[j] = log[j],
         \A m \in Messages : queue[m] > 0 => queue'[m] > 0,
         Pending(w) \/ Terminal(Job(w))
           => log'[Job(w)].status \in {"COMPLETED", "FAILED"}
              \/ (Pending(w)' /\ task'[w] = task[w]),
         pc'[w] = "running" => seen'[w].status = "RUNNING"
  PROVE  MarkedInv'
<1>1. \A j \in Jobs : Queued(j) => Queued(j)'
  BY DEF Queued
<1>2. \A v \in Workers \ {w} : Pending(v) => Pending(v)' /\ Job(v)' = Job(v)
  BY DEF Pending, Job
<1>3. ASSUME NEW j \in Jobs, Cared(j) PROVE Terminal(j)' \/ Cared(j)'
  <2>1. CASE Queued(j)
    BY <1>1, <2>1 DEF Cared
  <2>2. ASSUME NEW v \in Workers \ {w}, Pending(v), Job(v) = j PROVE Cared(j)'
    BY <1>2, <2>2 DEF Cared
  <2>3. CASE Pending(w) /\ Job(w) = j
    BY <2>3 DEF Cared, Job, Terminal
  <2> QED
    BY <1>3, <2>1, <2>2, <2>3 DEF Cared
<1>4. ASSUME NEW j \in Jobs, Terminal(j) PROVE Terminal(j)' \/ Cared(j)'
  <2>1. CASE j = Job(w)
    BY <1>4, <2>1 DEF Cared, Job, Terminal
  <2>2. CASE j # Job(w)
    BY <1>4, <2>2 DEF Terminal
  <2> QED
    BY <2>1, <2>2
<1>5. \A v \in Workers : pc'[v] = "running" => seen'[v].status = "RUNNING"
  BY DEF MarkedInv
<1> QED
  BY <1>3, <1>4, <1>5, MarkedStays

LEMMA MarkedStep ==
  ASSUME Faults \cap {"connection", "kill"} = {},
         TypeOK, QueuedIsCommitted, MarkedInv, [Next]_vars
  PROVE  MarkedInv'
<1> USE DEF stored, broker, worker, environment, Goto, Request, Job
<1>1. ASSUME NEW j \in Jobs, ApiStep(j) \/ RejectUpload(j) \/ AbortUpload(j)
      PROVE  MarkedInv'
  <2>0. UNCHANGED <<pc, task, seen>>
    BY <1>1 DEF ApiStep, SaveFile, CommitLog, Enqueue, RejectUpload, AbortUpload
  <2>1. \A w \in Workers : pc'[w] = "running" => seen'[w].status = "RUNNING"
    BY <2>0 DEF MarkedInv
  <2>2. CASE Enqueue(j)
    <3> DEFINE first == [job |-> j, retries |-> 0]
    <3>1. first \in Messages /\ first.job = j
      BY MessageParts, ConstantsAssumption
    <3>2. /\ queue' = [queue EXCEPT ![first] = @ + 1] /\ UNCHANGED log
          /\ upload' = [upload EXCEPT ![j] = "answered"]
      BY <2>2 DEF Enqueue
    <3> HIDE DEF first
    <3>3. queue'[first] > 0 /\ \A m \in Messages : queue[m] > 0 => queue'[m] > 0
      BY <3>1, <3>2 DEF TypeOK
    <3>4. Queued(j)' /\ \A i \in Jobs : Queued(i) => Queued(i)'
      BY <3>1, <3>3 DEF Queued
    <3>5. \A i \in Jobs : upload'[i] = "answered" => upload[i] = "answered" \/ Queued(i)'
      BY <3>2, <3>4 DEF TypeOK
    <3>6. \A i \in Jobs : (Terminal(i) => Terminal(i)') /\ (Cared(i) => Cared(i)')
      BY <2>0, <3>2, <3>4 DEF Terminal, Cared, Pending
    <3> QED
      BY <2>1, <3>5, <3>6, MarkedStays
  <2>3. CASE SaveFile(j) \/ RejectUpload(j) \/ AbortUpload(j) \/ CommitLog(j)
    <3>1. queue' = queue /\ \A i \in Jobs : upload'[i] = "answered" => upload[i] = "answered"
      BY <2>3 DEF SaveFile, RejectUpload, AbortUpload, CommitLog, TypeOK
    <3>2. ASSUME NEW i \in Jobs, upload'[i] = "answered" PROVE log'[i] = log[i]
      <4>1. CASE CommitLog(j)
        BY <3>2, <4>1 DEF CommitLog, TypeOK
      <4>2. CASE SaveFile(j) \/ RejectUpload(j) \/ AbortUpload(j)
        BY <4>2 DEF SaveFile, RejectUpload, AbortUpload
      <4> QED
        BY <2>3, <4>1, <4>2
    <3>3. ASSUME NEW i \in Jobs, upload'[i] = "answered" PROVE Terminal(i)' \/ Cared(i)'
      <4>1. Terminal(i) \/ Cared(i)
        BY <3>1, <3>3 DEF MarkedInv, Cared
      <4>2. Cared(i) => Cared(i)'
        BY <2>0, <3>1 DEF Cared, Queued, Pending
      <4>3. Terminal(i) => Terminal(i)'
        BY <3>2, <3>3 DEF Terminal
      <4> QED
        BY <4>1, <4>2, <4>3
    <3> QED
      BY <2>1, <3>3 DEF MarkedInv, Cared
  <2> QED
    BY <1>1, <2>2, <2>3 DEF ApiStep
<1>2. ASSUME NEW w \in Workers, WorkerStep(w) \/ WorkerFault(w) PROVE MarkedInv'
  <2>0. /\ task[w] \in Messages /\ Job(w) \in Jobs
        /\ log[Job(w)] \in SyncLogs /\ seen[w] \in SyncLogs
    BY MessageParts DEF TypeOK
  <2>1. ASSUME NEW m \in Messages, Receive(w, m) PROVE MarkedInv'
    <3>1. /\ pc[w] = "idle" /\ pc' = [pc EXCEPT ![w] = "received"]
          /\ task' = [task EXCEPT ![w] = m] /\ queue' = [queue EXCEPT ![m] = @ - 1]
          /\ UNCHANGED <<upload, log, seen>>
      BY <2>1 DEF Receive
    <3>2. Pending(w)' /\ Job(w)' = m.job /\ ~Pending(w)
      BY <3>1 DEF TypeOK, Pending
    <3>3. \A v \in Workers : Pending(v) => Pending(v)' /\ Job(v)' = Job(v)
      BY <3>1, <3>2 DEF TypeOK, Pending
    <3>4. \A n \in Messages : n # m => queue'[n] = queue[n]
      BY <3>1 DEF TypeOK
    <3>5. ASSUME NEW j \in Jobs, Cared(j) PROVE Cared(j)'
      <4>1. CASE Queued(j)
        <5>1. PICK n \in Messages : n.job = j /\ queue[n] > 0
          BY <4>1 DEF Queued
        <5>2. CASE n = m
          BY <3>2, <5>1, <5>2 DEF Cared
        <5>3. CASE n # m
          BY <3>4, <5>1, <5>3 DEF Cared, Queued
        <5> QED
          BY <5>2, <5>3
      <4>2. ASSUME NEW v \in Workers, Pending(v), Job(v) = j PROVE Cared(j)'
        BY <3>3, <4>2 DEF Cared
      <4> QED
        BY <3>5, <4>1, <4>2 DEF Cared
    <3>6. \A j \in Jobs : Terminal(j) => Terminal(j)'
      BY <3>1 DEF Terminal
    <3>7. \A v \in Workers : pc'[v] = "running" => seen'[v].status = "RUNNING"
      BY <3>1 DEF MarkedInv, TypeOK
    <3> QED
      BY <3>1, <3>5, <3>6, <3>7, MarkedStays
  <2>2. CASE Load(w)
    <3>1. log[Job(w)].status # "NONE"
      BY <2>2 DEF Load, QueuedIsCommitted
    <3>2. /\ pc[w] = "received" /\ pc' = [pc EXCEPT ![w] = "loaded"]
          /\ seen' = [seen EXCEPT ![w] = log[Job(w)]] /\ UNCHANGED <<upload, task, log, queue>>
      BY <2>2, <3>1 DEF Load
    <3>3. pc'[w] = "loaded" /\ Pending(w)'
      BY <3>2 DEF TypeOK, Pending
    <3>4. \A v \in Workers \ {w} : pc'[v] = pc[v] /\ task'[v] = task[v] /\ seen'[v] = seen[v]
      BY <3>2 DEF TypeOK
    <3> QED
      BY <3>2, <3>3, <3>4, WorkerKeepsMarked
  <2>3. CASE MarkRunning(w)
    <3> DEFINE new == [seen[w] EXCEPT !.status = "RUNNING", !.started = TRUE]
    <3>1. /\ \E to \in {"running", "failing"} : pc' = [pc EXCEPT ![w] = to]
          /\ log' = [log EXCEPT ![Job(w)] = Flush(log[Job(w)], seen[w], new)]
          /\ seen' = [seen EXCEPT ![w] = new]
          /\ UNCHANGED <<upload, task, queue>>
      BY <2>3, MarkStep
    <3>2. new.status = "RUNNING"
      BY <2>0 DEF SyncLogs
    <3> HIDE DEF new
    <3>3. Pending(w)' /\ seen'[w] = new
      BY <3>1 DEF TypeOK, Pending
    <3>4. /\ \A v \in Workers \ {w} : pc'[v] = pc[v] /\ task'[v] = task[v] /\ seen'[v] = seen[v]
          /\ \A j \in Jobs : j # Job(w) => log'[j] = log[j]
      BY <3>1 DEF TypeOK
    <3> QED
      BY <3>1, <3>2, <3>3, <3>4, WorkerKeepsMarked
  <2>4. ASSUME NEW to \in {"imported", "failing"}, Import(w, to) PROVE MarkedInv'
    <3>1. PICK new \in SyncLogs :
            /\ new.status = "COMPLETED"
            /\ log' = [log EXCEPT ![Job(w)] = Flush(log[Job(w)], seen[w], new)]
            /\ seen' = [seen EXCEPT ![w] = new]
      BY <2>4, ImportStep
    <3>2. /\ pc[w] = "running" /\ pc' = [pc EXCEPT ![w] = to]
          /\ UNCHANGED <<upload, task, queue>>
      BY <2>4, ImportStep
    <3>3. seen[w].status = "RUNNING"
      BY <3>2 DEF MarkedInv
    <3>4. log'[Job(w)].status = "COMPLETED"
      <4>1. Flush(log[Job(w)], seen[w], new).status = "COMPLETED"
        BY <2>0, <3>1, <3>3, FlushStatus
      <4> QED
        BY <2>0, <3>1, <4>1 DEF TypeOK
    <3>5. pc'[w] # "running"
      BY <3>2 DEF TypeOK
    <3>6. /\ \A v \in Workers \ {w} : pc'[v] = pc[v] /\ task'[v] = task[v] /\ seen'[v] = seen[v]
          /\ \A j \in Jobs : j # Job(w) => log'[j] = log[j]
      BY <3>1, <3>2 DEF TypeOK
    <3> QED
      BY <3>2, <3>4, <3>5, <3>6, WorkerKeepsMarked
  <2>5. CASE MarkFailed(w)
    <3>1. /\ pc' = [pc EXCEPT ![w] = "raised"]
          /\ log' = [log EXCEPT ![Job(w)].status = "FAILED", ![Job(w)].completed = TRUE]
          /\ UNCHANGED <<upload, seen, task, queue>>
      BY <2>5 DEF MarkFailed
    <3>2. log'[Job(w)].status = "FAILED"
      BY <2>0, <3>1 DEF TypeOK, SyncLogs
    <3>3. pc'[w] # "running"
      BY <3>1 DEF TypeOK
    <3>4. /\ \A v \in Workers \ {w} : pc'[v] = pc[v] /\ task'[v] = task[v] /\ seen'[v] = seen[v]
          /\ \A j \in Jobs : j # Job(w) => log'[j] = log[j]
      BY <3>1 DEF TypeOK
    <3> QED
      BY <3>1, <3>2, <3>3, <3>4, WorkerKeepsMarked
  <2>6. CASE Fatal(w)
    <3>1. pc' = [pc EXCEPT ![w] = "failing"] /\ UNCHANGED <<upload, log, task, seen, queue>>
      BY <2>6 DEF Fatal
    <3>2. pc'[w] = "failing" /\ Pending(w)'
      BY <3>1 DEF TypeOK, Pending
    <3>3. \A v \in Workers \ {w} : pc'[v] = pc[v]
      BY <3>1 DEF TypeOK
    <3> QED
      BY <3>1, <3>2, <3>3, WorkerKeepsMarked
  <2>7. CASE \/ DeleteFile(w) \/ DeleteFails(w) \/ GiveUp(w) \/ GiveUpFails(w)
             \/ PublishRetry(w) \/ PublishFails(w) \/ Acknowledge(w)
    <3>1. /\ pc[w] \in {"imported", "raised", "done"} /\ UNCHANGED <<upload, log>>
          /\ pc'[w] # "running"
          /\ \A v \in Workers \ {w} : pc'[v] = pc[v] /\ task'[v] = task[v] /\ seen'[v] = seen[v]
      <4>1. CASE DeleteFile(w) \/ DeleteFails(w)
        BY <4>1 DEF DeleteFile, DeleteFails, TypeOK
      <4>2. CASE GiveUp(w) \/ GiveUpFails(w) \/ PublishFails(w)
        BY <4>2 DEF GiveUp, GiveUpFails, PublishFails, TypeOK
      <4>3. CASE PublishRetry(w)
        BY <4>3 DEF PublishRetry, TypeOK
      <4>4. CASE Acknowledge(w)
        BY <4>4 DEF Acknowledge, Release, TypeOK
      <4> QED
        BY <2>7, <4>1, <4>2, <4>3, <4>4
    <3>2. \A m \in Messages : queue[m] > 0 => queue'[m] > 0
      <4>1. CASE PublishRetry(w)
        BY <4>1 DEF PublishRetry, TypeOK
      <4>2. CASE ~PublishRetry(w)
        BY <2>7, <4>2 DEF DeleteFile, DeleteFails, GiveUp, GiveUpFails, PublishFails, Acknowledge
      <4> QED
        BY <4>1, <4>2
    <3>3. ~Pending(w)
      BY <3>1 DEF Pending
    <3>4. ASSUME NEW j \in Jobs, Cared(j) PROVE Cared(j)'
      <4>1. CASE Queued(j)
        BY <3>2, <4>1 DEF Queued, Cared
      <4>2. ASSUME NEW v \in Workers, Pending(v), Job(v) = j PROVE Cared(j)'
        <5>1. v \in Workers \ {w}
          BY <3>3, <4>2
        <5> QED
          BY <3>1, <4>2, <5>1 DEF Cared, Pending
      <4> QED
        BY <3>4, <4>1, <4>2 DEF Cared
    <3>5. \A j \in Jobs : Terminal(j) => Terminal(j)'
      BY <3>1 DEF Terminal
    <3>6. \A v \in Workers : pc'[v] = "running" => seen'[v].status = "RUNNING"
      BY <3>1 DEF MarkedInv
    <3> QED
      BY <3>1, <3>4, <3>5, <3>6, MarkedStays
  <2>8. CASE Redeliver(w)
    <3>1. /\ UNCHANGED <<upload, log, pc, task, seen>>
          /\ \A m \in Messages : queue[m] > 0 => queue'[m] > 0
      BY <2>8 DEF Redeliver, TypeOK
    <3>2. \A j \in Jobs : (Terminal(j) => Terminal(j)') /\ (Cared(j) => Cared(j)')
      BY <3>1 DEF Terminal, Cared, Pending, Queued
    <3>3. \A v \in Workers : pc'[v] = "running" => seen'[v].status = "RUNNING"
      BY <3>1 DEF MarkedInv
    <3> QED
      BY <3>1, <3>2, <3>3, MarkedStays
  <2>9. ~LoseConnection(w) /\ ~KillWorker(w)
    BY DEF LoseConnection, KillWorker, Fault
  <2> QED
    BY <1>2, <2>1, <2>2, <2>3, <2>4, <2>5, <2>6, <2>7, <2>8, <2>9
       DEF WorkerStep, WorkerFault, Complete, LoseCommit
<1>3. CASE CrashHost
  <2>1. /\ pc' = [v \in Workers |-> "idle"] /\ UNCHANGED <<upload, log>>
        /\ queue' = [m \in Messages |-> queue[m] + Cardinality(Held(m))]
    BY <1>3 DEF CrashHost, ReleaseAll
  <2>2. \A m \in Messages : queue[m] > 0 \/ Held(m) # {} => queue'[m] > 0
    <3>1. ASSUME NEW m \in Messages PROVE IsFiniteSet(Held(m))
      BY ConstantsAssumption, FS_Subset DEF Held
    <3>2. ASSUME NEW m \in Messages, Held(m) # {} PROVE Cardinality(Held(m)) > 0
      BY <3>1, <3>2, HeldCount, FS_EmptySet
    <3>3. ASSUME NEW m \in Messages, queue[m] > 0 \/ Held(m) # {} PROVE queue'[m] > 0
      <4>1. queue'[m] = queue[m] + Cardinality(Held(m))
        BY <2>1
      <4>2. queue[m] \in Nat /\ Cardinality(Held(m)) \in Nat
        BY HeldCount DEF TypeOK
      <4> QED
        BY <3>2, <3>3, <4>1, <4>2
    <3> QED
      BY <3>3
  <2>3. ASSUME NEW j \in Jobs, Cared(j) PROVE Cared(j)'
    <3>1. CASE Queued(j)
      BY <2>2, <3>1 DEF Queued, Cared
    <3>2. ASSUME NEW v \in Workers, Pending(v), Job(v) = j PROVE Cared(j)'
      <4>1. task[v] \in Messages /\ v \in Held(task[v])
        BY <3>2 DEF TypeOK, Held, Pending
      <4> QED
        BY <2>2, <3>2, <4>1 DEF Queued, Cared
    <3> QED
      BY <2>3, <3>1, <3>2 DEF Cared
  <2>4. \A j \in Jobs : Terminal(j) => Terminal(j)'
    BY <2>1 DEF Terminal
  <2> QED
    BY <2>1, <2>3, <2>4, MarkedStays
<1>4. CASE UNCHANGED vars
  <2>1. UNCHANGED <<upload, log, queue, pc, task, seen>>
    BY <1>4 DEF vars
  <2> QED
    BY <2>1 DEF MarkedInv, Terminal, Queued, Pending
<1> QED
  BY <1>1, <1>2, <1>3, <1>4 DEF Next

(* "Fatal failures are marked failed" (architecture.md:54) is true of every *)
(* job that came to rest if no process was killed and no database call     *)
(* failed outside the import: crashes of the container, repeated           *)
(* deliveries, lost commits and refused retries do not break it.           *)
THEOREM MarkedUnlessLost ==
  ASSUME Faults \cap {"connection", "kill"} = {}
  PROVE  Spec => []FatalIsMarkedFailed
<1>1. Init => MarkedInv
  BY DEF Init, MarkedInv
<1>2. TypeOK /\ QueuedIsCommitted /\ MarkedInv /\ [Next]_vars => MarkedInv'
  BY MarkedStep
<1>3. MarkedInv => FatalIsMarkedFailed
  BY DEF MarkedInv, FatalIsMarkedFailed, Pending, Attempted, Active
<1> QED
  BY <1>1, <1>2, <1>3, TypeCorrect, QueuedIsCommittedHolds, PTL DEF Spec

-----------------------------------------------------------------------------
(* Orphans: an accepted file that is still there is somebody's to delete.  *)

Owed(j) == Queued(j) \/ Attempted(j)

(* A step of w that leaves the other workers and the messages alone.       *)
LEMMA WorkerKeepsOwed ==
  ASSUME TypeOK, NoOrphan, NEW w \in Workers, upload' = upload,
         \A m \in Messages : queue[m] > 0 => queue'[m] > 0,
         \A v \in Workers \ {w} : pc'[v] = pc[v] /\ task'[v] = task[v],
         \A j \in Jobs : file'[j] => file[j],
         Active(w) => \/ ~file'[Job(w)]
                      \/ \E m \in Messages : m.job = Job(w) /\ queue'[m] > 0
                      \/ Active(w)' /\ task'[w] = task[w]
  PROVE  NoOrphan'
<1> SUFFICES ASSUME NEW j \in Jobs, upload[j] = "answered", file'[j]
             PROVE  Queued(j)' \/ Attempted(j)'
  BY DEF NoOrphan
<1>1. Queued(j) \/ Attempted(j)
  BY DEF NoOrphan
<1>2. CASE Queued(j)
  BY <1>2 DEF Queued
<1>3. ASSUME NEW v \in Workers, Active(v), Job(v) = j PROVE Queued(j)' \/ Attempted(j)'
  <2>1. CASE v = w
    <3>1. \/ \E m \in Messages : m.job = j /\ queue'[m] > 0
          \/ Active(w)' /\ task'[w] = task[w]
      BY <1>3, <2>1
    <3> QED
      BY <1>3, <2>1, <3>1 DEF Queued, Attempted, Job
  <2>2. CASE v # w
    BY <1>3, <2>2 DEF Attempted, Active, Job
  <2> QED
    BY <2>1, <2>2
<1> QED
  BY <1>1, <1>2, <1>3 DEF Attempted

LEMMA OwedStep ==
  ASSUME Faults \cap {"connection", "kill", "delete", "publish"} = {}, TypeOK,
         QueuedIsCommitted, NoOrphan, [Next]_vars
  PROVE  NoOrphan'
<1>1. ASSUME NEW i \in Jobs, ApiStep(i) \/ RejectUpload(i) \/ AbortUpload(i)
      PROVE  NoOrphan'
  <2>1. /\ UNCHANGED <<pc, task>>
        /\ \A m \in Messages : queue[m] > 0 => queue'[m] > 0
    BY <1>1 DEF ApiStep, SaveFile, CommitLog, Enqueue, RejectUpload, AbortUpload, TypeOK,
                stored, broker, worker
  <2>2. /\ \A j \in Jobs : j # i => upload'[j] = upload[j] /\ (file'[j] => file[j])
        /\ upload'[i] = "answered" => Enqueue(i)
    BY <1>1 DEF ApiStep, SaveFile, CommitLog, Enqueue, RejectUpload, AbortUpload, Request, TypeOK,
                stored
  <2>3. ASSUME Enqueue(i) PROVE Queued(i)'
    <3> DEFINE m == [job |-> i, retries |-> 0]
    <3>1. m \in Messages
      BY ConstantsAssumption DEF Messages
    <3>2. queue'[m] > 0 /\ m.job = i
      BY <2>3, <3>1 DEF Enqueue, TypeOK
    <3> QED
      BY <3>1, <3>2 DEF Queued
  <2>4. ASSUME NEW j \in Jobs, Owed(j) PROVE Owed(j)'
    BY <2>1, <2>4 DEF Owed, Queued, Attempted, Active, Job
  <2> QED
    BY <2>2, <2>3, <2>4 DEF NoOrphan, Owed
<1>2. ASSUME NEW w \in Workers, WorkerStep(w) \/ WorkerFault(w) PROVE NoOrphan'
  <2>1. ASSUME NEW m \in Messages, Receive(w, m) PROVE NoOrphan'
    <3>1. /\ pc[w] = "idle" /\ pc'[w] = "received" /\ task'[w] = m
          /\ \A v \in Workers \ {w} : pc'[v] = pc[v] /\ task'[v] = task[v]
          /\ \A n \in Messages \ {m} : queue'[n] = queue[n]
          /\ UNCHANGED <<upload, file>>
      BY <2>1 DEF Receive, Goto, stored, TypeOK
    <3>2. Attempted(m.job)'
      BY <3>1 DEF Attempted, Active, Job
    <3>3. ASSUME NEW j \in Jobs, j # m.job, Owed(j) PROVE Owed(j)'
      <4>1. CASE Queued(j)
        BY <3>1, <3>3, <4>1 DEF Owed, Queued
      <4>2. CASE Attempted(j)
        BY <3>1, <4>2 DEF Owed, Attempted, Active, Job
      <4> QED
        BY <3>3, <4>1, <4>2 DEF Owed
    <3> QED
      BY <3>1, <3>2, <3>3 DEF NoOrphan, Owed
  <2>2. CASE \/ Load(w) \/ MarkRunning(w) \/ (\E to \in {"imported", "failing"} : Import(w, to))
             \/ Fatal(w) \/ MarkFailed(w)
    <3>1. /\ UNCHANGED <<upload, file, task, queue>>
          /\ \E to \in {"loaded", "running", "imported", "failing", "raised"} :
               pc' = [pc EXCEPT ![w] = to]
      <4>1. CASE Load(w)
        BY <4>1 DEF Load, Goto, stored, broker, QueuedIsCommitted
      <4>2. CASE MarkRunning(w) \/ Fatal(w) \/ MarkFailed(w)
        BY <4>2 DEF MarkRunning, Fatal, MarkFailed, Goto, stored, broker
      <4>3. ASSUME NEW to \in {"imported", "failing"}, Import(w, to)
            PROVE  UNCHANGED <<upload, file, task, queue>> /\ pc' = [pc EXCEPT ![w] = to]
        BY <4>3 DEF Import, Goto, broker
      <4> QED
        BY <2>2, <4>1, <4>2, <4>3
    <3>2. Active(w)' /\ \A v \in Workers \ {w} : pc'[v] = pc[v]
      BY <3>1 DEF Active, TypeOK
    <3> QED
      BY <3>1, <3>2, WorkerKeepsOwed
  <2>3. CASE DeleteFile(w) \/ GiveUp(w)
    <3>1. /\ UNCHANGED <<upload, task, queue>> /\ pc' = [pc EXCEPT ![w] = "done"]
          /\ file' = [file EXCEPT ![Job(w)] = FALSE]
      BY <2>3 DEF DeleteFile, GiveUp, Goto, broker
    <3>2. Job(w) \in Jobs
      BY DEF TypeOK, Job, Messages
    <3>3. ~file'[Job(w)] /\ \A j \in Jobs : file'[j] => file[j]
      BY <3>1, <3>2 DEF TypeOK
    <3>4. \A v \in Workers \ {w} : pc'[v] = pc[v]
      BY <3>1 DEF TypeOK
    <3> QED
      BY <3>1, <3>3, <3>4, WorkerKeepsOwed
  <2>4. CASE PublishRetry(w)
    <3> DEFINE m == [job |-> Job(w), retries |-> task[w].retries + 1]
    <3>1. m \in Messages
      BY <2>4, ConstantsAssumption DEF PublishRetry, Messages, TypeOK, Job
    <3>2. queue' = [queue EXCEPT ![m] = @ + 1] /\ UNCHANGED <<upload, file, task>>
          /\ pc' = [pc EXCEPT ![w] = "done"]
      BY <2>4 DEF PublishRetry, Goto, stored
    <3>3. queue'[m] > 0 /\ \A n \in Messages : queue[n] > 0 => queue'[n] > 0
      <4> HIDE DEF m
      <4> QED
        BY <3>1, <3>2 DEF TypeOK
    <3>4. \E n \in Messages : n.job = Job(w) /\ queue'[n] > 0
      BY <3>1, <3>3
    <3>5. \A v \in Workers \ {w} : pc'[v] = pc[v]
      BY <3>2 DEF TypeOK
    <3> HIDE DEF m
    <3> QED
      BY <3>2, <3>3, <3>4, <3>5, WorkerKeepsOwed
  <2>5. CASE Acknowledge(w)
    <3>1. /\ ~Active(w) /\ UNCHANGED <<upload, file, queue>>
          /\ \A v \in Workers \ {w} : pc'[v] = pc[v] /\ task'[v] = task[v]
      BY <2>5 DEF Acknowledge, Release, Goto, Active, stored, broker, TypeOK
    <3> QED
      BY <3>1, WorkerKeepsOwed
  <2>6. CASE Redeliver(w)
    <3>1. /\ UNCHANGED <<upload, file, pc, task>>
          /\ \A m \in Messages : queue[m] > 0 => queue'[m] > 0
      BY <2>6 DEF Redeliver, TypeOK, stored, worker
    <3> QED
      BY <3>1, WorkerKeepsOwed DEF Active
  <2>7. ~LoseConnection(w) /\ ~KillWorker(w) /\ ~DeleteFails(w) /\ ~GiveUpFails(w)
          /\ ~PublishFails(w)
    BY DEF LoseConnection, KillWorker, DeleteFails, GiveUpFails, PublishFails, Fault
  <2> QED
    BY <1>2, <2>1, <2>2, <2>3, <2>4, <2>5, <2>6, <2>7
       DEF WorkerStep, WorkerFault, Complete, LoseCommit
<1>3. CASE CrashHost
  <2>1. /\ UNCHANGED <<upload, file>>
        /\ queue' = [m \in Messages |-> queue[m] + Cardinality(Held(m))]
    BY <1>3 DEF CrashHost, stored
  <2>2. ASSUME NEW m \in Messages, queue[m] > 0 \/ Held(m) # {} PROVE queue'[m] > 0
    <3>1. IsFiniteSet(Held(m))
      BY ConstantsAssumption, FS_Subset DEF Held
    <3>2. Held(m) # {} => Cardinality(Held(m)) > 0
      BY <3>1, HeldCount, FS_EmptySet
    <3>3. queue'[m] = queue[m] + Cardinality(Held(m))
      BY <2>1
    <3>4. queue[m] \in Nat /\ Cardinality(Held(m)) \in Nat
      BY HeldCount DEF TypeOK
    <3> QED
      BY <2>2, <3>2, <3>3, <3>4
  <2>3. ASSUME NEW j \in Jobs, Owed(j) PROVE Queued(j)'
    <3>1. CASE Queued(j)
      BY <2>2, <3>1 DEF Queued
    <3>2. ASSUME NEW v \in Workers, Active(v), Job(v) = j PROVE Queued(j)'
      <4>1. task[v] \in Messages /\ v \in Held(task[v])
        BY <3>2 DEF TypeOK, Held, Active
      <4> QED
        BY <2>2, <3>2, <4>1 DEF Queued, Job
    <3> QED
      BY <2>3, <3>1, <3>2 DEF Owed, Attempted
  <2> QED
    BY <2>1, <2>3 DEF NoOrphan, Owed
<1>4. CASE UNCHANGED vars
  <2>1. UNCHANGED <<upload, file, queue, pc, task>>
    BY <1>4 DEF vars
  <2> QED
    BY <2>1 DEF NoOrphan, Queued, Attempted, Active, Job
<1> QED
  BY <1>1, <1>2, <1>3, <1>4 DEF Next

(* What EventuallyDiscarded reaches, without fairness: an accepted upload  *)
(* at rest has no file, whatever requests die, containers crash, commits   *)
(* lose their answer and deliveries are repeated.  Orphans come of killed  *)
(* processes, failed deletes, refused retries and lost connections alone.  *)
THEOREM OrphansOnlyByLoss ==
  ASSUME Faults \cap {"connection", "kill", "delete", "publish"} = {}
  PROVE  Spec => []NoOrphan
<1>1. Init => NoOrphan
  BY DEF Init, NoOrphan
<1>2. TypeOK /\ QueuedIsCommitted /\ NoOrphan /\ [Next]_vars => NoOrphan'
  BY OwedStep
<1> QED
  BY <1>1, <1>2, TypeCorrect, QueuedIsCommittedHolds, PTL DEF Spec

=============================================================================
