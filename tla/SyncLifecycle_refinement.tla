----------------------- MODULE SyncLifecycle_refinement -----------------------
(***************************************************************************)
(* Until a Disturbing fault, the lifecycle of an import implements         *)
(* ImportJob, for every set of jobs and workers and any other faults.      *)
(***************************************************************************)
EXTENDS SyncLifecycle_proofs

(* What each write to the row makes of its status. *)
LEMMA RunningStep ==
  ASSUME TypeOK, SessionFresh, NEW w \in Workers, MarkRunning(w)
  PROVE  /\ pc[w] = "loaded"
         /\ \E to \in {"running", "failing"} : pc' = [pc EXCEPT ![w] = to]
         /\ log'[Job(w)].status = "RUNNING"
         /\ \A j \in Jobs : j # Job(w) => log'[j] = log[j]
         /\ UNCHANGED <<upload, file, imports, task, queue, attempts>>
<1> DEFINE new == [seen[w] EXCEPT !.status = "RUNNING", !.started = TRUE]
<1>0. Job(w) \in Jobs /\ seen[w] \in SyncLogs /\ log[Job(w)] \in SyncLogs
  BY MessageParts DEF TypeOK, Job
<1>1. /\ pc[w] = "loaded"
      /\ \E to \in {"running", "failing"} : pc' = [pc EXCEPT ![w] = to]
      /\ log' = [log EXCEPT ![Job(w)] = Flush(log[Job(w)], seen[w], new)]
      /\ UNCHANGED <<upload, file, imports, task, queue, attempts>>
  BY MarkStep
<1>2. new \in SyncLogs /\ new.status = "RUNNING"
  BY <1>0, RunningLogType DEF SyncLogs
<1>3. seen[w] = log[Job(w)]
  BY <1>1 DEF SessionFresh
<1> HIDE DEF new
<1>4. Flush(log[Job(w)], seen[w], new) = new
  BY <1>0, <1>2, <1>3, FlushFresh
<1> QED
  BY <1>0, <1>1, <1>2, <1>4 DEF TypeOK

LEMMA CompleteStep ==
  ASSUME TypeOK, SessionFresh, NEW w \in Workers, Complete(w)
  PROVE  /\ pc[w] = "running" /\ pc' = [pc EXCEPT ![w] = "imported"]
         /\ log'[Job(w)].status = "COMPLETED"
         /\ \A j \in Jobs : j # Job(w) => log'[j] = log[j]
         /\ imports' = [imports EXCEPT ![Job(w)] = @ + 1]
         /\ UNCHANGED <<upload, file, task, queue, attempts>>
<1>0. Job(w) \in Jobs /\ seen[w] \in SyncLogs /\ log[Job(w)] \in SyncLogs
  BY MessageParts DEF TypeOK, Job
<1>1. PICK new \in SyncLogs :
        /\ new.status = "COMPLETED"
        /\ log' = [log EXCEPT ![Job(w)] = Flush(log[Job(w)], seen[w], new)]
  BY ImportStep DEF Complete
<1>2. /\ pc[w] = "running" /\ pc' = [pc EXCEPT ![w] = "imported"]
      /\ imports' = [imports EXCEPT ![Job(w)] = @ + 1]
      /\ UNCHANGED <<upload, file, task, queue, attempts>>
  BY ImportStep DEF Complete
<1>3. seen[w] = log[Job(w)]
  BY <1>2 DEF SessionFresh
<1>4. Flush(log[Job(w)], seen[w], new) = new
  BY <1>0, <1>1, <1>3, FlushFresh
<1> QED
  BY <1>0, <1>1, <1>2, <1>4 DEF TypeOK

LEMMA FailedStep ==
  ASSUME TypeOK, NEW w \in Workers, MarkFailed(w)
  PROVE  /\ pc[w] = "failing" /\ pc' = [pc EXCEPT ![w] = "raised"]
         /\ log'[Job(w)].status = "FAILED"
         /\ \A j \in Jobs : j # Job(w) => log'[j] = log[j]
         /\ UNCHANGED <<upload, file, imports, task, queue, attempts>>
<1>0. Job(w) \in Jobs /\ log[Job(w)] \in SyncLogs
  BY MessageParts DEF TypeOK, Job
<1> QED
  BY <1>0 DEF MarkFailed, Goto, broker, TypeOK, SyncLogs

(* The worker steps that change nothing but the progress of a worker.      *)
LEMMA QuietStep ==
  ASSUME TypeOK, NEW w \in Workers, calm',
         Load(w) \/ Fatal(w) \/ LoseConnection(w) \/ GiveUpFails(w) \/ PublishFails(w)
  PROVE  /\ Active(w)
         /\ \E to \in {"loaded", "failing", "raised", "done"} :
              /\ pc' = [pc EXCEPT ![w] = to]
              /\ to = "failing" => pc[w] = "running"
              /\ to = "raised" => pc[w] \in {"received", "loaded", "failing"}
              /\ to = "loaded" => pc[w] = "received"
         /\ UNCHANGED <<upload, file, log, imports, task, queue, attempts>>
<1> USE DEF Goto, stored, broker, Active
<1>1. CASE Load(w)
  BY <1>1 DEF Load
<1>2. CASE Fatal(w)
  BY <1>2 DEF Fatal
<1>3. CASE LoseConnection(w)
  BY <1>3 DEF LoseConnection
<1>4. CASE GiveUpFails(w)
  BY <1>4 DEF GiveUpFails
<1>5. CASE PublishFails(w)
  BY <1>5 DEF PublishFails
<1> QED
  BY <1>1, <1>2, <1>3, <1>4, <1>5

(* The faults that leave the life of a job calm: nothing else may happen.  *)
LEMMA CalmSteps ==
  ASSUME TypeOK, calm', NEW w \in Workers, WorkerFault(w)
  PROVE  LoseConnection(w) \/ GiveUpFails(w) \/ PublishFails(w) \/ KillWorker(w)
  BY DEF WorkerFault, LoseCommit, DeleteFails, Redeliver, Fault, Disturbing, Repeating

LEMMA NoCalmCrash == ASSUME CrashHost PROVE ~calm'
  BY DEF CrashHost, Fault, Disturbing, Repeating

-----------------------------------------------------------------------------
(* A worker that has the one delivery of its job touches no other job: its *)
(* step keeps the invariant if it keeps it for its own turn.               *)
LEMMA OwnTurn ==
  ASSUME TypeOK, SingleInv, CalmInv, NEW w \in Workers, Active(w), NEW to,
         pc' = [pc EXCEPT ![w] = to],
         UNCHANGED <<upload, task, queue, attempts>>,
         \A j \in Jobs : j # Job(w) =>
           log'[j] = log[j] /\ imports'[j] = imports[j] /\ file'[j] = file[j],
         to \notin {"idle", "done"} =>
           /\ IF to = "imported"
              THEN log'[Job(w)].status = "COMPLETED" /\ imports'[Job(w)] > 0
              ELSE /\ log'[Job(w)].status \in {"PENDING", "RUNNING", "FAILED"}
                   /\ imports'[Job(w)] = 0
           /\ to \in {"running", "failing"} => log'[Job(w)].status = "RUNNING"
  PROVE  CalmInv'
<1>0. task[w] \in Messages /\ Job(w) \in Jobs
  BY MessageParts DEF TypeOK, Job
<1>1. upload[Job(w)] = "answered"
  BY <1>0 DEF SingleInv, UnqueuedUntilAnswered, Attempted
<1>2. StageInv'
  <2>1. ASSUME NEW j \in Jobs, j # Job(w)
        PROVE  /\ upload'[j] \in {"idle", "saved"} => log'[j].status = "NONE"
               /\ upload'[j] = "idle" => ~file'[j]
               /\ upload'[j] \in {"idle", "saved", "committed"}
                    => imports'[j] = 0 /\ attempts'[j] = 0
               /\ upload'[j] = "committed" => Open(j)'
    BY <2>1 DEF CalmInv, StageInv, Open
  <2> QED
    BY <1>0, <1>1, <2>1 DEF StageInv
<1>3. ASSUME NEW m \in Messages, queue'[m] > 0
      PROVE  Due(m)'
  <2>1. queue[m] > 0 /\ m.job # Job(w) /\ m.job \in Jobs
    BY <1>3, MessageParts DEF SingleInv, OneDelivery
  <2> QED
    BY <2>1 DEF CalmInv, TurnInv, Due, OnTurn, Open
<1>4. ASSUME NEW v \in Workers, Active(v)'
      PROVE  OnTurn(v)'
  <2>1. CASE v = w
    <3>1. pc'[v] = to /\ to \notin {"idle", "done"}
      BY <1>4, <2>1 DEF TypeOK, Active
    <3>2. task'[v] = task[w] /\ attempts[Job(w)] = task[w].retries + 1
      BY <2>1 DEF CalmInv, TurnInv, Due, OnTurn
    <3> QED
      BY <2>1, <3>1, <3>2 DEF OnTurn, Open, Job
  <2>2. CASE v # w
    <3>1. pc'[v] = pc[v] /\ Active(v) /\ task'[v] = task[v]
      BY <1>4, <2>2 DEF TypeOK, Active
    <3>2. task[v].job # Job(w) /\ task[v].job \in Jobs
      BY <2>2, <3>1, MessageParts DEF SingleInv, OneDelivery, TypeOK, Job
    <3> QED
      BY <3>1, <3>2 DEF CalmInv, TurnInv, Due, OnTurn, Open, Job
  <2> QED
    BY <2>1, <2>2
<1> QED
  BY <1>2, <1>3, <1>4 DEF CalmInv, TurnInv

LEMMA CalmStep ==
  ASSUME TypeOK, calm', SingleInv, SessionFresh, CalmInv, [Next]_vars
  PROVE  CalmInv'
<1> USE DEF stored, broker, worker, environment, Goto, Request
<1>1. ASSUME NEW j \in Jobs, ApiStep(j) \/ RejectUpload(j) \/ AbortUpload(j)
      PROVE  CalmInv'
  <2>0. upload[j] # "answered" => ~Queued(j) /\ ~Attempted(j)
    BY DEF SingleInv, UnqueuedUntilAnswered
  <2>1. CASE SaveFile(j) \/ RejectUpload(j) \/ AbortUpload(j)
    <3>1. /\ UNCHANGED <<log, imports, queue, attempts, pc, task>>
          /\ \A i \in Jobs : i # j => upload'[i] = upload[i] /\ file'[i] = file[i]
          /\ upload'[j] \in {"saved", "rejected", "aborted"}
          /\ upload'[j] = "saved" => upload[j] = "idle"
      BY <2>1 DEF SaveFile, RejectUpload, AbortUpload, TypeOK
    <3>2. StageInv'
      BY <3>1 DEF CalmInv, StageInv, Open
    <3>3. TurnInv'
      BY <3>1 DEF CalmInv, TurnInv, Due, OnTurn, Open, Active, Job
    <3> QED
      BY <3>2, <3>3 DEF CalmInv
  <2>2. CASE CommitLog(j)
    <3>1. /\ upload[j] = "saved" /\ upload' = [upload EXCEPT ![j] = "committed"]
          /\ log' = [log EXCEPT ![j] = NewLog]
          /\ UNCHANGED <<file, imports, queue, attempts, pc, task>>
      BY <2>2 DEF CommitLog
    <3>2. log'[j].status = "PENDING" /\ imports[j] = 0 /\ attempts[j] = 0
      BY <3>1 DEF NewLog, NoLog, CalmInv, StageInv, TypeOK
    <3>3. StageInv'
      BY <3>1, <3>2 DEF CalmInv, StageInv, Open, TypeOK
    <3>4. ASSUME NEW m \in Messages, queue[m] > 0 PROVE m.job # j
      BY <2>0, <3>1, <3>4 DEF Queued
    <3>5. ASSUME NEW v \in Workers, Active(v) PROVE Job(v) # j
      BY <2>0, <3>1, <3>5 DEF Attempted
    <3>6. TurnInv'
      BY <3>1, <3>4, <3>5, MessageParts DEF CalmInv, TurnInv, Due, OnTurn, Open, Active, Job, TypeOK
    <3> QED
      BY <3>3, <3>6 DEF CalmInv
  <2>3. CASE Enqueue(j)
    <3> DEFINE first == [job |-> j, retries |-> 0]
    <3>1. first \in Messages /\ first.job = j /\ first.retries = 0
      BY MessageParts, ConstantsAssumption
    <3>2. /\ upload[j] = "committed" /\ upload' = [upload EXCEPT ![j] = "answered"]
          /\ queue' = [queue EXCEPT ![first] = @ + 1]
          /\ UNCHANGED <<file, log, imports, attempts, pc, task>>
      BY <2>3 DEF Enqueue
    <3> HIDE DEF first
    <3>3. StageInv'
      BY <3>2 DEF CalmInv, StageInv, Open, TypeOK
    <3>4. attempts[j] = 0 /\ Open(j)
      BY <3>2 DEF CalmInv, StageInv
    <3>5. \A m \in Messages : queue'[m] > 0 => queue[m] > 0 \/ m = first
      BY <3>1, <3>2 DEF TypeOK
    <3>6. TurnInv'
      BY <3>1, <3>2, <3>4, <3>5 DEF CalmInv, TurnInv, Due, OnTurn, Open, Active, Job
    <3> QED
      BY <3>3, <3>6 DEF CalmInv
  <2> QED
    BY <1>1, <2>1, <2>2, <2>3 DEF ApiStep
<1>2. ASSUME NEW w \in Workers, WorkerStep(w) \/ WorkerFault(w) PROVE CalmInv'
  <2>0. task[w] \in Messages /\ Job(w) \in Jobs
    BY MessageParts DEF TypeOK, Job
  <2>1. ASSUME NEW m \in Messages, Receive(w, m) PROVE CalmInv'
    <3>0. queue[m] = 1
      BY <2>1 DEF Receive, SingleInv, OneDelivery
    <3>1. /\ pc[w] = "idle" /\ pc' = [pc EXCEPT ![w] = "received"]
          /\ queue' = [queue EXCEPT ![m] = 0]
          /\ task' = [task EXCEPT ![w] = m]
          /\ attempts' = [attempts EXCEPT ![m.job] = @ + 1]
          /\ UNCHANGED <<upload, file, log, imports>>
      BY <2>1, <3>0 DEF Receive
    <3>2. m.job \in Jobs /\ upload[m.job] = "answered" /\ Open(m.job)
          /\ attempts[m.job] = m.retries
      BY <3>0, MessageParts DEF SingleInv, UnqueuedUntilAnswered, Queued, CalmInv, TurnInv, Due, OnTurn
    <3>3. StageInv'
      BY <3>1, <3>2 DEF CalmInv, StageInv, Open, TypeOK
    <3>4. ASSUME NEW n \in Messages, queue'[n] > 0
          PROVE  Due(n)'
      <4>1. queue[n] > 0 /\ n # m
        BY <3>1, <3>4 DEF TypeOK
      <4>2. n.job # m.job /\ n.job \in Jobs
        BY <3>0, <4>1, MessageParts DEF SingleInv, OneDelivery
      <4> QED
        BY <3>1, <4>1, <4>2 DEF CalmInv, TurnInv, Due, OnTurn, Open, TypeOK
    <3>5. ASSUME NEW v \in Workers, Active(v)'
          PROVE  OnTurn(v)'
      <4>1. CASE v = w
        <5>1. task'[v] = m /\ pc'[v] = "received" /\ attempts'[m.job] = m.retries + 1
          BY <3>1, <3>2, <4>1 DEF TypeOK
        <5> QED
          BY <3>1, <3>2, <5>1, <4>1 DEF OnTurn, Open, Job
      <4>2. CASE v # w
        <5>1. Active(v) /\ task'[v] = task[v] /\ pc'[v] = pc[v]
          BY <3>1, <3>5, <4>2 DEF Active, TypeOK
        <5>2. task[v].job # m.job /\ task[v].job \in Jobs
          BY <3>0, <5>1, MessageParts DEF SingleInv, OneDelivery, Job, TypeOK
        <5> QED
          BY <3>1, <5>1, <5>2 DEF CalmInv, TurnInv, Due, OnTurn, Open, Job, TypeOK
      <4> QED
        BY <4>1, <4>2
    <3> QED
      BY <3>3, <3>4, <3>5 DEF CalmInv, TurnInv
  <2>2. CASE PublishRetry(w)
    <3> DEFINE next == [job |-> Job(w), retries |-> task[w].retries + 1]
    <3>1. next \in Messages /\ next.job = Job(w) /\ next.retries = task[w].retries + 1
      <4>1. task[w].retries + 1 \in 0 .. MaxRetries
        BY <2>0, <2>2, MessageParts, ConstantsAssumption DEF PublishRetry
      <4> QED
        BY <2>0, <4>1, MessageParts
    <3>2. /\ queue' = [queue EXCEPT ![next] = @ + 1]
          /\ pc[w] = "raised" /\ pc' = [pc EXCEPT ![w] = "done"]
          /\ UNCHANGED <<upload, file, log, imports, attempts, task>>
      BY <2>2 DEF PublishRetry
    <3> HIDE DEF next
    <3>3. StageInv'
      BY <3>2 DEF CalmInv, StageInv, Open
    <3>4. attempts[Job(w)] = next.retries /\ Open(Job(w))
      BY <3>1, <3>2 DEF CalmInv, TurnInv, Due, OnTurn, Active
    <3>5. \A m \in Messages : queue'[m] > 0 => queue[m] > 0 \/ m = next
      BY <3>1, <3>2 DEF TypeOK
    <3>6. \A v \in Workers : Active(v)' => Active(v) /\ pc'[v] = pc[v]
      BY <3>2 DEF Active, TypeOK
    <3>7. TurnInv'
      BY <3>1, <3>2, <3>4, <3>5, <3>6 DEF CalmInv, TurnInv, Due, OnTurn, Open, Job
    <3> QED
      BY <3>3, <3>7 DEF CalmInv
  <2>3. CASE MarkRunning(w)
    <3>1. Active(w) /\ pc[w] # "imported"
      BY <2>3 DEF MarkRunning, Active
    <3>2. imports[Job(w)] = 0
      BY <3>1 DEF CalmInv, TurnInv, Due, OnTurn, Open
    <3> QED
      BY <2>3, <3>1, <3>2, RunningStep, OwnTurn
  <2>4. CASE Complete(w)
    <3>1. Active(w)
      BY <2>4, CompleteStep DEF Active
    <3>2. imports'[Job(w)] > 0 /\ \A j \in Jobs : j # Job(w) => imports'[j] = imports[j]
      BY <2>0, <2>4, CompleteStep DEF TypeOK
    <3> QED
      BY <2>4, <3>1, <3>2, CompleteStep, OwnTurn
  <2>5. CASE MarkFailed(w)
    <3>1. Active(w) /\ pc[w] = "failing"
      BY <2>5, FailedStep DEF Active
    <3>2. imports[Job(w)] = 0
      BY <3>1 DEF CalmInv, TurnInv, Due, OnTurn, Open
    <3> QED
      BY <2>5, <3>1, <3>2, FailedStep, OwnTurn
  <2>6. CASE DeleteFile(w) \/ GiveUp(w)
    <3>1. /\ Active(w) /\ pc' = [pc EXCEPT ![w] = "done"]
          /\ UNCHANGED <<upload, log, imports, task, queue, attempts>>
          /\ \A j \in Jobs : j # Job(w) => file'[j] = file[j]
      BY <2>0, <2>6 DEF DeleteFile, GiveUp, Active, TypeOK
    <3> QED
      BY <3>1, OwnTurn
  <2>7. CASE Load(w) \/ Fatal(w) \/ LoseConnection(w) \/ GiveUpFails(w) \/ PublishFails(w)
    <3>1. Active(w) /\ UNCHANGED <<upload, file, log, imports, task, queue, attempts>>
      BY <2>7, QuietStep
    <3>2. PICK to \in {"loaded", "failing", "raised", "done"} :
            /\ pc' = [pc EXCEPT ![w] = to]
            /\ to = "failing" => pc[w] = "running"
            /\ to = "raised" => pc[w] \in {"received", "loaded", "failing"}
            /\ to = "loaded" => pc[w] = "received"
      BY <2>7, QuietStep
    <3>3. /\ to # "done" => Open(Job(w))
          /\ to = "failing" => log[Job(w)].status = "RUNNING"
      BY <3>1, <3>2 DEF CalmInv, TurnInv, Due, OnTurn
    <3> QED
      BY <3>1, <3>2, <3>3, OwnTurn DEF Open
  <2>8. CASE Acknowledge(w) \/ KillWorker(w)
    <3>1. /\ pc' = [pc EXCEPT ![w] = "idle"]
          /\ task' = [task EXCEPT ![w] = NoMessage]
          /\ UNCHANGED <<upload, file, log, imports, queue, attempts>>
      BY <2>8, Quits
    <3>2. \A v \in Workers : Active(v)' => Active(v) /\ pc'[v] = pc[v] /\ task'[v] = task[v]
      BY <3>1 DEF Active, TypeOK
    <3>3. StageInv'
      BY <3>1 DEF CalmInv, StageInv, Open
    <3>4. TurnInv'
      BY <3>1, <3>2 DEF CalmInv, TurnInv, Due, OnTurn, Open, Job
    <3> QED
      BY <3>3, <3>4 DEF CalmInv
  <2> QED
    BY <1>2, <2>1, <2>2, <2>3, <2>4, <2>5, <2>6, <2>7, <2>8, CalmSteps DEF WorkerStep
<1>3. CASE CrashHost
  BY <1>3, NoCalmCrash
<1>4. CASE UNCHANGED vars
  BY <1>4 DEF vars, CalmInv, StageInv, TurnInv, Due, OnTurn, Open, Active, Job
<1> QED
  BY <1>1, <1>2, <1>3, <1>4 DEF Next

LEMMA CalmInvariant == Spec => [](calm => CalmInv /\ once)
<1>1. Init => (calm => CalmInv /\ once)
  BY DEF Init, CalmInv, StageInv, TurnInv, Active, NoLog
<1>2. /\ TypeOK /\ (once => SingleInv) /\ (once => AccountInv)
      /\ (calm => CalmInv /\ once) /\ [Next]_vars
      => (calm => CalmInv /\ once)'
  BY CalmStep, HistoryWas DEF AccountInv
<1> QED
  BY <1>1, <1>2, TypeCorrect, SingleInvariant, AccountInvariant, PTL DEF Spec

(* What the steps of a calm life have to go by. *)
CalmFacts == TypeOK /\ SingleInv /\ SessionFresh /\ FileKept /\ StoredUntilAnswered /\ CalmInv

LEMMA CalmFactsHold == Spec => [](calm => CalmFacts)
<1>1. /\ TypeOK /\ (calm => CalmInv /\ once)
      /\ (once => SingleInv) /\ (once => RetainInv) /\ (once => AccountInv)
      => (calm => CalmFacts)
  BY DEF CalmFacts, RetainInv, AccountInv
<1> QED
  BY <1>1, TypeCorrect, SingleInvariant, RetainInvariant, AccountInvariant, CalmInvariant, PTL

-----------------------------------------------------------------------------
(* COMPLETED is final until a Disturbing fault: the attempts of a job that *)
(* has completed are over, and no delivery of it is left.                  *)
THEOREM CompletedIsFinalHolds == Spec => CompletedIsFinal
<1>1. TypeOK /\ (calm => CalmFacts) /\ [Next]_vars
      => [\A j \in Jobs : calm' /\ log[j].status = "COMPLETED" => log'[j] = log[j]]_vars
  <2> SUFFICES ASSUME TypeOK, calm => CalmFacts, Next, calm',
                      NEW j \in Jobs, log[j].status = "COMPLETED"
               PROVE  log'[j] = log[j]
    OBVIOUS
  <2>0. TypeOK /\ SingleInv /\ SessionFresh /\ CalmInv
    BY HistoryWas DEF CalmFacts
  <2> USE <2>0
  <2>1. ASSUME NEW i \in Jobs, ApiStep(i) \/ RejectUpload(i) \/ AbortUpload(i)
        PROVE  log'[j] = log[j]
    <3>1. CASE CommitLog(i)
      <4>1. i # j
        BY <3>1 DEF CommitLog, Request, CalmInv, StageInv
      <4> QED
        BY <3>1, <4>1 DEF CommitLog, TypeOK
    <3> QED
      BY <2>1, <3>1 DEF ApiStep, SaveFile, Enqueue, RejectUpload, AbortUpload, stored
  <2>2. ASSUME NEW w \in Workers, WorkerStep(w) \/ WorkerFault(w)
        PROVE  log'[j] = log[j]
    <3>1. ASSUME MarkRunning(w) \/ Complete(w) \/ MarkFailed(w) PROVE log'[j] = log[j]
      <4>1. pc[w] \in {"loaded", "running", "failing"}
        BY <3>1, RunningStep, CompleteStep, FailedStep
      <4>2. Job(w) # j
        BY <4>1 DEF CalmInv, TurnInv, OnTurn, Open, Active
      <4> QED
        BY <3>1, <4>2, RunningStep, CompleteStep, FailedStep
    <3>2. CASE Acknowledge(w) \/ KillWorker(w)
      BY <3>2, Quits
    <3> QED
      BY <2>2, <3>1, <3>2, CalmSteps
         DEF WorkerStep, Receive, Load, Fatal, DeleteFile, GiveUp, PublishRetry,
             LoseConnection, GiveUpFails, PublishFails, stored
  <2>3. ASSUME CrashHost PROVE FALSE
    BY <2>3, NoCalmCrash
  <2> QED
    BY <2>1, <2>2, <2>3 DEF Next
<1> QED
  BY <1>1, TypeCorrect, CalmFactsHold, PTL DEF Spec, CompletedIsFinal

-----------------------------------------------------------------------------
(* The step simulation: every calm step of the lifecycle is a step of      *)
(* ImportJob or leaves the client's view alone.                            *)
LEMMA Simulates ==
  ASSUME TypeOK, calm => CalmFacts, [Next]_vars, calm'
  PROVE  (\E j \in Jobs : Abstract!Progress(j)) \/ UNCHANGED Abstract!vars
<1>0. CalmFacts /\ calm
  BY HistoryWas
<1> USE <1>0 DEF CalmFacts
<1> DEFINE status == [j \in Jobs |-> log[j].status]
           imported == [j \in Jobs |-> imports[j] > 0]
<1>q. ASSUME UNCHANGED <<file, log, imports, attempts>> PROVE UNCHANGED Abstract!vars
  BY <1>q, HistoryWas DEF Abstract!vars
<1>h. calm' = calm
  BY HistoryWas
<1>1. ASSUME NEW j \in Jobs, ApiStep(j) \/ RejectUpload(j) \/ AbortUpload(j)
      PROVE  Abstract!Progress(j) \/ UNCHANGED Abstract!vars
  <2>1. CASE SaveFile(j)
    <3>1. /\ status[j] = "NONE" /\ ~file[j]
          /\ file' = [file EXCEPT ![j] = TRUE]
          /\ UNCHANGED <<log, imports, attempts>>
      BY <2>1 DEF SaveFile, Request, CalmInv, StageInv, broker
    <3> QED
      BY <3>1, <1>h DEF Abstract!Progress, Abstract!Store
  <2>2. CASE CommitLog(j)
    <3>1. /\ status[j] = "NONE" /\ file[j]
          /\ log' = [log EXCEPT ![j] = NewLog] /\ NewLog.status = "PENDING"
          /\ UNCHANGED <<file, imports, attempts>>
      BY <2>2 DEF CommitLog, Request, CalmInv, StageInv, StoredUntilAnswered, broker,
                  NewLog, NoLog
    <3>2. status' = [status EXCEPT ![j] = "PENDING"]
      BY <3>1 DEF TypeOK
    <3> QED
      BY <3>1, <3>2, <1>h DEF Abstract!Progress, Abstract!Submit
  <2>3. CASE Enqueue(j) \/ RejectUpload(j) \/ AbortUpload(j)
    BY <2>3, <1>q DEF Enqueue, RejectUpload, AbortUpload, stored, broker
  <2> QED
    BY <1>1, <2>1, <2>2, <2>3 DEF ApiStep
<1>2. ASSUME NEW w \in Workers, WorkerStep(w) \/ WorkerFault(w)
      PROVE  (\E j \in Jobs : Abstract!Progress(j)) \/ UNCHANGED Abstract!vars
  <2>0. task[w] \in Messages /\ Job(w) \in Jobs /\ task[w].retries \in 0 .. MaxRetries
    BY MessageParts DEF TypeOK, Job
  <2>i. PICK i \in Jobs : i = Job(w)
    BY <2>0
  <2>1. ASSUME NEW m \in Messages, Receive(w, m)
        PROVE  \E j \in Jobs : Abstract!Progress(j)
    <3>1. m.job \in Jobs /\ m.retries \in 0 .. MaxRetries
      BY MessageParts
    <3>2. queue[m] > 0 /\ attempts' = [attempts EXCEPT ![m.job] = @ + 1]
          /\ UNCHANGED <<file, log, imports>>
      BY <2>1 DEF Receive, stored
    <3>3. file[m.job]
      BY <3>1, <3>2 DEF FileKept, Queued
    <3>4. status[m.job] \in {"PENDING", "RUNNING", "FAILED"} /\ attempts[m.job] <= MaxRetries
      BY <3>1, <3>2, ConstantsAssumption DEF CalmInv, TurnInv, Due, Open
    <3> QED
      BY <3>1, <3>2, <3>3, <3>4, <1>h DEF Abstract!Progress, Abstract!Attempt
  <2>2. CASE MarkRunning(w)
    <3>1. /\ pc[w] = "loaded" /\ log'[Job(w)].status = "RUNNING"
          /\ \A j \in Jobs : j # Job(w) => log'[j] = log[j]
          /\ UNCHANGED <<file, imports, attempts>>
      BY <2>2, RunningStep
    <3>2. Active(w) /\ file[Job(w)]
      BY <2>0, <3>1 DEF Active, FileKept, Attempted
    <3>3. status[Job(w)] \in {"PENDING", "RUNNING", "FAILED"} /\ attempts[Job(w)] > 0
      BY <2>0, <3>1, <3>2, ConstantsAssumption DEF CalmInv, TurnInv, OnTurn, Open
    <3>4. status' = [status EXCEPT ![Job(w)] = "RUNNING"]
      BY <2>0, <3>1
    <3>5. CASE status[Job(w)] = "RUNNING"
      <4>1. status' = status
        BY <3>4, <3>5
      <4> QED
        BY <3>1, <4>1, <1>h DEF Abstract!vars
    <3>6. CASE status[Job(w)] \in {"PENDING", "FAILED"}
      <4>1. Abstract!Start(i)
        BY <2>i, <3>1, <3>2, <3>3, <3>4, <3>6 DEF Abstract!Start
      <4> QED
        BY <4>1 DEF Abstract!Progress
    <3> QED
      BY <3>3, <3>5, <3>6
  <2>3. CASE Complete(w)
    <3>1. /\ pc[w] = "running" /\ log'[Job(w)].status = "COMPLETED"
          /\ \A j \in Jobs : j # Job(w) => log'[j] = log[j]
          /\ imports' = [imports EXCEPT ![Job(w)] = @ + 1]
          /\ UNCHANGED <<file, attempts>>
      BY <2>3, CompleteStep
    <3>2. log[Job(w)].status = "RUNNING" /\ imports[Job(w)] = 0 /\ file[Job(w)]
      BY <2>0, <3>1 DEF Active, CalmInv, TurnInv, OnTurn, Open, FileKept, Attempted
    <3>3. status' = [status EXCEPT ![Job(w)] = "COMPLETED"]
      BY <2>0, <3>1
    <3>4. imported' = [imported EXCEPT ![Job(w)] = TRUE]
      <4>1. /\ imports'[Job(w)] > 0
            /\ \A j \in Jobs : j # Job(w) => imports'[j] = imports[j]
        BY <2>0, <3>1 DEF TypeOK
      <4>2. \A j \in Jobs : (imports'[j] > 0) = (IF j = Job(w) THEN TRUE ELSE imports[j] > 0)
        BY <4>1
      <4> QED
        BY <4>2, Zenon
    <3>5. Abstract!Succeed(i)
      <4>1. status[i] = "RUNNING" /\ file[i] /\ UNCHANGED <<file, attempts>> /\ calm' = calm
        BY <2>i, <3>1, <3>2, <1>h
      <4>2. ~imported[i]
        <5>1. ~(imports[i] > 0)
          BY <2>i, <3>2
        <5> QED
          BY <5>1, Zenon
      <4>3. status' = [status EXCEPT ![i] = "COMPLETED"]
        BY <2>i, <3>3, Zenon
      <4>4. imported' = [imported EXCEPT ![i] = TRUE]
        BY <2>i, <3>4, Zenon
      <4> QED
        BY <4>1, <4>2, <4>3, <4>4, Zenon DEF Abstract!Succeed
    <3> QED
      BY <3>5 DEF Abstract!Progress
  <2>4. CASE MarkFailed(w)
    <3>1. /\ pc[w] = "failing" /\ log'[Job(w)].status = "FAILED"
          /\ \A j \in Jobs : j # Job(w) => log'[j] = log[j]
          /\ UNCHANGED <<file, imports, attempts>>
      BY <2>4, FailedStep
    <3>2. log[Job(w)].status = "RUNNING" /\ file[Job(w)]
      BY <2>0, <3>1 DEF Active, CalmInv, TurnInv, OnTurn, FileKept, Attempted
    <3>3. status' = [status EXCEPT ![Job(w)] = "FAILED"]
      BY <2>0, <3>1
    <3>4. Abstract!Fail(i)
      BY <2>i, <3>1, <3>2, <3>3 DEF Abstract!Fail
    <3> QED
      BY <3>4 DEF Abstract!Progress
  <2>5. CASE DeleteFile(w) \/ GiveUp(w)
    <3>1. /\ Active(w) /\ file' = [file EXCEPT ![Job(w)] = FALSE]
          /\ pc[w] = "imported" \/ task[w].retries >= MaxRetries
          /\ UNCHANGED <<log, imports, attempts>>
      BY <2>5 DEF DeleteFile, GiveUp, Goto, Active, broker
    <3>2. file[Job(w)] /\ (imports[Job(w)] > 0 \/ attempts[Job(w)] = MaxRetries + 1)
      BY <2>0, <3>1, ConstantsAssumption
         DEF FileKept, Attempted, CalmInv, TurnInv, OnTurn
    <3>3. Abstract!Discard(i)
      BY <2>i, <3>1, <3>2 DEF Abstract!Discard
    <3> QED
      BY <3>3 DEF Abstract!Progress
  <2>6. CASE PublishRetry(w) \/ Acknowledge(w) \/ KillWorker(w) \/ Load(w) \/ Fatal(w)
             \/ LoseConnection(w) \/ GiveUpFails(w) \/ PublishFails(w)
    BY <2>6, <1>q, Quits, QuietStep DEF PublishRetry, stored
  <2> QED
    BY <1>2, <2>1, <2>2, <2>3, <2>4, <2>5, <2>6, CalmSteps, MessageParts DEF WorkerStep
<1>3. ASSUME CrashHost PROVE FALSE
  BY <1>3, NoCalmCrash
<1>4. CASE UNCHANGED vars
  BY <1>4, <1>q DEF vars
<1> QED
  BY <1>1, <1>2, <1>3, <1>4 DEF Next

(* Until a Disturbing fault an upload keeps the promise of ImportJob: at   *)
(* most 1 + MaxRetries attempts, each with the file in place, at most one  *)
(* import, and the file discarded only after it or after the last attempt. *)
THEOREM ImplementsImportJobHolds == Spec => ImplementsImportJob
<1>1. Init => Abstract!Init
  <2> SUFFICES ASSUME Init PROVE Abstract!Init
    OBVIOUS
  <2>1. \A j \in Jobs : log[j].status = "NONE"
    BY DEF Init, NoLog
  <2>2. \A j \in Jobs : (imports[j] > 0) = FALSE
    BY DEF Init
  <2>3. /\ file = [j \in Jobs |-> FALSE]
        /\ attempts = [j \in Jobs |-> 0]
        /\ calm = TRUE
    BY DEF Init
  <2>4. [j \in Jobs |-> log[j].status] = [j \in Jobs |-> "NONE"]
    BY <2>1
  <2>5. [j \in Jobs |-> imports[j] > 0] = [j \in Jobs |-> FALSE]
    BY <2>2, Zenon
  <2> QED
    BY <2>3, <2>4, <2>5 DEF Abstract!Init
<1>2. TypeOK /\ (calm => CalmFacts) /\ [Next]_vars => [Abstract!Next]_(Abstract!vars)
  <2> SUFFICES ASSUME TypeOK, calm => CalmFacts, [Next]_vars
               PROVE  Abstract!Next \/ UNCHANGED Abstract!vars
    OBVIOUS
  <2>1. CASE calm'
    BY <2>1, Simulates, HistoryWas DEF Abstract!Next
  <2>2. CASE ~calm'
    BY <2>2 DEF Abstract!Next
  <2> QED
    BY <2>1, <2>2
<1> QED
  BY <1>1, <1>2, TypeCorrect, CalmFactsHold, PTL DEF Spec, ImplementsImportJob, Abstract!Spec

=============================================================================
