--------------------------- MODULE MargHook_proofs ---------------------------
(***************************************************************************)
(* The hook and the lifecycle of its imports together: the order of the    *)
(* uploads and the meaning of "ok", for any runs, commands, workers and    *)
(* faults.                                                                 *)
(***************************************************************************)
EXTENDS MargHook, SyncLifecycle_refinement

(* The order of the entities is total, so the CHOOSEs mean what they say.  *)
LEMMA OrderTotal ==
  \A e, f \in Entities :
    /\ Before(e) \subseteq Entities /\ e \notin Before(e)
    /\ e = f \/ e \in Before(f) \/ f \in Before(e)
    /\ e \in Before(f) => f \notin Before(e) /\ Before(e) \subseteq Before(f)
<1>1. /\ Before("products") = {} /\ Before("batches") = {"products"}
      /\ Before("transactions") = {"products", "batches"}
  BY DEF Before
<1> QED
  BY <1>1 DEF Entities

LEMMA FirstExists ==
  ASSUME NEW es \in SUBSET Entities, es # {}
  PROVE  FirstOf(es) \in es /\ Before(FirstOf(es)) \cap es = {}
<1>1. \E e \in es : Before(e) \cap es = {}
  <2>1. CASE "products" \in es
    BY <2>1 DEF Before
  <2>2. CASE "products" \notin es /\ "batches" \in es
    <3>1. Before("batches") = {"products"}
      BY DEF Before
    <3> QED
      BY <2>2, <3>1
  <2>3. CASE "products" \notin es /\ "batches" \notin es
    <3>1. Before("transactions") = {"products", "batches"}
      BY DEF Before
    <3> QED
      BY <2>3, <3>1 DEF Entities
  <2> QED
    BY <2>1, <2>2, <2>3
<1> QED
  BY <1>1 DEF FirstOf

LEMMA LastExists ==
  ASSUME NEW es \in SUBSET Entities, es # {}
  PROVE  \E e \in es : \A f \in es : e \notin Before(f)
<1>1. /\ Before("products") = {} /\ Before("batches") = {"products"}
      /\ Before("transactions") = {"products", "batches"}
  BY DEF Before
<1>2. CASE "transactions" \in es
  BY <1>1, <1>2 DEF Entities
<1>3. CASE "transactions" \notin es /\ "batches" \in es
  BY <1>1, <1>3 DEF Entities
<1>4. CASE "transactions" \notin es /\ "batches" \notin es
  BY <1>1, <1>4 DEF Entities
<1> QED
  BY <1>2, <1>3, <1>4

LEMMA CurrentIsLast ==
  ASSUME HookTypeOK, NEW r \in Runs, sent[r] # {}
  PROVE  /\ Current(r) \in sent[r]
         /\ \A f \in sent[r] : f = Current(r) \/ f \in Before(Current(r))
<1>1. sent[r] \in SUBSET Entities
  BY DEF HookTypeOK
<1>2. Current(r) \in sent[r] /\ \A f \in sent[r] : Current(r) \notin Before(f)
  BY <1>1, LastExists DEF Current
<1> QED
  BY <1>1, <1>2, OrderTotal

(* A job of the lifecycle is a run and an entity. *)
LEMMA JobParts ==
  \A j \in Jobs : j[1] \in Runs /\ j[2] \in Entities /\ j = <<j[1], j[2]>>
  BY HookAssumption

LEMMA SelectedJobs ==
  ASSUME HookTypeOK, NEW r \in Runs, NEW e \in selected[r]
  PROVE  <<r, e>> \in Jobs
<1>1. PICK c \in Commands[r] : selected[r] = c.select
  BY DEF HookTypeOK
<1>2. e \in Entities
  BY DEF HookTypeOK
<1> QED
  BY <1>1, <1>2, HookAssumption

-----------------------------------------------------------------------------
(* Under the hook the lifecycle takes its own steps and no others. *)
LEMMA HookSteps ==
  ASSUME [HookNext]_hookVars
  PROVE  [Next]_vars
<1>1. ASSUME NEW r \in Runs, Start(r) \/ StartFails(r) \/ HookStep(r) \/ HttpFails(r)
      PROVE  UNCHANGED vars
  BY <1>1 DEF Start, StartFails, HookStep, HttpFails, UploadAnswered, PollAgain,
     PollTimesOut, PollFinished, PollFailed
<1>2. ASSUME NEW j \in Jobs, Api(j) PROVE Next
  BY <1>2 DEF Api, Next
<1>3. ASSUME NEW w \in Workers, Work(w) \/ Disturb(w) PROVE Next
  BY <1>3 DEF Work, Disturb, Next
<1>4. ASSUME CrashHost PROVE Next
  BY <1>4 DEF Next
<1>5. ASSUME UNCHANGED hookVars PROVE UNCHANGED vars
  BY <1>5 DEF hookVars
<1> QED
  BY <1>1, <1>2, <1>3, <1>4, <1>5 DEF HookNext

(* Beside the hook a job lives as SyncLifecycle says it does alone: what   *)
(* holds of the upload route and the workers holds of every hook's jobs.   *)
THEOREM HookIsLifecycle == HookSpec => Spec
<1>1. HookInit => Init
  BY DEF HookInit
<1>2. [HookNext]_hookVars => [Next]_vars
  BY HookSteps
<1> QED
  BY <1>1, <1>2, PTL DEF HookSpec, Spec

-----------------------------------------------------------------------------
(* Whatever faults happen, COMPLETED is written with an import only, and    *)
(* imports are never taken back.                                           *)
LEMMA ImportsStay ==
  ASSUME TypeOK, CompletedIsImported, [Next]_vars
  PROVE  CompletedIsImported' /\ \A j \in Jobs : imports[j] > 0 => imports'[j] > 0
<1> USE DEF CompletedIsImported, stored
<1>1. ASSUME NEW i \in Jobs, ApiStep(i) \/ RejectUpload(i) \/ AbortUpload(i)
      PROVE  /\ imports' = imports
             /\ \A j \in Jobs : log'[j].status = "COMPLETED" => log[j].status = "COMPLETED"
  <2>1. CASE CommitLog(i)
    BY <2>1 DEF CommitLog, NewLog, NoLog, TypeOK
  <2> QED
    BY <1>1, <2>1 DEF ApiStep, SaveFile, Enqueue, RejectUpload, AbortUpload
<1>2. ASSUME NEW w \in Workers, WorkerStep(w) \/ WorkerFault(w)
      PROVE  CompletedIsImported' /\ \A j \in Jobs : imports[j] > 0 => imports'[j] > 0
  <2>0. Job(w) \in Jobs /\ seen[w] \in SyncLogs /\ log[Job(w)] \in SyncLogs
    BY MessageParts DEF TypeOK, Job
  <2>1. CASE MarkRunning(w)
    <3> DEFINE new == [seen[w] EXCEPT !.status = "RUNNING", !.started = TRUE]
    <3>1. new \in SyncLogs /\ new.status = "RUNNING"
      BY <2>0, RunningLogType DEF SyncLogs
    <3>2. log' = [log EXCEPT ![Job(w)] = Flush(log[Job(w)], seen[w], new)] /\ imports' = imports
      BY <2>1 DEF MarkRunning
    <3> HIDE DEF new
    <3> QED
      BY <2>0, <3>1, <3>2, FlushStatus DEF TypeOK
  <2>2. ASSUME NEW to, Import(w, to)
        PROVE  CompletedIsImported' /\ \A j \in Jobs : imports[j] > 0 => imports'[j] > 0
    <3>1. PICK new \in SyncLogs :
            /\ log' = [log EXCEPT ![Job(w)] = Flush(log[Job(w)], seen[w], new)]
            /\ imports' = [imports EXCEPT ![Job(w)] = @ + 1]
      BY <2>2, ImportStep
    <3> QED
      BY <2>0, <3>1 DEF TypeOK
  <2>3. CASE MarkFailed(w)
    BY <2>0, <2>3 DEF MarkFailed, TypeOK, SyncLogs
  <2> QED
    BY <1>2, <2>1, <2>2, <2>3 DEF WorkerStep, WorkerFault, Receive, Load, Complete, Fatal,
       DeleteFile, GiveUp, PublishRetry, Acknowledge, LoseConnection, LoseCommit,
       DeleteFails, GiveUpFails, PublishFails, KillWorker, Redeliver
<1> QED
  BY <1>1, <1>2 DEF Next, CrashHost, vars

(* Only the API moves a request, and only the request of its job. *)
LEMMA RequestsStay ==
  ASSUME TypeOK, NEW w \in Workers, WorkerStep(w) \/ WorkerFault(w) \/ CrashHost
  PROVE  upload' = upload
<1>1. ASSUME NEW to, Import(w, to) PROVE upload' = upload
  BY <1>1 DEF Import
<1> QED
  BY <1>1 DEF WorkerStep, WorkerFault, Receive, Load, MarkRunning, Complete, Fatal, MarkFailed,
     DeleteFile, GiveUp, PublishRetry, Acknowledge, LoseConnection, LoseCommit, DeleteFails,
     GiveUpFails, PublishFails, KillWorker, Redeliver, CrashHost

(* The next upload, or "ok": what the run leaves behind is imported if it  *)
(* polls.                                                                  *)
LEMMA AdvanceStep ==
  ASSUME HookInv, NEW r \in Runs, Advance(r), sent[r] # {},
         UNCHANGED <<vars, polled, selected, catalogue>>,
         polled[r] => imports[<<r, Current(r)>>] > 0
  PROVE  HookInv'
<1> USE DEF HookInv
<1>0. /\ sent[r] \subseteq selected[r] /\ selected[r] \subseteq Entities
      /\ selected' = selected /\ polled' = polled /\ catalogue' = catalogue
      /\ imports' = imports /\ upload' = upload /\ log' = log
  BY DEF HookTypeOK, vars
<1>1. polled[r] => \A f \in sent[r] : imports[<<r, f>>] > 0
  BY CurrentIsLast DEF SentInTurn
<1>2. CASE sent[r] = selected[r] /\ End(r, "ok")
  <2>1. /\ phase' = [phase EXCEPT ![r] = "ok"] /\ sent' = sent
        /\ polls' = [polls EXCEPT ![r] = 0]
    BY <1>2 DEF End
  <2>2. HookTypeOK'
    BY <1>0, <2>1, HookAssumption DEF HookTypeOK
  <2>3. OkIsComplete'
    BY <1>0, <1>1, <1>2, <2>1 DEF OkIsComplete, HookTypeOK
  <2> QED
    BY <1>0, <2>1, <2>2, <2>3
       DEF CompletedIsImported, SentFirst, SentInOrder, SentInTurn
<1>3. CASE /\ sent[r] # selected[r]
           /\ phase' = [phase EXCEPT ![r] = "uploading"]
           /\ sent' = [sent EXCEPT ![r] = @ \cup {FirstOf(selected[r] \ @)}]
           /\ polls' = [polls EXCEPT ![r] = 0]
  <2> DEFINE new == FirstOf(selected[r] \ sent[r])
  <2>1. /\ new \in selected[r] /\ new \notin sent[r]
        /\ Before(new) \cap selected[r] \subseteq sent[r]
    <3>1. selected[r] \ sent[r] \in SUBSET Entities /\ selected[r] \ sent[r] # {}
      BY <1>0, <1>3
    <3> QED
      BY <3>1, FirstExists
  <2>2. sent' = [sent EXCEPT ![r] = sent[r] \cup {new}]
    BY <1>3
  <2> HIDE DEF new
  <2>s. \A q \in Runs : sent'[q] = IF q = r THEN sent[r] \cup {new} ELSE sent[q]
    BY <2>2 DEF HookTypeOK
  <2>3. HookTypeOK'
    <3>1. sent' \in [Runs -> SUBSET Entities]
      BY <1>0, <2>1, <2>2 DEF HookTypeOK
    <3>2. polls' \in [Runs -> 0 .. MaxPolls - 1]
      BY <1>3, HookAssumption DEF HookTypeOK
    <3>3. phase' \in [Runs -> {"idle", "uploading", "polling", "ok", "failed"}]
      BY <1>3 DEF HookTypeOK
    <3>4. \A q \in Runs : phase'[q] = IF q = r THEN "uploading" ELSE phase[q]
      BY <1>3 DEF HookTypeOK
    <3>5. ASSUME NEW q \in Runs
          PROVE  /\ sent'[q] \subseteq selected[q]
                 /\ phase'[q] = "idle" => sent'[q] = {}
                 /\ phase'[q] \in {"uploading", "polling"} => sent'[q] # {}
      <4>1. CASE q = r
        BY <1>0, <2>1, <2>s, <3>4, <4>1
      <4>2. CASE q # r
        BY <2>s, <3>4, <4>2 DEF HookTypeOK
      <4> QED
        BY <4>1, <4>2
    <3> QED
      BY <1>0, <3>1, <3>2, <3>3, <3>5 DEF HookTypeOK
  <2>4. SentInOrder'
    BY <1>0, <2>1, <2>s DEF SentInOrder
  <2>5. SentInTurn'
    <3> SUFFICES ASSUME NEW q \in Runs, polled[q],
                        NEW e \in sent'[q], NEW f \in sent'[q], f \in Before(e)
                 PROVE  imports[<<q, f>>] > 0
      BY <1>0 DEF SentInTurn
    <3>1. CASE q = r
      <4>1. f \in sent[r]
        <5>1. CASE e = new
          BY <1>0, <2>1, <2>s, <3>1, <5>1, OrderTotal
        <5>2. CASE e # new
          BY <1>0, <2>1, <2>s, <3>1, <5>2 DEF SentInOrder
        <5> QED
          BY <5>1, <5>2
      <4> QED
        BY <1>1, <3>1, <4>1
    <3>2. CASE q # r
      BY <2>s, <3>2 DEF SentInTurn
    <3> QED
      BY <3>1, <3>2
  <2>6. OkIsComplete'
    BY <1>0, <1>3, <2>s DEF OkIsComplete, HookTypeOK
  <2>7. SentFirst'
    BY <1>0, <2>s, JobParts DEF SentFirst
  <2> QED
    BY <1>0, <2>3, <2>4, <2>5, <2>6, <2>7 DEF CompletedIsImported
<1> QED
  BY <1>2, <1>3 DEF Advance

(* A run that ends without "ok", or waits, has sent what it had sent. *)
LEMMA WaitStep ==
  ASSUME HookInv, NEW r \in Runs, NEW to \in {"polling", "failed"}, NEW n \in 0 .. MaxPolls - 1,
         phase' = [phase EXCEPT ![r] = to], to = "polling" => sent[r] # {},
         polls' = [polls EXCEPT ![r] = n],
         UNCHANGED <<vars, polled, selected, sent, catalogue>>
  PROVE  HookInv'
<1> USE DEF HookInv
<1>0. imports' = imports /\ upload' = upload /\ log' = log
  BY DEF vars
<1>1. HookTypeOK'
  BY DEF HookTypeOK
<1>2. OkIsComplete'
  BY <1>0 DEF OkIsComplete, HookTypeOK
<1> QED
  BY <1>0, <1>1, <1>2 DEF CompletedIsImported, SentFirst, SentInOrder, SentInTurn

(* The lifecycle only ever adds to what has been imported. *)
LEMMA LifecycleStep ==
  ASSUME TypeOK, HookInv, Next, UNCHANGED hook, catalogue' \in [Entities -> 0 .. MaxRuns],
         \A j \in Jobs : upload'[j] # upload[j] => j[2] \in sent[j[1]]
  PROVE  HookInv'
<1> USE DEF HookInv, hook
<1>1. CompletedIsImported' /\ \A j \in Jobs : imports[j] > 0 => imports'[j] > 0
  BY ImportsStay
<1>2. \A r \in Runs : \A e \in sent[r] : <<r, e>> \in Jobs
  BY SelectedJobs DEF HookTypeOK
<1>3. HookTypeOK'
  BY DEF HookTypeOK
<1>4. SentFirst'
  BY DEF SentFirst
<1>5. SentInOrder'
  BY DEF SentInOrder
<1>6. SentInTurn'
  BY <1>1, <1>2 DEF SentInTurn
<1>7. OkIsComplete'
  BY <1>1, <1>2 DEF OkIsComplete
<1> QED
  BY <1>1, <1>3, <1>4, <1>5, <1>6, <1>7

-----------------------------------------------------------------------------
LEMMA HookInvariant == HookSpec => []HookInv
<1>1. HookInit => HookInv
  <2> SUFFICES ASSUME HookInit PROVE HookInv
    OBVIOUS
  <2>1. HookTypeOK
    BY HookAssumption DEF HookInit, HookTypeOK
  <2>2. CompletedIsImported /\ SentFirst
    BY JobParts DEF HookInit, Init, NoLog, CompletedIsImported, SentFirst
  <2> QED
    BY <2>1, <2>2 DEF HookInit, HookInv, SentInOrder, SentInTurn, OkIsComplete
<1>2. TypeOK /\ HookInv /\ [HookNext]_hookVars => HookInv'
  <2> SUFFICES ASSUME TypeOK, HookInv, [HookNext]_hookVars PROVE HookInv'
    OBVIOUS
  <2>0. HookTypeOK /\ CompletedIsImported
    BY DEF HookInv
  <2>z. 0 \in 0 .. MaxPolls - 1
    BY HookAssumption
  <2>1. ASSUME NEW r \in Runs, Start(r) PROVE HookInv'
    <3>1. PICK c \in Commands[r] :
            /\ polled' = [polled EXCEPT ![r] = c.poll]
            /\ selected' = [selected EXCEPT ![r] = c.select]
            /\ sent' = [sent EXCEPT ![r] = {FirstOf(c.select)}]
      BY <2>1 DEF Start
    <3>2. c.poll \in BOOLEAN /\ c.select \in SUBSET Entities /\ c.select # {}
      BY HookAssumption
    <3> DEFINE first == FirstOf(c.select)
    <3>3. first \in c.select /\ first \in Entities /\ Before(first) \cap c.select = {}
      BY <3>2, FirstExists
    <3>4. sent' = [sent EXCEPT ![r] = {first}]
      BY <3>1
    <3> HIDE DEF first
    <3>5. /\ phase[r] = "idle" /\ phase' = [phase EXCEPT ![r] = "uploading"]
          /\ UNCHANGED <<polls, catalogue, upload, log, imports>>
      BY <2>1 DEF Start, vars
    <3>6. sent[r] = {}
      BY <3>5 DEF HookInv, HookTypeOK
    <3>7. HookTypeOK'
      <4>1. /\ phase' \in [Runs -> {"idle", "uploading", "polling", "ok", "failed"}]
            /\ polled' \in [Runs -> BOOLEAN]
        BY <2>0, <3>1, <3>2, <3>5 DEF HookTypeOK
      <4>2. selected' \in [Runs -> SUBSET Entities] /\ sent' \in [Runs -> SUBSET Entities]
        <5>1. selected \in [Runs -> SUBSET Entities] /\ sent \in [Runs -> SUBSET Entities]
          BY <2>0 DEF HookTypeOK
        <5>2. {first} \in SUBSET Entities
          BY <3>3
        <5>3. sent' \in [Runs -> SUBSET Entities]
          BY <3>4, <5>1, <5>2
        <5>4. selected' \in [Runs -> SUBSET Entities]
          BY <3>1, <3>2, <5>1
        <5> QED
          BY <5>3, <5>4
      <4>3. polls' \in [Runs -> 0 .. MaxPolls - 1] /\ catalogue' \in [Entities -> 0 .. MaxRuns]
        BY <2>0, <3>5 DEF HookTypeOK
      <4>4. ASSUME NEW q \in Runs
            PROVE  /\ sent'[q] \subseteq selected'[q]
                   /\ selected'[q] # {} => \E d \in Commands[q] : selected'[q] = d.select
                   /\ phase'[q] = "idle" => sent'[q] = {}
                   /\ phase'[q] \in {"uploading", "polling"} => sent'[q] # {}
        <5>1. CASE q = r
          <6>1. sent'[q] = {first} /\ selected'[q] = c.select /\ phase'[q] = "uploading"
            BY <2>0, <3>1, <3>4, <3>5, <5>1 DEF HookTypeOK
          <6> QED
            BY <3>1, <3>3, <5>1, <6>1
        <5>2. CASE q # r
          <6>1. sent'[q] = sent[q] /\ selected'[q] = selected[q] /\ phase'[q] = phase[q]
            BY <2>0, <3>1, <3>4, <3>5, <5>2 DEF HookTypeOK
          <6> QED
            BY <2>0, <6>1 DEF HookTypeOK
        <5> QED
          BY <5>1, <5>2
      <4> QED
        BY <4>1, <4>2, <4>3, <4>4 DEF HookTypeOK
    <3>8. \A q \in Runs :
            /\ sent'[q] = IF q = r THEN {first} ELSE sent[q]
            /\ selected'[q] = IF q = r THEN c.select ELSE selected[q]
            /\ polled'[q] = IF q = r THEN c.poll ELSE polled[q]
            /\ phase'[q] = IF q = r THEN "uploading" ELSE phase[q]
      BY <2>0, <3>1, <3>4, <3>5 DEF HookTypeOK
    <3>9. SentFirst'
      BY <3>5, <3>6, <3>8, JobParts DEF HookInv, SentFirst
    <3>10. SentInOrder'
      BY <3>3, <3>8 DEF HookInv, SentInOrder
    <3>11. SentInTurn'
      BY <3>3, <3>5, <3>8, OrderTotal DEF HookInv, SentInTurn
    <3>12. OkIsComplete'
      BY <3>5, <3>8 DEF HookInv, OkIsComplete
    <3> QED
      BY <2>0, <3>5, <3>7, <3>9, <3>10, <3>11, <3>12 DEF HookInv, CompletedIsImported
  <2>2. ASSUME NEW r \in Runs, StartFails(r) \/ PollTimesOut(r) \/ PollFailed(r) \/ HttpFails(r)
        PROVE  HookInv'
    <3>1. /\ phase' = [phase EXCEPT ![r] = "failed"]
          /\ polls' = [polls EXCEPT ![r] = 0]
          /\ UNCHANGED <<vars, polled, selected, sent, catalogue>>
      BY <2>2 DEF StartFails, PollTimesOut, PollFailed, HttpFails, End
    <3> QED
      BY <2>z, <3>1, WaitStep
  <2>3. ASSUME NEW r \in Runs, PollAgain(r) PROVE HookInv'
    <3>1. /\ phase[r] = "polling" /\ phase' = phase
          /\ polls[r] + 1 < MaxPolls /\ polls' = [polls EXCEPT ![r] = @ + 1]
          /\ UNCHANGED <<vars, polled, selected, sent, catalogue>>
      BY <2>3 DEF PollAgain, Polls
    <3>2. polls[r] + 1 \in 0 .. MaxPolls - 1 /\ sent[r] # {}
      BY <2>0, <3>1, HookAssumption DEF HookTypeOK
    <3>3. phase' = [phase EXCEPT ![r] = "polling"]
      BY <2>0, <3>1 DEF HookTypeOK
    <3> QED
      BY <3>1, <3>2, <3>3, WaitStep
  <2>4. ASSUME NEW r \in Runs, PollFinished(r) PROVE HookInv'
    <3>1. /\ phase[r] = "polling" /\ log[<<r, Current(r)>>].status = "COMPLETED"
          /\ Advance(r) /\ UNCHANGED <<vars, polled, selected, catalogue>>
      BY <2>4 DEF PollFinished, Polls, CurrentJob
    <3>2. sent[r] # {}
      BY <2>0, <3>1 DEF HookTypeOK
    <3>3. <<r, Current(r)>> \in Jobs
      BY <2>0, <3>2, CurrentIsLast, SelectedJobs DEF HookTypeOK
    <3> QED
      BY <2>0, <3>1, <3>2, <3>3, AdvanceStep DEF CompletedIsImported
  <2>5. ASSUME NEW r \in Runs, UploadAnswered(r) PROVE HookInv'
    <3>1. sent[r] # {} /\ UNCHANGED <<vars, polled, selected, catalogue>>
      BY <2>0, <2>5 DEF UploadAnswered, HookTypeOK
    <3>2. CASE ~polled[r] /\ Advance(r)
      BY <3>1, <3>2, AdvanceStep
    <3>3. CASE /\ phase' = [phase EXCEPT ![r] = "polling"]
               /\ UNCHANGED <<sent, polls>>
      <4>1. polls' = [polls EXCEPT ![r] = polls[r]] /\ polls[r] \in 0 .. MaxPolls - 1
        BY <2>0, <3>3 DEF HookTypeOK
      <4> QED
        BY <3>1, <3>3, <4>1, WaitStep
    <3> QED
      BY <2>5, <3>2, <3>3 DEF UploadAnswered
  <2>6. ASSUME NEW j \in Jobs, Api(j) PROVE HookInv'
    <3>1. Next /\ UNCHANGED hook /\ catalogue' = catalogue
      BY <2>6 DEF Api, Next
    <3>2. \A i \in Jobs : upload'[i] # upload[i] => i = j
      BY <2>6 DEF Api, ApiStep, SaveFile, CommitLog, Enqueue, RejectUpload, AbortUpload, Request, TypeOK
    <3> QED
      BY <2>0, <2>6, <3>1, <3>2, LifecycleStep DEF Api, HookTypeOK
  <2>7. ASSUME NEW w \in Workers, Work(w) \/ Disturb(w) PROVE HookInv'
    <3>1. Next /\ UNCHANGED hook /\ upload' = upload
      BY <2>7, RequestsStay DEF Work, Disturb, Recorded, Next
    <3>2. catalogue' \in [Entities -> 0 .. MaxRuns]
      <4>1. Job(w) \in Jobs
        BY MessageParts DEF TypeOK, Job
      <4> QED
        BY <2>0, <2>7, <4>1, JobParts DEF Work, Disturb, Recorded, HookTypeOK, Runs
    <3> QED
      BY <3>1, <3>2, LifecycleStep
  <2>8. ASSUME CrashHost, UNCHANGED <<hook, catalogue>> PROVE HookInv'
    <3>1. Next /\ upload' = upload
      BY <2>8 DEF Next, CrashHost
    <3> QED
      BY <2>0, <2>8, <3>1, LifecycleStep DEF HookTypeOK
  <2>9. CASE UNCHANGED hookVars
    BY <2>9 DEF hookVars, hook, vars, HookInv, HookTypeOK, CompletedIsImported, SentFirst,
       SentInOrder, SentInTurn, OkIsComplete
  <2> QED
    BY <2>1, <2>2, <2>3, <2>4, <2>5, <2>6, <2>7, <2>8, <2>9 DEF HookNext, HookStep
<1> QED
  BY <1>1, <1>2, HookIsLifecycle, TypeCorrect, PTL DEF HookSpec

(* Every state of hook and lifecycle is well typed. *)
THEOREM HookTypeCorrect == HookSpec => []HookTypeOK
<1>1. HookInv => HookTypeOK
  BY DEF HookInv
<1> QED
  BY <1>1, HookInvariant, PTL

(* Whatever faults happen, a polling run has the rows of an entity in the  *)
(* inventory before the API sees an entity that refers to them.            *)
THEOREM DependencyOrderHolds == HookSpec => []DependencyOrder
<1>1. HookInv => DependencyOrder
  <2> SUFFICES ASSUME HookInv, NEW r \in Runs, NEW e \in selected[r], NEW f \in selected[r],
                      polled[r], f \in Before(e), upload[<<r, e>>] # "idle"
               PROVE  imports[<<r, f>>] > 0
    BY DEF DependencyOrder
  <2>1. e \in sent[r]
    BY SelectedJobs DEF HookInv, SentFirst
  <2>2. f \in sent[r]
    BY <2>1 DEF HookInv, SentInOrder
  <2> QED
    BY <2>1, <2>2 DEF HookInv, SentInTurn
<1> QED
  BY <1>1, HookInvariant, PTL

(* Whatever faults happen, "ok" of a polling run means that all it selected *)
(* is in the inventory.                                                    *)
THEOREM OkMeansImportedHolds == HookSpec => []OkMeansImported
<1>1. HookInv => OkMeansImported
  BY DEF HookInv, OkIsComplete, OkMeansImported
<1> QED
  BY <1>1, HookInvariant, PTL

(* Until a Disturbing fault, what a run brought is not overwritten by an    *)
(* earlier one, if those before it polled and reported "ok": an import     *)
(* still to come would be of a job that has one already.                   *)
THEOREM NeverSetBackHolds == HookSpec => NeverSetBack
<1> DEFINE Kept ==
      \A e \in Entities :
        calm' /\ (\A q \in 1 .. catalogue[e] - 1 : polled[q] /\ phase[q] = "ok")
          => catalogue'[e] >= catalogue[e]
<1>1. TypeOK /\ (calm => CalmFacts) /\ HookInv /\ [HookNext]_hookVars => [Kept]_hookVars
  <2> SUFFICES ASSUME TypeOK, calm => CalmFacts, HookInv, HookNext, calm',
                      NEW e \in Entities,
                      \A q \in 1 .. catalogue[e] - 1 : polled[q] /\ phase[q] = "ok"
               PROVE  catalogue'[e] >= catalogue[e]
    OBVIOUS
  <2>0. catalogue[e] \in Nat
    BY HookAssumption DEF HookInv, HookTypeOK
  <2>1. SingleInv /\ CalmInv
    BY HookSteps, HistoryWas DEF CalmFacts
  <2>2. ASSUME NEW w \in Workers, Work(w) \/ Disturb(w), catalogue'[e] # catalogue[e]
        PROVE  catalogue'[e] >= catalogue[e]
    <3> DEFINE j == Job(w)
               q == j[1]
    <3>1. /\ j \in Jobs /\ q \in Runs /\ j[2] \in Entities /\ j = <<q, j[2]>>
      BY MessageParts, JobParts DEF TypeOK, Job
    <3>2. j[2] = e /\ imports'[j] # imports[j] /\ catalogue'[e] = q
      BY <2>2 DEF Work, Disturb, Recorded
    <3>3. \E to : Import(w, to)
      <4>1. ~(Acknowledge(w) \/ KillWorker(w))
        BY <3>2, Quits
      <4> QED
        BY <2>2, <3>2, <4>1 DEF Work, Disturb, WorkerStep, WorkerFault, stored, Receive, Load,
           MarkRunning, Complete, Fatal, MarkFailed, DeleteFile, GiveUp, PublishRetry,
           LoseConnection, LoseCommit, DeleteFails, GiveUpFails, PublishFails, Redeliver
    <3>4. Active(w) /\ pc[w] = "running"
      BY <3>3 DEF Import, Goto, Active
    <3>5. imports[j] = 0
      BY <2>1, <3>4 DEF CalmInv, TurnInv, OnTurn, Open
    <3>6. upload[j] # "idle"
      BY <2>1, <3>1, <3>4 DEF SingleInv, UnqueuedUntilAnswered, Attempted
    <3>7. e \in sent[q]
      BY <3>1, <3>2, <3>6 DEF HookInv, SentFirst
    <3>8. ~(polled[q] /\ phase[q] = "ok")
      BY <3>1, <3>2, <3>5, <3>7 DEF HookInv, OkIsComplete
    <3>9. q \in Nat /\ q >= 1
      BY <3>1, HookAssumption DEF Runs
    <3> HIDE DEF q
    <3> QED
      BY <2>0, <3>2, <3>8, <3>9
  <2>3. ASSUME NEW r \in Runs, Start(r) \/ StartFails(r) \/ HookStep(r) \/ HttpFails(r)
        PROVE  catalogue' = catalogue
    BY <2>3 DEF Start, StartFails, HookStep, HttpFails, UploadAnswered, PollAgain,
       PollTimesOut, PollFinished, PollFailed
  <2>4. ASSUME NEW j \in Jobs, Api(j) PROVE catalogue' = catalogue
    BY <2>4 DEF Api
  <2> QED
    BY <2>0, <2>2, <2>3, <2>4 DEF HookNext
<1> QED
  BY <1>1, HookIsLifecycle, TypeCorrect, CalmFactsHold, HookInvariant, PTL
     DEF HookSpec, NeverSetBack

=============================================================================
