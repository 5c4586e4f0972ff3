------------------------------- MODULE MargHook -------------------------------
(***************************************************************************)
(* The Marg ERP hook beside the lifecycle of its imports: a run converts   *)
(* the exports it finds, uploads them in dependency order and, unless told *)
(* not to, polls each job before it uploads the next.                      *)
(*                                                                         *)
(* A job is a run and an entity.  The operator starts runs one after       *)
(* another (the supported workflow); a run that has given up on an answer  *)
(* leaves its request to the API and its job to the workers.               *)
(***************************************************************************)
EXTENDS SyncLifecycle

CONSTANTS
  MaxRuns,   \* bound: runs the operator starts
  Commands,  \* Commands[r]: the command lines run r may be given
  MaxPolls   \* status requests before a run gives up (90 in the code)

Entities == {"products", "batches", "transactions"}
Runs == 1 .. MaxRuns

ASSUME HookAssumption ==
  /\ MaxRuns \in Nat /\ MaxPolls \in Nat \ {0}
  /\ \A r \in Runs : Commands[r] \subseteq [poll : BOOLEAN, select : (SUBSET Entities) \ {{}}]
  /\ Jobs = {j \in Runs \X Entities : \E c \in Commands[j[1]] : j[2] \in c.select}

VARIABLES
  phase,      \* phase[r]: where main is in run r
  polled,     \* polled[r]: run r polls (no --no-poll)
  selected,   \* selected[r]: the entities the command of r selects
  sent,       \* sent[r]: the entities r has requested an upload for
  polls,      \* polls[r]: status requests answered for the last of them
  catalogue   \* history: catalogue[e] is the run whose e was committed last

hook == <<phase, polled, selected, sent, polls>>
hookVars == <<vars, hook, catalogue>>

HookTypeOK ==
  /\ phase \in [Runs -> {"idle", "uploading", "polling", "ok", "failed"}]
  /\ polled \in [Runs -> BOOLEAN]
  /\ selected \in [Runs -> SUBSET Entities]
  /\ sent \in [Runs -> SUBSET Entities]
  /\ polls \in [Runs -> 0 .. MaxPolls - 1]
  /\ catalogue \in [Entities -> 0 .. MaxRuns]
  /\ \A r \in Runs :
       /\ sent[r] \subseteq selected[r]
       /\ selected[r] # {} => \E c \in Commands[r] : selected[r] = c.select
       /\ phase[r] = "idle" => sent[r] = {}
       /\ phase[r] \in {"uploading", "polling"} => sent[r] # {}

HookInit ==
  /\ Init
  /\ phase = [r \in Runs |-> "idle"]
  /\ polled = [r \in Runs |-> TRUE]
  /\ selected = [r \in Runs |-> {}]
  /\ sent = [r \in Runs |-> {}]
  /\ polls = [r \in Runs |-> 0]
  /\ catalogue = [e \in Entities |-> 0]

Ended(r) == phase[r] \in {"ok", "failed"}

(* The order of _selected_entities. *)
Before(e) ==
  CASE e = "products" -> {}
    [] e = "batches" -> {"products"}
    [] e = "transactions" -> {"products", "batches"}

(* Bug: the other way round. *)
LastOf(es) == CHOOSE e \in es : \A f \in es : e \notin Before(f)

FirstOf(es) == CHOOSE e \in es : Before(e) \cap es = {}

(* The last entity sent, whose job the run uploads or polls. *)
Current(r) == CHOOSE e \in sent[r] : \A f \in sent[r] : e \notin Before(f)
CurrentJob(r) == <<r, Current(r)>>

-----------------------------------------------------------------------------
End(r, how) ==
  /\ phase' = [phase EXCEPT ![r] = how]
  /\ polls' = [polls EXCEPT ![r] = 0]
  /\ UNCHANGED sent

(* The request for the next upload is sent, or the run is over. *)
Advance(r) ==
  \/ sent[r] = selected[r] /\ End(r, "ok")
  \/ /\ sent[r] # selected[r]
     /\ phase' = [phase EXCEPT ![r] = "uploading"]
     /\ sent' = [sent EXCEPT ![r] = @ \cup {FirstOf(selected[r] \ @)}]
     /\ polls' = [polls EXCEPT ![r] = 0]

OthersEnded(r) == \A q \in 1 .. r - 1 : Ended(q)

(* The login is refused, or no selected export exists. *)
StartFails(r) ==
  /\ phase[r] = "idle" /\ OthersEnded(r)
  /\ End(r, "failed")
  /\ UNCHANGED <<vars, polled, selected, catalogue>>

Start(r) ==
  /\ phase[r] = "idle" /\ OthersEnded(r)
  /\ \E c \in Commands[r] :
       /\ polled' = [polled EXCEPT ![r] = c.poll]
       /\ selected' = [selected EXCEPT ![r] = c.select]
       /\ sent' = [sent EXCEPT ![r] = {FirstOf(c.select)}]
  /\ phase' = [phase EXCEPT ![r] = "uploading"]
  /\ UNCHANGED <<vars, polls, catalogue>>

(* The job id arrives: the job is polled, or the next upload begins. *)
UploadAnswered(r) ==
  /\ phase[r] = "uploading" /\ upload[CurrentJob(r)] = "answered"
  /\ \/ ~polled[r] /\ Advance(r)
     \/ /\ polled[r]
        /\ phase' = [phase EXCEPT ![r] = "polling"]
        /\ UNCHANGED <<sent, polls>>
  /\ UNCHANGED <<vars, polled, selected, catalogue>>

Polls(r, statuses) == phase[r] = "polling" /\ log[CurrentJob(r)].status \in statuses

(* Bug: a run polls until there is an answer. *)
PollAgainUnbounded(r) ==
  /\ Polls(r, {"PENDING", "RUNNING"})
  /\ polls' = [polls EXCEPT ![r] = @ + 1]
  /\ UNCHANGED <<vars, phase, polled, selected, sent, catalogue>>

(* A status request finds the job unfinished: the run sleeps. *)
PollAgain(r) ==
  /\ Polls(r, {"PENDING", "RUNNING"}) /\ polls[r] + 1 < MaxPolls
  /\ polls' = [polls EXCEPT ![r] = @ + 1]
  /\ UNCHANGED <<vars, phase, polled, selected, sent, catalogue>>

(* TimeoutError after the last request. *)
PollTimesOut(r) ==
  /\ Polls(r, {"PENDING", "RUNNING"}) /\ polls[r] + 1 = MaxPolls
  /\ End(r, "failed")
  /\ UNCHANGED <<vars, polled, selected, catalogue>>

(* Bug: a poll ends with any answer that is not an error. *)
PollFinishedAtFirst(r) ==
  /\ Polls(r, {"PENDING", "RUNNING", "COMPLETED"})
  /\ Advance(r)
  /\ UNCHANGED <<vars, polled, selected, catalogue>>

PollFinished(r) ==
  /\ Polls(r, {"COMPLETED"})
  /\ Advance(r)
  /\ UNCHANGED <<vars, polled, selected, catalogue>>

(* Bug: the status of the job is not looked at. *)
PollFailedIgnored(r) ==
  /\ Polls(r, {"FAILED"})
  /\ Advance(r)
  /\ UNCHANGED <<vars, polled, selected, catalogue>>

(* FAILED ends the run, although a retry may still be queued. *)
PollFailed(r) ==
  /\ Polls(r, {"FAILED"})
  /\ End(r, "failed")
  /\ UNCHANGED <<vars, polled, selected, catalogue>>

(* No answer for 45 seconds, an HTTP error, an expired token: the run ends, *)
(* whatever becomes of the request.                                        *)
HttpFails(r) ==
  /\ phase[r] \in {"uploading", "polling"}
  /\ End(r, "failed")
  /\ UNCHANGED <<vars, polled, selected, catalogue>>

HookStep(r) ==
  \/ UploadAnswered(r)
  \/ PollAgain(r)
  \/ PollTimesOut(r)
  \/ PollFinished(r)
  \/ PollFailed(r)

-----------------------------------------------------------------------------
(* The API handles what was sent; the workers handle what is queued. *)

Api(j) ==
  /\ j[2] \in sent[j[1]]
  /\ ApiStep(j) \/ RejectUpload(j) \/ AbortUpload(j)
  /\ UNCHANGED <<hook, catalogue>>

(* A committed import of upserts replaces what the catalogue held. *)
Recorded(w) ==
  /\ catalogue' = [e \in Entities |->
       IF Job(w)[2] = e /\ imports'[Job(w)] # imports[Job(w)] THEN Job(w)[1] ELSE catalogue[e]]
  /\ UNCHANGED hook

Work(w) == WorkerStep(w) /\ Recorded(w)
Disturb(w) == WorkerFault(w) /\ Recorded(w)

HookNext ==
  \/ \E r \in Runs : Start(r) \/ StartFails(r) \/ HookStep(r) \/ HttpFails(r)
  \/ \E j \in Jobs : Api(j)
  \/ \E w \in Workers : Work(w) \/ Disturb(w)
  \/ CrashHost /\ UNCHANGED <<hook, catalogue>>

HookSpec == HookInit /\ [][HookNext]_hookVars

-----------------------------------------------------------------------------
(* Properties. *)

(* Whatever faults happen, a run that polls has the rows of an entity in   *)
(* the inventory before the API sees the upload of an entity that refers   *)
(* to them: no batch or transaction is rejected for a product of its own   *)
(* run (nexus_marg_sync.py:72-76).                                         *)
DependencyOrder ==
  \A r \in Runs : \A e, f \in selected[r] :
    polled[r] /\ f \in Before(e) /\ upload[<<r, e>>] # "idle"
      => imports[<<r, f>>] > 0

(* Whatever faults happen, a run that polls and reports "ok" has every     *)
(* entity it selected in the inventory.                                    *)
OkMeansImported ==
  \A r \in Runs : polled[r] /\ phase[r] = "ok"
    => \A e \in selected[r] : imports[<<r, e>>] > 0

(* Until a Disturbing fault, what a run has brought is never overwritten by *)
(* what an earlier one brought, if all the runs before it polled and       *)
(* reported "ok": only a retry of a failed job, or a job nobody waited     *)
(* for, is imported behind a newer one.                                    *)
NeverSetBack ==
  [][\A e \in Entities :
       calm' /\ (\A q \in 1 .. catalogue[e] - 1 : polled[q] /\ phase[q] = "ok")
         => catalogue'[e] >= catalogue[e]]_hookVars

-----------------------------------------------------------------------------
(* What the proofs of MargHook_proofs add to the properties. *)

CompletedIsImported == \A j \in Jobs : log[j].status = "COMPLETED" => imports[j] > 0

SentFirst == \A j \in Jobs : upload[j] # "idle" => j[2] \in sent[j[1]]

SentInOrder ==
  \A r \in Runs : \A e \in sent[r] : Before(e) \cap selected[r] \subseteq sent[r]

(* All a polling run has sent is imported, but for the last entity. *)
SentInTurn ==
  \A r \in Runs : polled[r] =>
    \A e, f \in sent[r] : f \in Before(e) => imports[<<r, f>>] > 0

OkIsComplete ==
  \A r \in Runs : phase[r] = "ok" =>
    /\ sent[r] = selected[r] /\ selected[r] # {}
    /\ polled[r] => \A e \in sent[r] : imports[<<r, e>>] > 0

HookInv ==
  HookTypeOK /\ CompletedIsImported /\ SentFirst /\ SentInOrder /\ SentInTurn /\ OkIsComplete

=============================================================================
