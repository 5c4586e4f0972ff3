------------------------------ MODULE ImportJob ------------------------------
(***************************************************************************)
(* What an import promises the client that uploaded it, without workers,   *)
(* messages or sessions: a stored file is attempted a bounded number of    *)
(* times, imported at most once, and discarded when it is done with.  The  *)
(* promise ends with the first disturbance it is not made for.             *)
(***************************************************************************)
EXTENDS Integers

CONSTANTS Jobs, MaxRetries

VARIABLES
  status,    \* status[j]: what the status route answers
  file,      \* file[j]: the source file is stored
  imported,  \* imported[j]: its rows are in the inventory tables
  attempts,  \* attempts[j]: attempts begun
  undisturbed  \* no delivery was repeated, no lost commit or failed delete

vars == <<status, file, imported, attempts, undisturbed>>

Init ==
  /\ status = [j \in Jobs |-> "NONE"]
  /\ file = [j \in Jobs |-> FALSE]
  /\ imported = [j \in Jobs |-> FALSE]
  /\ attempts = [j \in Jobs |-> 0]
  /\ undisturbed = TRUE

Store(j) ==
  /\ status[j] = "NONE" /\ ~file[j]
  /\ file' = [file EXCEPT ![j] = TRUE]
  /\ UNCHANGED <<status, imported, attempts>>

Submit(j) ==
  /\ status[j] = "NONE" /\ file[j]
  /\ status' = [status EXCEPT ![j] = "PENDING"]
  /\ UNCHANGED <<file, imported, attempts>>

(* An attempt begins only on a stored file, never after a success. *)
Attempt(j) ==
  /\ status[j] \in {"PENDING", "RUNNING", "FAILED"} /\ file[j]
  /\ attempts[j] <= MaxRetries
  /\ attempts' = [attempts EXCEPT ![j] = @ + 1]
  /\ UNCHANGED <<status, file, imported>>

Start(j) ==
  /\ status[j] \in {"PENDING", "FAILED"} /\ file[j] /\ attempts[j] > 0
  /\ status' = [status EXCEPT ![j] = "RUNNING"]
  /\ UNCHANGED <<file, imported, attempts>>

(* Rows and status change together: no client sees COMPLETED without the   *)
(* rows, or the rows of an import that failed.                             *)
Succeed(j) ==
  /\ status[j] = "RUNNING" /\ file[j] /\ ~imported[j]
  /\ status' = [status EXCEPT ![j] = "COMPLETED"]
  /\ imported' = [imported EXCEPT ![j] = TRUE]
  /\ UNCHANGED <<file, attempts>>

Fail(j) ==
  /\ status[j] = "RUNNING" /\ file[j]
  /\ status' = [status EXCEPT ![j] = "FAILED"]
  /\ UNCHANGED <<file, imported, attempts>>

Discard(j) ==
  /\ file[j]
  /\ imported[j] \/ attempts[j] = MaxRetries + 1
  /\ file' = [file EXCEPT ![j] = FALSE]
  /\ UNCHANGED <<status, imported, attempts>>

Progress(j) ==
  Store(j) \/ Submit(j) \/ Attempt(j) \/ Start(j) \/ Succeed(j) \/ Fail(j) \/ Discard(j)

Next == IF undisturbed' THEN undisturbed /\ \E j \in Jobs : Progress(j) ELSE TRUE

Spec == Init /\ [][Next]_vars

=============================================================================
