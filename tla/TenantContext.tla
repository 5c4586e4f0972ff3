---------------------------- MODULE TenantContext ----------------------------
(***************************************************************************)
(* Row-level security and the connection pools: which tenant each          *)
(* statement of a session runs for.  The tenant is a setting of the        *)
(* connection (app.current_tenant_id, set with is_local = false): it       *)
(* reverts if the transaction that set it rolls back, outlives one that    *)
(* commits, and stays on the connection when that returns to the pool.     *)
(*                                                                         *)
(* The API process serves requests concurrently (get_tenant_db); a worker  *)
(* process runs imports (process_sync) and cleanups (delete_upload) one    *)
(* after another.  Each process has a pool of its own.                     *)
(***************************************************************************)
EXTENDS Integers, FiniteSets

CONSTANTS
  Tenants,
  Requests, Syncs, Cleanups,   \* sessions, by the code that opens them
  Tenant,                      \* Tenant[s]: the tenant session s works for
  ApiPool, WorkerPool,         \* connections the two pools may open
  MaxReplaced                  \* bound: pooled connections found dead

Sessions == Requests \cup Syncs \cup Cleanups
Connections == ApiPool \cup WorkerPool

NoTenant == "no tenant"
NoConnection == "no connection"

ASSUME TenantAssumption ==
  /\ Requests \cap Syncs = {} /\ Requests \cap Cleanups = {} /\ Syncs \cap Cleanups = {}
  /\ ApiPool \cap WorkerPool = {}
  /\ Tenant \in [Sessions -> Tenants]
  /\ NoTenant \notin Tenants /\ NoConnection \notin Connections
  /\ MaxReplaced \in Nat

VARIABLES
  pc,        \* pc[s]: the next statement of session s
  conn,      \* conn[s]: the connection of the open transaction of s
  opened,    \* connections the pools have opened
  setting,   \* setting[c]: the committed tenant setting of connection c
  current,   \* current[c]: the setting as the open transaction of c sees it
  scope,     \* history: scope[s], the tenants that statements of s ran for
  cut,       \* history: sessions that lost a pooled connection while open
  replaced   \* connections replaced so far

vars == <<pc, conn, opened, setting, current, scope, cut, replaced>>
history == <<scope, cut, replaced>>

Steps == {"idle", "set", "count", "page", "reset", "get", "running", "rows", "commit",
          "rollback", "refresh", "fail", "close", "done"}

TypeOK ==
  /\ pc \in [Sessions -> Steps]
  /\ conn \in [Sessions -> Connections \cup {NoConnection}]
  /\ opened \subseteq Connections
  /\ setting \in [Connections -> Tenants \cup {NoTenant}]
  /\ current \in [Connections -> Tenants \cup {NoTenant}]
  /\ scope \in [Sessions -> SUBSET (Tenants \cup {NoTenant})]
  /\ cut \subseteq Sessions
  /\ replaced \in 0 .. MaxReplaced

Init ==
  /\ pc = [s \in Sessions |-> "idle"]
  /\ conn = [s \in Sessions |-> NoConnection]
  /\ opened = {}
  /\ setting = [c \in Connections |-> NoTenant]
  /\ current = [c \in Connections |-> NoTenant]
  /\ scope = [s \in Sessions |-> {}]
  /\ cut = {}
  /\ replaced = 0

-----------------------------------------------------------------------------
(* The pools. *)

PoolOf(s) == IF s \in Requests THEN ApiPool ELSE WorkerPool
Held(c) == \E s \in Sessions : conn[s] = c
Open(s) == pc[s] \notin {"idle", "done"}

Goto(s, from, to) == pc[s] = from /\ pc' = [pc EXCEPT ![s] = to]

(* The first statement of a transaction takes an idle connection, or opens *)
(* one if none is idle; the others run on the connection it took.          *)
RunsOn(s, c) ==
  \/ conn[s] # NoConnection /\ c = conn[s]
  \/ /\ conn[s] = NoConnection
     /\ c \in PoolOf(s) /\ ~Held(c)
     /\ c \in opened \/ \A d \in PoolOf(s) \cap opened : Held(d)

Take(s, c) == conn' = [conn EXCEPT ![s] = c] /\ opened' = opened \cup {c}

(* A statement that changes the setting, for this transaction at least. *)
Assign(s, tenant) ==
  \E c \in Connections :
    /\ RunsOn(s, c) /\ Take(s, c)
    /\ current' = [current EXCEPT ![c] = tenant]
    /\ UNCHANGED <<setting, history>>

(* A statement on tenant tables: the policies compare with current[c]. *)
Query(s, c) ==
  /\ RunsOn(s, c) /\ Take(s, c)
  /\ scope' = [scope EXCEPT ![s] = @ \cup {current[c]}]
  /\ UNCHANGED <<setting, current, cut, replaced>>

(* The transaction ends and the connection returns to the pool. *)
End(s, values) ==
  /\ conn' = [conn EXCEPT ![s] = NoConnection]
  /\ setting' = [c \in Connections |-> IF c = conn[s] THEN values[c] ELSE setting[c]]
  /\ current' = [c \in Connections |-> IF c = conn[s] THEN values[c] ELSE current[c]]
  /\ UNCHANGED <<opened, history>>

EndByCommit(s) == End(s, current)
EndByRollback(s) == End(s, setting)

(* pool_pre_ping finds an idle connection dead and opens another.  One that *)
(* dies under a session makes its statement raise (Raise), goes back to    *)
(* the pool with the rollback, and is replaced here before its next use.   *)
Replace(c) ==
  /\ replaced < MaxReplaced
  /\ c \in opened /\ ~Held(c)
  /\ replaced' = replaced + 1
  /\ setting' = [setting EXCEPT ![c] = NoTenant]
  /\ current' = [current EXCEPT ![c] = NoTenant]
  /\ cut' = cut \cup {s \in Sessions : Open(s) /\ c \in PoolOf(s)}
  /\ UNCHANGED <<pc, conn, opened, scope>>

-----------------------------------------------------------------------------
(* A worker process runs one task at a time (prefork, asyncio.run). *)
Begin(s) ==
  /\ s \in Requests \/ \A t \in Syncs \cup Cleanups : ~Open(t)
  /\ Goto(s, "idle", "set")
  /\ UNCHANGED <<conn, opened, setting, current, history>>

(* Bug: delete_upload does not set the tenant. *)
SetTenantForImportsOnly(s) ==
  /\ Goto(s, "set", IF s \in Requests THEN "count" ELSE "get")
  /\ IF s \in Cleanups THEN UNCHANGED <<conn, opened, setting, current, history>>
     ELSE Assign(s, Tenant[s])

(* Bug: the tenant is taken from something that has none. *)
SetTenantOfNobody(s) ==
  /\ Goto(s, "set", IF s \in Requests THEN "count" ELSE "get")
  /\ Assign(s, "None")

(* set_tenant_context *)
SetTenant(s) ==
  /\ Goto(s, "set", IF s \in Requests THEN "count" ELSE "get")
  /\ Assign(s, Tenant[s])

(* Bug: the route commits between its queries. *)
CountAndCommit(s) ==
  /\ Goto(s, "count", "page")
  /\ scope' = [scope EXCEPT ![s] = @ \cup {current[conn[s]]}]
  /\ conn' = [conn EXCEPT ![s] = NoConnection]
  /\ setting' = [setting EXCEPT ![conn[s]] = current[conn[s]]]
  /\ UNCHANGED <<opened, current, cut, replaced>>

(* list_products: two queries in the transaction that set the tenant. *)
Count(s) == \E c \in Connections : Query(s, c) /\ Goto(s, "count", "page")

Page(s) == \E c \in Connections : Query(s, c) /\ Goto(s, "page", "reset")

(* reset_tenant_context, in get_tenant_db's finally block. *)
Reset(s) == Goto(s, "reset", "close") /\ Assign(s, NoTenant)

(* db.get(SyncLog): found only under the tenant of the row. *)
Get(s) ==
  \E c \in Connections :
    /\ Query(s, c)
    /\ Goto(s, "get", IF s \in Syncs /\ current[c] = Tenant[s] THEN "running" ELSE "close")

(* Bug: the setting is local to the transaction (is_local = true). *)
MarkRunningLocal(s) ==
  /\ Goto(s, "running", "rows")
  /\ EndByRollback(s)

(* RUNNING is committed, and the connection goes back to the pool. *)
MarkRunning(s) ==
  /\ Goto(s, "running", "rows")
  /\ EndByCommit(s)

(* The statements of the import.  Without its tenant the update of the     *)
(* sync_logs row matches nothing, and the import raises.                   *)
ImportRows(s) ==
  \E c \in Connections :
    /\ Query(s, c)
    /\ \E to \in {"rows", "commit", "rollback"} :
         Goto(s, "rows", to) /\ (to # "rollback" => current[c] = Tenant[s])

Complete(s) ==
  /\ Goto(s, "commit", "close")
  /\ EndByCommit(s)

(* The fatal branch: rollback, refresh, FAILED.  Row-level security hides  *)
(* the row from a session that has lost its tenant: refresh raises.        *)
Rollback(s) ==
  /\ Goto(s, "rollback", "refresh")
  /\ EndByRollback(s)

Refresh(s) ==
  \E c \in Connections :
    /\ Query(s, c)
    /\ Goto(s, "refresh", IF current[c] = Tenant[s] THEN "fail" ELSE "close")

MarkFailed(s) ==
  /\ Goto(s, "fail", "close")
  /\ EndByCommit(s)

(* Something raises: a request resets its tenant and closes; an import     *)
(* rolls back, or outside its try block just closes, as a cleanup does.    *)
Raise(s) ==
  /\ \/ \E from \in {"count", "page"} : Goto(s, from, "reset")
     \/ \E from \in {"rows", "commit"} : Goto(s, from, "rollback")
     \/ \E from \in {"set", "reset", "get", "running", "refresh", "fail"} : Goto(s, from, "close")
  /\ UNCHANGED <<conn, opened, setting, current, history>>

(* AsyncSession.close rolls an open transaction back. *)
Close(s) ==
  /\ Goto(s, "close", "done")
  /\ EndByRollback(s)

Next ==
  \/ \E s \in Sessions :
       \/ Begin(s) \/ SetTenant(s) \/ Count(s) \/ Page(s) \/ Reset(s)
       \/ Get(s) \/ MarkRunning(s) \/ ImportRows(s) \/ Complete(s)
       \/ Rollback(s) \/ Refresh(s) \/ MarkFailed(s) \/ Raise(s) \/ Close(s)
  \/ \E c \in Connections : Replace(c)

Spec == Init /\ [][Next]_vars

-----------------------------------------------------------------------------
(* Properties. *)

(* No statement of a session runs for another tenant, although connections *)
(* are reused and the worker's keep the tenant of their last import: the   *)
(* policies then show and accept that tenant's rows only, or none.         *)
OwnTenantOnly == \A s \in Sessions : scope[s] \subseteq {Tenant[s], NoTenant}

(* Every query of a request runs for the tenant of its user: none falls    *)
(* into a transaction that has no tenant and shows an empty catalogue.     *)
RequestsHaveTheirTenant == \A s \in Requests : scope[s] \subseteq {Tenant[s]}

(* A connection that goes back to the API's pool carries no tenant         *)
(* (reset_tenant_context: "to prevent cross-request leakage").             *)
NothingLeftForRequests == \A c \in ApiPool : ~Held(c) => setting[c] = NoTenant

(* An import or a cleanup runs without its tenant only after a pooled      *)
(* connection was replaced under it: the commit of RUNNING returns the     *)
(* connection, but the tenant is found on it again.                        *)
UnscopedOnlyAfterReplacement ==
  \A s \in Syncs \cup Cleanups : NoTenant \in scope[s] => s \in cut

-----------------------------------------------------------------------------
(* What the proofs of TenantContext_proofs add to the properties to make   *)
(* them inductive.                                                         *)

Tasks == Syncs \cup Cleanups

(* A connection serves one open session of its process; between two        *)
(* transactions nothing of the last one is left but its committed setting. *)
PoolInv ==
  /\ \A s, t \in Sessions : conn[s] = conn[t] /\ conn[s] # NoConnection => s = t
  /\ \A s \in Sessions :
       conn[s] # NoConnection => conn[s] \in PoolOf(s) \cap opened /\ Open(s)
  /\ \A c \in Connections : ~Held(c) => current[c] = setting[c]
  /\ \A c \in Connections : c \notin opened => setting[c] = NoTenant

(* One task at a time, and so one connection, in a worker process. *)
SerialInv ==
  /\ \A s, t \in Tasks : Open(s) /\ Open(t) => s = t
  /\ \A c, d \in WorkerPool \cap opened : c = d

(* A request keeps the transaction that set its tenant, and rolls it back. *)
RequestInv ==
  /\ \A s \in Requests :
       /\ pc[s] \in {"idle", "set", "count", "page", "reset", "close", "done"}
       /\ pc[s] \in {"count", "page", "reset"}
            => conn[s] # NoConnection /\ current[conn[s]] = Tenant[s]
  /\ \A c \in ApiPool : setting[c] = NoTenant

(* A task has its tenant in the transaction that set it, and after the     *)
(* commit of RUNNING on the one connection of its process.                 *)
TaskInv ==
  \A s \in Tasks :
    /\ pc[s] \notin {"count", "page", "reset"}
    /\ pc[s] \in {"get", "running"}
         => conn[s] # NoConnection /\ current[conn[s]] = Tenant[s]
    /\ pc[s] \in {"rows", "commit", "rollback", "refresh", "fail"}
         => /\ WorkerPool \cap opened # {}
            /\ \A c \in WorkerPool \cap opened :
                 /\ {setting[c], current[c]} \subseteq {Tenant[s], NoTenant}
                 /\ s \notin cut => setting[c] = Tenant[s] /\ current[c] = Tenant[s]

TenantInv ==
  /\ PoolInv /\ SerialInv /\ RequestInv /\ TaskInv
  /\ OwnTenantOnly /\ RequestsHaveTheirTenant /\ UnscopedOnlyAfterReplacement

=============================================================================
