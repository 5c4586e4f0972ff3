------------------------ MODULE TenantContext_proofs ------------------------
(***************************************************************************)
(* Proofs about TenantContext for every set of tenants, sessions and       *)
(* connections.  A step is a step of one of five classes: a session goes   *)
(* on without a statement, assigns the setting, queries, or ends its       *)
(* transaction; or an idle connection is replaced.                         *)
(***************************************************************************)
EXTENDS TenantContext, TLAPS

USE DEF Sessions, Connections, Tasks

(* Requests use one pool, imports and cleanups the other. *)
LEMMA Parts ==
  /\ \A s \in Sessions : Tenant[s] \in Tenants /\ Tenant[s] # NoTenant
  /\ \A s \in Requests : s \notin Tasks /\ PoolOf(s) = ApiPool
  /\ \A s \in Tasks : s \notin Requests /\ PoolOf(s) = WorkerPool
  /\ \A c \in WorkerPool : c \notin ApiPool
  /\ NoConnection \notin Connections
  BY TenantAssumption DEF PoolOf

(* The connection a statement runs on is the session's own or an idle one. *)
LEMMA RunsOnOwn ==
  ASSUME TypeOK, PoolInv, NEW s \in Sessions, NEW c \in Connections, RunsOn(s, c)
  PROVE  /\ c \in PoolOf(s)
         /\ conn[s] # NoConnection => c = conn[s]
         /\ \A t \in Sessions : conn[t] = c => t = s
         /\ conn[s] = NoConnection => current[c] = setting[c]
<1>1. CASE conn[s] # NoConnection
  BY <1>1 DEF RunsOn, PoolInv, TypeOK
<1>2. CASE conn[s] = NoConnection
  BY <1>2 DEF RunsOn, PoolInv, Held, TypeOK
<1> QED
  BY <1>1, <1>2

(* What every step keeps of the types. *)
LEMMA TypeStep ==
  ASSUME TypeOK, [Next]_vars
  PROVE  TypeOK'
<1> USE DEF TypeOK
<1>0. CASE UNCHANGED vars
  BY <1>0 DEF vars, history
<1>1. ASSUME NEW s \in Sessions, NEW from, NEW to \in Steps, Goto(s, from, to)
      PROVE  pc' \in [Sessions -> Steps]
  BY <1>1 DEF Goto
<1>2. ASSUME NEW s \in Sessions, NEW tenant \in Tenants \cup {NoTenant}, Assign(s, tenant),
             pc' \in [Sessions -> Steps]
      PROVE  TypeOK'
  BY <1>2 DEF Assign, Take, history
<1>3. ASSUME NEW s \in Sessions, NEW c \in Connections, Query(s, c),
             pc' \in [Sessions -> Steps]
      PROVE  TypeOK'
  BY <1>3 DEF Query, Take
<1>4. ASSUME NEW s \in Sessions, EndByCommit(s) \/ EndByRollback(s),
             pc' \in [Sessions -> Steps]
      PROVE  TypeOK'
  BY <1>4 DEF EndByCommit, EndByRollback, End, history
<1>5. ASSUME NEW c \in Connections, Replace(c)
      PROVE  TypeOK'
  BY <1>5, TenantAssumption DEF Replace
<1>6. ASSUME NEW s \in Sessions,
             Begin(s) \/ SetTenant(s) \/ Count(s) \/ Page(s) \/ Reset(s)
               \/ Get(s) \/ MarkRunning(s) \/ ImportRows(s) \/ Complete(s)
               \/ Rollback(s) \/ Refresh(s) \/ MarkFailed(s) \/ Raise(s) \/ Close(s)
      PROVE  TypeOK'
  <2>1. CASE Begin(s)
    BY <2>1 DEF Begin, Goto, Steps, history
  <2>2. CASE SetTenant(s)
    BY <2>2, <1>1, <1>2, Parts DEF SetTenant, Steps
  <2>3. CASE Count(s) \/ Page(s)
    BY <2>3, <1>1, <1>3 DEF Count, Page, Steps
  <2>4. CASE Reset(s)
    BY <2>4, <1>1, <1>2 DEF Reset, Steps
  <2>5. CASE Get(s)
    BY <2>5, <1>1, <1>3 DEF Get, Steps
  <2>6. CASE ImportRows(s)
    BY <2>6, <1>1, <1>3 DEF ImportRows, Steps
  <2>7. CASE Refresh(s)
    BY <2>7, <1>1, <1>3 DEF Refresh, Steps
  <2>8. CASE MarkRunning(s) \/ Complete(s) \/ Rollback(s) \/ MarkFailed(s) \/ Close(s)
    BY <2>8, <1>1, <1>4 DEF MarkRunning, Complete, Rollback, MarkFailed, Close, Steps
  <2>9. CASE Raise(s)
    BY <2>9 DEF Raise, Goto, Steps, history
  <2> QED
    BY <1>6, <2>1, <2>2, <2>3, <2>4, <2>5, <2>6, <2>7, <2>8, <2>9
<1> QED
  BY <1>0, <1>5, <1>6 DEF Next

(* Every state is well typed: settings are tenants or none, and so on. *)
THEOREM TypeCorrect == Spec => []TypeOK
<1>1. Init => TypeOK
  BY TenantAssumption DEF Init, TypeOK, Steps
<1> QED
  BY <1>1, TypeStep, PTL DEF Spec

-----------------------------------------------------------------------------
(* The invariant, class by class. *)

(* A task that has committed RUNNING finds the connection of its process. *)
LEMMA TaskConnection ==
  ASSUME TypeOK, TenantInv, NEW s \in Tasks, NEW c \in Connections, RunsOn(s, c), Open(s)
  PROVE  /\ c \in WorkerPool
         /\ \A d \in WorkerPool \cap opened : d = c
<1> USE DEF TenantInv, PoolInv, SerialInv, TypeOK
<1>1. c \in WorkerPool
  BY RunsOnOwn, Parts
<1>2. ASSUME NEW d \in WorkerPool \cap opened, d # c
      PROVE  FALSE
  <2>1. CASE conn[s] # NoConnection
    BY <1>1, <1>2, <2>1, Parts DEF RunsOn
  <2>2. CASE conn[s] = NoConnection
    <3>1. c \notin opened
      BY <1>1, <1>2
    <3>2. PICK t \in Sessions : conn[t] = d
      BY <3>1, <2>2, <1>2, Parts DEF RunsOn, Held
    <3>3. t \in Tasks /\ Open(t)
      BY <3>2, <1>2, Parts
    <3> QED
      BY <3>2, <3>3, <2>2, Parts, <1>2
  <2> QED
    BY <2>1, <2>2
<1> QED
  BY <1>1, <1>2

(* A statement takes its connection out of the pool. *)
LEMMA PoolTake ==
  ASSUME TypeOK, TypeOK', PoolInv, NEW s \in Sessions, NEW c \in Connections,
         RunsOn(s, c), Take(s, c), UNCHANGED setting,
         \A d \in Connections \ {c} : current'[d] = current[d],
         Open(s)', \A t \in Sessions \ {s} : pc'[t] = pc[t]
  PROVE  PoolInv'
<1>1. /\ c \in PoolOf(s)
      /\ conn[s] # NoConnection => c = conn[s]
      /\ \A t \in Sessions : conn[t] = c => t = s
  BY RunsOnOwn
<1>2. conn' = [conn EXCEPT ![s] = c] /\ opened' = opened \cup {c}
  BY DEF Take
<1>3. \A t \in Sessions : Open(t)' <=> t = s \/ Open(t)
  BY DEF Open
<1>4. \A d \in Connections : Held(d)' <=> d = c \/ Held(d)
  BY <1>1, <1>2, Parts DEF Held, TypeOK
<1>5. (\A t, u \in Sessions : conn[t] = conn[u] /\ conn[t] # NoConnection => t = u)'
  BY <1>1, <1>2 DEF PoolInv, TypeOK
<1>6. (\A t \in Sessions : conn[t] # NoConnection => conn[t] \in PoolOf(t) \cap opened /\ Open(t))'
  BY <1>1, <1>2, <1>3 DEF PoolInv, TypeOK, PoolOf
<1>7. (\A d \in Connections : ~Held(d) => current[d] = setting[d])'
  BY <1>4 DEF PoolInv, TypeOK
<1>8. (\A d \in Connections : d \notin opened => setting[d] = NoTenant)'
  BY <1>2 DEF PoolInv, TypeOK
<1> QED
  BY <1>5, <1>6, <1>7, <1>8 DEF PoolInv

(* The end of a transaction returns it. *)
LEMMA PoolEnd ==
  ASSUME TypeOK, TypeOK', PoolInv, NEW s \in Sessions, NEW values, End(s, values),
         \A t \in Sessions \ {s} : pc'[t] = pc[t]
  PROVE  PoolInv'
<1>1. /\ conn' = [conn EXCEPT ![s] = NoConnection]
      /\ opened' = opened
      /\ \A c \in Connections \ {conn[s]} : setting'[c] = setting[c] /\ current'[c] = current[c]
      /\ \A c \in Connections : c = conn[s] => setting'[c] = current'[c]
  BY DEF End
<1>2. \A d \in Connections : Held(d)' <=> d # conn[s] /\ Held(d)
  BY <1>1, Parts DEF Held, TypeOK, PoolInv
<1>3. (\A t, u \in Sessions : conn[t] = conn[u] /\ conn[t] # NoConnection => t = u)'
  BY <1>1 DEF PoolInv, TypeOK
<1>4. (\A t \in Sessions : conn[t] # NoConnection => conn[t] \in PoolOf(t) \cap opened /\ Open(t))'
  BY <1>1 DEF PoolInv, TypeOK, PoolOf, Open
<1>5. (\A d \in Connections : ~Held(d) => current[d] = setting[d])'
  BY <1>1, <1>2 DEF PoolInv, TypeOK
<1>6. (\A d \in Connections : d \notin opened => setting[d] = NoTenant)'
  BY <1>1, Parts DEF PoolInv, TypeOK
<1> QED
  BY <1>3, <1>4, <1>5, <1>6 DEF PoolInv

(* The worker process keeps to one task and one connection. *)
LEMMA SerialTake ==
  ASSUME TypeOK, TypeOK', TenantInv, NEW s \in Sessions, NEW c \in Connections,
         RunsOn(s, c), Take(s, c), Open(s), \A t \in Sessions \ {s} : pc'[t] = pc[t]
  PROVE  SerialInv'
<1>1. opened' = opened \cup {c}
  BY DEF Take
<1>2. \A t \in Sessions : Open(t)' => Open(t)
  BY DEF Open
<1>3. (\A t, u \in Tasks : Open(t) /\ Open(u) => t = u)'
  BY <1>2 DEF TenantInv, SerialInv
<1>4. (\A d, e \in WorkerPool \cap opened : d = e)'
  <2>1. CASE s \in Tasks
    BY <1>1, <2>1, TaskConnection DEF TenantInv, SerialInv
  <2>2. CASE s \in Requests
    BY <1>1, <2>2, RunsOnOwn, Parts DEF TenantInv, SerialInv
  <2> QED
    BY <2>1, <2>2
<1> QED
  BY <1>3, <1>4 DEF SerialInv

-----------------------------------------------------------------------------
(* One lemma per class of step: the invariant is kept. *)

(* set_tenant_context and reset_tenant_context. *)
LEMMA AssignStep ==
  ASSUME TypeOK, TypeOK', TenantInv, NEW s \in Sessions,
         SetTenant(s) \/ Reset(s)
  PROVE  TenantInv'
<1> USE DEF Goto, TypeOK
<1>0. PICK c \in Connections, tenant \in Tenants \cup {NoTenant} :
        /\ RunsOn(s, c) /\ Take(s, c)
        /\ current' = [current EXCEPT ![c] = tenant]
        /\ UNCHANGED <<setting, history>>
        /\ \/ pc[s] = "set" /\ tenant = Tenant[s]
              /\ pc' = [pc EXCEPT ![s] = IF s \in Requests THEN "count" ELSE "get"]
           \/ pc[s] = "reset" /\ pc' = [pc EXCEPT ![s] = "close"]
  BY Parts DEF SetTenant, Reset, Assign
<1>1. /\ c \in PoolOf(s)
      /\ conn[s] # NoConnection => c = conn[s]
      /\ \A t \in Sessions : conn[t] = c => t = s
  BY <1>0, RunsOnOwn DEF TenantInv
<1>2. /\ conn' = [conn EXCEPT ![s] = c] /\ opened' = opened \cup {c}
      /\ setting' = setting /\ scope' = scope /\ cut' = cut
      /\ \A d \in Connections \ {c} : current'[d] = current[d]
      /\ \A t \in Sessions \ {s} : pc'[t] = pc[t] /\ conn'[t] = conn[t]
      /\ current'[c] = tenant /\ conn'[s] = c /\ c # NoConnection
      /\ Open(s) /\ Open(s)'
  BY <1>0, Parts DEF Take, history, Open
<1>3. PoolInv'
  BY <1>0, <1>2, PoolTake DEF TenantInv
<1>4. SerialInv'
  BY <1>0, <1>2, SerialTake
<1>5. RequestInv'
  <2>1. ASSUME NEW t \in Requests
        PROVE  (/\ pc[t] \in {"idle", "set", "count", "page", "reset", "close", "done"}
                /\ pc[t] \in {"count", "page", "reset"}
                     => conn[t] # NoConnection /\ current[conn[t]] = Tenant[t])'
    <3>1. CASE t = s
      BY <1>0, <1>2, <3>1
    <3>2. CASE t # s
      BY <1>1, <1>2, <3>2 DEF TenantInv, RequestInv, PoolInv
    <3> QED
      BY <3>1, <3>2
  <2> QED
    BY <2>1, <1>2 DEF TenantInv, RequestInv
<1>6. TaskInv'
  <2>1. CASE s \in Requests
    <3>1. c \notin WorkerPool
      BY <1>1, <2>1, Parts
    <3> QED
      BY <1>1, <1>2, <2>1, <3>1, Parts DEF TenantInv, TaskInv, PoolInv
  <2>2. CASE s \in Tasks
    <3>1. \A t \in Tasks \ {s} : ~Open(t)
      BY <1>2, <2>2 DEF TenantInv, SerialInv
    <3>2. \A t \in Tasks \ {s} : pc'[t] \in {"idle", "done"}
      BY <1>2, <3>1 DEF Open
    <3>3. pc[s] = "set" /\ pc'[s] = "get" /\ tenant = Tenant[s]
      BY <1>0, <2>2, Parts DEF TenantInv, TaskInv
    <3> QED
      BY <1>2, <3>2, <3>3 DEF TaskInv
  <2> QED
    BY <2>1, <2>2
<1>7. (OwnTenantOnly /\ RequestsHaveTheirTenant /\ UnscopedOnlyAfterReplacement)'
  BY <1>2 DEF TenantInv, OwnTenantOnly, RequestsHaveTheirTenant, UnscopedOnlyAfterReplacement
<1> QED
  BY <1>3, <1>4, <1>5, <1>6, <1>7 DEF TenantInv

(* The statement runs for the session's tenant or, for a task only, none. *)
LEMMA QueryScope ==
  ASSUME TypeOK, TenantInv, NEW s \in Sessions, NEW c \in Connections, Query(s, c),
         pc[s] \in {"count", "page", "get", "rows", "refresh"}
  PROVE  /\ s \in Requests => current[c] = Tenant[s]
         /\ current[c] \in {Tenant[s], NoTenant}
         /\ s \in Tasks /\ s \notin cut => current[c] = Tenant[s]
<1>1. RunsOn(s, c) /\ Open(s) /\ (conn[s] # NoConnection => c = conn[s])
  BY RunsOnOwn DEF Query, Open, TenantInv
<1>2. CASE s \in Requests
  BY <1>1, <1>2, Parts DEF TenantInv, RequestInv
<1>3. CASE s \in Tasks /\ pc[s] = "get"
  BY <1>1, <1>3, Parts DEF TenantInv, TaskInv
<1>4. CASE s \in Tasks /\ pc[s] # "get"
  <2>1. c \in WorkerPool \cap opened
    BY <1>1, <1>4, TaskConnection DEF TenantInv, TaskInv
  <2> QED
    BY <1>4, <2>1, Parts DEF TenantInv, TaskInv
<1> QED
  BY <1>2, <1>3, <1>4

(* The queries of the routes and the statements of an import. *)
LEMMA QueryStep ==
  ASSUME TypeOK, TypeOK', TenantInv, NEW s \in Sessions,
         Count(s) \/ Page(s) \/ Get(s) \/ ImportRows(s) \/ Refresh(s)
  PROVE  TenantInv'
<1> USE DEF Goto, TypeOK
<1>0. PICK c \in Connections :
        /\ Query(s, c)
        /\ \/ pc[s] = "count" /\ pc' = [pc EXCEPT ![s] = "page"]
           \/ pc[s] = "page" /\ pc' = [pc EXCEPT ![s] = "reset"]
           \/ pc[s] = "get" /\ pc' = [pc EXCEPT ![s] = "close"]
           \/ pc[s] = "get" /\ pc' = [pc EXCEPT ![s] = "running"] /\ current[c] = Tenant[s]
           \/ pc[s] = "rows" /\ \E to \in {"rows", "commit", "rollback"} : pc' = [pc EXCEPT ![s] = to]
           \/ pc[s] = "refresh" /\ \E to \in {"fail", "close"} : pc' = [pc EXCEPT ![s] = to]
  BY DEF Count, Page, Get, ImportRows, Refresh
<1>1. /\ c \in PoolOf(s)
      /\ conn[s] # NoConnection => c = conn[s]
      /\ \A t \in Sessions : conn[t] = c => t = s
  BY <1>0, RunsOnOwn DEF TenantInv, Query
<1>2. /\ conn' = [conn EXCEPT ![s] = c] /\ opened' = opened \cup {c}
      /\ setting' = setting /\ current' = current /\ cut' = cut
      /\ \A t \in Sessions \ {s} : pc'[t] = pc[t] /\ conn'[t] = conn[t]
      /\ conn'[s] = c /\ c # NoConnection
      /\ RunsOn(s, c) /\ Take(s, c) /\ Open(s) /\ Open(s)'
  BY <1>0, Parts DEF Take, Query, history, Open
<1>3. PoolInv'
  BY <1>0, <1>2, PoolTake DEF TenantInv
<1>4. SerialInv'
  BY <1>0, <1>2, SerialTake
<1>5. RequestInv'
  <2>1. ASSUME NEW t \in Requests
        PROVE  (/\ pc[t] \in {"idle", "set", "count", "page", "reset", "close", "done"}
                /\ pc[t] \in {"count", "page", "reset"}
                     => conn[t] # NoConnection /\ current[conn[t]] = Tenant[t])'
    <3>1. CASE t = s
      BY <1>0, <1>1, <1>2, <3>1 DEF TenantInv, RequestInv
    <3>2. CASE t # s
      BY <1>2, <3>2 DEF TenantInv, RequestInv
    <3> QED
      BY <3>1, <3>2
  <2> QED
    BY <2>1, <1>2 DEF TenantInv, RequestInv
<1>6. TaskInv'
  <2>1. CASE s \in Requests
    <3>1. c \notin WorkerPool
      BY <1>1, <2>1, Parts
    <3> QED
      BY <1>2, <2>1, <3>1, Parts DEF TenantInv, TaskInv
  <2>2. CASE s \in Tasks
    <3>1. \A t \in Tasks \ {s} : pc'[t] \in {"idle", "done"}
      BY <1>2, <2>2 DEF TenantInv, SerialInv, Open
    <3>2. CASE pc[s] = "get"
      BY <1>0, <1>1, <1>2, <3>1, <3>2 DEF TenantInv, TaskInv
    <3>3. CASE pc[s] \in {"rows", "refresh"}
      <4>1. c \in WorkerPool \cap opened
        BY <1>2, <2>2, <3>3, TaskConnection DEF TenantInv, TaskInv
      <4>2. opened' = opened
        BY <1>2, <4>1
      <4> QED
        BY <1>0, <1>2, <4>2, <3>1, <3>3 DEF TenantInv, TaskInv
    <3> QED
      BY <1>0, <2>2, <3>2, <3>3 DEF TenantInv, TaskInv
  <2> QED
    BY <2>1, <2>2
<1>7. (OwnTenantOnly /\ RequestsHaveTheirTenant /\ UnscopedOnlyAfterReplacement)'
  <2>1. \A t \in Sessions \ {s} : scope'[t] = scope[t]
    BY <1>0 DEF Query
  <2>2. scope'[s] = scope[s] \cup {current[c]}
    BY <1>0 DEF Query
  <2>3. /\ s \in Requests => current[c] = Tenant[s]
        /\ current[c] \in {Tenant[s], NoTenant}
        /\ s \in Tasks /\ s \notin cut => current[c] = Tenant[s]
    BY <1>0, QueryScope
  <2>4. OwnTenantOnly'
    BY <2>1, <2>2, <2>3 DEF TenantInv, OwnTenantOnly
  <2>5. RequestsHaveTheirTenant'
    BY <2>1, <2>2, <2>3 DEF TenantInv, RequestsHaveTheirTenant
  <2>6. UnscopedOnlyAfterReplacement'
    BY <1>2, <2>1, <2>2, <2>3, Parts DEF TenantInv, UnscopedOnlyAfterReplacement
  <2> QED
    BY <2>4, <2>5, <2>6
<1> QED
  BY <1>3, <1>4, <1>5, <1>6, <1>7 DEF TenantInv

(* Commits, rollbacks and closes. *)
LEMMA EndStep ==
  ASSUME TypeOK, TypeOK', TenantInv, NEW s \in Sessions,
         MarkRunning(s) \/ Complete(s) \/ Rollback(s) \/ MarkFailed(s) \/ Close(s)
  PROVE  TenantInv'
<1> USE DEF Goto, TypeOK
<1>0. PICK values \in {current, setting} :
        /\ End(s, values)
        /\ \/ pc[s] = "running" /\ pc' = [pc EXCEPT ![s] = "rows"] /\ values = current
           \/ pc[s] = "rollback" /\ pc' = [pc EXCEPT ![s] = "refresh"]
           \/ pc[s] \in {"commit", "fail"} /\ pc' = [pc EXCEPT ![s] = "close"]
           \/ pc[s] = "close" /\ pc' = [pc EXCEPT ![s] = "done"] /\ values = setting
  BY DEF MarkRunning, Complete, Rollback, MarkFailed, Close, EndByCommit, EndByRollback
<1>1. /\ conn' = [conn EXCEPT ![s] = NoConnection]
      /\ opened' = opened /\ scope' = scope /\ cut' = cut
      /\ \A c \in Connections \ {conn[s]} : setting'[c] = setting[c] /\ current'[c] = current[c]
      /\ \A c \in Connections : c = conn[s] => setting'[c] = values[c] /\ current'[c] = values[c]
      /\ \A t \in Sessions \ {s} : pc'[t] = pc[t] /\ conn'[t] = conn[t]
      /\ Open(s)
  BY <1>0 DEF End, history, Open
<1>2. PoolInv'
  BY <1>0, <1>1, PoolEnd DEF TenantInv
<1>3. SerialInv'
  BY <1>1 DEF TenantInv, SerialInv, Open
<1>4. RequestInv'
  <2>1. ASSUME NEW t \in Requests
        PROVE  (/\ pc[t] \in {"idle", "set", "count", "page", "reset", "close", "done"}
                /\ pc[t] \in {"count", "page", "reset"}
                     => conn[t] # NoConnection /\ current[conn[t]] = Tenant[t])'
    <3>1. CASE t = s
      BY <1>0, <3>1 DEF TenantInv, RequestInv
    <3>2. CASE t # s
      BY <1>1, <3>2 DEF TenantInv, RequestInv, PoolInv
    <3> QED
      BY <3>1, <3>2
  <2>2. ASSUME NEW c \in ApiPool
        PROVE  setting'[c] = NoTenant
    <3>1. CASE c = conn[s]
      <4>1. s \in Requests
        BY <3>1, <2>2, Parts DEF TenantInv, PoolInv
      <4>2. values = setting
        BY <1>0, <4>1 DEF TenantInv, RequestInv
      <4> QED
        BY <1>1, <3>1, <4>2 DEF TenantInv, RequestInv
    <3>2. CASE c # conn[s]
      BY <1>1, <3>2 DEF TenantInv, RequestInv
    <3> QED
      BY <3>1, <3>2
  <2> QED
    BY <2>1, <2>2 DEF RequestInv
<1>5. TaskInv'
  <2>1. CASE s \in Requests
    <3>1. \A c \in WorkerPool : c # conn[s]
      BY <2>1, Parts DEF TenantInv, PoolInv
    <3>2. \A c \in WorkerPool : setting'[c] = setting[c] /\ current'[c] = current[c]
      BY <1>1, <3>1
    <3> QED
      BY <1>1, <2>1, <3>2, Parts DEF TenantInv, TaskInv, PoolInv
  <2>2. CASE s \in Tasks
    <3>1. \A t \in Tasks \ {s} : pc'[t] \in {"idle", "done"}
      BY <1>1, <2>2 DEF TenantInv, SerialInv, Open
    <3>2. CASE pc[s] = "running"
      <4>1. conn[s] \in WorkerPool \cap opened /\ current[conn[s]] = Tenant[s]
        BY <2>2, <3>2, Parts DEF TenantInv, TaskInv, PoolInv
      <4>2. \A c \in WorkerPool \cap opened : c = conn[s]
        BY <4>1 DEF TenantInv, SerialInv
      <4>3. pc'[s] = "rows" /\ values = current
        BY <1>0, <3>2
      <4> QED
        BY <1>1, <3>1, <4>1, <4>2, <4>3 DEF TaskInv
    <3>3. CASE pc[s] = "rollback"
      BY <1>0, <1>1, <2>2, <3>1, <3>3 DEF TenantInv, TaskInv
    <3>4. CASE pc[s] \in {"commit", "fail", "close"}
      BY <1>0, <1>1, <3>1, <3>4 DEF TaskInv
    <3> QED
      BY <1>0, <3>2, <3>3, <3>4
  <2> QED
    BY <2>1, <2>2
<1>6. (OwnTenantOnly /\ RequestsHaveTheirTenant /\ UnscopedOnlyAfterReplacement)'
  BY <1>1 DEF TenantInv, OwnTenantOnly, RequestsHaveTheirTenant, UnscopedOnlyAfterReplacement
<1> QED
  BY <1>2, <1>3, <1>4, <1>5, <1>6 DEF TenantInv

(* A session begins, or something raises. *)
LEMMA ControlStep ==
  ASSUME TypeOK, TypeOK', TenantInv, NEW s \in Sessions, Begin(s) \/ Raise(s)
  PROVE  TenantInv'
<1> USE DEF Goto, TypeOK
<1>0. /\ UNCHANGED <<conn, opened, setting, current, scope, cut>>
      /\ \A t \in Sessions \ {s} : pc'[t] = pc[t]
      /\ pc[s] # "done" /\ pc'[s] \notin {"idle", "done"}
      /\ pc[s] = "idle" => pc'[s] = "set" /\ (s \in Tasks => \A t \in Tasks : ~Open(t))
      /\ \/ pc'[s] \in {"set", "close"}
         \/ pc[s] \in {"count", "page"} /\ pc'[s] = "reset"
         \/ pc[s] \in {"rows", "commit"} /\ pc'[s] = "rollback"
  <2>1. CASE Begin(s)
    BY <2>1, Parts DEF Begin, history
  <2>2. CASE Raise(s)
    <3>1. PICK from \in {"set", "count", "page", "reset", "get", "running", "rows", "commit",
                         "refresh", "fail"}, to \in {"reset", "rollback", "close"} :
            /\ pc[s] = from /\ pc' = [pc EXCEPT ![s] = to]
            /\ \/ to = "close"
               \/ from \in {"count", "page"} /\ to = "reset"
               \/ from \in {"rows", "commit"} /\ to = "rollback"
      BY <2>2 DEF Raise
    <3> QED
      BY <2>2, <3>1 DEF Raise, history
  <2> QED
    BY <2>1, <2>2
<1>1. \A t \in Sessions : Open(t)' <=> t = s \/ Open(t)
  BY <1>0 DEF Open
<1>2. \A c \in Connections : Held(c)' <=> Held(c)
  BY <1>0 DEF Held
<1>3. PoolInv'
  BY <1>0, <1>1, <1>2 DEF TenantInv, PoolInv, PoolOf
<1>4. SerialInv'
  <2>1. CASE pc[s] = "idle"
    BY <1>0, <1>1, <2>1, Parts DEF TenantInv, SerialInv
  <2>2. CASE pc[s] # "idle"
    BY <1>0, <1>1, <2>2 DEF TenantInv, SerialInv, Open
  <2> QED
    BY <2>1, <2>2
<1>5. RequestInv'
  BY <1>0 DEF TenantInv, RequestInv
<1>6. TaskInv'
  BY <1>0 DEF TenantInv, TaskInv
<1>7. (OwnTenantOnly /\ RequestsHaveTheirTenant /\ UnscopedOnlyAfterReplacement)'
  BY <1>0 DEF TenantInv, OwnTenantOnly, RequestsHaveTheirTenant, UnscopedOnlyAfterReplacement
<1> QED
  BY <1>3, <1>4, <1>5, <1>6, <1>7 DEF TenantInv

(* pool_pre_ping replaces an idle connection. *)
LEMMA ReplaceStep ==
  ASSUME TypeOK, TypeOK', TenantInv, NEW c \in Connections, Replace(c)
  PROVE  TenantInv'
<1> USE DEF TypeOK
<1>0. /\ UNCHANGED <<pc, conn, opened, scope>>
      /\ \A d \in Connections \ {c} : setting'[d] = setting[d] /\ current'[d] = current[d]
      /\ setting'[c] = NoTenant /\ current'[c] = NoTenant
      /\ cut' = cut \cup {s \in Sessions : Open(s) /\ c \in PoolOf(s)}
      /\ c \in opened /\ \A s \in Sessions : conn[s] # c
  BY DEF Replace, Held
<1>1. PoolInv'
  BY <1>0 DEF TenantInv, PoolInv, Held, Open, PoolOf
<1>2. SerialInv'
  BY <1>0 DEF TenantInv, SerialInv, Open
<1>3. RequestInv'
  BY <1>0 DEF TenantInv, RequestInv, PoolInv
<1>4. TaskInv'
  <2>1. ASSUME NEW s \in Tasks
        PROVE  /\ pc'[s] \notin {"count", "page", "reset"}
               /\ pc'[s] \in {"get", "running"}
                    => conn'[s] # NoConnection /\ current'[conn'[s]] = Tenant[s]
    BY <1>0, <2>1 DEF TenantInv, TaskInv, PoolInv
  <2>2. ASSUME NEW s \in Tasks, pc[s] \in {"rows", "commit", "rollback", "refresh", "fail"},
               NEW d \in WorkerPool \cap opened
        PROVE  /\ {setting'[d], current'[d]} \subseteq {Tenant[s], NoTenant}
               /\ s \notin cut' => setting'[d] = Tenant[s] /\ current'[d] = Tenant[s]
    <3>1. CASE d = c
      <4>1. s \in cut'
        BY <1>0, <2>2, <3>1, Parts DEF Open
      <4> QED
        BY <1>0, <3>1, <4>1
    <3>2. CASE d # c
      BY <1>0, <2>2, <3>2 DEF TenantInv, TaskInv
    <3> QED
      BY <3>1, <3>2
  <2>3. \A s \in Tasks : pc[s] \in {"rows", "commit", "rollback", "refresh", "fail"}
                         => WorkerPool \cap opened # {}
    BY DEF TenantInv, TaskInv
  <2> QED
    BY <1>0, <2>1, <2>2, <2>3 DEF TaskInv
<1>5. (OwnTenantOnly /\ RequestsHaveTheirTenant /\ UnscopedOnlyAfterReplacement)'
  BY <1>0 DEF TenantInv, OwnTenantOnly, RequestsHaveTheirTenant, UnscopedOnlyAfterReplacement
<1> QED
  BY <1>1, <1>2, <1>3, <1>4, <1>5 DEF TenantInv

(* The invariant holds of new pools, *)
LEMMA InitialInv == Init => TenantInv
<1> SUFFICES ASSUME Init PROVE TenantInv
  OBVIOUS
<1> USE DEF Init
<1>1. PoolInv
  BY DEF PoolInv, Held
<1>2. SerialInv /\ RequestInv /\ TaskInv
  BY DEF SerialInv, RequestInv, TaskInv, Open
<1>3. OwnTenantOnly /\ RequestsHaveTheirTenant /\ UnscopedOnlyAfterReplacement
  BY DEF OwnTenantOnly, RequestsHaveTheirTenant, UnscopedOnlyAfterReplacement
<1> QED
  BY <1>1, <1>2, <1>3 DEF TenantInv

(* and every step keeps it. *)
LEMMA InductiveStep ==
  ASSUME TypeOK, TypeOK', TenantInv, [Next]_vars
  PROVE  TenantInv'
<1>1. CASE UNCHANGED vars
  BY <1>1 DEF vars, history, TenantInv, PoolInv, SerialInv, RequestInv, TaskInv, Held, Open, PoolOf,
     OwnTenantOnly, RequestsHaveTheirTenant, UnscopedOnlyAfterReplacement
<1>2. ASSUME NEW s \in Sessions,
             Begin(s) \/ SetTenant(s) \/ Count(s) \/ Page(s) \/ Reset(s)
               \/ Get(s) \/ MarkRunning(s) \/ ImportRows(s) \/ Complete(s)
               \/ Rollback(s) \/ Refresh(s) \/ MarkFailed(s) \/ Raise(s) \/ Close(s)
      PROVE  TenantInv'
  BY <1>2, AssignStep, QueryStep, EndStep, ControlStep
<1>3. ASSUME NEW c \in Connections, Replace(c)
      PROVE  TenantInv'
  BY <1>3, ReplaceStep
<1> QED
  BY <1>1, <1>2, <1>3 DEF Next

(* The inductive invariant of the pools and their settings. *)
THEOREM TenantInvariant == Spec => []TenantInv
  BY TypeCorrect, InitialInv, InductiveStep, PTL DEF Spec

(* set_tenant_context on pooled connections: no statement of a session     *)
(* ever runs for another tenant than its own.                              *)
THEOREM OwnTenantOnlyHolds == Spec => []OwnTenantOnly
<1>1. TenantInv => OwnTenantOnly
  BY DEF TenantInv
<1> QED
  BY <1>1, TenantInvariant, PTL

(* get_tenant_db: every query of a request runs for its user's tenant. *)
THEOREM RequestsHaveTheirTenantHolds == Spec => []RequestsHaveTheirTenant
<1>1. TenantInv => RequestsHaveTheirTenant
  BY DEF TenantInv
<1> QED
  BY <1>1, TenantInvariant, PTL

(* get_tenant_db: an idle connection of the API's pool carries no tenant. *)
THEOREM NothingLeftForRequestsHolds == Spec => []NothingLeftForRequests
<1>1. TenantInv => NothingLeftForRequests
  BY DEF TenantInv, RequestInv, NothingLeftForRequests
<1> QED
  BY <1>1, TenantInvariant, PTL

(* process_sync and delete_upload: a task loses its tenant only when a     *)
(* pooled connection is replaced under it.                                 *)
THEOREM UnscopedOnlyAfterReplacementHolds == Spec => []UnscopedOnlyAfterReplacement
<1>1. TenantInv => UnscopedOnlyAfterReplacement
  BY DEF TenantInv
<1> QED
  BY <1>1, TenantInvariant, PTL

=============================================================================
