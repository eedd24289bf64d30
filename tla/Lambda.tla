------------------------------- MODULE Lambda -------------------------------
(***************************************************************************)
(* One Lambda function of one account: its durable record and deployment   *)
(* directories (internal/lambda), the pool of containers of the engine     *)
(* (internal/engine), the invocations that acquire them and the warm       *)
(* pool's reaper.                                                          *)
(*                                                                         *)
(* A deployment id is the hash of code and configuration, so it is the     *)
(* same value as the code it was prepared from: re-uploading an old ZIP    *)
(* brings an old id back.  A revision is what the code joins with colons,  *)
(* deployment : instance : version, with version 0 for $LATEST.  The pool  *)
(* is the set of a key's containers: where the code takes the first match  *)
(* of a slice, any match is taken here.                                    *)
(* Operations that hold the function's mutex are one step; every lock of   *)
(* the engine that acquireContainer takes and drops is a step of its own.  *)
(* An availability channel is known to an invocation as open or closed:    *)
(* closing it closes it for everyone who captured it.                      *)
(***************************************************************************)
EXTENDS Integers, FiniteSets

CONSTANTS
    Invokers,        \* concurrent invocations
    Queued,          \* the ones the asynchronous queue makes
    Codes,           \* distinct deployment packages, hence deployment ids
    Containers,      \* Docker container ids
    Reserved,        \* reserved concurrency values callers may put
    MaxConcurrency,  \* LambdaMaxConcurrency
    MaxVersion,      \* bound on published versions
    MaxInstance,     \* bound on creations of the function (instance ids)
    Qualifiers,      \* what invocations name: Latest, ByAlias, a version
    MaxInvokes,      \* bound on invocations
    MaxOps           \* bound on management operations

Free == "free"
NoBox == "none"
NoCode == "none"

ASSUME InvokersAssumption ==
    /\ IsFiniteSet(Invokers) /\ Queued \subseteq Invokers /\ Free \notin Invokers
ASSUME ContainersAssumption == IsFiniteSet(Containers) /\ NoBox \notin Containers
ASSUME CodesAssumption == NoCode \notin Codes
ASSUME LimitsAssumption ==
    /\ MaxConcurrency \in Nat \ {0} /\ Reserved \subseteq Nat
    /\ MaxVersion \in Nat \ {0} /\ MaxInstance \in Nat \ {0}
    /\ Qualifiers \subseteq 0..(MaxVersion + 1)
    /\ MaxInvokes \in Nat /\ MaxOps \in Nat

VARIABLES
    fn,        \* config.json of the function, or NoFunction
    dirs,      \* deployment directories on disk
    leases,    \* fnLeases: holders of each deployment
    gc,        \* fnGC: a prune was deferred or a record was written
    pool,      \* e.containers[key]
    box,       \* what Docker and ContainerInfo say of each container
    gate,      \* the invocation that holds the start gate, or Free
    inv,       \* the invocations
    pending,   \* second steps of management calls: retire, signal
    instances, \* instance ids handed out
    ops,       \* management operations so far
    calls      \* invocations so far

vars == <<fn, dirs, leases, gc, pool, box, gate, inv, pending, instances, ops, calls>>
store == <<fn, dirs, leases, gc, instances>>
engine == <<pool, box>>

Latest == 0
Versions == 1..MaxVersion
ByAlias == MaxVersion + 1
Unreserved == -1

Revision(code, inst, ver) == [code |-> code, instance |-> inst, version |-> ver]
NoRevision == Revision(NoCode, 0, Latest)
Revisions == [code : Codes, instance : 1..MaxInstance, version : Versions \cup {Latest}]

(* versions[v] is NoCode while v is not published; alias 0 is no alias.     *)
Function == [code : Codes, instance : 1..MaxInstance, versions : [Versions -> Codes \cup {NoCode}],
             next : 0..MaxVersion, alias : 0..MaxVersion, reserved : Reserved \cup {Unreserved}]
Unpublished == [v \in Versions |-> NoCode]
NoFunction == [code |-> NoCode, instance |-> 0, versions |-> Unpublished, next |-> 0,
               alias |-> 0, reserved |-> Unreserved]

Exists == fn # NoFunction
CurrentRevision == Revision(fn.code, fn.instance, Latest)

Container == [rev : Revisions \cup {NoRevision}, busy : BOOLEAN, retired : BOOLEAN,
              running : BOOLEAN, lease : BOOLEAN, docker : BOOLEAN]
NoContainer == [rev |-> NoRevision, busy |-> FALSE, retired |-> FALSE,
                running |-> FALSE, lease |-> FALSE, docker |-> FALSE]

Steps == {"done", "top", "limit", "reserved", "idle", "gate", "limit2", "reserved2", "capture",
          "idle2", "count", "discard", "count2", "wait", "retain", "create", "retire", "start",
          "run", "removing", "finish", "unlease"}
Invoker == [pc : Steps, rev : Revisions \cup {NoRevision}, limit : 0..MaxConcurrency,
            reserved : BOOLEAN, ch : {"none", "open", "closed"}, info : Containers \cup {NoBox},
            cold : BOOLEAN, retried : BOOLEAN]
IdleInvoker == [pc |-> "done", rev |-> NoRevision, limit |-> 0,
                reserved |-> FALSE, ch |-> "none", info |-> NoBox,
                cold |-> FALSE, retried |-> FALSE]

TypeOK ==
    /\ fn \in Function \cup {NoFunction}
    /\ dirs \subseteq Codes /\ leases \in [Codes -> Nat] /\ gc \in BOOLEAN
    /\ pool \subseteq Containers /\ box \in [Containers -> Container]
    /\ gate \in Invokers \cup {Free} /\ inv \in [Invokers -> Invoker]
    /\ pending \in [retire : Nat, signal : Nat]
    /\ instances \in 0..MaxInstance /\ ops \in 0..MaxOps /\ calls \in 0..MaxInvokes

(* the published versions *)
Published(f) == {v \in Versions : f.versions[v] # NoCode}
Referenced(f) == ({f.code} \cup {f.versions[v] : v \in Versions}) \ {NoCode}

(* The process starts with nothing on disk, or with a function that was     *)
(* published once, has an alias and was perhaps updated since.              *)
Stored == {[code |-> code, instance |-> 1, versions |-> [Unpublished EXCEPT ![1] = published],
            next |-> 1, alias |-> 1, reserved |-> Unreserved] : code, published \in Codes}

Init ==
    /\ fn \in {NoFunction} \cup Stored
    /\ dirs = Referenced(fn)
    /\ leases = [c \in Codes |-> 0]
    /\ gc = FALSE
    /\ pool = {}
    /\ box = [c \in Containers |-> NoContainer]
    /\ gate = Free
    /\ inv = [i \in Invokers |-> IdleInvoker]
    /\ pending = [retire |-> 0, signal |-> 0]
    /\ instances = fn.instance
    /\ ops = 0
    /\ calls = 0

-----------------------------------------------------------------------------
(* Deployments (deployment.go, store.go).  All of this runs under fnMu.     *)

Leased(l) == {c \in Codes : l[c] > 0}

(* As Prune, had the leases been forgotten.                                 *)
PruneUnleased(f, d, l) ==
    /\ dirs' = d \cap Referenced(f)
    /\ gc' = FALSE

(* pruneDeploymentsLocked: what the record or a lease names is kept, and a  *)
(* directory that only a lease keeps is remembered in fnGC.                 *)
Prune(f, d, l) ==
    /\ dirs' = d \cap (Referenced(f) \cup Leased(l))
    /\ gc' = (Leased(l) \ Referenced(f) # {})

(* prepareDeploymentLocked: staged, then renamed to its id; one that is     *)
(* already there is used as it is.                                          *)
Prepared(code) == dirs \cup {code}

(* saveFunctionLocked and the prune that ends every commit.  A mutation or  *)
(* a save that fails prunes what it prepared and leaves the record alone.   *)
Commit(f, d) == fn' = f /\ Prune(f, d, leases)

(* The release closures of acquireDeployment and retainDeployment.          *)
ReleaseLease(code) ==
    /\ leases' = [leases EXCEPT ![code] = @ - 1]
    /\ IF gc THEN Prune(fn, dirs, leases') ELSE UNCHANGED <<dirs, gc>>

(* selectVersion: an alias leads to its version, nothing leads to $LATEST.  *)
SelectVersion(q) == IF q = ByAlias THEN fn.alias ELSE q
Selectable(q) ==
    /\ Exists
    /\ q # Latest => SelectVersion(q) \in Published(fn)
DeploymentOf(ver) == IF ver = Latest THEN fn.code ELSE fn.versions[ver]

-----------------------------------------------------------------------------
(* The engine's pool (container.go, availability.go).                       *)

Busy == {c \in pool : box[c].busy}
Count == Cardinality(pool)

(* notifyLocked closes the channel; whoever captured it sees it closed.     *)
Notified(state) ==
    [i \in Invokers |-> [state[i] EXCEPT !.ch = IF @ = "open" THEN "closed" ELSE @]]

Untrack(gone) == pool' = pool \ gone

Reusable(rev) == {c \in pool : /\ ~box[c].busy
                                  /\ ~box[c].retired
                                  /\ box[c].running
                                  /\ box[c].rev = rev}

(* retire: what matches is marked; what is idle leaves the pool.            *)
Retire(matching) ==
    LET gone == {c \in matching : ~box[c].busy} IN
    /\ box' = [c \in Containers |->
                  IF c \in matching THEN [box[c] EXCEPT !.retired = TRUE] ELSE box[c]]
    /\ Untrack(gone)

StaleLatest(f) == {c \in pool : /\ box[c].rev.version = Latest
                                   /\ box[c].rev # Revision(f.code, f.instance, Latest)}

(* RetireFunction when the record is gone, RetireLatestRevision otherwise.  *)
RetireLatestContainers ==
    Retire(IF Exists THEN StaleLatest(fn) ELSE pool)

-----------------------------------------------------------------------------
(* Management calls (service.go, metadata.go, configuration.go).            *)

Operate == ops < MaxOps /\ ops' = ops + 1 /\ UNCHANGED calls

(* commitDeployment with create: an existing function keeps its metadata.   *)
CreateFunction(code) ==
    LET f == IF Exists THEN [fn EXCEPT !.code = code]
             ELSE [NoFunction EXCEPT !.code = code, !.instance = instances + 1] IN
    /\ Operate
    /\ f.instance <= MaxInstance
    /\ instances' = IF Exists THEN instances ELSE instances + 1
    /\ Commit(f, Prepared(code))
    /\ Retire(StaleLatest(f))
    /\ inv' = Notified(inv)
    /\ UNCHANGED <<leases, gate, pending>>

(* UpdateFunctionCode, UpdateFunctionConfiguration and UpdateFunctionImage  *)
(* commit the record, drop the mutex and then retire the old containers.    *)
UpdateFunction(code) ==
    /\ Operate /\ Exists
    /\ Commit([fn EXCEPT !.code = code], Prepared(code))
    /\ pending' = [pending EXCEPT !.retire = @ + 1]
    /\ UNCHANGED <<leases, pool, box, gate, inv, instances>>

RetireAfterUpdate ==
    /\ pending.retire > 0
    /\ pending' = [pending EXCEPT !.retire = @ - 1]
    /\ RetireLatestContainers
    /\ inv' = Notified(inv)
    /\ UNCHANGED <<store, gate, ops, calls>>

PublishVersion ==
    /\ Operate /\ Exists
    /\ fn.next < MaxVersion
    /\ Commit([fn EXCEPT !.next = @ + 1, !.versions[fn.next + 1] = fn.code], dirs)
    /\ UNCHANGED <<leases, pool, box, gate, inv, pending, instances>>

PutAlias(v) ==
    /\ Operate /\ Exists
    /\ v \in Published(fn)
    /\ Commit([fn EXCEPT !.alias = v], dirs)
    /\ UNCHANGED <<leases, pool, box, gate, inv, pending, instances>>

DeleteAlias ==
    /\ Operate /\ Exists
    /\ Commit([fn EXCEPT !.alias = 0], dirs)
    /\ UNCHANGED <<leases, pool, box, gate, inv, pending, instances>>

DeleteVersion(v) ==
    /\ Operate /\ Exists
    /\ v \in Published(fn)
    /\ fn.alias # v
    /\ Commit([fn EXCEPT !.versions[v] = NoCode], dirs)
    /\ Retire({c \in pool : box[c].rev.version = v})
    /\ inv' = Notified(inv)
    /\ UNCHANGED <<leases, gate, pending, instances>>

DeleteFunction ==
    /\ Operate /\ Exists
    /\ Commit(NoFunction, dirs)
    /\ Retire(pool)
    /\ inv' = Notified(inv)
    /\ UNCHANGED <<leases, gate, pending, instances>>

(* Put- and DeleteFunctionConcurrency save the record, then signal.         *)
SetConcurrency(value) ==
    /\ Operate /\ Exists
    /\ Commit([fn EXCEPT !.reserved = value], dirs)
    /\ pending' = [pending EXCEPT !.signal = @ + 1]
    /\ UNCHANGED <<leases, pool, box, gate, inv, instances>>

SignalAvailability ==
    /\ pending.signal > 0
    /\ pending' = [pending EXCEPT !.signal = @ - 1]
    /\ inv' = Notified(inv)
    /\ UNCHANGED <<store, engine, gate, ops, calls>>

-----------------------------------------------------------------------------
(* Invocations (Service.Invoke and acquireContainer).                       *)

At(i, pc) == inv[i].pc = pc
Goto(i, pc) == inv' = [inv EXCEPT ![i].pc = pc]
(* What acquireContainer leaves behind when it returns: its locals are gone. *)
Returned(i, pc, c) ==
    [inv EXCEPT ![i] = [IdleInvoker EXCEPT !.pc = pc, !.rev = inv[i].rev,
                                           !.info = c, !.retried = inv[i].retried]]
Engineless == UNCHANGED <<store, engine, gate, pending, ops, calls>>
Gateless == UNCHANGED <<store, engine, pending, ops, calls>>

(* acquireDeployment: the lease keeps the directory for the whole invoke.   *)
AcquireDeployment(i, ver) ==
    /\ leases' = [leases EXCEPT ![DeploymentOf(ver)] = @ + 1]
    /\ inv' = [inv EXCEPT ![i] = [IdleInvoker EXCEPT
                  !.pc = "top",
                  !.rev = Revision(DeploymentOf(ver), fn.instance, ver)]]

Invoke(i, q) ==
    /\ At(i, "done")
    /\ calls < MaxInvokes /\ calls' = calls + 1
    /\ Selectable(q)
    /\ AcquireDeployment(i, SelectVersion(q))
    /\ UNCHANGED <<fn, dirs, gc, pool, box, gate, pending, instances, ops>>

(* The context of the call or the acquisition timeout ends the loop.        *)
Fail(i) == inv' = Returned(i, "finish", inv[i].info)

Top(i) ==
    /\ At(i, "top")
    /\ inv' = [inv EXCEPT ![i].pc = "limit",
                          ![i].ch = IF i \in Queued THEN "open" ELSE @]
    /\ Engineless

TimedOut(i) ==
    /\ inv[i].pc \in {"top", "gate", "wait"}
    /\ Fail(i)
    /\ Engineless

Limit == IF fn.reserved = Unreserved \/ fn.reserved > MaxConcurrency THEN MaxConcurrency
         ELSE fn.reserved

(* functionConcurrency, before and after the gate.                          *)
ReadConcurrency(i, pc, next) ==
    /\ At(i, pc)
    /\ IF Exists
       THEN /\ inv' = [inv EXCEPT ![i].pc = next, ![i].limit = Limit,
                                  ![i].reserved = (fn.reserved # Unreserved)]
            /\ UNCHANGED gate
       ELSE /\ Fail(i)
            /\ gate' = IF gate = i THEN Free ELSE gate
    /\ Gateless

(* limit == 0, or a reserved function with as many busy containers.         *)
Throttled(i) ==
    \/ inv[i].limit = 0
    \/ inv[i].reserved /\ Cardinality(Busy) >= inv[i].limit

CheckReserved(i, pc, next) ==
    /\ At(i, pc)
    /\ IF Throttled(i)
       THEN /\ IF i \in Queued THEN Goto(i, "wait") ELSE Fail(i)
            /\ gate' = IF gate = i THEN Free ELSE gate
       ELSE /\ Goto(i, next)
            /\ UNCHANGED gate
    /\ Gateless

(* AcquireIdleRevision: an idle container of this very revision, while      *)
(* fewer than limit are busy.                                               *)
CanReuse(i) == Cardinality(Busy) < inv[i].limit /\ Reusable(inv[i].rev) # {}

AcquireIdle(i, pc, next) ==
    /\ At(i, pc)
    /\ \/ \E c \in Reusable(inv[i].rev) :
             /\ CanReuse(i)
             /\ box' = [box EXCEPT ![c].busy = TRUE]
             /\ inv' = Returned(i, "run", c)
             /\ gate' = IF gate = i THEN Free ELSE gate
       \/ /\ ~CanReuse(i)
          /\ Goto(i, next)
          /\ UNCHANGED <<box, gate>>
    /\ UNCHANGED <<store, pool, pending, ops, calls>>

TakeGate(i) ==
    /\ At(i, "gate")
    /\ gate = Free
    /\ gate' = i
    /\ Goto(i, "limit2")
    /\ Gateless

CaptureChannel(i) ==
    /\ At(i, "capture")
    /\ inv' = [inv EXCEPT ![i].pc = "idle2", ![i].ch = "open"]
    /\ Engineless

CountPool(i) ==
    /\ At(i, "count")
    /\ Goto(i, IF Count >= inv[i].limit THEN "discard" ELSE "count2")
    /\ Engineless

Discardable(i) == {c \in pool : ~box[c].busy /\ box[c].rev # inv[i].rev}

(* DiscardIdleRevision gives up one idle container of another revision.     *)
DiscardIdle(i) ==
    /\ At(i, "discard")
    /\ \/ \E c \in Discardable(i) :
             /\ Untrack({c})
             /\ inv' = Notified([inv EXCEPT ![i].pc = "count2"])
       \/ Discardable(i) = {} /\ Goto(i, "count2") /\ UNCHANGED pool
    /\ UNCHANGED <<store, box, gate, pending, ops, calls>>

(* As DecideColdStart, had the channel been taken just before the wait.     *)
DecideThenCapture(i) ==
    /\ At(i, "count2")
    /\ IF Count < inv[i].limit
       THEN Goto(i, "retain") /\ UNCHANGED gate
       ELSE inv' = [inv EXCEPT ![i].pc = "wait", ![i].ch = "open"] /\ gate' = Free
    /\ Gateless

DecideColdStart(i) ==
    /\ At(i, "count2")
    /\ IF Count < inv[i].limit
       THEN Goto(i, "retain") /\ UNCHANGED gate
       ELSE Goto(i, "wait") /\ gate' = Free
    /\ Gateless

Wake(i) ==
    /\ At(i, "wait")
    /\ inv[i].ch = "closed"
    /\ Goto(i, "top")
    /\ Engineless

(* coldStart, under the gate.  retainDeployment fails without a directory,  *)
(* and so may the image pull before it.                                     *)
RetainDeployment(i) ==
    LET code == inv[i].rev.code IN
    /\ At(i, "retain")
    /\ \/ /\ code \in dirs
          /\ leases' = [leases EXCEPT ![code] = @ + 1]
          /\ Goto(i, "create")
          /\ UNCHANGED gate
       \/ /\ Fail(i)
          /\ gate' = Free
          /\ UNCHANGED leases
    /\ UNCHANGED <<fn, dirs, gc, pool, box, pending, instances, ops, calls>>

Unborn == {c \in Containers : /\ ~box[c].docker
                              /\ c \notin pool
                              /\ \A i \in Invokers : inv[i].info # c}

CreateContainer(i) ==
    /\ At(i, "create")
    /\ \E c \in Unborn :
          /\ box' = [box EXCEPT ![c] = [NoContainer EXCEPT
                        !.rev = inv[i].rev, !.busy = TRUE, !.lease = TRUE, !.docker = TRUE]]
          /\ pool' = pool \cup {c}
          /\ inv' = Notified([inv EXCEPT ![i].pc = "retire", ![i].info = c])
    /\ UNCHANGED <<store, gate, pending, ops, calls>>

CreateFails(i) ==
    /\ At(i, "create")
    /\ ReleaseLease(inv[i].rev.code)
    /\ Fail(i)
    /\ gate' = Free
    /\ UNCHANGED <<fn, pool, box, pending, instances, ops, calls>>

(* As RetireAfterCreate, had coldStart not looked at the record again.      *)
SkipRetire(i) ==
    /\ At(i, "retire")
    /\ Goto(i, "start")
    /\ Engineless

RetireAfterCreate(i) ==
    /\ At(i, "retire")
    /\ RetireLatestContainers
    /\ inv' = Notified([inv EXCEPT ![i].pc = "start"])
    /\ UNCHANGED <<store, gate, pending, ops, calls>>

StartContainer(i) ==
    /\ At(i, "start")
    /\ box' = [box EXCEPT ![inv[i].info].running = TRUE]
    /\ inv' = [Returned(i, "run", inv[i].info) EXCEPT ![i].cold = TRUE]
    /\ gate' = Free
    /\ UNCHANGED <<store, pool, pending, ops, calls>>

(* As StartFails, had the container stayed in the pool.                     *)
StartFailsTracked(i) ==
    /\ At(i, "start")
    /\ inv' = Returned(i, "finish", NoBox)
    /\ gate' = Free
    /\ UNCHANGED <<store, engine, pending, ops, calls>>

(* StartContainer or WaitForReady fails: DiscardContainerAsync.             *)
StartFails(i) ==
    /\ At(i, "start")
    /\ Untrack({inv[i].info})
    /\ inv' = Notified(Returned(i, "finish", NoBox))
    /\ gate' = Free
    /\ UNCHANGED <<store, box, pending, ops, calls>>

(* invokeWithRetry answers, or its error is not the sign of a dead runtime. *)
Run(i) ==
    /\ At(i, "run")
    /\ Goto(i, "finish")
    /\ Engineless

(* recoverDeadWarmContainer: once, and only for a warm container.           *)
RemoveDead(i) ==
    /\ At(i, "run")
    /\ ~inv[i].cold /\ ~inv[i].retried
    /\ Untrack({inv[i].info})
    /\ inv' = LET next == [inv EXCEPT ![i].pc = "removing"] IN
              IF inv[i].info \in pool THEN Notified(next) ELSE next
    /\ UNCHANGED <<store, box, gate, pending, ops, calls>>

(* Docker answers the removal; info becomes nil and the loop starts again,  *)
(* or the invocation's deadline has passed.                                 *)
Reacquire(i) ==
    LET c == inv[i].info IN
    /\ At(i, "removing")
    /\ \E pc \in {"top", "finish"} :
          inv' = [inv EXCEPT ![i].pc = pc, ![i].info = NoBox, ![i].retried = TRUE]
    /\ \/ UNCHANGED <<box, leases, dirs, gc>>
       \/ /\ box' = [box EXCEPT ![c].docker = FALSE, ![c].lease = FALSE]
          /\ IF box[c].lease THEN ReleaseLease(box[c].rev.code)
             ELSE UNCHANGED <<leases, dirs, gc>>
    /\ UNCHANGED <<fn, pool, gate, pending, instances, ops, calls>>

(* The deferred Release, then the deferred lease.release.                   *)
Release(i) ==
    LET c == inv[i].info IN
    /\ At(i, "finish")
    /\ IF c = NoBox
       THEN Goto(i, "unlease") /\ UNCHANGED <<pool, box>>
       ELSE /\ box' = [box EXCEPT ![c].busy = FALSE]
            /\ Untrack(IF box[c].retired THEN {c} ELSE {})
            /\ inv' = Notified([inv EXCEPT ![i].pc = "unlease", ![i].info = NoBox])
    /\ UNCHANGED <<store, gate, pending, ops, calls>>

Unlease(i) ==
    /\ At(i, "unlease")
    /\ ReleaseLease(inv[i].rev.code)
    /\ inv' = [inv EXCEPT ![i] = IdleInvoker]
    /\ UNCHANGED <<fn, pool, box, gate, pending, instances, ops, calls>>

-----------------------------------------------------------------------------
(* The reaper, forced eviction, Docker and the process.                     *)

(* evictIdle: which idle containers are past their keep-alive is a matter   *)
(* of time; busy ones never are.                                            *)
EvictIdle ==
    \E gone \in SUBSET {c \in pool : ~box[c].busy} \ {{}} :
       /\ Untrack(gone)
       /\ inv' = Notified(inv)
       /\ UNCHANGED <<store, box, gate, pending, ops, calls>>

(* EvictContainerAsync and EvictAccount drop the pool, busy ones included.  *)
EvictAccount ==
    /\ Operate
    /\ pool' = {}
    /\ inv' = IF pool = {} THEN inv ELSE Notified(inv)
    /\ UNCHANGED <<store, box, gate, pending>>

(* forceRemoveAll of an untracked container.  A removal that fails leaves   *)
(* the container and its lease for good.                                    *)
ForceRemove(c) ==
    /\ c \notin pool
    /\ box[c].docker
    /\ \A i \in Invokers : At(i, "removing") => inv[i].info # c
    /\ box' = [box EXCEPT ![c].docker = FALSE, ![c].lease = FALSE]
    /\ IF box[c].lease THEN ReleaseLease(box[c].rev.code)
       ELSE UNCHANGED <<leases, dirs, gc>>
    /\ UNCHANGED <<fn, pool, gate, inv, pending, instances, ops, calls>>

(* The process ends at any moment and starts again: Store.Init prunes what  *)
(* no record names and SweepOrphanedLambdaContainers removes what it left.  *)
Restart ==
    /\ Operate
    /\ leases' = [c \in Codes |-> 0]
    /\ Prune(fn, dirs, leases')
    /\ pool' = {}
    /\ box' = [c \in Containers |-> NoContainer]
    /\ gate' = Free
    /\ inv' = [i \in Invokers |-> IdleInvoker]
    /\ pending' = [retire |-> 0, signal |-> 0]
    /\ UNCHANGED <<fn, instances>>

-----------------------------------------------------------------------------
Manage ==
    \/ \E code \in Codes : CreateFunction(code) \/ UpdateFunction(code)
    \/ \E v \in Versions : PutAlias(v) \/ DeleteVersion(v)
    \/ PublishVersion \/ DeleteAlias \/ DeleteFunction
    \/ \E value \in Reserved \cup {Unreserved} : SetConcurrency(value)
    \/ RetireAfterUpdate \/ SignalAvailability

Acquire(i) ==
    \/ Top(i) \/ TimedOut(i) \/ Wake(i)
    \/ ReadConcurrency(i, "limit", "reserved")
    \/ CheckReserved(i, "reserved", "idle")
    \/ AcquireIdle(i, "idle", "gate")
    \/ TakeGate(i)
    \/ ReadConcurrency(i, "limit2", "reserved2")
    \/ CheckReserved(i, "reserved2", "capture")
    \/ CaptureChannel(i)
    \/ AcquireIdle(i, "idle2", "count")
    \/ CountPool(i) \/ DiscardIdle(i) \/ DecideColdStart(i)

ColdStart(i) ==
    \/ RetainDeployment(i) \/ CreateContainer(i) \/ CreateFails(i)
    \/ RetireAfterCreate(i) \/ StartContainer(i) \/ StartFails(i)

Next ==
    \/ Manage
    \/ \E i \in Invokers :
          \/ \E q \in Qualifiers : Invoke(i, q)
          \/ Acquire(i) \/ ColdStart(i)
          \/ Run(i) \/ RemoveDead(i) \/ Reacquire(i) \/ Release(i) \/ Unlease(i)
    \/ EvictIdle \/ EvictAccount \/ Restart
    \/ \E c \in Containers : ForceRemove(c)

Spec == Init /\ [][Next]_vars

-----------------------------------------------------------------------------
(* Properties.                                                              *)

Holds(i, c) == inv[i].info = c

(* The Runtime Interface Emulator serves one invocation at a time           *)
(* (container.go:80): a container is held by at most one invocation, one    *)
(* that is marked Busy in the pool is held by somebody, on every error path *)
(* of a cold start and of a recovery too, and the pool never grows past     *)
(* LambdaMaxConcurrency, although Count is read, dropped and acted upon.    *)
PoolSound ==
    /\ \A i, j \in Invokers : i # j /\ Holds(i, inv[j].info) => inv[i].info = NoBox
    /\ \A c \in pool : box[c].busy <=> \E i \in Invokers : Holds(i, c)
    /\ Count <= MaxConcurrency

LeaseHolders(code) ==
      Cardinality({i \in Invokers : inv[i].pc # "done" /\ inv[i].rev.code = code})
    + Cardinality({i \in Invokers : At(i, "create") /\ inv[i].rev.code = code})
    + Cardinality({c \in Containers : box[c].lease /\ box[c].rev.code = code})

(* Deployment directories: fnLeases counts exactly the invocations and the  *)
(* containers that use a deployment, whatever failed in between; what they  *)
(* use, and what the record names, is on disk; and what nobody uses is gone *)
(* or remembered in fnGC with somebody left whose release will prune it.    *)
DeploymentsKept ==
    /\ \A code \in Codes : leases[code] = LeaseHolders(code)
    /\ Leased(leases) \cup Referenced(fn) \subseteq dirs
    /\ \A code \in dirs : \/ code \in Referenced(fn)
                         \/ (gc /\ leases[code] > 0)

(* An idle container of $LATEST runs the current code and configuration of  *)
(* the function that exists now, once the updates in flight have retired    *)
(* the old ones: a cold start that began before an update, a delete or a    *)
(* delete and re-create does not leave its old revision in the pool.        *)
NoStaleEnvironment ==
    pending.retire = 0 =>
       \A c \in pool : ~box[c].busy /\ box[c].rev.version = Latest =>
          Exists /\ box[c].rev = CurrentRevision

(* "a release between the inspection and waiting cannot be missed"          *)
(* (availability.go:5): an invocation that waits on a channel nobody has    *)
(* closed has, for the limit it read, nothing to acquire: no idle container *)
(* of its revision, no slot to cold-start in and none to discard.           *)
NoMissedRelease ==
    \A i \in Invokers : At(i, "wait") /\ inv[i].ch = "open" =>
       \/ Throttled(i)
       \/ (~CanReuse(i) /\ Count >= inv[i].limit /\ Discardable(i) = {})
=============================================================================
