------------------------------ MODULE ECSService ------------------------------
(***************************************************************************)
(* One ECS service of one cluster: the API calls on it (internal/ecs/       *)
(* service.go), the reconcile loop that keeps its tasks at the desired       *)
(* count and rolls new task definitions out, and DrainService                *)
(* (internal/ecs/runner.go).                                                 *)
(*                                                                         *)
(* A task is here what the reconciler sees of it: its record, whether the    *)
(* runner tracks it, whether Docker runs it.  ECSTask has the steps between. *)
(***************************************************************************)
EXTENDS Integers, FiniteSets

CONSTANTS
    Slots,          \* task ARNs
    MaxDef,         \* bound: revisions of the task definition
    MaxDesired,     \* bound: desired counts
    Deleters,       \* callers of DeleteService
    MaxEvents       \* bound: API calls, failed launches and exits nobody asked for

ASSUME SchedulerAssumption ==
    /\ IsFiniteSet(Slots)
    /\ MaxDef \in Nat \ {0} /\ MaxDesired \in Nat /\ MaxEvents \in Nat

VARIABLES
    cluster,        \* the cluster's record exists
    service,        \* the service's record
    tasks,          \* tasks[s]: the record, the runner's and Docker's view of a task
    loop,           \* the reconcile goroutine
    del,            \* del[d]: a DeleteService call
    backoff,        \* a launch failed and its delay is not over
    peak,           \* the highest desired count asked for so far
    drained,        \* the generations of the service that a deletion drained
    nevents

svcVars == <<cluster, service, tasks, loop, del, backoff, peak, drained, nevents>>

NoService == [status |-> "NONE", desired |-> 0, def |-> 1, running |-> 0, gen |-> 0]
NoTask == [last |-> "none", desired |-> "none", def |-> 1, gen |-> 0,
           tracked |-> FALSE, live |-> FALSE, asked |-> FALSE, rollout |-> FALSE]
Ended(t) == [NoTask EXCEPT !.last = "STOPPED", !.desired = "STOPPED", !.def = t.def]
Idle == [pc |-> "idle", desired |-> 0, def |-> 1, listed |-> {}, running |-> 0,
         stops |-> {}, rollout |-> FALSE, launches |-> 0, gen |-> 0, slot |-> {}]
NoDelete == [pc |-> "free", def |-> 1, gen |-> 0]

ServiceInit ==
    /\ cluster = TRUE /\ service = NoService
    /\ tasks = [s \in Slots |-> NoTask]
    /\ loop = Idle /\ del = [d \in Deleters |-> NoDelete]
    /\ backoff = FALSE /\ peak = 0 /\ drained = {}
    /\ nevents = 0

Event == nevents < MaxEvents /\ nevents' = nevents + 1

Larger(a, b) == IF a > b THEN a ELSE b

Recorded == {s \in Slots : tasks[s].last # "none"}
Live == {s \in Slots : tasks[s].live}
serviceTasksToDrain == {s \in Recorded : tasks[s].last # "STOPPED"}
serviceActiveTasks == {s \in serviceTasksToDrain : tasks[s].desired # "STOPPED"}

(* The gate of the service: launches share it, a drain has it alone.       *)
GateRead == loop.pc \in {"admitted", "recorded"}
GateWritten == \E d \in Deleters : del[d].pc = "draining"

-----------------------------------------------------------------------------
(* The API                                                                 *)

CreateCluster ==
    /\ ~cluster /\ Event
    /\ cluster' = TRUE
    /\ UNCHANGED <<service, tasks, loop, del, backoff, peak, drained>>

(* Refused while a task runs or is pending, or the service is active.      *)
DeleteCluster ==
    /\ cluster /\ service.status # "ACTIVE" /\ Event
    /\ \A s \in Slots : tasks[s].last \notin {"PROVISIONING", "RUNNING"}
    /\ cluster' = FALSE
    /\ UNCHANGED <<service, tasks, loop, del, backoff, peak, drained>>

(* A tombstone may be replaced.                                            *)
CreateService(n) ==
    /\ cluster /\ service.status \in {"NONE", "INACTIVE"} /\ Event
    /\ service' = [NoService EXCEPT !.status = "ACTIVE", !.desired = n, !.gen = nevents']
    /\ peak' = Larger(peak, n)
    /\ UNCHANGED <<cluster, tasks, loop, del, backoff, drained>>

(* Allowed on a draining service too.                                      *)
UpdateService(n, def) ==
    /\ cluster /\ service.status \in {"ACTIVE", "DRAINING"} /\ Event
    /\ service' = [service EXCEPT !.desired = n, !.def = def]
    /\ peak' = Larger(peak, n)
    /\ UNCHANGED <<cluster, tasks, loop, del, backoff, drained>>

(* svc is the caller's copy of the record.                                 *)
tombstoneServiceLocked(svc) ==
    service' = [NoService EXCEPT !.status = "INACTIVE", !.def = svc.def, !.gen = svc.gen]

DeleteFrame == UNCHANGED <<cluster, loop, backoff, peak>>

(* Nothing to drain: the record becomes a tombstone at once, without the    *)
(* gate.  Otherwise the service drains and its tasks are to stop.           *)
DeleteService(d, force) ==
    /\ cluster /\ del[d].pc = "free" /\ service.status \in {"ACTIVE", "DRAINING"}
    /\ force \/ service.desired = 0
    /\ Event
    /\ IF serviceTasksToDrain = {} /\ service.running = 0
       THEN tombstoneServiceLocked(service) /\ UNCHANGED <<tasks, del>>
       ELSE /\ service' = [service EXCEPT !.desired = 0, !.status = "DRAINING"]
            /\ tasks' = [s \in Slots |-> IF s \in serviceTasksToDrain
                                         THEN [tasks[s] EXCEPT !.desired = "STOPPED"]
                                         ELSE tasks[s]]
            /\ del' = [del EXCEPT ![d] = [pc |-> "marked", def |-> service.def,
                                           gen |-> service.gen]]
    /\ UNCHANGED drained /\ DeleteFrame

(* DrainService: no launch of the service is under way.  The tracked tasks  *)
(* and every container Docker lists are stopped; tasks the runner does not   *)
(* know are recorded as stopped, the others waited for.                      *)
DrainBegin(d) ==
    /\ del[d].pc = "marked" /\ ~GateRead /\ ~GateWritten
    /\ del' = [del EXCEPT ![d].pc = "draining"]
    /\ tasks' = [s \in Slots |-> [tasks[s] EXCEPT !.asked = tasks[s].live]]
    /\ UNCHANGED <<service, drained, nevents>> /\ DeleteFrame

waitServiceTasksStopped(d) ==
    /\ del[d].pc = "draining" /\ Live = {}
    /\ \A s \in Slots : ~tasks[s].tracked
    /\ del' = [del EXCEPT ![d].pc = "drained"]
    /\ tasks' = [s \in Slots |-> IF s \in serviceTasksToDrain
                                 THEN Ended(tasks[s]) ELSE tasks[s]]
    /\ UNCHANGED <<service, drained, nevents>> /\ DeleteFrame

(* The thirty seconds are over: the service is left DRAINING.              *)
DrainTimeout(d) ==
    /\ del[d].pc = "draining"
    /\ del' = [del EXCEPT ![d] = NoDelete]
    /\ UNCHANGED <<service, tasks, drained, nevents>> /\ DeleteFrame

DeleteEnd(d) ==
    /\ del[d].pc = "drained"
    /\ IF serviceTasksToDrain = {}
       THEN tombstoneServiceLocked(del[d]) /\ drained' = drained \cup {del[d].gen}
       ELSE UNCHANGED <<service, drained>>
    /\ del' = [del EXCEPT ![d] = NoDelete]
    /\ UNCHANGED <<tasks, nevents>> /\ DeleteFrame

StopRecord(t, rollout) ==
    [t EXCEPT !.desired = "STOPPED", !.asked = @ \/ t.live, !.rollout = @ \/ rollout]

(* StopTask, called by a user.                                             *)
StopTask(s) ==
    /\ s \in serviceTasksToDrain /\ Event
    /\ tasks' = [tasks EXCEPT ![s] = StopRecord(@, FALSE)]
    /\ UNCHANGED <<cluster, service, loop, del, backoff, peak, drained>>

-----------------------------------------------------------------------------
(* The reconcile loop                                                      *)

LoopFrame == UNCHANGED <<cluster, del, peak, drained>>

(* Old stopped records and old tombstones are pruned; a pass over the       *)
(* service follows if it is active.                                         *)
reconcileOnce(pruned) ==
    /\ loop.pc = "idle"
    /\ tasks' = [s \in Slots |-> IF s \in pruned THEN NoTask ELSE tasks[s]]
    /\ service' \in {service, IF service.status = "INACTIVE" THEN NoService ELSE service}
    /\ loop' = IF cluster /\ service.status = "ACTIVE" THEN [Idle EXCEPT !.pc = "pass"] ELSE Idle
    /\ UNCHANGED <<backoff, nevents>> /\ LoopFrame

(* reconcileService reads the record again; its status is not looked at.   *)
Refresh ==
    /\ loop.pc = "pass"
    /\ loop' = IF service.status = "NONE" THEN Idle
               ELSE [loop EXCEPT !.pc = "fresh", !.desired = service.desired,
                                !.def = service.def]
    /\ UNCHANGED <<service, tasks, backoff, nevents>> /\ LoopFrame

(* Docker's listing may lag behind.                                        *)
ListContainersByLabel ==
    /\ loop.pc = "fresh"
    /\ \E seen \in SUBSET Live : loop' = [loop EXCEPT !.pc = "listed", !.listed = seen]
    /\ UNCHANGED <<service, tasks, backoff, nevents>> /\ LoopFrame

Old(s) == tasks[s].def # loop.def

(* Mutant: the rollout does not wait for the old task to go. *)
GateOpen == FALSE

(* Mutant: a stopped record keeps the gate closed. *)
VisibleUntilPruned ==
    \E s \in Recorded : Old(s) /\ tasks[s].desired = "STOPPED"

(* An old task that was asked to stop and is not gone: Docker listed it, or *)
(* the runner still tracks it.                                              *)
oldTaskStillVisible ==
    \E s \in serviceTasksToDrain :
        /\ Old(s) /\ tasks[s].desired = "STOPPED"
        /\ s \in loop.listed \/ tasks[s].tracked

(* Candidates of a scale-down: old definitions before the current one.     *)
Surplus(K) ==
    /\ K \subseteq serviceActiveTasks
    /\ Cardinality(K) = Cardinality(serviceActiveTasks) - loop.desired
    /\ (\E s \in K : ~Old(s)) => \A s \in serviceActiveTasks \ K : ~Old(s)

(* Mutant: Docker's listing is counted instead of the records. *)
FromListing == loop.desired - Cardinality(loop.listed)

(* How many tasks the pass has to launch: records are counted, Docker's     *)
(* listing may be stale.                                                    *)
Missing == loop.desired - Cardinality(serviceActiveTasks)

reconcileService ==
    /\ loop.pc = "listed"
    /\ LET surplus == Cardinality(serviceActiveTasks) > loop.desired
           old == {s \in serviceActiveTasks : Old(s)}
           act == [loop EXCEPT !.pc = "act", !.running = Cardinality(loop.listed), !.listed = {}]
       IN  \/ surplus /\ \E K \in SUBSET serviceActiveTasks :
                            Surplus(K) /\ loop' = [act EXCEPT !.stops = K]
           \/ /\ ~surplus /\ ~oldTaskStillVisible /\ old # {}
              /\ \E s \in old : loop' = [act EXCEPT !.stops = {s}, !.rollout = TRUE]
           \/ ~surplus /\ oldTaskStillVisible /\ loop' = act
           \/ /\ ~surplus /\ ~oldTaskStillVisible /\ old = {}
              /\ loop' = [act EXCEPT !.launches = Larger(Missing, 0)]
    /\ UNCHANGED <<service, tasks, backoff, nevents>> /\ LoopFrame

stopServiceTasks(s) ==
    /\ loop.pc = "act" /\ s \in loop.stops
    /\ tasks' = [tasks EXCEPT ![s] = StopRecord(@, loop.rollout)]
    /\ loop' = [loop EXCEPT !.stops = @ \ {s}]
    /\ UNCHANGED <<service, backoff, nevents>> /\ LoopFrame

(* Mutant: the status is not looked at under the gate. *)
AdmitUnchecked ==
    /\ loop.pc = "act" /\ loop.launches > 0 /\ ~backoff /\ ~GateWritten
    /\ loop' = [loop EXCEPT !.pc = "admitted", !.gen = service.gen]
    /\ UNCHANGED <<service, tasks, backoff, nevents>> /\ LoopFrame

(* launchTask takes the gate and looks at the status under it.              *)
Admit ==
    /\ loop.pc = "act" /\ loop.launches > 0 /\ ~backoff /\ ~GateWritten
    /\ IF service.status = "ACTIVE"
       THEN loop' = [loop EXCEPT !.pc = "admitted", !.gen = service.gen] /\ UNCHANGED backoff
       ELSE loop' = [loop EXCEPT !.launches = 0] /\ backoff' = TRUE
    /\ UNCHANGED <<service, tasks, nevents>> /\ LoopFrame

(* The ARN is new; a slot whose record is STOPPED may stand for it.        *)
NewTaskRecord(s) ==
    /\ loop.pc = "admitted" /\ tasks[s].last \in {"none", "STOPPED"}
    /\ tasks' = [tasks EXCEPT ![s] = [NoTask EXCEPT !.last = "PROVISIONING",
                    !.desired = "RUNNING", !.def = loop.def, !.gen = loop.gen,
                    !.tracked = TRUE]]
    /\ loop' = [loop EXCEPT !.pc = "recorded", !.slot = {s}]
    /\ UNCHANGED <<service, backoff, nevents>> /\ LoopFrame

(* The containers run, and are stopped again if a stop came in between.    *)
LaunchSucceeds(s) ==
    /\ loop.pc = "recorded" /\ s \in loop.slot
    /\ LET wanted == tasks[s].desired = "RUNNING"
       IN  tasks' = [tasks EXCEPT ![s].live = TRUE, ![s].asked = ~wanted,
                                  ![s].last = IF wanted THEN "RUNNING" ELSE "STOPPING"]
    /\ loop' = [loop EXCEPT !.pc = "act", !.slot = {}, !.launches = @ - 1]
    /\ UNCHANGED <<service, backoff, nevents>> /\ LoopFrame

LaunchFails(s) ==
    /\ loop.pc = "recorded" /\ s \in loop.slot /\ Event
    /\ tasks' = [tasks EXCEPT ![s] = Ended(@)]
    /\ loop' = [loop EXCEPT !.pc = "act", !.slot = {}, !.launches = 0]
    /\ backoff' = TRUE
    /\ UNCHANGED service /\ LoopFrame

(* SetServiceCounts leaves a tombstone alone.                              *)
recordServiceCounts ==
    /\ loop.pc = "act" /\ loop.stops = {} /\ (loop.launches = 0 \/ backoff)
    /\ service' = IF service.status \in {"NONE", "INACTIVE"} THEN service
                  ELSE [service EXCEPT !.running = loop.running]
    /\ loop' = Idle
    /\ UNCHANGED <<tasks, backoff, nevents>> /\ LoopFrame

BackoffExpires ==
    /\ backoff /\ backoff' = FALSE
    /\ UNCHANGED <<service, tasks, loop, nevents>> /\ LoopFrame

-----------------------------------------------------------------------------
(* Docker and the lifecycle goroutine of a task                            *)

TaskFrame == UNCHANGED <<cluster, service, loop, del, peak, drained>>

StopContainer(s) ==
    /\ tasks[s].live /\ tasks[s].asked
    /\ tasks' = [tasks EXCEPT ![s].live = FALSE]
    /\ UNCHANGED <<backoff, nevents>> /\ TaskFrame

(* The essential container ends by itself: the record is to stop.          *)
ContainerExits(s) ==
    /\ tasks[s].live /\ ~tasks[s].asked /\ Event
    /\ tasks' = [tasks EXCEPT ![s].live = FALSE, ![s].desired = "STOPPED"]
    /\ UNCHANGED backoff /\ TaskFrame

(* onContainerFinished: an end nobody asked for delays the next launch, or  *)
(* ends the delay when the task had been stable.                            *)
finishTask(s) ==
    /\ tasks[s].tracked /\ ~tasks[s].live /\ tasks[s].last # "PROVISIONING"
    /\ tasks' = [tasks EXCEPT ![s] = Ended(@)]
    /\ backoff' \in IF tasks[s].asked THEN {backoff} ELSE BOOLEAN
    /\ UNCHANGED nevents /\ TaskFrame

-----------------------------------------------------------------------------
LoopStep ==
    \/ \E pruned \in SUBSET {s \in Slots : tasks[s].last = "STOPPED"} : reconcileOnce(pruned)
    \/ Refresh \/ ListContainersByLabel \/ reconcileService \/ Admit \/ recordServiceCounts
    \/ \E s \in Slots : stopServiceTasks(s) \/ NewTaskRecord(s)
                        \/ LaunchSucceeds(s) \/ LaunchFails(s)

DrainStep(d) ==
    DrainBegin(d) \/ waitServiceTasksStopped(d) \/ DrainTimeout(d) \/ DeleteEnd(d)

TaskStep(s) == StopContainer(s) \/ finishTask(s)

ServiceNext ==
    \/ CreateCluster \/ DeleteCluster
    \/ \E n \in 0 .. MaxDesired :
          CreateService(n) \/ \E def \in 1 .. MaxDef : UpdateService(n, def)
    \/ \E d \in Deleters :
          \/ \E force \in BOOLEAN : DeleteService(d, force)
          \/ DrainStep(d)
    \/ LoopStep \/ BackoffExpires
    \/ \E s \in Slots : StopTask(s) \/ ContainerExits(s) \/ TaskStep(s)

(* The loop ticks for ever, a delay ends, a drain has its timeout, Docker    *)
(* stops what it is asked to stop and the lifecycle goroutine sees each exit. *)
ServiceFairness ==
    /\ WF_svcVars(LoopStep) /\ WF_svcVars(BackoffExpires)
    /\ \A s \in Slots : WF_svcVars(TaskStep(s))
    /\ \A d \in Deleters : WF_svcVars(DrainStep(d))

ServiceSpec == ServiceInit /\ [][ServiceNext]_svcVars
ServiceFairSpec == ServiceSpec /\ ServiceFairness

-----------------------------------------------------------------------------
(* Properties                                                              *)

(* However passes, stops, exits, deletions and stale listings interleave,    *)
(* the reconciler never has more tasks than the highest desired count anyone *)
(* asked for (runner.go: reconcileService counts records before it launches). *)
NoSurplus == Cardinality(serviceActiveTasks) <= peak

(* A service that a deletion drained has nothing left: no task of that       *)
(* generation runs and none can still be launched, whatever was admitted      *)
(* when the deletion began (runner.go: launchTaskWithPayload and              *)
(* DrainService meet at the gate).                                            *)
DrainedIsQuiet ==
    /\ \A s \in Live : tasks[s].gen \notin drained
    /\ GateRead => loop.gen \notin drained

(* The rollout gate: of the tasks a rolling deployment stopped, one at most  *)
(* is still running (runner.go: oldTaskStillVisible).                         *)
RolloutOneAtATime == Cardinality({s \in Live : tasks[s].rollout}) <= 1

Converged ==
    service.status = "ACTIVE" =>
        /\ Cardinality(serviceActiveTasks) = service.desired
        /\ \A s \in serviceActiveTasks : tasks[s].live /\ tasks[s].def = service.def

(* When nobody changes it any more and the faults end, an active service has *)
(* its desired count of running tasks, all of the current definition          *)
(* (runner.go: reconcileLoop).                                                *)
Converges == <>[]Converged
=============================================================================
