------------------------------- MODULE ECSTask -------------------------------
(***************************************************************************)
(* One ECS task, from its launch to its STOPPED record: the launching      *)
(* goroutine, one starter and one lifecycle goroutine per container,        *)
(* StopTask calls, Runner.Stop, and the recovery of a new process           *)
(* (internal/ecs/runner.go; the task records are service.go's).             *)
(*                                                                         *)
(* Tasks share only the gates and Runner.stopped, so one task and its       *)
(* containers is the whole story.  Docker is external: a container it       *)
(* started runs until it exits by itself or because it was asked to stop,   *)
(* and its calls may fail: a wait, a removal, the listing of a new process. *)
(***************************************************************************)
EXTENDS Integers, FiniteSets

CONSTANTS
    Containers,     \* the container definitions of the task
    Essential,      \* those of them whose exit ends the task
    DependsOn,      \* DependsOn[c]: the containers that must have started before c
    MaxStops,       \* bound: StopTask calls
    MaxCrashes      \* bound: crashes of the process

ASSUME ECSTaskAssumption == IsFiniteSet(Containers)

VARIABLES
    record,     \* the task record: last status, desired status, or none
    saved,      \* the record as the last snapshot on disk has it
    rt,         \* the runner's runningTask
    launch,     \* where launchTaskWithPayload is
    starter,    \* starter[c]: where startContainer is
    docker,     \* docker[c]: what Docker knows of the container
    asked,      \* the containers StopContainer was called for
    life,       \* life[c]: where the container's lifecycle goroutine is
    finish,     \* where finishTask is
    stopper,    \* where a StopTask call is
    shutdown,   \* where Runner.Stop is
    nstops, ncrashes

taskVars == <<record, saved, rt, launch, starter, docker, asked, life, finish, stopper,
              shutdown, nstops, ncrashes>>

NoRecord == [last |-> "none", desired |-> "none"]
NoTask == [tracked |-> FALSE, ids |-> {}, remaining |-> 0, stopRequested |-> FALSE,
           complete |-> FALSE, essentialExited |-> FALSE, siblings |-> {}, recovered |-> FALSE]

(* launchTaskWithPayload between two steps; what completeLaunch saw is kept  *)
(* from there to Settle.                                                     *)
LaunchAt(pc) == [pc |-> pc, remaining |-> 0, stopping |-> FALSE]

TaskInit ==
    /\ record = NoRecord /\ saved = NoRecord
    /\ rt = NoTask
    /\ launch = LaunchAt("free")
    /\ starter = [c \in Containers |-> "todo"]
    /\ docker = [c \in Containers |-> "none"]
    /\ asked = {}
    /\ life = [c \in Containers |-> "none"]
    /\ finish = "no" /\ stopper = "free" /\ shutdown = "no"
    /\ nstops = 0 /\ ncrashes = 0

Stopped == shutdown # "no"      \* Runner.stopped

Bounds == UNCHANGED <<nstops, ncrashes>>

-----------------------------------------------------------------------------
(* Record updates and calls shared by the goroutines                       *)

SetTaskStatus(status) == record' = [record EXCEPT !.last = status]

StopTaskRecord == record' = [record EXCEPT !.desired = "STOPPED"]

markRunningTaskStopping == rt' = [rt EXCEPT !.stopRequested = TRUE]

Running == {c \in Containers : docker[c] = "running"}

(* StopContainer for the containers of ids.                                *)
stopContainerIDs(ids) == asked' = asked \cup ids

-----------------------------------------------------------------------------
(* launchTaskWithPayload                                                   *)

LaunchFrame == UNCHANGED <<saved, docker, life, stopper, shutdown>> /\ Bounds

(* The launch gate is held from here to the end of the launch: Stop waits   *)
(* for it.                                                                  *)
Launch ==
    /\ launch.pc = "free" /\ ~Stopped /\ record = NoRecord
    /\ launch' = LaunchAt("admitted")
    /\ UNCHANGED <<record, rt, starter, asked, finish>> /\ LaunchFrame

NewTaskRecord ==
    /\ launch.pc = "admitted"
    /\ record' = [last |-> "PROVISIONING", desired |-> "RUNNING"]
    /\ launch' = LaunchAt("recorded")
    /\ UNCHANGED <<rt, starter, asked, finish>> /\ LaunchFrame

Track ==
    /\ launch.pc = "recorded"
    /\ rt' = [NoTask EXCEPT !.tracked = TRUE]
    /\ launch' = LaunchAt("tracked")
    /\ UNCHANGED <<record, starter, asked, finish>> /\ LaunchFrame

(* A stop that came before the task was tracked is honoured now.           *)
Recheck ==
    /\ launch.pc = "tracked"
    /\ rt' = [rt EXCEPT !.stopRequested = @ \/ record.desired = "STOPPED"]
    /\ launch' = LaunchAt("starting")
    /\ UNCHANGED <<record, starter, asked, finish>> /\ LaunchFrame

(* resolveAndEnsureVolumes fails: no container is started.                 *)
VolumesFail ==
    /\ launch.pc = "starting" /\ \A c \in Containers : starter[c] = "todo"
    /\ starter' = [c \in Containers |-> "failed"]
    /\ launch' = LaunchAt("failed")
    /\ UNCHANGED <<record, rt, asked, finish>> /\ LaunchFrame

StarterFrame == UNCHANGED <<record, saved, launch, finish, stopper, shutdown>> /\ Bounds

waitForDependencies(c) ==
    \A d \in DependsOn[c] : starter[d] \in {"done"} \/ life[d] # "none"

(* A task that is already to stop starts nothing more.                     *)
startContainer(c) ==
    /\ launch.pc = "starting" /\ starter[c] = "todo" /\ waitForDependencies(c)
    /\ starter' = [starter EXCEPT ![c] = IF rt.stopRequested \/ Stopped THEN "failed"
                                         ELSE "pulling"]
    /\ UNCHANGED <<rt, docker, asked, life>> /\ StarterFrame

(* CreateAndStartTaskContainer: Docker runs the container.                 *)
CreateContainer(c) ==
    /\ starter[c] = "pulling"
    /\ docker' = [docker EXCEPT ![c] = "running"]
    /\ starter' = [starter EXCEPT ![c] = "created"]
    /\ UNCHANGED <<rt, asked, life>> /\ StarterFrame

(* A dependency, a secret, the image or Docker fails, or the launch context *)
(* is cancelled.                                                            *)
StartFails(c) ==
    /\ launch.pc = "starting"
    /\ \/ starter[c] = "pulling"
       \/ starter[c] = "todo" /\ DependsOn[c] # {}
    /\ starter' = [starter EXCEPT ![c] = "failed"]
    /\ UNCHANGED <<rt, docker, asked, life>> /\ StarterFrame

(* The ID is recorded and the stop flags are read in one critical section. *)
RegisterContainer(c) ==
    /\ starter[c] = "created"
    /\ rt' = [rt EXCEPT !.ids = @ \cup {c}, !.remaining = @ + 1]
    /\ starter' = [starter EXCEPT ![c] = IF rt.stopRequested \/ Stopped THEN "unwanted"
                                         ELSE "wanted"]
    /\ UNCHANGED <<docker, asked, life>> /\ StarterFrame

(* The lifecycle goroutine is spawned; a container nobody wants any more is *)
(* asked to stop.                                                           *)
spawnLifecycle(c) ==
    /\ starter[c] \in {"wanted", "unwanted"}
    /\ life' = [life EXCEPT ![c] = "waiting"]
    /\ starter' = [starter EXCEPT ![c] = "done"]
    /\ stopContainerIDs(IF starter[c] = "unwanted" THEN {c} ELSE {})
    /\ UNCHANGED <<rt, docker>> /\ StarterFrame

startContainers ==
    /\ launch.pc = "starting" /\ \A c \in Containers : starter[c] \in {"done", "failed"}
    /\ launch' = LaunchAt(IF \E c \in Containers : starter[c] = "failed" THEN "failed"
                          ELSE "started")
    /\ UNCHANGED <<record, rt, starter, asked, finish>> /\ LaunchFrame

(* completeLaunch: only now may the last exit finish the task.             *)
CompleteLaunch(next) ==
    /\ rt' = [rt EXCEPT !.complete = TRUE]
    /\ finish' = IF rt.remaining <= 0 THEN "stopped" ELSE finish
    /\ launch' = [pc |-> next, remaining |-> rt.remaining, stopping |-> rt.stopRequested]

(* The failure path: the record and the flag, the status, completeLaunch,   *)
(* and the containers that did start.                                       *)
LaunchFailed ==
    /\ launch.pc = "failed"
    /\ record' = IF rt.essentialExited THEN record ELSE [record EXCEPT !.desired = "STOPPED"]
    /\ markRunningTaskStopping
    /\ launch' = LaunchAt("failing")
    /\ UNCHANGED <<starter, asked, finish>> /\ LaunchFrame

setTaskStatusAfterLaunchFailure ==
    /\ launch.pc = "failing"
    /\ SetTaskStatus(IF rt.ids # {} THEN "STOPPING" ELSE "STOPPED")
    /\ launch' = LaunchAt("unwinding")
    /\ UNCHANGED <<rt, starter, asked, finish>> /\ LaunchFrame

FailedComplete ==
    /\ launch.pc = "unwinding"
    /\ CompleteLaunch("stopping")
    /\ UNCHANGED <<record, starter, asked>> /\ LaunchFrame

StartedComplete ==
    /\ launch.pc = "started"
    /\ CompleteLaunch("settling")
    /\ UNCHANGED <<record, starter, asked>> /\ LaunchFrame

(* The launch succeeded; what remains depends on a stop in the meantime.    *)
Settle ==
    /\ launch.pc = "settling"
    /\ LET stopping == launch.stopping \/ Stopped
           allowed == record.desired # "STOPPED"
       IN  \/ launch.remaining <= 0 /\ launch' = LaunchAt("done") /\ UNCHANGED <<record, rt>>
           \/ launch.remaining > 0 /\ ~stopping /\ allowed
                /\ SetTaskStatus("RUNNING") /\ launch' = LaunchAt("done") /\ UNCHANGED rt
           \/ launch.remaining > 0 /\ ~stopping /\ ~allowed
                /\ markRunningTaskStopping /\ launch' = LaunchAt("unsettled") /\ UNCHANGED record
           \/ launch.remaining > 0 /\ stopping
                /\ launch' = LaunchAt("unsettled") /\ UNCHANGED <<record, rt>>
    /\ UNCHANGED <<starter, asked, finish>> /\ LaunchFrame

Unsettle ==
    /\ launch.pc = "unsettled"
    /\ SetTaskStatus("STOPPING")
    /\ launch' = LaunchAt("stopping")
    /\ UNCHANGED <<rt, starter, asked, finish>> /\ LaunchFrame

LaunchStops ==
    /\ launch.pc = "stopping"
    /\ stopContainerIDs(rt.ids)
    /\ launch' = LaunchAt("done")
    /\ UNCHANGED <<record, rt, starter, finish>> /\ LaunchFrame

-----------------------------------------------------------------------------
(* finishTask                                                              *)

FinishFrame == UNCHANGED <<saved, launch, starter, docker, asked, life, stopper, shutdown>>
               /\ Bounds

FinishStatus ==
    /\ finish = "stopped"
    /\ SetTaskStatus("STOPPED") /\ finish' = "desired"
    /\ UNCHANGED rt /\ FinishFrame

FinishDesired ==
    /\ finish = "desired"
    /\ StopTaskRecord /\ finish' = "untrack"
    /\ UNCHANGED rt /\ FinishFrame

FinishUntrack ==
    /\ finish = "untrack"
    /\ rt' = [rt EXCEPT !.tracked = FALSE] /\ finish' = "done"
    /\ UNCHANGED record /\ FinishFrame

-----------------------------------------------------------------------------
(* The lifecycle goroutine of a container                                  *)

LifeFrame == UNCHANGED <<saved, launch, starter, stopper, shutdown>> /\ Bounds

(* Docker: the process in the container ends.                              *)
ContainerExits(c) ==
    /\ docker[c] = "running"
    /\ docker' = [docker EXCEPT ![c] = "exited"]
    /\ UNCHANGED <<record, rt, asked, life, finish>> /\ LifeFrame

(* The wait ends, with the exit or, while the container runs, with an error  *)
(* of Docker or of a context: either is taken for an exit.  An essential      *)
(* container that exited by itself takes the others with it.  A recovered     *)
(* task has no list of the essential ones: all are.                          *)
handleEssentialContainerExit(c) ==
    /\ life[c] = "waiting" /\ docker[c] \in {"running", "exited"}
    /\ IF (c \notin Essential /\ ~rt.recovered) \/ rt.stopRequested \/ rt.essentialExited \/ Stopped
       THEN life' = [life EXCEPT ![c] = "draining"] /\ UNCHANGED rt
       ELSE /\ rt' = [rt EXCEPT !.essentialExited = TRUE, !.stopRequested = TRUE,
                               !.siblings = rt.ids \ {c}]
            /\ life' = [life EXCEPT ![c] = "essential"]
    /\ UNCHANGED <<record, docker, asked, finish>> /\ LifeFrame

(* The siblings that were known in that critical section are stopped.       *)
StopSiblings(c) ==
    /\ life[c] = "essential"
    /\ StopTaskRecord
    /\ stopContainerIDs(rt.siblings)
    /\ life' = [life EXCEPT ![c] = "draining"]
    /\ UNCHANGED <<rt, docker, finish>> /\ LifeFrame

(* The logs are drained and the container is removed, killed if it runs; the *)
(* error of a removal that fails is dropped.                                *)
RemoveContainer(c) ==
    /\ life[c] = "draining"
    /\ docker' = [docker EXCEPT ![c] = "removed"] \/ UNCHANGED docker
    /\ rt' = [rt EXCEPT !.ids = @ \ {c}]
    /\ life' = [life EXCEPT ![c] = "removed"]
    /\ UNCHANGED <<record, asked, finish>> /\ LifeFrame

(* Mutant: the last exit ends the task while others are being started. *)
FinishedEarly(c) ==
    /\ life[c] = "removed"
    /\ rt' = [rt EXCEPT !.remaining = @ - 1]
    /\ finish' = IF rt.remaining - 1 <= 0 THEN "stopped" ELSE finish
    /\ life' = [life EXCEPT ![c] = "gone"]
    /\ UNCHANGED <<record, docker, asked>> /\ LifeFrame

(* Only the last container of a completed launch finishes the task.         *)
onContainerFinished(c) ==
    /\ life[c] = "removed"
    /\ rt' = [rt EXCEPT !.remaining = @ - 1]
    /\ finish' = IF rt.complete /\ rt.remaining - 1 <= 0 THEN "stopped" ELSE finish
    /\ life' = [life EXCEPT ![c] = "gone"]
    /\ UNCHANGED <<record, docker, asked>> /\ LifeFrame

-----------------------------------------------------------------------------
(* StopTask                                                                *)

StopFrame == UNCHANGED <<saved, launch, starter, docker, life, finish, shutdown>>

StopTask ==
    /\ stopper = "free" /\ record # NoRecord /\ nstops < MaxStops
    /\ StopTaskRecord
    /\ stopper' = "recorded" /\ nstops' = nstops + 1
    /\ UNCHANGED <<rt, asked, ncrashes>> /\ StopFrame

StopLookup ==
    /\ stopper = "recorded"
    /\ IF rt.tracked THEN markRunningTaskStopping /\ stopper' = "marked"
       ELSE stopper' = "free" /\ UNCHANGED rt
    /\ UNCHANGED <<record, asked>> /\ StopFrame /\ Bounds

StopSnapshot ==
    /\ stopper = "marked"
    /\ stopContainerIDs(rt.ids)
    /\ stopper' = "free"
    /\ UNCHANGED <<record, rt>> /\ StopFrame /\ Bounds

-----------------------------------------------------------------------------
(* Runner.Stop                                                             *)

ShutdownFrame == UNCHANGED <<saved, launch, starter, docker, life, finish, stopper>> /\ Bounds

StopRunner ==
    /\ shutdown = "no" /\ launch.pc # "free"
    /\ shutdown' = "stopped"
    /\ UNCHANGED <<record, rt, asked>> /\ ShutdownFrame

(* Mutant: Stop does not wait for a launch. *)
GateIgnored == TRUE

(* launchGate.Lock: no launch is under way.                                *)
GateFree == launch.pc \in {"free", "done", "unadopted"}

StopRunnerTasks ==
    /\ shutdown = "stopped" /\ GateFree
    /\ IF rt.tracked
       THEN /\ markRunningTaskStopping
            /\ StopTaskRecord
            /\ stopContainerIDs(rt.ids)
       ELSE UNCHANGED <<record, rt, asked>>
    /\ shutdown' = "swept"
    /\ ShutdownFrame

-----------------------------------------------------------------------------
(* The process dies; the next one reads the snapshot and recovers          *)

Flush ==
    /\ saved # record
    /\ saved' = record
    /\ UNCHANGED <<record, rt, launch, starter, docker, asked, life, finish, stopper,
                   shutdown, nstops, ncrashes>>

Crash ==
    /\ launch.pc # "free" /\ ncrashes < MaxCrashes
    /\ ncrashes' = ncrashes + 1
    /\ record' = saved
    /\ rt' = NoTask
    /\ launch' = LaunchAt("crashed")
    /\ starter' = [c \in Containers |-> "done"]
    /\ life' = [c \in Containers |-> "none"]
    /\ finish' = "no" /\ stopper' = "free" /\ shutdown' = "no"
    /\ asked' = {}
    /\ UNCHANGED <<saved, docker, nstops>>

Present == {c \in Containers : docker[c] \in {"running", "exited"}}

(* The task is live in the record: its containers get a lifecycle again,    *)
(* and are stopped if the record asks for it or one of them is missing.     *)
recoverTask ==
    /\ launch.pc = "crashed" /\ record.last \notin {"none", "STOPPED"}
    /\ LET missing == Present # Containers
           unwanted == missing \/ record.desired = "STOPPED"
       IN  /\ rt' = [NoTask EXCEPT !.complete = TRUE, !.recovered = TRUE, !.ids = Present,
                                   !.remaining = Cardinality(Present),
                                   !.tracked = Present # {}]
           /\ record' =
                [last |-> IF Present = {} THEN "STOPPED"
                          ELSE IF missing THEN "STOPPING"
                          ELSE IF Running # {} /\ ~unwanted THEN "RUNNING" ELSE record.last,
                 desired |-> IF unwanted THEN "STOPPED" ELSE record.desired]
           /\ life' = [c \in Containers |-> IF c \in Present THEN "waiting" ELSE "none"]
           /\ asked' = IF unwanted THEN asked \cup Running ELSE asked
    /\ launch' = LaunchAt("done")
    /\ UNCHANGED <<saved, starter, docker, finish, stopper, shutdown>> /\ Bounds

(* Docker cannot list the containers: the record stays as it was.           *)
ListingFails ==
    /\ launch.pc = "crashed"
    /\ launch' = LaunchAt("unadopted")
    /\ UNCHANGED <<record, saved, rt, starter, docker, asked, life, finish, stopper, shutdown>>
    /\ Bounds

(* Containers without a live record are stopped and removed, those excepted *)
(* for which Docker fails.                                                  *)
cleanupOrphanContainer ==
    /\ launch.pc = "crashed" /\ record.last \in {"none", "STOPPED"}
    /\ asked' = asked \cup Running
    /\ \E left \in SUBSET Present :
          docker' = [c \in Containers |-> IF c \in Present \ left THEN "removed" ELSE docker[c]]
    /\ launch' = LaunchAt("unadopted")
    /\ UNCHANGED <<record, saved, rt, starter, life, finish, stopper, shutdown>> /\ Bounds

-----------------------------------------------------------------------------
TaskNext ==
    \/ Launch \/ NewTaskRecord \/ Track \/ Recheck \/ VolumesFail \/ startContainers
    \/ LaunchFailed \/ setTaskStatusAfterLaunchFailure \/ FailedComplete
    \/ StartedComplete \/ Settle \/ Unsettle \/ LaunchStops
    \/ \E c \in Containers :
          \/ startContainer(c) \/ CreateContainer(c) \/ StartFails(c) \/ RegisterContainer(c)
          \/ spawnLifecycle(c)
          \/ ContainerExits(c) \/ handleEssentialContainerExit(c) \/ StopSiblings(c)
          \/ RemoveContainer(c) \/ onContainerFinished(c)
    \/ FinishStatus \/ FinishDesired \/ FinishUntrack
    \/ StopTask \/ StopLookup \/ StopSnapshot
    \/ StopRunner \/ StopRunnerTasks
    \/ Flush \/ Crash \/ ListingFails \/ recoverTask \/ cleanupOrphanContainer

TaskSpec == TaskInit /\ [][TaskNext]_taskVars

-----------------------------------------------------------------------------
(* Properties                                                              *)

TaskQuiet ==
    /\ launch.pc = "done" /\ stopper = "free" /\ shutdown \in {"no", "swept"}
    /\ \A c \in Containers : life[c] # "essential"

(* The running containers the runner has in hand: this process started or    *)
(* adopted the task, and no wait for the container has failed.               *)
Watched == {c \in Running : launch.pc \notin {"crashed", "unadopted"}
                            /\ life[c] \in {"none", "waiting"}}

(* No container escapes a stop: once the task is to stop and no call is      *)
(* under way, every container in the runner's hand that Docker still runs    *)
(* has been asked to stop, however StopTask, an essential exit, a failed      *)
(* launch, Runner.Stop, a failed wait or removal of another container and a   *)
(* crash met the steps of the launch (runner.go: stopTask, startContainer,    *)
(* handleEssentialContainerExit, recoverTask).                               *)
NoEscape ==
    TaskQuiet /\ (record.desired = "STOPPED" \/ shutdown = "swept") => Watched \subseteq asked

(* While Docker runs a container in the runner's hand, the runner tracks the *)
(* task, so that it can be stopped: the exit of a fast container never ends   *)
(* the task while others are being started (completeLaunch), and STOPPED is   *)
(* recorded by finishTask only when no such container runs.                  *)
TrackedWhileRunning ==
    Watched # {} => rt.tracked /\ finish = "no"

=============================================================================
