----------------------------- MODULE Interpreter -----------------------------
(***************************************************************************)
(* One Step Functions execution, from Run.Execute to its terminal event:   *)
(* the state loop, Task, Choice, Wait, Parallel and Map states, Retry and  *)
(* Catch, the ecs:runTask.sync integration, and the history emitter that   *)
(* all the goroutines of the execution share                               *)
(* (internal/stepfunctions/interpreter, and taskExecutor in service.go).   *)
(*                                                                         *)
(* A flow is one goroutine that runs execution.loop: the root machine, one *)
(* branch of a Parallel state or one item of a Map state.  Main is the     *)
(* goroutine inside run_, which waits for the root flow or for the context.*)
(* Values (inputs, results, paths) are abstracted: a state's data handling *)
(* either succeeds or fails with States.Runtime.                           *)
(***************************************************************************)
EXTENDS Integers, Sequences, FiniteSets

CONSTANTS
    Root,           \* the flow of the whole machine
    Main,           \* the goroutine in run_
    Children,       \* the flows of the Parallel and Map states, at any depth
    Machine,        \* Machine[f][s]: the state s of the machine that flow f runs
    StartAt,        \* StartAt[f]: the first state of that machine
    MaxConcurrency, \* the limit of the Map states
    TaskCount       \* tasks one ecs:runTask.sync launches

Flows == {Root} \cup Children
Goroutines == {Main} \cup Flows
Tasks == 1..TaskCount
NoTasks == [i \in Tasks |-> "none"]
End == "End"        \* the empty next state
NoState == "NoState"
Ok == "ok"          \* a nil error
Aborted == "aborted"

(* What asl.Parse has checked of every machine: a transition, a rule or a  *)
(* catcher leads to a state of the same machine.                           *)
validateTransition(f, st) == st.next \in DOMAIN Machine[f] \cup {End}

validateChoice(f, st) ==
    st.choices \subseteq DOMAIN Machine[f] /\ st.default \in DOMAIN Machine[f] \cup {NoState}

validateCatchers(f, st) ==
    /\ st.retry \in Seq([errors : SUBSET STRING, max : Nat])
    /\ st.catch \in Seq([errors : SUBSET STRING, next : DOMAIN Machine[f]])

Forking == {"Parallel", "Map"}
Working == {"Task"} \cup Forking

validateState(f, st) ==
    /\ st.type \in {"Pass", "Wait"} \cup Working => validateTransition(f, st)
    /\ st.type \in Working => validateCatchers(f, st)
    /\ st.type = "Choice" => validateChoice(f, st)
    /\ st.type \in Forking => st.flows \subseteq Children

validateMachine(f) ==
    /\ StartAt[f] \in DOMAIN Machine[f]
    /\ \A s \in DOMAIN Machine[f] : validateState(f, Machine[f][s])

(* The goroutines that state s of flow f starts.                           *)
Forks(f, s) == IF Machine[f][s].type \in Forking THEN Machine[f][s].flows ELSE {}

(* Machines are nested as the JSON document is: a flow is started by one    *)
(* state only, and its machine lies deeper than the one of that state.      *)
Nested ==
    /\ \A f, g \in Flows : \A s \in DOMAIN Machine[f], t \in DOMAIN Machine[g] :
          Forks(f, s) \cap Forks(g, t) # {} => f = g /\ s = t
    /\ \E depth \in [Flows -> 0..Cardinality(Children)] :
          \A f \in Flows : \A s \in DOMAIN Machine[f] :
              \A g \in Forks(f, s) : depth[f] < depth[g]

ASSUME InterpreterAssumption ==
    /\ Root \notin Children /\ Main \notin Flows /\ IsFiniteSet(Children)
    /\ TaskCount \in Nat /\ MaxConcurrency \in Nat
    /\ \A f \in Flows : validateMachine(f)
    /\ Nested

VARIABLES
    flow,       \* flow[f]: where the goroutine of f is in loop and below it
    pending,    \* the goroutines that took an event ID and have not yet handed the
                \* event to the sink
    task,       \* task[f]: the ECS tasks of f's last RunTask
    stopAsked,  \* stopAsked[f]: those among them StopTask was called for
    cancelled,  \* the execution's context: StopExecution or Stop was called
    expired,    \* the machine's deadline has passed
    main,       \* where run_ is
    woken,      \* which case of its select run_ took
    ended       \* what Execute returned

executionVars == <<flow, pending, task, stopAsked, cancelled, expired, main, woken, ended>>

IdleFlow == [pc |-> "idle", state |-> NoState, next |-> End, err |-> Ok,
             tries |-> <<>>, late |-> FALSE, seen |-> {}]

ExecutionInit ==
    /\ flow = [f \in Flows |-> IdleFlow]
    /\ pending = {}
    /\ task = [f \in Flows |-> NoTasks]
    /\ stopAsked = [f \in Flows |-> {}]
    /\ cancelled = FALSE /\ expired = FALSE
    /\ main = "start" /\ woken = "none" /\ ended = "none"

-----------------------------------------------------------------------------
(* The emitter: the ID is taken under em.mu, the sink is called after it.  *)

emit(g) == pending' = pending \cup {g}

Emitting(g) == g \in pending

Sink(g) ==
    /\ Emitting(g)
    /\ pending' = pending \ {g}
    /\ UNCHANGED <<flow, task, stopAsked, cancelled, expired, main, woken, ended>>

NoEvent == UNCHANGED pending

(* loopCtx is done: cancelled by the caller, past its deadline, or cancelled *)
(* by the deferred loopCancel once run_ has returned.                        *)
CtxDone == cancelled \/ expired \/ main = "ended"

FlowAt(f, pc) == ~Emitting(f) /\ flow[f].pc = pc

Current(f) == Machine[f][flow[f].state]

(* The parts of the state that a step of flow f inside loop leaves alone.  *)
LoopFrame == UNCHANGED <<task, stopAsked, cancelled, expired, main, ended>>

FlowTo(f, pc) == flow' = [flow EXCEPT ![f].pc = pc]

(* toStateError: an error that is no StateError, as ErrAborted, becomes    *)
(* States.TaskFailed.                                                      *)
toStateError(err) == IF err = Aborted THEN "TaskFailed" ELSE err

-----------------------------------------------------------------------------
(* loop                                                                    *)

(* The loop returns.  The root's result goes to the buffered channel, which *)
(* wakes run_ if it is parked in its select.                                *)
Return(f, err) ==
    /\ flow' = [flow EXCEPT ![f] = [IdleFlow EXCEPT !.pc = "returned", !.err = err]]
    /\ woken' = IF f = Root /\ main = "parked" /\ woken = "none" THEN "done" ELSE woken

LoopTop(f) ==
    /\ FlowAt(f, "top")
    /\ \/ CtxDone /\ Return(f, Aborted) /\ NoEvent
       \/ ~CtxDone /\ emit(f) /\ FlowTo(f, "dispatch") /\ UNCHANGED woken
    /\ LoopFrame

(* dispatchState has returned: the exited event follows, on every outcome. *)
Exit(f, next, err) ==
    /\ emit(f)
    /\ flow' = [flow EXCEPT ![f] = [@ EXCEPT !.pc = "exited", !.next = next, !.err = err,
                                             !.tries = <<>>]]
    /\ UNCHANGED woken

LoopNext(f) ==
    /\ FlowAt(f, "exited")
    /\ NoEvent /\ LoopFrame
    /\ LET fl == flow[f] IN
       CASE fl.err # Ok -> Return(f, fl.err)
         [] fl.err = Ok /\ fl.next = End -> Return(f, Ok)
         [] OTHER -> /\ flow' = [flow EXCEPT ![f].pc = "top", ![f].state = fl.next]
                     /\ UNCHANGED woken

-----------------------------------------------------------------------------
(* Pass, Choice, Wait, Succeed and Fail                                    *)

InState(f, type) == FlowAt(f, "dispatch") /\ Current(f).type = type

runPass(f) ==
    /\ InState(f, "Pass")
    /\ \E err \in {Ok, "Runtime"} : Exit(f, Current(f).next, err)
    /\ LoopFrame

(* A rule matches, or the default is taken, or there is none, or a rule     *)
(* cannot be evaluated.                                                     *)
runChoice(f) ==
    /\ InState(f, "Choice")
    /\ \/ \E s \in Current(f).choices : Exit(f, s, Ok)
       \/ Exit(f, End, "Runtime")
       \/ Current(f).default # NoState /\ Exit(f, Current(f).default, Ok)
       \/ Current(f).default = NoState /\ Exit(f, End, "NoChoiceMatched")
    /\ LoopFrame

(* The wait ends with its timer or with the context.                       *)
runWait(f) ==
    /\ InState(f, "Wait")
    /\ \/ \E err \in {Ok, "Runtime"} : Exit(f, Current(f).next, err)
       \/ CtxDone /\ Exit(f, End, Aborted)
    /\ LoopFrame

runSucceed(f) ==
    /\ InState(f, "Succeed")
    /\ \E err \in {Ok, "Runtime"} : Exit(f, End, err)
    /\ LoopFrame

runFail(f) == InState(f, "Fail") /\ Exit(f, End, Current(f).error) /\ LoopFrame

-----------------------------------------------------------------------------
(* runWithRetryCatch: work is what Task, Parallel and Map states repeat.   *)

Matches(errorEquals, name) == "ALL" \in errorEquals \/ name \in errorEquals

(* The retriers are tried in order: every matching one up to the first with *)
(* an attempt left is charged.                                              *)
Charged(f, name) ==
    LET rs == Current(f).retry
        tries == IF flow[f].tries = <<>> THEN [i \in DOMAIN rs |-> 0] ELSE flow[f].tries
        matching == {i \in DOMAIN rs : Matches(rs[i].errors, name)}
        usable == {i \in matching : tries[i] < rs[i].max}
        first == IF usable = {} THEN Len(rs) ELSE CHOOSE i \in usable : \A j \in usable : i <= j
    IN  [retry |-> usable # {},
         tries |-> [i \in DOMAIN rs |->
                       IF i \in matching /\ i <= first THEN tries[i] + 1 ELSE tries[i]]]

(* The first catcher that matches.                                         *)
Caught(f, name) ==
    LET matching == {i \in DOMAIN Current(f).catch : Matches(Current(f).catch[i].errors, name)}
    IN  {i \in matching : \A j \in matching : i <= j}

(* What follows a failed attempt: a wait before the next one, a catcher's  *)
(* state, or the error itself.                                             *)
AfterFailure(f, err) ==
    LET name == toStateError(err)
        charged == Charged(f, name)
        caught == Caught(f, name)
    IN  \/ /\ charged.retry
           /\ flow' = [flow EXCEPT ![f] = [@ EXCEPT !.pc = "backoff", !.tries = charged.tries]]
           /\ NoEvent /\ UNCHANGED woken
        \/ /\ ~charged.retry
           /\ \/ \E i \in caught, late \in {Ok, "Runtime"} : Exit(f, Current(f).catch[i].next, late)
              \/ caught = {} /\ Exit(f, End, name)

(* A result that cannot be put into the output fails the state; a task's     *)
(* that cannot be read or selected from fails only the attempt.              *)
AfterWork(f, err) ==
    IF err = Ok
    THEN \/ \E late \in {Ok, "Runtime"} : Exit(f, Current(f).next, late)
         \/ Current(f).type = "Task" /\ AfterFailure(f, "Runtime")
    ELSE AfterFailure(f, err)

(* The input of a Task, Parallel or Map state cannot be made.              *)
InputFails(f) ==
    /\ FlowAt(f, "dispatch") /\ Current(f).type \in Working
    /\ Exit(f, End, "Runtime")
    /\ LoopFrame

Backoff(f) ==
    /\ FlowAt(f, "backoff")
    /\ \/ FlowTo(f, "dispatch") /\ NoEvent /\ UNCHANGED woken
       \/ CtxDone /\ Exit(f, End, Aborted)
    /\ LoopFrame

-----------------------------------------------------------------------------
(* Task states                                                             *)

Scheduled(f) ==
    /\ InState(f, "Task")
    /\ emit(f)
    /\ FlowTo(f, IF Current(f).resource = "lambda" THEN "call" ELSE "scheduled")
    /\ LoopFrame /\ UNCHANGED woken

Started(f) ==
    /\ FlowAt(f, "scheduled")
    /\ emit(f) /\ FlowTo(f, "call")
    /\ LoopFrame /\ UNCHANGED woken

(* RunTask has returned: the succeeded or failed event, then Retry/Catch.  *)
Answer(f, err) ==
    /\ emit(f)
    /\ flow' = [flow EXCEPT ![f] = [@ EXCEPT !.pc = "answered", !.err = err]]

Calling(f, resource) == FlowAt(f, "call") /\ Current(f).resource = resource

runLambda(f) ==
    /\ Calling(f, "lambda")
    /\ \E err \in {Ok, "TaskFailed"} : Answer(f, err)
    /\ LoopFrame /\ UNCHANGED woken

runHTTP(f) ==
    /\ Calling(f, "http")
    /\ \E err \in {Ok, "TaskFailed", "Socket", "StatusCode"} : Answer(f, err)
    /\ LoopFrame /\ UNCHANGED woken

Answered(f) ==
    /\ FlowAt(f, "answered")
    /\ AfterWork(f, flow[f].err)
    /\ LoopFrame

-----------------------------------------------------------------------------
(* ecs:runTask.sync                                                        *)

ecsTaskContextError(f) ==
    CASE CtxDone -> Aborted
      [] ~CtxDone /\ flow[f].late -> "Timeout"
      [] OTHER -> Ok

(* Mutant: stopping ends with the first task. *)
stopFirstECSTask(f, tasks, seen) ==
    LET left == {i \in Tasks : tasks[i] # "none" /\ i \notin seen}
    IN  stopAsked' = [stopAsked EXCEPT ![f] = @ \cup {i \in left : \A j \in left : i <= j}]

(* StopTask for every task not already seen STOPPED; its error is ignored. *)
stopECSTasks(f, tasks, seen) ==
    stopAsked' = [stopAsked EXCEPT ![f] = @ \cup {i \in Tasks : tasks[i] # "none" /\ i \notin seen}]

EcsFrame == UNCHANGED <<cancelled, expired, main, woken, ended>>

(* RunTask answers: an error, or the tasks it launched, some of which may   *)
(* have failed to launch, or none.                                         *)
EcsRunTask(f) ==
    /\ Calling(f, "ecs")
    /\ stopAsked' = [stopAsked EXCEPT ![f] = {}]
    /\ \/ /\ Answer(f, IF ecsTaskContextError(f) # Ok THEN ecsTaskContextError(f)
                       ELSE "TaskFailed")
          /\ task' = [task EXCEPT ![f] = NoTasks]
       \/ \E launched \in SUBSET Tasks :
             /\ task' = [task EXCEPT ![f] = [i \in Tasks |-> IF i \in launched THEN "live"
                                                             ELSE "none"]]
             /\ flow' = [flow EXCEPT ![f] = [@ EXCEPT !.pc = "launched", !.seen = {},
                                                      !.late = FALSE]]
             /\ NoEvent
    /\ EcsFrame

EcsLaunched(f) ==
    /\ FlowAt(f, "launched")
    /\ LET ctxErr == ecsTaskContextError(f)
           failures == \E i \in Tasks : task[f][i] = "none"
           none == \A i \in Tasks : task[f][i] = "none"
       IN  \/ ctxErr # Ok /\ stopECSTasks(f, task[f], {}) /\ Answer(f, ctxErr)
           \/ ctxErr = Ok /\ failures /\ ~none
                /\ stopECSTasks(f, task[f], {}) /\ Answer(f, "TaskFailed")
           \/ ctxErr = Ok /\ none /\ Answer(f, "TaskFailed") /\ UNCHANGED stopAsked
           \/ ctxErr = Ok /\ ~failures /\ FlowTo(f, "poll") /\ NoEvent /\ UNCHANGED stopAsked
    /\ EcsFrame /\ UNCHANGED task

(* One round of waitECSTasks: the context ended, a task could not be        *)
(* described, all are STOPPED (with or without a failed container), or wait. *)
EcsPoll(f) ==
    /\ FlowAt(f, "poll")
    /\ LET ctxErr == ecsTaskContextError(f)
           stopped == {i \in Tasks : task[f][i] = "stopped"}
       IN  \/ ctxErr # Ok /\ stopECSTasks(f, task[f], flow[f].seen) /\ Answer(f, ctxErr)
           \/ ctxErr = Ok /\ \E k \in Tasks :
                /\ stopECSTasks(f, task[f], flow[f].seen \cup {i \in stopped : i < k})
                /\ Answer(f, "TaskFailed")
           \/ ctxErr = Ok /\ stopped = Tasks /\ UNCHANGED stopAsked
                /\ \E err \in {Ok, "TaskFailed"} : Answer(f, err)
           \/ ctxErr = Ok /\ stopped # Tasks /\ UNCHANGED stopAsked /\ NoEvent
                /\ flow' = [flow EXCEPT ![f] = [@ EXCEPT !.pc = "polled", !.seen = stopped]]
    /\ EcsFrame /\ UNCHANGED task

waitECSTasks(f) ==
    /\ FlowAt(f, "polled")
    /\ \/ FlowTo(f, "poll") /\ NoEvent /\ UNCHANGED stopAsked
       \/ /\ ecsTaskContextError(f) # Ok
          /\ stopECSTasks(f, task[f], flow[f].seen)
          /\ Answer(f, ecsTaskContextError(f))
    /\ EcsFrame /\ UNCHANGED task

(* The deadline of the step's own TimeoutSeconds.                          *)
EcsDeadline(f) ==
    /\ flow[f].pc \in {"launched", "poll", "polled"} /\ ~flow[f].late
    /\ flow' = [flow EXCEPT ![f].late = TRUE]
    /\ EcsFrame /\ UNCHANGED <<task, stopAsked, pending>>

(* A task stops, by itself or because it was asked to.                     *)
TaskStops(f, i) ==
    /\ task[f][i] = "live"
    /\ task' = [task EXCEPT ![f][i] = "stopped"]
    /\ EcsFrame /\ UNCHANGED <<flow, stopAsked, pending>>

-----------------------------------------------------------------------------
(* Parallel and Map states                                                 *)

(* The branches start and none is waited for before all have been started. *)
runBranches(f) ==
    /\ InState(f, "Parallel")
    /\ flow' = [g \in Flows |->
                  IF g = f THEN [flow[f] EXCEPT !.pc = "join"]
                  ELSE IF g \in Current(f).flows
                       THEN [IdleFlow EXCEPT !.pc = "top", !.state = StartAt[g]]
                       ELSE flow[g]]
    /\ NoEvent /\ LoopFrame /\ UNCHANGED woken

(* ItemsPath gives no array, which fails the attempt, or an empty one.     *)
NoItems(f) ==
    /\ InState(f, "Map")
    /\ \E err \in {Ok, "Runtime"} : AfterWork(f, err)
    /\ LoopFrame

(* The items start and queue for the semaphore.                            *)
runItems(f) ==
    /\ InState(f, "Map")
    /\ flow' = [g \in Flows |->
                  IF g = f THEN [flow[f] EXCEPT !.pc = "join"]
                  ELSE IF g \in Current(f).flows THEN [IdleFlow EXCEPT !.pc = "queued"]
                       ELSE flow[g]]
    /\ NoEvent /\ LoopFrame /\ UNCHANGED woken

(* The flows of one Map state share its semaphore.                         *)
ItemsOf(f, s) == IF Machine[f][s].type = "Map" THEN Machine[f][s].flows ELSE {}
Items == UNION {UNION {ItemsOf(f, s) : s \in DOMAIN Machine[f]} : f \in Flows}

Holding(items) == {g \in items : flow[g].pc \notin {"idle", "queued", "joined"}}

Acquire(g) ==
    \E f \in Flows : \E s \in DOMAIN Machine[f] :
        g \in ItemsOf(f, s) /\ Cardinality(Holding(ItemsOf(f, s))) < MaxConcurrency

(* The semaphore, then the iteration's start event.                        *)
IterationStart(f) ==
    /\ FlowAt(f, "queued") /\ Acquire(f)
    /\ emit(f)
    /\ flow' = [flow EXCEPT ![f] = [@ EXCEPT !.pc = "top", !.state = StartAt[f]]]
    /\ LoopFrame /\ UNCHANGED woken

(* The item's input cannot be made: no event, and the semaphore is returned. *)
ItemFails(f) ==
    /\ FlowAt(f, "queued") /\ Acquire(f)
    /\ flow' = [flow EXCEPT ![f] = [@ EXCEPT !.pc = "joined", !.err = "Runtime"]]
    /\ NoEvent /\ LoopFrame /\ UNCHANGED woken

(* The iteration's end event; the semaphore is given back after it.        *)
IterationEnd(f) ==
    /\ f \in Items /\ FlowAt(f, "returned")
    /\ emit(f) /\ FlowTo(f, "iterated")
    /\ LoopFrame /\ UNCHANGED woken

ReleaseSemaphore(f) ==
    /\ FlowAt(f, "iterated") /\ FlowTo(f, "joined")
    /\ NoEvent /\ LoopFrame /\ UNCHANGED woken

(* A Parallel branch is done when its loop has returned.                   *)
Finished(g) == ~Emitting(g) /\ flow[g].pc = (IF g \in Items THEN "joined" ELSE "returned")

(* Mutant: the join ends with the first error. *)
JoinFirstError(f) == \/ \A g \in Current(f).flows : Finished(g)
                     \/ \E g \in Current(f).flows : Finished(g) /\ flow[g].err # Ok

(* wg.Wait: every child has finished.                                      *)
Joined(f) == \A g \in Current(f).flows : Finished(g)

(* The first error in branch order, which for a Parallel state is wrapped. *)
Join(f) ==
    /\ FlowAt(f, "join") /\ Joined(f)
    /\ LET errs == {flow[g].err : g \in Current(f).flows} \ {Ok}
       IN  IF errs = {} THEN AfterWork(f, Ok)
           ELSE IF Current(f).type = "Parallel" THEN AfterFailure(f, "BranchFailed")
                ELSE \E err \in errs : AfterFailure(f, err)
    /\ LoopFrame

-----------------------------------------------------------------------------
(* run_ and the contexts                                                   *)

MainFrame == UNCHANGED <<task, stopAsked, cancelled, expired>>

ExecutionStarted ==
    /\ main = "start"
    /\ emit(Main) /\ main' = "spawn"
    /\ UNCHANGED <<flow, woken, ended>> /\ MainFrame

SpawnLoop ==
    /\ main = "spawn" /\ ~Emitting(Main)
    /\ flow' = [flow EXCEPT ![Root] = [IdleFlow EXCEPT !.pc = "top", !.state = StartAt[Root]]]
    /\ main' = "select"
    /\ NoEvent /\ UNCHANGED <<woken, ended>> /\ MainFrame

(* A select with several ready cases takes any of them; with none it parks, *)
(* and the first case that becomes ready is the one it takes.               *)
Select ==
    /\ main = "select"
    /\ \/ flow[Root].pc = "returned" /\ woken' = "done" /\ main' = "parked"
       \/ CtxDone /\ woken' = "ctx" /\ main' = "parked"
       \/ flow[Root].pc # "returned" /\ ~CtxDone /\ main' = "parked" /\ UNCHANGED woken
    /\ NoEvent /\ UNCHANGED <<flow, ended>> /\ MainFrame

WokenByCtx == IF main = "parked" /\ woken = "none" THEN "ctx" ELSE woken

Cancel ==
    /\ ~cancelled /\ main # "ended"
    /\ cancelled' = TRUE /\ woken' = WokenByCtx
    /\ UNCHANGED <<flow, pending, task, stopAsked, expired, main, ended>>

Deadline ==
    /\ ~expired /\ main \in {"select", "parked"}
    /\ expired' = TRUE /\ woken' = WokenByCtx
    /\ UNCHANGED <<flow, pending, task, stopAsked, cancelled, main, ended>>

finishAborted == IF ~cancelled /\ expired THEN "TIMED_OUT" ELSE "ABORTED"

(* applyTerminalStatus of what run_ returns.                               *)
TerminalStatus ==
    LET err == flow[Root].err IN
    CASE woken = "ctx" \/ err = Aborted -> finishAborted
      [] woken = "done" /\ err = Ok -> "SUCCEEDED"
      [] woken = "done" /\ err = "Timeout" -> "TIMED_OUT"
      [] OTHER -> "FAILED"

Finish ==
    /\ main = "parked" /\ woken # "none" /\ ended = "none"
    /\ emit(Main) /\ ended' = TerminalStatus
    /\ UNCHANGED <<flow, main, woken>> /\ MainFrame

(* Execute returns, loopCancel runs, and the service copies the events.    *)
Snapshot ==
    /\ ended # "none" /\ main = "parked" /\ ~Emitting(Main)
    /\ main' = "ended"
    /\ NoEvent /\ UNCHANGED <<flow, woken, ended>> /\ MainFrame

-----------------------------------------------------------------------------
FlowStep(f) ==
    \/ LoopTop(f) \/ LoopNext(f) \/ Backoff(f) \/ InputFails(f)
    \/ runPass(f) \/ runChoice(f) \/ runWait(f) \/ runSucceed(f) \/ runFail(f)
    \/ Scheduled(f) \/ Started(f) \/ runLambda(f) \/ runHTTP(f) \/ Answered(f)
    \/ EcsRunTask(f) \/ EcsLaunched(f) \/ EcsPoll(f) \/ waitECSTasks(f) \/ EcsDeadline(f)
    \/ runBranches(f) \/ runItems(f) \/ NoItems(f) \/ Join(f)
    \/ IterationStart(f) \/ ItemFails(f) \/ IterationEnd(f) \/ ReleaseSemaphore(f)

ExecutionNext ==
    \/ \E f \in Flows : FlowStep(f) \/ \E i \in Tasks : TaskStops(f, i)
    \/ \E g \in Goroutines : Sink(g)
    \/ ExecutionStarted \/ SpawnLoop \/ Select \/ Finish \/ Snapshot
    \/ Cancel \/ Deadline

ExecutionSpec == ExecutionInit /\ [][ExecutionNext]_executionVars

-----------------------------------------------------------------------------
(* Properties                                                              *)

(* A task launched by ecs:runTask.sync is never left running unasked: once  *)
(* runECS has returned, whatever made it return, every task it launched is  *)
(* STOPPED or StopTask was called for it (service.go: runECS, waitECSTasks). *)
NoAbandonedTask ==
    \A f \in Flows : flow[f].pc \notin {"launched", "poll", "polled"} =>
        \A i \in Tasks : task[f][i] = "live" => i \in stopAsked[f]

(* The history stored with an execution that ran to its end, whether it     *)
(* succeeded or failed, holds every event of it: when the events are copied   *)
(* no branch or item is still running or holds an event, because runBranches  *)
(* and runItems join their goroutines before they look at the errors.         *)
HistoryComplete ==
    main = "ended" /\ woken = "done" =>
        pending = {} /\ \A f \in Flows : flow[f].pc \in {"idle", "returned", "joined"}
=============================================================================
