---------------------------- MODULE StepFunctions ----------------------------
(***************************************************************************)
(* The Step Functions service and its store: state machines, executions,   *)
(* the map of running executions, and the snapshot that survives a restart *)
(* (internal/stepfunctions/service.go and store.go).  Every call of the    *)
(* store is one step, because the store's lock covers no more; an operation *)
(* that reads and then saves takes two steps, and StartExecution and the    *)
(* goroutine it spawns take several.  What the interpreter does between is  *)
(* module Interpreter's: here it only ends with a status.                   *)
(***************************************************************************)
EXTENDS Integers, FiniteSets

CONSTANTS
    Machines,       \* state machine ARNs
    Names,          \* execution names; an execution's ARN is a machine and a name
    Definitions,    \* valid ASL definitions
    TagKeys,
    Outcomes,       \* terminal statuses of an execution that nobody stopped
    Callers,        \* concurrent API calls that read and then save
    MaxExecutions,  \* maxExecutionsPerMachine
    MaxRuns,        \* bound: StartExecution calls
    MaxStarted      \* bound: other calls

ASSUME StepFunctionsAssumption ==
    /\ Outcomes \cap {"RUNNING", "absent"} = {}
    /\ MaxRuns \in Nat

Arns == Machines \X Names
RunIDs == 1..MaxRuns
Absent == [status |-> "absent", born |-> 0]
NoMachine == [def |-> "none"]
Free == [op |-> "free"]
Terminal == Outcomes \cup {"ABORTED"}
NoArn == <<>>
NoRun == [pc |-> "none", arn |-> NoArn, cancelled |-> FALSE, status |-> "RUNNING", born |-> 0]
NoHandle == 0

VARIABLES
    machines,       \* the store's state machines
    executions,     \* the store's executions
    running,        \* Service.running: the handle of each execution ARN
    runs,           \* StartExecution calls and the goroutines they spawn
    calls,          \* the calls of Callers that have read and not yet saved
    disk,           \* the last snapshot written
    stopping,       \* Stop has cancelled the handles and waits for the goroutines
    ncalls

sfnVars == <<machines, executions, running, runs, calls, disk, stopping, ncalls>>

MachinesInit ==
    /\ machines = [m \in Machines |-> NoMachine]
    /\ executions = [a \in Arns |-> Absent]
    /\ running = [a \in Arns |-> NoHandle]
    /\ runs = [r \in RunIDs |-> NoRun]
    /\ calls = [c \in Callers |-> Free]
    /\ disk = [machines |-> machines, executions |-> executions]
    /\ stopping = FALSE
    /\ ncalls = 0

-----------------------------------------------------------------------------
(* The store                                                               *)

Stored(exs, m) == {a \in Arns : a[1] = m /\ exs[a] # Absent}

(* The oldest finished executions of m beyond the cap go; running ones stay. *)
evictExecutions(exs, m) ==
    LET owned == Stored(exs, m)
        finished == {a \in owned : exs[a].status \in Terminal}
        older(a) == {b \in finished : exs[b].born < exs[a].born}
        dropped == {a \in finished :
                       Cardinality(older(a)) < Cardinality(owned) - MaxExecutions}
    IN  [a \in Arns |-> IF a \in dropped THEN Absent ELSE exs[a]]

SaveExecution(a, ex) ==
    executions' = evictExecutions([executions EXCEPT ![a] = ex], a[1])

SaveStateMachine(m, sm) == machines' = [machines EXCEPT ![m] = sm]

flushMachines ==
    /\ disk' = [machines |-> machines, executions |-> executions]
    /\ disk' # disk
    /\ UNCHANGED <<machines, executions, running, runs, calls, stopping, ncalls>>

(* Mutant: a RUNNING execution is loaded as it is. *)
LoadedAsIs(exs) == exs

(* Executions are not resumed: a RUNNING one is loaded as ABORTED.         *)
Loaded(exs) ==
    [a \in Arns |-> IF exs[a].status = "RUNNING" THEN [exs[a] EXCEPT !.status = "ABORTED"]
                    ELSE exs[a]]

(* The process dies and Store.Init reads the snapshot.  Calls and            *)
(* goroutines are gone; the runs they used stay used.                        *)
RestartMachines ==
    LET loaded == Loaded(disk.executions)
        dropped == {a \in Arns : \E m \in Machines : evictExecutions(loaded, m)[a] # loaded[a]}
    IN  /\ \E r \in RunIDs : runs[r].pc \notin {"none", "done"}
        /\ machines' = disk.machines
        /\ executions' = [a \in Arns |-> IF a \in dropped THEN Absent ELSE loaded[a]]
        /\ running' = [a \in Arns |-> NoHandle]
        /\ runs' = [r \in RunIDs |-> IF runs[r] = NoRun THEN NoRun ELSE [NoRun EXCEPT !.pc = "done"]]
        /\ calls' = [c \in Callers |-> Free]
        /\ stopping' = FALSE
        /\ UNCHANGED <<disk, ncalls>>

-----------------------------------------------------------------------------
(* The control plane                                                       *)

CanCall(c) == calls[c] = Free /\ ncalls < MaxStarted

BeginCall(c, call) ==
    /\ CanCall(c)
    /\ calls' = [calls EXCEPT ![c] = call]
    /\ ncalls' = ncalls + 1
    /\ UNCHANGED <<machines, executions, running, runs, disk, stopping>>

CreateStateMachine(c, m, d) ==
    /\ machines[m] = NoMachine
    /\ BeginCall(c, [op |-> "save", machine |-> m, sm |-> [def |-> d, tags |-> {}]])

UpdateStateMachine(c, m, d) ==
    /\ machines[m] # NoMachine
    /\ BeginCall(c, [op |-> "save", machine |-> m, sm |-> [machines[m] EXCEPT !.def = d]])

TagResource(c, m, t) ==
    /\ machines[m] # NoMachine
    /\ BeginCall(c, [op |-> "save", machine |-> m, sm |-> [machines[m] EXCEPT !.tags = @ \cup {t}]])

UntagResource(c, m, t) ==
    /\ machines[m] # NoMachine
    /\ BeginCall(c, [op |-> "save", machine |-> m, sm |-> [machines[m] EXCEPT !.tags = @ \ {t}]])

(* The save that ends each of these four calls.                            *)
SaveCall(c) ==
    /\ calls[c].op = "save"
    /\ SaveStateMachine(calls[c].machine, calls[c].sm)
    /\ calls' = [calls EXCEPT ![c] = Free]
    /\ UNCHANGED <<executions, running, runs, disk, stopping, ncalls>>

(* The machine and every execution of it go in one step of the store.      *)
DeleteStateMachine(m) ==
    /\ machines[m] # NoMachine /\ ncalls < MaxStarted
    /\ machines' = [machines EXCEPT ![m] = NoMachine]
    /\ executions' = [a \in Arns |-> IF a[1] = m THEN Absent ELSE executions[a]]
    /\ ncalls' = ncalls + 1
    /\ UNCHANGED <<running, runs, calls, disk, stopping>>

-----------------------------------------------------------------------------
(* Executions                                                              *)

RunFrame == UNCHANGED <<machines, calls, disk, stopping, ncalls>>

SetRun(r, run) == runs' = [runs EXCEPT ![r] = run]
SetPc(r, pc) == runs' = [runs EXCEPT ![r].pc = pc]

(* The machine is read and parsed, and no execution has the name.  The run   *)
(* number is the order of the start dates.                                   *)
StartExecution(r, m, n) ==
    /\ runs[r] = NoRun /\ \A q \in 1..(r - 1) : runs[q] # NoRun
    /\ machines[m] # NoMachine /\ executions[<<m, n>>] = Absent
    /\ SetRun(r, [NoRun EXCEPT !.pc = "checked", !.arn = <<m, n>>])
    /\ UNCHANGED <<executions, running>> /\ RunFrame

SaveRunning(r) ==
    /\ runs[r].pc = "checked"
    /\ SaveExecution(runs[r].arn, [status |-> "RUNNING", born |-> r])
    /\ SetPc(r, "saved")
    /\ UNCHANGED running /\ RunFrame

(* The handle is registered, over another one of the same name if there is, *)
(* and the goroutine is spawned.                                            *)
Register(r) ==
    /\ runs[r].pc = "saved"
    /\ running' = [running EXCEPT ![runs[r].arn] = r]
    /\ SetPc(r, "running")
    /\ UNCHANGED executions /\ RunFrame

(* Execute returns.  A cancelled run is aborted, or had already ended.      *)
Execute(r) ==
    /\ runs[r].pc = "running"
    /\ \E status \in Outcomes \cup (IF runs[r].cancelled THEN {"ABORTED"} ELSE {}) :
          SetRun(r, [runs[r] EXCEPT !.pc = "executed", !.status = status])
    /\ UNCHANGED <<executions, running>> /\ RunFrame

(* runExecution reads the record; without one there is nothing to save.     *)
ReadRecord(r) ==
    /\ runs[r].pc = "executed"
    /\ LET ex == executions[runs[r].arn]
       IN  SetRun(r, IF ex = Absent THEN [runs[r] EXCEPT !.pc = "stored"]
                     ELSE [runs[r] EXCEPT !.pc = "read", !.born = ex.born])
    /\ UNCHANGED <<executions, running>> /\ RunFrame

SaveTerminal(r) ==
    /\ runs[r].pc = "read"
    /\ SaveExecution(runs[r].arn, [status |-> runs[r].status, born |-> runs[r].born])
    /\ SetPc(r, "stored")
    /\ UNCHANGED running /\ RunFrame

(* The entry of the ARN goes, whoever's it is.                              *)
clearRunning(r) ==
    /\ runs[r].pc = "stored"
    /\ running' = [running EXCEPT ![runs[r].arn] = NoHandle]
    /\ SetRun(r, [NoRun EXCEPT !.pc = "done"])
    /\ UNCHANGED executions /\ RunFrame

cancel(r) == runs' = [runs EXCEPT ![r].cancelled = TRUE]

(* A call for an execution that is known but not in the map does nothing.   *)
StopExecution(a) ==
    /\ ncalls < MaxStarted
    /\ executions[a] # Absent /\ running[a] # NoHandle
    /\ cancel(running[a])
    /\ ncalls' = ncalls + 1
    /\ UNCHANGED <<machines, executions, running, calls, disk, stopping>>

(* Stop cancels the registered handles and then waits for all goroutines.   *)
StopService ==
    /\ ~stopping
    /\ \E r \in RunIDs : runs[r].pc = "running"
    /\ stopping' = TRUE
    /\ runs' = [r \in RunIDs |-> IF \E a \in Arns : running[a] = r
                                 THEN [runs[r] EXCEPT !.cancelled = TRUE] ELSE runs[r]]
    /\ UNCHANGED <<machines, executions, running, calls, disk, ncalls>>

Spawned == {r \in RunIDs : runs[r].pc \in {"running", "executed", "read", "stored"}}

StopReturns ==
    /\ stopping /\ Spawned = {}
    /\ stopping' = FALSE
    /\ UNCHANGED <<machines, executions, running, runs, calls, disk, ncalls>>

-----------------------------------------------------------------------------
MachinesNext ==
    \/ \E c \in Callers, m \in Machines :
          \/ \E d \in Definitions : CreateStateMachine(c, m, d) \/ UpdateStateMachine(c, m, d)
          \/ \E t \in TagKeys : TagResource(c, m, t) \/ UntagResource(c, m, t)
    \/ \E c \in Callers : SaveCall(c)
    \/ \E m \in Machines : DeleteStateMachine(m)
    \/ \E r \in RunIDs, m \in Machines, n \in Names : StartExecution(r, m, n)
    \/ \E r \in RunIDs : \/ SaveRunning(r) \/ Register(r) \/ Execute(r) \/ ReadRecord(r)
                         \/ SaveTerminal(r) \/ clearRunning(r)
    \/ \E a \in Arns : StopExecution(a)
    \/ StopService \/ StopReturns
    \/ flushMachines \/ RestartMachines

MachinesSpec == MachinesInit /\ [][MachinesNext]_sfnVars

-----------------------------------------------------------------------------
(* Properties                                                              *)

(* An execution stored as RUNNING has a StartExecution call or a goroutine   *)
(* that will still write its end: neither a second start of the same name,   *)
(* nor a deletion between the steps of runExecution, nor a crash and the     *)
(* reload of the snapshot leaves one that runs for ever.                     *)
RunningIsDriven ==
    \A a \in Arns : executions[a].status = "RUNNING" =>
        \E r \in RunIDs : /\ runs[r].pc \in {"saved", "running", "executed", "read"}
                          /\ runs[r].arn = a
=============================================================================
