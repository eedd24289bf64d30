----------------------------- MODULE MCServices -----------------------------
(***************************************************************************)
(* Step Functions, ECS tasks, DynamoDB, EventBridge, Cognito, S3, the logs  *)
(* and the account registry in one instance.  The parts keep separate state *)
(* and meet only at calls that each module already answers with every       *)
(* outcome, so their steps commute: a behaviour here exercises one part,    *)
(* which one being the choice of AllInit.                                   *)
(***************************************************************************)
EXTENDS Accounts, StepFunctions, Interpreter, EventBridge, ECSTask, Cognito, DynamoDB, S3,
        Logs, TLC

VARIABLE active     \* the part this behaviour exercises

allVars == <<active, executionVars, sfnVars, taskVars, dynVars, ebVars, poolVars, bucketVars, logVars, vars>>

(* A machine with a retried Lambda task, a Parallel state of which one      *)
(* branch runs ECS tasks, a Choice, a Map over an HTTP call with a Parallel  *)
(* state inside, a Wait, a Fail and a Succeed state.                        *)
Call(resource) == [call |-> [type |-> "Task", resource |-> resource, next |-> "End",
                             retry |-> <<>>, catch |-> <<>>]]
Shape == [shape |-> [type |-> "Pass", next |-> "End"]]
Inner == [inner |-> [type |-> "Parallel", flows |-> {"n1"}, next |-> "End", retry |-> <<>>,
                     catch |-> <<>>]]
McMachine ==
    "root" :> [first |-> [type |-> "Task", resource |-> "lambda", next |-> "fan",
                        retry |-> <<[errors |-> {"ALL"}, max |-> 1]>>,
                        catch |-> <<[errors |-> {"ALL"}, next |-> "mend"]>>],
             fan |-> [type |-> "Parallel", flows |-> {"b1", "b2"}, next |-> "pick", retry |-> <<>>,
                      catch |-> <<[errors |-> {"BranchFailed"}, next |-> "mend"]>>],
             pick |-> [type |-> "Choice", choices |-> {"each", "mend"}, default |-> "NoState"],
             each |-> [type |-> "Map", flows |-> {"i1", "i2"}, next |-> "done", retry |-> <<>>,
                       catch |-> <<>>],
             mend |-> [type |-> "Wait", next |-> "stop"],
             stop |-> [type |-> "Fail", error |-> "Custom"],
             done |-> [type |-> "Succeed"]]
    @@ "b1" :> Shape @@ "b2" :> Call("ecs") @@ "i1" :> Call("http") @@ "i2" :> Inner
    @@ "n1" :> Shape
McStartAt == "root" :> "first" @@ "b1" :> "shape" @@ "b2" :> "call" @@ "i1" :> "call" @@ "i2" :> "inner"
    @@ "n1" :> "shape"

(* The second container waits for the first.                               *)
McDependsOn == "c1" :> {} @@ "c2" :> {"c1"}

(* Single writes, and requests of which one touches an item twice.         *)
W(kind, key, val, cond) == [kind |-> kind, key |-> key, val |-> val, cond |-> cond]
McWrites == {W("put", "k1", "v", "absent"), W("update", "k1", "x", "exists"),
           W("delete", "k1", "v", "always"), W("put", "k2", "x", "always")}
McRequests == {<<W("put", "k1", "v", "always"), W("put", "k2", "x", "always")>>,
             <<W("put", "k1", "x", "always"), W("delete", "k1", "x", "always")>>,
             <<W("check", "k1", "v", "exists"), W("delete", "k2", "v", "always")>>,
             <<W("update", "k1", "v", "always"), W("put", "k2", "v", "absent")>>}

Parts == {"interpreter", "stepfunctions", "task", "dynamodb", "eventbridge", "cognito", "s3", "logs",
          "accounts"}

AllInit ==
    /\ active \in Parts
    /\ ExecutionInit /\ MachinesInit /\ TaskInit /\ TableInit /\ RuleInit
    /\ PoolInit /\ BucketInit /\ LogsInit /\ Init
    /\ active # "accounts" => dir = {}      \* one initial state for the other parts

Step(part, rest) == active = part /\ UNCHANGED <<active, rest>>

Interpret ==
    /\ Step("interpreter", <<sfnVars, taskVars, dynVars, ebVars, poolVars, bucketVars, logVars, vars>>)
    /\ ExecutionNext
RunMachines ==
    /\ Step("stepfunctions", <<executionVars, taskVars, dynVars, ebVars, poolVars, bucketVars, logVars, vars>>)
    /\ MachinesNext
RunTask ==
    /\ Step("task", <<executionVars, sfnVars, dynVars, ebVars, poolVars, bucketVars, logVars, vars>>)
    /\ TaskNext
Store ==
    /\ Step("dynamodb", <<executionVars, sfnVars, taskVars, ebVars, poolVars, bucketVars, logVars, vars>>)
    /\ TableNext
Fire ==
    /\ Step("eventbridge", <<executionVars, sfnVars, taskVars, dynVars, poolVars, bucketVars, logVars, vars>>)
    /\ RuleNext
SignIn ==
    /\ Step("cognito", <<executionVars, sfnVars, taskVars, dynVars, ebVars, bucketVars, logVars, vars>>)
    /\ PoolNext
Transfer ==
    /\ Step("s3", <<executionVars, sfnVars, taskVars, dynVars, ebVars, poolVars, logVars, vars>>)
    /\ BucketNext
Log ==
    /\ Step("logs", <<executionVars, sfnVars, taskVars, dynVars, ebVars, poolVars, bucketVars, vars>>)
    /\ LogsNext
Registry ==
    /\ Step("accounts", <<executionVars, sfnVars, taskVars, dynVars, ebVars, poolVars, bucketVars, logVars>>)
    /\ Next

AllNext ==
    \/ Interpret \/ RunMachines \/ RunTask \/ Store \/ Fire \/ SignIn \/ Transfer \/ Log \/ Registry

AllSpec == AllInit /\ [][AllNext]_allVars
=============================================================================
