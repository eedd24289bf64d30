---------------------------- MODULE MCScheduling ----------------------------
(***************************************************************************)
(* The asynchronous job queue and the ECS service scheduler, both of which *)
(* promise something under fairness, in one instance.  They share no state *)
(* and make no call to each other: a behaviour exercises one of them, the  *)
(* choice of Init, under that one's fairness.                              *)
(***************************************************************************)
EXTENDS AsyncQueue, ECSService

VARIABLE active     \* the part this behaviour exercises

Queue == active = "queue"

BothInit == active \in {"queue", "service"} /\ Init /\ ServiceInit

RunQueue == Queue /\ UNCHANGED <<active, svcVars>> /\ Next
RunService == ~Queue /\ UNCHANGED <<active, vars>> /\ ServiceNext

(* The fairness of AsyncQueue and of ECSService, for the part that runs.   *)
QueueFairness ==
    /\ \A j \in Jobs : WF_vars(Queue /\ SubmitStep(j))
    /\ \A w \in Workers :
          WF_vars(Queue /\ Take(w)) /\ WF_vars(Queue /\ Finish(w)) /\ WF_vars(Queue /\ Exit(w))
    /\ \A d \in Drainers : WF_vars(Queue /\ DrainReturn(d))
    /\ \A c \in Closers : WF_vars(Queue /\ CloseStep(c))

SchedulerFairness ==
    /\ WF_svcVars(~Queue /\ LoopStep) /\ WF_svcVars(~Queue /\ BackoffExpires)
    /\ \A s \in Slots : WF_svcVars(~Queue /\ TaskStep(s))
    /\ \A d \in Deleters : WF_svcVars(~Queue /\ DrainStep(d))

BothSpec ==
    /\ BothInit /\ [][RunQueue \/ RunService]_<<active, vars, svcVars>>
    /\ QueueFairness /\ SchedulerFairness
=============================================================================
