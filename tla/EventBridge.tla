------------------------------ MODULE EventBridge ------------------------------
(***************************************************************************)
(* One EventBridge rule (internal/eventbridge): the calls that change it,   *)
(* the scheduler that fires it each time its minute comes, the PutEvents     *)
(* jobs that fire the copy they took, manual fires, and the slots that bound *)
(* the ECS tasks a rule starts at once.                                      *)
(*                                                                         *)
(* A schedule is an interval in minutes, 0 for a rule with an event pattern; *)
(* time is minutes.  A fire works on a copy of the rule, target by target,    *)
(* while calls go on changing the stored one.                                *)
(***************************************************************************)
EXTENDS Integers, FiniteSets, Sequences

CONSTANTS
    Targets,        \* target ids
    EcsTargets,     \* the targets that run ECS tasks
    Intervals,      \* intervals of rate schedules, in minutes
    Workers,        \* goroutines that fire rules besides the scheduler
    Backlog,        \* dispatchBacklog
    EcsLimit,       \* defaultECSRuleConcurrency
    MaxMinute,      \* bound: the clock
    MaxEdits        \* bound: calls that change the rule, PutEvents, manual fires

ASSUME EventBridgeAssumption ==
    /\ Intervals \subseteq Nat \ {0}
    /\ EcsLimit \in Nat /\ Backlog \in Nat
    /\ IsFiniteSet(Workers)

VARIABLES
    rule,       \* the stored rule, or NoRule
    wanted,     \* what the calls made of it: state and targets
    minute,     \* the clock
    lastMinute, \* the scheduler's last pass
    fire,       \* fire[f]: a fire under way in the scheduler or a worker
    jobs,       \* copies of the rule in the dispatch queue
    slots,      \* ecsInFlight of the rule
    nedits

ebVars == <<rule, wanted, minute, lastMinute, fire, jobs, slots, nedits>>

Scheduler == "scheduler"
Firers == Workers \cup {Scheduler}

NoRule == [state |-> "NONE", interval |-> 0, anchor |-> 0, next |-> -1, targets |-> {},
           result |-> "none"]
NoFire == [pc |-> "idle", copy |-> NoRule, todo |-> {}, slot |-> FALSE, failed |-> FALSE,
           scheduled |-> FALSE, started |-> 0]

RuleInit ==
    /\ rule = NoRule /\ wanted = [state |-> "NONE", targets |-> {}]
    /\ minute = 0 /\ lastMinute = 0
    /\ fire = [f \in Firers |-> NoFire] /\ jobs = <<>> /\ slots = 0 /\ nedits = 0

RuleExists == rule.state # "NONE"

(* computeNextRun for a rate: the first multiple of the interval after the  *)
(* anchor that is later than after.  A rule without a schedule has none.     *)
nextRateRun(interval, anchor, after) ==
    IF anchor > after THEN anchor
    ELSE anchor + ((after - anchor) \div interval + 1) * interval

-----------------------------------------------------------------------------
(* Calls that change the rule, each under the service's mutex              *)

Edit == nedits < MaxEdits /\ nedits' = nedits + 1
EditFrame == UNCHANGED <<minute, lastMinute, fire, jobs, slots>>
SavedRule(new) == rule' = new /\ wanted' = [state |-> new.state, targets |-> new.targets]

PutRule(interval, state) ==
    /\ Edit
    /\ LET anchor == IF interval = 0 THEN 0
                     ELSE IF RuleExists /\ rule.interval = interval THEN rule.anchor ELSE minute
       IN  SavedRule([rule EXCEPT !.state = state, !.interval = interval, !.anchor = anchor,
                    !.next = IF interval # 0 /\ state = "ENABLED"
                             THEN nextRateRun(interval, anchor, minute) ELSE -1])
    /\ EditFrame

DeleteRule(force) ==
    /\ Edit /\ RuleExists /\ (force \/ rule.targets = {})
    /\ SavedRule(NoRule) /\ EditFrame

(* Enabling computes the next run, which fails for a rule without schedule.  *)
setRuleState(state) ==
    /\ Edit /\ RuleExists
    /\ IF state = "ENABLED"
       THEN rule.interval # 0 /\ SavedRule([rule EXCEPT !.state = state,
                                   !.next = nextRateRun(rule.interval, rule.anchor, minute)])
       ELSE SavedRule([rule EXCEPT !.state = state, !.next = -1])
    /\ EditFrame

PutTargets(ids) ==
    /\ Edit /\ RuleExists /\ SavedRule([rule EXCEPT !.targets = @ \cup ids]) /\ EditFrame

RemoveTargets(ids) ==
    /\ Edit /\ RuleExists /\ SavedRule([rule EXCEPT !.targets = @ \ ids]) /\ EditFrame

-----------------------------------------------------------------------------
(* Fires                                                                   *)

FireFrame == UNCHANGED <<wanted, nedits>>

BeginFire(f, copy, scheduled) ==
    fire' = [fire EXCEPT ![f] = [NoFire EXCEPT !.pc = "target", !.copy = copy,
                !.todo = copy.targets, !.scheduled = scheduled, !.started = minute]]

Tick ==
    /\ minute < MaxMinute /\ minute' = minute + 1
    /\ UNCHANGED <<rule, lastMinute, fire, jobs, slots>> /\ FireFrame

(* executeDueRules: the list says the rule is due; fireRule reads it again. *)
executeDueRules ==
    /\ fire[Scheduler].pc = "idle" /\ minute # lastMinute
    /\ lastMinute' = minute
    /\ fire' = IF rule.state = "ENABLED" /\ rule.next # -1 /\ rule.next <= minute
               THEN [fire EXCEPT ![Scheduler].pc = "due"] ELSE fire
    /\ UNCHANGED <<rule, minute, jobs, slots>> /\ FireFrame

fireRule ==
    /\ fire[Scheduler].pc = "due"
    /\ IF RuleExists THEN BeginFire(Scheduler, rule, TRUE)
       ELSE fire' = [fire EXCEPT ![Scheduler] = NoFire]
    /\ UNCHANGED <<rule, minute, lastMinute, jobs, slots>> /\ FireFrame

(* FireRuleNow, RunRuleRace: whatever the rule's state.                    *)
FireRuleNow(w) ==
    /\ fire[w].pc = "idle" /\ RuleExists /\ Edit
    /\ BeginFire(w, rule, FALSE)
    /\ UNCHANGED <<rule, wanted, minute, lastMinute, jobs, slots>>

(* The copy is taken now and matched when a worker gets to it.             *)
PutEvents ==
    /\ Edit
    /\ jobs' = IF Len(jobs) < Backlog THEN Append(jobs, rule) ELSE jobs
    /\ UNCHANGED <<rule, wanted, minute, lastMinute, fire, slots>>

(* An event that matches fires the targets of the copy.                    *)
dispatchEvent(w) ==
    /\ fire[w].pc = "idle" /\ jobs # <<>>
    /\ jobs' = Tail(jobs)
    /\ LET copy == Head(jobs)
       IN  \/ copy.state = "ENABLED" /\ copy.interval = 0 /\ copy.targets # {}
                /\ BeginFire(w, copy, FALSE)
           \/ UNCHANGED fire
    /\ UNCHANGED <<rule, minute, lastMinute, slots>> /\ FireFrame

(* dispatchTarget: an ECS target needs a slot, and holds it until RunTask   *)
(* is back.                                                                 *)
acquireECSRuleSlot(f) ==
    /\ fire[f].pc = "target"
    /\ \E t \in fire[f].todo \cap EcsTargets :
          IF slots < EcsLimit
          THEN /\ slots' = slots + 1
               /\ fire' = [fire EXCEPT ![f].pc = "running", ![f].slot = TRUE,
                                       ![f].todo = @ \ {t}]
          ELSE /\ fire' = [fire EXCEPT ![f].todo = @ \ {t}, ![f].failed = TRUE]
               /\ UNCHANGED slots
    /\ UNCHANGED <<rule, minute, lastMinute, jobs>> /\ FireFrame

releaseECSRuleSlot(f) ==
    /\ fire[f].pc = "running"
    /\ slots' = slots - 1
    /\ \E failed \in BOOLEAN :
          fire' = [fire EXCEPT ![f].pc = "target", ![f].slot = FALSE, ![f].failed = @ \/ failed]
    /\ UNCHANGED <<rule, minute, lastMinute, jobs>> /\ FireFrame

dispatchLambdaTarget(f) ==
    /\ fire[f].pc = "target"
    /\ \E t \in fire[f].todo \ EcsTargets, failed \in BOOLEAN :
          fire' = [fire EXCEPT ![f].todo = @ \ {t}, ![f].failed = @ \/ failed]
    /\ UNCHANGED <<rule, minute, lastMinute, jobs, slots>> /\ FireFrame

(* The next run of the copy: only a scheduled fire of an enabled copy moves  *)
(* it, and a copy without a schedule keeps what it had.                      *)
NextRun(g) ==
    IF g.copy.state = "ENABLED" /\ g.copy.interval # 0
    THEN nextRateRun(g.copy.interval, g.copy.anchor, g.started) ELSE g.copy.next

Result(g) == IF g.failed THEN "ERROR" ELSE "OK"

(* Mutant: the copy the fire took is saved. *)
SaveSnapshot(f) ==
    /\ fire[f].pc = "target" /\ fire[f].todo = {}
    /\ rule' = [fire[f].copy EXCEPT !.result = Result(fire[f]), !.next = NextRun(fire[f])]
    /\ fire' = [fire EXCEPT ![f] = NoFire]
    /\ UNCHANGED <<minute, lastMinute, jobs, slots>> /\ FireFrame

(* Only the results of the run go onto the rule as it is now.               *)
saveRuleRunMetadata(f) ==
    /\ fire[f].pc = "target" /\ fire[f].todo = {}
    /\ rule' = IF ~RuleExists THEN rule
               ELSE [rule EXCEPT !.result = Result(fire[f]),
                        !.next = IF fire[f].scheduled /\ rule.state = "ENABLED"
                                 THEN NextRun(fire[f]) ELSE @]
    /\ fire' = [fire EXCEPT ![f] = NoFire]
    /\ UNCHANGED <<minute, lastMinute, jobs, slots>> /\ FireFrame

-----------------------------------------------------------------------------
RuleNext ==
    \/ \E state \in {"ENABLED", "DISABLED"} :
          setRuleState(state) \/ \E i \in Intervals \cup {0} : PutRule(i, state)
    \/ \E force \in BOOLEAN : DeleteRule(force)
    \/ \E ids \in (SUBSET Targets) \ {{}} : PutTargets(ids) \/ RemoveTargets(ids)
    \/ Tick \/ executeDueRules \/ fireRule \/ PutEvents
    \/ \E w \in Workers : FireRuleNow(w) \/ dispatchEvent(w)
    \/ \E f \in Firers : acquireECSRuleSlot(f) \/ releaseECSRuleSlot(f)
                         \/ dispatchLambdaTarget(f) \/ saveRuleRunMetadata(f)

RuleSpec == RuleInit /\ [][RuleNext]_ebVars

-----------------------------------------------------------------------------
(* Properties                                                              *)

(* A fire that ends long after it read the rule leaves the state and the       *)
(* targets as the last call made them: a deleted rule stays deleted, a         *)
(* disabled one disabled and without a next run (service.go:                   *)
(* saveRuleRunMetadata).                                                       *)
StateAndTargetsKept ==
    /\ rule.state = wanted.state /\ rule.targets = wanted.targets
    /\ rule.state # "ENABLED" => rule.next = -1

(* "saving the stale snapshot wholesale would discard targets, state or tags   *)
(* changed by API calls meanwhile" (saveRuleRunMetadata): an enabled rule with *)
(* a schedule has a next run, as PutRule and EnableRule gave it one; without   *)
(* one the scheduler never fires it.                                           *)
SchedulesRun == rule.state = "ENABLED" /\ rule.interval # 0 => rule.next # -1
================================================================================
