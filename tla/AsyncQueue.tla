----------------------------- MODULE AsyncQueue -----------------------------
(***************************************************************************)
(* internal/asyncqueue: the bounded worker pool behind asynchronous Lambda  *)
(* invokes and EventBridge deliveries.  Submitters, workers, callers of     *)
(* Drain and callers of Close share a buffered channel, a mutex, a wait     *)
(* group counting unfinished jobs and one counting workers.                 *)
(*                                                                          *)
(* Every job is submitted once.  Submit's critical section is modelled step *)
(* by step because the workers, which take no lock, run between its steps.  *)
(***************************************************************************)
EXTENDS Naturals, Sequences, FiniteSets

CONSTANTS
  Jobs,      \* jobs that are submitted
  Stuck,     \* those that return only when their context is cancelled
  Workers,   \* worker goroutines
  Capacity,  \* backlog capacity
  Drainers,  \* calls of Drain
  Closers,   \* calls of Close
  None       \* no job, nobody

ASSUME AsyncAssumption ==
  /\ IsFiniteSet(Jobs) /\ Stuck \subseteq Jobs
  /\ Workers # {} /\ Capacity \in Nat \ {0}   \* every caller of New
  /\ None \notin Jobs \cup Closers /\ Jobs \cap Closers = {}

VARIABLES
  job,       \* where each job is
  backlog,   \* the channel
  closing,   \* the channel has been closed
  pending,   \* the wait group of unfinished jobs
  mu,        \* who holds the mutex: a job's submitter, a closer or None
  closed,    \* Queue.closed
  worker,    \* the job each worker runs; None: it waits on the channel
  exited,    \* workers that have left their loop
  cancelled, \* the jobs' context
  drain,     \* where each call of Drain is
  closer,    \* where each call of Close is
  panicked,  \* a negative wait group or a send on a closed channel
  before     \* history: the jobs each Drain must wait for

vars == <<job, backlog, closing, pending, mu, closed, worker, exited, cancelled,
          drain, closer, panicked, before>>

(* "checked": closed was seen false; "counted": pending.Add(1) was called.   *)
InSubmit == {"checked", "counted"}
Accepted == {"queued", "running", "finished"}
JobPC == {"idle", "refused", "dropping", "full"} \cup InSubmit \cup Accepted
CloserPC == {"idle", "locked", "marked", "waiting", "returned", "timed out", "again"}

(* The type invariant; the backlog stays within its capacity. *)
TypeOK ==
  /\ job \in [Jobs -> JobPC]
  /\ backlog \in Seq(Jobs) /\ Len(backlog) <= Capacity
  /\ closing \in BOOLEAN /\ closed \in BOOLEAN
  /\ cancelled \in BOOLEAN /\ panicked \in BOOLEAN
  /\ pending \in Nat
  /\ mu \in Jobs \cup Closers \cup {None}
  /\ worker \in [Workers -> Jobs \cup {None}]
  /\ exited \subseteq Workers
  /\ drain \in [Drainers -> {"idle", "waiting", "returned"}]
  /\ closer \in [Closers -> CloserPC]
  /\ before \in [Drainers -> SUBSET Jobs]

Init ==
  /\ job = [j \in Jobs |-> "idle"]
  /\ backlog = <<>> /\ closing = FALSE
  /\ pending = 0 /\ mu = None /\ closed = FALSE
  /\ worker = [w \in Workers |-> None] /\ exited = {}
  /\ cancelled = FALSE
  /\ drain = [d \in Drainers |-> "idle"]
  /\ closer = [c \in Closers |-> "idle"]
  /\ panicked = FALSE
  /\ before = [d \in Drainers |-> {}]

(***************************************************************************)
(* Submit                                                                  *)
(***************************************************************************)
(* Lock and test closed; a closed queue refuses the job and unlocks. *)
SubmitLock(j) ==
  /\ job[j] = "idle" /\ mu = None
  /\ IF closed THEN job' = [job EXCEPT ![j] = "refused"] /\ UNCHANGED mu
               ELSE job' = [job EXCEPT ![j] = "checked"] /\ mu' = j
  /\ UNCHANGED <<backlog, closing, pending, closed, worker, exited, cancelled, drain, closer,
                 panicked, before>>

SubmitCount(j) ==
  /\ job[j] = "checked"
  /\ job' = [job EXCEPT ![j] = "counted"]
  /\ pending' = pending + 1
  /\ UNCHANGED <<backlog, closing, mu, closed, worker, exited, cancelled, drain, closer,
                 panicked, before>>

(* The select: the channel has room, and sending on a closed one panics ... *)
SubmitSend(j) ==
  /\ job[j] = "counted"
  /\ closing \/ Len(backlog) < Capacity
  /\ IF closing
       THEN panicked' = TRUE /\ UNCHANGED <<backlog, job>>
       ELSE /\ backlog' = Append(backlog, j)
            /\ job' = [job EXCEPT ![j] = "queued"]
            /\ UNCHANGED panicked
  /\ mu' = None
  /\ UNCHANGED <<closing, pending, closed, worker, exited, cancelled, drain, closer, before>>

(* ... or it has none: take the count back and return ErrFull. *)
SubmitFull(j) ==
  /\ job[j] = "counted" /\ ~closing
  /\ Len(backlog) >= Capacity
  /\ job' = [job EXCEPT ![j] = "dropping"]
  /\ UNCHANGED <<backlog, closing, pending, mu, closed, worker, exited, cancelled, drain, closer,
                 panicked, before>>

(* Done on a wait group: a counter below zero panics. *)
Done == /\ panicked' = (panicked \/ pending = 0)
        /\ pending' = IF pending = 0 THEN 0 ELSE pending - 1

(* Mutant: ErrFull leaves the job counted. *)
SubmitStaysCounted(j) ==
  /\ job[j] = "dropping"
  /\ job' = [job EXCEPT ![j] = "full"]
  /\ mu' = None
  /\ UNCHANGED <<backlog, closing, pending, closed, worker, exited, cancelled, drain, closer,
                 panicked, before>>

SubmitUncount(j) ==
  /\ job[j] = "dropping"
  /\ job' = [job EXCEPT ![j] = "full"]
  /\ Done
  /\ mu' = None
  /\ UNCHANGED <<backlog, closing, closed, worker, exited, cancelled, drain, closer, before>>

(***************************************************************************)
(* The workers                                                             *)
(***************************************************************************)
Take(w) ==
  /\ w \notin exited /\ worker[w] = None /\ backlog # <<>>
  /\ worker' = [worker EXCEPT ![w] = Head(backlog)]
  /\ job' = [job EXCEPT ![Head(backlog)] = "running"]
  /\ backlog' = Tail(backlog)
  /\ UNCHANGED <<closing, pending, mu, closed, exited, cancelled, drain, closer, panicked, before>>

(* The job returns or panics: run recovers, and calls pending.Done. *)
Finish(w) ==
  /\ worker[w] # None
  /\ worker[w] \in Stuck => cancelled
  /\ job' = [job EXCEPT ![worker[w]] = "finished"]
  /\ worker' = [worker EXCEPT ![w] = None]
  /\ Done
  /\ UNCHANGED <<backlog, closing, mu, closed, exited, cancelled, drain, closer, before>>

(* range over a closed and empty channel ends *)
Exit(w) ==
  /\ w \notin exited /\ worker[w] = None /\ backlog = <<>> /\ closing
  /\ exited' = exited \cup {w}
  /\ UNCHANGED <<job, backlog, closing, pending, mu, closed, worker, cancelled, drain, closer,
                 panicked, before>>

(***************************************************************************)
(* Drain and Close                                                         *)
(***************************************************************************)
DrainCall(d) ==
  /\ drain[d] = "idle"
  /\ drain' = [drain EXCEPT ![d] = "waiting"]
  /\ before' = [before EXCEPT ![d] = {j \in Jobs : job[j] \in Accepted}]
  /\ UNCHANGED <<job, backlog, closing, pending, mu, closed, worker, exited, cancelled, closer, panicked>>

DrainReturn(d) ==
  /\ drain[d] = "waiting" /\ pending = 0
  /\ drain' = [drain EXCEPT ![d] = "returned"]
  /\ UNCHANGED <<job, backlog, closing, pending, mu, closed, worker, exited, cancelled, closer,
                 panicked, before>>

CloseGoto(c, to) == closer' = [closer EXCEPT ![c] = to]

(* Mutant: Close does not take the mutex. *)
CloseLockFree(c) ==
  /\ closer[c] = "idle"
  /\ IF closed THEN CloseGoto(c, "again") ELSE CloseGoto(c, "locked")
  /\ UNCHANGED <<job, backlog, closing, pending, mu, closed, worker, exited, cancelled, drain, panicked, before>>

(* Every call but the first returns at once. *)
CloseLock(c) ==
  /\ closer[c] = "idle" /\ mu = None
  /\ IF closed THEN CloseGoto(c, "again") /\ UNCHANGED mu
               ELSE CloseGoto(c, "locked") /\ mu' = c
  /\ UNCHANGED <<job, backlog, closing, pending, closed, worker, exited, cancelled, drain, panicked, before>>

CloseMark(c) ==
  /\ closer[c] = "locked"
  /\ CloseGoto(c, "marked")
  /\ closed' = TRUE
  /\ UNCHANGED <<job, backlog, closing, pending, mu, worker, exited, cancelled, drain, panicked, before>>

(* close(q.jobs), which panics if it is closed already, and unlock. *)
CloseChannel(c) ==
  /\ closer[c] = "marked"
  /\ CloseGoto(c, "waiting")
  /\ panicked' = (panicked \/ closing)
  /\ closing' = TRUE
  /\ mu' = None
  /\ UNCHANGED <<job, backlog, pending, closed, worker, exited, cancelled, drain, before>>

(* workers.Wait returns ... *)
CloseWait(c) ==
  /\ closer[c] = "waiting" /\ exited = Workers
  /\ CloseGoto(c, "returned")
  /\ UNCHANGED <<job, backlog, closing, pending, mu, closed, worker, exited, cancelled, drain, panicked, before>>

(* Mutant: the timeout returns without cancelling. *)
CloseTimeoutSilent(c) ==
  /\ closer[c] = "waiting"
  /\ CloseGoto(c, "timed out")
  /\ UNCHANGED <<job, backlog, closing, pending, mu, closed, worker, exited, cancelled, drain, panicked, before>>

(* ... or the timeout fires first, and cancels the jobs. *)
CloseTimeout(c) ==
  /\ closer[c] = "waiting"
  /\ CloseGoto(c, "timed out")
  /\ cancelled' = TRUE
  /\ UNCHANGED <<job, backlog, closing, pending, mu, closed, worker, exited, drain, panicked, before>>

SubmitStep(j) ==
  SubmitCount(j) \/ SubmitSend(j) \/ SubmitFull(j) \/ SubmitUncount(j)
WorkStep(w) == Take(w) \/ Finish(w) \/ Exit(w)
CloseStep(c) == CloseMark(c) \/ CloseChannel(c) \/ CloseWait(c) \/ CloseTimeout(c)

Next ==
  \/ \E j \in Jobs : SubmitLock(j) \/ SubmitStep(j)
  \/ \E w \in Workers : WorkStep(w)
  \/ \E d \in Drainers : DrainCall(d) \/ DrainReturn(d)
  \/ \E c \in Closers : CloseLock(c) \/ CloseStep(c)

Spec == Init /\ [][Next]_vars

(* Goroutines are scheduled, a mutex is handed over in turn, timers fire; *)
(* nobody is obliged to call Submit, Drain or Close.                       *)
Fairness ==
  /\ \A j \in Jobs : WF_vars(SubmitStep(j))
  /\ \A w \in Workers : WF_vars(Take(w)) /\ WF_vars(Finish(w)) /\ WF_vars(Exit(w))
  /\ \A d \in Drainers : WF_vars(DrainReturn(d))
  /\ \A c \in Closers : WF_vars(CloseStep(c))

FairSpec == Spec /\ Fairness

(***************************************************************************)
(* Properties                                                              *)
(***************************************************************************)
(* No interleaving of Submit, Close and the workers drives the wait group   *)
(* below zero, sends on the closed channel or closes it twice: each would   *)
(* panic outside the recover of run and end the process.                    *)
NoPanic == ~panicked

(* "Drain blocks until every job submitted so far has finished": although a *)
(* worker may finish a job before its Submit returns.                       *)
DrainComplete ==
  \A d \in Drainers : drain[d] = "returned" => \A j \in before[d] : job[j] = "finished"

(* Close "waits up to timeout for queued and running jobs to finish": if it *)
(* was not cut short by the timeout, every job that was ever accepted has   *)
(* finished, and no Submit that was in progress slips one in afterwards.    *)
CloseComplete ==
  (\E c \in Closers : closer[c] = "returned")
    => \A j \in Jobs : job[j] \in {"idle", "refused", "full", "finished"}

(* Once Close is called, every accepted job finishes, even one that waits   *)
(* for its context: the workers drain the backlog of a closed channel.      *)
ClosedJobsFinish ==
  \A j \in Jobs : (job[j] \in {"queued", "running"} /\ closed) ~> job[j] = "finished"

(* A Drain returns if the jobs do: it does not wait on jobs Submit refused. *)
DrainReturns ==
  \A d \in Drainers : (drain[d] = "waiting" /\ closed) ~> drain[d] = "returned"
=============================================================================
