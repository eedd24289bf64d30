-------------------------- MODULE SchedulingProofs --------------------------
(***************************************************************************)
(* Proofs about AsyncQueue, for any jobs, workers, backlog capacity, drains*)
(* and closes: the wait group equals the number of jobs between Add and    *)
(* Done, the mutex keeps Submit's critical section and Close's apart, and a*)
(* job is in exactly one of the channel and the workers' hands.            *)
(*                                                                         *)
(* Proofs about ECSService, for every number of tasks, callers, desired    *)
(* counts and revisions: the reconciler never overshoots, a drained service*)
(* is quiet, and a rolling deployment stops one task at a time.            *)
(***************************************************************************)
EXTENDS AsyncQueue, ECSService, FiniteSetTheorems, SequenceTheorems, TLAPS

(***************************************************************************)
(* THE JOB QUEUE                                                           *)
(***************************************************************************)

(* Jobs between pending.Add and pending.Done. *)
PendingJobs == {j \in Jobs : job[j] \in {"counted", "dropping", "queued", "running"}}
CountInv == pending = Cardinality(PendingJobs)

(* Submit's critical section excludes Close's, and sees an open queue. *)
MutexInv ==
  /\ \A j \in Jobs : job[j] \in {"checked", "counted", "dropping"} => mu = j /\ ~closed
  /\ \A c \in Closers : closer[c] \in {"locked", "marked"} => mu = c /\ ~closing
  /\ \A c \in Closers : closer[c] = "locked" => ~closed
  /\ \A c \in Closers : closer[c] = "marked" => closed
  /\ closing => closed

(* The channel holds exactly the queued jobs, each once. *)
BacklogInv ==
  /\ \A k, l \in 1..Len(backlog) : backlog[k] = backlog[l] => k = l
  /\ \A k \in 1..Len(backlog) : job[backlog[k]] = "queued"
  /\ \A j \in Jobs : job[j] = "queued" => \E k \in 1..Len(backlog) : backlog[k] = j

(* The workers run exactly the running jobs, each once. *)
WorkerInv ==
  /\ \A w \in Workers : worker[w] # None => job[worker[w]] = "running"
  /\ \A v, w \in Workers : worker[v] = worker[w] /\ worker[v] # None => v = w
  /\ \A j \in Jobs : job[j] = "running" => \E w \in Workers : worker[w] = j

(* A worker leaves its loop only when the closed channel is empty. *)
ExitInv ==
  /\ \A w \in exited : worker[w] = None /\ closing /\ backlog = <<>>
  /\ \A c \in Closers : closer[c] = "returned" => exited = Workers

(* What a Drain has to wait for was accepted, and finished if it returned. *)
DrainInv ==
  \A d \in Drainers : \A j \in before[d] :
    /\ job[j] \in Accepted
    /\ drain[d] = "returned" => job[j] = "finished"

QueueInv == /\ TypeOK /\ CountInv /\ MutexInv /\ BacklogInv /\ WorkerInv
        /\ ExitInv /\ DrainInv /\ NoPanic

LEMMA InitIInv == Init => QueueInv
<1> SUFFICES ASSUME Init PROVE QueueInv
    OBVIOUS
<1>1. TypeOK
  <2>1. backlog \in Seq(Jobs) /\ Len(backlog) <= Capacity
    BY AsyncAssumption DEF Init
  <2>2. QED
    BY <2>1 DEF Init, TypeOK, JobPC, CloserPC
<1>2. CountInv
  <2>1. PendingJobs = {}
    BY DEF Init, PendingJobs
  <2>2. QED
    BY <2>1, FS_EmptySet DEF Init, CountInv
<1>3. MutexInv /\ BacklogInv /\ WorkerInv /\ ExitInv /\ DrainInv /\ NoPanic
  BY DEF Init, MutexInv, BacklogInv, WorkerInv, ExitInv, DrainInv, NoPanic
<1>4. QED
  BY <1>1, <1>2, <1>3 DEF QueueInv

LEMMA PendingFinite == IsFiniteSet(PendingJobs)
BY AsyncAssumption, FS_Subset DEF PendingJobs

(* Done of a counted job j: the counter is positive and stays exact. *)
LEMMA DoneCounts ==
  ASSUME CountInv, NEW j \in PendingJobs, PendingJobs' = PendingJobs \ {j}, Done, NoPanic
  PROVE  CountInv' /\ NoPanic' /\ pending' \in Nat /\ panicked' \in BOOLEAN
<1>1. pending \in Nat /\ pending # 0
  BY PendingFinite, FS_CardinalityType, FS_EmptySet DEF CountInv
<1>2. Cardinality(PendingJobs \ {j}) = Cardinality(PendingJobs) - 1
  BY PendingFinite, FS_RemoveElement
<1>3. NoPanic'
  BY <1>1 DEF Done, NoPanic
<1>4. pending' = pending - 1
  BY <1>1 DEF Done
<1>5. panicked' \in BOOLEAN
  BY DEF Done
<1>6. QED
  BY <1>1, <1>2, <1>3, <1>4, <1>5 DEF CountInv

(***************************************************************************)
(* The steps, one lemma per action that moves a job                        *)
(***************************************************************************)
LEMMA SubmitLockStep ==
  ASSUME QueueInv, NEW j \in Jobs, SubmitLock(j)
  PROVE  QueueInv'
<1> USE AsyncAssumption
<1>1. TypeOK'
  BY DEF QueueInv, TypeOK, SubmitLock, JobPC, InSubmit
<1>2. CountInv'
  <2>1. PendingJobs' = PendingJobs
    BY DEF QueueInv, TypeOK, SubmitLock, PendingJobs
  <2>2. QED
    BY <2>1 DEF QueueInv, CountInv, SubmitLock
<1>3. MutexInv'
  BY DEF QueueInv, TypeOK, MutexInv, SubmitLock
<1>4. BacklogInv'
  BY DEF QueueInv, TypeOK, BacklogInv, SubmitLock
<1>5. WorkerInv'
  BY DEF QueueInv, TypeOK, WorkerInv, SubmitLock
<1>6. ExitInv' /\ DrainInv' /\ NoPanic'
  BY DEF QueueInv, TypeOK, ExitInv, DrainInv, NoPanic, Accepted, SubmitLock
<1>7. QED
  BY <1>1, <1>2, <1>3, <1>4, <1>5, <1>6 DEF QueueInv

LEMMA SubmitCountStep ==
  ASSUME QueueInv, NEW j \in Jobs, SubmitCount(j)
  PROVE  QueueInv'
<1> USE AsyncAssumption
<1>1. TypeOK'
  BY DEF QueueInv, TypeOK, SubmitCount, JobPC, InSubmit
<1>2. CountInv'
  <2>1. PendingJobs' = PendingJobs \cup {j} /\ j \notin PendingJobs
    BY DEF QueueInv, TypeOK, SubmitCount, PendingJobs
  <2>2. Cardinality(PendingJobs \cup {j}) = Cardinality(PendingJobs) + 1
    BY <2>1, PendingFinite, FS_AddElement
  <2>3. QED
    BY <2>1, <2>2 DEF QueueInv, CountInv, SubmitCount
<1>3. MutexInv'
  BY DEF QueueInv, TypeOK, MutexInv, SubmitCount
<1>4. BacklogInv'
  BY DEF QueueInv, TypeOK, BacklogInv, SubmitCount
<1>5. WorkerInv'
  BY DEF QueueInv, TypeOK, WorkerInv, SubmitCount
<1>6. ExitInv' /\ DrainInv' /\ NoPanic'
  BY DEF QueueInv, TypeOK, ExitInv, DrainInv, NoPanic, Accepted, SubmitCount
<1>7. QED
  BY <1>1, <1>2, <1>3, <1>4, <1>5, <1>6 DEF QueueInv

(* The queue is open, so the send cannot panic; the job joins the channel. *)
LEMMA SubmitSendStep ==
  ASSUME QueueInv, NEW j \in Jobs, SubmitSend(j)
  PROVE  QueueInv'
<1> USE AsyncAssumption
<1>1. /\ ~closing /\ mu = j /\ Len(backlog) < Capacity
      /\ backlog' = Append(backlog, j) /\ job' = [job EXCEPT ![j] = "queued"]
      /\ panicked' = panicked
  BY DEF QueueInv, MutexInv, SubmitSend
<1>2. /\ Len(backlog') = Len(backlog) + 1 /\ backlog' \in Seq(Jobs)
      /\ \A k \in 1..Len(backlog) : backlog'[k] = backlog[k]
      /\ backlog'[Len(backlog) + 1] = j
  BY <1>1, AppendProperties DEF QueueInv, TypeOK
<1>3. Len(backlog) \in Nat /\ job \in [Jobs -> JobPC]
  BY LenProperties DEF QueueInv, TypeOK
<1>4. TypeOK'
  BY <1>1, <1>2, <1>3 DEF QueueInv, TypeOK, SubmitSend, JobPC, Accepted
<1>5. CountInv'
  <2>1. PendingJobs' = PendingJobs
    BY <1>1, <1>3 DEF SubmitSend, PendingJobs
  <2>2. QED
    BY <2>1 DEF QueueInv, CountInv, SubmitSend
<1>6. MutexInv'
  BY <1>1, <1>3 DEF QueueInv, MutexInv, SubmitSend
<1>7. BacklogInv'
  <2>1. \A k \in 1..Len(backlog) : backlog[k] # j /\ backlog[k] \in Jobs
    BY <1>3 DEF QueueInv, TypeOK, BacklogInv, SubmitSend
  <2>2. \A k \in 1..Len(backlog') : k \in 1..Len(backlog) \/ k = Len(backlog) + 1
    BY <1>2, <1>3
  <2>3. (\A k, l \in 1..Len(backlog) : backlog[k] = backlog[l] => k = l)'
    BY <1>2, <1>3, <2>1, <2>2 DEF QueueInv, BacklogInv
  <2>4. (\A k \in 1..Len(backlog) : job[backlog[k]] = "queued")'
    BY <1>1, <1>2, <1>3, <2>1, <2>2 DEF QueueInv, BacklogInv
  <2>5. (\A i \in Jobs : job[i] = "queued" => \E k \in 1..Len(backlog) : backlog[k] = i)'
    <3> SUFFICES ASSUME NEW i \in Jobs, job'[i] = "queued"
                 PROVE  \E k \in 1..Len(backlog') : backlog'[k] = i
        OBVIOUS
    <3>1. CASE i = j
      BY <3>1, <1>2, <1>3
    <3>2. CASE i # j
      <4>1. PICK k \in 1..Len(backlog) : backlog[k] = i
        BY <3>2, <1>1, <1>3 DEF QueueInv, BacklogInv
      <4>2. QED
        BY <4>1, <1>2, <1>3
    <3>3. QED
      BY <3>1, <3>2
  <2>6. QED
    BY <2>3, <2>4, <2>5 DEF BacklogInv
<1>8. WorkerInv'
  BY <1>1, <1>3 DEF QueueInv, TypeOK, WorkerInv, SubmitSend
<1>9. ExitInv' /\ DrainInv' /\ NoPanic'
  BY <1>1, <1>3 DEF QueueInv, TypeOK, ExitInv, DrainInv, NoPanic, Accepted, SubmitSend
<1>10. QED
  BY <1>4, <1>5, <1>6, <1>7, <1>8, <1>9 DEF QueueInv

LEMMA SubmitFullStep ==
  ASSUME QueueInv, NEW j \in Jobs, SubmitFull(j)
  PROVE  QueueInv'
<1> USE AsyncAssumption
<1>1. TypeOK'
  BY DEF QueueInv, TypeOK, SubmitFull, JobPC
<1>2. CountInv'
  <2>1. PendingJobs' = PendingJobs
    BY DEF QueueInv, TypeOK, SubmitFull, PendingJobs
  <2>2. QED
    BY <2>1 DEF QueueInv, CountInv, SubmitFull
<1>3. MutexInv'
  BY DEF QueueInv, TypeOK, MutexInv, SubmitFull
<1>4. BacklogInv'
  BY DEF QueueInv, TypeOK, BacklogInv, SubmitFull
<1>5. WorkerInv'
  BY DEF QueueInv, TypeOK, WorkerInv, SubmitFull
<1>6. ExitInv' /\ DrainInv' /\ NoPanic'
  BY DEF QueueInv, TypeOK, ExitInv, DrainInv, NoPanic, Accepted, SubmitFull
<1>7. QED
  BY <1>1, <1>2, <1>3, <1>4, <1>5, <1>6 DEF QueueInv

LEMMA SubmitUncountStep ==
  ASSUME QueueInv, NEW j \in Jobs, SubmitUncount(j)
  PROVE  QueueInv'
<1> USE AsyncAssumption
<1>1. CountInv' /\ NoPanic' /\ pending' \in Nat /\ panicked' \in BOOLEAN
  <2>1. j \in PendingJobs /\ PendingJobs' = PendingJobs \ {j}
    BY DEF QueueInv, TypeOK, SubmitUncount, PendingJobs
  <2>2. QED
    BY <2>1, DoneCounts DEF QueueInv, SubmitUncount
<1>2. TypeOK'
  BY <1>1 DEF QueueInv, TypeOK, SubmitUncount, JobPC
<1>3. MutexInv'
  BY DEF QueueInv, TypeOK, MutexInv, SubmitUncount
<1>4. BacklogInv'
  BY DEF QueueInv, TypeOK, BacklogInv, SubmitUncount
<1>5. WorkerInv'
  BY DEF QueueInv, TypeOK, WorkerInv, SubmitUncount
<1>6. ExitInv' /\ DrainInv'
  BY DEF QueueInv, TypeOK, ExitInv, DrainInv, Accepted, SubmitUncount
<1>7. QED
  BY <1>1, <1>2, <1>3, <1>4, <1>5, <1>6 DEF QueueInv

(* The head of the channel passes to worker w. *)
LEMMA TakeStep ==
  ASSUME QueueInv, NEW w \in Workers, Take(w)
  PROVE  QueueInv'
<1> USE AsyncAssumption
<1>1. PICK j \in Jobs : j = Head(backlog) /\ j = backlog[1]
  BY HeadTailProperties DEF QueueInv, TypeOK, Take
<1>2. /\ backlog' \in Seq(Jobs) /\ Len(backlog') = Len(backlog) - 1
      /\ \A k \in 1..Len(backlog') : backlog'[k] = backlog[k + 1]
  BY HeadTailProperties DEF QueueInv, TypeOK, Take
<1>3. Len(backlog) \in Nat /\ Len(backlog) > 0
  BY LenProperties, EmptySeq DEF QueueInv, TypeOK, Take
<1>4. /\ job' = [job EXCEPT ![j] = "running"] /\ worker' = [worker EXCEPT ![w] = j]
      /\ job[j] = "queued" /\ worker[w] = None
      /\ job \in [Jobs -> JobPC] /\ worker \in [Workers -> Jobs \cup {None}]
  BY <1>1, <1>3 DEF QueueInv, TypeOK, BacklogInv, Take
<1>5. TypeOK'
  BY <1>2, <1>3, <1>4 DEF QueueInv, TypeOK, Take, JobPC, Accepted
<1>6. CountInv'
  <2>1. PendingJobs' = PendingJobs
    BY <1>4 DEF PendingJobs
  <2>2. QED
    BY <2>1 DEF QueueInv, CountInv, Take
<1>7. MutexInv'
  BY <1>4 DEF QueueInv, MutexInv, Take
<1>8. BacklogInv'
  <2>1. \A k \in 1..Len(backlog') : k \in Nat /\ k + 1 \in 1..Len(backlog) /\ k + 1 # 1
    BY <1>2, <1>3
  <2>2. (\A k, l \in 1..Len(backlog) : backlog[k] = backlog[l] => k = l)'
    <3> SUFFICES ASSUME NEW k \in 1..Len(backlog'), NEW l \in 1..Len(backlog'),
                        backlog'[k] = backlog'[l]
                 PROVE  k = l
        OBVIOUS
    <3>1. backlog[k + 1] = backlog[l + 1]
      BY <1>2
    <3>2. k + 1 = l + 1
      BY <3>1, <2>1 DEF QueueInv, BacklogInv
    <3>3. QED
      BY <3>2, <2>1
  <2>3. ASSUME NEW k \in 1..Len(backlog') PROVE job'[backlog'[k]] = "queued"
    <3>1. backlog[k + 1] # j /\ job[backlog[k + 1]] = "queued" /\ backlog[k + 1] \in Jobs
      BY <2>1, <1>1, <1>3 DEF QueueInv, TypeOK, BacklogInv
    <3>2. QED
      BY <3>1, <1>2, <1>4
  <2>4. ASSUME NEW i \in Jobs, job'[i] = "queued"
        PROVE  \E k \in 1..Len(backlog') : backlog'[k] = i
    <3>1. i # j /\ job[i] = "queued"
      BY <2>4, <1>4
    <3>2. PICK k \in 1..Len(backlog) : backlog[k] = i
      BY <3>1 DEF QueueInv, BacklogInv
    <3>3. k # 1 /\ k - 1 \in 1..Len(backlog') /\ (k - 1) + 1 = k
      BY <3>1, <3>2, <1>1, <1>2, <1>3
    <3>4. QED
      BY <3>2, <3>3, <1>2
  <2>5. QED
    BY <2>2, <2>3, <2>4 DEF BacklogInv
<1>9. WorkerInv'
  <2>1. \A v \in Workers : worker[v] # j
    BY <1>1, <1>4 DEF QueueInv, WorkerInv
  <2>2. QED
    BY <2>1, <1>1, <1>4 DEF QueueInv, WorkerInv
<1>10. ExitInv'
  BY <1>4 DEF QueueInv, ExitInv, Take
<1>11. DrainInv' /\ NoPanic'
  BY <1>4 DEF QueueInv, TypeOK, DrainInv, NoPanic, Accepted, Take
<1>12. QED
  BY <1>5, <1>6, <1>7, <1>8, <1>9, <1>10, <1>11 DEF QueueInv

LEMMA FinishStep ==
  ASSUME QueueInv, NEW w \in Workers, Finish(w)
  PROVE  QueueInv'
<1> USE AsyncAssumption
<1>1. PICK j \in Jobs : j = worker[w] /\ job[j] = "running"
  BY DEF QueueInv, TypeOK, WorkerInv, Finish
<1>2. /\ job' = [job EXCEPT ![j] = "finished"] /\ worker' = [worker EXCEPT ![w] = None]
      /\ job \in [Jobs -> JobPC] /\ worker \in [Workers -> Jobs \cup {None}]
  BY <1>1 DEF QueueInv, TypeOK, Finish
<1>3. CountInv' /\ NoPanic' /\ pending' \in Nat /\ panicked' \in BOOLEAN
  <2>1. j \in PendingJobs /\ PendingJobs' = PendingJobs \ {j}
    BY <1>1, <1>2 DEF PendingJobs
  <2>2. QED
    BY <2>1, DoneCounts DEF QueueInv, Finish
<1>4. TypeOK'
  BY <1>2, <1>3 DEF QueueInv, TypeOK, Finish, JobPC, Accepted
<1>5. MutexInv'
  BY <1>2 DEF QueueInv, MutexInv, Finish
<1>6. BacklogInv'
  BY <1>1, <1>2 DEF QueueInv, TypeOK, BacklogInv, Finish
<1>7. WorkerInv'
  BY <1>1, <1>2 DEF QueueInv, WorkerInv
<1>8. ExitInv'
  BY <1>1, <1>2 DEF QueueInv, TypeOK, ExitInv, Finish
<1>9. DrainInv'
  BY <1>2 DEF QueueInv, TypeOK, DrainInv, Accepted, Finish
<1>10. QED
  BY <1>3, <1>4, <1>5, <1>6, <1>7, <1>8, <1>9 DEF QueueInv

(* Steps that move no job: Exit, Drain and Close. *)
LEMMA OtherStep ==
  ASSUME QueueInv, UNCHANGED <<job, backlog, pending, worker>>,
         \/ \E w \in Workers : Exit(w)
         \/ \E d \in Drainers : DrainCall(d) \/ DrainReturn(d)
         \/ \E c \in Closers : CloseLock(c) \/ CloseStep(c)
  PROVE  QueueInv'
<1> USE AsyncAssumption
<1>1. PendingJobs' = PendingJobs /\ CountInv'
  BY DEF QueueInv, PendingJobs, CountInv
<1>2. BacklogInv' /\ WorkerInv'
  BY DEF QueueInv, BacklogInv, WorkerInv
<1>3. ASSUME NEW w \in Workers, Exit(w) PROVE QueueInv'
  <2>1. TypeOK'
    BY <1>3 DEF QueueInv, TypeOK, Exit
  <2>2. MutexInv' /\ DrainInv' /\ NoPanic'
    BY <1>3 DEF QueueInv, MutexInv, DrainInv, NoPanic, Exit
  <2>3. ExitInv'
    BY <1>3 DEF QueueInv, TypeOK, ExitInv, Exit
  <2>4. QED
    BY <1>1, <1>2, <2>1, <2>2, <2>3 DEF QueueInv
<1>4. ASSUME NEW d \in Drainers, DrainCall(d) PROVE QueueInv'
  <2>1. TypeOK'
    BY <1>4 DEF QueueInv, TypeOK, DrainCall
  <2>2. MutexInv' /\ ExitInv' /\ NoPanic'
    BY <1>4 DEF QueueInv, MutexInv, ExitInv, NoPanic, DrainCall
  <2>3. DrainInv'
    BY <1>4 DEF QueueInv, TypeOK, DrainInv, DrainCall
  <2>4. QED
    BY <1>1, <1>2, <2>1, <2>2, <2>3 DEF QueueInv
<1>5. ASSUME NEW d \in Drainers, DrainReturn(d) PROVE QueueInv'
  <2>1. TypeOK'
    BY <1>5 DEF QueueInv, TypeOK, DrainReturn
  <2>2. MutexInv' /\ ExitInv' /\ NoPanic'
    BY <1>5 DEF QueueInv, MutexInv, ExitInv, NoPanic, DrainReturn
  <2>3. PendingJobs = {}
    BY <1>5, PendingFinite, FS_EmptySet DEF QueueInv, CountInv, DrainReturn
  <2>4. \A j \in Jobs : job[j] \in Accepted => job[j] = "finished"
    BY <2>3 DEF PendingJobs, Accepted
  <2>5. DrainInv'
    BY <1>5, <2>4 DEF QueueInv, TypeOK, DrainInv, DrainReturn
  <2>6. QED
    BY <1>1, <1>2, <2>1, <2>2, <2>5 DEF QueueInv
<1>6. ASSUME NEW c \in Closers, CloseLock(c) PROVE QueueInv'
  <2>1. TypeOK'
    BY <1>6 DEF QueueInv, TypeOK, CloserPC, CloseLock, CloseGoto
  <2>2. MutexInv'
    BY <1>6 DEF QueueInv, TypeOK, MutexInv, CloseLock, CloseGoto
  <2>3. ExitInv' /\ DrainInv' /\ NoPanic'
    BY <1>6 DEF QueueInv, TypeOK, ExitInv, DrainInv, NoPanic, CloseLock, CloseGoto
  <2>4. QED
    BY <1>1, <1>2, <2>1, <2>2, <2>3 DEF QueueInv
<1>7. ASSUME NEW c \in Closers, CloseMark(c) PROVE QueueInv'
  <2>1. TypeOK'
    BY <1>7 DEF QueueInv, TypeOK, CloserPC, CloseMark, CloseGoto
  <2>2. MutexInv'
    BY <1>7 DEF QueueInv, TypeOK, MutexInv, CloseMark, CloseGoto
  <2>3. ExitInv' /\ DrainInv' /\ NoPanic'
    BY <1>7 DEF QueueInv, TypeOK, ExitInv, DrainInv, NoPanic, CloseMark, CloseGoto
  <2>4. QED
    BY <1>1, <1>2, <2>1, <2>2, <2>3 DEF QueueInv
<1>8. ASSUME NEW c \in Closers, CloseChannel(c) PROVE QueueInv'
  <2>1. NoPanic' /\ panicked' \in BOOLEAN
    BY <1>8 DEF QueueInv, NoPanic, MutexInv, CloseChannel
  <2>2. TypeOK'
    BY <1>8, <2>1 DEF QueueInv, TypeOK, CloserPC, CloseChannel, CloseGoto
  <2>3. closed
    BY <1>8 DEF QueueInv, MutexInv, CloseChannel
  <2>4. MutexInv'
    BY <1>8, <2>3 DEF QueueInv, TypeOK, MutexInv, CloseChannel, CloseGoto
  <2>5. ExitInv' /\ DrainInv'
    BY <1>8 DEF QueueInv, TypeOK, ExitInv, DrainInv, CloseChannel, CloseGoto
  <2>6. QED
    BY <1>1, <1>2, <2>1, <2>2, <2>4, <2>5 DEF QueueInv
<1>9. ASSUME NEW c \in Closers, CloseWait(c) PROVE QueueInv'
  <2>1. TypeOK'
    BY <1>9 DEF QueueInv, TypeOK, CloserPC, CloseWait, CloseGoto
  <2>2. MutexInv'
    BY <1>9 DEF QueueInv, TypeOK, MutexInv, CloseWait, CloseGoto
  <2>3. ExitInv' /\ DrainInv' /\ NoPanic'
    BY <1>9 DEF QueueInv, TypeOK, ExitInv, DrainInv, NoPanic, CloseWait, CloseGoto
  <2>4. QED
    BY <1>1, <1>2, <2>1, <2>2, <2>3 DEF QueueInv
<1>10. ASSUME NEW c \in Closers, CloseTimeout(c) PROVE QueueInv'
  <2>1. TypeOK'
    BY <1>10 DEF QueueInv, TypeOK, CloserPC, CloseTimeout, CloseGoto
  <2>2. MutexInv'
    BY <1>10 DEF QueueInv, TypeOK, MutexInv, CloseTimeout, CloseGoto
  <2>3. ExitInv' /\ DrainInv' /\ NoPanic'
    BY <1>10 DEF QueueInv, TypeOK, ExitInv, DrainInv, NoPanic, CloseTimeout, CloseGoto
  <2>4. QED
    BY <1>1, <1>2, <2>1, <2>2, <2>3 DEF QueueInv
<1>11. QED
  BY <1>3, <1>4, <1>5, <1>6, <1>7, <1>8, <1>9, <1>10 DEF CloseStep

LEMMA NextIInv == QueueInv /\ [Next]_vars => QueueInv'
<1> SUFFICES ASSUME QueueInv, [Next]_vars PROVE QueueInv'
    OBVIOUS
<1>1. CASE UNCHANGED vars
  BY <1>1 DEF vars, QueueInv, TypeOK, CountInv, PendingJobs, MutexInv, BacklogInv, WorkerInv, ExitInv,
              DrainInv, NoPanic
<1>2. ASSUME NEW j \in Jobs, SubmitLock(j) \/ SubmitStep(j) PROVE QueueInv'
  BY <1>2, SubmitLockStep, SubmitCountStep, SubmitSendStep, SubmitFullStep, SubmitUncountStep
     DEF SubmitStep
<1>3. ASSUME NEW w \in Workers, WorkStep(w) PROVE QueueInv'
  BY <1>3, TakeStep, FinishStep, OtherStep DEF WorkStep, Exit
<1>4. ASSUME NEW d \in Drainers, DrainCall(d) \/ DrainReturn(d) PROVE QueueInv'
  <2>1. UNCHANGED <<job, backlog, pending, worker>>
    BY <1>4 DEF DrainCall, DrainReturn
  <2>2. QED
    BY <2>1, <1>4, OtherStep
<1>5. ASSUME NEW c \in Closers, CloseLock(c) \/ CloseStep(c) PROVE QueueInv'
  <2>1. UNCHANGED <<job, backlog, pending, worker>>
    BY <1>5 DEF CloseLock, CloseStep, CloseMark, CloseChannel, CloseWait, CloseTimeout
  <2>2. QED
    BY <2>1, <1>5, OtherStep
<1>6. QED
  BY <1>1, <1>2, <1>3, <1>4, <1>5 DEF Next

(* The inductive invariant holds in every behaviour of the queue. *)
THEOREM QueueInvariance == Spec => []QueueInv
BY InitIInv, NextIInv, PTL DEF Spec

(* Type correctness, for any jobs, workers and capacity: in particular the  *)
(* backlog never outgrows the channel (ErrFull in Submit).                  *)
THEOREM QueueType == Spec => []TypeOK
<1>1. QueueInv => TypeOK
  BY DEF QueueInv
<1>2. QED
  BY <1>1, QueueInvariance, PTL

(* No interleaving of Submit, Close and the workers panics: the wait group  *)
(* counts every unfinished job, and no Submit is between its test of closed *)
(* and its send when Close closes the channel.                              *)
THEOREM QueueNeverPanics == Spec => []NoPanic
<1>1. QueueInv => NoPanic
  BY DEF QueueInv
<1>2. QED
  BY <1>1, QueueInvariance, PTL

(* A Drain that returned has seen every job accepted before it finish. *)
THEOREM DrainSound == Spec => []DrainComplete
<1>1. QueueInv => DrainComplete
  BY DEF QueueInv, DrainInv, DrainComplete
<1>2. QED
  BY <1>1, QueueInvariance, PTL

(* A Close that was not cut short leaves no accepted job unfinished. *)
THEOREM CloseSound == Spec => []CloseComplete
<1>1. QueueInv => CloseComplete
  <2> SUFFICES ASSUME QueueInv, NEW c \in Closers, closer[c] = "returned", NEW j \in Jobs
               PROVE  job[j] \in {"idle", "refused", "full", "finished"}
      BY DEF CloseComplete
  <2>1. exited = Workers /\ closed /\ backlog = <<>> /\ \A w \in Workers : worker[w] = None
    BY AsyncAssumption DEF QueueInv, ExitInv, MutexInv
  <2>2. job[j] \notin {"checked", "counted", "dropping"}
    BY <2>1 DEF QueueInv, MutexInv
  <2>3. job[j] # "queued"
    BY <2>1 DEF QueueInv, BacklogInv
  <2>4. job[j] # "running"
    BY <2>1, AsyncAssumption DEF QueueInv, WorkerInv
  <2>5. QED
    BY <2>2, <2>3, <2>4 DEF QueueInv, TypeOK, JobPC, InSubmit, Accepted
<1>2. QED
  BY <1>1, QueueInvariance, PTL

(***************************************************************************)
(* THE SERVICE SCHEDULER                                                   *)
(***************************************************************************)

(***************************************************************************)
(* The invariant                                                           *)
(***************************************************************************)
Gone == {"none", "STOPPED"}
Planning == {"idle", "pass", "fresh", "listed"}
Defs == 1 .. MaxDef

ServiceRecord ==
  [status : {"NONE", "ACTIVE", "DRAINING", "INACTIVE"}, desired : Nat, def : Defs,
   running : Nat, gen : Nat]
TaskRecord ==
  [last : Gone \cup {"PROVISIONING", "RUNNING", "STOPPING"},
   desired : {"none", "RUNNING", "STOPPED"}, def : Defs, gen : Nat,
   tracked : BOOLEAN, live : BOOLEAN, asked : BOOLEAN, rollout : BOOLEAN]
LoopRecord ==
  [pc : Planning \cup {"act", "admitted", "recorded"}, desired : Nat, def : Defs,
   listed : SUBSET Slots, running : Nat, stops : SUBSET Slots, rollout : BOOLEAN,
   launches : Nat, gen : Nat, slot : SUBSET Slots]
DeleteRecord == [pc : {"free", "marked", "draining", "drained"}, def : Defs, gen : Nat]

ServiceTypeOK ==
  /\ cluster \in BOOLEAN /\ service \in ServiceRecord
  /\ tasks \in [Slots -> TaskRecord] /\ loop \in LoopRecord
  /\ del \in [Deleters -> DeleteRecord]
  /\ backoff \in BOOLEAN /\ peak \in Nat /\ drained \in SUBSET Nat /\ nevents \in Nat

(* The runner tracks the tasks that are not over; a task Docker runs is one  *)
(* of them; what the rollout stopped is to stop.                             *)
Shaped(t) ==
  /\ t.tracked => t.last \notin Gone
  /\ t.last \notin Gone => t.tracked
  /\ t.live => t.last \in {"RUNNING", "STOPPING"}
  /\ t.rollout => t.desired = "STOPPED"

(* The launch under way: the record NewTaskRecord made, still to be started. *)
Pending(t) == t.last = "PROVISIONING" /\ ~t.rollout /\ t.gen = loop.gen

LoopShaped ==
  /\ loop.pc \in Planning => loop.stops = {} /\ loop.launches = 0 /\ ~loop.rollout
  /\ loop.pc = "recorded" => \E s \in Slots : loop.slot = {s} /\ Pending(tasks[s])
  /\ loop.pc # "recorded" => loop.slot = {}
  /\ GateRead => loop.launches > 0
  /\ loop.launches > 0 => loop.stops = {} /\ ~loop.rollout
  /\ GateRead => ~GateWritten

ShapeInv == ServiceTypeOK /\ (\A s \in Slots : Shaped(tasks[s])) /\ LoopShaped

(* What the pass may still launch has been counted. *)
Budgeted ==
  /\ service.desired <= peak /\ loop.desired <= peak
  /\ Cardinality(serviceActiveTasks \ loop.slot) + loop.launches <= peak

(* A launch begins when no task of another definition is left: the tasks     *)
(* that are not over all have one definition, whatever the service has now.  *)
OneDefinition ==
  /\ \A s, u \in serviceTasksToDrain : tasks[s].def = tasks[u].def
  /\ loop.launches > 0 => \A s \in serviceTasksToDrain : tasks[s].def = loop.def

(* The task a rollout is about to stop is its only one. *)
RolloutTurn ==
  /\ \A s, u \in Live : tasks[s].rollout /\ tasks[u].rollout => s = u
  /\ loop.rollout /\ loop.stops # {} => \A s \in Live : ~tasks[s].rollout
  /\ loop.rollout => \A s, u \in loop.stops : s = u

(* A deletion and the active service have different generations, and no      *)
(* launch of a generation that drains is under way.                          *)
Generations ==
  /\ service.gen <= nevents /\ \A g \in drained : g <= nevents
  /\ \A d \in Deleters : del[d].gen <= nevents
  /\ service.status = "ACTIVE" => service.gen \notin drained
  /\ service.status = "ACTIVE" =>
        \A d \in Deleters : del[d].pc # "free" => del[d].gen # service.gen
  /\ GateRead => \A d \in Deleters : del[d].pc = "drained" => del[d].gen # loop.gen
  /\ DrainedIsQuiet

IInv == ShapeInv /\ Budgeted /\ OneDefinition /\ RolloutTurn /\ Generations

(***************************************************************************)
(* Types                                                                   *)
(***************************************************************************)
(* A set of tasks has a size. *)
LEMMA Sizes ==
  ASSUME NEW S, S \subseteq Slots
  PROVE  IsFiniteSet(S) /\ Cardinality(S) \in Nat
BY SchedulerAssumption, FS_Subset, FS_CardinalityType

(* The values a step starts from are of their types. *)
LEMMA Constants ==
  /\ NoService \in ServiceRecord /\ NoTask \in TaskRecord
  /\ Idle \in LoopRecord /\ NoDelete \in DeleteRecord
  /\ \A t \in TaskRecord : Ended(t) \in TaskRecord
<1>1. 1 \in Defs BY SchedulerAssumption DEF Defs
<1>2. NoService \in ServiceRecord BY <1>1 DEF NoService, ServiceRecord
<1>3. NoTask \in TaskRecord BY <1>1 DEF NoTask, TaskRecord, Gone
<1>4. Idle \in LoopRecord BY <1>1 DEF Idle, LoopRecord, Planning
<1>5. NoDelete \in DeleteRecord BY <1>1 DEF NoDelete, DeleteRecord
<1>6. ASSUME NEW t \in TaskRecord PROVE Ended(t) \in TaskRecord
  <2>1. t.def \in Defs BY DEF TaskRecord
  <2> QED BY <1>3, <2>1 DEF Ended, TaskRecord, Gone
<1> QED BY <1>2, <1>3, <1>4, <1>5, <1>6

(* So is a record that was asked to stop. *)
LEMMA StopType ==
  ASSUME NEW t \in TaskRecord, NEW rollout \in BOOLEAN
  PROVE  StopRecord(t, rollout) \in TaskRecord
<1>1. (t.asked \/ t.live) \in BOOLEAN /\ (t.rollout \/ rollout) \in BOOLEAN
  BY Zenon
<1>2. \A a, b \in BOOLEAN :
        [t EXCEPT !.desired = "STOPPED", !.asked = a, !.rollout = b] \in TaskRecord
  BY DEF TaskRecord
<1> QED BY <1>1, <1>2, Zenon DEF StopRecord

(* What the pass plans is of its type. *)
LEMMA PlanType ==
  ASSUME ServiceTypeOK, reconcileService
  PROVE  loop' \in LoopRecord
<1>1. /\ Cardinality(loop.listed) \in Nat
      /\ serviceActiveTasks \subseteq Slots
      /\ Cardinality(serviceActiveTasks) \in Nat
  BY Sizes DEF ServiceTypeOK, LoopRecord, serviceActiveTasks, serviceTasksToDrain, Recorded
<1>2. Larger(Missing, 0) \in Nat
  BY <1>1 DEF Larger, Missing, ServiceTypeOK, LoopRecord
<1> DEFINE act == [loop EXCEPT !.pc = "act", !.running = Cardinality(loop.listed),
                               !.listed = {}]
<1>3. /\ act \in LoopRecord
      /\ \A K \in SUBSET Slots : [act EXCEPT !.stops = K] \in LoopRecord
      /\ \A s \in Slots : [act EXCEPT !.stops = {s}, !.rollout = TRUE] \in LoopRecord
      /\ [act EXCEPT !.launches = Larger(Missing, 0)] \in LoopRecord
  BY <1>1, <1>2 DEF ServiceTypeOK, LoopRecord
<1> HIDE DEF act
<1>4. \/ \E K \in SUBSET serviceActiveTasks : loop' = [act EXCEPT !.stops = K]
      \/ \E s \in serviceActiveTasks : loop' = [act EXCEPT !.stops = {s}, !.rollout = TRUE]
      \/ loop' = act
      \/ loop' = [act EXCEPT !.launches = Larger(Missing, 0)]
  BY DEF reconcileService, act
<1> QED BY <1>1, <1>3, <1>4

LEMMA ApiTypes ==
  ASSUME ServiceTypeOK,
         \/ CreateCluster \/ DeleteCluster
         \/ \E n \in 0 .. MaxDesired :
              CreateService(n) \/ \E def \in 1 .. MaxDef : UpdateService(n, def)
  PROVE  ServiceTypeOK'
<1>1. CASE CreateCluster BY <1>1 DEF CreateCluster, Event, ServiceTypeOK
<1>2. CASE DeleteCluster
  <2>1. cluster' = FALSE /\ nevents' = nevents + 1
    BY <1>2 DEF DeleteCluster, Event
  <2>2. UNCHANGED <<service, tasks, loop, del, backoff, peak, drained>>
    BY <1>2 DEF DeleteCluster
  <2>3. cluster' \in BOOLEAN BY <2>1
  <2>4. nevents' \in Nat
    BY <2>1 DEF ServiceTypeOK
  <2> QED BY <2>2, <2>3, <2>4 DEF ServiceTypeOK
<1>3. ASSUME NEW n \in 0 .. MaxDesired, CreateService(n) PROVE ServiceTypeOK'
  <2>1. n \in Nat /\ nevents' = nevents + 1 /\ nevents' \in Nat /\ peak' \in Nat
    <3>1. n \in Nat /\ peak \in Nat /\ nevents \in Nat
      BY SchedulerAssumption DEF ServiceTypeOK
    <3>2. nevents' = nevents + 1 /\ peak' = Larger(peak, n)
      BY <1>3 DEF CreateService, Event
    <3> QED BY <3>1, <3>2 DEF Larger
  <2>2. service' \in ServiceRecord
    BY <1>3, <2>1, Constants DEF CreateService, ServiceRecord
  <2> QED BY <1>3, <2>1, <2>2 DEF CreateService, ServiceTypeOK
<1>4. ASSUME NEW n \in 0 .. MaxDesired, NEW def \in 1 .. MaxDef,
             UpdateService(n, def)
      PROVE  ServiceTypeOK'
  <2>1. n \in Nat /\ nevents' \in Nat /\ peak' \in Nat
    <3>1. n \in Nat /\ peak \in Nat /\ nevents \in Nat
      BY SchedulerAssumption DEF ServiceTypeOK
    <3>2. nevents' = nevents + 1 /\ peak' = Larger(peak, n)
      BY <1>4 DEF UpdateService, Event
    <3> QED BY <3>1, <3>2 DEF Larger
  <2>2. def \in Defs
    BY SchedulerAssumption DEF ServiceTypeOK, ServiceRecord, Defs
  <2>3. service' \in ServiceRecord
    BY <1>4, <2>1, <2>2 DEF UpdateService, ServiceTypeOK, ServiceRecord
  <2> QED BY <1>4, <2>1, <2>3 DEF UpdateService, ServiceTypeOK
<1> QED BY <1>1, <1>2, <1>3, <1>4

LEMMA DeleteTypes ==
  ASSUME ServiceTypeOK, NEW d \in Deleters,
         (\E force \in BOOLEAN : DeleteService(d, force)) \/ DrainStep(d)
  PROVE  ServiceTypeOK'
<1>1. ASSUME NEW svc, svc \in ServiceRecord \/ svc \in DeleteRecord, tombstoneServiceLocked(svc)
      PROVE  service' \in ServiceRecord
  BY <1>1, Constants DEF tombstoneServiceLocked, ServiceRecord, DeleteRecord
<1>2. ASSUME NEW force \in BOOLEAN, DeleteService(d, force) PROVE ServiceTypeOK'
  <2>1. CASE serviceTasksToDrain = {} /\ service.running = 0
    <3>1. tombstoneServiceLocked(service) /\ UNCHANGED <<tasks, del>>
      BY <1>2, <2>1 DEF DeleteService
    <3> QED BY <1>1, <1>2, <3>1 DEF DeleteService, DeleteFrame, Event, ServiceTypeOK
  <2>2. CASE ~(serviceTasksToDrain = {} /\ service.running = 0)
    <3>1. service' \in ServiceRecord
      <4>1. service' = [service EXCEPT !.desired = 0, !.status = "DRAINING"]
        BY <1>2, <2>2 DEF DeleteService
      <4> QED BY <4>1 DEF ServiceTypeOK, ServiceRecord
    <3>2. tasks' \in [Slots -> TaskRecord]
      BY <1>2, <2>2 DEF DeleteService, ServiceTypeOK, TaskRecord
    <3>3. del' \in [Deleters -> DeleteRecord]
      BY <1>2, <2>2 DEF DeleteService, ServiceTypeOK, ServiceRecord, DeleteRecord
    <3> QED BY <1>2, <3>1, <3>2, <3>3 DEF DeleteService, DeleteFrame, Event, ServiceTypeOK
  <2> QED BY <2>1, <2>2
<1>3. CASE DrainBegin(d)
  <2>1. tasks' \in [Slots -> TaskRecord]
    BY <1>3 DEF DrainBegin, ServiceTypeOK, TaskRecord
  <2>2. del' \in [Deleters -> DeleteRecord]
    BY <1>3 DEF DrainBegin, ServiceTypeOK, DeleteRecord
  <2> QED BY <1>3, <2>1, <2>2 DEF DrainBegin, DeleteFrame, ServiceTypeOK
<1>4. CASE waitServiceTasksStopped(d)
  BY <1>4, Constants DEF waitServiceTasksStopped, DeleteFrame, ServiceTypeOK, DeleteRecord
<1>5. CASE DrainTimeout(d)
  BY <1>5, Constants DEF DrainTimeout, DeleteFrame, ServiceTypeOK
<1>6. CASE DeleteEnd(d)
  <2>1. del[d] \in DeleteRecord /\ del[d].gen \in Nat
    BY DEF ServiceTypeOK, DeleteRecord
  <2>2. service' \in ServiceRecord
    <3>1. tombstoneServiceLocked(del[d]) \/ service' = service
      BY <1>6 DEF DeleteEnd
    <3> QED BY <1>1, <2>1, <3>1 DEF ServiceTypeOK
  <2>3. drained' \in SUBSET Nat
    BY <1>6, <2>1 DEF DeleteEnd, ServiceTypeOK
  <2> QED BY <1>6, <2>2, <2>3, Constants DEF DeleteEnd, DeleteFrame, ServiceTypeOK
<1> QED BY <1>2, <1>3, <1>4, <1>5, <1>6 DEF DrainStep

LEMMA LoopTypes ==
  ASSUME ServiceTypeOK, GateRead => loop.launches > 0,
         LoopStep \/ BackoffExpires
  PROVE  ServiceTypeOK'
<1>1. ASSUME NEW pruned \in SUBSET {s \in Slots : tasks[s].last = "STOPPED"},
             reconcileOnce(pruned)
      PROVE  ServiceTypeOK'
  <2>1. loop' \in LoopRecord
    BY <1>1, Constants DEF reconcileOnce, LoopRecord, Planning
  <2> QED BY <1>1, <2>1, Constants DEF reconcileOnce, LoopFrame, ServiceTypeOK
<1>2. CASE Refresh
  BY <1>2, Constants DEF Refresh, LoopFrame, ServiceTypeOK, ServiceRecord, LoopRecord, Planning
<1>3. CASE ListContainersByLabel
  BY <1>3 DEF ListContainersByLabel, Live, LoopFrame, ServiceTypeOK, LoopRecord, Planning
<1>4. CASE reconcileService
  BY <1>4, PlanType DEF reconcileService, LoopFrame, ServiceTypeOK
<1>5. CASE Admit
  <2>1. loop' \in LoopRecord
    <3>1. \/ loop' = [loop EXCEPT !.pc = "admitted", !.gen = service.gen]
          \/ loop' = [loop EXCEPT !.launches = 0]
      BY <1>5 DEF Admit
    <3>2. loop \in LoopRecord /\ service.gen \in Nat
      BY DEF ServiceTypeOK, ServiceRecord
    <3>3. /\ [loop EXCEPT !.pc = "admitted", !.gen = service.gen] \in LoopRecord
          /\ [loop EXCEPT !.launches = 0] \in LoopRecord
      BY <3>2 DEF LoopRecord
    <3> QED BY <3>1, <3>3
  <2>2. backoff' \in BOOLEAN
    BY <1>5 DEF Admit, ServiceTypeOK
  <2> QED BY <1>5, <2>1, <2>2 DEF Admit, LoopFrame, ServiceTypeOK
<1>6. CASE recordServiceCounts
  BY <1>6, Constants DEF recordServiceCounts, LoopFrame, ServiceTypeOK, ServiceRecord, LoopRecord
<1>7. ASSUME NEW s \in Slots, stopServiceTasks(s) PROVE ServiceTypeOK'
  <2>1. StopRecord(tasks[s], loop.rollout) \in TaskRecord
    BY StopType DEF ServiceTypeOK, LoopRecord
  <2>2. tasks' \in [Slots -> TaskRecord]
    BY <1>7, <2>1 DEF stopServiceTasks, ServiceTypeOK
  <2>3. loop' \in LoopRecord
    BY <1>7 DEF stopServiceTasks, ServiceTypeOK, LoopRecord
  <2> QED BY <1>7, <2>2, <2>3 DEF stopServiceTasks, LoopFrame, ServiceTypeOK
<1>8. ASSUME NEW s \in Slots, NewTaskRecord(s) PROVE ServiceTypeOK'
  BY <1>8, Constants DEF NewTaskRecord, LoopFrame, ServiceTypeOK, TaskRecord, LoopRecord
<1>9. ASSUME NEW s \in Slots, LaunchSucceeds(s) PROVE ServiceTypeOK'
  <2>1. loop.launches > 0 BY <1>9 DEF LaunchSucceeds, GateRead
  <2>2. loop' \in LoopRecord
    <3>1. loop \in LoopRecord /\ loop.launches - 1 \in Nat
      BY <2>1 DEF ServiceTypeOK, LoopRecord
    <3>2. loop' = [loop EXCEPT !.pc = "act", !.slot = {}, !.launches = loop.launches - 1]
      BY <1>9 DEF LaunchSucceeds
    <3> QED BY <3>1, <3>2 DEF LoopRecord
  <2>3. tasks' \in [Slots -> TaskRecord]
    <3>1. PICK b \in BOOLEAN, l \in {"RUNNING", "STOPPING"} :
            tasks' = [tasks EXCEPT ![s] = [@ EXCEPT !.live = TRUE, !.asked = b, !.last = l]]
      BY <1>9 DEF LaunchSucceeds, ServiceTypeOK
    <3>2. [tasks[s] EXCEPT !.live = TRUE, !.asked = b, !.last = l] \in TaskRecord
      <4>1. tasks[s] \in TaskRecord BY DEF ServiceTypeOK
      <4> QED BY <4>1 DEF TaskRecord
    <3> QED BY <3>1, <3>2 DEF ServiceTypeOK
  <2> QED BY <1>9, <2>2, <2>3 DEF LaunchSucceeds, LoopFrame, ServiceTypeOK
<1>10. ASSUME NEW s \in Slots, LaunchFails(s) PROVE ServiceTypeOK'
  <2>1. loop' \in LoopRecord
    BY <1>10 DEF LaunchFails, ServiceTypeOK, LoopRecord
  <2>2. backoff' = TRUE BY <1>10 DEF LaunchFails
  <2> QED BY <1>10, <2>1, <2>2, Constants DEF LaunchFails, Event, LoopFrame, ServiceTypeOK
<1>11. CASE BackoffExpires
  BY <1>11 DEF BackoffExpires, LoopFrame, ServiceTypeOK
<1> QED
  BY <1>1, <1>2, <1>3, <1>4, <1>5, <1>6, <1>7, <1>8, <1>9, <1>10, <1>11 DEF LoopStep

LEMMA TaskTypes ==
  ASSUME ServiceTypeOK, NEW s \in Slots,
         StopTask(s) \/ ContainerExits(s) \/ TaskStep(s)
  PROVE  ServiceTypeOK'
<1>1. CASE StopTask(s)
  <2>1. StopRecord(tasks[s], FALSE) \in TaskRecord
    BY StopType DEF ServiceTypeOK
  <2>2. /\ tasks' = [tasks EXCEPT ![s] = StopRecord(tasks[s], FALSE)]
        /\ nevents' = nevents + 1
        /\ UNCHANGED <<cluster, service, loop, del, backoff, peak, drained>>
    BY <1>1 DEF StopTask, Event
  <2>3. tasks' \in [Slots -> TaskRecord]
    BY <2>1, <2>2 DEF ServiceTypeOK
  <2>4. nevents' \in Nat
    BY <2>2 DEF ServiceTypeOK
  <2> QED BY <2>2, <2>3, <2>4 DEF ServiceTypeOK
<1>2. CASE ContainerExits(s)
  <2>1. tasks' \in [Slots -> TaskRecord]
    <3>1. [tasks[s] EXCEPT !.live = FALSE, !.desired = "STOPPED"] \in TaskRecord
      <4>1. tasks[s] \in TaskRecord BY DEF ServiceTypeOK
      <4> QED BY <4>1 DEF TaskRecord
    <3> QED BY <1>2, <3>1 DEF ContainerExits, ServiceTypeOK
  <2> QED BY <1>2, <2>1 DEF ContainerExits, Event, TaskFrame, ServiceTypeOK
<1>3. CASE StopContainer(s) BY <1>3 DEF StopContainer, TaskFrame, ServiceTypeOK, TaskRecord
<1>4. CASE finishTask(s) BY <1>4, Constants DEF finishTask, TaskFrame, ServiceTypeOK
<1> QED BY <1>1, <1>2, <1>3, <1>4 DEF TaskStep

LEMMA TypeNext ==
  ASSUME ServiceTypeOK, GateRead => loop.launches > 0, [ServiceNext]_svcVars
  PROVE  ServiceTypeOK'
<1>1. CASE ServiceNext
  <2>1. CASE LoopStep \/ BackoffExpires BY <2>1, LoopTypes
  <2>2. CASE \E d \in Deleters :
               (\E force \in BOOLEAN : DeleteService(d, force)) \/ DrainStep(d)
    BY <2>2, DeleteTypes
  <2>3. CASE \E s \in Slots : StopTask(s) \/ ContainerExits(s) \/ TaskStep(s)
    BY <2>3, TaskTypes
  <2> QED BY <1>1, <2>1, <2>2, <2>3, ApiTypes DEF ServiceNext
<1>2. CASE UNCHANGED svcVars BY <1>2 DEF svcVars, ServiceTypeOK
<1> QED BY <1>1, <1>2

(***************************************************************************)
(* How the task records move                                               *)
(***************************************************************************)
(* Only a launch brings a task, makes one active or starts it; only the      *)
(* rollout marks it.  All other steps take from record t, giving u.          *)
Fades(t, u) ==
  /\ u.last \notin Gone => t.last \notin Gone /\ u.def = t.def
  /\ u.last \notin Gone /\ u.desired # "STOPPED" => t.desired # "STOPPED"
  /\ u.live => t.live /\ u.gen = t.gen
  /\ u.live /\ u.rollout => t.rollout

(* Nobody ends a launch but the pass that made it. *)
Keeps(t, u) ==
  t.last = "PROVISIONING" => /\ u.last = "PROVISIONING" /\ u.gen = t.gen
                             /\ u.rollout => t.rollout

Calm(t, u) == Fades(t, u) /\ Keeps(t, u) /\ Shaped(u)

LEMMA CalmRecords ==
  ASSUME NEW t \in TaskRecord, Shaped(t)
  PROVE  /\ Calm(t, t)
         /\ Calm(t, [t EXCEPT !.desired = "STOPPED"])
         /\ Calm(t, [t EXCEPT !.asked = t.live])
         /\ Calm(t, StopRecord(t, FALSE))
         /\ t.last = "STOPPED" => Calm(t, NoTask)
         /\ t.last # "PROVISIONING" => Calm(t, Ended(t))
         /\ Calm(t, [t EXCEPT !.live = FALSE])
         /\ Calm(t, [t EXCEPT !.live = FALSE, !.desired = "STOPPED"])
<1>1. Calm(t, t) BY DEF Calm, Fades, Keeps, Shaped
<1>2. Calm(t, [t EXCEPT !.desired = "STOPPED"])
  BY DEF Calm, Fades, Keeps, Shaped, TaskRecord
<1>3. Calm(t, [t EXCEPT !.asked = t.live])
  BY DEF Calm, Fades, Keeps, Shaped, TaskRecord
<1>4. Calm(t, StopRecord(t, FALSE))
  <2>1. PICK a, b : /\ StopRecord(t, FALSE)
                         = [t EXCEPT !.desired = "STOPPED", !.asked = a, !.rollout = b]
                    /\ b => t.rollout
    BY Zenon DEF StopRecord
  <2> QED BY <2>1 DEF Calm, Fades, Keeps, Shaped, TaskRecord
<1>5. t.last = "STOPPED" => Calm(t, NoTask)
  BY DEF Calm, Fades, Keeps, Shaped, TaskRecord, NoTask, Gone
<1>6. t.last # "PROVISIONING" => Calm(t, Ended(t))
  BY DEF Calm, Fades, Keeps, Shaped, TaskRecord, NoTask, Ended, Gone
<1>7. Calm(t, [t EXCEPT !.live = FALSE])
  BY DEF Calm, Fades, Keeps, Shaped, TaskRecord
<1>8. Calm(t, [t EXCEPT !.live = FALSE, !.desired = "STOPPED"])
  BY DEF Calm, Fades, Keeps, Shaped, TaskRecord
<1> QED BY <1>1, <1>2, <1>3, <1>4, <1>5, <1>6, <1>7, <1>8

AllCalm == \A s \in Slots : Calm(tasks[s], tasks'[s])

(* The steps of others than the reconcile loop. *)
Outside ==
  \/ CreateCluster \/ DeleteCluster
  \/ \E n \in 0 .. MaxDesired :
        CreateService(n) \/ \E def \in 1 .. MaxDef : UpdateService(n, def)
  \/ \E d \in Deleters : (\E force \in BOOLEAN : DeleteService(d, force)) \/ DrainStep(d)
  \/ BackoffExpires
  \/ \E s \in Slots : StopTask(s) \/ ContainerExits(s) \/ TaskStep(s)

(* The steps of the loop that end no task and begin none. *)
Planned ==
  \/ \E pruned \in SUBSET {s \in Slots : tasks[s].last = "STOPPED"} : reconcileOnce(pruned)
  \/ Refresh \/ ListContainersByLabel \/ reconcileService \/ Admit \/ recordServiceCounts

LEMMA Steps ==
  ASSUME [ServiceNext]_svcVars
  PROVE  \/ Outside \/ Planned \/ UNCHANGED svcVars
         \/ \E s \in Slots : stopServiceTasks(s) \/ NewTaskRecord(s)
                             \/ LaunchSucceeds(s) \/ LaunchFails(s)
BY DEF ServiceNext, LoopStep, Outside, Planned

(* A step that leaves the records alone is calm; so is one that changes one  *)
(* of them calmly.                                                           *)
LEMMA CalmOne ==
  ASSUME ShapeInv, NEW s \in Slots, NEW u, Calm(tasks[s], u),
         tasks' = [tasks EXCEPT ![s] = u]
  PROVE  AllCalm
<1> SUFFICES ASSUME NEW r \in Slots PROVE Calm(tasks[r], tasks'[r])
  BY DEF AllCalm
<1>1. tasks[r] \in TaskRecord /\ Shaped(tasks[r])
  BY DEF ShapeInv, ServiceTypeOK
<1>2. tasks'[r] = IF r = s THEN u ELSE tasks[r]
  BY DEF ShapeInv, ServiceTypeOK
<1> QED BY <1>1, <1>2, CalmRecords

LEMMA CalmNone ==
  ASSUME ShapeInv, UNCHANGED tasks
  PROVE  AllCalm
<1> SUFFICES ASSUME NEW r \in Slots PROVE Calm(tasks[r], tasks'[r])
  BY DEF AllCalm
<1>1. tasks[r] \in TaskRecord /\ Shaped(tasks[r])
  BY DEF ShapeInv, ServiceTypeOK
<1> QED BY <1>1, CalmRecords

LEMMA OutsideCalm ==
  ASSUME ShapeInv, Outside
  PROVE  UNCHANGED loop /\ AllCalm
<1>0. \A s \in Slots : tasks[s] \in TaskRecord /\ Shaped(tasks[s])
  BY DEF ShapeInv, ServiceTypeOK
<1>1. CASE \/ CreateCluster \/ DeleteCluster
           \/ \E n \in 0 .. MaxDesired :
                CreateService(n) \/ \E def \in 1 .. MaxDef : UpdateService(n, def)
  <2>1. UNCHANGED <<loop, tasks>>
    BY <1>1 DEF CreateCluster, DeleteCluster, CreateService, UpdateService
  <2> QED BY <2>1, CalmNone
<1>2. ASSUME NEW d \in Deleters, NEW force \in BOOLEAN, DeleteService(d, force)
      PROVE  UNCHANGED loop /\ AllCalm
  <2>1. UNCHANGED loop BY <1>2 DEF DeleteService, DeleteFrame
  <2>2. \A s \in Slots : tasks'[s] \in {tasks[s], [tasks[s] EXCEPT !.desired = "STOPPED"]}
    BY <1>2 DEF DeleteService
  <2> QED BY <1>0, <2>1, <2>2, CalmRecords DEF AllCalm
<1>3. ASSUME NEW d \in Deleters, DrainStep(d)
      PROVE  UNCHANGED loop /\ AllCalm
  <2>1. CASE DrainBegin(d)
    <3>1. \A s \in Slots : tasks'[s] = [tasks[s] EXCEPT !.asked = tasks[s].live]
      BY <2>1 DEF DrainBegin
    <3> QED BY <1>0, <2>1, <3>1, CalmRecords DEF DrainBegin, DeleteFrame, AllCalm
  <2>2. CASE waitServiceTasksStopped(d)
    <3>1. serviceTasksToDrain = {}
      BY <1>0, <2>2 DEF waitServiceTasksStopped, serviceTasksToDrain, Recorded, Shaped, Gone
    <3>2. \A s \in Slots : tasks'[s] = tasks[s]
      BY <2>2, <3>1 DEF waitServiceTasksStopped
    <3> QED BY <1>0, <2>2, <3>2, CalmRecords
            DEF waitServiceTasksStopped, DeleteFrame, AllCalm
  <2>3. CASE DrainTimeout(d) \/ DeleteEnd(d)
    BY <2>3, CalmNone DEF DrainTimeout, DeleteEnd, DeleteFrame
  <2> QED BY <1>3, <2>1, <2>2, <2>3 DEF DrainStep
<1>4. CASE BackoffExpires
  BY <1>4, CalmNone DEF BackoffExpires
<1>5. ASSUME NEW s \in Slots, StopTask(s) \/ ContainerExits(s) \/ TaskStep(s)
      PROVE  UNCHANGED loop /\ AllCalm
  <2>1. UNCHANGED loop
    BY <1>5 DEF StopTask, ContainerExits, TaskStep, StopContainer, finishTask, TaskFrame
  <2>2. CASE StopTask(s)
    BY <1>0, <2>1, <2>2, CalmRecords, CalmOne DEF StopTask
  <2>3. CASE ContainerExits(s)
    <3>1. tasks' = [tasks EXCEPT ![s] = [tasks[s] EXCEPT !.live = FALSE,
                                                         !.desired = "STOPPED"]]
      BY <2>3 DEF ContainerExits, ShapeInv, ServiceTypeOK
    <3> QED BY <1>0, <2>1, <3>1, CalmRecords, CalmOne
  <2>4. CASE StopContainer(s)
    <3>1. tasks' = [tasks EXCEPT ![s] = [tasks[s] EXCEPT !.live = FALSE]]
      BY <2>4 DEF StopContainer
    <3> QED BY <1>0, <2>1, <3>1, CalmRecords, CalmOne
  <2>5. CASE finishTask(s)
    BY <1>0, <2>1, <2>5, CalmRecords, CalmOne DEF finishTask
  <2> QED BY <1>5, <2>2, <2>3, <2>4, <2>5 DEF TaskStep
<1> QED BY <1>1, <1>2, <1>3, <1>4, <1>5 DEF Outside

LEMMA PlannedCalm ==
  ASSUME ShapeInv, Planned
  PROVE  AllCalm
<1>0. \A s \in Slots : tasks[s] \in TaskRecord /\ Shaped(tasks[s])
  BY DEF ShapeInv, ServiceTypeOK
<1>1. ASSUME NEW pruned \in SUBSET {s \in Slots : tasks[s].last = "STOPPED"},
             reconcileOnce(pruned)
      PROVE  AllCalm
  <2>1. \A s \in Slots : tasks'[s] = tasks[s] \/ (tasks[s].last = "STOPPED" /\ tasks'[s] = NoTask)
    BY <1>1 DEF reconcileOnce
  <2> QED BY <1>0, <2>1, CalmRecords DEF AllCalm
<1>2. CASE Refresh \/ ListContainersByLabel \/ reconcileService \/ Admit \/ recordServiceCounts
  BY <1>2, CalmNone
     DEF Refresh, ListContainersByLabel, reconcileService, Admit, recordServiceCounts
<1> QED BY <1>1, <1>2 DEF Planned

(* The records the loop writes: a launch, its success, a stop. *)
LEMMA LaunchRecords ==
  ASSUME ShapeInv, NEW s \in Slots
  PROVE  /\ NewTaskRecord(s) =>
              /\ tasks'[s].last = "PROVISIONING" /\ ~tasks'[s].rollout /\ ~tasks'[s].live
              /\ tasks'[s].gen = loop.gen /\ tasks'[s].def = loop.def
              /\ Shaped(tasks'[s])
              /\ \A r \in Slots \ {s} : tasks'[r] = tasks[r]
         /\ LaunchSucceeds(s) =>
              /\ tasks[s].last = "PROVISIONING" /\ tasks[s].gen = loop.gen
              /\ tasks'[s].last \in {"RUNNING", "STOPPING"}
              /\ ~tasks'[s].rollout /\ tasks'[s].gen = loop.gen
              /\ tasks'[s].def = tasks[s].def /\ tasks'[s].desired = tasks[s].desired
              /\ Shaped(tasks'[s])
              /\ \A r \in Slots \ {s} : tasks'[r] = tasks[r]
         /\ LaunchFails(s) =>
              /\ tasks'[s].last = "STOPPED" /\ ~tasks'[s].live
              /\ Shaped(tasks'[s])
              /\ \A r \in Slots \ {s} : tasks'[r] = tasks[r]
<1>0. tasks \in [Slots -> TaskRecord] /\ tasks[s] \in TaskRecord /\ Shaped(tasks[s])
  BY DEF ShapeInv, ServiceTypeOK
<1>1. ASSUME NewTaskRecord(s)
      PROVE  /\ tasks'[s].last = "PROVISIONING" /\ ~tasks'[s].rollout /\ ~tasks'[s].live
             /\ tasks'[s].gen = loop.gen /\ tasks'[s].def = loop.def
             /\ Shaped(tasks'[s])
             /\ \A r \in Slots \ {s} : tasks'[r] = tasks[r]
  <2>1. tasks'[s] = [NoTask EXCEPT !.last = "PROVISIONING", !.desired = "RUNNING",
                        !.def = loop.def, !.gen = loop.gen, !.tracked = TRUE]
    BY <1>0, <1>1 DEF NewTaskRecord
  <2>2. \A r \in Slots \ {s} : tasks'[r] = tasks[r]
    BY <1>0, <1>1 DEF NewTaskRecord
  <2> QED BY <2>1, <2>2 DEF NoTask, Shaped, Gone
<1>2. ASSUME LaunchSucceeds(s)
      PROVE  /\ tasks[s].last = "PROVISIONING" /\ tasks[s].gen = loop.gen
             /\ tasks'[s].last \in {"RUNNING", "STOPPING"}
             /\ ~tasks'[s].rollout /\ tasks'[s].gen = loop.gen
             /\ tasks'[s].def = tasks[s].def /\ tasks'[s].desired = tasks[s].desired
             /\ Shaped(tasks'[s])
             /\ \A r \in Slots \ {s} : tasks'[r] = tasks[r]
  <2>1. Pending(tasks[s])
    BY <1>2 DEF LaunchSucceeds, ShapeInv, LoopShaped
  <2>2. PICK b \in BOOLEAN, l \in {"RUNNING", "STOPPING"} :
          tasks' = [tasks EXCEPT ![s] = [@ EXCEPT !.live = TRUE, !.asked = b, !.last = l]]
    BY <1>0, <1>2 DEF LaunchSucceeds
  <2>3. tasks'[s] = [tasks[s] EXCEPT !.live = TRUE, !.asked = b, !.last = l]
    BY <1>0, <2>2
  <2>4. \A r \in Slots \ {s} : tasks'[r] = tasks[r]
    BY <1>0, <2>2
  <2>5. tasks'[s].last = l /\ tasks'[s].rollout = tasks[s].rollout
    BY <1>0, <2>3 DEF TaskRecord
  <2>6. tasks'[s].gen = tasks[s].gen /\ tasks'[s].def = tasks[s].def
    BY <1>0, <2>3 DEF TaskRecord
  <2>7. tasks'[s].desired = tasks[s].desired /\ tasks'[s].tracked = tasks[s].tracked
    BY <1>0, <2>3 DEF TaskRecord
  <2>8. Shaped(tasks'[s])
    BY <1>0, <2>1, <2>5, <2>7 DEF Shaped, Pending, Gone
  <2> QED BY <2>1, <2>4, <2>5, <2>6, <2>7, <2>8 DEF Pending
<1>3. ASSUME LaunchFails(s)
      PROVE  /\ tasks'[s].last = "STOPPED" /\ ~tasks'[s].live
             /\ Shaped(tasks'[s])
             /\ \A r \in Slots \ {s} : tasks'[r] = tasks[r]
  <2>1. tasks'[s] = Ended(tasks[s]) BY <1>0, <1>3 DEF LaunchFails
  <2>2. \A r \in Slots \ {s} : tasks'[r] = tasks[r]
    BY <1>0, <1>3 DEF LaunchFails
  <2> QED BY <2>1, <2>2 DEF Ended, NoTask, Shaped, Gone
<1> QED BY <1>1, <1>2, <1>3

LEMMA StopRecords ==
  ASSUME ShapeInv, NEW s \in Slots, stopServiceTasks(s)
  PROVE  /\ tasks'[s].last = tasks[s].last /\ tasks'[s].def = tasks[s].def
         /\ tasks'[s].gen = tasks[s].gen /\ tasks'[s].live = tasks[s].live
         /\ tasks'[s].desired = "STOPPED"
         /\ tasks'[s].rollout => tasks[s].rollout \/ loop.rollout
         /\ Shaped(tasks'[s])
         /\ \A r \in Slots \ {s} : tasks'[r] = tasks[r]
<1>0. tasks \in [Slots -> TaskRecord] /\ tasks[s] \in TaskRecord /\ Shaped(tasks[s])
  BY DEF ShapeInv, ServiceTypeOK
<1>1. tasks' = [tasks EXCEPT ![s] = StopRecord(tasks[s], loop.rollout)]
  BY DEF stopServiceTasks
<1>2. PICK a, b : /\ StopRecord(tasks[s], loop.rollout)
                       = [tasks[s] EXCEPT !.desired = "STOPPED", !.asked = a, !.rollout = b]
                  /\ b => tasks[s].rollout \/ loop.rollout
  BY Zenon DEF StopRecord
<1>3. tasks'[s] = [tasks[s] EXCEPT !.desired = "STOPPED", !.asked = a, !.rollout = b]
  BY <1>0, <1>1, <1>2
<1>4. \A r \in Slots \ {s} : tasks'[r] = tasks[r]
  BY <1>0, <1>1
<1>5. /\ tasks'[s].last = tasks[s].last /\ tasks'[s].def = tasks[s].def
      /\ tasks'[s].gen = tasks[s].gen /\ tasks'[s].live = tasks[s].live
      /\ tasks'[s].desired = "STOPPED" /\ tasks'[s].tracked = tasks[s].tracked
      /\ tasks'[s].rollout = b
  BY <1>0, <1>3 DEF TaskRecord
<1>6. Shaped(tasks'[s])
  BY <1>0, <1>5 DEF Shaped
<1> QED BY <1>2, <1>4, <1>5, <1>6

(***************************************************************************)
(* The shape of the loop's state                                           *)
(***************************************************************************)
(* What the loop knows after a step of others. *)
LEMMA OutsideLoop ==
  ASSUME ShapeInv, Outside
  PROVE  LoopShaped'
<1>1. loop' = loop /\ AllCalm BY OutsideCalm
<1>2. ASSUME loop.pc = "recorded"
      PROVE  \E s \in Slots : loop'.slot = {s} /\ Pending(tasks[s])'
  <2>1. PICK s \in Slots : loop.slot = {s} /\ Pending(tasks[s])
    BY <1>2 DEF ShapeInv, LoopShaped
  <2>2. Keeps(tasks[s], tasks'[s])
    BY <1>1 DEF AllCalm, Calm
  <2> QED BY <1>1, <2>1, <2>2 DEF Pending, Keeps
<1>3. GateRead => ~GateWritten'
  <2> SUFFICES ASSUME GateRead, NEW d \in Deleters, del'[d].pc = "draining"
               PROVE  FALSE
    BY DEF GateWritten
  <2>1. del[d].pc # "draining"
    BY DEF ShapeInv, LoopShaped, GateWritten
  <2>2. PICK c \in Deleters : \/ \E force \in BOOLEAN : DeleteService(c, force)
                              \/ DrainStep(c)
    BY <2>1 DEF Outside, CreateCluster, DeleteCluster, CreateService, UpdateService,
                BackoffExpires, LoopFrame, StopTask, ContainerExits, TaskStep, StopContainer,
                finishTask, TaskFrame
  <2>3. del \in [Deleters -> DeleteRecord] BY DEF ShapeInv, ServiceTypeOK
  <2>4. CASE \E force \in BOOLEAN : DeleteService(c, force)
    BY <2>1, <2>3, <2>4 DEF DeleteService, DeleteRecord
  <2>5. CASE DrainBegin(c) BY <2>5 DEF DrainBegin
  <2>6. CASE waitServiceTasksStopped(c)
    BY <2>1, <2>3, <2>6 DEF waitServiceTasksStopped, DeleteRecord
  <2>7. CASE DrainTimeout(c) \/ DeleteEnd(c)
    BY <2>1, <2>3, <2>7 DEF DrainTimeout, DeleteEnd, DeleteRecord, NoDelete
  <2> QED BY <2>2, <2>4, <2>5, <2>6, <2>7 DEF DrainStep
<1>4. ShapeInv BY DEF ShapeInv
<1> QED BY <1>1, <1>2, <1>3, <1>4 DEF ShapeInv, LoopShaped, GateRead

(* What a pass plans.                                                      *)
LEMMA Plans ==
  ASSUME ShapeInv, reconcileService
  PROVE  /\ loop'.pc = "act" /\ loop'.slot = {} /\ loop'.def = loop.def
         /\ loop'.desired = loop.desired /\ loop'.launches \in Nat
         /\ loop'.launches > 0 => loop'.stops = {} /\ ~loop'.rollout
         /\ loop'.launches > 0 =>
              /\ ~oldTaskStillVisible /\ {s \in serviceActiveTasks : Old(s)} = {}
              /\ Cardinality(serviceActiveTasks) + loop'.launches = loop.desired
         /\ loop'.rollout =>
              /\ ~oldTaskStillVisible
              /\ \E s \in serviceActiveTasks : Old(s) /\ loop'.stops = {s}
<1>0. /\ loop \in LoopRecord /\ loop.pc = "listed" /\ loop.slot = {} /\ loop.stops = {}
      /\ loop.launches = 0 /\ ~loop.rollout
  BY DEF reconcileService, ShapeInv, ServiceTypeOK, LoopShaped, Planning
<1>1. Cardinality(serviceActiveTasks) \in Nat
  BY Sizes DEF serviceActiveTasks, serviceTasksToDrain, Recorded
<1> DEFINE act == [loop EXCEPT !.pc = "act", !.running = Cardinality(loop.listed),
                               !.listed = {}]
<1>2. /\ act \in LoopRecord
      /\ act.pc = "act" /\ act.slot = {} /\ act.def = loop.def /\ act.desired = loop.desired
      /\ act.launches = 0 /\ act.stops = {} /\ ~act.rollout
  <2>1. Cardinality(loop.listed) \in Nat BY <1>0, Sizes DEF LoopRecord
  <2>2. act \in LoopRecord BY <1>0, <2>1 DEF LoopRecord
  <2>3. act.pc = "act" /\ act.slot = loop.slot /\ act.def = loop.def
    BY <1>0 DEF LoopRecord
  <2>4. act.desired = loop.desired /\ act.launches = loop.launches
    BY <1>0 DEF LoopRecord
  <2>5. act.stops = loop.stops /\ act.rollout = loop.rollout
    BY <1>0 DEF LoopRecord
  <2> HIDE DEF act
  <2> QED BY <1>0, <2>2, <2>3, <2>4, <2>5
<1> HIDE DEF act
<1>3. \/ \E K \in SUBSET serviceActiveTasks : loop' = [act EXCEPT !.stops = K]
      \/ /\ ~oldTaskStillVisible
         /\ \E s \in serviceActiveTasks :
              Old(s) /\ loop' = [act EXCEPT !.stops = {s}, !.rollout = TRUE]
      \/ loop' = act
      \/ /\ ~oldTaskStillVisible /\ {s \in serviceActiveTasks : Old(s)} = {}
         /\ loop' = [act EXCEPT !.launches = Larger(Missing, 0)]
  BY DEF reconcileService, act
<1>4. ASSUME NEW K, loop' = [act EXCEPT !.stops = K]
      PROVE  /\ loop'.pc = "act" /\ loop'.slot = {} /\ loop'.def = loop.def
             /\ loop'.desired = loop.desired /\ loop'.launches = 0 /\ ~loop'.rollout
  BY <1>2, <1>4 DEF LoopRecord
<1>5. ASSUME NEW s, loop' = [act EXCEPT !.stops = {s}, !.rollout = TRUE]
      PROVE  /\ loop'.pc = "act" /\ loop'.slot = {} /\ loop'.def = loop.def
             /\ loop'.desired = loop.desired /\ loop'.launches = 0 /\ loop'.stops = {s}
  BY <1>2, <1>5 DEF LoopRecord
<1>6. ASSUME loop' = [act EXCEPT !.launches = Larger(Missing, 0)]
      PROVE  /\ loop'.pc = "act" /\ loop'.slot = {} /\ loop'.def = loop.def
             /\ loop'.desired = loop.desired /\ loop'.launches = Larger(Missing, 0)
             /\ loop'.stops = {} /\ ~loop'.rollout
  BY <1>2, <1>6 DEF LoopRecord
<1>7. /\ Larger(Missing, 0) \in Nat
      /\ Larger(Missing, 0) > 0 =>
           Cardinality(serviceActiveTasks) + Larger(Missing, 0) = loop.desired
  BY <1>0, <1>1 DEF Larger, Missing, LoopRecord
<1>8. CASE \E K \in SUBSET serviceActiveTasks : loop' = [act EXCEPT !.stops = K]
  <2>1. PICK K \in SUBSET serviceActiveTasks : loop' = [act EXCEPT !.stops = K]
    BY <1>8
  <2>2. /\ loop'.pc = "act" /\ loop'.slot = {} /\ loop'.def = loop.def
        /\ loop'.desired = loop.desired /\ loop'.launches = 0 /\ ~loop'.rollout
    BY <1>4, <2>1
  <2> QED BY <2>2
<1>9. CASE /\ ~oldTaskStillVisible
           /\ \E s \in serviceActiveTasks :
                Old(s) /\ loop' = [act EXCEPT !.stops = {s}, !.rollout = TRUE]
  <2>1. PICK s \in serviceActiveTasks :
               Old(s) /\ loop' = [act EXCEPT !.stops = {s}, !.rollout = TRUE]
    BY <1>9
  <2>2. /\ loop'.pc = "act" /\ loop'.slot = {} /\ loop'.def = loop.def
        /\ loop'.desired = loop.desired /\ loop'.launches = 0 /\ loop'.stops = {s}
    BY <1>5, <2>1
  <2> QED BY <1>9, <2>1, <2>2
<1>10. CASE loop' = act
  BY <1>2, <1>10
<1>11. CASE /\ ~oldTaskStillVisible /\ {s \in serviceActiveTasks : Old(s)} = {}
            /\ loop' = [act EXCEPT !.launches = Larger(Missing, 0)]
  BY <1>6, <1>7, <1>11
<1> QED BY <1>3, <1>8, <1>9, <1>10, <1>11

LEMMA PlannedLoop ==
  ASSUME ShapeInv, Planned
  PROVE  LoopShaped'
<1>0. loop \in LoopRecord /\ LoopShaped /\ UNCHANGED del
  BY DEF ShapeInv, ServiceTypeOK, Planned, reconcileOnce, Refresh, ListContainersByLabel,
         reconcileService, Admit, recordServiceCounts, LoopFrame
<1>1. ASSUME loop' = Idle \/ loop' = [Idle EXCEPT !.pc = "pass"] PROVE LoopShaped'
  BY <1>1 DEF LoopShaped, Idle, Planning, GateRead
<1>2. CASE \E pruned \in SUBSET {s \in Slots : tasks[s].last = "STOPPED"} : reconcileOnce(pruned)
  BY <1>1, <1>2 DEF reconcileOnce
<1>3. CASE Refresh
  BY <1>0, <1>1, <1>3 DEF Refresh, LoopShaped, Planning, GateRead, LoopRecord
<1>4. CASE ListContainersByLabel
  BY <1>0, <1>4 DEF ListContainersByLabel, LoopShaped, Planning, GateRead, LoopRecord
<1>5. CASE reconcileService
  BY <1>5, Plans DEF LoopShaped, Planning, GateRead
<1>6. CASE Admit
  <2>1. \/ loop' = [loop EXCEPT !.pc = "admitted", !.gen = service.gen]
        \/ loop' = [loop EXCEPT !.launches = 0]
    BY <1>6 DEF Admit
  <2>2. loop.pc = "act" /\ loop.launches > 0 /\ ~GateWritten'
    BY <1>0, <1>6 DEF Admit, GateWritten
  <2> QED BY <1>0, <2>1, <2>2 DEF LoopShaped, Planning, GateRead, LoopRecord
<1>7. CASE recordServiceCounts
  BY <1>1, <1>7 DEF recordServiceCounts
<1> QED BY <1>2, <1>3, <1>4, <1>5, <1>6, <1>7 DEF Planned

(* The loop's own steps on a task, as changes of what it knows. *)
LEMMA ActLoop ==
  ASSUME ShapeInv, NEW s \in Slots
  PROVE  /\ stopServiceTasks(s) =>
              /\ loop.pc = "act" /\ loop'.pc = "act" /\ s \in loop.stops
              /\ loop'.stops = loop.stops \ {s} /\ loop'.rollout = loop.rollout
              /\ loop.launches = 0 /\ loop'.launches = 0
              /\ loop.slot = {} /\ loop'.slot = {}
         /\ NewTaskRecord(s) =>
              /\ loop.pc = "admitted" /\ loop'.pc = "recorded"
              /\ loop.slot = {} /\ loop'.slot = {s} /\ loop'.gen = loop.gen
              /\ loop.launches > 0 /\ loop'.launches = loop.launches
              /\ loop'.stops = {} /\ ~loop'.rollout
         /\ LaunchSucceeds(s) =>
              /\ loop.pc = "recorded" /\ loop'.pc = "act"
              /\ loop.slot = {s} /\ loop'.slot = {}
              /\ loop.launches > 0 /\ loop'.launches = loop.launches - 1
              /\ loop'.stops = {} /\ ~loop'.rollout
         /\ LaunchFails(s) =>
              /\ loop.pc = "recorded" /\ loop'.pc = "act"
              /\ loop.slot = {s} /\ loop'.slot = {} /\ loop'.launches = 0
              /\ loop'.stops = {} /\ ~loop'.rollout
         /\ stopServiceTasks(s) \/ NewTaskRecord(s) \/ LaunchSucceeds(s) \/ LaunchFails(s) =>
              loop'.def = loop.def /\ loop'.desired = loop.desired
<1>0. loop \in LoopRecord /\ LoopShaped
  BY DEF ShapeInv, ServiceTypeOK
<1>1. ASSUME stopServiceTasks(s)
      PROVE  /\ loop.pc = "act" /\ loop'.pc = "act" /\ s \in loop.stops
             /\ loop'.stops = loop.stops \ {s} /\ loop'.rollout = loop.rollout
             /\ loop.launches = 0 /\ loop'.launches = 0
             /\ loop.slot = {} /\ loop'.slot = {}
             /\ loop'.def = loop.def /\ loop'.desired = loop.desired
  <2>1. /\ loop.pc = "act" /\ s \in loop.stops
        /\ loop' = [loop EXCEPT !.stops = loop.stops \ {s}]
    BY <1>1 DEF stopServiceTasks
  <2>2. loop.slot = {} /\ loop.launches = 0
    BY <1>0, <2>1 DEF LoopShaped, LoopRecord
  <2> QED BY <1>0, <2>1, <2>2 DEF LoopRecord
<1>2. ASSUME NewTaskRecord(s)
      PROVE  /\ loop.pc = "admitted" /\ loop'.pc = "recorded"
             /\ loop.slot = {} /\ loop'.slot = {s} /\ loop'.gen = loop.gen
             /\ loop.launches > 0 /\ loop'.launches = loop.launches
             /\ loop'.stops = {} /\ ~loop'.rollout
             /\ loop'.def = loop.def /\ loop'.desired = loop.desired
  <2>1. loop.pc = "admitted" /\ loop' = [loop EXCEPT !.pc = "recorded", !.slot = {s}]
    BY <1>2 DEF NewTaskRecord
  <2>2. loop.slot = {} /\ loop.launches > 0 /\ loop.stops = {} /\ ~loop.rollout
    BY <1>0, <2>1 DEF LoopShaped, GateRead
  <2> QED BY <1>0, <2>1, <2>2 DEF LoopRecord
<1>3. ASSUME LaunchSucceeds(s) \/ LaunchFails(s)
      PROVE  /\ loop.pc = "recorded" /\ loop.slot = {s} /\ loop.launches > 0
             /\ loop.stops = {} /\ ~loop.rollout
  <2>1. loop.pc = "recorded" /\ s \in loop.slot
    BY <1>3 DEF LaunchSucceeds, LaunchFails
  <2> QED BY <1>0, <2>1 DEF LoopShaped, GateRead
<1>4. ASSUME LaunchSucceeds(s)
      PROVE  /\ loop'.pc = "act" /\ loop'.slot = {} /\ loop'.launches = loop.launches - 1
             /\ loop'.stops = {} /\ ~loop'.rollout
             /\ loop'.def = loop.def /\ loop'.desired = loop.desired
  <2>1. loop' = [loop EXCEPT !.pc = "act", !.slot = {}, !.launches = loop.launches - 1]
    BY <1>4 DEF LaunchSucceeds
  <2> QED BY <1>0, <1>3, <1>4, <2>1 DEF LoopRecord
<1>5. ASSUME LaunchFails(s)
      PROVE  /\ loop'.pc = "act" /\ loop'.slot = {} /\ loop'.launches = 0
             /\ loop'.stops = {} /\ ~loop'.rollout
             /\ loop'.def = loop.def /\ loop'.desired = loop.desired
  <2>1. loop' = [loop EXCEPT !.pc = "act", !.slot = {}, !.launches = 0]
    BY <1>5 DEF LaunchFails
  <2> QED BY <1>0, <1>3, <1>5, <2>1 DEF LoopRecord
<1> QED BY <1>1, <1>2, <1>3, <1>4, <1>5

LEMMA ShapeNext ==
  ASSUME ShapeInv, [ServiceNext]_svcVars
  PROVE  ShapeInv'
<1>1. ServiceTypeOK'
  BY TypeNext DEF ShapeInv, LoopShaped
<1>2. CASE Outside \/ Planned
  BY <1>1, <1>2, OutsideCalm, OutsideLoop, PlannedCalm, PlannedLoop DEF ShapeInv, AllCalm, Calm
<1>3. CASE UNCHANGED svcVars
  BY <1>3 DEF svcVars, ShapeInv, ServiceTypeOK, LoopShaped, Pending, GateRead, GateWritten
<1>4. ASSUME NEW s \in Slots,
             stopServiceTasks(s) \/ NewTaskRecord(s) \/ LaunchSucceeds(s) \/ LaunchFails(s)
      PROVE  ShapeInv'
  <2>1. \A r \in Slots : Shaped(tasks'[r])
    BY <1>4, LaunchRecords, StopRecords DEF ShapeInv
  <2>2. loop \in LoopRecord /\ LoopShaped /\ UNCHANGED del
    BY <1>4 DEF ShapeInv, ServiceTypeOK, stopServiceTasks, NewTaskRecord, LaunchSucceeds,
                LaunchFails, LoopFrame
  <2>3. CASE stopServiceTasks(s) \/ LaunchSucceeds(s) \/ LaunchFails(s)
    <3>1. /\ loop'.pc = "act" /\ loop'.slot = {}
          /\ loop'.launches > 0 => loop'.stops = {} /\ ~loop'.rollout
      BY <2>3, ActLoop
    <3> QED BY <1>1, <2>1, <3>1 DEF ShapeInv, LoopShaped, GateRead, Planning
  <2>4. CASE NewTaskRecord(s)
    <3>1. Pending(tasks[s])'
      BY <2>4, ActLoop, LaunchRecords DEF Pending
    <3>2. ~GateWritten'
      BY <2>2, <2>4, ActLoop DEF GateWritten, LoopShaped, GateRead
    <3>3. /\ loop'.pc = "recorded" /\ loop'.slot = {s} /\ loop'.launches > 0
          /\ loop'.stops = {} /\ ~loop'.rollout
      BY <2>4, ActLoop
    <3> QED BY <1>1, <2>1, <3>1, <3>2, <3>3 DEF ShapeInv, LoopShaped, GateRead, Planning
  <2> QED BY <1>4, <2>3, <2>4
<1> QED BY <1>2, <1>3, <1>4, Steps

(***************************************************************************)
(* The launches are counted                                                *)
(***************************************************************************)
(* A calm step brings no task into any of the sets the loop looks at. *)
LEMMA CalmSets ==
  ASSUME AllCalm
  PROVE  /\ serviceTasksToDrain' \subseteq serviceTasksToDrain
         /\ serviceActiveTasks' \subseteq serviceActiveTasks
         /\ Live' \subseteq Live
         /\ \A s \in serviceTasksToDrain' : tasks'[s].def = tasks[s].def
         /\ \A s \in Live' : tasks'[s].gen = tasks[s].gen
         /\ \A s \in Live' : tasks'[s].rollout => tasks[s].rollout
BY DEF AllCalm, Calm, Fades, serviceActiveTasks, serviceTasksToDrain, Recorded, Live, Gone

LEMMA Smaller ==
  ASSUME NEW S, S \subseteq Slots, NEW T \in SUBSET S
  PROVE  /\ Cardinality(T) \in Nat /\ Cardinality(S) \in Nat
         /\ Cardinality(T) <= Cardinality(S)
<1>1. IsFiniteSet(S) BY Sizes
<1> QED BY <1>1, Sizes, FS_Subset

(* The highest desired count never goes down, and covers the service's. *)
LEMMA Peaks ==
  ASSUME ServiceTypeOK, service.desired <= peak, [ServiceNext]_svcVars
  PROVE  peak' >= peak /\ service'.desired <= peak'
<1>0. peak \in Nat /\ service \in ServiceRecord BY DEF ServiceTypeOK
<1>1. ASSUME UNCHANGED peak,
             \/ service' = service \/ service' = NoService
             \/ \E svc : tombstoneServiceLocked(svc)
             \/ service' = [service EXCEPT !.desired = 0, !.status = "DRAINING"]
             \/ service' = [service EXCEPT !.running = loop.running]
      PROVE  peak' >= peak /\ service'.desired <= peak'
  <2>1. \/ service'.desired = service.desired \/ service'.desired = 0
    <3>1. ASSUME NEW svc, tombstoneServiceLocked(svc) PROVE service'.desired = 0
      BY <3>1 DEF tombstoneServiceLocked, NoService
    <3>2. service' = NoService => service'.desired = 0 BY DEF NoService
    <3>3. \/ service' = [service EXCEPT !.desired = 0, !.status = "DRAINING"]
          \/ service' = [service EXCEPT !.running = loop.running]
          => service'.desired \in {service.desired, 0}
      BY <1>0 DEF ServiceRecord
    <3> QED BY <1>1, <3>1, <3>2, <3>3
  <2> QED BY <1>0, <1>1, <2>1 DEF ServiceRecord
<1>2. ASSUME NEW n \in 0 .. MaxDesired,
             CreateService(n) \/ \E def \in 1 .. MaxDef : UpdateService(n, def)
      PROVE  peak' >= peak /\ service'.desired <= peak'
  <2>1. peak' = Larger(peak, n) /\ service'.desired = n
    BY <1>0, <1>2 DEF CreateService, UpdateService, NoService, ServiceRecord
  <2>2. n \in Nat BY SchedulerAssumption
  <2> QED BY <1>0, <2>1, <2>2 DEF Larger
<1>3. CASE CreateCluster \/ DeleteCluster
  BY <1>1, <1>3 DEF CreateCluster, DeleteCluster
<1>4. ASSUME NEW d \in Deleters,
             (\E force \in BOOLEAN : DeleteService(d, force)) \/ DrainStep(d)
      PROVE  peak' >= peak /\ service'.desired <= peak'
  <2>1. UNCHANGED peak
    BY <1>4 DEF DeleteService, DrainStep, DrainBegin, waitServiceTasksStopped, DrainTimeout,
                DeleteEnd, DeleteFrame
  <2>2. \/ service' = service
        \/ \E svc : tombstoneServiceLocked(svc)
        \/ service' = [service EXCEPT !.desired = 0, !.status = "DRAINING"]
    BY <1>4 DEF DeleteService, DrainStep, DrainBegin, waitServiceTasksStopped, DrainTimeout,
                DeleteEnd
  <2> QED BY <1>1, <2>1, <2>2
<1>5. CASE LoopStep \/ BackoffExpires
  <2>1. UNCHANGED peak
    BY <1>5 DEF LoopStep, BackoffExpires, reconcileOnce, Refresh, ListContainersByLabel,
                reconcileService, Admit, recordServiceCounts, stopServiceTasks, NewTaskRecord,
                LaunchSucceeds, LaunchFails, LoopFrame
  <2>2. \/ service' = service \/ service' = NoService
        \/ service' = [service EXCEPT !.running = loop.running]
    BY <1>5 DEF LoopStep, BackoffExpires, reconcileOnce, Refresh, ListContainersByLabel,
                reconcileService, Admit, recordServiceCounts, stopServiceTasks, NewTaskRecord,
                LaunchSucceeds, LaunchFails
  <2> QED BY <1>1, <2>1, <2>2
<1>6. CASE \E s \in Slots : StopTask(s) \/ ContainerExits(s) \/ TaskStep(s)
  BY <1>1, <1>6 DEF StopTask, ContainerExits, TaskStep, StopContainer, finishTask, TaskFrame
<1>7. CASE UNCHANGED svcVars BY <1>1, <1>7 DEF svcVars
<1> QED BY <1>2, <1>3, <1>4, <1>5, <1>6, <1>7 DEF ServiceNext

LEMMA BudgetNext ==
  ASSUME ShapeInv, ShapeInv', Budgeted, [ServiceNext]_svcVars
  PROVE  Budgeted'
<1> DEFINE held == Cardinality(serviceActiveTasks \ loop.slot)
<1>0. /\ peak \in Nat /\ peak' \in Nat /\ peak' >= peak /\ service'.desired <= peak'
      /\ loop \in LoopRecord /\ loop' \in LoopRecord
  BY Peaks DEF ShapeInv, ServiceTypeOK, Budgeted
<1>1. /\ serviceActiveTasks \subseteq Slots /\ serviceActiveTasks' \subseteq Slots
      /\ held \in Nat /\ held' \in Nat
  <2>1. serviceActiveTasks \subseteq Slots /\ serviceActiveTasks' \subseteq Slots
    BY DEF serviceActiveTasks, serviceTasksToDrain, Recorded
  <2>2. /\ serviceActiveTasks \ loop.slot \subseteq Slots
        /\ serviceActiveTasks' \ loop'.slot \subseteq Slots
    BY <2>1
  <2> QED BY <2>1, <2>2, Sizes
<1>2. held + loop.launches <= peak /\ loop.desired <= peak
  BY DEF Budgeted
<1> HIDE DEF held
<1>3. ASSUME held' <= held, loop'.launches <= loop.launches,
             loop'.desired \in {loop.desired, 0}
      PROVE  Budgeted'
  <2>1. held' + loop'.launches <= peak' /\ loop'.desired <= peak'
    BY <1>0, <1>1, <1>2, <1>3 DEF LoopRecord
  <2> QED BY <1>0, <2>1 DEF Budgeted, held
<1>4. ASSUME AllCalm, loop'.slot = loop.slot \/ loop.slot = {}
      PROVE  held' <= held
  <2>1. serviceActiveTasks' \ loop'.slot \subseteq serviceActiveTasks \ loop.slot
    BY <1>4, CalmSets
  <2>2. serviceActiveTasks \ loop.slot \subseteq Slots BY <1>1
  <2> QED BY <2>1, <2>2, Smaller DEF held
<1>5. CASE Outside
  BY <1>3, <1>4, <1>5, OutsideCalm, <1>0 DEF LoopRecord
<1>6. CASE UNCHANGED svcVars
  <2>1. UNCHANGED <<loop, tasks>> BY <1>6 DEF svcVars
  <2> QED BY <1>3, <1>4, <2>1, CalmNone, <1>0 DEF LoopRecord
<1>7. CASE Planned
  <2>1. held' <= held
    <3>1. loop.slot = {}
      BY <1>7 DEF ShapeInv, LoopShaped, Planned, reconcileOnce, Refresh, ListContainersByLabel,
                  reconcileService, Admit, recordServiceCounts
    <3> QED BY <1>4, <1>7, <3>1, PlannedCalm
  <2>2. CASE \/ \E pruned \in SUBSET {s \in Slots : tasks[s].last = "STOPPED"} :
                   reconcileOnce(pruned)
             \/ recordServiceCounts
    <3>1. loop'.launches = 0 /\ loop'.desired = 0
      BY <2>2 DEF reconcileOnce, recordServiceCounts, Idle
    <3> QED BY <1>0, <1>3, <2>1, <3>1 DEF LoopRecord
  <2>3. CASE Refresh
    <3>1. /\ loop'.launches = loop.launches \/ loop'.launches = 0
          /\ loop'.desired \in {service.desired, 0}
      BY <1>0, <2>3 DEF Refresh, Idle, LoopRecord
    <3>2. service.desired <= peak /\ service.desired \in Nat
      BY DEF Budgeted, ShapeInv, ServiceTypeOK, ServiceRecord
    <3>3. held' + loop'.launches <= peak' /\ loop'.desired <= peak'
      BY <1>0, <1>1, <1>2, <2>1, <3>1, <3>2 DEF LoopRecord
    <3> QED BY <1>0, <3>3 DEF Budgeted, held
  <2>4. CASE ListContainersByLabel
    <3>1. loop'.launches = loop.launches /\ loop'.desired = loop.desired
      BY <1>0, <2>4 DEF ListContainersByLabel, LoopRecord
    <3> QED BY <1>0, <1>3, <2>1, <3>1 DEF LoopRecord
  <2>5. CASE Admit
    <3>1. /\ loop'.launches = loop.launches \/ loop'.launches = 0
          /\ loop'.desired = loop.desired
      BY <1>0, <2>5 DEF Admit, LoopRecord
    <3> QED BY <1>0, <1>3, <2>1, <3>1 DEF LoopRecord
  <2>6. CASE reconcileService
    <3>1. /\ loop'.slot = {} /\ loop'.desired = loop.desired /\ UNCHANGED tasks
          /\ loop'.launches > 0 =>
               Cardinality(serviceActiveTasks) + loop'.launches = loop.desired
      BY <2>6, Plans DEF reconcileService
    <3>2. held' = Cardinality(serviceActiveTasks)
      <4>1. serviceActiveTasks' \ loop'.slot = serviceActiveTasks
        BY <3>1 DEF serviceActiveTasks, serviceTasksToDrain, Recorded
      <4> QED BY <4>1 DEF held
    <3>3. CASE loop'.launches > 0
      <4>1. held' + loop'.launches <= peak' /\ loop'.desired <= peak'
        BY <1>0, <1>1, <1>2, <3>1, <3>2, <3>3 DEF LoopRecord
      <4> QED BY <1>0, <4>1 DEF Budgeted, held
    <3>4. CASE ~(loop'.launches > 0)
      <4>1. loop'.launches <= loop.launches
        BY <1>0, <3>4 DEF LoopRecord
      <4> QED BY <1>3, <2>1, <3>1, <4>1
    <3> QED BY <3>3, <3>4
  <2> QED BY <1>7, <2>2, <2>3, <2>4, <2>5, <2>6 DEF Planned
<1>8. ASSUME NEW s \in Slots,
             stopServiceTasks(s) \/ NewTaskRecord(s) \/ LaunchSucceeds(s) \/ LaunchFails(s)
      PROVE  Budgeted'
  <2>1. \A r \in Slots \ {s} : tasks'[r] = tasks[r]
    BY <1>8, LaunchRecords, StopRecords
  <2>2. serviceActiveTasks' \subseteq serviceActiveTasks \cup {s}
    BY <2>1 DEF serviceActiveTasks, serviceTasksToDrain, Recorded
  <2>3. loop'.desired = loop.desired BY <1>8, ActLoop
  <2>4. serviceActiveTasks \ loop.slot \subseteq Slots BY <1>1
  <2>5. CASE stopServiceTasks(s) \/ NewTaskRecord(s) \/ LaunchFails(s)
    <3>1. serviceActiveTasks' \ loop'.slot \subseteq serviceActiveTasks \ loop.slot
      <4>1. CASE stopServiceTasks(s)
        <5>1. s \notin serviceActiveTasks' /\ loop.slot = {}
          BY <4>1, StopRecords, ActLoop DEF serviceActiveTasks
        <5> QED BY <2>2, <5>1
      <4>2. CASE NewTaskRecord(s)
        BY <2>2, <4>2, ActLoop
      <4>3. CASE LaunchFails(s)
        <5>1. s \notin serviceActiveTasks' /\ loop.slot = {s}
          BY <4>3, LaunchRecords, ActLoop DEF serviceActiveTasks, serviceTasksToDrain
        <5> QED BY <2>2, <5>1
      <4> QED BY <2>5, <4>1, <4>2, <4>3
    <3>2. held' <= held BY <2>4, <3>1, Smaller DEF held
    <3>3. loop'.launches <= loop.launches
      BY <1>0, <2>5, ActLoop DEF LoopRecord
    <3> QED BY <1>3, <2>3, <3>2, <3>3
  <2>6. CASE LaunchSucceeds(s)
    <3>1. /\ loop.slot = {s} /\ loop'.slot = {} /\ loop.launches > 0
          /\ loop'.launches = loop.launches - 1
      BY <2>6, ActLoop
    <3>2. serviceActiveTasks' \ loop'.slot \subseteq (serviceActiveTasks \ loop.slot) \cup {s}
      BY <2>2, <3>1
    <3>3. held' <= held + 1
      <4>1. IsFiniteSet(serviceActiveTasks \ loop.slot) BY <2>4, Sizes
      <4>2. /\ (serviceActiveTasks \ loop.slot) \cup {s} \subseteq Slots
            /\ s \notin serviceActiveTasks \ loop.slot
        BY <2>4, <3>1
      <4>3. Cardinality((serviceActiveTasks \ loop.slot) \cup {s}) = held + 1
        BY <4>1, <4>2, FS_AddElement DEF held
      <4> QED BY <3>2, <4>2, <4>3, Smaller DEF held
    <3>4. held' + loop'.launches <= peak' /\ loop'.desired <= peak'
      BY <1>0, <1>1, <1>2, <2>3, <3>1, <3>3 DEF LoopRecord
    <3> QED BY <1>0, <3>4 DEF Budgeted, held
  <2> QED BY <1>8, <2>5, <2>6
<1> QED BY <1>5, <1>6, <1>7, <1>8, Steps

(***************************************************************************)
(* One definition at a time, and one task of a rollout                     *)
(***************************************************************************)
(* A pass that launches has seen no task of another definition: an active    *)
(* one would be stopped first, one that is to stop is still tracked.         *)
LEMMA NothingOld ==
  ASSUME ShapeInv, ~oldTaskStillVisible, NEW s \in serviceTasksToDrain, Old(s)
  PROVE  s \in serviceActiveTasks
<1>1. tasks[s].tracked
  BY DEF ShapeInv, Shaped, serviceTasksToDrain, Recorded, Gone
<1> QED BY <1>1 DEF oldTaskStillVisible, serviceActiveTasks

LEMMA DefinitionNext ==
  ASSUME ShapeInv, ShapeInv', OneDefinition, [ServiceNext]_svcVars
  PROVE  OneDefinition'
<1>0. loop \in LoopRecord /\ loop' \in LoopRecord
  BY DEF ShapeInv, ServiceTypeOK
<1>1. ASSUME AllCalm, loop'.launches > 0 => loop.launches > 0 /\ loop'.def = loop.def
      PROVE  OneDefinition'
  BY <1>1, CalmSets DEF OneDefinition
<1>2. CASE Outside
  BY <1>1, <1>2, OutsideCalm
<1>3. CASE UNCHANGED svcVars
  BY <1>1, <1>3, CalmNone DEF svcVars
<1>4. CASE reconcileService
  <2>1. UNCHANGED tasks /\ serviceTasksToDrain' = serviceTasksToDrain
    BY <1>4 DEF reconcileService, serviceTasksToDrain, Recorded
  <2>2. ASSUME loop'.launches > 0, NEW s \in serviceTasksToDrain
        PROVE  tasks[s].def = loop'.def
    <3>1. /\ ~oldTaskStillVisible /\ {u \in serviceActiveTasks : Old(u)} = {}
          /\ loop'.def = loop.def
      BY <1>4, <2>2, Plans
    <3> QED BY <2>2, <3>1, NothingOld DEF Old
  <2> QED BY <2>1, <2>2 DEF OneDefinition
<1>5. CASE Planned /\ ~reconcileService
  <2>1. loop'.launches > 0 => loop.launches > 0 /\ loop'.def = loop.def
    <3>1. CASE \/ \E pruned \in SUBSET {s \in Slots : tasks[s].last = "STOPPED"} :
                     reconcileOnce(pruned)
               \/ recordServiceCounts
      BY <3>1 DEF reconcileOnce, recordServiceCounts, Idle
    <3>2. CASE Refresh
      <4>1. loop.launches = 0
        BY <3>2 DEF Refresh, ShapeInv, LoopShaped, Planning
      <4> QED BY <1>0, <3>2, <4>1 DEF Refresh, Idle, LoopRecord
    <3>3. CASE ListContainersByLabel
      BY <1>0, <3>3 DEF ListContainersByLabel, LoopRecord
    <3>4. CASE Admit
      BY <1>0, <3>4 DEF Admit, LoopRecord
    <3> QED BY <1>5, <3>1, <3>2, <3>3, <3>4 DEF Planned
  <2> QED BY <1>1, <1>5, <2>1, PlannedCalm
<1>6. ASSUME NEW s \in Slots, stopServiceTasks(s) \/ LaunchSucceeds(s) \/ LaunchFails(s)
      PROVE  OneDefinition'
  <2>1. /\ serviceTasksToDrain' \subseteq serviceTasksToDrain
        /\ \A r \in serviceTasksToDrain' : tasks'[r].def = tasks[r].def
    <3>1. \A r \in Slots \ {s} : tasks'[r] = tasks[r]
      BY <1>6, LaunchRecords, StopRecords
    <3>2. tasks'[s].last \notin Gone => tasks[s].last \notin Gone /\ tasks'[s].def = tasks[s].def
      BY <1>6, LaunchRecords, StopRecords DEF Gone
    <3> QED BY <3>1, <3>2 DEF serviceTasksToDrain, Recorded, Gone
  <2>2. loop'.launches > 0 => loop.launches > 0 /\ loop'.def = loop.def
    BY <1>0, <1>6, ActLoop DEF LoopRecord
  <2> QED BY <2>1, <2>2 DEF OneDefinition
<1>7. ASSUME NEW s \in Slots, NewTaskRecord(s)
      PROVE  OneDefinition'
  <2>1. \A r \in serviceTasksToDrain : tasks[r].def = loop.def
    BY <1>7, ActLoop DEF OneDefinition
  <2>2. \A r \in serviceTasksToDrain' : tasks'[r].def = loop.def
    BY <1>7, <2>1, LaunchRecords DEF serviceTasksToDrain, Recorded
  <2> QED BY <1>7, <2>2, ActLoop DEF OneDefinition
<1> QED BY <1>2, <1>3, <1>4, <1>5, <1>6, <1>7, Steps DEF Planned

LEMMA RolloutNext ==
  ASSUME ShapeInv, ShapeInv', OneDefinition, RolloutTurn, [ServiceNext]_svcVars
  PROVE  RolloutTurn'
<1>0. loop \in LoopRecord /\ loop' \in LoopRecord
  BY DEF ShapeInv, ServiceTypeOK
<1>1. ASSUME AllCalm, loop'.rollout => loop.rollout /\ loop'.stops = loop.stops
      PROVE  RolloutTurn'
  BY <1>1, CalmSets DEF RolloutTurn
<1>2. CASE Outside
  BY <1>1, <1>2, OutsideCalm
<1>3. CASE UNCHANGED svcVars
  BY <1>1, <1>3, CalmNone DEF svcVars
<1>4. CASE reconcileService
  <2>1. UNCHANGED tasks /\ Live' = Live
    BY <1>4 DEF reconcileService, Live
  <2>2. ASSUME loop'.rollout
        PROVE  /\ \A s \in Live : ~tasks[s].rollout
               /\ \A s, u \in loop'.stops : s = u
    <3>1. ~oldTaskStillVisible BY <1>4, <2>2, Plans
    <3>2. PICK s \in serviceActiveTasks : Old(s) /\ loop'.stops = {s}
      BY <1>4, <2>2, Plans
    <3>3. ASSUME NEW u \in Live, tasks[u].rollout PROVE FALSE
      <4>1. Shaped(tasks[u]) BY DEF ShapeInv, Live
      <4>2. u \in serviceTasksToDrain /\ tasks[u].desired = "STOPPED"
        BY <3>3, <4>1 DEF Live, Shaped, serviceTasksToDrain, Recorded
      <4>3. Old(u)
        BY <3>2, <4>2 DEF OneDefinition, Old, serviceActiveTasks
      <4>4. u \in serviceActiveTasks BY <3>1, <4>2, <4>3, NothingOld
      <4> QED BY <4>2, <4>4 DEF serviceActiveTasks
    <3> QED BY <3>2, <3>3
  <2> QED BY <2>1, <2>2 DEF RolloutTurn
<1>5. CASE Planned /\ ~reconcileService
  <2>1. loop'.rollout => loop.rollout /\ loop'.stops = loop.stops
    <3>1. CASE \/ \E pruned \in SUBSET {s \in Slots : tasks[s].last = "STOPPED"} :
                     reconcileOnce(pruned)
               \/ recordServiceCounts
      BY <3>1 DEF reconcileOnce, recordServiceCounts, Idle
    <3>2. CASE Refresh
      BY <1>0, <3>2 DEF Refresh, Idle, LoopRecord
    <3>3. CASE ListContainersByLabel
      BY <1>0, <3>3 DEF ListContainersByLabel, LoopRecord
    <3>4. CASE Admit
      BY <1>0, <3>4 DEF Admit, LoopRecord
    <3> QED BY <1>5, <3>1, <3>2, <3>3, <3>4 DEF Planned
  <2> QED BY <1>1, <1>5, <2>1, PlannedCalm
<1>6. ASSUME NEW s \in Slots, NewTaskRecord(s) \/ LaunchSucceeds(s) \/ LaunchFails(s)
      PROVE  RolloutTurn'
  <2>1. \A r \in Slots \ {s} : tasks'[r] = tasks[r]
    BY <1>6, LaunchRecords
  <2>2. ~tasks'[s].rollout \/ ~tasks'[s].live
    BY <1>6, LaunchRecords
  <2>3. ~loop'.rollout BY <1>6, ActLoop
  <2> QED BY <2>1, <2>2, <2>3 DEF RolloutTurn, Live
<1>7. ASSUME NEW s \in Slots, stopServiceTasks(s)
      PROVE  RolloutTurn'
  <2>1. \A r \in Slots \ {s} : tasks'[r] = tasks[r]
    BY <1>7, StopRecords
  <2>2. tasks'[s].live = tasks[s].live /\ (tasks'[s].rollout => tasks[s].rollout \/ loop.rollout)
    BY <1>7, StopRecords
  <2>3. /\ s \in loop.stops /\ loop'.stops = loop.stops \ {s} /\ loop'.rollout = loop.rollout
    BY <1>7, ActLoop
  <2>4. Live' = Live
    BY <2>1, <2>2 DEF Live
  <2>5. CASE loop.rollout
    BY <2>1, <2>3, <2>4, <2>5 DEF RolloutTurn, Live
  <2>6. CASE ~loop.rollout
    BY <2>1, <2>2, <2>3, <2>4, <2>6 DEF RolloutTurn, Live
  <2> QED BY <2>5, <2>6
<1> QED BY <1>2, <1>3, <1>4, <1>5, <1>6, <1>7, Steps DEF Planned

(***************************************************************************)
(* Generations                                                             *)
(***************************************************************************)
(* A step that neither creates nor deletes, and admits no launch. *)
Steady ==
  /\ UNCHANGED <<del, drained>> /\ nevents' \in {nevents, nevents + 1}
  /\ service'.gen \in {service.gen, 0}
  /\ service'.status = "ACTIVE" => service.status = "ACTIVE" /\ service'.gen = service.gen
  /\ GateRead' => GateRead /\ loop'.gen = loop.gen

LEMMA SteadyNext ==
  ASSUME ServiceTypeOK, Generations, Steady,
         Live' \subseteq Live, \A s \in Live' : tasks'[s].gen = tasks[s].gen
  PROVE  Generations'
<1>0. /\ nevents \in Nat /\ service.gen \in Nat /\ drained \subseteq Nat
      /\ \A d \in Deleters : del[d].gen \in Nat
  BY DEF ServiceTypeOK, ServiceRecord, DeleteRecord
<1>1. /\ service'.gen <= nevents' /\ \A g \in drained' : g <= nevents'
      /\ \A d \in Deleters : del'[d].gen <= nevents'
  <2>1. nevents' \in Nat /\ nevents <= nevents' BY <1>0 DEF Steady
  <2>2. service'.gen \in Nat /\ service'.gen <= nevents BY <1>0 DEF Steady, Generations
  <2>3. \A g \in drained : g \in Nat /\ g <= nevents BY <1>0 DEF Generations
  <2>4. \A d \in Deleters : del[d].gen <= nevents BY DEF Generations
  <2> QED BY <1>0, <2>1, <2>2, <2>3, <2>4 DEF Steady
<1>2. DrainedIsQuiet' BY DEF Steady, Generations, DrainedIsQuiet
<1> QED BY <1>1, <1>2 DEF Steady, Generations

LEMMA OutsideSteady ==
  ASSUME ServiceTypeOK, ShapeInv,
         \/ CreateCluster \/ DeleteCluster \/ BackoffExpires
         \/ \E n \in 0 .. MaxDesired, def \in 1 .. MaxDef : UpdateService(n, def)
         \/ \E s \in Slots : StopTask(s) \/ ContainerExits(s) \/ TaskStep(s)
  PROVE  Steady
<1>1. UNCHANGED <<del, drained, loop>> /\ nevents' \in {nevents, nevents + 1}
  BY DEF CreateCluster, DeleteCluster, BackoffExpires, UpdateService, StopTask, ContainerExits,
         TaskStep, StopContainer, finishTask, LoopFrame, TaskFrame, Event
<1>2. service'.status = service.status /\ service'.gen = service.gen
  <2>1. \/ service' = service
        \/ \E n, def : service' = [service EXCEPT !.desired = n, !.def = def]
    BY DEF CreateCluster, DeleteCluster, BackoffExpires, UpdateService, StopTask,
           ContainerExits, TaskStep, StopContainer, finishTask, LoopFrame, TaskFrame
  <2> QED BY <2>1 DEF ServiceTypeOK, ServiceRecord
<1> QED BY <1>1, <1>2 DEF Steady, GateRead

LEMMA PlannedSteady ==
  ASSUME ShapeInv, Planned, ~Admit
  PROVE  Steady
<1>0. service \in ServiceRecord /\ loop \in LoopRecord BY DEF ShapeInv, ServiceTypeOK
<1>1. UNCHANGED <<del, drained, nevents>>
  BY DEF Planned, reconcileOnce, Refresh, ListContainersByLabel, reconcileService,
         recordServiceCounts, LoopFrame
<1>2. /\ service'.gen \in {service.gen, 0}
      /\ service'.status = "ACTIVE" => service.status = "ACTIVE" /\ service'.gen = service.gen
  <2>1. \/ service' = service \/ service' = NoService
        \/ service' = [service EXCEPT !.running = loop.running]
    BY DEF Planned, reconcileOnce, Refresh, ListContainersByLabel, reconcileService,
           recordServiceCounts
  <2> QED BY <1>0, <2>1 DEF NoService, ServiceRecord
<1>3. ~GateRead'
  <2>1. loop'.pc \in {"idle", "pass", "fresh", "listed", "act"}
    <3>1. CASE reconcileService BY <3>1, Plans
    <3>2. CASE Refresh BY <1>0, <3>2 DEF Refresh, Idle, LoopRecord
    <3>3. CASE ListContainersByLabel BY <1>0, <3>3 DEF ListContainersByLabel, LoopRecord
    <3>4. CASE recordServiceCounts BY <3>4 DEF recordServiceCounts, Idle
    <3>5. CASE \E pruned \in SUBSET {s \in Slots : tasks[s].last = "STOPPED"} :
                 reconcileOnce(pruned)
      BY <3>5 DEF reconcileOnce, Idle
    <3> QED BY <3>1, <3>2, <3>3, <3>4, <3>5 DEF Planned
  <2> QED BY <2>1 DEF GateRead
<1> QED BY <1>1, <1>2, <1>3 DEF Steady

LEMMA ActSteady ==
  ASSUME ShapeInv, NEW s \in Slots,
         stopServiceTasks(s) \/ NewTaskRecord(s) \/ LaunchSucceeds(s) \/ LaunchFails(s)
  PROVE  Steady
<1>1. UNCHANGED <<service, del, drained>> /\ nevents' \in {nevents, nevents + 1}
  BY DEF stopServiceTasks, NewTaskRecord, LaunchSucceeds, LaunchFails, LoopFrame, Event
<1>2. GateRead' => GateRead /\ loop'.gen = loop.gen
  BY ActLoop DEF GateRead
<1> QED BY <1>1, <1>2 DEF Steady

(* A service that is created is of a new generation. *)
LEMMA CreateGeneration ==
  ASSUME ShapeInv, Generations, NEW n, CreateService(n)
  PROVE  Generations'
<1>0. /\ nevents \in Nat /\ drained \subseteq Nat
      /\ \A d \in Deleters : del[d].gen \in Nat
  BY DEF ShapeInv, ServiceTypeOK, DeleteRecord
<1>1. /\ nevents' = nevents + 1 /\ UNCHANGED <<tasks, loop, del, drained>>
      /\ service' = [NoService EXCEPT !.status = "ACTIVE", !.desired = n, !.gen = nevents']
  BY DEF CreateService, Event
<1>2. service'.gen = nevents + 1
  BY <1>1 DEF NoService
<1>3. (\A g \in drained : g <= nevents) /\ \A d \in Deleters : del[d].gen <= nevents
  BY DEF Generations
<1>4. /\ service'.gen <= nevents' /\ \A g \in drained' : g <= nevents'
      /\ \A d \in Deleters : del'[d].gen <= nevents'
      /\ service'.gen \notin drained
      /\ \A d \in Deleters : del'[d].gen # service'.gen
  BY <1>0, <1>1, <1>2, <1>3
<1>5. DrainedIsQuiet' BY <1>1 DEF Generations, DrainedIsQuiet, GateRead, Live
<1>6. GateRead' => \A d \in Deleters : del'[d].pc = "drained" => del'[d].gen # loop'.gen
  BY <1>1 DEF Generations, GateRead
<1> QED BY <1>1, <1>4, <1>5, <1>6 DEF Generations

(* A launch is admitted for the generation that is active. *)
LEMMA AdmitGeneration ==
  ASSUME ShapeInv, Generations, Admit
  PROVE  Generations'
<1>0. loop \in LoopRecord BY DEF ShapeInv, ServiceTypeOK
<1>1. UNCHANGED <<service, tasks, del, drained, nevents>>
  BY DEF Admit, LoopFrame
<1>2. GateRead' => service.status = "ACTIVE" /\ loop'.gen = service.gen
  <2>1. CASE service.status = "ACTIVE"
    BY <1>0, <2>1 DEF Admit, LoopRecord
  <2>2. CASE service.status # "ACTIVE"
    <3>1. loop.pc = "act" /\ loop' = [loop EXCEPT !.launches = 0]
      BY <2>2 DEF Admit
    <3> QED BY <1>0, <3>1 DEF LoopRecord, GateRead
  <2> QED BY <2>1, <2>2
<1>3. GateRead' => /\ loop'.gen \notin drained
                   /\ \A d \in Deleters : del[d].pc = "drained" => del[d].gen # loop'.gen
  BY <1>2 DEF Generations
<1> QED BY <1>1, <1>3 DEF Generations, DrainedIsQuiet, Live

(* The steps of a deletion. *)
LEMMA DeleteGeneration ==
  ASSUME ShapeInv, Generations, NEW d \in Deleters,
         (\E force \in BOOLEAN : DeleteService(d, force)) \/ DrainStep(d)
  PROVE  Generations'
<1>0. /\ nevents \in Nat /\ drained \subseteq Nat /\ service \in ServiceRecord
      /\ del \in [Deleters -> DeleteRecord] /\ del[d].gen \in Nat /\ service.gen \in Nat
  BY DEF ShapeInv, ServiceTypeOK, DeleteRecord, ServiceRecord
<1>1. /\ UNCHANGED loop /\ (GateRead' <=> GateRead)
      /\ Live' \subseteq Live /\ \A s \in Live' : tasks'[s].gen = tasks[s].gen
  <2>1. Outside BY DEF Outside
  <2> QED BY <2>1, OutsideCalm, CalmSets DEF GateRead
<1>2. DrainedIsQuiet BY DEF Generations
<1>3. ASSUME UNCHANGED drained PROVE DrainedIsQuiet'
  BY <1>1, <1>2, <1>3 DEF DrainedIsQuiet
<1>4. /\ service.gen <= nevents /\ \A g \in drained : g <= nevents
      /\ \A c \in Deleters : del[c].gen <= nevents
  BY DEF Generations
<1>5. ASSUME NEW force \in BOOLEAN, DeleteService(d, force) PROVE Generations'
  <2>1. nevents' = nevents + 1 /\ UNCHANGED drained
    BY <1>5 DEF DeleteService, Event
  <2>2. CASE serviceTasksToDrain = {} /\ service.running = 0
    <3>1. UNCHANGED del /\ service'.status = "INACTIVE" /\ service'.gen = service.gen
      BY <1>5, <2>2 DEF DeleteService, tombstoneServiceLocked, NoService
    <3>2. Steady BY <1>1, <2>1, <3>1 DEF Steady
    <3> QED BY <1>1, <3>2, SteadyNext DEF ShapeInv
  <2>3. CASE ~(serviceTasksToDrain = {} /\ service.running = 0)
    <3>1. /\ service' = [service EXCEPT !.desired = 0, !.status = "DRAINING"]
          /\ del' = [del EXCEPT ![d] = [pc |-> "marked", def |-> service.def,
                                         gen |-> service.gen]]
      BY <1>5, <2>3 DEF DeleteService
    <3>2. service'.status = "DRAINING" /\ service'.gen = service.gen
      BY <1>0, <3>1 DEF ServiceRecord
    <3>3. \A c \in Deleters : /\ del'[c].gen \in {del[c].gen, service.gen}
                              /\ del'[c].pc = "drained" => del'[c] = del[c]
      BY <1>0, <3>1
    <3>4. /\ service'.gen <= nevents' /\ \A g \in drained' : g <= nevents'
          /\ \A c \in Deleters : del'[c].gen <= nevents'
      <4>1. \A c \in Deleters : del[c].gen \in Nat BY <1>0 DEF DeleteRecord
      <4>2. service'.gen <= nevents' BY <1>0, <1>4, <2>1, <3>2
      <4>3. \A g \in drained' : g <= nevents' BY <1>0, <1>4, <2>1
      <4>4. \A c \in Deleters : del'[c].gen <= nevents'
        BY <1>0, <1>4, <2>1, <3>3, <4>1
      <4> QED BY <4>2, <4>3, <4>4
    <3>5. GateRead' => \A c \in Deleters : del'[c].pc = "drained" => del'[c].gen # loop'.gen
      BY <1>1, <3>3 DEF Generations
    <3> QED BY <1>3, <2>1, <3>2, <3>4, <3>5 DEF Generations
  <2> QED BY <2>2, <2>3
<1>6. ASSUME UNCHANGED <<service, drained, nevents>>,
             \A c \in Deleters : /\ del'[c].gen \in {del[c].gen, 0}
                                 /\ del'[c].pc # "free" => del[c].pc # "free"
                                                           /\ del'[c].gen = del[c].gen
             , GateRead => \A c \in Deleters : del'[c].pc = "drained" => del[c].pc = "drained"
      PROVE  Generations'
  <2>1. \A c \in Deleters : del'[c].gen <= nevents'
    BY <1>0, <1>4, <1>6
  <2>2. GateRead' => \A c \in Deleters : del'[c].pc = "drained" => del'[c].gen # loop'.gen
    BY <1>1, <1>6 DEF Generations
  <2>3. DrainedIsQuiet' BY <1>3, <1>6
  <2> QED BY <1>6, <2>1, <2>2, <2>3 DEF Generations
<1>7. CASE DrainBegin(d)
  BY <1>0, <1>6, <1>7 DEF DrainBegin, DeleteRecord
<1>8. CASE waitServiceTasksStopped(d)
  <2>1. ~GateRead
    BY <1>8 DEF waitServiceTasksStopped, ShapeInv, LoopShaped, GateWritten
  <2> QED BY <1>0, <1>6, <1>8, <2>1 DEF waitServiceTasksStopped, DeleteRecord
<1>9. CASE DrainTimeout(d)
  BY <1>0, <1>6, <1>9 DEF DrainTimeout, NoDelete
<1>10. CASE DeleteEnd(d)
  <2>1. UNCHANGED nevents /\ del' = [del EXCEPT ![d] = NoDelete] /\ del[d].pc = "drained"
    BY <1>10 DEF DeleteEnd
  <2>2. \A c \in Deleters : /\ del'[c].gen \in {del[c].gen, 0}
                            /\ del'[c].pc # "free" => del'[c] = del[c]
    BY <1>0, <2>1 DEF NoDelete
  <2>3. CASE serviceTasksToDrain # {}
    BY <1>6, <1>10, <2>1, <2>2, <2>3 DEF DeleteEnd
  <2>4. CASE serviceTasksToDrain = {}
    <3>1. drained' = drained \cup {del[d].gen} /\ tombstoneServiceLocked(del[d])
      BY <1>10, <2>4 DEF DeleteEnd
    <3>2. service'.status = "INACTIVE" /\ service'.gen = del[d].gen
      BY <3>1 DEF tombstoneServiceLocked, NoService
    <3>3. Live = {}
      BY <2>4 DEF Live, ShapeInv, Shaped, serviceTasksToDrain, Recorded
    <3>4. GateRead => loop.gen # del[d].gen
      BY <2>1 DEF Generations
    <3>5. DrainedIsQuiet'
      BY <1>1, <1>2, <3>1, <3>3, <3>4 DEF DrainedIsQuiet
    <3>6. /\ service'.gen <= nevents' /\ \A g \in drained' : g <= nevents'
          /\ \A c \in Deleters : del'[c].gen <= nevents'
      BY <1>0, <1>4, <2>1, <2>2, <3>1, <3>2
    <3>7. GateRead' => \A c \in Deleters : del'[c].pc = "drained" => del'[c].gen # loop'.gen
      BY <1>1, <2>2 DEF Generations
    <3> QED BY <3>2, <3>5, <3>6, <3>7 DEF Generations
  <2> QED BY <2>3, <2>4
<1> QED BY <1>5, <1>7, <1>8, <1>9, <1>10 DEF DrainStep

LEMMA GenerationNext ==
  ASSUME ShapeInv, Generations, [ServiceNext]_svcVars
  PROVE  Generations'
<1>1. CASE Outside
  <2>1. Live' \subseteq Live /\ \A s \in Live' : tasks'[s].gen = tasks[s].gen
    BY <1>1, OutsideCalm, CalmSets
  <2>2. CASE \E n \in 0 .. MaxDesired : CreateService(n)
    BY <2>2, CreateGeneration
  <2>3. CASE \E d \in Deleters :
               (\E force \in BOOLEAN : DeleteService(d, force)) \/ DrainStep(d)
    BY <2>3, DeleteGeneration
  <2>4. CASE \/ CreateCluster \/ DeleteCluster \/ BackoffExpires
             \/ \E n \in 0 .. MaxDesired, def \in 1 .. MaxDef : UpdateService(n, def)
             \/ \E s \in Slots : StopTask(s) \/ ContainerExits(s) \/ TaskStep(s)
    BY <2>1, <2>4, OutsideSteady, SteadyNext DEF ShapeInv
  <2> QED BY <1>1, <2>2, <2>3, <2>4 DEF Outside
<1>2. CASE Planned
  <2>1. Live' \subseteq Live /\ \A s \in Live' : tasks'[s].gen = tasks[s].gen
    BY <1>2, PlannedCalm, CalmSets
  <2> QED BY <1>2, <2>1, AdmitGeneration, PlannedSteady, SteadyNext DEF ShapeInv
<1>3. CASE UNCHANGED svcVars
  BY <1>3 DEF svcVars, Generations, DrainedIsQuiet, Live, GateRead
<1>4. ASSUME NEW s \in Slots, stopServiceTasks(s) \/ NewTaskRecord(s) \/ LaunchFails(s)
      PROVE  Generations'
  <2>1. Steady BY <1>4, ActSteady
  <2>2. /\ \A r \in Slots \ {s} : tasks'[r] = tasks[r]
        /\ tasks'[s].live => tasks[s].live /\ tasks'[s].gen = tasks[s].gen
    BY <1>4, LaunchRecords, StopRecords
  <2>3. Live' \subseteq Live /\ \A r \in Live' : tasks'[r].gen = tasks[r].gen
    BY <2>2 DEF Live
  <2> QED BY <2>1, <2>3, SteadyNext DEF ShapeInv
<1>5. ASSUME NEW s \in Slots, LaunchSucceeds(s)
      PROVE  Generations'
  <2>1. Steady /\ ~GateRead' /\ GateRead BY <1>5, ActSteady, ActLoop DEF GateRead
  <2>2. /\ \A r \in Slots \ {s} : tasks'[r] = tasks[r]
        /\ tasks'[s].gen = loop.gen
    BY <1>5, LaunchRecords
  <2>3. /\ UNCHANGED <<service, del, drained, nevents>>
    BY <1>5 DEF LaunchSucceeds, LoopFrame
  <2>4. DrainedIsQuiet'
    BY <2>1, <2>2, <2>3 DEF Generations, DrainedIsQuiet, Live
  <2> QED BY <2>1, <2>3, <2>4 DEF Generations
<1> QED BY <1>1, <1>2, <1>3, <1>4, <1>5, Steps

(***************************************************************************)
(* The theorems                                                            *)
(***************************************************************************)
LEMMA IInvInit ==
  ASSUME ServiceInit
  PROVE  IInv
<1>1. ServiceTypeOK
  BY Constants DEF ServiceInit, ServiceTypeOK
<1>2. \A s \in Slots : Shaped(tasks[s])
  BY DEF ServiceInit, Shaped, NoTask, Gone
<1>3. LoopShaped
  BY DEF ServiceInit, LoopShaped, Idle, GateRead, Planning
<1>4. serviceTasksToDrain = {} /\ serviceActiveTasks = {} /\ Live = {}
  BY DEF ServiceInit, serviceActiveTasks, serviceTasksToDrain, Recorded, Live, NoTask
<1>5. Budgeted
  <2>1. Cardinality(serviceActiveTasks \ loop.slot) = 0 BY <1>4, FS_EmptySet
  <2> QED BY <2>1 DEF ServiceInit, Budgeted, NoService, Idle
<1>6. OneDefinition /\ RolloutTurn
  BY <1>4 DEF OneDefinition, RolloutTurn, ServiceInit, Idle
<1>7. Generations
  BY <1>4 DEF Generations, DrainedIsQuiet, ServiceInit, NoService, Idle, NoDelete, GateRead
<1> QED BY <1>1, <1>2, <1>3, <1>5, <1>6, <1>7 DEF IInv, ShapeInv

LEMMA IInvNext ==
  ASSUME IInv, [ServiceNext]_svcVars
  PROVE  IInv'
<1>1. ShapeInv' BY ShapeNext DEF IInv
<1> QED BY <1>1, BudgetNext, DefinitionNext, RolloutNext, GenerationNext DEF IInv

LEMMA Invariance ==
  ServiceSpec => []IInv
BY IInvInit, IInvNext, PTL DEF ServiceSpec

(* Type correctness of the scheduler's state: every record keeps the fields  *)
(* and values that service.go and runner.go give it.                         *)
THEOREM SchedulerType ==
  ServiceSpec => []ServiceTypeOK
<1>1. IInv => ServiceTypeOK BY DEF IInv, ShapeInv
<1> QED BY <1>1, Invariance, PTL

(* However passes, stops, exits, deletions and stale listings interleave,    *)
(* the tasks that count as capacity never outnumber the highest desired      *)
(* count asked for: what reconcileService still has to launch is counted     *)
(* with what is recorded.                                                    *)
THEOREM NeverOvershoots ==
  ServiceSpec => []NoSurplus
<1>1. ASSUME IInv PROVE NoSurplus
  <2>1. /\ loop \in LoopRecord /\ peak \in Nat
        /\ serviceActiveTasks \subseteq Slots
    BY <1>1 DEF IInv, ShapeInv, ServiceTypeOK, serviceActiveTasks, serviceTasksToDrain, Recorded
  <2>2. Cardinality(serviceActiveTasks \ loop.slot) + loop.launches <= peak
    BY <1>1 DEF IInv, Budgeted
  <2>3. Cardinality(serviceActiveTasks \ loop.slot) \in Nat
    <3>1. serviceActiveTasks \ loop.slot \subseteq Slots BY <2>1
    <3> QED BY <3>1, Sizes
  <2>4. CASE loop.pc # "recorded"
    <3>1. serviceActiveTasks \ loop.slot = serviceActiveTasks
      BY <1>1, <2>4 DEF IInv, ShapeInv, LoopShaped
    <3> QED BY <2>1, <2>2, <2>3, <3>1 DEF NoSurplus, LoopRecord
  <2>5. CASE loop.pc = "recorded"
    <3>1. PICK s \in Slots : loop.slot = {s}
      BY <1>1, <2>5 DEF IInv, ShapeInv, LoopShaped
    <3>2. loop.launches > 0 BY <1>1, <2>5 DEF IInv, ShapeInv, LoopShaped, GateRead
    <3>3. Cardinality(serviceActiveTasks) <= Cardinality(serviceActiveTasks \ loop.slot) + 1
      <4>1. IsFiniteSet(serviceActiveTasks) BY <2>1, Sizes
      <4>2. CASE s \in serviceActiveTasks
        <5>1. Cardinality(serviceActiveTasks \ {s}) = Cardinality(serviceActiveTasks) - 1
          BY <4>1, <4>2, FS_RemoveElement
        <5>2. Cardinality(serviceActiveTasks) \in Nat BY <4>1, FS_CardinalityType
        <5> QED BY <3>1, <5>1, <5>2
      <4>3. CASE s \notin serviceActiveTasks
        <5>1. serviceActiveTasks \ loop.slot = serviceActiveTasks BY <3>1, <4>3
        <5>2. Cardinality(serviceActiveTasks \ loop.slot) = Cardinality(serviceActiveTasks)
          BY <5>1
        <5> QED BY <2>3, <5>2
      <4> QED BY <4>2, <4>3
    <3>4. Cardinality(serviceActiveTasks) \in Nat BY <2>1, Sizes
    <3> QED BY <2>1, <2>2, <2>3, <3>2, <3>3, <3>4 DEF NoSurplus, LoopRecord
  <2> QED BY <2>4, <2>5
<1> QED BY <1>1, Invariance, PTL

(* Whatever was admitted when a deletion began, a service that it drained    *)
(* has nothing running and nothing coming: launchTaskWithPayload and         *)
(* DrainService meet at the gate, and a generation is never active again.    *)
THEOREM DrainsForGood ==
  ServiceSpec => []DrainedIsQuiet
<1>1. IInv => DrainedIsQuiet BY DEF IInv, Generations
<1> QED BY <1>1, Invariance, PTL

(* The rollout gate holds with any number of tasks, and across updates,      *)
(* deletions and a service created again under an older definition: two      *)
(* tasks that a rolling deployment stopped never run at the same time.       *)
THEOREM RolloutsTakeTurns ==
  ServiceSpec => []RolloutOneAtATime
<1>1. ASSUME IInv PROVE RolloutOneAtATime
  <2> DEFINE R == {s \in Live : tasks[s].rollout}
  <2>1. \A s, u \in R : s = u BY <1>1 DEF IInv, RolloutTurn
  <2>2. CASE R = {}
    BY <2>2, FS_EmptySet DEF RolloutOneAtATime
  <2>3. CASE R # {}
    <3>1. PICK s : R = {s} BY <2>1, <2>3
    <3>2. Cardinality(R) = 1 BY <3>1, FS_Singleton
    <3> QED BY <3>2 DEF RolloutOneAtATime
  <2> QED BY <2>2, <2>3
<1> QED BY <1>1, Invariance, PTL

(* The tasks that are not over always share one definition: a pass launches   *)
(* only when every older task is gone (the reason the rollout gate works).    *)
THEOREM DefinitionsDoNotMix ==
  ServiceSpec => []OneDefinition
<1>1. IInv => OneDefinition BY DEF IInv
<1> QED BY <1>1, Invariance, PTL
=============================================================================
