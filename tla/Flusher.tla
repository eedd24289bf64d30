------------------------------ MODULE Flusher ------------------------------
(***************************************************************************)
(* The write-behind loop of internal/persist/flusher.go, one per JSON      *)
(* snapshot store.  The store's contents are abstracted to a version       *)
(* number: mem is the version in memory, disk the version of the snapshot  *)
(* file.  Writers are the goroutines that mutate the store and then call   *)
(* Dirty.Store(true); Flush runs in the background loop, in Close and in    *)
(* any goroutine that calls the exported Flush.                            *)
(***************************************************************************)
EXTENDS Naturals

CONSTANTS
  Writers,         \* goroutines that mutate the store
  Flushers,        \* goroutines that call the exported Flush
  MaxVersion,      \* bound: number of mutations explored
  MaxFailures,     \* bound: number of failed snapshot writes explored
  RemarkOnFailure  \* TRUE: the SQS store, which re-marks itself after a failed
                   \* write; FALSE: the eleven stores that drop the error

Loop == "loop"
Closer == "closer"
NoProc == "none"

ASSUME FlusherAssumption ==
  /\ MaxVersion \in Nat
  /\ MaxFailures \in Nat
  /\ RemarkOnFailure \in BOOLEAN
  /\ {Loop, Closer, NoProc} \cap (Flushers \cup Writers) = {}

Procs == Flushers \cup {Loop, Closer}

VARIABLES
  mem,       \* version of the in-memory state
  disk,      \* version of the snapshot file
  flag,      \* Dirty.flag
  kick,      \* a token is in the kick channel (capacity 1)
  wpc, wver, \* per writer: where it is, and the version its mutation made
  acked,     \* newest version whose writer has returned to its caller
  holder,    \* which process holds Flusher.mu
  pc, snap,  \* per flushing process: where it is, and what it captured
  stop,      \* the stop channel is closed
  atClose,   \* acked when Close was called
  failures,  \* failed writes so far
  lastWrite  \* how the latest write ended

vars == <<mem, disk, flag, kick, wpc, wver, acked, holder, pc, snap, stop,
          atClose, failures, lastWrite>>

FlushPC == {"lock", "capture", "commit", "rekick"}
CriticalPC == FlushPC \ {"lock"}
LoopPC == {"wait", "delay", "check", "exit"} \cup FlushPC
CloserPC == {"idle", "join", "check", "closed"} \cup FlushPC
CallerPC == {"idle"} \cup FlushPC

TypeOK ==
  /\ mem \in Nat /\ disk \in Nat /\ acked \in Nat /\ atClose \in Nat
  /\ failures \in Nat
  /\ flag \in BOOLEAN /\ kick \in BOOLEAN /\ stop \in BOOLEAN
  /\ lastWrite \in {"ok", "failed"}
  /\ wpc \in [Writers -> {"idle", "mark", "kick"}]
  /\ wver \in [Writers -> Nat]
  /\ holder \in Procs \cup {NoProc}
  /\ pc \in [Procs -> LoopPC \cup CloserPC \cup CallerPC]
  /\ pc[Loop] \in LoopPC /\ pc[Closer] \in CloserPC
  /\ \A f \in Flushers : pc[f] \in CallerPC
  /\ snap \in [Procs -> Nat]

(* startFlusher: a store marked dirty while it was being loaded starts with *)
(* its token already in the channel.                                        *)
Init ==
  /\ \/ mem = 0 /\ flag = FALSE /\ kick = FALSE
     \/ mem = 1 /\ flag = TRUE /\ kick = TRUE
  /\ disk = 0
  /\ wpc = [w \in Writers |-> "idle"] /\ wver = [w \in Writers |-> 0]
  /\ acked = mem
  /\ holder = NoProc
  /\ pc = [p \in Procs |-> IF p = Loop THEN "wait" ELSE "idle"]
  /\ snap = [p \in Procs |-> 0]
  /\ stop = FALSE /\ atClose = 0 /\ failures = 0 /\ lastWrite = "ok"

(***************************************************************************)
(* Dirty.Store(true) on a writer's goroutine, after its mutation.          *)
(***************************************************************************)
Mutate(w) ==
  /\ wpc[w] = "idle" /\ mem < MaxVersion
  /\ mem' = mem + 1
  /\ wver' = [wver EXCEPT ![w] = mem + 1]
  /\ wpc' = [wpc EXCEPT ![w] = "mark"]
  /\ UNCHANGED <<disk, flag, kick, acked, holder, pc, snap, stop, atClose, failures, lastWrite>>

Acknowledge(w) == acked' = IF wver[w] > acked THEN wver[w] ELSE acked

(* flag.Swap(true): only the caller that found the flag clear sends a kick. *)
Swap(w) ==
  /\ wpc[w] = "mark"
  /\ flag' = TRUE
  /\ IF flag
       THEN wpc' = [wpc EXCEPT ![w] = "idle"] /\ Acknowledge(w)
       ELSE wpc' = [wpc EXCEPT ![w] = "kick"] /\ UNCHANGED acked
  /\ UNCHANGED <<mem, disk, kick, wver, holder, pc, snap, stop, atClose, failures, lastWrite>>

(* The non-blocking send: a full channel already holds the wake-up. *)
Kick(w) ==
  /\ wpc[w] = "kick"
  /\ kick' = TRUE
  /\ wpc' = [wpc EXCEPT ![w] = "idle"]
  /\ Acknowledge(w)
  /\ UNCHANGED <<mem, disk, flag, wver, holder, pc, snap, stop, atClose, failures, lastWrite>>

(***************************************************************************)
(* Flush, on whichever goroutine p calls it.                               *)
(***************************************************************************)
AfterFlush(p) == CASE p = Loop -> "wait" [] p = Closer -> "closed" [] OTHER -> "idle"

CallFlush(f) ==
  /\ pc[f] = "idle"
  /\ pc' = [pc EXCEPT ![f] = "lock"]
  /\ UNCHANGED <<mem, disk, flag, kick, wpc, wver, acked, holder, snap, stop, atClose, failures, lastWrite>>

(* Mutant: writes are not serialised. *)
FlushLockUnserialised(p) ==
  /\ pc[p] = "lock"
  /\ holder' = p
  /\ flag' = FALSE
  /\ pc' = [pc EXCEPT ![p] = "capture"]
  /\ UNCHANGED <<mem, disk, kick, wpc, wver, acked, snap, stop, atClose, failures, lastWrite>>

(* f.mu.Lock(); f.dirty.Store(false) *)
FlushLock(p) ==
  /\ pc[p] = "lock" /\ holder = NoProc
  /\ holder' = p
  /\ flag' = FALSE
  /\ pc' = [pc EXCEPT ![p] = "capture"]
  /\ UNCHANGED <<mem, disk, kick, wpc, wver, acked, snap, stop, atClose, failures, lastWrite>>

(* write() reads the store under its read lock ... *)
FlushCapture(p) ==
  /\ pc[p] = "capture"
  /\ snap' = [snap EXCEPT ![p] = mem]
  /\ pc' = [pc EXCEPT ![p] = "commit"]
  /\ UNCHANGED <<mem, disk, flag, kick, wpc, wver, acked, holder, stop, atClose, failures, lastWrite>>

(* Mutant: the flag is cleared after the write instead of before it. *)
FlushCommitClearsAfter(p) ==
  /\ pc[p] = "commit"
  /\ disk' = snap[p]
  /\ flag' = FALSE
  /\ lastWrite' = "ok"
  /\ holder' = NoProc
  /\ pc' = [pc EXCEPT ![p] = AfterFlush(p)]
  /\ UNCHANGED <<mem, kick, wpc, wver, acked, snap, stop, atClose, failures>>

(* ... and renames the encoded temporary file over the snapshot. *)
FlushCommit(p) ==
  /\ pc[p] = "commit"
  /\ disk' = snap[p]
  /\ lastWrite' = "ok"
  /\ holder' = NoProc
  /\ pc' = [pc EXCEPT ![p] = AfterFlush(p)]
  /\ UNCHANGED <<mem, flag, kick, wpc, wver, acked, snap, stop, atClose, failures>>

(* Mutant: a failed write is not re-marked. *)
FlushFailSilent(p) ==
  /\ pc[p] = "commit" /\ failures < MaxFailures
  /\ failures' = failures + 1
  /\ lastWrite' = "failed"
  /\ pc' = [pc EXCEPT ![p] = AfterFlush(p)] /\ holder' = NoProc
  /\ UNCHANGED <<mem, disk, flag, kick, wpc, wver, acked, snap, stop, atClose>>

(* Mutant: a failed write returns without unlocking Flusher.mu. *)
FlushFailKeepsLock(p) ==
  /\ pc[p] = "commit" /\ failures < MaxFailures
  /\ failures' = failures + 1
  /\ lastWrite' = "failed"
  /\ flag' = TRUE /\ kick' = TRUE
  /\ pc' = [pc EXCEPT ![p] = AfterFlush(p)]
  /\ UNCHANGED <<mem, disk, wpc, wver, acked, holder, snap, stop, atClose>>

(* Creating, writing or renaming the temporary file failed. *)
FlushFail(p) ==
  /\ pc[p] = "commit" /\ failures < MaxFailures
  /\ failures' = failures + 1
  /\ lastWrite' = "failed"
  /\ flag' = (flag \/ RemarkOnFailure)
  /\ IF RemarkOnFailure /\ ~flag
       THEN pc' = [pc EXCEPT ![p] = "rekick"] /\ UNCHANGED holder
       ELSE pc' = [pc EXCEPT ![p] = AfterFlush(p)] /\ holder' = NoProc
  /\ UNCHANGED <<mem, disk, kick, wpc, wver, acked, snap, stop, atClose>>

FlushRekick(p) ==
  /\ pc[p] = "rekick"
  /\ kick' = TRUE
  /\ holder' = NoProc
  /\ pc' = [pc EXCEPT ![p] = AfterFlush(p)]
  /\ UNCHANGED <<mem, disk, flag, wpc, wver, acked, snap, stop, atClose, failures, lastWrite>>

Flush(p) ==
  \/ FlushLock(p) \/ FlushCapture(p) \/ FlushCommit(p)
  \/ FlushFail(p) \/ FlushRekick(p)

(***************************************************************************)
(* The background loop: Flusher.run.                                       *)
(***************************************************************************)
LoopGoto(from, to) ==
  /\ pc[Loop] = from
  /\ pc' = [pc EXCEPT ![Loop] = to]

LoopKicked ==
  /\ LoopGoto("wait", "delay")
  /\ kick /\ kick' = FALSE
  /\ UNCHANGED <<mem, disk, flag, wpc, wver, acked, holder, snap, stop, atClose, failures, lastWrite>>

LoopTimer ==
  /\ LoopGoto("delay", "check")
  /\ UNCHANGED <<mem, disk, flag, kick, wpc, wver, acked, holder, snap, stop, atClose, failures, lastWrite>>

LoopCheck ==
  /\ LoopGoto("check", IF flag THEN "lock" ELSE "wait")
  /\ UNCHANGED <<mem, disk, flag, kick, wpc, wver, acked, holder, snap, stop, atClose, failures, lastWrite>>

(* Both selects of run watch stop. *)
LoopStop ==
  /\ stop
  /\ \E from \in {"wait", "delay"} : LoopGoto(from, "exit")
  /\ UNCHANGED <<mem, disk, flag, kick, wpc, wver, acked, holder, snap, stop, atClose, failures, lastWrite>>

(***************************************************************************)
(* Close: stop the loop, wait for it, write what is still unsaved.         *)
(***************************************************************************)
CloseCall ==
  /\ pc[Closer] = "idle"
  /\ stop' = TRUE
  /\ atClose' = acked
  /\ pc' = [pc EXCEPT ![Closer] = "join"]
  /\ UNCHANGED <<mem, disk, flag, kick, wpc, wver, acked, holder, snap, failures, lastWrite>>

CloseJoin ==
  /\ pc[Closer] = "join" /\ pc[Loop] = "exit"
  /\ pc' = [pc EXCEPT ![Closer] = "check"]
  /\ UNCHANGED <<mem, disk, flag, kick, wpc, wver, acked, holder, snap, stop, atClose, failures, lastWrite>>

CloseCheck ==
  /\ pc[Closer] = "check"
  /\ pc' = [pc EXCEPT ![Closer] = IF flag THEN "lock" ELSE "closed"]
  /\ UNCHANGED <<mem, disk, flag, kick, wpc, wver, acked, holder, snap, stop, atClose, failures, lastWrite>>

Next ==
  \/ \E w \in Writers : Mutate(w) \/ Swap(w) \/ Kick(w)
  \/ \E f \in Flushers : CallFlush(f)
  \/ \E p \in Procs : Flush(p)
  \/ LoopKicked \/ LoopTimer \/ LoopCheck \/ LoopStop
  \/ CloseCall \/ CloseJoin \/ CloseCheck

(* A goroutine that can run is scheduled, timers fire and Lock is granted. *)
(* Mutating, calling Flush and calling Close are the callers' choices.     *)
Fairness ==
  /\ \A w \in Writers : WF_vars(Swap(w)) /\ WF_vars(Kick(w))
  /\ \A p \in Procs : SF_vars(FlushLock(p))
                      /\ WF_vars(FlushCapture(p) \/ FlushCommit(p) \/ FlushFail(p) \/ FlushRekick(p))
  /\ WF_vars(LoopKicked) /\ WF_vars(LoopTimer) /\ WF_vars(LoopCheck) /\ WF_vars(LoopStop)
  /\ WF_vars(CloseJoin) /\ WF_vars(CloseCheck)

Spec == Init /\ [][Next]_vars

FairSpec == Spec /\ Fairness

(***************************************************************************)
(* Properties                                                              *)
(***************************************************************************)
(* A store that is marked dirty, with no goroutine still about to send its *)
(* kick, always has a wake-up on its way: a token in the channel or a loop *)
(* already past it.  Losing it would leave the change in memory until the  *)
(* next one (Dirty.Store skips the send when the flag is already set).     *)
MarkedIsScheduled ==
  flag /\ ~stop
       /\ (\A w \in Writers : wpc[w] # "kick")
       /\ (\A p \in Procs : pc[p] # "rekick")
    => kick \/ pc[Loop] \in {"delay", "check", "lock"}

(* version v is safe: saved, marked for saving, or in the write in progress *)
Covered(v) ==
  \/ v <= disk
  \/ flag
  \/ \E p \in Procs : \/ pc[p] = "capture"
                      \/ pc[p] = "commit" /\ v <= snap[p]

(* Every change whose caller has been answered is saved, marked, or part of *)
(* the snapshot being written, unless the last write failed: clearing the   *)
(* flag before the write (Flush) never forgets a change made during it.     *)
AckedIsCovered == lastWrite = "ok" => Covered(acked)

(* When Close has returned, every change acknowledged before Close was      *)
(* called is in the snapshot file, provided no other goroutine is still     *)
(* inside Flush (Close does not wait for it) and the last write succeeded.  *)
ClosedMeansSaved ==
  (pc[Closer] = "closed" /\ lastWrite = "ok" /\ \A f \in Flushers : pc[f] = "idle")
    => atClose <= disk

File == INSTANCE SnapshotFile WITH latest <- mem, file <- disk

(* The flusher implements the snapshot file of SnapshotFile: Flusher.mu     *)
(* serialises the writes, so whichever of the loop, Close and the callers   *)
(* of Flush comes last, the file holds a captured version and an older      *)
(* snapshot never replaces a newer one.                                     *)
ImplementsFile == File!Spec

(* A re-marked store keeps retrying: every acknowledged change reaches the *)
(* disk unless the flusher is closed.                                      *)
EventuallySaved ==
  \A v \in 1..MaxVersion : (acked >= v) ~> (disk >= v \/ stop)

(* Close always returns, whatever the loop, the writers and the callers of *)
(* Flush were doing.                                                       *)
CloseReturns == stop ~> (pc[Closer] = "closed")
=============================================================================
