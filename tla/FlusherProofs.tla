--------------------------- MODULE FlusherProofs ---------------------------
(***************************************************************************)
(* Proofs about Flusher, for any number of writers, of Flush callers, of    *)
(* mutations and of failed writes.  The inductive invariant IInv is the     *)
(* type invariant with four facts: Flusher.mu is a lock, what a process     *)
(* captured while holding it is no older than the file, a mark is never     *)
(* lost, and what Close leaves behind.                                      *)
(***************************************************************************)
EXTENDS Flusher, TLAPS

(* Only the holder of Flusher.mu is between Lock and Unlock. *)
MutexInv == \A p \in Procs : pc[p] \in CriticalPC <=> holder = p

(* Captured snapshots lie between the file and the memory. *)
SnapInv ==
  /\ disk <= mem /\ acked <= mem
  /\ \A w \in Writers : wver[w] <= mem
  /\ \A p \in Procs : snap[p] <= mem /\ (pc[p] = "commit" => disk <= snap[p])

(* A version handed to Dirty.Store is still to be written, or in the write. *)
Marked(v) ==
  /\ \A p \in Procs : pc[p] = "commit" => flag \/ v <= snap[p]
  /\ lastWrite = "ok" => Covered(v)

CoverInv ==
  /\ Marked(acked)
  /\ \A w \in Writers : wpc[w] = "kick" => Marked(wver[w])

(* What holds once Close is past its wait for the loop. *)
CloseInv ==
  /\ atClose <= acked
  /\ pc[Closer] = "idle" <=> ~stop
  /\ pc[Closer] \notin {"idle", "join"} => pc[Loop] = "exit"
  /\ pc[Closer] = "commit" => atClose <= snap[Closer]
  /\ pc[Closer] = "rekick" => lastWrite = "failed"
  /\ pc[Closer] = "closed" =>
       /\ \A p \in Procs : pc[p] = "commit" => atClose <= snap[p]
       /\ lastWrite = "ok" =>
            \/ atClose <= disk
            \/ \E p \in Procs : pc[p] \in {"capture", "commit"}

IInv == TypeOK /\ MutexInv /\ SnapInv /\ CoverInv /\ CloseInv

LEMMA InitIInv == Init => IInv
<1> SUFFICES ASSUME Init PROVE IInv OBVIOUS
<1> USE FlusherAssumption DEF Init, Procs, Loop, Closer, NoProc
<1>1. TypeOK
  <2>1. pc \in [Procs -> {"wait", "idle"}] /\ pc[Loop] = "wait" /\ pc[Closer] = "idle"
        /\ \A f \in Flushers : pc[f] = "idle"
    OBVIOUS
  <2>2. (mem = 0 \/ mem = 1) /\ (flag = FALSE \/ flag = TRUE) /\ (kick = FALSE \/ kick = TRUE)
    BY Zenon
  <2>3. flag \in BOOLEAN /\ kick \in BOOLEAN /\ stop \in BOOLEAN
    BY <2>2, Zenon
  <2>4. mem \in Nat /\ acked \in Nat
    BY <2>2
  <2> QED BY <2>1, <2>3, <2>4 DEF TypeOK, LoopPC, CloserPC, CallerPC, FlushPC
<1>2. MutexInv
  BY DEF MutexInv, CriticalPC, FlushPC
<1>3. SnapInv
  BY DEF SnapInv
<1>4. CoverInv
  BY DEF CoverInv, Marked, Covered
<1>5. CloseInv
  BY DEF CloseInv
<1> QED BY <1>1, <1>2, <1>3, <1>4, <1>5 DEF IInv

(* What a process does when its Flush returns. *)
LEMMA AfterFlushType ==
  ASSUME NEW p \in Procs
  PROVE  /\ p = Loop => AfterFlush(p) = "wait"
         /\ p = Closer => AfterFlush(p) = "closed"
         /\ p \in Flushers => AfterFlush(p) = "idle"
BY FlusherAssumption DEF AfterFlush, Procs, Loop, Closer

LEMMA TypeStep == IInv /\ [Next]_vars => TypeOK'
<1> SUFFICES ASSUME IInv, [Next]_vars PROVE TypeOK' OBVIOUS
<1> USE FlusherAssumption DEF IInv, TypeOK, Procs, Loop, Closer, NoProc, LoopPC, CloserPC, CallerPC, FlushPC
<1>1. ASSUME NEW w \in Writers, Mutate(w) PROVE TypeOK' BY <1>1 DEF Mutate
<1>2. ASSUME NEW w \in Writers, Swap(w) PROVE TypeOK' BY <1>2 DEF Swap, Acknowledge
<1>3. ASSUME NEW w \in Writers, Kick(w) PROVE TypeOK' BY <1>3 DEF Kick, Acknowledge
<1>4. ASSUME NEW f \in Flushers, CallFlush(f) PROVE TypeOK' BY <1>4 DEF CallFlush
<1>5. ASSUME NEW p \in Procs, FlushLock(p) PROVE TypeOK' BY <1>5 DEF FlushLock
<1>6. ASSUME NEW p \in Procs, FlushCapture(p) PROVE TypeOK' BY <1>6 DEF FlushCapture
<1>7. ASSUME NEW p \in Procs, FlushCommit(p) PROVE TypeOK'
  BY <1>7, AfterFlushType DEF FlushCommit
<1>8. ASSUME NEW p \in Procs, FlushFail(p) PROVE TypeOK'
  BY <1>8, AfterFlushType DEF FlushFail
<1>9. ASSUME NEW p \in Procs, FlushRekick(p) PROVE TypeOK'
  BY <1>9, AfterFlushType DEF FlushRekick
<1>10. CASE LoopKicked BY <1>10 DEF LoopKicked, LoopGoto
<1>11. CASE LoopTimer BY <1>11 DEF LoopTimer, LoopGoto
<1>12. CASE LoopCheck BY <1>12 DEF LoopCheck, LoopGoto
<1>13. CASE LoopStop BY <1>13 DEF LoopStop, LoopGoto
<1>14. CASE CloseCall BY <1>14 DEF CloseCall
<1>15. CASE CloseJoin BY <1>15 DEF CloseJoin
<1>16. CASE CloseCheck BY <1>16 DEF CloseCheck
<1>17. CASE UNCHANGED vars BY <1>17 DEF vars
<1> QED
  BY <1>1, <1>2, <1>3, <1>4, <1>5, <1>6, <1>7, <1>8, <1>9, <1>10, <1>11, <1>12,
     <1>13, <1>14, <1>15, <1>16, <1>17 DEF Next, Flush

LEMMA MutexStep == IInv /\ [Next]_vars => MutexInv'
<1> SUFFICES ASSUME IInv, [Next]_vars PROVE MutexInv' OBVIOUS
<1>t. TypeOK' BY TypeStep
<1> USE FlusherAssumption DEF IInv, TypeOK, Procs, Loop, Closer, NoProc, MutexInv, CriticalPC, FlushPC
<1>1. ASSUME NEW w \in Writers, Mutate(w) PROVE MutexInv' BY <1>1, <1>t DEF Mutate
<1>2. ASSUME NEW w \in Writers, Swap(w) PROVE MutexInv' BY <1>2, <1>t DEF Swap, Acknowledge
<1>3. ASSUME NEW w \in Writers, Kick(w) PROVE MutexInv' BY <1>3, <1>t DEF Kick, Acknowledge
<1>4. ASSUME NEW f \in Flushers, CallFlush(f) PROVE MutexInv' BY <1>4, <1>t DEF CallFlush
<1>5. ASSUME NEW p \in Procs, FlushLock(p) PROVE MutexInv' BY <1>5, <1>t DEF FlushLock
<1>6. ASSUME NEW p \in Procs, FlushCapture(p) PROVE MutexInv' BY <1>6, <1>t DEF FlushCapture
<1>7. ASSUME NEW p \in Procs, FlushCommit(p) PROVE MutexInv'
  BY <1>7, <1>t, AfterFlushType DEF FlushCommit
<1>8. ASSUME NEW p \in Procs, FlushFail(p) PROVE MutexInv'
  BY <1>8, <1>t, AfterFlushType DEF FlushFail
<1>9. ASSUME NEW p \in Procs, FlushRekick(p) PROVE MutexInv'
  BY <1>9, <1>t, AfterFlushType DEF FlushRekick
<1>10. CASE LoopKicked BY <1>10, <1>t DEF LoopKicked, LoopGoto
<1>11. CASE LoopTimer BY <1>11, <1>t DEF LoopTimer, LoopGoto
<1>12. CASE LoopCheck BY <1>12, <1>t DEF LoopCheck, LoopGoto
<1>13. CASE LoopStop BY <1>13, <1>t DEF LoopStop, LoopGoto
<1>14. CASE CloseCall BY <1>14, <1>t DEF CloseCall
<1>15. CASE CloseJoin BY <1>15, <1>t DEF CloseJoin
<1>16. CASE CloseCheck BY <1>16, <1>t DEF CloseCheck
<1>17. CASE UNCHANGED vars BY <1>17, <1>t DEF vars
<1> QED
  BY <1>1, <1>2, <1>3, <1>4, <1>5, <1>6, <1>7, <1>8, <1>9, <1>10, <1>11, <1>12,
     <1>13, <1>14, <1>15, <1>16, <1>17 DEF Next, Flush

LEMMA SnapStep == IInv /\ [Next]_vars => SnapInv'
<1> SUFFICES ASSUME IInv, [Next]_vars PROVE SnapInv' OBVIOUS
<1>t. TypeOK' BY TypeStep
<1> USE FlusherAssumption DEF IInv, TypeOK, Procs, Loop, Closer, NoProc, SnapInv, MutexInv, CriticalPC, FlushPC
<1>1. ASSUME NEW w \in Writers, Mutate(w) PROVE SnapInv' BY <1>1, <1>t DEF Mutate
<1>2. ASSUME NEW w \in Writers, Swap(w) PROVE SnapInv' BY <1>2, <1>t DEF Swap, Acknowledge
<1>3. ASSUME NEW w \in Writers, Kick(w) PROVE SnapInv' BY <1>3, <1>t DEF Kick, Acknowledge
<1>4. ASSUME NEW f \in Flushers, CallFlush(f) PROVE SnapInv' BY <1>4, <1>t DEF CallFlush
<1>5. ASSUME NEW p \in Procs, FlushLock(p) PROVE SnapInv' BY <1>5, <1>t DEF FlushLock
<1>6. ASSUME NEW p \in Procs, FlushCapture(p) PROVE SnapInv' BY <1>6, <1>t DEF FlushCapture
<1>7. ASSUME NEW p \in Procs, FlushCommit(p) PROVE SnapInv'
  BY <1>7, <1>t, AfterFlushType DEF FlushCommit
<1>8. ASSUME NEW p \in Procs, FlushFail(p) PROVE SnapInv'
  BY <1>8, <1>t, AfterFlushType DEF FlushFail
<1>9. ASSUME NEW p \in Procs, FlushRekick(p) PROVE SnapInv'
  BY <1>9, <1>t, AfterFlushType DEF FlushRekick
<1>10. CASE LoopKicked BY <1>10, <1>t DEF LoopKicked, LoopGoto
<1>11. CASE LoopTimer BY <1>11, <1>t DEF LoopTimer, LoopGoto
<1>12. CASE LoopCheck BY <1>12, <1>t DEF LoopCheck, LoopGoto
<1>13. CASE LoopStop BY <1>13, <1>t DEF LoopStop, LoopGoto
<1>14. CASE CloseCall BY <1>14, <1>t DEF CloseCall
<1>15. CASE CloseJoin BY <1>15, <1>t DEF CloseJoin
<1>16. CASE CloseCheck BY <1>16, <1>t DEF CloseCheck
<1>17. CASE UNCHANGED vars BY <1>17, <1>t DEF vars
<1> QED
  BY <1>1, <1>2, <1>3, <1>4, <1>5, <1>6, <1>7, <1>8, <1>9, <1>10, <1>11, <1>12,
     <1>13, <1>14, <1>15, <1>16, <1>17 DEF Next, Flush

LEMMA CoverStep == IInv /\ [Next]_vars => CoverInv'
<1> SUFFICES ASSUME IInv, [Next]_vars PROVE CoverInv' OBVIOUS
<1>t. TypeOK' BY TypeStep
<1> USE FlusherAssumption DEF IInv, TypeOK, Procs, Loop, Closer, NoProc, CoverInv, Marked, Covered, SnapInv, MutexInv, CriticalPC, FlushPC
<1>1. ASSUME NEW w \in Writers, Mutate(w) PROVE CoverInv' BY <1>1, <1>t DEF Mutate
<1>2. ASSUME NEW w \in Writers, Swap(w) PROVE CoverInv' BY <1>2, <1>t DEF Swap, Acknowledge
<1>3. ASSUME NEW w \in Writers, Kick(w) PROVE CoverInv' BY <1>3, <1>t DEF Kick, Acknowledge
<1>4. ASSUME NEW f \in Flushers, CallFlush(f) PROVE CoverInv' BY <1>4, <1>t DEF CallFlush
<1>5. ASSUME NEW p \in Procs, FlushLock(p) PROVE CoverInv' BY <1>5, <1>t DEF FlushLock
<1>6. ASSUME NEW p \in Procs, FlushCapture(p) PROVE CoverInv' BY <1>6, <1>t DEF FlushCapture
<1>7. ASSUME NEW p \in Procs, FlushCommit(p) PROVE CoverInv'
  BY <1>7, <1>t, AfterFlushType DEF FlushCommit
<1>8. ASSUME NEW p \in Procs, FlushFail(p) PROVE CoverInv'
  BY <1>8, <1>t, AfterFlushType DEF FlushFail
<1>9. ASSUME NEW p \in Procs, FlushRekick(p) PROVE CoverInv'
  BY <1>9, <1>t, AfterFlushType DEF FlushRekick
<1>10. CASE LoopKicked BY <1>10, <1>t DEF LoopKicked, LoopGoto
<1>11. CASE LoopTimer BY <1>11, <1>t DEF LoopTimer, LoopGoto
<1>12. CASE LoopCheck BY <1>12, <1>t DEF LoopCheck, LoopGoto
<1>13. CASE LoopStop BY <1>13, <1>t DEF LoopStop, LoopGoto
<1>14. CASE CloseCall BY <1>14, <1>t DEF CloseCall
<1>15. CASE CloseJoin BY <1>15, <1>t DEF CloseJoin
<1>16. CASE CloseCheck BY <1>16, <1>t DEF CloseCheck
<1>17. CASE UNCHANGED vars BY <1>17, <1>t DEF vars
<1> QED
  BY <1>1, <1>2, <1>3, <1>4, <1>5, <1>6, <1>7, <1>8, <1>9, <1>10, <1>11, <1>12,
     <1>13, <1>14, <1>15, <1>16, <1>17 DEF Next, Flush

LEMMA CloseStep == IInv /\ [Next]_vars => CloseInv'
<1> SUFFICES ASSUME IInv, [Next]_vars PROVE CloseInv' OBVIOUS
<1>t. TypeOK' BY TypeStep
<1> USE FlusherAssumption DEF IInv, TypeOK, Procs, Loop, Closer, NoProc, CloseInv, CoverInv, Marked, Covered, SnapInv, MutexInv, CriticalPC, FlushPC, LoopPC, CloserPC, CallerPC
<1>1. ASSUME NEW w \in Writers, Mutate(w) PROVE CloseInv' BY <1>1, <1>t DEF Mutate
<1>2. ASSUME NEW w \in Writers, Swap(w) PROVE CloseInv' BY <1>2, <1>t DEF Swap, Acknowledge
<1>3. ASSUME NEW w \in Writers, Kick(w) PROVE CloseInv' BY <1>3, <1>t DEF Kick, Acknowledge
<1>4. ASSUME NEW f \in Flushers, CallFlush(f) PROVE CloseInv' BY <1>4, <1>t DEF CallFlush
<1>5. ASSUME NEW p \in Procs, FlushLock(p) PROVE CloseInv' BY <1>5, <1>t DEF FlushLock
<1>6. ASSUME NEW p \in Procs, FlushCapture(p) PROVE CloseInv' BY <1>6, <1>t DEF FlushCapture
<1>7. ASSUME NEW p \in Procs, FlushCommit(p) PROVE CloseInv'
  BY <1>7, <1>t, AfterFlushType DEF FlushCommit
<1>8. ASSUME NEW p \in Procs, FlushFail(p) PROVE CloseInv'
  <2>1. pc' = [pc EXCEPT ![p] = "rekick"] \/ pc' = [pc EXCEPT ![p] = AfterFlush(p)]
    BY <1>8 DEF FlushFail
  <2>2. pc[p] = "commit" /\ lastWrite' = "failed" /\ UNCHANGED <<disk, snap, stop, atClose, acked>>
    BY <1>8 DEF FlushFail
  <2>3. CASE p = Loop BY <2>1, <2>2, <2>3, AfterFlushType
  <2>4. CASE p = Closer BY <2>1, <2>2, <2>4, AfterFlushType
  <2>5. CASE p \in Flushers BY <2>1, <2>2, <2>5, AfterFlushType
  <2> QED BY <2>3, <2>4, <2>5
<1>9. ASSUME NEW p \in Procs, FlushRekick(p) PROVE CloseInv'
  <2>1. pc[p] = "rekick" /\ pc' = [pc EXCEPT ![p] = AfterFlush(p)]
        /\ UNCHANGED <<disk, snap, stop, atClose, acked, lastWrite>>
    BY <1>9 DEF FlushRekick
  <2>2. CASE p = Loop BY <2>1, <2>2, AfterFlushType
  <2>3. CASE p = Closer BY <2>1, <2>3, AfterFlushType
  <2>4. CASE p \in Flushers BY <2>1, <2>4, AfterFlushType
  <2> QED BY <2>2, <2>3, <2>4
<1>10. CASE LoopKicked BY <1>10, <1>t DEF LoopKicked, LoopGoto
<1>11. CASE LoopTimer BY <1>11, <1>t DEF LoopTimer, LoopGoto
<1>12. CASE LoopCheck BY <1>12, <1>t DEF LoopCheck, LoopGoto
<1>13. CASE LoopStop BY <1>13, <1>t DEF LoopStop, LoopGoto
<1>14. CASE CloseCall BY <1>14, <1>t DEF CloseCall
<1>15. CASE CloseJoin BY <1>15, <1>t DEF CloseJoin
<1>16. CASE CloseCheck BY <1>16, <1>t DEF CloseCheck
<1>17. CASE UNCHANGED vars BY <1>17, <1>t DEF vars
<1> QED
  BY <1>1, <1>2, <1>3, <1>4, <1>5, <1>6, <1>7, <1>8, <1>9, <1>10, <1>11, <1>12,
     <1>13, <1>14, <1>15, <1>16, <1>17 DEF Next, Flush

LEMMA SpecIInv == Spec => []IInv
<1>1. IInv /\ [Next]_vars => IInv'
  BY TypeStep, MutexStep, SnapStep, CoverStep, CloseStep DEF IInv
<1> QED BY InitIInv, <1>1, PTL DEF Spec

(* The variables keep their types: every process stays at one of its own   *)
(* program counters, and no version is negative.                           *)
THEOREM FlusherType == Spec => []TypeOK
<1>1. IInv => TypeOK BY DEF IInv
<1> QED BY SpecIInv, <1>1, PTL

(* Flush clears the flag before it writes, and no acknowledged change is   *)
(* forgotten between the two, for any number of writers and flushers.      *)
THEOREM AckedCovered == Spec => []AckedIsCovered
<1>1. IInv => AckedIsCovered BY DEF IInv, CoverInv, Marked, AckedIsCovered
<1> QED BY SpecIInv, <1>1, PTL

(* Close leaves every change acknowledged before it on disk. *)
THEOREM CloseSaves == Spec => []ClosedMeansSaved
<1>1. IInv => ClosedMeansSaved
  <2> SUFFICES ASSUME IInv, pc[Closer] = "closed", lastWrite = "ok",
                      \A f \in Flushers : pc[f] = "idle"
               PROVE  atClose <= disk
    BY DEF ClosedMeansSaved
  <2>1. \A p \in Procs : pc[p] \notin {"capture", "commit"}
    BY FlusherAssumption DEF IInv, CloseInv, Procs, Loop, Closer
  <2> QED BY <2>1 DEF IInv, CloseInv
<1> QED BY SpecIInv, <1>1, PTL

(* The flusher implements the snapshot file: a mutation is the abstract     *)
(* Mutate, a committed write the abstract Write (SnapInv places what was    *)
(* captured between the file and the memory), every other step a stutter.   *)
THEOREM Refinement == Spec => ImplementsFile
<1>1. Init => File!Init
  BY DEF Init, File!Init
<1>2. IInv /\ [Next]_vars => [File!Next]_<<mem, disk>>
  <2> SUFFICES ASSUME IInv, Next, ~UNCHANGED <<mem, disk>> PROVE File!Next
    BY DEF vars
  <2>1. ASSUME NEW w \in Writers, Mutate(w) PROVE File!Mutate
    BY <2>1 DEF Mutate, File!Mutate
  <2>2. ASSUME NEW p \in Procs, FlushCommit(p) PROVE File!Write
    BY <2>2 DEF FlushCommit, File!Write, IInv, TypeOK, SnapInv
  <2>3. (\E w \in Writers : Mutate(w)) \/ (\E p \in Procs : FlushCommit(p))
    BY DEF Next, Swap, Kick, CallFlush, Flush, FlushLock, FlushCapture, FlushFail,
       FlushRekick, LoopKicked, LoopTimer, LoopCheck, LoopStop, CloseCall, CloseJoin,
       CloseCheck
  <2> QED BY <2>1, <2>2, <2>3 DEF File!Next
<1> QED BY SpecIInv, <1>1, <1>2, PTL DEF Spec, ImplementsFile, File!Spec

(* No wake-up is lost between Dirty.Store, the loop and a failed write.     *)
THEOREM MarkScheduled == Spec => []MarkedIsScheduled
<1>1. Init => MarkedIsScheduled
  BY FlusherAssumption DEF Init, MarkedIsScheduled, Procs, Loop, Closer
<1>2. IInv /\ MarkedIsScheduled /\ [Next]_vars => MarkedIsScheduled'
  <2> SUFFICES ASSUME IInv, MarkedIsScheduled, [Next]_vars PROVE MarkedIsScheduled' OBVIOUS
  <2>0. TypeOK' BY TypeStep
  <2> USE FlusherAssumption DEF IInv, TypeOK, Procs, Loop, Closer, NoProc, MarkedIsScheduled
  <2>1. ASSUME NEW w \in Writers, Mutate(w) PROVE MarkedIsScheduled' BY <2>1, <2>0 DEF Mutate
  <2>2. ASSUME NEW w \in Writers, Swap(w) PROVE MarkedIsScheduled' BY <2>2, <2>0 DEF Swap
  <2>3. ASSUME NEW w \in Writers, Kick(w) PROVE MarkedIsScheduled' BY <2>3, <2>0 DEF Kick
  <2>4. ASSUME NEW f \in Flushers, CallFlush(f) PROVE MarkedIsScheduled' BY <2>4, <2>0 DEF CallFlush
  <2>5. ASSUME NEW p \in Procs, FlushLock(p) PROVE MarkedIsScheduled' BY <2>5, <2>0 DEF FlushLock
  <2>6. ASSUME NEW p \in Procs, FlushCapture(p) PROVE MarkedIsScheduled' BY <2>6, <2>0 DEF FlushCapture
  <2>7. ASSUME NEW p \in Procs, FlushCommit(p) PROVE MarkedIsScheduled'
    BY <2>7, <2>0, AfterFlushType DEF FlushCommit
  <2>8. ASSUME NEW p \in Procs, FlushFail(p) PROVE MarkedIsScheduled'
    BY <2>8, <2>0, AfterFlushType DEF FlushFail
  <2>9. ASSUME NEW p \in Procs, FlushRekick(p) PROVE MarkedIsScheduled'
    BY <2>9, <2>0, AfterFlushType DEF FlushRekick
  <2>10. CASE LoopKicked BY <2>10, <2>0 DEF LoopKicked, LoopGoto
  <2>11. CASE LoopTimer BY <2>11, <2>0 DEF LoopTimer, LoopGoto
  <2>12. CASE LoopCheck BY <2>12, <2>0 DEF LoopCheck, LoopGoto
  <2>13. CASE LoopStop BY <2>13, <2>0 DEF LoopStop, LoopGoto
  <2>14. CASE CloseCall BY <2>14, <2>0 DEF CloseCall
  <2>15. CASE CloseJoin BY <2>15, <2>0 DEF CloseJoin
  <2>16. CASE CloseCheck BY <2>16, <2>0 DEF CloseCheck
  <2>17. CASE UNCHANGED vars BY <2>17 DEF vars
  <2> QED
    BY <2>1, <2>2, <2>3, <2>4, <2>5, <2>6, <2>7, <2>8, <2>9, <2>10, <2>11, <2>12,
       <2>13, <2>14, <2>15, <2>16, <2>17 DEF Next, Flush
<1> QED BY SpecIInv, <1>1, <1>2, PTL DEF Spec
=============================================================================
