------------------------------ MODULE LongPoll ------------------------------
(***************************************************************************)
(* Long polling: Service.ReceiveMessageUntil over the store of SQSStore.    *)
(* A poll that finds nothing captures, under the queue's lock, the channel   *)
(* the next signal will close and the time at which a hidden message may    *)
(* become receivable, and sleeps on both.  Every store operation is the one *)
(* of SQSStore together with the signal it sends.                           *)
(*                                                                          *)
(* A signal closes the queue's channel and forgets it, so every sleeping    *)
(* poll holds either the current channel or a closed one: woken[p] says     *)
(* that the channel p holds is closed.                                      *)
(***************************************************************************)
EXTENDS SQSStore

CONSTANTS
  Pollers,   \* long polls in progress
  Polled,    \* the queue they poll
  WaitTime,  \* WaitTimeSeconds, in ticks
  PollBatch, \* MaxNumberOfMessages of the polls
  PollHide   \* their visibility timeout

ASSUME LongPollAssumption ==
  /\ Polled \in Queues
  /\ WaitTime \in Nat \ {0} /\ PollBatch \in BatchSizes /\ PollHide \in VisTimeouts

VARIABLES
  pc,     \* where each poll is
  woken,  \* the channel it holds has been closed
  timer,  \* time left on its timer
  left,   \* time left until its deadline
  orphan, \* its queue was deleted after it looked it up: "no", "empty" or "stock"
  cancel, \* the caller has closed the cancel channel
  done    \* Service.Stop has closed the done channel

pollVars == <<pc, woken, timer, left, orphan, cancel, done>>
allVars == <<vars, pollVars>>

Ended == {"got", "nothing", "not found", "shutdown"}

(* The type invariant; a poll's timer never outlasts its deadline. *)
PollTypeOK ==
  /\ pc \in [Pollers -> {"idle", "start", "lookup", "scan", "wait"} \cup Ended]
  /\ woken \in [Pollers -> BOOLEAN]
  /\ left \in [Pollers -> 0..WaitTime]
  /\ timer \in [Pollers -> 0..WaitTime] /\ \A p \in Pollers : timer[p] <= left[p]
  /\ orphan \in [Pollers -> {"no", "empty", "stock"}]
  /\ cancel \in [Pollers -> BOOLEAN] /\ done \in BOOLEAN

PollInit ==
  /\ Init
  /\ pc = [p \in Pollers |-> "idle"]
  /\ woken = [p \in Pollers |-> FALSE]
  /\ timer = [p \in Pollers |-> 0]
  /\ left = [p \in Pollers |-> 0]
  /\ orphan = [p \in Pollers |-> "no"]
  /\ cancel = [p \in Pollers |-> FALSE] /\ done = FALSE

(***************************************************************************)
(* The poll                                                                *)
(***************************************************************************)
Goto(p, to) == pc' = [pc EXCEPT ![p] = to]

(* Return: the poll's own variables go out of scope. *)
End(p, how) ==
  /\ Goto(p, how)
  /\ woken' = [woken EXCEPT ![p] = FALSE]
  /\ timer' = [timer EXCEPT ![p] = 0]
  /\ left' = [left EXCEPT ![p] = 0]
  /\ orphan' = [orphan EXCEPT ![p] = "no"]
  /\ UNCHANGED <<cancel, done>>

PollBegin(p) ==
  /\ pc[p] = "idle"
  /\ Goto(p, "start")
  /\ left' = [left EXCEPT ![p] = WaitTime]
  /\ UNCHANGED <<vars, woken, timer, orphan, cancel, done>>

(* The head of the loop: cancelled polls return without messages. *)
PollCheck(p) ==
  /\ pc[p] = "start"
  /\ IF cancel[p] THEN End(p, "nothing")
                  ELSE Goto(p, "lookup") /\ UNCHANGED <<woken, timer, left, orphan, cancel, done>>
  /\ UNCHANGED vars

(* The map lookup of receive, under the store's read lock only. *)
PollLookup(p) ==
  /\ pc[p] = "lookup"
  /\ IF Polled \in exists
       THEN Goto(p, "scan") /\ UNCHANGED <<woken, timer, left, orphan, cancel, done>>
       ELSE End(p, "not found")
  /\ UNCHANGED vars

(* later(): the earliest time a message it skipped may become receivable; *)
(* the retention of a FIFO blocker counts too.                            *)
Waits(q) ==
  (UNION {{msgs[i].hidden, msgs[i].delay} \cup (IF q \in FifoQueues THEN {msgs[i].life} ELSE {}) :
          i \in {j \in In(q) : Eligible(j)}}) \ {0}
Earliest(S) == CHOOSE t \in S : \A u \in S : t <= u

(* until the deadline, or until something hidden may be due before it *)
Sleep(p) ==
  LET soon == {t \in Waits(Polled) : t < left[p]} IN
  IF soon = {} THEN left[p] ELSE Earliest(soon)

(* The scan under the queue's lock finds messages ... *)
PollReceive(p) ==
  /\ pc[p] = "scan" /\ orphan[p] = "no"
  /\ ReceiveMessage(Polled, PollBatch, PollHide)
  /\ End(p, "got")

(* Mutant: the deadline is not looked at after an empty scan. *)
PollSleepAgain(p) ==
  /\ pc[p] = "scan" /\ orphan[p] = "no"
  /\ Receivable(Polled) = {}
  /\ Goto(p, "wait")
  /\ timer' = [timer EXCEPT ![p] = Sleep(p)]
  /\ UNCHANGED <<vars, woken, left, orphan, cancel, done>>

(* ... or takes the wake channel before it gives the lock up. *)
PollSleep(p) ==
  /\ pc[p] = "scan" /\ orphan[p] = "no"
  /\ Receivable(Polled) = {}
  /\ IF left[p] = 0
       THEN End(p, "nothing")
       ELSE /\ Goto(p, "wait")
            /\ timer' = [timer EXCEPT ![p] = Sleep(p)]
            /\ UNCHANGED <<woken, left, orphan, cancel, done>>
  /\ UNCHANGED vars

(* The same scan on a queue deleted since the lookup: it may still hand out *)
(* the messages the queue had, or sleep on a channel nobody will close.     *)
PollOrphan(p) ==
  /\ pc[p] = "scan" /\ orphan[p] # "no"
  /\ \/ orphan[p] = "stock" /\ End(p, "got")
     \/ left[p] = 0 /\ End(p, "nothing")
     \/ /\ left[p] > 0
        /\ Goto(p, "wait")
        /\ timer' = [timer EXCEPT ![p] = left[p]]
        /\ UNCHANGED <<woken, left, orphan, cancel, done>>
  /\ UNCHANGED vars

(* The select: the channel, the timer, the caller or the service. *)
PollWake(p) ==
  /\ pc[p] = "wait" /\ (woken[p] \/ timer[p] = 0)
  /\ Goto(p, "start")
  /\ woken' = [woken EXCEPT ![p] = FALSE]
  /\ timer' = [timer EXCEPT ![p] = 0]
  /\ orphan' = [orphan EXCEPT ![p] = "no"]
  /\ UNCHANGED <<vars, left, cancel, done>>

PollCancelled(p) ==
  /\ pc[p] = "wait" /\ cancel[p]
  /\ End(p, "nothing")
  /\ UNCHANGED vars

PollShutdown(p) ==
  /\ pc[p] = "wait" /\ done
  /\ End(p, "shutdown")
  /\ UNCHANGED vars

Cancel(p) ==
  /\ ~cancel[p] /\ pc[p] \notin Ended
  /\ cancel' = [cancel EXCEPT ![p] = TRUE]
  /\ UNCHANGED <<vars, pc, woken, timer, left, orphan, done>>

Stop ==
  /\ ~done
  /\ done' = TRUE
  /\ UNCHANGED <<vars, pc, woken, timer, left, orphan, cancel>>

(***************************************************************************)
(* The store's operations and what they signal                             *)
(***************************************************************************)
Sleeping(p) == pc[p] = "wait" /\ orphan[p] = "no"
OnlyWoken == UNCHANGED <<pc, timer, left, orphan, cancel, done>>

(* q.signal() of each queue in S *)
Signal(S) ==
  /\ woken' = [p \in Pollers |-> woken[p] \/ (Sleeping(p) /\ Polled \in S)]
  /\ OnlyWoken

Fifo(q) == {q} \cap FifoQueues

(* A removal lets the next message of a FIFO group through. *)
SignalRemoval(q) == Signal(Fifo(q))

Send(q, g, d, delay) == SendMessage(q, g, d, delay) /\ Signal({q})

(* Removal by receipt or by id, the visibility changes, and the transfer,  *)
(* which signals its destination unless a duplicate absorbed it.           *)
Removed(i, n) ==
  /\ DeleteMessage(i, n) \/ DeleteMessageByID(i)
  /\ SignalRemoval(msgs[i].q)

Shown(i, n) ==
  /\ \/ \E vt \in VisTimeouts : ChangeMessageVisibility(i, n, vt)
     \/ ReleaseMessage(i, n)
  /\ Signal({msgs[i].q})

(* Mutant: the transfer signals its source only. *)
AppendedUnsignalled(i) == {}

(* The queue a transfer appended to. *)
Appended(i) == IF last' > last THEN {policy[msgs[i].q].target} ELSE {}

Moved(i, n) ==
  /\ MoveToDLQIfExceeded(i, n)
  /\ Signal(Fifo(msgs[i].q) \cup Appended(i))

Redriven(from, to, n) == RedriveMessages(from, to, n) /\ Signal(Fifo(from) \cup {to})

ReapedQueue(q) ==
  /\ ReapQueue(q)
  /\ Signal(IF \E i \in In(q) : msgs'[i] # msgs[i] THEN Fifo(q) ELSE {})

ReapedMove(c) ==
  /\ ReapMove(c)
  /\ Signal(IF last' > last THEN Fifo(msgs[c.id].q) \cup Appended(c.id) ELSE {})

(* These signal nobody: they make nothing receivable. *)
Silent(q) ==
  /\ \/ \E n \in BatchSizes, vt \in VisTimeouts : ReceiveMessage(q, n, vt)
     \/ PurgeQueue(q)
     \/ \E p \in Policies : CreateQueue(q, p) \/ SetQueueAttributes(q, p)
  /\ UNCHANGED pollVars

(* DeleteQueue wakes the sleeping polls; those between lookup and scan hold *)
(* a queue that is no longer in the map.                                    *)
Deleted(q) ==
  /\ DeleteQueue(q)
  /\ woken' = [p \in Pollers |-> woken[p] \/ (Sleeping(p) /\ Polled = q)]
  /\ orphan' = [p \in Pollers |->
       IF Polled = q /\ pc[p] \in {"scan", "wait"} /\ orphan[p] = "no"
         THEN IF \E i \in In(q) : Live(i) THEN "stock" ELSE "empty"
         ELSE orphan[p]]
  /\ UNCHANGED <<pc, timer, left, cancel, done>>

Clock ==
  /\ Tick
  /\ timer' = [p \in Pollers |-> Less(timer[p])]
  /\ left' = [p \in Pollers |-> Less(left[p])]
  /\ UNCHANGED <<pc, woken, orphan, cancel, done>>

PollStep(p) ==
  \/ PollBegin(p) \/ PollCheck(p) \/ PollLookup(p) \/ PollReceive(p) \/ PollSleep(p) \/ PollOrphan(p)
  \/ PollWake(p) \/ PollCancelled(p) \/ PollShutdown(p)

PollNext ==
  \/ \E p \in Pollers : PollStep(p) \/ Cancel(p)
  \/ Stop \/ Clock
  \/ \E q \in Queues :
       \/ \E g \in Groups, d \in Dedups, delay \in Delays : Send(q, g, d, delay)
       \/ \E to \in Queues, n \in BatchSizes : Redriven(q, to, n)
       \/ ReapedQueue(q) \/ Silent(q) \/ Deleted(q)
  \/ \E i \in Ids, n \in 0..MaxReceives : Removed(i, n) \/ Shown(i, n) \/ Moved(i, n)
  \/ ReapStart /\ UNCHANGED pollVars
  \/ \E c \in moves : ReapedMove(c)

PollSpec == PollInit /\ [][PollNext]_allVars

(* Goroutines run, timers count down and fire, and the reaper ticks. *)
PollFairness ==
  /\ \A p \in Pollers : WF_allVars(PollStep(p))
  /\ SF_allVars(Clock)
  /\ WF_allVars(ReapStart /\ UNCHANGED pollVars)
  /\ \A q \in Queues : WF_allVars(ReapedQueue(q))
  /\ WF_allVars(\E c \in moves : ReapedMove(c))

FairPollSpec == PollSpec /\ PollFairness

(***************************************************************************)
(* Properties                                                              *)
(***************************************************************************)
(* No lost wake-up: while the polled queue has a receivable message, every  *)
(* poll asleep on it has been woken or its timer has run out, whichever of  *)
(* sends, deletes, releases, visibility changes, transfers, redrives,       *)
(* reaping and expiring periods made the message receivable.                *)
NoLostWakeup ==
  Polled \in exists /\ Receivable(Polled) # {}
    => \A p \in Pollers : Sleeping(p) => woken[p] \/ timer[p] = 0

(* Every long poll returns, by its deadline at the latest. *)
PollReturns == \A p \in Pollers : <>(pc[p] \in Ended)
=============================================================================
