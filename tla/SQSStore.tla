------------------------------ MODULE SQSStore ------------------------------
(***************************************************************************)
(* The SQS store of internal/sqs (store.go, dlq.go, service.go): queues,    *)
(* messages, visibility, FIFO groups, deduplication, dead-letter transfer,  *)
(* redrive and the background reaper.                                       *)
(*                                                                          *)
(* A queue's slice of messages only grows at its end and is compacted in    *)
(* place, so it is modelled by message numbers: every new message takes the *)
(* next number, and a queue's slice is its messages in increasing order.    *)
(* A receipt handle is the pair of a message and how many times it had been *)
(* received.  Each operation holds the locks of the queues it touches, so   *)
(* it is one step; Reap is one step per queue and one per transfer.         *)
(*                                                                          *)
(* The code compares time stamps with nowMs(); the model keeps what is left *)
(* of each period, in ticks, and a clock step takes one off all of them: a  *)
(* time stamp is in the past exactly when its remainder is 0.               *)
(***************************************************************************)
EXTENDS Naturals, FiniteSets

CONSTANTS
  Queues,       \* queue names
  FifoQueues,   \* those created as FIFO queues
  QueueDelay,   \* DelaySeconds of each queue
  Groups,       \* message group ids; NoGroup is the empty one
  NoGroup,
  Dedups,       \* deduplication ids; NoDedup is the empty one
  NoDedup,
  Policies,     \* redrive policies [target, max] of the explored configurations
  VisTimeouts,  \* visibility timeouts clients ask for
  Delays,       \* DelaySeconds clients ask for (0: the queue's own)
  BatchSizes,   \* MaxNumberOfMessages of receive and redrive
  Retention,    \* MessageRetentionPeriod
  DedupWindow,  \* the five minutes of enqueueMessageLocked
  StaleCount,   \* defaultStaleReceiveCount
  MinReceipt,   \* 1: clients pass the handles they were given; 0: a batch entry or a
                \* ChangeMessageVisibility without a handle passes the empty one
  MaxMsgs,      \* bound: messages ever created
  MaxReceives   \* bound: receives of one message

NoQueue == "no queue"

ASSUME SQSAssumption ==
  /\ FifoQueues \subseteq Queues /\ NoQueue \notin Queues
  /\ NoGroup \in Groups /\ NoDedup \in Dedups
  /\ QueueDelay \in [Queues -> Nat]
  /\ Policies \subseteq [target : Queues \cup {NoQueue}, max : Nat]
  /\ VisTimeouts \subseteq Nat /\ Delays \subseteq Nat /\ BatchSizes \subseteq Nat \ {0}
  /\ Retention \in Nat /\ DedupWindow \in Nat /\ StaleCount \in Nat \ {0}
  /\ MinReceipt \in {0, 1}
  /\ MaxMsgs \in Nat /\ MaxReceives \in Nat

VARIABLES
  exists,   \* the names in Store.queues
  policy,   \* per queue: DeadLetterTargetArn and MaxReceiveCount
  dedup,    \* per queue: dedup id -> time left (0: no entry)
  msgs,     \* message number -> message
  last,     \* the newest message number
  reapLeft, \* queues this Reap has still to visit
  moves,    \* its pendingMoves: message and receipt
  owed      \* history: accepted sends the store must still hold

vars == <<exists, policy, dedup, msgs, last, reapLeft, moves, owed>>

Ids == 1..MaxMsgs
NoPolicy == [target |-> NoQueue, max |-> 0]

Message ==
  [q : Queues \cup {NoQueue}, origin : Nat, group : Groups, dedup : Dedups,
   hidden : Nat, delay : Nat, life : Nat, count : Nat, rcpt : Nat,
   deleted : BOOLEAN, stale : BOOLEAN, resent : BOOLEAN]

(* A number whose message is not (or no longer) in any queue. *)
Gone ==
  [q |-> NoQueue, origin |-> 0, group |-> NoGroup, dedup |-> NoDedup,
   hidden |-> 0, delay |-> 0, life |-> 0, count |-> 0, rcpt |-> 0,
   deleted |-> FALSE, stale |-> FALSE, resent |-> FALSE]

(* A deleted message stays in its slice until the reaper compacts it; of   *)
(* its fields only Deleted is ever read again.                             *)
Tombstone(q) == [Gone EXCEPT !.q = q, !.deleted = TRUE]

TypeOK ==
  /\ last \in 0..MaxMsgs
  /\ exists \subseteq Queues /\ reapLeft \subseteq exists
  /\ policy \in [Queues -> Policies \cup {NoPolicy}]
  /\ dedup \in [Queues -> [Dedups -> Nat]]
  /\ msgs \in [Ids -> Message]
  /\ moves \subseteq [id : Ids, rcpt : Nat]
  /\ owed \subseteq Ids

Init ==
  /\ exists = Queues
  /\ policy \in [Queues -> Policies]
  /\ dedup = [q \in Queues |-> [d \in Dedups |-> 0]]
  /\ msgs = [i \in Ids |-> Gone] /\ last = 0
  /\ reapLeft = {} /\ moves = {}
  /\ owed = {}

(***************************************************************************)
(* Reading a queue                                                         *)
(***************************************************************************)
In(q) == {i \in Ids : msgs[i].q = q}
Live(i) == msgs[i].q # NoQueue /\ ~msgs[i].deleted
Expired(i) == msgs[i].life = 0

(* what receive looks at: neither deleted, nor parked as stale, nor expired *)
Eligible(i) == Live(i) /\ ~msgs[i].stale /\ ~Expired(i)
Hidden(i) == msgs[i].hidden > 0 \/ msgs[i].delay > 0

\* Mutant: only a delayed message blocks its group, not one in flight.
BlockedByDelay(i) ==
  /\ msgs[i].q \in FifoQueues
  /\ \E j \in In(msgs[i].q) :
       j < i /\ Eligible(j) /\ msgs[j].delay > 0 /\ msgs[j].group = msgs[i].group

(* blockedGroups: an earlier hidden message of a FIFO group holds back the rest *)
Blocked(i) ==
  /\ msgs[i].q \in FifoQueues
  /\ \E j \in In(msgs[i].q) :
       j < i /\ Eligible(j) /\ Hidden(j) /\ msgs[j].group = msgs[i].group

Receivable(q) == {i \in In(q) : Eligible(i) /\ ~Hidden(i) /\ ~Blocked(i)}
FirstOf(S, n) == {i \in S : Cardinality({j \in S : j < i}) < n}

(***************************************************************************)
(* enqueueMessageLocked                                                    *)
(***************************************************************************)
(* The queue refuses a message without a group, if it is a FIFO queue. *)
Accepts(q, g) == q \in FifoQueues => g # NoGroup

(* Mutant: the entry is ignored as soon as the message was received. *)
DuplicateUnlessReceived(q, d) ==
  /\ q \in FifoQueues /\ d # NoDedup
  /\ dedup[q][d] > 0
  /\ \E i \in In(q) : msgs[i].dedup = d /\ Live(i) /\ msgs[i].rcpt = 0

(* Honoured deduplication finds the entry current and its message live. *)
Duplicate(q, d) ==
  /\ q \in FifoQueues /\ d # NoDedup
  /\ dedup[q][d] > 0
  /\ \E i \in In(q) : msgs[i].dedup = d /\ Live(i)

Remember(q, d) ==
  IF q \in FifoQueues /\ d # NoDedup
    THEN dedup' = [dedup EXCEPT ![q][d] = DedupWindow]
    ELSE UNCHANGED dedup

NewMessage(q, o, g, d, delay, again) ==
  [q |-> q, origin |-> o, group |-> g, dedup |-> d,
   hidden |-> 0, delay |-> delay, life |-> Retention,
   count |-> 0, rcpt |-> 0, deleted |-> FALSE, stale |-> FALSE, resent |-> again]

(* Service.SendMessage; one a disruptor rule fails changes nothing. *)
SendMessage(q, g, d, delay) ==
  /\ q \in exists /\ Accepts(q, g) /\ ~Duplicate(q, d)
  /\ last < MaxMsgs
  /\ last' = last + 1
  /\ msgs' = [msgs EXCEPT ![last + 1] =
                NewMessage(q, last + 1, g, d, IF delay = 0 THEN QueueDelay[q] ELSE delay, FALSE)]
  /\ owed' = owed \cup {last + 1}
  /\ Remember(q, d)
  /\ UNCHANGED <<exists, policy, reapLeft, moves>>

(***************************************************************************)
(* Consumers                                                               *)
(***************************************************************************)
(* Store.receive, when it finds something: an empty one changes nothing *)
(* here (LongPoll models how it waits).                                 *)
ReceiveMessage(q, n, vt) ==
  LET batch == FirstOf(Receivable(q), n) IN
  /\ q \in exists /\ batch # {}
  /\ \A i \in batch : msgs[i].rcpt < MaxReceives
  /\ msgs' = [i \in Ids |-> IF i \in batch
                THEN [msgs[i] EXCEPT !.rcpt = @ + 1, !.count = @ + 1, !.hidden = vt]
                ELSE msgs[i]]
  /\ UNCHANGED <<exists, policy, dedup, last, reapLeft, moves, owed>>

(* The first message with this receipt handle that is not deleted: handles *)
(* are unique, but a message never received has the empty one.             *)
Holds(i, n) ==
  /\ Live(i) /\ n = msgs[i].rcpt /\ n >= MinReceipt
  /\ n = 0 => \A j \in In(msgs[i].q) : Live(j) /\ msgs[j].rcpt = 0 => i <= j

DeleteMessage(i, n) ==
  /\ Holds(i, n)
  /\ msgs' = [msgs EXCEPT ![i] = Tombstone(@.q)]
  /\ owed' = owed \ {msgs[i].origin}
  /\ UNCHANGED <<exists, policy, dedup, last, reapLeft, moves>>

ChangeMessageVisibility(i, n, vt) ==
  /\ Holds(i, n)
  /\ msgs' = [msgs EXCEPT ![i].hidden = vt]
  /\ UNCHANGED <<exists, policy, dedup, last, reapLeft, moves, owed>>

ReleaseMessage(i, n) ==
  /\ Holds(i, n)
  /\ msgs' = [msgs EXCEPT ![i].hidden = 0,
                          ![i].count = IF @ > 0 THEN @ - 1 ELSE 0]
  /\ UNCHANGED <<exists, policy, dedup, last, reapLeft, moves, owed>>

DeleteMessageByID(i) ==
  /\ Live(i)
  /\ msgs' = [msgs EXCEPT ![i] = Tombstone(@.q)]
  /\ owed' = owed \ {msgs[i].origin}
  /\ UNCHANGED <<exists, policy, dedup, last, reapLeft, moves>>

PurgeQueue(q) ==
  /\ q \in exists
  /\ msgs' = [i \in Ids |-> IF i \in In(q) THEN Gone ELSE msgs[i]]
  /\ owed' = owed \ {msgs[i].origin : i \in {j \in In(q) : Live(j)}}
  /\ UNCHANGED <<exists, policy, dedup, last, reapLeft, moves>>

(***************************************************************************)
(* Queue lifecycle.  Reap holds Store.mu for reading while it visits the   *)
(* queues, which keeps CreateQueue and DeleteQueue out.                    *)
(***************************************************************************)
CreateQueue(q, p) ==
  /\ q \notin exists /\ reapLeft = {}
  /\ exists' = exists \cup {q}
  /\ policy' = [policy EXCEPT ![q] = p]
  /\ UNCHANGED <<dedup, msgs, last, reapLeft, moves, owed>>

DeleteQueue(q) ==
  /\ q \in exists /\ reapLeft = {}
  /\ exists' = exists \ {q}
  /\ policy' = [policy EXCEPT ![q] = NoPolicy]
  /\ dedup' = [dedup EXCEPT ![q] = [d \in Dedups |-> 0]]
  /\ msgs' = [i \in Ids |-> IF i \in In(q) THEN Gone ELSE msgs[i]]
  /\ owed' = owed \ {msgs[i].origin : i \in {j \in In(q) : Live(j)}}
  /\ UNCHANGED <<last, reapLeft, moves>>

(* SetQueueAttributes, for the attribute that changes behaviour: RedrivePolicy. *)
SetQueueAttributes(q, p) ==
  /\ q \in exists /\ policy[q] # p
  /\ policy' = [policy EXCEPT ![q] = p]
  /\ UNCHANGED <<exists, dedup, msgs, last, reapLeft, moves, owed>>

(***************************************************************************)
(* Redrive: in-flight and stale messages are moved too, deduplication is   *)
(* not consulted, and the copies keep the order.                           *)
(***************************************************************************)
RedriveMessages(from, to, n) ==
  LET batch == FirstOf({i \in In(from) : Live(i) /\ ~Expired(i)}, n)
      copies == (last + 1)..(last + Cardinality(batch)) IN
  /\ {from, to} \subseteq exists /\ from # to
  /\ batch # {} /\ last + Cardinality(batch) <= MaxMsgs
  /\ \E src \in [copies -> batch] :
       /\ \A j, k \in copies : j < k => src[j] < src[k]
       /\ \A i \in batch : \E j \in copies : src[j] = i
       /\ msgs' = [k \in Ids |->
            IF k \in copies
              THEN NewMessage(to, msgs[src[k]].origin, msgs[src[k]].group, msgs[src[k]].dedup,
                              QueueDelay[to], TRUE)
              ELSE IF k \in batch THEN Tombstone(from) ELSE msgs[k]]
  /\ last' = last + Cardinality(batch)
  /\ UNCHANGED <<exists, policy, dedup, reapLeft, moves, owed>>

(***************************************************************************)
(* Dead-letter transfer: moveToDLQ                                         *)
(***************************************************************************)
HasDLQ(q) == policy[q].max > 0 /\ policy[q].target # NoQueue

(* Mutant: the candidate's receipt and visibility are not checked again. *)
DlqMessageUnchecked(i, n, reaping) ==
  /\ Live(i) /\ ~Expired(i)
  /\ HasDLQ(msgs[i].q)

(* dlqMessageLocked: the stored message still has this receipt, is over its *)
(* threshold, and, for the reaper, is not in flight.                        *)
DlqMessage(i, n, reaping) ==
  /\ Live(i) /\ n = msgs[i].rcpt /\ ~Expired(i)
  /\ HasDLQ(msgs[i].q) /\ msgs[i].count >= policy[msgs[i].q].max
  /\ reaping => msgs[i].hidden = 0

(* It has somewhere to go: the destination exists, is another queue and *)
(* takes the message.                                                   *)
Transferable(i, n, reaping) ==
  /\ DlqMessage(i, n, reaping)
  /\ policy[msgs[i].q].target \in exists \ {msgs[i].q}
  /\ Accepts(policy[msgs[i].q].target, msgs[i].group)

(* Mutant: the source is not removed after the append. *)
TransferKeepsSource(i, reaping) ==
  /\ last < MaxMsgs
  /\ last' = last + 1
  /\ msgs' = [msgs EXCEPT ![last + 1] = NewMessage(policy[msgs[i].q].target, msgs[i].origin,
                msgs[i].group, msgs[i].dedup, 0, reaping)]
  /\ UNCHANGED <<dedup, owed>>

(* Append to the destination and remove from the source, under both locks. *)
(* The poller's transfer is a send: it waits the queue's delay and is       *)
(* absorbed by a duplicate.                                                 *)
Transfer(i, reaping) ==
  LET m == msgs[i]
      to == policy[m.q].target IN
  IF ~reaping /\ Duplicate(to, m.dedup)
    THEN /\ msgs' = [msgs EXCEPT ![i] = Tombstone(@.q)]
         /\ owed' = owed \ {m.origin}
         /\ UNCHANGED <<last, dedup>>
    ELSE /\ last < MaxMsgs
         /\ last' = last + 1
         /\ msgs' = [msgs EXCEPT ![i] = Tombstone(@.q),
                                 ![last + 1] = NewMessage(to, m.origin, m.group, m.dedup,
                                                 IF reaping THEN 0 ELSE QueueDelay[to], reaping)]
         /\ IF reaping THEN UNCHANGED dedup ELSE Remember(to, m.dedup)
         /\ UNCHANGED owed

(* MoveToDLQIfExceeded, called by the event source poller with the receipt *)
(* it was given; one that is not transferable changes nothing.             *)
MoveToDLQIfExceeded(i, n) ==
  /\ n > 0 /\ Transferable(i, n, FALSE)
  /\ Transfer(i, FALSE)
  /\ UNCHANGED <<exists, policy, reapLeft, moves>>

(***************************************************************************)
(* The reaper                                                              *)
(***************************************************************************)
ReapStart ==
  /\ reapLeft = {} /\ moves = {} /\ exists # {}
  /\ reapLeft' = exists
  /\ UNCHANGED <<exists, policy, dedup, msgs, last, moves, owed>>

Threshold(q) == IF policy[q].max > 0 THEN policy[q].max ELSE StaleCount

ReapQueue(q) ==
  LET dead == {i \in In(q) : msgs[i].deleted \/ Expired(i)}
      over == {i \in In(q) \ dead : msgs[i].hidden = 0 /\ msgs[i].count >= Threshold(q)} IN
  /\ q \in reapLeft
  /\ reapLeft' = reapLeft \ {q}
  /\ msgs' = [i \in Ids |-> IF i \in dead THEN Gone
                            ELSE IF i \in over /\ ~HasDLQ(q)
                              THEN [msgs[i] EXCEPT !.stale = TRUE] ELSE msgs[i]]
  /\ moves' = IF HasDLQ(q) THEN moves \cup {[id |-> i, rcpt |-> msgs[i].rcpt] : i \in over}
                           ELSE moves
  /\ owed' = owed \ {msgs[i].origin : i \in {j \in dead : Live(j)}}
  /\ UNCHANGED <<exists, policy, dedup, last>>

(* Mutant: a candidate whose transfer fails is removed all the same. *)
ReapMoveDropsSource(c) ==
  /\ reapLeft = {} /\ c \in moves
  /\ moves' = moves \ {c}
  /\ IF Transferable(c.id, c.rcpt, TRUE)
       THEN Transfer(c.id, TRUE)
       ELSE /\ msgs' = [msgs EXCEPT ![c.id] = Tombstone(@.q)]
            /\ UNCHANGED <<last, dedup, owed>>
  /\ UNCHANGED <<exists, policy, reapLeft>>

(* One pendingMove, once the queues have been visited; a queue's own       *)
(* candidates in their order.                                              *)
ReapMove(c) ==
  /\ reapLeft = {} /\ c \in moves
  /\ \A b \in moves : msgs[b.id].q = msgs[c.id].q => c.id <= b.id
  /\ moves' = moves \ {c}
  /\ IF Transferable(c.id, c.rcpt, TRUE)
       THEN Transfer(c.id, TRUE)
       ELSE UNCHANGED <<msgs, last, dedup, owed>>
  /\ UNCHANGED <<exists, policy, reapLeft>>

(* The clock.  Reap visits all queues with the one time it read at its     *)
(* start, well within a tick.                                              *)
Less(n) == IF n > 0 THEN n - 1 ELSE 0

Tick ==
  /\ reapLeft = {}
  /\ dedup' = [q \in Queues |-> [d \in Dedups |-> Less(dedup[q][d])]]
  /\ msgs' = [i \in Ids |-> [msgs[i] EXCEPT !.hidden = Less(@), !.delay = Less(@), !.life = Less(@)]]
  /\ UNCHANGED <<exists, policy, last, reapLeft, moves, owed>>

Consume(i, n) ==
  \/ DeleteMessage(i, n)
  \/ \E vt \in VisTimeouts : ChangeMessageVisibility(i, n, vt)
  \/ ReleaseMessage(i, n)
  \/ MoveToDLQIfExceeded(i, n)

Next ==
  \/ Tick
  \/ \E q \in Queues :
       \/ \E g \in Groups, d \in Dedups, delay \in Delays : SendMessage(q, g, d, delay)
       \/ \E n \in BatchSizes, vt \in VisTimeouts : ReceiveMessage(q, n, vt)
       \/ PurgeQueue(q) \/ DeleteQueue(q)
       \/ \E p \in Policies : CreateQueue(q, p) \/ SetQueueAttributes(q, p)
       \/ \E to \in Queues, n \in BatchSizes : RedriveMessages(q, to, n)
       \/ ReapQueue(q)
  \/ \E i \in Ids : DeleteMessageByID(i) \/ \E n \in 0..MaxReceives : Consume(i, n)
  \/ ReapStart \/ \E c \in moves : ReapMove(c)

Spec == Init /\ [][Next]_vars

(***************************************************************************)
(* Properties                                                              *)
(***************************************************************************)
(* "Repeated transfer attempts do not duplicate delivery": however the      *)
(* poller, the reaper and redrive interleave, a sent message has at most    *)
(* one live copy in all queues together.                                    *)
AtMostOneLive ==
  \A i, j \in Ids : Live(i) /\ Live(j) /\ msgs[i].origin = msgs[j].origin => i = j

(* "DLQ transfers retain the source message if the destination is missing   *)
(* or cannot accept it": a sent message that no client deleted or purged,   *)
(* that did not expire and was not absorbed by a duplicate is live in some  *)
(* queue.                                                                   *)
NothingLost == \A o \in owed : \E i \in Ids : Live(i) /\ msgs[i].origin = o

(* i is handed to a consumer. *)
Delivered(i) == msgs[i].q # NoQueue /\ msgs'[i].q = msgs[i].q /\ msgs'[i].rcpt > msgs[i].rcpt

(* Per group of a FIFO queue, nothing is delivered ahead of an earlier      *)
(* message: a step that delivers a message delivers every earlier eligible  *)
(* message of its group with it (in-flight, delayed and released ones hold  *)
(* the group back).                                                         *)
DeliversInOrder ==
  \A j \in Ids : Delivered(j) /\ msgs[j].q \in FifoQueues =>
    \A i \in In(msgs[j].q) :
      i < j /\ msgs[i].group = msgs[j].group /\ Eligible(i) => Delivered(i)

FifoInOrder == [][DeliversInOrder]_vars

(* A send within the five-minute window of a live message with its          *)
(* deduplication id does not add a second one, although the reaper, purges  *)
(* and consumers change both the entries and the messages meanwhile.        *)
(* Redriven and reaped copies bypass deduplication and are excepted.        *)
DedupHolds ==
  \A i, j \in Ids :
    /\ i < j /\ Live(i) /\ Live(j) /\ msgs[i].q = msgs[j].q /\ msgs[i].q \in FifoQueues
    /\ msgs[i].dedup = msgs[j].dedup /\ msgs[i].dedup # NoDedup
    /\ ~msgs[i].resent /\ ~msgs[j].resent
    => Expired(i) \/ msgs[i].life + DedupWindow <= msgs[j].life

(* The reaper collects its candidates before it transfers them; a message   *)
(* that a consumer received in between, or that was released below the      *)
(* threshold, is left alone.                                                *)
ReaperMovesDue ==
  \A i \in Ids : moves' # moves /\ Live(i) /\ msgs'[i].deleted =>
    /\ msgs[i].hidden = 0
    /\ HasDLQ(msgs[i].q) /\ msgs[i].count >= policy[msgs[i].q].max

ReaperSparesInFlight == [][ReaperMovesDue]_vars
=============================================================================
