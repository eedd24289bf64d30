----------------------------- MODULE SQSProofs ------------------------------
(***************************************************************************)
(* Proofs about SQSStore, for every set of queues, every policy and every  *)
(* bound, and about LongPoll, for every number of polls and every wait time:*)
(* the store under long polls is still the store of SQSStore, so that its  *)
(* theorems carry over, and no wake-up is lost.                            *)
(***************************************************************************)
EXTENDS LongPoll, FiniteSetTheorems, WellFoundedInduction, TLAPS

(***************************************************************************)
(* THE STORE                                                               *)
(***************************************************************************)

(***************************************************************************)
(* Types                                                                   *)
(***************************************************************************)
LEMMA GoneType == Gone \in Message
BY SQSAssumption DEF Gone, Message, NoQueue

LEMMA TombstoneType ==
  ASSUME NEW q \in Queues \cup {NoQueue} PROVE Tombstone(q) \in Message
BY SQSAssumption DEF Tombstone, Gone, Message

(* A batch of messages is finite, so a redrive's copies can be counted. *)
LEMMA BatchFinite ==
  ASSUME NEW S \in SUBSET Ids PROVE IsFiniteSet(S) /\ Cardinality(S) \in Nat
<1>1. IsFiniteSet(Ids)
  BY FS_Interval, SQSAssumption DEF Ids
<1> QED BY <1>1, FS_Subset, FS_CardinalityType

LEMMA RememberType ==
  ASSUME TypeOK, NEW q \in Queues, NEW d \in Dedups, Remember(q, d)
  PROVE  dedup' \in [Queues -> [Dedups -> Nat]]
<1>1. dedup[q] \in [Dedups -> Nat] /\ DedupWindow \in Nat
  BY SQSAssumption DEF TypeOK
<1>2. [dedup[q] EXCEPT ![d] = DedupWindow] \in [Dedups -> Nat]
  BY <1>1
<1>3. CASE q \in FifoQueues /\ d # NoDedup
  BY <1>2, <1>3 DEF TypeOK, Remember
<1>4. CASE ~(q \in FifoQueues /\ d # NoDedup)
  BY <1>4 DEF TypeOK, Remember
<1> QED BY <1>3, <1>4

LEMMA TypeInit == Init => TypeOK
BY GoneType, SQSAssumption DEF Init, TypeOK, Ids, NoPolicy

LEMMA TypeStep == TypeOK /\ [Next]_vars => TypeOK'
<1> SUFFICES ASSUME TypeOK, [Next]_vars PROVE TypeOK'
  OBVIOUS
<1> USE DEF TypeOK
<1>t. \A i \in Ids : msgs[i] \in Message
  OBVIOUS
<1>l. \A n \in Nat : Less(n) \in Nat
  BY DEF Less
<1>1. CASE Tick
  <2>1. \A i \in Ids : [msgs[i] EXCEPT !.hidden = Less(@), !.delay = Less(@), !.life = Less(@)] \in Message
    BY <1>t, <1>l DEF Message
  <2> QED BY <1>1, <2>1, <1>l DEF Tick
<1>2. ASSUME NEW q \in Queues, NEW g \in Groups, NEW d \in Dedups, NEW delay \in Delays,
             SendMessage(q, g, d, delay)
      PROVE  TypeOK'
  <2>1. last + 1 \in Ids /\ last' \in 0..MaxMsgs
    BY <1>2, SQSAssumption DEF SendMessage, Ids
  <2>2. (IF delay = 0 THEN QueueDelay[q] ELSE delay) \in Nat
    BY SQSAssumption
  <2>3. NewMessage(q, last + 1, g, d, IF delay = 0 THEN QueueDelay[q] ELSE delay, FALSE) \in Message
    BY <2>1, <2>2, SQSAssumption DEF Ids, NewMessage, Message
  <2>4. msgs' \in [Ids -> Message]
    BY <1>2, <2>1, <2>3 DEF SendMessage
  <2>5. dedup' \in [Queues -> [Dedups -> Nat]]
    BY <1>2, RememberType DEF SendMessage
  <2> QED BY <1>2, <2>1, <2>4, <2>5 DEF SendMessage
<1>3. ASSUME NEW q \in Queues, NEW n \in BatchSizes, NEW vt \in VisTimeouts,
             ReceiveMessage(q, n, vt)
      PROVE  TypeOK'
  <2>1. \A i \in Ids : [msgs[i] EXCEPT !.rcpt = @ + 1, !.count = @ + 1, !.hidden = vt] \in Message
    <3> TAKE i \in Ids
    <3>1. msgs[i].rcpt + 1 \in Nat /\ msgs[i].count + 1 \in Nat /\ vt \in Nat
      BY <1>t, SQSAssumption DEF Message
    <3> QED BY <3>1, <1>t DEF Message
  <2> QED BY <1>3, <2>1 DEF ReceiveMessage
<1>4. ASSUME NEW q \in Queues, PurgeQueue(q) PROVE TypeOK'
  BY <1>4, GoneType DEF PurgeQueue
<1>5. ASSUME NEW q \in Queues, DeleteQueue(q) PROVE TypeOK'
  BY <1>5, GoneType DEF DeleteQueue
<1>6. ASSUME NEW q \in Queues, NEW p \in Policies, CreateQueue(q, p) \/ SetQueueAttributes(q, p)
      PROVE  TypeOK'
  BY <1>6 DEF CreateQueue, SetQueueAttributes
<1>7. ASSUME NEW q \in Queues, NEW to \in Queues, NEW n \in BatchSizes, RedriveMessages(q, to, n)
      PROVE  TypeOK'
  <2> DEFINE batch == FirstOf({i \in In(q) : Live(i) /\ ~Expired(i)}, n)
             copies == (last + 1)..(last + Cardinality(batch))
  <2>1. batch \subseteq Ids
    BY DEF FirstOf, In
  <2>2. Cardinality(batch) \in Nat
    BY <2>1, BatchFinite
  <2>3. last + Cardinality(batch) <= MaxMsgs
    BY <1>7 DEF RedriveMessages
  <2> HIDE DEF batch
  <2>4. copies \subseteq Ids /\ last + Cardinality(batch) \in 0..MaxMsgs
    BY <2>2, <2>3, SQSAssumption DEF Ids
  <2>5. PICK src \in [copies -> batch] :
          msgs' = [k \in Ids |->
            IF k \in copies
              THEN NewMessage(to, msgs[src[k]].origin, msgs[src[k]].group, msgs[src[k]].dedup,
                              QueueDelay[to], TRUE)
              ELSE IF k \in batch THEN Tombstone(q) ELSE msgs[k]]
    BY <1>7 DEF RedriveMessages, batch
  <2>6. \A k \in copies : NewMessage(to, msgs[src[k]].origin, msgs[src[k]].group,
                            msgs[src[k]].dedup, QueueDelay[to], TRUE) \in Message
    <3> TAKE k \in copies
    <3>1. src[k] \in Ids
      BY <2>1
    <3>2. /\ msgs[src[k]].origin \in Nat /\ msgs[src[k]].group \in Groups
          /\ msgs[src[k]].dedup \in Dedups
      BY <3>1, <1>t DEF Message
    <3>3. QueueDelay[to] \in Nat
      BY SQSAssumption
    <3> QED BY <3>2, <3>3, SQSAssumption DEF NewMessage, Message
  <2>7. msgs' \in [Ids -> Message]
    BY <2>5, <2>6, TombstoneType
  <2>8. last' \in 0..MaxMsgs
    BY <1>7, <2>4 DEF RedriveMessages, batch
  <2> QED BY <1>7, <2>7, <2>8 DEF RedriveMessages
<1>8. ASSUME NEW q \in Queues, ReapQueue(q) PROVE TypeOK'
  <2>1. \A i \in Ids : [msgs[i] EXCEPT !.stale = TRUE] \in Message
    BY <1>t DEF Message
  <2>2. \A i \in In(q) : [id |-> i, rcpt |-> msgs[i].rcpt] \in [id : Ids, rcpt : Nat]
    BY <1>t DEF In, Message
  <2>3. msgs' \in [Ids -> Message]
    BY <1>8, <2>1, GoneType DEF ReapQueue
  <2>4. moves' \subseteq [id : Ids, rcpt : Nat]
    BY <1>8, <2>2 DEF ReapQueue
  <2> QED BY <1>8, <2>3, <2>4 DEF ReapQueue
<1>9. ASSUME NEW i \in Ids, DeleteMessageByID(i) \/ \E n \in 0..MaxReceives : DeleteMessage(i, n)
      PROVE  TypeOK'
  <2>1. Tombstone(msgs[i].q) \in Message
    BY <1>t, TombstoneType DEF Message
  <2> QED BY <1>9, <2>1 DEF DeleteMessageByID, DeleteMessage
<1>10. ASSUME NEW i \in Ids, NEW n \in 0..MaxReceives, NEW vt \in VisTimeouts,
              ChangeMessageVisibility(i, n, vt)
       PROVE  TypeOK'
  <2>1. [msgs[i] EXCEPT !.hidden = vt] \in Message
    BY <1>t, SQSAssumption DEF Message
  <2> QED BY <1>10, <2>1 DEF ChangeMessageVisibility
<1>11. ASSUME NEW i \in Ids, NEW n \in 0..MaxReceives, ReleaseMessage(i, n) PROVE TypeOK'
  <2>1. [msgs[i] EXCEPT !.hidden = 0, !.count = IF @ > 0 THEN @ - 1 ELSE 0] \in Message
    <3>1. (IF msgs[i].count > 0 THEN msgs[i].count - 1 ELSE 0) \in Nat
      BY <1>t DEF Message
    <3> QED BY <3>1, <1>t DEF Message
  <2> QED BY <1>11, <2>1 DEF ReleaseMessage
<1>12. ASSUME NEW i \in Ids, NEW r \in BOOLEAN, Live(i), HasDLQ(msgs[i].q), Transfer(i, r)
       PROVE  /\ last' \in 0..MaxMsgs /\ msgs' \in [Ids -> Message]
              /\ dedup' \in [Queues -> [Dedups -> Nat]] /\ owed' \subseteq Ids
  <2> DEFINE m == msgs[i]
             to == policy[m.q].target
  <2>1. /\ m.q \in Queues /\ m.origin \in Nat /\ m.group \in Groups /\ m.dedup \in Dedups
    BY <1>12, <1>t DEF Live, Message
  <2>2. to \in Queues
    BY <1>12, <2>1, SQSAssumption DEF HasDLQ, NoPolicy
  <2>3. Tombstone(m.q) \in Message
    BY <2>1, TombstoneType
  <2>4. CASE ~r /\ Duplicate(to, m.dedup)
    BY <1>12, <2>3, <2>4 DEF Transfer
  <2>5. CASE ~(~r /\ Duplicate(to, m.dedup))
    <3>1. (IF r THEN 0 ELSE QueueDelay[to]) \in Nat
      BY <2>2, SQSAssumption
    <3>2. NewMessage(to, m.origin, m.group, m.dedup, IF r THEN 0 ELSE QueueDelay[to], r) \in Message
      BY <2>1, <2>2, <3>1, SQSAssumption DEF NewMessage, Message
    <3>3. last + 1 \in Ids /\ last' \in 0..MaxMsgs
      BY <1>12, <2>5, SQSAssumption DEF Transfer, Ids
    <3>4. msgs' = [msgs EXCEPT ![i] = Tombstone(@.q),
                     ![last + 1] = NewMessage(to, m.origin, m.group, m.dedup,
                                              IF r THEN 0 ELSE QueueDelay[to], r)]
      BY <1>12, <2>5 DEF Transfer
    <3>5. msgs' \in [Ids -> Message]
      BY <3>2, <3>3, <3>4, <2>3
    <3>6. dedup' \in [Queues -> [Dedups -> Nat]]
      <4>1. CASE r
        BY <1>12, <2>5, <4>1 DEF Transfer
      <4>2. CASE ~r
        <5>1. Remember(to, m.dedup)
          BY <1>12, <2>5, <4>2 DEF Transfer
        <5> QED BY <5>1, <2>1, <2>2, RememberType
      <4> QED BY <4>1, <4>2
    <3>7. owed' = owed
      BY <1>12, <2>5 DEF Transfer
    <3> QED BY <3>3, <3>5, <3>6, <3>7
  <2> QED BY <2>4, <2>5
<1>13. ASSUME NEW i \in Ids, NEW n \in 0..MaxReceives, MoveToDLQIfExceeded(i, n) PROVE TypeOK'
  <2>1. Live(i) /\ HasDLQ(msgs[i].q) /\ Transfer(i, FALSE)
    BY <1>13 DEF MoveToDLQIfExceeded, Transferable, DlqMessage
  <2> QED BY <1>12, <1>13, <2>1 DEF MoveToDLQIfExceeded
<1>14. CASE ReapStart
  BY <1>14 DEF ReapStart
<1>15. ASSUME NEW c \in moves, ReapMove(c) PROVE TypeOK'
  <2>1. c.id \in Ids
    OBVIOUS
  <2>2. CASE Transferable(c.id, c.rcpt, TRUE)
    <3>1. Live(c.id) /\ HasDLQ(msgs[c.id].q) /\ Transfer(c.id, TRUE)
      BY <1>15, <2>2 DEF ReapMove, Transferable, DlqMessage
    <3> QED BY <1>12, <1>15, <2>1, <3>1 DEF ReapMove
  <2>3. CASE ~Transferable(c.id, c.rcpt, TRUE)
    BY <1>15, <2>3 DEF ReapMove
  <2> QED BY <2>2, <2>3
<1>16. CASE UNCHANGED vars
  BY <1>16 DEF vars
<1> QED
  BY <1>1, <1>2, <1>3, <1>4, <1>5, <1>6, <1>7, <1>8, <1>9, <1>10, <1>11, <1>13, <1>14, <1>15, <1>16
  DEF Next, Consume

(***************************************************************************)
(* One copy of every message.  The invariant adds to the two properties     *)
(* that numbers past the newest are unused and that every origin and debt   *)
(* is a number already given.                                               *)
(***************************************************************************)
SlotInv ==
  /\ \A i \in Ids : i > last => msgs[i].q = NoQueue
  /\ \A i \in Ids : Live(i) => msgs[i].origin \in 1..last
  /\ owed \subseteq 1..last

CopyInv == SlotInv /\ AtMostOneLive /\ NothingLost
IInv == TypeOK /\ CopyInv

(* A step that adds no message and removes only those it settles. *)
Shrinks ==
  /\ last' = last
  /\ \A i \in Ids : i > last => msgs'[i].q = NoQueue
  /\ \A i \in Ids : Live(i)' => Live(i) /\ msgs'[i].origin = msgs[i].origin
  /\ owed' \subseteq owed
  /\ \A i \in Ids : Live(i) /\ ~Live(i)' => msgs[i].origin \notin owed'

(* A step that replaces the messages of B by as many new ones. *)
Relocates(B, C, src) ==
  /\ last' \in Nat /\ last' >= last
  /\ C = (last + 1)..last' /\ C \subseteq Ids
  /\ B \subseteq {i \in Ids : Live(i)}
  /\ src \in [C -> B]
  /\ \A j, k \in C : src[j] = src[k] => j = k
  /\ \A i \in B : \E k \in C : src[k] = i
  /\ \A k \in C : Live(k)' /\ msgs'[k].origin = msgs[src[k]].origin
  /\ \A k \in B : ~Live(k)'
  /\ \A k \in Ids \ (B \cup C) : msgs'[k] = msgs[k]
  /\ owed' = owed

LEMMA ShrinkStep == ASSUME TypeOK, CopyInv, Shrinks PROVE CopyInv'
<1>1. SlotInv'
  BY DEF CopyInv, SlotInv, Shrinks
<1>2. AtMostOneLive'
  BY DEF CopyInv, AtMostOneLive, Shrinks
<1>3. NothingLost'
  <2> SUFFICES ASSUME NEW o \in owed' PROVE \E i \in Ids : Live(i)' /\ msgs'[i].origin = o
    BY DEF NothingLost
  <2>1. PICK i \in Ids : Live(i) /\ msgs[i].origin = o
    BY DEF Shrinks, CopyInv, NothingLost
  <2> QED BY <2>1 DEF Shrinks
<1> QED BY <1>1, <1>2, <1>3 DEF CopyInv

LEMMA RelocateStep ==
  ASSUME TypeOK, CopyInv, NEW B, NEW C, NEW src, Relocates(B, C, src)
  PROVE  CopyInv'
<1> USE DEF Relocates
<1>0. last \in Nat
  BY SQSAssumption DEF TypeOK
<1>b. \A i \in B : i \notin C
  BY <1>0 DEF CopyInv, SlotInv, Live
<1>1. SlotInv'
  <2>1. ASSUME NEW i \in Ids, i > last' PROVE msgs'[i].q = NoQueue
    <3>1. i > last /\ i \notin C
      BY <1>0, <2>1 DEF Ids
    <3>2. i \notin B
      BY <3>1 DEF CopyInv, SlotInv, Live
    <3> QED BY <3>1, <3>2 DEF CopyInv, SlotInv
  <2>2. ASSUME NEW i \in Ids, Live(i)' PROVE msgs'[i].origin \in 1..last'
    <3>1. CASE i \in C
      <4>1. src[i] \in Ids /\ Live(src[i])
        BY <3>1
      <4>2. msgs[src[i]].origin \in 1..last
        BY <4>1 DEF CopyInv, SlotInv
      <4> QED BY <1>0, <3>1, <4>2
    <3>2. CASE i \notin C
      <4>1. msgs'[i] = msgs[i]
        BY <2>2, <3>2
      <4>2. Live(i)
        BY <2>2, <4>1 DEF Live
      <4>3. msgs[i].origin \in 1..last
        BY <4>2 DEF CopyInv, SlotInv
      <4> QED BY <1>0, <4>1, <4>3
    <3> QED BY <3>1, <3>2
  <2>3. owed' \subseteq 1..last'
    BY <1>0 DEF CopyInv, SlotInv
  <2> QED BY <2>1, <2>2, <2>3 DEF SlotInv
(* every live message stands for one that was live before *)
<1> DEFINE old(i) == IF i \in C THEN src[i] ELSE i
<1>2. ASSUME NEW i \in Ids, Live(i)'
      PROVE  old(i) \in Ids /\ Live(old(i)) /\ msgs[old(i)].origin = msgs'[i].origin
  <2>1. CASE i \in C
    BY <2>1
  <2>2. CASE i \notin C
    <3>1. msgs'[i] = msgs[i]
      BY <1>2, <2>2
    <3> QED BY <1>2, <2>2, <3>1 DEF Live
  <2> QED BY <2>1, <2>2
<1>3. AtMostOneLive'
  <2> SUFFICES ASSUME NEW i \in Ids, NEW j \in Ids, Live(i)', Live(j)',
                      msgs'[i].origin = msgs'[j].origin
               PROVE  i = j
    BY DEF AtMostOneLive
  <2>1. old(i) = old(j)
    BY <1>2 DEF CopyInv, AtMostOneLive
  <2>2. CASE i \in C <=> j \in C
    BY <2>1, <2>2
  <2>3. CASE ~(i \in C <=> j \in C)
    <3>1. i \in B \/ j \in B
      BY <2>1, <2>3
    <3> QED BY <3>1
  <2> QED BY <2>2, <2>3
<1>4. NothingLost'
  <2> SUFFICES ASSUME NEW o \in owed' PROVE \E i \in Ids : Live(i)' /\ msgs'[i].origin = o
    BY DEF NothingLost
  <2>1. PICK i \in Ids : Live(i) /\ msgs[i].origin = o
    BY DEF CopyInv, NothingLost
  <2>2. CASE i \in B
    <3>1. PICK k \in C : src[k] = i
      BY <2>2
    <3> QED BY <2>1, <3>1
  <2>3. CASE i \notin B
    <3>1. i \notin C
      BY <2>1, <1>0 DEF CopyInv, SlotInv, Live
    <3>2. msgs'[i] = msgs[i]
      BY <2>3, <3>1
    <3> QED BY <2>1, <3>2 DEF Live
  <2> QED BY <2>2, <2>3
<1> QED BY <1>1, <1>3, <1>4 DEF CopyInv

(* A transfer that is not absorbed is a relocation of one message. *)
LEMMA TransferStep ==
  ASSUME IInv, NEW i \in Ids, NEW r \in BOOLEAN, Live(i), HasDLQ(msgs[i].q), Transfer(i, r)
  PROVE  CopyInv'
<1> DEFINE m == msgs[i]
           to == policy[m.q].target
<1>0. last \in Nat /\ last <= MaxMsgs /\ MaxMsgs \in Nat /\ i <= last /\ i \in Nat
  BY SQSAssumption DEF IInv, TypeOK, Ids, Live, CopyInv, SlotInv
<1>q. m.q \in Queues
  BY DEF IInv, TypeOK, Message, Live
<1>1. CASE ~r /\ Duplicate(to, m.dedup)
  <2>1. /\ msgs' = [msgs EXCEPT ![i] = Tombstone(@.q)]
        /\ owed' = owed \ {m.origin} /\ last' = last
    BY <1>1 DEF Transfer
  <2>2. ~Live(i)' /\ \A k \in Ids \ {i} : msgs'[k] = msgs[k]
    BY <2>1 DEF IInv, TypeOK, Live, Tombstone, Gone
  <2>3. Shrinks
    BY <1>0, <2>1, <2>2 DEF Shrinks, IInv, CopyInv, SlotInv, Live
  <2> QED BY <2>3, ShrinkStep DEF IInv
<1>2. CASE ~(~r /\ Duplicate(to, m.dedup))
  <2> DEFINE copy == NewMessage(to, m.origin, m.group, m.dedup, IF r THEN 0 ELSE QueueDelay[to], r)
  <2>1. /\ last < MaxMsgs /\ last' = last + 1 /\ owed' = owed
        /\ msgs' = [msgs EXCEPT ![i] = Tombstone(@.q), ![last + 1] = copy]
    BY <1>2 DEF Transfer
  <2>2. PICK new \in Ids : new = last + 1 /\ new # i
    BY <1>0, <2>1 DEF Ids
  <2>3. /\ msgs'[new] = copy /\ msgs'[i] = Tombstone(m.q)
        /\ \A k \in Ids \ {i, new} : msgs'[k] = msgs[k]
    BY <2>1, <2>2 DEF IInv, TypeOK
  <2>4. to \in Queues /\ NoQueue \notin Queues
    BY <1>q, SQSAssumption DEF HasDLQ, IInv, TypeOK, NoPolicy
  <2>5. copy.q = to /\ copy.origin = m.origin /\ ~copy.deleted
    BY DEF NewMessage
  <2>6. Live(new)' /\ msgs'[new].origin = m.origin
    BY <2>3, <2>4, <2>5 DEF Live
  <2>7. ~Live(i)'
    BY <2>3 DEF Live, Tombstone, Gone
  <2>8. (last + 1)..last' = {new} /\ last' \in Nat /\ last' >= last
    BY <1>0, <2>1, <2>2
  <2> DEFINE src == [k \in {new} |-> i]
  <2>9. src \in [{new} -> {i}] /\ src[new] = i
    OBVIOUS
  <2> HIDE DEF src, copy
  <2>10. Relocates({i}, {new}, src)
    BY <2>1, <2>2, <2>3, <2>6, <2>7, <2>8, <2>9 DEF Relocates
  <2> QED BY <2>10, RelocateStep DEF IInv
<1> QED BY <1>1, <1>2

LEMMA CopyStep == IInv /\ [Next]_vars => CopyInv'
<1> SUFFICES ASSUME IInv, [Next]_vars PROVE CopyInv'
  OBVIOUS
<1>t. msgs \in [Ids -> Message] /\ last \in Nat /\ MaxMsgs \in Nat /\ NoQueue \notin Queues
  BY SQSAssumption DEF IInv, TypeOK
<1>s. \A i \in Ids : i > last => msgs[i].q = NoQueue
  BY DEF IInv, CopyInv, SlotInv
<1> DEFINE Alike(i) == /\ msgs'[i].q = msgs[i].q
                       /\ msgs'[i].origin = msgs[i].origin
                       /\ msgs'[i].deleted = msgs[i].deleted
<1>k. ASSUME last' = last, owed' = owed, \A i \in Ids : Alike(i)
      PROVE  CopyInv'
  <2>1. Shrinks
    BY <1>k, <1>s DEF Shrinks, Live
  <2> QED BY <2>1, ShrinkStep DEF IInv
<1>1. CASE Tick
  <2>1. \A i \in Ids : \E h, d, l :
          msgs'[i] = [msgs[i] EXCEPT !.hidden = h, !.delay = d, !.life = l]
    BY <1>1 DEF Tick
  <2>2. \A i \in Ids : Alike(i)
    <3> TAKE i \in Ids
    <3>1. PICK h, d, l : msgs'[i] = [msgs[i] EXCEPT !.hidden = h, !.delay = d, !.life = l]
      BY <2>1
    <3> QED BY <1>t, <3>1 DEF Message
  <2> QED BY <1>1, <1>k, <2>2 DEF Tick
<1>2. ASSUME NEW q \in Queues, NEW g \in Groups, NEW d \in Dedups, NEW delay \in Delays,
             SendMessage(q, g, d, delay)
      PROVE  CopyInv'
  <2>1. PICK new \in Ids : new = last + 1 /\ last' = new /\ owed' = owed \cup {new}
    BY <1>2, <1>t DEF SendMessage, Ids
  <2>2. /\ msgs'[new].q = q /\ msgs'[new].origin = new
        /\ msgs'[new].deleted = FALSE
    BY <1>2, <1>t, <2>1 DEF SendMessage, NewMessage
  <2>3. \A k \in Ids \ {new} : msgs'[k] = msgs[k]
    BY <1>2, <1>t, <2>1 DEF SendMessage
  <2>4. Live(new)' /\ ~Live(new)
    BY <2>1, <2>2, <1>t, <1>s DEF Live
  <2>5. \A k \in Ids \ {new} : Live(k)' <=> Live(k)
    BY <2>3 DEF Live
  <2>6. \A k \in Ids : Live(k) => msgs[k].origin \in 1..last
    BY DEF IInv, CopyInv, SlotInv
  <2>7. SlotInv'
    <3>1. \A i \in Ids : i > last' => msgs'[i].q = NoQueue
      BY <2>1, <2>3, <1>s, <1>t DEF Ids
    <3>2. \A i \in Ids : Live(i)' => msgs'[i].origin \in 1..last'
      BY <2>1, <2>2, <2>3, <2>5, <2>6, <1>t
    <3>3. owed' \subseteq 1..last'
      BY <2>1, <1>t DEF IInv, CopyInv, SlotInv
    <3> QED BY <3>1, <3>2, <3>3 DEF SlotInv
  <2>8. AtMostOneLive'
    <3> SUFFICES ASSUME NEW i \in Ids, NEW j \in Ids, Live(i)', Live(j)',
                        msgs'[i].origin = msgs'[j].origin
                 PROVE  i = j
      BY DEF AtMostOneLive
    <3>1. CASE i # new /\ j # new
      BY <3>1, <2>3, <2>5 DEF IInv, CopyInv, AtMostOneLive
    <3>2. CASE i = new /\ j # new
      BY <3>2, <2>1, <2>2, <2>3, <2>5, <2>6, <1>t
    <3>3. CASE i # new /\ j = new
      BY <3>3, <2>1, <2>2, <2>3, <2>5, <2>6, <1>t
    <3> QED BY <3>1, <3>2, <3>3
  <2>9. NothingLost'
    <3> SUFFICES ASSUME NEW o \in owed' PROVE \E i \in Ids : Live(i)' /\ msgs'[i].origin = o
      BY DEF NothingLost
    <3>1. CASE o = new
      BY <3>1, <2>1, <2>2, <2>4
    <3>2. CASE o # new
      <4>1. PICK i \in Ids : Live(i) /\ msgs[i].origin = o
        BY <3>2, <2>1 DEF IInv, CopyInv, NothingLost
      <4> QED BY <4>1, <2>3, <2>4, <2>5
    <3> QED BY <3>1, <3>2
  <2> QED BY <2>7, <2>8, <2>9 DEF CopyInv
<1>3. ASSUME NEW q \in Queues, NEW n \in BatchSizes, NEW vt \in VisTimeouts,
             ReceiveMessage(q, n, vt)
      PROVE  CopyInv'
  <2>1. \A i \in Ids :
          \/ msgs'[i] = [msgs[i] EXCEPT !.rcpt = @ + 1, !.count = @ + 1, !.hidden = vt]
          \/ msgs'[i] = msgs[i]
    BY <1>3 DEF ReceiveMessage
  <2>2. \A i \in Ids : Alike(i)
    BY <1>t, <2>1 DEF Message
  <2> QED BY <1>3, <1>k, <2>2 DEF ReceiveMessage
<1>4. ASSUME NEW q \in Queues, PurgeQueue(q) \/ DeleteQueue(q) PROVE CopyInv'
  <2>1. /\ \A i \in Ids : msgs'[i] = IF i \in In(q) THEN Gone ELSE msgs[i]
        /\ owed' = owed \ {msgs[i].origin : i \in {j \in In(q) : Live(j)}} /\ last' = last
    BY <1>4 DEF PurgeQueue, DeleteQueue
  <2>2. Gone.q = NoQueue
    BY DEF Gone
  <2>3. Shrinks
    BY <2>1, <2>2, <1>s DEF Shrinks, Live, In
  <2> QED BY <2>3, ShrinkStep DEF IInv
<1>5. ASSUME NEW q \in Queues, NEW p \in Policies, CreateQueue(q, p) \/ SetQueueAttributes(q, p)
      PROVE  CopyInv'
  BY <1>5, <1>k DEF CreateQueue, SetQueueAttributes
<1>6. ASSUME NEW q \in Queues, NEW to \in Queues, NEW n \in BatchSizes, RedriveMessages(q, to, n)
      PROVE  CopyInv'
  <2> DEFINE batch == FirstOf({i \in In(q) : Live(i) /\ ~Expired(i)}, n)
             copies == (last + 1)..(last + Cardinality(batch))
  <2>1. batch \subseteq {i \in Ids : Live(i)}
    BY DEF FirstOf, In
  <2>2. Cardinality(batch) \in Nat
    BY <2>1, BatchFinite
  <2>3. last + Cardinality(batch) <= MaxMsgs /\ last' = last + Cardinality(batch) /\ owed' = owed
    BY <1>6 DEF RedriveMessages
  <2>4. PICK src \in [copies -> batch] :
          /\ \A j, k \in copies : j < k => src[j] < src[k]
          /\ \A i \in batch : \E j \in copies : src[j] = i
          /\ msgs' = [k \in Ids |->
               IF k \in copies
                 THEN NewMessage(to, msgs[src[k]].origin, msgs[src[k]].group, msgs[src[k]].dedup,
                                 QueueDelay[to], TRUE)
                 ELSE IF k \in batch THEN Tombstone(q) ELSE msgs[k]]
    BY <1>6 DEF RedriveMessages
  <2> HIDE DEF batch
  <2>5. copies \subseteq Ids /\ last' \in Nat /\ last' >= last
    BY <1>t, <2>2, <2>3 DEF Ids
  <2>6. \A j, k \in copies : src[j] = src[k] => j = k
    <3> TAKE j, k \in copies
    <3>1. src[j] \in Ids /\ src[k] \in Ids /\ j \in Ids /\ k \in Ids
      BY <2>1, <2>5
    <3>2. src[j] \in Nat /\ src[k] \in Nat /\ j \in Nat /\ k \in Nat
      BY <3>1, <1>t DEF Ids
    <3> QED BY <3>2, <2>4
  <2>7. \A k \in copies : Live(k)' /\ msgs'[k].origin = msgs[src[k]].origin
    BY <2>4, <2>5, <1>t DEF Live, NewMessage
  <2>8. \A k \in batch : k \notin copies
    BY <2>1, <2>5, <1>s, <1>t DEF Live
  <2>9. \A k \in batch : ~Live(k)'
    BY <2>1, <2>4, <2>8 DEF Live, Tombstone, Gone
  <2>10. \A k \in Ids \ (batch \cup copies) : msgs'[k] = msgs[k]
    BY <2>4
  <2>11. Relocates(batch, copies, src)
    BY <2>1, <2>3, <2>4, <2>5, <2>6, <2>7, <2>9, <2>10 DEF Relocates
  <2> QED BY <2>11, RelocateStep DEF IInv
<1>7. ASSUME NEW q \in Queues, ReapQueue(q) PROVE CopyInv'
  <2> DEFINE dead == {i \in In(q) : msgs[i].deleted \/ Expired(i)}
  <2>1. \A i \in Ids :
          \/ i \in dead /\ msgs'[i] = Gone
          \/ i \notin dead /\ msgs'[i] = [msgs[i] EXCEPT !.stale = TRUE]
          \/ i \notin dead /\ msgs'[i] = msgs[i]
    <3> TAKE i \in Ids
    <3> DEFINE over == {k \in In(q) \ dead : msgs[k].hidden = 0 /\ msgs[k].count >= Threshold(q)}
    <3>1. msgs'[i] = IF i \in dead THEN Gone
                     ELSE IF i \in over /\ ~HasDLQ(q)
                       THEN [msgs[i] EXCEPT !.stale = TRUE] ELSE msgs[i]
      BY <1>7 DEF ReapQueue
    <3> HIDE DEF over, dead
    <3>2. CASE i \in dead
      BY <3>1, <3>2
    <3>3. CASE i \notin dead /\ i \in over /\ ~HasDLQ(q)
      BY <3>1, <3>3
    <3>4. CASE i \notin dead /\ ~(i \in over /\ ~HasDLQ(q))
      BY <3>1, <3>4
    <3> QED BY <3>2, <3>3, <3>4
  <2>2. owed' = owed \ {msgs[i].origin : i \in {j \in dead : Live(j)}} /\ last' = last
    BY <1>7 DEF ReapQueue
  <2>3. \A i \in Ids : i \notin dead => Alike(i)
    BY <1>t, <2>1 DEF Message
  <2>4. \A i \in dead : i \in Ids /\ msgs'[i].q = NoQueue
    <3>1. \A i \in dead : i \in Ids
      BY DEF In
    <3>2. Gone.q = NoQueue
      BY DEF Gone
    <3> HIDE DEF dead
    <3> QED BY <3>1, <3>2, <2>1
  <2> HIDE DEF dead
  <2>5. Shrinks
    BY <2>2, <2>3, <2>4, <1>s DEF Shrinks, Live
  <2> QED BY <2>5, ShrinkStep DEF IInv
<1>8. ASSUME NEW i \in Ids, DeleteMessageByID(i) \/ \E n \in 0..MaxReceives : DeleteMessage(i, n)
      PROVE  CopyInv'
  <2>1. /\ msgs' = [msgs EXCEPT ![i] = Tombstone(@.q)] /\ last' = last
        /\ owed' = owed \ {msgs[i].origin} /\ Live(i)
    BY <1>8 DEF DeleteMessageByID, DeleteMessage, Holds
  <2>2. ~Live(i)' /\ \A k \in Ids \ {i} : msgs'[k] = msgs[k]
    BY <2>1, <1>t DEF Live, Tombstone, Gone
  <2>3. i <= last /\ i \in Nat
    BY <2>1, <1>s, <1>t DEF Live, Ids
  <2>4. Shrinks
    BY <2>1, <2>2, <2>3, <1>s, <1>t DEF Shrinks, Live
  <2> QED BY <2>4, ShrinkStep DEF IInv
<1>9. ASSUME NEW i \in Ids, NEW n \in 0..MaxReceives, NEW vt \in VisTimeouts,
             ChangeMessageVisibility(i, n, vt)
      PROVE  CopyInv'
  <2>1. msgs'[i] = [msgs[i] EXCEPT !.hidden = vt] /\ \A k \in Ids \ {i} : msgs'[k] = msgs[k]
    BY <1>9, <1>t DEF ChangeMessageVisibility
  <2>2. \A k \in Ids : Alike(k)
    BY <1>t, <2>1 DEF Message
  <2> QED BY <1>9, <1>k, <2>2 DEF ChangeMessageVisibility
<1>10. ASSUME NEW i \in Ids, NEW n \in 0..MaxReceives, ReleaseMessage(i, n) PROVE CopyInv'
  <2>1. /\ \E n2 : msgs'[i] = [msgs[i] EXCEPT !.hidden = 0, !.count = n2]
        /\ \A k \in Ids \ {i} : msgs'[k] = msgs[k]
    BY <1>10, <1>t DEF ReleaseMessage
  <2>2. \A k \in Ids : Alike(k)
    BY <1>t, <2>1 DEF Message
  <2> QED BY <1>10, <1>k, <2>2 DEF ReleaseMessage
<1>11. ASSUME NEW i \in Ids, NEW n \in 0..MaxReceives, MoveToDLQIfExceeded(i, n) PROVE CopyInv'
  BY <1>11, TransferStep DEF MoveToDLQIfExceeded, Transferable, DlqMessage
<1>12. CASE ReapStart
  BY <1>12, <1>k DEF ReapStart
<1>13. ASSUME NEW c \in moves, ReapMove(c) PROVE CopyInv'
  <2>1. c.id \in Ids
    BY DEF IInv, TypeOK
  <2>2. CASE Transferable(c.id, c.rcpt, TRUE)
    <3>1. Live(c.id) /\ HasDLQ(msgs[c.id].q) /\ Transfer(c.id, TRUE)
      BY <1>13, <2>2 DEF ReapMove, Transferable, DlqMessage
    <3> QED BY <2>1, <3>1, TransferStep
  <2>3. CASE ~Transferable(c.id, c.rcpt, TRUE)
    BY <1>13, <1>k, <2>3 DEF ReapMove
  <2> QED BY <2>2, <2>3
<1>14. CASE UNCHANGED vars
  BY <1>14, <1>k DEF vars
<1> QED
  BY <1>1, <1>2, <1>3, <1>4, <1>5, <1>6, <1>7, <1>8, <1>9, <1>10, <1>11, <1>12, <1>13, <1>14
  DEF Next, Consume

LEMMA IInvInit == Init => IInv
<1> SUFFICES ASSUME Init PROVE IInv
  OBVIOUS
<1>1. \A i \in Ids : msgs[i].q = NoQueue
  BY DEF Init, Gone
<1>2. owed = {} /\ \A i \in Ids : ~Live(i)
  BY <1>1 DEF Init, Live
<1>3. CopyInv
  BY <1>1, <1>2 DEF CopyInv, SlotInv, AtMostOneLive, NothingLost
<1> QED BY <1>3, TypeInit DEF IInv

(* The inductive invariant holds throughout. *)
THEOREM Invariance == Spec => []IInv
<1>1. IInv /\ [Next]_vars => IInv'
  BY TypeStep, CopyStep DEF IInv
<1> QED BY <1>1, IInvInit, PTL DEF Spec

(* TypeOK: the store's maps, messages and the reaper's pending work keep    *)
(* their types; the reaper only ever has existing queues left to visit.     *)
THEOREM StoreType == Spec => []TypeOK
<1>1. IInv => TypeOK
  BY DEF IInv
<1> QED BY <1>1, Invariance, PTL

(* AtMostOneLive: no interleaving of sends, transfers by the poller and the *)
(* reaper, redrives and queue deletions leaves two live copies of a message.*)
THEOREM OneLiveCopy == Spec => []AtMostOneLive
<1>1. IInv => AtMostOneLive
  BY DEF IInv, CopyInv
<1> QED BY <1>1, Invariance, PTL

(* NothingLost: a message no client removed, that did not expire and was    *)
(* not absorbed by a duplicate, is live somewhere.                          *)
THEOREM NoMessageLost == Spec => []NothingLost
<1>1. IInv => NothingLost
  BY DEF IInv, CopyInv
<1> QED BY <1>1, Invariance, PTL

(***************************************************************************)
(* The order of delivery                                                   *)
(***************************************************************************)
(* A step that receives nothing leaves the receipt of a queued message, or  *)
(* clears it with the message.                                              *)
Quiet == \A i \in Ids : \/ msgs[i].q = NoQueue
                        \/ msgs'[i].rcpt = msgs[i].rcpt
                        \/ msgs'[i].rcpt = 0

LEMMA QuietDelivers == ASSUME IInv, Quiet PROVE DeliversInOrder
BY DEF Quiet, DeliversInOrder, Delivered, IInv, TypeOK, Message

LEMMA QuietTransfer ==
  ASSUME IInv, NEW i \in Ids, NEW r \in BOOLEAN, Transfer(i, r)
  PROVE  Quiet
<1>1. \A k \in Ids : k > last => msgs[k].q = NoQueue
  BY DEF IInv, CopyInv, SlotInv
<1>2. last \in Nat /\ msgs \in [Ids -> Message]
  BY SQSAssumption DEF IInv, TypeOK
<1>3. \A k \in Ids \ {i, last + 1} : msgs'[k] = msgs[k]
  BY <1>2 DEF Transfer
<1>4. i # last + 1 => msgs'[i] = Tombstone(msgs[i].q)
  BY <1>2 DEF Transfer
<1>5. Tombstone(msgs[i].q).rcpt = 0
  BY DEF Tombstone, Gone
<1> QED BY <1>1, <1>2, <1>3, <1>4, <1>5 DEF Quiet

(* A receive takes, with a message, every earlier eligible one of its group.*)
LEMMA ReceiveInOrder ==
  ASSUME IInv, NEW q \in Queues, NEW n \in BatchSizes, NEW vt \in VisTimeouts,
         ReceiveMessage(q, n, vt)
  PROVE  DeliversInOrder
<1> DEFINE R == Receivable(q)
           batch == FirstOf(R, n)
<1>0. msgs \in [Ids -> Message] /\ n \in Nat
  BY SQSAssumption DEF IInv, TypeOK
<1>1. \A k \in Ids : k \notin batch => msgs'[k] = msgs[k]
  BY DEF ReceiveMessage
<1>2. \A k \in batch : k \in Ids /\ k \in R
  BY DEF FirstOf, Receivable, In
<1>3. \A k \in batch : msgs'[k].q = msgs[k].q /\ msgs'[k].rcpt = msgs[k].rcpt + 1
  BY <1>0, <1>2 DEF ReceiveMessage, Message
<1>4. ASSUME NEW k \in Ids, Delivered(k) PROVE k \in batch
  BY <1>0, <1>1, <1>4 DEF Delivered, Message
<1>5. ASSUME NEW k \in batch PROVE Delivered(k)
  BY <1>0, <1>2, <1>3, SQSAssumption DEF Delivered, Receivable, In, Message
<1> SUFFICES ASSUME NEW j \in Ids, Delivered(j), msgs[j].q \in FifoQueues,
                    NEW i \in In(msgs[j].q), i < j, msgs[i].group = msgs[j].group, Eligible(i)
             PROVE  i \in batch
  BY <1>5 DEF DeliversInOrder
<1>6. j \in batch /\ j \in R /\ msgs[j].q = q /\ i \in Ids /\ msgs[i].q = q
  BY <1>2, <1>4 DEF Receivable, In
<1>7. ~Hidden(i)
  BY <1>6 DEF Receivable, Blocked, In
<1>8. ~Blocked(i)
  <2> SUFFICES ASSUME Blocked(i) PROVE FALSE
    OBVIOUS
  <2>1. PICK k \in In(q) : k < i /\ Eligible(k) /\ Hidden(k) /\ msgs[k].group = msgs[i].group
    BY <1>6 DEF Blocked
  <2>2. k < j
    BY <2>1, <1>6, SQSAssumption DEF In, Ids
  <2>3. Blocked(j)
    BY <2>1, <2>2, <1>6 DEF Blocked
  <2> QED BY <2>3, <1>6 DEF Receivable
<1>9. i \in R
  BY <1>6, <1>7, <1>8 DEF Receivable, In
<1>10. Cardinality({l \in R : l < i}) <= Cardinality({l \in R : l < j})
  <2>1. R \subseteq Ids
    BY DEF Receivable, In
  <2>2. {l \in R : l < i} \subseteq {l \in R : l < j}
    BY <2>1, <1>6, SQSAssumption DEF Ids
  <2>3. IsFiniteSet({l \in R : l < j})
    BY <2>1, BatchFinite
  <2> QED BY <2>2, <2>3, FS_Subset
<1>11. Cardinality({l \in R : l < j}) < n
  BY <1>6 DEF FirstOf
<1>12. Cardinality({l \in R : l < i}) \in Nat /\ Cardinality({l \in R : l < j}) \in Nat
  <2>1. R \subseteq Ids
    BY DEF Receivable, In
  <2> QED BY <2>1, BatchFinite
<1> HIDE DEF R
<1> QED BY <1>0, <1>9, <1>10, <1>11, <1>12 DEF FirstOf

LEMMA OrderStep == IInv /\ [Next]_vars => [DeliversInOrder]_vars
<1> SUFFICES ASSUME IInv, Next PROVE DeliversInOrder
  OBVIOUS
<1>t. msgs \in [Ids -> Message] /\ last \in Nat /\ MaxMsgs \in Nat
  BY SQSAssumption DEF IInv, TypeOK
<1>s. \A i \in Ids : i > last => msgs[i].q = NoQueue
  BY DEF IInv, CopyInv, SlotInv
<1>g. Gone.rcpt = 0 /\ \A q : Tombstone(q).rcpt = 0
  BY DEF Gone, Tombstone
<1>1. CASE Tick
  <2>1. \A i \in Ids : \E h, d, l :
          msgs'[i] = [msgs[i] EXCEPT !.hidden = h, !.delay = d, !.life = l]
    BY <1>1 DEF Tick
  <2>2. \A i \in Ids : msgs'[i].rcpt = msgs[i].rcpt
    <3> TAKE i \in Ids
    <3>1. PICK h, d, l : msgs'[i] = [msgs[i] EXCEPT !.hidden = h, !.delay = d, !.life = l]
      BY <2>1
    <3> QED BY <1>t, <3>1 DEF Message
  <2> QED BY <2>2, QuietDelivers DEF Quiet
<1>2. ASSUME NEW q \in Queues, NEW g \in Groups, NEW d \in Dedups, NEW delay \in Delays,
             SendMessage(q, g, d, delay)
      PROVE  DeliversInOrder
  <2>1. \A k \in Ids \ {last + 1} : msgs'[k] = msgs[k]
    BY <1>2, <1>t DEF SendMessage
  <2> QED BY <2>1, <1>s, <1>t, QuietDelivers DEF Quiet
<1>3. ASSUME NEW q \in Queues, PurgeQueue(q) \/ DeleteQueue(q) PROVE DeliversInOrder
  <2>1. \A i \in Ids : msgs'[i] = Gone \/ msgs'[i] = msgs[i]
    BY <1>3 DEF PurgeQueue, DeleteQueue
  <2> QED BY <2>1, <1>g, QuietDelivers DEF Quiet
<1>4. ASSUME NEW q \in Queues, NEW p \in Policies, CreateQueue(q, p) \/ SetQueueAttributes(q, p)
      PROVE  DeliversInOrder
  BY <1>4, QuietDelivers DEF CreateQueue, SetQueueAttributes, Quiet
<1>5. ASSUME NEW q \in Queues, NEW to \in Queues, NEW n \in BatchSizes, RedriveMessages(q, to, n)
      PROVE  DeliversInOrder
  <2>1. \A k \in Ids : k <= last => msgs'[k] = Tombstone(q) \/ msgs'[k] = msgs[k]
    <3> DEFINE batch == FirstOf({i \in In(q) : Live(i) /\ ~Expired(i)}, n)
               copies == (last + 1)..(last + Cardinality(batch))
    <3>1. batch \in SUBSET Ids
      BY DEF FirstOf, In
    <3>2. Cardinality(batch) \in Nat
      BY <3>1, BatchFinite
    <3>3. PICK src : msgs' = [k \in Ids |->
            IF k \in copies
              THEN NewMessage(to, msgs[src[k]].origin, msgs[src[k]].group, msgs[src[k]].dedup,
                              QueueDelay[to], TRUE)
              ELSE IF k \in batch THEN Tombstone(q) ELSE msgs[k]]
      BY <1>5 DEF RedriveMessages
    <3> HIDE DEF batch
    <3>4. \A k \in Ids : k <= last => k \notin copies
      BY <3>2, <1>t DEF Ids
    <3> QED BY <3>3, <3>4
  <2> QED BY <2>1, <1>g, <1>s, <1>t, QuietDelivers DEF Quiet, Ids
<1>6. ASSUME NEW q \in Queues, ReapQueue(q) PROVE DeliversInOrder
  <2>1. \A i \in Ids : \/ msgs'[i] = Gone
                       \/ msgs'[i] = [msgs[i] EXCEPT !.stale = TRUE]
                       \/ msgs'[i] = msgs[i]
    BY <1>6 DEF ReapQueue
  <2>2. \A i \in Ids : msgs'[i].rcpt = 0 \/ msgs'[i].rcpt = msgs[i].rcpt
    BY <2>1, <1>g, <1>t DEF Message
  <2> QED BY <2>2, QuietDelivers DEF Quiet
<1>7. ASSUME NEW i \in Ids, DeleteMessageByID(i) \/ \E n \in 0..MaxReceives : DeleteMessage(i, n)
      PROVE  DeliversInOrder
  <2>1. \A k \in Ids : msgs'[k] = Tombstone(msgs[k].q) \/ msgs'[k] = msgs[k]
    BY <1>7, <1>t DEF DeleteMessageByID, DeleteMessage
  <2> QED BY <2>1, <1>g, QuietDelivers DEF Quiet
<1>8. ASSUME NEW i \in Ids, NEW n \in 0..MaxReceives, NEW vt \in VisTimeouts,
             ChangeMessageVisibility(i, n, vt)
      PROVE  DeliversInOrder
  <2>1. msgs'[i] = [msgs[i] EXCEPT !.hidden = vt] /\ \A k \in Ids \ {i} : msgs'[k] = msgs[k]
    BY <1>8, <1>t DEF ChangeMessageVisibility
  <2>2. \A k \in Ids : msgs'[k].rcpt = msgs[k].rcpt
    BY <1>t, <2>1 DEF Message
  <2> QED BY <2>2, QuietDelivers DEF Quiet
<1>9. ASSUME NEW i \in Ids, NEW n \in 0..MaxReceives, ReleaseMessage(i, n) PROVE DeliversInOrder
  <2>1. /\ \E n2 : msgs'[i] = [msgs[i] EXCEPT !.hidden = 0, !.count = n2]
        /\ \A k \in Ids \ {i} : msgs'[k] = msgs[k]
    BY <1>9, <1>t DEF ReleaseMessage
  <2>2. \A k \in Ids : msgs'[k].rcpt = msgs[k].rcpt
    BY <1>t, <2>1 DEF Message
  <2> QED BY <2>2, QuietDelivers DEF Quiet
<1>10. ASSUME NEW i \in Ids, NEW n \in 0..MaxReceives, MoveToDLQIfExceeded(i, n)
       PROVE  DeliversInOrder
  BY <1>10, QuietTransfer, QuietDelivers DEF MoveToDLQIfExceeded
<1>11. CASE ReapStart
  BY <1>11, QuietDelivers DEF ReapStart, Quiet
<1>12. ASSUME NEW c \in moves, ReapMove(c) PROVE DeliversInOrder
  <2>1. c.id \in Ids
    BY DEF IInv, TypeOK
  <2>2. CASE Transferable(c.id, c.rcpt, TRUE)
    <3>1. Transfer(c.id, TRUE)
      BY <1>12, <2>2 DEF ReapMove
    <3> QED BY <2>1, <3>1, QuietTransfer, QuietDelivers
  <2>3. CASE ~Transferable(c.id, c.rcpt, TRUE)
    BY <1>12, <2>3, QuietDelivers DEF ReapMove, Quiet
  <2> QED BY <2>2, <2>3
<1> QED
  BY <1>1, <1>2, <1>3, <1>4, <1>5, <1>6, <1>7, <1>8, <1>9, <1>10, <1>11, <1>12, ReceiveInOrder
  DEF Next, Consume

(* FifoInOrder: whatever is hidden, delayed, released, transferred, redriven *)
(* or expired meanwhile, a FIFO group is delivered front first.              *)
THEOREM FifoOrder == Spec => FifoInOrder
<1> QED BY OrderStep, Invariance, PTL DEF Spec, FifoInOrder

(***************************************************************************)
(* The reaper and messages in flight                                       *)
(***************************************************************************)
LEMMA ReaperStep == IInv /\ [Next]_vars => [ReaperMovesDue]_vars
<1> SUFFICES ASSUME IInv, Next, moves' # moves PROVE ReaperMovesDue
  BY DEF ReaperMovesDue
<1>t. msgs \in [Ids -> Message] /\ last \in Nat /\ MaxMsgs \in Nat
  BY SQSAssumption DEF IInv, TypeOK
<1>1. ASSUME NEW q \in Queues, ReapQueue(q) PROVE ReaperMovesDue
  <2>1. \A i \in Ids : \/ msgs'[i] = Gone
                       \/ msgs'[i] = [msgs[i] EXCEPT !.stale = TRUE]
                       \/ msgs'[i] = msgs[i]
    BY <1>1 DEF ReapQueue
  <2>2. \A i \in Ids : Live(i) => ~msgs'[i].deleted
    <3> TAKE i \in Ids
    <3>1. CASE msgs'[i] = Gone
      BY <3>1 DEF Gone
    <3>2. CASE msgs'[i] = [msgs[i] EXCEPT !.stale = TRUE]
      BY <3>2, <1>t DEF Live, Message
    <3>3. CASE msgs'[i] = msgs[i]
      BY <3>3 DEF Live
    <3> QED BY <2>1, <3>1, <3>2, <3>3
  <2> QED BY <2>2 DEF ReaperMovesDue
<1>2. ASSUME NEW c \in moves, ReapMove(c) PROVE ReaperMovesDue
  <2> SUFFICES ASSUME NEW i \in Ids, Live(i), msgs'[i].deleted
               PROVE  /\ msgs[i].hidden = 0
                      /\ HasDLQ(msgs[i].q) /\ msgs[i].count >= policy[msgs[i].q].max
    BY DEF ReaperMovesDue
  <2>1. msgs'[i] # msgs[i]
    BY DEF Live
  <2>2. Transferable(c.id, c.rcpt, TRUE) /\ Transfer(c.id, TRUE)
    BY <1>2, <2>1 DEF ReapMove
  <2>3. i # last + 1
    BY <1>t DEF IInv, CopyInv, SlotInv, Live
  <2>4. i = c.id
    BY <1>t, <2>1, <2>2, <2>3 DEF Transfer
  <2> QED BY <2>2, <2>4 DEF Transferable, DlqMessage
<1> QED
  BY <1>1, <1>2 DEF Next, Consume, Tick, SendMessage, ReceiveMessage, PurgeQueue, DeleteQueue,
     CreateQueue, SetQueueAttributes, RedriveMessages, DeleteMessageByID, DeleteMessage,
     ChangeMessageVisibility, ReleaseMessage, MoveToDLQIfExceeded, ReapStart

(* ReaperSparesInFlight: although Reap collects its candidates before it     *)
(* transfers them, it never takes a message a consumer holds, nor one below  *)
(* the threshold of the policy in force at the transfer.                     *)
THEOREM ReaperSpares == Spec => ReaperSparesInFlight
<1> QED BY ReaperStep, Invariance, PTL DEF Spec, ReaperSparesInFlight

(***************************************************************************)
(* Deduplication.  As long as a message that counts for deduplication is    *)
(* unexpired, its entry has at least as much of the window left as the      *)
(* message's age leaves.                                                    *)
(***************************************************************************)
Counts(i) ==
  /\ Live(i) /\ msgs[i].q \in FifoQueues
  /\ msgs[i].dedup # NoDedup /\ ~msgs[i].resent

PeriodInv ==
  /\ \A q \in Queues, d \in Dedups : dedup[q][d] <= DedupWindow
  /\ \A i \in Ids : msgs[i].life <= Retention

EntryInv ==
  \A i \in Ids : Counts(i) /\ msgs[i].life > 0 =>
    DedupWindow + msgs[i].life <= dedup[msgs[i].q][msgs[i].dedup] + Retention

DedupInv == PeriodInv /\ EntryInv /\ DedupHolds

LEMMA DedupInit == Init => DedupInv
<1> SUFFICES ASSUME Init PROVE DedupInv
  OBVIOUS
<1>1. \A i \in Ids : msgs[i].life = 0 /\ ~Live(i)
  BY DEF Init, Gone, Live
<1>2. \A q \in Queues, d \in Dedups : dedup[q][d] = 0
  BY DEF Init
<1> QED BY <1>1, <1>2, SQSAssumption DEF DedupInv, PeriodInv, EntryInv, DedupHolds, Counts

(* What counts after the step counted before, and no entry of it shrank. *)
Preserves(i) ==
  Counts(i)' => /\ Counts(i)
                /\ msgs'[i].q = msgs[i].q /\ msgs'[i].dedup = msgs[i].dedup
                /\ msgs'[i].life = msgs[i].life
                /\ dedup'[msgs[i].q][msgs[i].dedup] >= dedup[msgs[i].q][msgs[i].dedup]

LEMMA PreserveStep ==
  ASSUME TypeOK, TypeOK', DedupInv, PeriodInv', \A i \in Ids : Preserves(i)
  PROVE  DedupInv'
<1>0. \A i \in Ids : Counts(i) => msgs[i].q \in Queues /\ msgs[i].dedup \in Dedups /\ msgs[i].life \in Nat
  BY DEF Counts, Live, TypeOK, Message
<1>n. DedupWindow \in Nat /\ Retention \in Nat
  BY SQSAssumption
<1>d. \A q \in Queues, d \in Dedups : dedup[q][d] \in Nat /\ dedup'[q][d] \in Nat
  BY DEF TypeOK
<1>1. EntryInv'
  <2> SUFFICES ASSUME NEW i \in Ids, Counts(i)', msgs'[i].life > 0
               PROVE  DedupWindow + msgs'[i].life <= dedup'[msgs'[i].q][msgs'[i].dedup] + Retention
    BY DEF EntryInv
  <2>1. /\ Counts(i) /\ msgs'[i].q = msgs[i].q /\ msgs'[i].dedup = msgs[i].dedup
        /\ msgs'[i].life = msgs[i].life
        /\ dedup'[msgs[i].q][msgs[i].dedup] >= dedup[msgs[i].q][msgs[i].dedup]
    BY DEF Preserves
  <2>2. DedupWindow + msgs[i].life <= dedup[msgs[i].q][msgs[i].dedup] + Retention
    BY <2>1 DEF DedupInv, EntryInv
  <2> QED BY <2>1, <2>2, <1>0, <1>n, <1>d
<1>2. DedupHolds'
  <2> SUFFICES ASSUME NEW i \in Ids, NEW j \in Ids, i < j, Live(i)', Live(j)',
                      msgs'[i].q = msgs'[j].q, msgs'[i].q \in FifoQueues,
                      msgs'[i].dedup = msgs'[j].dedup, msgs'[i].dedup # NoDedup,
                      ~msgs'[i].resent, ~msgs'[j].resent
               PROVE  msgs'[i].life = 0 \/ msgs'[i].life + DedupWindow <= msgs'[j].life
    BY DEF DedupHolds, Expired
  <2>1. Counts(i)' /\ Counts(j)'
    BY DEF Counts
  <2>2. /\ Counts(i) /\ msgs'[i].q = msgs[i].q /\ msgs'[i].dedup = msgs[i].dedup
        /\ msgs'[i].life = msgs[i].life
        /\ Counts(j) /\ msgs'[j].q = msgs[j].q /\ msgs'[j].dedup = msgs[j].dedup
        /\ msgs'[j].life = msgs[j].life
    BY <2>1 DEF Preserves
  <2> QED BY <2>2 DEF DedupInv, DedupHolds, Counts, Expired
<1> QED BY <1>1, <1>2 DEF DedupInv

(* An accepted send, or the poller's transfer, adds one message and renews  *)
(* its entry; it is no duplicate.                                           *)
LEMMA AddStep ==
  ASSUME IInv, TypeOK', DedupInv, PeriodInv', NEW new \in Ids, new = last + 1,
         msgs'[new].life = Retention,
         Counts(new)' => /\ ~Duplicate(msgs'[new].q, msgs'[new].dedup)
                         /\ dedup'[msgs'[new].q][msgs'[new].dedup] = DedupWindow,
         \A i \in Ids \ {new} : Preserves(i)
  PROVE  DedupInv'
<1>0. \A i \in Ids : Counts(i) => msgs[i].q \in Queues /\ msgs[i].dedup \in Dedups /\ msgs[i].life \in Nat
  BY DEF Counts, Live, IInv, TypeOK, Message
<1>n. DedupWindow \in Nat /\ Retention \in Nat /\ last \in Nat
  BY SQSAssumption DEF IInv, TypeOK
<1>d. \A q \in Queues, d \in Dedups : dedup[q][d] \in Nat /\ dedup'[q][d] \in Nat
  BY DEF IInv, TypeOK
<1>p. \A i \in Ids : Counts(i)' /\ i # new =>
        /\ Counts(i) /\ msgs'[i].q = msgs[i].q /\ msgs'[i].dedup = msgs[i].dedup
        /\ msgs'[i].life = msgs[i].life
        /\ dedup'[msgs[i].q][msgs[i].dedup] >= dedup[msgs[i].q][msgs[i].dedup]
  BY DEF Preserves
<1>e. \A i \in Ids : Counts(i) /\ msgs[i].life > 0 =>
        DedupWindow + msgs[i].life <= dedup[msgs[i].q][msgs[i].dedup] + Retention
  BY DEF DedupInv, EntryInv
<1>l. \A i \in Ids : Live(i) => i < new
  BY <1>n DEF IInv, CopyInv, SlotInv, Live, Ids
<1>1. EntryInv'
  <2> SUFFICES ASSUME NEW i \in Ids, Counts(i)', msgs'[i].life > 0
               PROVE  DedupWindow + msgs'[i].life <= dedup'[msgs'[i].q][msgs'[i].dedup] + Retention
    BY DEF EntryInv
  <2>1. CASE i = new
    BY <2>1, <1>n
  <2>2. CASE i # new
    <3> DEFINE q == msgs[i].q
               d == msgs[i].dedup
               before == dedup[q][d]
               after == dedup'[q][d]
    <3>1. /\ Counts(i) /\ msgs'[i].q = q /\ msgs'[i].dedup = d /\ msgs'[i].life = msgs[i].life
          /\ after >= before
      BY <2>2, <1>p
    <3>2. q \in Queues /\ d \in Dedups /\ msgs[i].life \in Nat
      BY <3>1, <1>0
    <3>3. before \in Nat /\ after \in Nat
      BY <3>2, <1>d
    <3>4. DedupWindow + msgs[i].life <= before + Retention
      BY <3>1, <1>e
    <3>5. dedup'[msgs'[i].q][msgs'[i].dedup] = after /\ msgs'[i].life = msgs[i].life
      BY <3>1
    <3> HIDE DEF before, after
    <3> QED BY <3>1, <3>2, <3>3, <3>4, <3>5, <1>n
  <2> QED BY <2>1, <2>2
<1>2. DedupHolds'
  <2> SUFFICES ASSUME NEW i \in Ids, NEW j \in Ids, i < j, Live(i)', Live(j)',
                      msgs'[i].q = msgs'[j].q, msgs'[i].q \in FifoQueues,
                      msgs'[i].dedup = msgs'[j].dedup, msgs'[i].dedup # NoDedup,
                      ~msgs'[i].resent, ~msgs'[j].resent
               PROVE  msgs'[i].life = 0 \/ msgs'[i].life + DedupWindow <= msgs'[j].life
    BY DEF DedupHolds, Expired
  <2>1. Counts(i)' /\ Counts(j)'
    BY DEF Counts
  <2>2. CASE i # new /\ j # new
    BY <2>1, <2>2, <1>p DEF DedupInv, DedupHolds, Counts, Expired
  <2>3. CASE i = new
    <3>1. j # new /\ Live(j)
      BY <2>1, <2>3, <1>p, <1>n DEF Counts, Ids
    <3> QED BY <2>3, <3>1, <1>l, <1>n DEF Ids
  <2>4. CASE i # new /\ j = new
    <3>1. Counts(i) /\ msgs[i].q = msgs'[new].q /\ msgs[i].dedup = msgs'[new].dedup
      BY <2>1, <2>4, <1>p
    <3>2. dedup[msgs[i].q][msgs[i].dedup] = 0
      BY <2>1, <2>4, <3>1, <1>0, <1>d DEF Duplicate, Counts, In
    <3>3. msgs[i].life = 0 \/ DedupWindow + msgs[i].life <= Retention
      <4>1. msgs[i].life \in Nat
        BY <3>1, <1>0
      <4>2. CASE msgs[i].life > 0
        <5>1. DedupWindow + msgs[i].life <= dedup[msgs[i].q][msgs[i].dedup] + Retention
          BY <3>1, <4>2, <1>e
        <5> QED BY <4>1, <5>1, <3>2, <1>n
      <4> QED BY <4>1, <4>2
    <3>4. msgs'[i].life = msgs[i].life /\ msgs[i].life \in Nat /\ msgs'[j].life = Retention
      BY <2>1, <2>4, <3>1, <1>p, <1>0
    <3> QED BY <3>3, <3>4, <1>n
  <2> QED BY <2>2, <2>3, <2>4
<1> QED BY <1>1, <1>2 DEF DedupInv

LEMMA RememberStep ==
  ASSUME TypeOK, PeriodInv, NEW q \in Queues, NEW d \in Dedups, Remember(q, d)
  PROVE  /\ \A p \in Queues, e \in Dedups : dedup'[p][e] >= dedup[p][e] /\ dedup'[p][e] <= DedupWindow
         /\ q \in FifoQueues /\ d # NoDedup => dedup'[q][d] = DedupWindow
<1>1. DedupWindow \in Nat /\ \A p \in Queues, e \in Dedups : dedup[p][e] \in Nat
  BY SQSAssumption DEF TypeOK
<1>2. CASE q \in FifoQueues /\ d # NoDedup
  <2>1. \A p \in Queues, e \in Dedups :
          dedup'[p][e] = IF p = q /\ e = d THEN DedupWindow ELSE dedup[p][e]
    BY <1>2 DEF Remember, TypeOK
  <2> QED BY <1>1, <2>1 DEF PeriodInv
<1>3. CASE ~(q \in FifoQueues /\ d # NoDedup)
  BY <1>1, <1>3 DEF Remember, PeriodInv
<1> QED BY <1>2, <1>3

(* The message keeps all that deduplication looks at, or ceases to count. *)
SameForDedup(i) ==
  /\ msgs'[i].q = msgs[i].q /\ msgs'[i].dedup = msgs[i].dedup /\ msgs'[i].life = msgs[i].life
  /\ msgs'[i].deleted = msgs[i].deleted /\ msgs'[i].resent = msgs[i].resent
OutOfDedup(i) == ~Counts(i)' /\ msgs'[i].life <= Retention

LEMMA KeepStep ==
  ASSUME TypeOK, TypeOK', DedupInv, UNCHANGED dedup,
         \A i \in Ids : SameForDedup(i) \/ OutOfDedup(i)
  PROVE  DedupInv'
<1>1. PeriodInv'
  BY DEF PeriodInv, DedupInv, SameForDedup, OutOfDedup
<1>2. \A i \in Ids : Preserves(i)
  <2> TAKE i \in Ids
  <2> SUFFICES ASSUME Counts(i)', SameForDedup(i) PROVE Preserves(i)
    BY DEF Preserves, OutOfDedup
  <2>1. Counts(i)
    BY DEF Counts, SameForDedup, Live
  <2>2. msgs[i].q \in Queues /\ msgs[i].dedup \in Dedups
    BY <2>1 DEF Counts, Live, TypeOK, Message
  <2>3. dedup[msgs[i].q][msgs[i].dedup] \in Nat
    BY <2>2 DEF TypeOK
  <2> QED BY <2>1, <2>3 DEF Preserves, SameForDedup
<1> QED BY <1>1, <1>2, PreserveStep

LEMMA GoneOut ==
  ASSUME NEW i \in Ids, NEW q, msgs'[i] = Gone \/ msgs'[i] = Tombstone(q)
  PROVE  OutOfDedup(i)
<1>1. CASE msgs'[i] = Gone
  BY <1>1, SQSAssumption DEF OutOfDedup, Counts, Live, Gone
<1>2. CASE msgs'[i] = Tombstone(q)
  BY <1>2, SQSAssumption DEF OutOfDedup, Counts, Live, Gone, Tombstone
<1> QED BY <1>1, <1>2

LEMMA ResentOut ==
  ASSUME NEW i \in Ids, NEW q, NEW o, NEW g, NEW d, NEW delay,
         msgs'[i] = NewMessage(q, o, g, d, delay, TRUE)
  PROVE  OutOfDedup(i)
<1>1. msgs'[i].resent = TRUE /\ msgs'[i].life = Retention
  BY DEF NewMessage
<1>2. Retention <= Retention
  BY SQSAssumption
<1> QED BY <1>1, <1>2 DEF OutOfDedup, Counts

LEMMA DedupTick == ASSUME TypeOK, DedupInv, Tick PROVE DedupInv'
<1>n. DedupWindow \in Nat /\ Retention \in Nat
  BY SQSAssumption
<1>d. \A q \in Queues, d \in Dedups :
        /\ dedup[q][d] \in Nat /\ dedup[q][d] <= DedupWindow
        /\ dedup'[q][d] = IF dedup[q][d] > 0 THEN dedup[q][d] - 1 ELSE 0
  BY DEF TypeOK, DedupInv, PeriodInv, Tick, Less
<1>m. \A i \in Ids :
        /\ msgs[i].life \in Nat /\ msgs[i].life <= Retention
        /\ msgs'[i].life = IF msgs[i].life > 0 THEN msgs[i].life - 1 ELSE 0
        /\ msgs'[i].q = msgs[i].q /\ msgs'[i].dedup = msgs[i].dedup
        /\ msgs'[i].deleted = msgs[i].deleted /\ msgs'[i].resent = msgs[i].resent
  <2> TAKE i \in Ids
  <2>1. msgs[i] \in Message /\ msgs[i].life <= Retention
    BY DEF TypeOK, DedupInv, PeriodInv
  <2>2. PICK h, e : msgs'[i] = [msgs[i] EXCEPT !.hidden = h, !.delay = e, !.life = Less(msgs[i].life)]
    BY DEF Tick
  <2>3. Less(msgs[i].life) = IF msgs[i].life > 0 THEN msgs[i].life - 1 ELSE 0
    BY DEF Less
  <2> QED BY <2>1, <2>2, <2>3 DEF Message
<1>1. PeriodInv'
  BY <1>d, <1>m, <1>n DEF PeriodInv
<1>c. \A i \in Ids :
        Counts(i)' => Counts(i) /\ msgs[i].q \in Queues /\ msgs[i].dedup \in Dedups
  BY <1>m DEF Counts, Live, TypeOK, Message
<1>2. EntryInv'
  <2> SUFFICES ASSUME NEW i \in Ids, Counts(i)', msgs'[i].life > 0
               PROVE  DedupWindow + msgs'[i].life <= dedup'[msgs'[i].q][msgs'[i].dedup] + Retention
    BY DEF EntryInv
  <2> DEFINE e == dedup[msgs[i].q][msgs[i].dedup]
             l == msgs[i].life
  <2>1. Counts(i) /\ l \in Nat /\ l <= Retention /\ l > 0 /\ msgs'[i].life = l - 1
    BY <1>m, <1>c
  <2>2. e \in Nat /\ dedup'[msgs'[i].q][msgs'[i].dedup] = IF e > 0 THEN e - 1 ELSE 0
    BY <1>m, <1>c, <1>d
  <2>3. DedupWindow + l <= e + Retention
    BY <2>1 DEF DedupInv, EntryInv
  <2> HIDE DEF e, l
  <2> QED BY <2>1, <2>2, <2>3, <1>n
<1>3. DedupHolds'
  <2> SUFFICES ASSUME NEW i \in Ids, NEW j \in Ids, i < j, Live(i)', Live(j)',
                      msgs'[i].q = msgs'[j].q, msgs'[i].q \in FifoQueues,
                      msgs'[i].dedup = msgs'[j].dedup, msgs'[i].dedup # NoDedup,
                      ~msgs'[i].resent, ~msgs'[j].resent
               PROVE  msgs'[i].life = 0 \/ msgs'[i].life + DedupWindow <= msgs'[j].life
    BY DEF DedupHolds, Expired
  <2>1. Live(i) /\ Live(j)
    BY <1>m DEF Live
  <2>2. msgs[i].life = 0 \/ msgs[i].life + DedupWindow <= msgs[j].life
    BY <2>1, <1>m DEF DedupInv, DedupHolds, Expired
  <2> QED BY <2>2, <1>m, <1>n
<1> QED BY <1>1, <1>2, <1>3 DEF DedupInv

LEMMA DedupStep == IInv /\ DedupInv /\ [Next]_vars => DedupInv'
<1> SUFFICES ASSUME IInv, DedupInv, [Next]_vars PROVE DedupInv'
  OBVIOUS
<1>t. TypeOK /\ TypeOK' /\ msgs \in [Ids -> Message] /\ last \in Nat /\ MaxMsgs \in Nat
  BY TypeStep, SQSAssumption DEF IInv, TypeOK
<1>n. DedupWindow \in Nat /\ Retention \in Nat /\ FifoQueues \subseteq Queues
  BY SQSAssumption
<1>p. \A i \in Ids : msgs[i].life <= Retention
  BY DEF DedupInv, PeriodInv
<1>k. \A i \in Ids : msgs'[i] = msgs[i] => SameForDedup(i)
  BY DEF SameForDedup
<1>a. ASSUME NEW new \in Ids, new = last + 1, NEW q \in Queues, NEW d \in Dedups,
             NEW o, NEW g, NEW delay, msgs'[new] = NewMessage(q, o, g, d, delay, FALSE),
             \A i \in Ids \ {new} : SameForDedup(i) \/ OutOfDedup(i),
             Remember(q, d), ~Duplicate(q, d)
      PROVE  DedupInv'
  <2>1. msgs'[new].q = q /\ msgs'[new].dedup = d /\ msgs'[new].life = Retention
    BY <1>a DEF NewMessage
  <2>2. /\ \A r \in Queues, e \in Dedups : dedup'[r][e] >= dedup[r][e] /\ dedup'[r][e] <= DedupWindow
        /\ q \in FifoQueues /\ d # NoDedup => dedup'[q][d] = DedupWindow
    BY <1>a, <1>t, RememberStep DEF DedupInv
  <2>3. PeriodInv'
    <3>1. \A i \in Ids \ {new} : msgs'[i].life <= Retention
      BY <1>a, <1>p DEF SameForDedup, OutOfDedup
    <3>2. msgs'[new].life <= Retention
      BY <2>1, <1>n
    <3> QED BY <2>2, <3>1, <3>2 DEF PeriodInv
  <2>4. \A i \in Ids \ {new} : Preserves(i)
    <3> TAKE i \in Ids \ {new}
    <3> SUFFICES ASSUME Counts(i)', SameForDedup(i) PROVE Preserves(i)
      BY <1>a DEF Preserves, OutOfDedup
    <3>1. Counts(i)
      BY DEF Counts, SameForDedup, Live
    <3>2. msgs[i].q \in Queues /\ msgs[i].dedup \in Dedups
      BY <3>1, <1>t DEF Counts, Live, Message
    <3> QED BY <3>1, <3>2, <2>2 DEF Preserves, SameForDedup
  <2>5. Counts(new)' => /\ ~Duplicate(msgs'[new].q, msgs'[new].dedup)
                        /\ dedup'[msgs'[new].q][msgs'[new].dedup] = DedupWindow
    BY <1>a, <2>1, <2>2 DEF Counts
  <2> QED BY <1>a, <1>t, <2>1, <2>3, <2>4, <2>5, AddStep
<1>1. CASE Tick
  BY <1>1, <1>t, DedupTick
<1>2. ASSUME NEW q \in Queues, NEW g \in Groups, NEW d \in Dedups, NEW delay \in Delays,
             SendMessage(q, g, d, delay)
      PROVE  DedupInv'
  <2>1. PICK new \in Ids : new = last + 1
    BY <1>2, <1>t DEF SendMessage, Ids
  <2>2. /\ msgs'[new] = NewMessage(q, new, g, d, IF delay = 0 THEN QueueDelay[q] ELSE delay, FALSE)
        /\ \A k \in Ids \ {new} : msgs'[k] = msgs[k]
    BY <1>2, <1>t, <2>1 DEF SendMessage
  <2>3. Remember(q, d) /\ ~Duplicate(q, d)
    BY <1>2 DEF SendMessage
  <2> QED BY <2>1, <2>2, <2>3, <1>a, <1>k
<1>3. ASSUME NEW q \in Queues, NEW n \in BatchSizes, NEW vt \in VisTimeouts,
             ReceiveMessage(q, n, vt)
      PROVE  DedupInv'
  <2>1. \A i \in Ids :
          \/ msgs'[i] = [msgs[i] EXCEPT !.rcpt = @ + 1, !.count = @ + 1, !.hidden = vt]
          \/ msgs'[i] = msgs[i]
    BY <1>3 DEF ReceiveMessage
  <2>2. \A i \in Ids : SameForDedup(i)
    BY <1>t, <2>1 DEF Message, SameForDedup
  <2> QED BY <1>3, <1>t, <2>2, KeepStep DEF ReceiveMessage
<1>4. ASSUME NEW q \in Queues, PurgeQueue(q) PROVE DedupInv'
  <2>1. \A i \in Ids : msgs'[i] = Gone \/ msgs'[i] = msgs[i]
    BY <1>4 DEF PurgeQueue
  <2>2. \A i \in Ids : SameForDedup(i) \/ OutOfDedup(i)
    BY <2>1, <1>k, GoneOut
  <2> QED BY <1>4, <1>t, <2>2, KeepStep DEF PurgeQueue
<1>5. ASSUME NEW q \in Queues, DeleteQueue(q) PROVE DedupInv'
  <2>1. \A i \in Ids : msgs'[i] = IF i \in In(q) THEN Gone ELSE msgs[i]
    BY <1>5 DEF DeleteQueue
  <2>2. /\ dedup' = [dedup EXCEPT ![q] = [d \in Dedups |-> 0]]
        /\ \A r \in Queues, d \in Dedups : dedup'[r][d] = IF r = q THEN 0 ELSE dedup[r][d]
    BY <1>5, <1>t DEF DeleteQueue, TypeOK
  <2>3. PeriodInv'
    <3>1. \A i \in Ids : msgs'[i].life <= Retention
      BY <2>1, <1>p, <1>n DEF Gone
    <3>2. \A r \in Queues, d \in Dedups : dedup'[r][d] <= DedupWindow
      BY <2>2, <1>n DEF DedupInv, PeriodInv
    <3> QED BY <3>1, <3>2 DEF PeriodInv
  <2>4. \A i \in Ids : Preserves(i)
    <3> TAKE i \in Ids
    <3> SUFFICES ASSUME Counts(i)' PROVE Preserves(i)
      BY DEF Preserves
    <3>1. i \notin In(q)
      BY <2>1, GoneOut DEF OutOfDedup
    <3>2. msgs'[i] = msgs[i]
      BY <2>1, <3>1
    <3>3. Counts(i)
      BY <3>2 DEF Counts, Live
    <3>4. msgs[i].q \in Queues /\ msgs[i].dedup \in Dedups /\ msgs[i].q # q
      BY <3>1, <3>3, <1>t DEF Counts, Live, Message, In
    <3>5. dedup[msgs[i].q][msgs[i].dedup] \in Nat
      BY <3>4, <1>t DEF TypeOK
    <3> QED BY <2>2, <3>2, <3>3, <3>4, <3>5 DEF Preserves
  <2> QED BY <1>t, <2>3, <2>4, PreserveStep
<1>6. ASSUME UNCHANGED <<msgs, dedup>> PROVE DedupInv'
  BY <1>6, <1>t, <1>k, KeepStep
<1>7. ASSUME NEW q \in Queues, NEW to \in Queues, NEW n \in BatchSizes, RedriveMessages(q, to, n)
      PROVE  DedupInv'
  <2>1. \A k \in Ids :
          \/ \E o, g, d : msgs'[k] = NewMessage(to, o, g, d, QueueDelay[to], TRUE)
          \/ msgs'[k] = Tombstone(q)
          \/ msgs'[k] = msgs[k]
    <3> DEFINE batch == FirstOf({i \in In(q) : Live(i) /\ ~Expired(i)}, n)
               copies == (last + 1)..(last + Cardinality(batch))
    <3>1. PICK src : msgs' = [k \in Ids |->
            IF k \in copies
              THEN NewMessage(to, msgs[src[k]].origin, msgs[src[k]].group, msgs[src[k]].dedup,
                              QueueDelay[to], TRUE)
              ELSE IF k \in batch THEN Tombstone(q) ELSE msgs[k]]
      BY <1>7 DEF RedriveMessages
    <3> HIDE DEF batch, copies
    <3> TAKE k \in Ids
    <3>2. CASE k \in copies
      <4>1. msgs'[k] = NewMessage(to, msgs[src[k]].origin, msgs[src[k]].group, msgs[src[k]].dedup,
                                  QueueDelay[to], TRUE)
        BY <3>1, <3>2
      <4> QED BY <4>1
    <3>3. CASE k \notin copies
      BY <3>1, <3>3
    <3> QED BY <3>2, <3>3
  <2>2. \A k \in Ids : SameForDedup(k) \/ OutOfDedup(k)
    BY <2>1, <1>k, GoneOut, ResentOut
  <2> QED BY <1>7, <1>t, <2>2, KeepStep DEF RedriveMessages
<1>8. ASSUME NEW q \in Queues, ReapQueue(q) PROVE DedupInv'
  <2>1. \A i \in Ids : \/ msgs'[i] = Gone
                       \/ msgs'[i] = [msgs[i] EXCEPT !.stale = TRUE]
                       \/ msgs'[i] = msgs[i]
    BY <1>8 DEF ReapQueue
  <2>2. \A i \in Ids : SameForDedup(i) \/ OutOfDedup(i)
    <3> TAKE i \in Ids
    <3>1. CASE msgs'[i] = [msgs[i] EXCEPT !.stale = TRUE]
      BY <3>1, <1>t DEF SameForDedup, Message
    <3> QED BY <2>1, <3>1, <1>k, GoneOut
  <2> QED BY <1>8, <1>t, <2>2, KeepStep DEF ReapQueue
<1>9. ASSUME NEW i \in Ids, DeleteMessageByID(i) \/ \E n \in 0..MaxReceives : DeleteMessage(i, n)
      PROVE  DedupInv'
  <2>1. \A k \in Ids : msgs'[k] = Tombstone(msgs[k].q) \/ msgs'[k] = msgs[k]
    BY <1>9, <1>t DEF DeleteMessageByID, DeleteMessage
  <2>2. \A k \in Ids : SameForDedup(k) \/ OutOfDedup(k)
    BY <2>1, <1>k, GoneOut
  <2> QED BY <1>9, <1>t, <2>2, KeepStep DEF DeleteMessageByID, DeleteMessage
<1>10. ASSUME NEW i \in Ids, NEW n \in 0..MaxReceives, NEW vt \in VisTimeouts,
              ChangeMessageVisibility(i, n, vt)
       PROVE  DedupInv'
  <2>1. msgs'[i] = [msgs[i] EXCEPT !.hidden = vt] /\ \A k \in Ids \ {i} : msgs'[k] = msgs[k]
    BY <1>10, <1>t DEF ChangeMessageVisibility
  <2>2. \A k \in Ids : SameForDedup(k)
    BY <1>t, <2>1 DEF Message, SameForDedup
  <2> QED BY <1>10, <1>t, <2>2, KeepStep DEF ChangeMessageVisibility
<1>11. ASSUME NEW i \in Ids, NEW n \in 0..MaxReceives, ReleaseMessage(i, n) PROVE DedupInv'
  <2>1. /\ \E n2 : msgs'[i] = [msgs[i] EXCEPT !.hidden = 0, !.count = n2]
        /\ \A k \in Ids \ {i} : msgs'[k] = msgs[k]
    BY <1>11, <1>t DEF ReleaseMessage
  <2>2. PICK n2 : msgs'[i] = [msgs[i] EXCEPT !.hidden = 0, !.count = n2]
    BY <2>1
  <2>3. SameForDedup(i)
    BY <1>t, <2>2 DEF Message, SameForDedup
  <2> QED BY <1>11, <1>t, <1>k, <2>1, <2>3, KeepStep DEF ReleaseMessage
<1>12. ASSUME NEW i \in Ids, NEW r \in BOOLEAN, Live(i), HasDLQ(msgs[i].q), Transfer(i, r)
       PROVE  DedupInv'
  <2> DEFINE m == msgs[i]
             to == policy[m.q].target
  <2>0. m.q \in Queues /\ m.dedup \in Dedups /\ to \in Queues
    BY <1>12, <1>t, SQSAssumption DEF Live, Message, HasDLQ, TypeOK, NoPolicy
  <2>1. CASE ~r /\ Duplicate(to, m.dedup)
    <3>1. UNCHANGED dedup /\ \A k \in Ids : msgs'[k] = Tombstone(msgs[k].q) \/ msgs'[k] = msgs[k]
      BY <1>12, <1>t, <2>1 DEF Transfer
    <3>2. \A k \in Ids : SameForDedup(k) \/ OutOfDedup(k)
      BY <3>1, <1>k, GoneOut
    <3> QED BY <1>t, <3>1, <3>2, KeepStep
  <2>2. CASE ~(~r /\ Duplicate(to, m.dedup))
    <3>1. PICK new \in Ids : new = last + 1
      BY <1>12, <1>t, <2>2 DEF Transfer, Ids
    <3>2. i # new
      BY <1>12, <1>t, <3>1 DEF IInv, CopyInv, SlotInv, Live
    <3>3. /\ msgs'[new] = NewMessage(to, m.origin, m.group, m.dedup,
                                     IF r THEN 0 ELSE QueueDelay[to], r)
          /\ \A k \in Ids \ {new} : msgs'[k] = Tombstone(msgs[k].q) \/ msgs'[k] = msgs[k]
      BY <1>12, <1>t, <2>2, <3>1, <3>2 DEF Transfer
    <3>4. \A k \in Ids \ {new} : SameForDedup(k) \/ OutOfDedup(k)
      BY <3>3, <1>k, GoneOut
    <3>5. CASE r = TRUE
      <4>1. UNCHANGED dedup
        BY <1>12, <2>2, <3>5 DEF Transfer
      <4>2. OutOfDedup(new)
        BY <3>3, <3>5, ResentOut
      <4> QED BY <1>t, <3>4, <4>1, <4>2, KeepStep
    <3>6. CASE r = FALSE
      <4>1. Remember(to, m.dedup) /\ ~Duplicate(to, m.dedup)
        BY <1>12, <2>2, <3>6 DEF Transfer
      <4>2. msgs'[new] = NewMessage(to, m.origin, m.group, m.dedup, QueueDelay[to], FALSE)
        BY <3>3, <3>6
      <4> HIDE DEF to, m
      <4> QED BY <2>0, <3>1, <3>4, <4>1, <4>2, <1>a
    <3> QED BY <3>5, <3>6
  <2> QED BY <2>1, <2>2
<1>13. ASSUME NEW i \in Ids, NEW n \in 0..MaxReceives, MoveToDLQIfExceeded(i, n) PROVE DedupInv'
  BY <1>12, <1>13 DEF MoveToDLQIfExceeded, Transferable, DlqMessage
<1>14. ASSUME NEW c \in moves, ReapMove(c) PROVE DedupInv'
  <2>1. c.id \in Ids
    BY <1>t DEF TypeOK
  <2>2. CASE Transferable(c.id, c.rcpt, TRUE)
    <3>1. Live(c.id) /\ HasDLQ(msgs[c.id].q) /\ Transfer(c.id, TRUE)
      BY <1>14, <2>2 DEF ReapMove, Transferable, DlqMessage
    <3> QED BY <1>12, <2>1, <3>1
  <2>3. CASE ~Transferable(c.id, c.rcpt, TRUE)
    BY <1>6, <1>14, <2>3 DEF ReapMove
  <2> QED BY <2>2, <2>3
<1>15. ASSUME NEW q \in Queues, NEW p \in Policies, CreateQueue(q, p) \/ SetQueueAttributes(q, p)
       PROVE  DedupInv'
  BY <1>6, <1>15 DEF CreateQueue, SetQueueAttributes
<1>16. CASE ReapStart \/ UNCHANGED vars
  BY <1>6, <1>16 DEF ReapStart, vars
<1> QED
  BY <1>1, <1>2, <1>3, <1>4, <1>5, <1>7, <1>8, <1>9, <1>10, <1>11, <1>13, <1>14, <1>15, <1>16
  DEF Next, Consume

(* DedupHolds: within the window of a live message no second one with its    *)
(* deduplication id is accepted, although purges, deletions, absorbed        *)
(* transfers and the reaper change messages and entries separately.          *)
THEOREM DedupExclusive == Spec => []DedupHolds
<1>1. IInv /\ DedupInv /\ [Next]_vars => DedupInv'
  BY DedupStep
<1>2. DedupInv => DedupHolds
  BY DEF DedupInv
<1> QED BY <1>1, <1>2, DedupInit, Invariance, PTL DEF Spec

(***************************************************************************)
(* LONG POLLS                                                              *)
(***************************************************************************)

(***************************************************************************)
(* The polls and the store                                                 *)
(***************************************************************************)
LEMMA StoreStepOfPoll ==
  ASSUME NEW p \in Pollers, PollStep(p) \/ Cancel(p)
  PROVE  ReceiveMessage(Polled, PollBatch, PollHide) \/ UNCHANGED vars
BY DEF PollStep, PollBegin, PollCheck, PollLookup, PollReceive, PollSleep, PollOrphan, PollWake,
       PollCancelled, PollShutdown, Cancel

(* Every step of the polled system is a step of the store or leaves it alone. *)
LEMMA StoreStep == [PollNext]_allVars => [Next]_vars
<1> SUFFICES ASSUME [PollNext]_allVars PROVE [Next]_vars
  OBVIOUS
<1>1. ASSUME NEW p \in Pollers, PollStep(p) \/ Cancel(p) PROVE [Next]_vars
  BY <1>1, StoreStepOfPoll, LongPollAssumption DEF Next
<1>2. CASE Stop
  BY <1>2 DEF Stop
<1>3. CASE Clock
  BY <1>3 DEF Clock, Next
<1>4. ASSUME NEW q \in Queues, NEW g \in Groups, NEW d \in Dedups, NEW delay \in Delays,
             Send(q, g, d, delay)
      PROVE  Next
  BY <1>4 DEF Send, Next
<1>5. ASSUME NEW q \in Queues, NEW to \in Queues, NEW n \in BatchSizes, Redriven(q, to, n)
      PROVE  Next
  BY <1>5 DEF Redriven, Next
<1>6. ASSUME NEW q \in Queues, ReapedQueue(q) \/ Silent(q) \/ Deleted(q) PROVE Next
  BY <1>6 DEF ReapedQueue, Silent, Deleted, Next
<1>7. ASSUME NEW i \in Ids, NEW n \in 0..MaxReceives, Removed(i, n) \/ Shown(i, n) \/ Moved(i, n)
      PROVE  Next
  BY <1>7 DEF Removed, Shown, Moved, Next, Consume
<1>8. ASSUME ReapStart \/ \E c \in moves : ReapedMove(c) PROVE Next
  BY <1>8 DEF ReapedMove, Next
<1>9. CASE UNCHANGED allVars
  BY <1>9 DEF allVars
<1> QED BY <1>1, <1>2, <1>3, <1>4, <1>5, <1>6, <1>7, <1>8, <1>9 DEF PollNext

(* With any number of long polls sleeping and waking on it, the store does  *)
(* only what it does without them: the polled system implements SQSStore.   *)
THEOREM PollsUseTheStore == PollSpec => Spec
BY StoreStep, PTL DEF PollSpec, PollInit, Spec

(* A send within the deduplication window adds no second message although   *)
(* long polls receive from the queue, enqueueMessageLocked.                 *)
THEOREM PolledDedup == PollSpec => []DedupHolds
BY PollsUseTheStore, DedupExclusive, PTL

(* Per group of a FIFO queue, long polls too are handed nothing ahead of an *)
(* earlier message of its group.                                            *)
THEOREM PolledOrder == PollSpec => FifoInOrder
BY PollsUseTheStore, FifoOrder, PTL

(* No message is lost between the store and its polls. *)
THEOREM PolledNothingLost == PollSpec => [](AtMostOneLive /\ NothingLost)
BY PollsUseTheStore, OneLiveCopy, NoMessageLost, PTL

(***************************************************************************)
(* Types                                                                   *)
(***************************************************************************)
(* A set of periods has a least one. *)
LEMMA EarliestMin ==
  ASSUME NEW S \in SUBSET Nat, S # {}
  PROVE  Earliest(S) \in S /\ \A u \in S : Earliest(S) <= u
<1> DEFINE R == {ss \in Nat \X Nat : ss[1] < ss[2]}
<1>1. IsWellFoundedOn(R, Nat)
  BY NatLessThanWellFounded, Zenon DEF OpToRel
<1>2. PICK t \in S : \A u \in S : <<u, t>> \notin R
  <2> HIDE DEF R
  <2> QED BY <1>1, WFMin
<1>3. \A u \in S : t <= u
  <2> TAKE u \in S
  <2>1. <<u, t>> \notin R
    BY <1>2
  <2> QED BY <2>1
<1> QED BY <1>3 DEF Earliest

LEMMA WaitsType == ASSUME TypeOK PROVE Waits(Polled) \subseteq Nat \ {0}
<1>1. \A i \in Ids : msgs[i].hidden \in Nat /\ msgs[i].delay \in Nat /\ msgs[i].life \in Nat
  BY DEF TypeOK, Message
<1> SUFFICES ASSUME NEW t \in Waits(Polled) PROVE t \in Nat \ {0}
  OBVIOUS
<1>2. PICK i \in {j \in In(Polled) : Eligible(j)} :
        t \in {msgs[i].hidden, msgs[i].delay} \cup (IF Polled \in FifoQueues THEN {msgs[i].life} ELSE {})
  BY DEF Waits
<1>3. t # 0
  BY DEF Waits
<1>4. i \in Ids
  BY DEF In
<1> QED BY <1>1, <1>2, <1>3, <1>4

(* A poll sleeps no longer than to its deadline, and no longer than any     *)
(* period that may make a message receivable.                               *)
LEMMA SleepBound ==
  ASSUME TypeOK, NEW p \in Pollers, left[p] \in Nat
  PROVE  /\ Sleep(p) \in 0..left[p]
         /\ \A t \in Waits(Polled) : Sleep(p) <= t
<1> DEFINE soon == {t \in Waits(Polled) : t < left[p]}
<1>1. Waits(Polled) \subseteq Nat /\ soon \in SUBSET Nat
  BY WaitsType
<1>2. CASE soon = {}
  <2>1. Sleep(p) = left[p]
    BY <1>2 DEF Sleep
  <2>2. \A t \in Waits(Polled) : ~(t < left[p])
    BY <1>2
  <2> QED BY <1>1, <2>1, <2>2
<1>3. CASE soon # {}
  <2>1. Sleep(p) = Earliest(soon)
    BY <1>3 DEF Sleep
  <2> HIDE DEF soon
  <2>2. Earliest(soon) \in soon /\ \A u \in soon : Earliest(soon) <= u
    BY <1>1, <1>3, EarliestMin
  <2> QED BY <1>1, <2>1, <2>2 DEF soon
<1> QED BY <1>2, <1>3

LEMMA PollTypeInit == PollInit => PollTypeOK
<1> SUFFICES ASSUME PollInit PROVE PollTypeOK
  OBVIOUS
<1>1. woken \in [Pollers -> BOOLEAN] /\ cancel \in [Pollers -> BOOLEAN] /\ done \in BOOLEAN
  BY Zenon DEF PollInit
<1> QED BY <1>1, LongPollAssumption DEF PollInit, PollTypeOK

LEMMA EndType ==
  ASSUME PollTypeOK, NEW p \in Pollers, NEW how \in Ended, End(p, how)
  PROVE  PollTypeOK'
<1>1. woken' \in [Pollers -> BOOLEAN]
  BY Zenon DEF End, PollTypeOK
<1> QED BY <1>1, LongPollAssumption DEF End, Goto, PollTypeOK

LEMMA PollTypeStep == TypeOK /\ PollTypeOK /\ [PollNext]_allVars => PollTypeOK'
<1> SUFFICES ASSUME TypeOK, PollTypeOK, [PollNext]_allVars PROVE PollTypeOK'
  OBVIOUS
<1> USE LongPollAssumption
<1>s. ASSUME NEW S, Signal(S) PROVE PollTypeOK'
  <2>1. woken' \in [Pollers -> BOOLEAN]
    BY <1>s, Zenon DEF Signal, PollTypeOK, Sleeping
  <2> QED BY <1>s, <2>1 DEF Signal, OnlyWoken, PollTypeOK
<1>u. ASSUME UNCHANGED pollVars PROVE PollTypeOK'
  BY <1>u DEF pollVars, PollTypeOK
<1>1. ASSUME NEW p \in Pollers, PollStep(p) \/ Cancel(p) PROVE PollTypeOK'
  <2>e. ASSUME NEW how \in Ended, End(p, how) PROVE PollTypeOK'
    BY <2>e, EndType
  <2>1. CASE PollBegin(p)
    BY <2>1 DEF PollBegin, Goto, PollTypeOK
  <2>2. CASE PollCheck(p)
    <3>1. CASE cancel[p]
      BY <2>2, <3>1, <2>e DEF PollCheck, Ended
    <3>2. CASE ~cancel[p]
      BY <2>2, <3>2 DEF PollCheck, Goto, PollTypeOK
    <3> QED BY <3>1, <3>2
  <2>3. CASE PollLookup(p)
    <3>1. CASE Polled \in exists
      BY <2>3, <3>1 DEF PollLookup, Goto, PollTypeOK
    <3>2. CASE Polled \notin exists
      BY <2>3, <3>2, <2>e DEF PollLookup, Ended
    <3> QED BY <3>1, <3>2
  <2>4. CASE PollReceive(p)
    BY <2>4, <2>e DEF PollReceive, Ended
  <2>5. CASE PollSleep(p)
    <3>1. CASE left[p] = 0
      BY <2>5, <3>1, <2>e DEF PollSleep, Ended
    <3>2. CASE left[p] # 0
      <4>1. Sleep(p) \in 0..left[p]
        BY SleepBound DEF PollTypeOK
      <4> QED BY <2>5, <3>2, <4>1 DEF PollSleep, Goto, PollTypeOK
    <3> QED BY <3>1, <3>2
  <2>6. CASE PollOrphan(p)
    <3>1. ASSUME Goto(p, "wait"), timer' = [timer EXCEPT ![p] = left[p]],
                 UNCHANGED <<woken, left, orphan, cancel, done>>
          PROVE  PollTypeOK'
      BY <3>1 DEF Goto, PollTypeOK
    <3> QED BY <2>6, <2>e, <3>1 DEF PollOrphan, Ended
  <2>7. CASE PollWake(p)
    BY <2>7 DEF PollWake, Goto, PollTypeOK
  <2>8. CASE PollCancelled(p) \/ PollShutdown(p)
    BY <2>8, <2>e DEF PollCancelled, PollShutdown, Ended
  <2>9. CASE Cancel(p)
    BY <2>9 DEF Cancel, PollTypeOK
  <2> QED BY <1>1, <2>1, <2>2, <2>3, <2>4, <2>5, <2>6, <2>7, <2>8, <2>9 DEF PollStep
<1>2. CASE Stop
  BY <1>2 DEF Stop, PollTypeOK
<1>3. CASE Clock
  BY <1>3 DEF Clock, Less, PollTypeOK
<1>4. ASSUME NEW q \in Queues, Deleted(q) PROVE PollTypeOK'
  <2>1. woken' \in [Pollers -> BOOLEAN]
    BY <1>4, Zenon DEF Deleted, PollTypeOK, Sleeping
  <2>2. orphan' \in [Pollers -> {"no", "empty", "stock"}]
    BY <1>4 DEF Deleted, PollTypeOK
  <2> QED BY <1>4, <2>1, <2>2 DEF Deleted, PollTypeOK
<1>5. ASSUME NEW q \in Queues, NEW g \in Groups, NEW d \in Dedups, NEW delay \in Delays,
             Send(q, g, d, delay)
      PROVE  PollTypeOK'
  BY <1>5, <1>s DEF Send
<1>6. ASSUME NEW q \in Queues, NEW to \in Queues, NEW n \in BatchSizes, Redriven(q, to, n)
      PROVE  PollTypeOK'
  BY <1>6, <1>s DEF Redriven
<1>7. ASSUME NEW q \in Queues, ReapedQueue(q) \/ Silent(q) PROVE PollTypeOK'
  BY <1>7, <1>s, <1>u DEF ReapedQueue, Silent
<1>8. ASSUME NEW i \in Ids, NEW n \in 0..MaxReceives, Removed(i, n) \/ Shown(i, n) \/ Moved(i, n)
      PROVE  PollTypeOK'
  BY <1>8, <1>s DEF Removed, SignalRemoval, Shown, Moved
<1>9. ASSUME (ReapStart /\ UNCHANGED pollVars) \/ \E c \in moves : ReapedMove(c) PROVE PollTypeOK'
  BY <1>9, <1>s, <1>u DEF ReapedMove
<1>10. CASE UNCHANGED allVars
  BY <1>10, <1>u DEF allVars
<1> QED BY <1>1, <1>2, <1>3, <1>4, <1>5, <1>6, <1>7, <1>8, <1>9, <1>10 DEF PollNext
(***************************************************************************)
(* No lost wake-up.                                                        *)
(*                                                                          *)
(* NoLostWakeup is not inductive: it does not say why nothing becomes       *)
(* receivable while a poll sleeps.  WaitInv does: nothing is receivable     *)
(* now, and no period that could change that ends before the timer.         *)
(***************************************************************************)
(* What an unwoken poll relies on while its timer runs. *)
Nothing(t) == Receivable(Polled) = {} /\ \A w \in Waits(Polled) : t <= w

(* Poll p is asleep with its timer running and its channel open. *)
Waiting(p) == Sleeping(p) /\ ~woken[p] /\ timer[p] > 0

WaitInv == \A p \in Pollers : Waiting(p) => Nothing(timer[p])

(* A step that makes no message of the polled queue receivable: what it     *)
(* changes there it takes away, and it takes nothing away from a FIFO queue *)
(* that has messages left, where a removal would unblock the group.         *)
Calm ==
  /\ \A i \in Ids : msgs'[i].q = Polled /\ Eligible(i)' => msgs'[i] = msgs[i]
  /\ Polled \in FifoQueues =>
       \/ \A i \in Ids : msgs[i].q = Polled => msgs'[i] = msgs[i]
       \/ \A i \in Ids : msgs'[i].q # Polled

LEMMA CalmStep ==
  ASSUME TypeOK, Calm, NEW t, Nothing(t)
  PROVE  Nothing(t)'
<1>1. \A i \in Ids : msgs'[i].q = Polled /\ Eligible(i)' => msgs'[i] = msgs[i] /\ Eligible(i)
  BY DEF Calm, Eligible, Live, Expired
<1>2. Receivable(Polled)' = {}
  <2> SUFFICES ASSUME NEW i \in Receivable(Polled)' PROVE FALSE
    OBVIOUS
  <2>1. i \in Ids /\ msgs'[i].q = Polled /\ Eligible(i)' /\ ~Hidden(i)' /\ ~Blocked(i)'
    BY DEF Receivable, In
  <2>2. msgs'[i] = msgs[i] /\ Eligible(i) /\ ~Hidden(i)
    BY <1>1, <2>1 DEF Hidden
  <2>3. Blocked(i)
    BY <2>1, <2>2 DEF Nothing, Receivable, In
  <2>4. PICK j \in Ids : /\ msgs[j].q = Polled /\ j < i /\ Eligible(j) /\ Hidden(j)
                         /\ msgs[j].group = msgs[i].group /\ Polled \in FifoQueues
    BY <2>1, <2>2, <2>3 DEF Blocked, In
  <2>5. msgs'[j] = msgs[j]
    BY <2>1, <2>4 DEF Calm
  <2>6. Blocked(i)'
    BY <2>1, <2>2, <2>4, <2>5 DEF Blocked, In, Eligible, Live, Expired, Hidden
  <2> QED BY <2>1, <2>6
<1>3. Waits(Polled)' \subseteq Waits(Polled)
  <2> SUFFICES ASSUME NEW w \in Waits(Polled)' PROVE w \in Waits(Polled)
    OBVIOUS
  <2>1. PICK i \in {j \in In(Polled)' : Eligible(j)'} :
          w \in {msgs'[i].hidden, msgs'[i].delay}
                \cup (IF Polled \in FifoQueues THEN {msgs'[i].life} ELSE {})
    BY DEF Waits
  <2>2. i \in In(Polled) /\ Eligible(i) /\ msgs'[i] = msgs[i]
    BY <1>1, <2>1 DEF In
  <2>3. w # 0
    BY DEF Waits
  <2> QED BY <2>1, <2>2, <2>3 DEF Waits
<1> QED BY <1>2, <1>3 DEF Nothing

(* Polls that wait after such a step have waited before it; and a message   *)
(* that is receivable already finds no poll waiting.                        *)
StillWaits == \A p \in Pollers : Waiting(p)' => Waiting(p) /\ timer'[p] = timer[p]

LEMMA WaitFrame ==
  ASSUME TypeOK, WaitInv, StillWaits, Calm \/ Receivable(Polled) # {}
  PROVE  WaitInv'
<1> SUFFICES ASSUME NEW p \in Pollers, Waiting(p)' PROVE Nothing(timer[p])'
  BY DEF WaitInv
<1>1. Nothing(timer[p]) /\ timer'[p] = timer[p]
  BY DEF WaitInv, StillWaits
<1>2. PICK t : t = timer[p]
  OBVIOUS
<1>3. Nothing(t)
  BY <1>1, <1>2
<1>4. Nothing(t)'
  BY <1>3, CalmStep DEF Nothing
<1> QED BY <1>1, <1>2, <1>4 DEF Nothing

LEMMA Untouched == ASSUME UNCHANGED vars PROVE Calm
BY DEF vars, Calm

(* A signal wakes every poll asleep on the polled queue, if it reaches it. *)
LEMMA SignalStep ==
  ASSUME TypeOK, WaitInv, NEW S, Signal(S), Polled \in S \/ Calm
  PROVE  WaitInv'
<1>1. \A p \in Pollers : /\ Sleeping(p)' = Sleeping(p) /\ timer'[p] = timer[p]
                         /\ woken'[p] = (woken[p] \/ (Sleeping(p) /\ Polled \in S))
  BY DEF Signal, OnlyWoken, Sleeping
<1>2. CASE Polled \in S
  BY <1>1, <1>2 DEF WaitInv, Waiting
<1>3. CASE Polled \notin S
  <2>1. StillWaits
    BY <1>1, <1>3 DEF StillWaits, Waiting
  <2> QED BY <2>1, <1>3, WaitFrame
<1> QED BY <1>2, <1>3

(***************************************************************************)
(* What each operation of the store does to the polled queue               *)
(***************************************************************************)
(* A message number beyond the newest is in no queue. *)
LEMMA NewIsOutside ==
  ASSUME IInv, NEW i \in Ids, i > last PROVE msgs[i].q # Polled
BY LongPollAssumption, SQSAssumption DEF IInv, CopyInv, SlotInv

LEMMA SendCalm ==
  ASSUME IInv, NEW q \in Queues, NEW g, NEW d, NEW delay, SendMessage(q, g, d, delay), q # Polled
  PROVE  Calm
<1>1. last + 1 \in Ids /\ msgs \in [Ids -> Message] /\ last \in Nat
  BY SQSAssumption DEF SendMessage, Ids, IInv, TypeOK
<1>2. msgs[last + 1].q # Polled
  BY <1>1, NewIsOutside
<1>3. /\ msgs'[last + 1].q = q
      /\ \A i \in Ids : i # last + 1 => msgs'[i] = msgs[i]
  BY <1>1 DEF SendMessage, NewMessage
<1> QED BY <1>2, <1>3 DEF Calm

LEMMA TombstoneNotEligible ==
  ASSUME NEW q, NEW i \in Ids, msgs'[i] = Tombstone(q) PROVE ~Eligible(i)'
BY DEF Tombstone, Gone, Eligible, Live

LEMMA RemoveCalm ==
  ASSUME TypeOK, NEW i \in Ids, msgs' = [msgs EXCEPT ![i] = Tombstone(@.q)],
         Polled \notin Fifo(msgs[i].q)
  PROVE  Calm
<1>1. /\ msgs'[i] = Tombstone(msgs[i].q)
      /\ \A j \in Ids : j # i => msgs'[j] = msgs[j]
  BY DEF TypeOK
<1>2. ~Eligible(i)'
  BY <1>1, TombstoneNotEligible
<1> QED BY <1>1, <1>2 DEF Calm, Fifo
(* A transfer, by the poller or by the reaper, that reaches neither of the  *)
(* queues it signals.                                                       *)
LEMMA TransferCalm ==
  ASSUME IInv, NEW i \in Ids, NEW r \in BOOLEAN, Transfer(i, r),
         Polled \notin Fifo(msgs[i].q) \cup Appended(i)
  PROVE  Calm
<1> DEFINE to == policy[msgs[i].q].target
<1>1. msgs \in [Ids -> Message] /\ last \in Nat /\ last \in 0..MaxMsgs
  BY SQSAssumption DEF IInv, TypeOK
<1>2. CASE ~r /\ Duplicate(to, msgs[i].dedup)
  BY <1>2, RemoveCalm DEF Transfer, IInv
<1>3. CASE ~(~r /\ Duplicate(to, msgs[i].dedup))
  <2>1. /\ last < MaxMsgs /\ last' = last + 1
        /\ msgs' = [msgs EXCEPT ![i] = Tombstone(@.q),
                                ![last + 1] = NewMessage(to, msgs[i].origin, msgs[i].group,
                                  msgs[i].dedup, IF r THEN 0 ELSE QueueDelay[to], r)]
    BY <1>3 DEF Transfer
  <2>2. last + 1 \in Ids /\ to # Polled
    BY <1>1, <2>1, SQSAssumption DEF Ids, Appended
  <2>3. msgs[last + 1].q # Polled
    BY <1>1, <2>2, NewIsOutside
  <2>4. /\ msgs'[last + 1].q = to
        /\ i # last + 1 => msgs'[i] = Tombstone(msgs[i].q)
        /\ \A j \in Ids : j # i /\ j # last + 1 => msgs'[j] = msgs[j]
    BY <1>1, <2>1, <2>2 DEF NewMessage
  <2>5. i # last + 1 => ~Eligible(i)'
    BY <2>4, TombstoneNotEligible
  <2> QED BY <2>2, <2>3, <2>4, <2>5 DEF Calm, Fifo
<1> QED BY <1>2, <1>3

LEMMA RedriveCalm ==
  ASSUME IInv, NEW q \in Queues, NEW to \in Queues, NEW n, RedriveMessages(q, to, n),
         Polled \notin Fifo(q) \cup {to}
  PROVE  Calm
<1> DEFINE batch == FirstOf({i \in In(q) : Live(i) /\ ~Expired(i)}, n)
           copies == (last + 1)..(last + Cardinality(batch))
<1>1. \A i \in batch : i \in Ids /\ msgs[i].q = q
  BY DEF FirstOf, In
<1>2. PICK src \in [copies -> batch] :
        msgs' = [k \in Ids |->
          IF k \in copies
            THEN NewMessage(to, msgs[src[k]].origin, msgs[src[k]].group, msgs[src[k]].dedup,
                            QueueDelay[to], TRUE)
            ELSE IF k \in batch THEN Tombstone(q) ELSE msgs[k]]
  BY DEF RedriveMessages
<1>3. Cardinality(batch) \in Nat /\ last \in Nat
  BY <1>1, BatchFinite, SQSAssumption DEF IInv, TypeOK
<1> HIDE DEF batch
<1>4. \A k \in copies \cap Ids : msgs[k].q # Polled
  BY <1>3, NewIsOutside, SQSAssumption DEF Ids
<1>5. \A k \in copies \cap Ids : msgs'[k].q = to
  BY <1>2 DEF NewMessage
<1>6. \A k \in batch \ copies : ~Eligible(k)'
  BY <1>1, <1>2, TombstoneNotEligible
<1>7. \A k \in Ids : k \notin copies /\ k \notin batch => msgs'[k] = msgs[k]
  BY <1>2
<1> QED BY <1>1, <1>4, <1>5, <1>6, <1>7 DEF Calm, Fifo

LEMMA ReapCalm ==
  ASSUME IInv, NEW q \in Queues, ReapQueue(q),
         Polled \notin (IF \E i \in In(q) : msgs'[i] # msgs[i] THEN Fifo(q) ELSE {})
  PROVE  Calm
<1>1. \A i \in Ids : \/ msgs'[i] = msgs[i]
                     \/ i \in In(q) /\ (msgs'[i] = Gone \/ msgs'[i] = [msgs[i] EXCEPT !.stale = TRUE])
  BY DEF ReapQueue, In
<1>2. ASSUME NEW i \in Ids, msgs'[i].q = Polled, Eligible(i)' PROVE msgs'[i] = msgs[i]
  <2>1. msgs'[i] # Gone
    BY <1>2, LongPollAssumption, SQSAssumption DEF Gone
  <2>2. msgs[i] \in Message
    BY DEF IInv, TypeOK
  <2>3. ASSUME msgs'[i] = [msgs[i] EXCEPT !.stale = TRUE] PROVE FALSE
    BY <1>2, <2>2, <2>3 DEF Eligible, Message
  <2> QED BY <1>1, <2>1, <2>3
<1>3. ASSUME Polled \in FifoQueues, NEW i \in Ids, msgs[i].q = Polled PROVE msgs'[i] = msgs[i]
  BY <1>1, <1>3 DEF Fifo, In
<1> QED BY <1>2, <1>3 DEF Calm

LEMMA PurgeCalm ==
  ASSUME TypeOK, NEW q \in Queues,
         msgs' = [i \in Ids |-> IF i \in In(q) THEN Gone ELSE msgs[i]]
  PROVE  Calm
<1>1. Gone.q # Polled
  BY LongPollAssumption, SQSAssumption DEF Gone
<1> QED BY <1>1 DEF Calm, In

LEMMA ReceiveElsewhere ==
  ASSUME TypeOK, NEW q \in Queues, NEW n, NEW vt, ReceiveMessage(q, n, vt)
  PROVE  Calm \/ Receivable(Polled) # {}
<1>1. CASE q = Polled
  BY <1>1 DEF ReceiveMessage, FirstOf
<1>2. CASE q # Polled
  <2> DEFINE batch == FirstOf(Receivable(q), n)
  <2>1. \A i \in batch : msgs[i].q = q
    BY DEF FirstOf, Receivable, In
  <2>2. msgs' = [i \in Ids |-> IF i \in batch
                  THEN [msgs[i] EXCEPT !.rcpt = @ + 1, !.count = @ + 1, !.hidden = vt]
                  ELSE msgs[i]]
    BY DEF ReceiveMessage
  <2> HIDE DEF batch
  <2>3. \A i \in Ids : msgs'[i].q # q => i \notin batch
    BY <2>1, <2>2 DEF TypeOK, Message
  <2> QED BY <1>2, <2>1, <2>2, <2>3 DEF Calm
<1> QED BY <1>1, <1>2

(* The clock: a poll whose timer still runs afterwards had two ticks left,  *)
(* and so had every period it waits for, so none of them ends now.          *)
LEMMA ClockStep ==
  ASSUME TypeOK, PollTypeOK, WaitInv, Clock
  PROVE  WaitInv'
<1> SUFFICES ASSUME NEW p \in Pollers, Waiting(p)' PROVE Nothing(timer[p])'
  BY DEF WaitInv
<1>1. timer[p] \in Nat /\ timer'[p] = timer[p] - 1 /\ timer[p] > 1
  BY DEF PollTypeOK, Clock, Less, Waiting
<1>2. Nothing(timer[p])
  BY <1>1 DEF WaitInv, Waiting, Clock, Sleeping
<1>t. \A i \in Ids : msgs[i] \in Message /\ msgs[i].hidden \in Nat /\ msgs[i].delay \in Nat /\ msgs[i].life \in Nat
  BY DEF TypeOK, Message
<1>3. \A i \in Ids :
        /\ msgs'[i].hidden = Less(msgs[i].hidden) /\ msgs'[i].delay = Less(msgs[i].delay)
        /\ msgs'[i].life = Less(msgs[i].life) /\ msgs'[i].q = msgs[i].q
        /\ msgs'[i].group = msgs[i].group /\ msgs'[i].stale = msgs[i].stale
        /\ msgs'[i].deleted = msgs[i].deleted
  BY <1>t DEF Clock, Tick, Message
<1>4. ASSUME NEW i \in Ids, msgs[i].q = Polled, Eligible(i)
      PROVE  /\ msgs[i].hidden = 0 \/ timer[p] <= msgs[i].hidden
             /\ msgs[i].delay = 0 \/ timer[p] <= msgs[i].delay
             /\ Polled \in FifoQueues => timer[p] <= msgs[i].life
  <2>1. i \in {j \in In(Polled) : Eligible(j)} /\ msgs[i].life # 0
    BY <1>4 DEF In, Eligible, Expired
  <2>2. /\ msgs[i].hidden # 0 => msgs[i].hidden \in Waits(Polled)
        /\ msgs[i].delay # 0 => msgs[i].delay \in Waits(Polled)
        /\ Polled \in FifoQueues => msgs[i].life \in Waits(Polled)
    BY <2>1 DEF Waits
  <2> QED BY <1>2, <2>2 DEF Nothing
<1>5. \A i \in Ids : Eligible(i)' => Eligible(i)
  BY <1>t, <1>3 DEF Eligible, Live, Expired, Less
<1>6. \A i \in Ids : msgs[i].q = Polled /\ Eligible(i) => (Hidden(i)' <=> Hidden(i))
  BY <1>1, <1>t, <1>3, <1>4 DEF Hidden, Less
<1>7. \A i \in Ids : msgs[i].q = Polled /\ Polled \in FifoQueues /\ Eligible(i) => Eligible(i)'
  BY <1>1, <1>t, <1>3, <1>4 DEF Eligible, Live, Expired, Less
<1>8. Receivable(Polled)' = {}
  <2> SUFFICES ASSUME NEW i \in Receivable(Polled)' PROVE FALSE
    OBVIOUS
  <2>1. i \in Ids /\ msgs'[i].q = Polled /\ Eligible(i)' /\ ~Hidden(i)' /\ ~Blocked(i)'
    BY DEF Receivable, In
  <2>2. msgs[i].q = Polled /\ Eligible(i) /\ ~Hidden(i)
    BY <2>1, <1>3, <1>5, <1>6
  <2>3. Blocked(i)
    BY <1>2, <2>1, <2>2 DEF Nothing, Receivable, In
  <2>4. PICK j \in Ids : /\ msgs[j].q = Polled /\ j < i /\ Eligible(j) /\ Hidden(j)
                         /\ msgs[j].group = msgs[i].group /\ Polled \in FifoQueues
    BY <2>2, <2>3 DEF Blocked, In
  <2>5. Eligible(j)' /\ Hidden(j)' /\ msgs'[j].q = Polled /\ msgs'[j].group = msgs'[i].group
    BY <2>1, <2>4, <1>3, <1>6, <1>7
  <2>6. Blocked(i)'
    BY <2>1, <2>4, <2>5 DEF Blocked, In
  <2> QED BY <2>1, <2>6
<1>9. ASSUME NEW w \in Waits(Polled)' PROVE timer'[p] <= w
  <2>1. PICK i \in {j \in In(Polled)' : Eligible(j)'} :
          w \in {msgs'[i].hidden, msgs'[i].delay}
                \cup (IF Polled \in FifoQueues THEN {msgs'[i].life} ELSE {})
    BY DEF Waits
  <2>2. i \in Ids /\ msgs[i].q = Polled /\ Eligible(i)
    BY <2>1, <1>3, <1>5 DEF In
  <2>3. w # 0
    BY DEF Waits
  <2> QED BY <1>1, <1>t, <1>3, <1>4, <2>1, <2>2, <2>3 DEF Less
<1> QED BY <1>8, <1>9 DEF Nothing

(* The polls themselves: falling asleep is where the invariant is made. *)
LEMMA PollWaitStep ==
  ASSUME TypeOK, PollTypeOK, WaitInv, NEW p \in Pollers, PollStep(p) \/ Cancel(p)
  PROVE  WaitInv'
<1>t. /\ pc \in [Pollers -> {"idle", "start", "lookup", "scan", "wait"} \cup Ended]
      /\ DOMAIN woken = Pollers /\ DOMAIN timer = Pollers /\ DOMAIN orphan = Pollers
  BY DEF PollTypeOK
<1>o. ASSUME StillWaits, UNCHANGED vars PROVE WaitInv'
  BY <1>o, WaitFrame, Untouched
<1>e. ASSUME NEW how \in Ended, End(p, how) PROVE StillWaits
  BY <1>e, <1>t DEF End, Goto, Ended, StillWaits, Waiting, Sleeping
<1>g. ASSUME NEW to, Goto(p, to), to # "wait", UNCHANGED <<woken, timer, orphan>> PROVE StillWaits
  BY <1>g, <1>t DEF Goto, StillWaits, Waiting, Sleeping
<1>1. CASE PollBegin(p)
  BY <1>1, <1>g, <1>o DEF PollBegin
<1>2. CASE PollCheck(p)
  BY <1>2, <1>g, <1>e, <1>o DEF PollCheck, Ended
<1>3. CASE PollLookup(p)
  BY <1>3, <1>g, <1>e, <1>o DEF PollLookup, Ended
<1>4. CASE PollReceive(p)
  <2>1. StillWaits
    BY <1>4, <1>e DEF PollReceive, Ended
  <2>2. Calm \/ Receivable(Polled) # {}
    BY <1>4, ReceiveElsewhere, LongPollAssumption DEF PollReceive
  <2> QED BY <2>1, <2>2, WaitFrame
<1>5. CASE PollSleep(p)
  <2>1. CASE left[p] = 0
    BY <1>5, <2>1, <1>e, <1>o DEF PollSleep, Ended
  <2>2. CASE left[p] # 0
    <3>1. /\ Receivable(Polled) = {} /\ UNCHANGED vars
          /\ pc' = [pc EXCEPT ![p] = "wait"] /\ timer' = [timer EXCEPT ![p] = Sleep(p)]
          /\ UNCHANGED <<woken, orphan>>
      BY <1>5, <2>2 DEF PollSleep, Goto
    <3>2. Receivable(Polled)' = Receivable(Polled) /\ Waits(Polled)' = Waits(Polled)
      BY <3>1 DEF vars, Receivable, Waits, In, Eligible, Live, Expired, Hidden, Blocked
    <3>3. \A t \in Waits(Polled) : Sleep(p) <= t
      BY SleepBound DEF PollTypeOK
    <3>4. Nothing(timer[p])'
      BY <3>1, <3>2, <3>3, <1>t DEF Nothing
    <3>5. ASSUME NEW r \in Pollers, r # p, Waiting(r)' PROVE Nothing(timer[r])'
      <4>1. Waiting(r) /\ timer'[r] = timer[r]
        BY <3>1, <3>5, <1>t DEF Waiting, Sleeping
      <4>2. Nothing(timer[r])
        BY <4>1 DEF WaitInv
      <4> QED BY <3>2, <4>1, <4>2 DEF Nothing
    <3> QED BY <3>4, <3>5 DEF WaitInv
  <2> QED BY <2>1, <2>2
<1>6. CASE PollOrphan(p)
  <2>1. ASSUME Goto(p, "wait"), timer' = [timer EXCEPT ![p] = left[p]], orphan[p] # "no",
               UNCHANGED <<woken, left, orphan, cancel, done>>
        PROVE  StillWaits
    BY <2>1, <1>t DEF Goto, StillWaits, Waiting, Sleeping
  <2> QED BY <1>6, <2>1, <1>e, <1>o DEF PollOrphan, Ended
<1>7. CASE PollWake(p)
  <2>1. StillWaits
    BY <1>7, <1>t DEF PollWake, Goto, StillWaits, Waiting, Sleeping
  <2> QED BY <1>7, <2>1, <1>o DEF PollWake
<1>8. CASE PollCancelled(p) \/ PollShutdown(p)
  BY <1>8, <1>e, <1>o DEF PollCancelled, PollShutdown, Ended
<1>9. CASE Cancel(p)
  <2>1. StillWaits
    BY <1>9 DEF Cancel, StillWaits, Waiting, Sleeping
  <2> QED BY <1>9, <2>1, <1>o DEF Cancel
<1> QED BY <1>1, <1>2, <1>3, <1>4, <1>5, <1>6, <1>7, <1>8, <1>9 DEF PollStep
PollIInv == IInv /\ PollTypeOK /\ WaitInv

LEMMA WaitStep == PollIInv /\ [PollNext]_allVars => WaitInv'
<1> SUFFICES ASSUME PollIInv, [PollNext]_allVars PROVE WaitInv'
  OBVIOUS
<1>t. IInv /\ TypeOK /\ PollTypeOK /\ WaitInv
  BY DEF PollIInv, IInv
<1>s. ASSUME NEW S, Signal(S), Polled \notin S => Calm PROVE WaitInv'
  BY <1>s, <1>t, SignalStep
<1>o. ASSUME UNCHANGED pollVars, Calm \/ Receivable(Polled) # {} PROVE WaitInv'
  <2>1. StillWaits
    BY <1>o DEF pollVars, StillWaits, Waiting, Sleeping
  <2> QED BY <2>1, <1>o, <1>t, WaitFrame
<1>1. ASSUME NEW p \in Pollers, PollStep(p) \/ Cancel(p) PROVE WaitInv'
  BY <1>1, <1>t, PollWaitStep
<1>2. CASE Stop
  <2>1. StillWaits
    BY <1>2 DEF Stop, StillWaits, Waiting, Sleeping
  <2> QED BY <1>2, <2>1, <1>t, WaitFrame, Untouched DEF Stop
<1>3. CASE Clock
  BY <1>3, <1>t, ClockStep
<1>4. ASSUME NEW q \in Queues, NEW g \in Groups, NEW d \in Dedups, NEW delay \in Delays,
             Send(q, g, d, delay)
      PROVE  WaitInv'
  <2>1. SendMessage(q, g, d, delay) /\ Signal({q})
    BY <1>4 DEF Send
  <2> QED BY <2>1, <1>s, <1>t, SendCalm
<1>5. ASSUME NEW q \in Queues, NEW to \in Queues, NEW n \in BatchSizes, Redriven(q, to, n)
      PROVE  WaitInv'
  <2>1. RedriveMessages(q, to, n) /\ Signal(Fifo(q) \cup {to})
    BY <1>5 DEF Redriven
  <2> QED BY <2>1, <1>s, <1>t, RedriveCalm
<1>6. ASSUME NEW q \in Queues, ReapedQueue(q) PROVE WaitInv'
  <2> DEFINE S == IF \E i \in In(q) : msgs'[i] # msgs[i] THEN Fifo(q) ELSE {}
  <2>1. ReapQueue(q) /\ Signal(S)
    BY <1>6 DEF ReapedQueue
  <2>2. Polled \notin S => Calm
    BY <2>1, <1>t, ReapCalm
  <2> HIDE DEF S
  <2> QED BY <2>1, <2>2, <1>s
<1>7. ASSUME NEW q \in Queues, Silent(q) PROVE WaitInv'
  <2>1. CASE \E n \in BatchSizes, vt \in VisTimeouts : ReceiveMessage(q, n, vt)
    BY <1>7, <2>1, <1>o, <1>t, ReceiveElsewhere DEF Silent
  <2>2. CASE PurgeQueue(q)
    BY <1>7, <2>2, <1>o, <1>t, PurgeCalm DEF Silent, PurgeQueue
  <2>3. CASE \E p \in Policies : CreateQueue(q, p) \/ SetQueueAttributes(q, p)
    <3>1. Calm
      BY <2>3 DEF CreateQueue, SetQueueAttributes, Calm
    <3> QED BY <3>1, <1>7, <1>o DEF Silent
  <2> QED BY <1>7, <2>1, <2>2, <2>3 DEF Silent
<1>8. ASSUME NEW q \in Queues, Deleted(q) PROVE WaitInv'
  <2>1. Calm
    BY <1>8, <1>t, PurgeCalm DEF Deleted, DeleteQueue
  <2>2. StillWaits
    BY <1>8, Zenon DEF Deleted, StillWaits, Waiting, Sleeping
  <2> QED BY <2>1, <2>2, <1>t, WaitFrame
<1>9. ASSUME NEW i \in Ids, NEW n \in 0..MaxReceives, Removed(i, n) PROVE WaitInv'
  <2>1. msgs' = [msgs EXCEPT ![i] = Tombstone(@.q)] /\ Signal(Fifo(msgs[i].q))
    BY <1>9 DEF Removed, SignalRemoval, DeleteMessage, DeleteMessageByID
  <2> QED BY <2>1, <1>s, <1>t, RemoveCalm
<1>10. ASSUME NEW i \in Ids, NEW n \in 0..MaxReceives, Shown(i, n) PROVE WaitInv'
  <2>1. Signal({msgs[i].q})
    BY <1>10 DEF Shown
  <2>2. ASSUME msgs[i].q # Polled PROVE Calm
    <3>1. \A j \in Ids : j # i => msgs'[j] = msgs[j]
      BY <1>10, <1>t DEF Shown, ChangeMessageVisibility, ReleaseMessage, TypeOK
    <3>2. msgs'[i].q = msgs[i].q
      BY <1>10, <1>t DEF Shown, ChangeMessageVisibility, ReleaseMessage, TypeOK, Message
    <3> QED BY <2>2, <3>1, <3>2 DEF Calm
  <2> QED BY <2>1, <2>2, <1>s
<1>11. ASSUME NEW i \in Ids, NEW n \in 0..MaxReceives, Moved(i, n) PROVE WaitInv'
  <2>1. Transfer(i, FALSE) /\ Signal(Fifo(msgs[i].q) \cup Appended(i))
    BY <1>11 DEF Moved, MoveToDLQIfExceeded
  <2>2. Polled \notin Fifo(msgs[i].q) \cup Appended(i) => Calm
    BY <2>1, <1>t, TransferCalm
  <2> QED BY <2>1, <2>2, <1>s
<1>12. CASE ReapStart /\ UNCHANGED pollVars
  <2>1. Calm
    BY <1>12 DEF ReapStart, Calm
  <2> QED BY <2>1, <1>12, <1>o
<1>13. ASSUME NEW c \in moves, ReapedMove(c) PROVE WaitInv'
  <2> DEFINE S == IF last' > last THEN Fifo(msgs[c.id].q) \cup Appended(c.id) ELSE {}
  <2>1. ReapMove(c) /\ Signal(S) /\ c.id \in Ids /\ last \in Nat
    BY <1>13, <1>t, SQSAssumption DEF ReapedMove, TypeOK
  <2>2. CASE Transfer(c.id, TRUE)
    <3>1. S = Fifo(msgs[c.id].q) \cup Appended(c.id)
      BY <2>1, <2>2 DEF Transfer
    <3>2. Polled \notin Fifo(msgs[c.id].q) \cup Appended(c.id) => Calm
      BY <2>1, <2>2, <1>t, TransferCalm
    <3> QED BY <2>1, <3>1, <3>2, <1>s
  <2>3. CASE UNCHANGED msgs
    <3>1. Calm
      BY <2>3 DEF Calm
    <3> HIDE DEF S
    <3> QED BY <2>1, <3>1, <1>s
  <2> QED BY <2>1, <2>2, <2>3 DEF ReapMove
<1>14. CASE UNCHANGED allVars
  BY <1>14, <1>o, Untouched DEF allVars
<1> QED BY <1>1, <1>2, <1>3, <1>4, <1>5, <1>6, <1>7, <1>8, <1>9, <1>10, <1>11, <1>12, <1>13, <1>14
        DEF PollNext

LEMMA PollInvariance == PollSpec => []PollIInv
<1>1. PollInit => PollTypeOK /\ WaitInv
  BY PollTypeInit DEF PollInit, WaitInv, Waiting, Sleeping
<1>2. IInv /\ PollTypeOK /\ WaitInv /\ [PollNext]_allVars => PollTypeOK' /\ WaitInv'
  BY PollTypeStep, WaitStep DEF PollIInv, IInv
<1> QED BY <1>1, <1>2, PollsUseTheStore, Invariance, PTL DEF PollSpec, PollIInv

(* A poll's state is well formed, and its timer never outlasts its deadline. *)
THEOREM PollType == PollSpec => []PollTypeOK
BY PollInvariance, PTL DEF PollIInv

(* No wake-up is lost: whichever operation or expiring period makes a       *)
(* message of the polled queue receivable, each poll asleep on the queue    *)
(* has been signalled or its timer has run out (Queue.signal and            *)
(* ReceiveMessageUntil).                                                    *)
THEOREM WakeupsArrive == PollSpec => []NoLostWakeup
<1>1. PollIInv => NoLostWakeup
  BY DEF PollIInv, PollTypeOK, WaitInv, Waiting, Nothing, NoLostWakeup
<1> QED BY <1>1, PollInvariance, PTL
=============================================================================
