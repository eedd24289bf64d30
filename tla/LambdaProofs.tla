---------------------------- MODULE LambdaProofs ----------------------------
(***************************************************************************)
(* Proofs about Lambda, for every number of invocations, containers,        *)
(* packages and versions.                                                   *)
(***************************************************************************)
EXTENDS Lambda, FiniteSetTheorems, TLAPS

(***************************************************************************)
(* The invariant of the pool.  The start gate makes the check of the count  *)
(* and the creation of a container one step for everybody else, and a       *)
(* container changes hands only while it is in the pool and idle.           *)
(***************************************************************************)
Gated == {"limit2", "reserved2", "capture", "idle2", "count", "discard", "count2",
          "retain", "create", "retire", "start"}
Holding == {"retire", "start", "run", "removing"}

(* Invocation i with record r, when the gate is g and the pool p. *)
InvokerOK(i, r, g, p) ==
    /\ r.pc # "done" => r.rev \in Revisions
    /\ r.pc \in Gated => g = i
    /\ r.pc \in Holding => r.info # NoBox
    /\ r.info # NoBox => r.pc \in Holding \cup {"finish"}
    /\ r.pc \in {"retain", "create"} => Cardinality(p) < MaxConcurrency
    /\ r.pc = "removing" => r.info \notin p

ContainerOK(c) ==
    /\ c \in pool \/ box[c].lease => box[c].rev \in Revisions
    /\ box[c].lease => box[c].docker

HeldOnce == \A i, j \in Invokers : i # j /\ inv[i].info = inv[j].info => inv[i].info = NoBox
BusyHeld == \A c \in pool : box[c].busy <=> \E i \in Invokers : Holds(i, c)

(* TypeOK with leases that may be any integer: that none is released twice *)
(* is what the invariant of the leases below shows.                        *)
StoreType ==
    /\ fn \in Function \cup {NoFunction}
    /\ dirs \subseteq Codes /\ leases \in [Codes -> Int] /\ gc \in BOOLEAN
    /\ instances \in 0..MaxInstance /\ ops \in 0..MaxOps /\ calls \in 0..MaxInvokes

EngineType ==
    /\ pool \subseteq Containers /\ box \in [Containers -> Container]
    /\ gate \in Invokers \cup {Free} /\ inv \in [Invokers -> Invoker]
    /\ pending \in [retire : Nat, signal : Nat]

PoolInv ==
    /\ StoreType /\ EngineType
    /\ \A i \in Invokers : InvokerOK(i, inv[i], gate, pool)
    /\ \A c \in Containers : ContainerOK(c)
    /\ HeldOnce /\ BusyHeld
    /\ Cardinality(pool) <= MaxConcurrency

(* What is retired leaves the pool once idle, and what is not retired is    *)
(* current, but for an update or a cold start that will look at it again.   *)
StaleInv ==
    \A c \in pool :
       /\ box[c].retired => box[c].busy
       /\ ~box[c].retired /\ box[c].rev.version = Latest =>
             \/ pending.retire > 0
             \/ Exists /\ box[c].rev = CurrentRevision
             \/ \E i \in Invokers : Holds(i, c) /\ At(i, "retire")

(* What an invocation with record r has found out since it captured its    *)
(* channel still holds as long as the channel is open.                      *)
MayReuse(r) == Cardinality(Busy) < r.limit /\ Reusable(r.rev) # {}
Others(r) == {c \in pool : ~box[c].busy /\ box[c].rev # r.rev}
Stopped(r) == r.limit = 0 \/ (r.reserved /\ Cardinality(Busy) >= r.limit)

Informed(r) ==
    r.ch = "open" =>
       /\ r.pc \in {"count", "discard", "count2"} => ~MayReuse(r)
       /\ r.pc = "discard" => Count >= r.limit
       /\ r.pc = "count2" => Count < r.limit \/ Others(r) = {}
       /\ r.pc = "wait" =>
            Stopped(r) \/ (~MayReuse(r) /\ Count >= r.limit /\ Others(r) = {})

WaitInv == \A i \in Invokers : Informed(inv[i])

(***************************************************************************)
(* How an invocation moves                                                 *)
(***************************************************************************)
Closed(r) == [r EXCEPT !.ch = IF @ = "open" THEN "closed" ELSE @]

Alike(r, s) ==
    /\ r.pc = s.pc /\ r.rev = s.rev /\ r.limit = s.limit /\ r.reserved = s.reserved
    /\ r.info = s.info

(* i goes on with record r, alone or with everybody notified. *)
Alone(i, r) ==
    /\ inv' \in [Invokers -> Invoker] /\ inv'[i] = r
    /\ \A j \in Invokers : j # i => inv'[j] = inv[j]

Told(i, r) ==
    /\ inv' \in [Invokers -> Invoker] /\ Alike(inv'[i], r)
    /\ \A j \in Invokers : j # i => Alike(inv'[j], inv[j])
    /\ \A j \in Invokers : inv'[j].ch # "open"

Moves(i, r) ==
    /\ inv' \in [Invokers -> Invoker] /\ Alike(inv'[i], r)
    /\ \A j \in Invokers : j # i => Alike(inv'[j], inv[j])

LEMMA MovesEither ==
    ASSUME NEW i \in Invokers, NEW r, Alone(i, r) \/ Told(i, r)
    PROVE  Moves(i, r)
BY DEF Alone, Told, Moves, Alike

LEMMA ClosedRecord ==
    ASSUME NEW r \in Invoker
    PROVE  Closed(r) \in Invoker /\ Alike(Closed(r), r) /\ Closed(r).ch # "open"
BY DEF Closed, Invoker, Alike

LEMMA NotifiedState ==
    ASSUME NEW state \in [Invokers -> Invoker]
    PROVE  /\ Notified(state) \in [Invokers -> Invoker]
           /\ \A i \in Invokers : Notified(state)[i] = Closed(state[i])
BY ClosedRecord DEF Notified, Closed

LEMMA SetAlone ==
    ASSUME EngineType, NEW i \in Invokers, NEW r \in Invoker, inv' = [inv EXCEPT ![i] = r]
    PROVE  Alone(i, r)
BY DEF EngineType, Alone

LEMMA SetTold ==
    ASSUME EngineType, NEW i \in Invokers, NEW r \in Invoker,
           inv' = Notified([inv EXCEPT ![i] = r])
    PROVE  Told(i, r)
<1> DEFINE st == [inv EXCEPT ![i] = r]
<1>1. st \in [Invokers -> Invoker] /\ st[i] = r /\ \A j \in Invokers : j # i => st[j] = inv[j]
  BY DEF EngineType
<1> HIDE DEF st
<1>2. inv' \in [Invokers -> Invoker] /\ \A j \in Invokers : inv'[j] = Closed(st[j])
  BY <1>1, NotifiedState DEF st
<1>3. \A j \in Invokers : Alike(inv'[j], st[j]) /\ inv'[j].ch # "open"
  BY <1>1, <1>2, ClosedRecord
<1> QED BY <1>1, <1>2, <1>3 DEF Told

GoesTo(r, i, pc) == /\ r \in Invoker /\ r.pc = pc /\ r.rev = inv[i].rev /\ r.limit = inv[i].limit
                 /\ r.reserved = inv[i].reserved /\ r.ch = inv[i].ch /\ r.info = inv[i].info

LEMMA Going ==
    ASSUME EngineType, NEW i \in Invokers, NEW pc \in Steps
    PROVE  /\ GoesTo([inv[i] EXCEPT !.pc = pc], i, pc)
           /\ [inv EXCEPT ![i].pc = pc] = [inv EXCEPT ![i] = [inv[i] EXCEPT !.pc = pc]]
<1>1. inv[i] \in Invoker
  BY DEF EngineType
<1>2. GoesTo([inv[i] EXCEPT !.pc = pc], i, pc)
  BY <1>1 DEF Invoker, GoesTo
<1> QED BY <1>2 DEF EngineType

LEMMA GotoAlone ==
    ASSUME EngineType, NEW i \in Invokers, NEW pc \in Steps, Goto(i, pc)
    PROVE  \E r \in Invoker : Alone(i, r) /\ GoesTo(r, i, pc)
<1>1. inv' = [inv EXCEPT ![i] = [inv[i] EXCEPT !.pc = pc]]
  BY Going DEF Goto
<1>2. GoesTo([inv[i] EXCEPT !.pc = pc], i, pc) /\ [inv[i] EXCEPT !.pc = pc] \in Invoker
  BY Going DEF GoesTo
<1> QED BY <1>1, <1>2, SetAlone

LEMMA GotoTold ==
    ASSUME EngineType, NEW i \in Invokers, NEW pc \in Steps,
           inv' = Notified([inv EXCEPT ![i].pc = pc])
    PROVE  \E r \in Invoker : Told(i, r) /\ GoesTo(r, i, pc)
<1>1. inv' = Notified([inv EXCEPT ![i] = [inv[i] EXCEPT !.pc = pc]])
  BY Going
<1>2. GoesTo([inv[i] EXCEPT !.pc = pc], i, pc) /\ [inv[i] EXCEPT !.pc = pc] \in Invoker
  BY Going DEF GoesTo
<1> QED BY <1>1, <1>2, SetTold

(* The locals of acquireContainer are gone; the container is c. *)
Left(r, i, pc, c) ==
    /\ r \in Invoker /\ r.pc = pc /\ r.rev = inv[i].rev /\ r.info = c /\ r.ch = "none"

LEMMA ReturnedRecord ==
    ASSUME EngineType, NEW i \in Invokers, NEW pc \in Steps, NEW c \in Containers \cup {NoBox}
    PROVE  \E r \in Invoker : Left(r, i, pc, c) /\ Returned(i, pc, c) = [inv EXCEPT ![i] = r]
<1> DEFINE r == [IdleInvoker EXCEPT !.pc = pc, !.rev = inv[i].rev,
                                    !.info = c, !.retried = inv[i].retried]
<1>1. inv[i] \in Invoker /\ 0 \in 0..MaxConcurrency
  BY LimitsAssumption DEF EngineType
<1>2. r \in Invoker
  BY <1>1 DEF IdleInvoker, Invoker
<1>3. Left(r, i, pc, c)
  BY <1>2 DEF IdleInvoker, Left
<1> QED BY <1>2, <1>3 DEF Returned

LEMMA FailAlone ==
    ASSUME PoolInv, NEW i \in Invokers, Fail(i), inv[i].info = NoBox
    PROVE  \E r \in Invoker : Alone(i, r) /\ Left(r, i, "finish", NoBox)
<1>1. EngineType /\ "finish" \in Steps
  BY DEF PoolInv, Steps
<1> QED BY <1>1, ReturnedRecord, SetAlone DEF Fail

(***************************************************************************)
(* The pool                                                                *)
(***************************************************************************)
LEMMA PoolFinite ==
    ASSUME EngineType
    PROVE  /\ IsFiniteSet(pool) /\ Cardinality(pool) \in Nat
           /\ \A p \in SUBSET pool : IsFiniteSet(p) /\ Cardinality(p) \in Nat
                                     /\ Cardinality(p) <= Cardinality(pool)
BY FS_Subset, FS_CardinalityType, ContainersAssumption DEF EngineType

LEMMA StayOK ==
    ASSUME PoolInv, NEW j \in Invokers, Alike(inv'[j], inv[j]), gate = j => gate' = j,
           pool' \subseteq pool
    PROVE  InvokerOK(j, inv'[j], gate', pool')
<1>1. InvokerOK(j, inv[j], gate, pool)
  BY DEF PoolInv
<1>2. /\ Cardinality(pool') <= Cardinality(pool) /\ Cardinality(pool) \in Nat
      /\ Cardinality(pool') \in Nat
  BY PoolFinite DEF PoolInv
<1> QED BY <1>1, <1>2, LimitsAssumption DEF InvokerOK, Alike

(* Nobody takes a container and the pool does not grow. *)
LEMMA PoolShrinks ==
    ASSUME PoolInv, StoreType', EngineType', pool' \subseteq pool,
           \A c \in Containers :
             /\ box'[c].rev = box[c].rev /\ (c \in pool' => box'[c].busy = box[c].busy)
             /\ box'[c].lease => box[c].lease /\ box'[c].docker,
           \A j \in Invokers : InvokerOK(j, inv'[j], gate', pool'),
           \A j \in Invokers : \/ inv'[j].info = inv[j].info
                               \/ inv'[j].info = NoBox /\ inv[j].info \notin pool'
    PROVE  PoolInv'
<1>1. Cardinality(pool') <= MaxConcurrency
  <2>1. /\ Cardinality(pool') <= Cardinality(pool) /\ Cardinality(pool) \in Nat
        /\ Cardinality(pool') \in Nat
    BY PoolFinite DEF PoolInv
  <2> QED BY <2>1, LimitsAssumption DEF PoolInv
<1>2. HeldOnce'
  BY DEF PoolInv, HeldOnce
<1>3. BusyHeld'
  <2> SUFFICES ASSUME NEW c \in pool' PROVE box'[c].busy <=> \E i \in Invokers : inv'[i].info = c
    BY DEF BusyHeld, Holds
  <2>1. c \in pool /\ c # NoBox /\ c \in Containers
    BY ContainersAssumption DEF PoolInv, EngineType
  <2>2. \A i \in Invokers : inv'[i].info = c <=> inv[i].info = c
    BY <2>1
  <2> QED BY <2>1, <2>2 DEF PoolInv, BusyHeld, Holds
<1>4. \A c \in Containers : ContainerOK(c)'
  BY DEF PoolInv, ContainerOK
<1>5. \A j \in Invokers : InvokerOK(j, inv[j], gate, pool)'
  BY DEF InvokerOK
<1> QED BY <1>1, <1>2, <1>3, <1>4, <1>5 DEF PoolInv

(* The same for a step of one invocation. *)
LEMMA PoolStep ==
    ASSUME PoolInv, StoreType', EngineType', pool' \subseteq pool,
           \A c \in Containers :
             /\ box'[c].rev = box[c].rev /\ (c \in pool' => box'[c].busy = box[c].busy)
             /\ box'[c].lease => box[c].lease /\ box'[c].docker,
           NEW i \in Invokers, NEW r \in Invoker, Moves(i, r), InvokerOK(i, r, gate', pool'),
           \A j \in Invokers : j # i /\ gate = j => gate' = j,
           r.info = inv[i].info \/ (r.info = NoBox /\ inv[i].info \notin pool')
    PROVE  PoolInv'
<1>1. ASSUME NEW j \in Invokers PROVE InvokerOK(j, inv'[j], gate', pool')
  <2>1. CASE j = i
    BY <2>1 DEF Moves, Alike, InvokerOK
  <2>2. CASE j # i
    BY <2>2, StayOK DEF Moves
  <2> QED BY <2>1, <2>2
<1>2. \A j \in Invokers : \/ inv'[j].info = inv[j].info
                          \/ inv'[j].info = NoBox /\ inv[j].info \notin pool'
  BY DEF Moves, Alike
<1> QED BY <1>1, <1>2, PoolShrinks

LEMMA SameBoxes ==
    ASSUME PoolInv, box' = box
    PROVE  \A c \in Containers :
             /\ box'[c].rev = box[c].rev /\ (c \in pool' => box'[c].busy = box[c].busy)
             /\ box'[c].lease => box[c].lease /\ box'[c].docker
BY DEF PoolInv, ContainerOK

(***************************************************************************)
(* Steps of an invocation that change nothing but the invocation itself     *)
(* and the gate                                                             *)
(***************************************************************************)
Local(i) ==
    /\ UNCHANGED <<store, pool, box, pending, ops, calls>>
    /\ gate' \in Invokers \cup {Free} /\ \A j \in Invokers : j # i /\ gate = j => gate' = j
    /\ \E r \in Invoker :
         /\ Alone(i, r) /\ InvokerOK(i, r, gate', pool)
         /\ r.rev = inv[i].rev /\ r.info = inv[i].info
         /\ inv[i].pc \notin {"done", "create", "retire"} /\ r.pc \notin {"done", "create", "retire"}
         /\ Informed(inv[i]) => Informed(r)

LEMMA StoreSame ==
    ASSUME StoreType, UNCHANGED <<store, ops, calls>> PROVE StoreType'
BY DEF StoreType, store

LEMMA LocalPool == ASSUME PoolInv, NEW i \in Invokers, Local(i) PROVE PoolInv'
<1>1. PICK r \in Invoker : Alone(i, r) /\ InvokerOK(i, r, gate', pool) /\ r.info = inv[i].info
  BY DEF Local
<1>2. pool' = pool /\ box' = box /\ \A j \in Invokers : j # i /\ gate = j => gate' = j
  BY DEF Local
<1>3. StoreType'
  BY StoreSame DEF Local, PoolInv
<1>4. EngineType'
  BY <1>1 DEF Local, PoolInv, EngineType, Alone
<1> QED BY <1>1, <1>2, <1>3, <1>4, MovesEither, SameBoxes, PoolStep

(* What a step of i may count on. *)
LEMMA InvokerAt ==
    ASSUME PoolInv, NEW i \in Invokers
    PROVE  /\ EngineType /\ StoreType /\ inv[i] \in Invoker /\ InvokerOK(i, inv[i], gate, pool)
           /\ inv[i].pc # "done" => inv[i].rev \in Revisions
           /\ inv[i].pc \notin Holding \cup {"finish"} => inv[i].info = NoBox
BY DEF PoolInv, EngineType, InvokerOK

LEMMA GateFrame ==
    ASSUME PoolInv, NEW i \in Invokers,
           \/ gate' = gate
           \/ gate' = IF gate = i THEN Free ELSE gate
           \/ gate' = Free /\ inv[i].pc \in Gated
           \/ gate = Free /\ gate' = i
    PROVE  gate' \in Invokers \cup {Free} /\ \A j \in Invokers : j # i /\ gate = j => gate' = j
<1>1. gate \in Invokers \cup {Free} /\ (inv[i].pc \in Gated => gate = i)
  BY DEF PoolInv, EngineType, InvokerOK
<1> QED BY <1>1, InvokersAssumption

(* i goes to pc and knows no more than before. *)
LEMMA LocalGoto ==
    ASSUME PoolInv, NEW i \in Invokers, NEW pc \in Steps \ {"done", "create", "retire"}, Goto(i, pc),
           inv[i].pc \notin {"done", "create", "retire"},
           UNCHANGED <<store, pool, box, pending, ops, calls>>,
           \/ gate' = gate
           \/ gate' = IF gate = i THEN Free ELSE gate
           \/ gate' = Free /\ inv[i].pc \in Gated
           \/ gate = Free /\ gate' = i,
           pc \in Gated => gate' = i,
           pc \in Holding => inv[i].info # NoBox,
           inv[i].info # NoBox => pc \in Holding \cup {"finish"},
           pc = "retain" => Count < MaxConcurrency,
           pc = "removing" => inv[i].info \notin pool,
           Informed(inv[i]) /\ inv[i].ch = "open" =>
             /\ pc \in {"count", "discard", "count2"} => ~CanReuse(i)
             /\ pc = "discard" => Count >= inv[i].limit
             /\ pc = "count2" => Count < inv[i].limit \/ Discardable(i) = {}
             /\ pc = "wait" =>
                  Throttled(i) \/ (~CanReuse(i) /\ Count >= inv[i].limit /\ Discardable(i) = {})
    PROVE  Local(i)
<1>1. PICK r \in Invoker : Alone(i, r) /\ GoesTo(r, i, pc)
  BY GotoAlone DEF PoolInv
<1>2. InvokerOK(i, r, gate', pool)
  BY <1>1, InvokerAt DEF GoesTo, InvokerOK, Count
<1>3. Informed(inv[i]) => Informed(r)
  BY <1>1 DEF GoesTo, Informed, CanReuse, MayReuse, Throttled, Stopped, Discardable, Others
<1>4. gate' \in Invokers \cup {Free} /\ \A j \in Invokers : j # i /\ gate = j => gate' = j
  BY GateFrame
<1> QED BY <1>1, <1>2, <1>3, <1>4 DEF Local, GoesTo

LEMMA LocalFail ==
    ASSUME PoolInv, NEW i \in Invokers, Fail(i), inv[i].info = NoBox,
           inv[i].pc \notin {"done", "create", "retire"},
           UNCHANGED <<store, pool, box, pending, ops, calls>>,
           \/ gate' = gate
           \/ gate' = IF gate = i THEN Free ELSE gate
           \/ gate' = Free /\ inv[i].pc \in Gated
    PROVE  Local(i)
<1>1. PICK r \in Invoker : Alone(i, r) /\ Left(r, i, "finish", NoBox)
  BY FailAlone
<1>2. InvokerOK(i, r, gate', pool)
  BY <1>1, InvokerAt DEF Left, InvokerOK, Gated, Holding
<1>3. Informed(r)
  BY <1>1 DEF Left, Informed
<1>4. gate' \in Invokers \cup {Free} /\ \A j \in Invokers : j # i /\ gate = j => gate' = j
  BY GateFrame
<1> QED BY <1>1, <1>2, <1>3, <1>4 DEF Local, Left

LEMMA SameEngine ==
    ASSUME UNCHANGED <<store, engine, pending, ops, calls>>
    PROVE  UNCHANGED <<store, pool, box, pending, ops, calls>>
BY DEF engine

LEMMA TopLocal ==
    ASSUME PoolInv, NEW i \in Invokers, Top(i) \/ TimedOut(i) \/ Wake(i) \/ CaptureChannel(i)
    PROVE  Local(i)
<1> USE SameEngine DEF Engineless
<1>1. EngineType /\ inv[i] \in Invoker
  BY InvokerAt
<1>2. CASE Top(i)
  <2> DEFINE r == [inv[i] EXCEPT !.pc = "limit", !.ch = IF i \in Queued THEN "open" ELSE @]
  <2>1. /\ r \in Invoker /\ r.pc = "limit" /\ r.rev = inv[i].rev /\ r.info = inv[i].info
    BY <1>1 DEF Invoker, Steps
  <2>2. inv' = [inv EXCEPT ![i] = r] /\ inv[i].pc = "top"
    BY <1>2 DEF Top, At, EngineType, PoolInv
  <2> HIDE DEF r
  <2>3. Alone(i, r)
    BY <1>1, <2>1, <2>2, SetAlone
  <2>4. InvokerOK(i, r, gate', pool) /\ Informed(r)
    BY <2>1, <2>2, InvokerAt DEF InvokerOK, Informed, Gated, Holding
  <2>5. UNCHANGED <<store, pool, box, pending, ops, calls>> /\ gate' = gate
    BY <1>2 DEF Top
  <2> QED BY <2>1, <2>2, <2>3, <2>4, <2>5, GateFrame DEF Local
<1>3. CASE TimedOut(i)
  <2>1. inv[i].info = NoBox /\ inv[i].pc \notin {"done", "create", "retire"}
    BY <1>3, InvokerAt DEF TimedOut, Holding
  <2> QED BY <1>3, <2>1, LocalFail DEF TimedOut
<1>4. CASE Wake(i)
  <2>1. inv[i].pc = "wait" /\ inv[i].info = NoBox
    BY <1>4, InvokerAt DEF Wake, At, Holding
  <2>2. "top" \in Steps \ {"done", "create", "retire"} /\ "top" \notin Gated \cup Holding
    BY DEF Steps, Gated, Holding
  <2> QED BY <1>4, <2>1, <2>2, LocalGoto DEF Wake
<1>5. CASE CaptureChannel(i)
  <2> DEFINE r == [inv[i] EXCEPT !.pc = "idle2", !.ch = "open"]
  <2>1. /\ r \in Invoker /\ r.pc = "idle2" /\ r.rev = inv[i].rev /\ r.info = inv[i].info
    BY <1>1 DEF Invoker, Steps
  <2>2. inv' = [inv EXCEPT ![i] = r] /\ inv[i].pc = "capture"
    BY <1>5 DEF CaptureChannel, At, EngineType, PoolInv
  <2> HIDE DEF r
  <2>3. Alone(i, r)
    BY <1>1, <2>1, <2>2, SetAlone
  <2>5. UNCHANGED <<store, pool, box, pending, ops, calls>> /\ gate' = gate
    BY <1>5 DEF CaptureChannel
  <2>4. InvokerOK(i, r, gate', pool) /\ Informed(r)
    BY <2>1, <2>2, <2>5, InvokerAt DEF InvokerOK, Informed, Gated, Holding
  <2> QED BY <2>1, <2>2, <2>3, <2>4, <2>5, GateFrame DEF Local
<1> QED BY <1>2, <1>3, <1>4, <1>5

LEMMA LimitType == ASSUME StoreType, Exists PROVE Limit \in 0..MaxConcurrency /\ fn \in Function
<1>1. fn \in Function
  BY DEF StoreType, Exists
<1>2. fn.reserved \in Reserved \cup {Unreserved}
  BY <1>1 DEF Function
<1> HIDE DEF Function
<1>3. fn.reserved \in Int /\ (fn.reserved # Unreserved => fn.reserved \in Nat)
  <2>1. Reserved \subseteq Nat
    BY LimitsAssumption
  <2>2. Unreserved \in Int
    BY DEF Unreserved
  <2>3. \A n \in Nat : n \in Int
    OBVIOUS
  <2> QED BY <1>2, <2>1, <2>2, <2>3, Zenon
<1> QED BY <1>1, <1>3, LimitsAssumption DEF Limit

LEMMA ReadLocal ==
    ASSUME PoolInv, NEW i \in Invokers,
           NEW pc \in {"limit", "limit2"}, NEW next \in {"reserved", "reserved2"},
           (pc = "limit" /\ next = "reserved") \/ (pc = "limit2" /\ next = "reserved2"),
           ReadConcurrency(i, pc, next)
    PROVE  Local(i)
<1>1. EngineType /\ StoreType /\ inv[i] \in Invoker /\ inv[i].pc = pc
  BY InvokerAt DEF ReadConcurrency, At
<1>2. inv[i].info = NoBox /\ inv[i].pc \notin {"done", "create", "retire"}
  BY <1>1, InvokerAt DEF Holding
<1>3. UNCHANGED <<store, pool, box, pending, ops, calls>>
  BY SameEngine DEF ReadConcurrency, Gateless
<1>4. CASE Exists
  <2> DEFINE v == fn.reserved # Unreserved
             r == [inv[i] EXCEPT !.pc = next, !.limit = Limit, !.reserved = v]
  <2>1. Limit \in 0..MaxConcurrency /\ v \in BOOLEAN
    BY <1>1, <1>4, LimitType
  <2>2. inv' = [inv EXCEPT ![i] = r] /\ gate' = gate
    BY <1>4 DEF ReadConcurrency, EngineType, PoolInv
  <2> HIDE DEF v
  <2>3. /\ r \in Invoker /\ r.pc = next /\ r.rev = inv[i].rev /\ r.info = inv[i].info
    BY <1>1, <2>1 DEF Invoker, Steps
  <2> HIDE DEF r
  <2>4. Alone(i, r)
    BY <1>1, <2>2, <2>3, SetAlone
  <2>5. InvokerOK(i, r, gate', pool) /\ Informed(r)
    BY <1>1, <2>2, <2>3, InvokerAt DEF InvokerOK, Informed, Gated, Holding
  <2> QED BY <1>2, <1>3, <2>2, <2>3, <2>4, <2>5, GateFrame DEF Local
<1>5. CASE ~Exists
  BY <1>2, <1>3, <1>5, LocalFail DEF ReadConcurrency
<1> QED BY <1>4, <1>5

LEMMA CheckLocal ==
    ASSUME PoolInv, NEW i \in Invokers,
           NEW pc \in {"reserved", "reserved2"}, NEW next \in {"idle", "capture"},
           (pc = "reserved" /\ next = "idle") \/ (pc = "reserved2" /\ next = "capture"),
           CheckReserved(i, pc, next)
    PROVE  Local(i)
<1>1. inv[i].pc = pc /\ (pc = "reserved2" => gate = i)
  BY InvokerAt DEF CheckReserved, At, InvokerOK, Gated
<1>2. inv[i].info = NoBox /\ inv[i].pc \notin {"done", "create", "retire"}
  BY <1>1, InvokerAt DEF Holding
<1>3. UNCHANGED <<store, pool, box, pending, ops, calls>>
  BY SameEngine DEF CheckReserved, Gateless
<1>4. CASE Throttled(i) /\ Goto(i, "wait") /\ gate' = IF gate = i THEN Free ELSE gate
  <2>1. "wait" \in Steps \ {"done", "create", "retire"} /\ "wait" \notin Gated \cup Holding
    BY DEF Steps, Gated, Holding
  <2> QED BY <1>2, <1>3, <1>4, <2>1, LocalGoto
<1>5. CASE Fail(i) /\ gate' = IF gate = i THEN Free ELSE gate
  BY <1>2, <1>3, <1>5, LocalFail
<1>6. CASE Goto(i, next) /\ gate' = gate
  <2>1. /\ next \in Steps \ {"done", "create", "retire"} /\ next \notin Holding
        /\ next \in Gated => gate' = i
    BY <1>1, <1>6 DEF Steps, Gated, Holding
  <2> QED BY <1>2, <1>3, <1>6, <2>1, LocalGoto
<1> QED BY <1>4, <1>5, <1>6 DEF CheckReserved

LEMMA NoIdleLocal ==
    ASSUME PoolInv, NEW i \in Invokers,
           NEW pc \in {"idle", "idle2"}, NEW next \in {"gate", "count"},
           (pc = "idle" /\ next = "gate") \/ (pc = "idle2" /\ next = "count"),
           At(i, pc), ~CanReuse(i), Goto(i, next), UNCHANGED <<box, gate>>,
           UNCHANGED <<store, pool, pending, ops, calls>>
    PROVE  Local(i)
<1>1. inv[i].pc = pc /\ (pc = "idle2" => gate = i)
  BY InvokerAt DEF At, InvokerOK, Gated
<1>2. inv[i].info = NoBox /\ inv[i].pc \notin {"done", "create", "retire"}
  BY <1>1, InvokerAt DEF Holding
<1>3. /\ next \in Steps \ {"done", "create", "retire"} /\ next \notin Holding
      /\ next \in Gated => gate' = i
  BY <1>1 DEF Steps, Gated, Holding
<1> QED BY <1>2, <1>3, LocalGoto

LEMMA TakeLocal == ASSUME PoolInv, NEW i \in Invokers, TakeGate(i) PROVE Local(i)
<1>1. inv[i].pc = "gate" /\ gate = Free /\ gate' = i /\ Goto(i, "limit2")
  BY DEF TakeGate, At
<1>2. inv[i].info = NoBox /\ inv[i].pc \notin {"done", "create", "retire"}
  BY <1>1, InvokerAt DEF Holding
<1>3. "limit2" \in Steps \ {"done", "create", "retire"} /\ "limit2" \notin Holding
  BY DEF Steps, Holding
<1>4. UNCHANGED <<store, pool, box, pending, ops, calls>>
  BY SameEngine DEF TakeGate, Gateless
<1> QED BY <1>1, <1>2, <1>3, <1>4, LocalGoto

LEMMA CountNat == ASSUME PoolInv PROVE Count \in Nat
BY PoolFinite DEF PoolInv, Count

LEMMA CountLocal == ASSUME PoolInv, NEW i \in Invokers, CountPool(i) PROVE Local(i)
<1> DEFINE pc == IF Count >= inv[i].limit THEN "discard" ELSE "count2"
<1>1. inv[i].pc = "count" /\ gate = i /\ Goto(i, pc)
  BY InvokerAt DEF CountPool, At, InvokerOK, Gated
<1>2. inv[i].info = NoBox /\ inv[i].pc \notin {"done", "create", "retire"}
  BY <1>1, InvokerAt DEF Holding
<1>3. UNCHANGED <<store, pool, box, pending, ops, calls>> /\ gate' = gate
  BY SameEngine DEF CountPool, Engineless
<1>4. Informed(inv[i]) /\ inv[i].ch = "open" => ~CanReuse(i)
  BY <1>1 DEF Informed, CanReuse, MayReuse
<1>5. pc = "count2" => Count < inv[i].limit
  <2>1. Count \in Nat /\ inv[i].limit \in Int
    BY CountNat, InvokerAt DEF Invoker
  <2> QED BY <2>1
<1>6. pc \in Steps \ {"done", "create", "retire"} /\ pc \notin Holding
      /\ pc \notin {"retain", "removing", "wait"}
  BY DEF Steps, Holding
<1>7. pc = "discard" => Count >= inv[i].limit
  OBVIOUS
<1> HIDE DEF pc
<1> QED BY <1>1, <1>2, <1>3, <1>4, <1>5, <1>6, <1>7, LocalGoto

LEMMA DecideLocal == ASSUME PoolInv, NEW i \in Invokers, DecideColdStart(i) PROVE Local(i)
<1>1. inv[i].pc = "count2" /\ gate = i
  BY InvokerAt DEF DecideColdStart, At, InvokerOK, Gated
<1>2. inv[i].info = NoBox /\ inv[i].pc \notin {"done", "create", "retire"} /\ inv[i].pc \in Gated
  BY <1>1, InvokerAt DEF Holding, Gated
<1>3. UNCHANGED <<store, pool, box, pending, ops, calls>>
  BY SameEngine DEF DecideColdStart, Gateless
<1>4. Count \in Nat /\ inv[i].limit \in 0..MaxConcurrency
  BY CountNat, InvokerAt DEF Invoker
<1>5. CASE Count < inv[i].limit
  <2>1. "retain" \in Steps \ {"done", "create", "retire"} /\ "retain" \notin Holding
    BY DEF Steps, Holding
  <2>2. Count < MaxConcurrency /\ Goto(i, "retain") /\ gate' = gate
    BY <1>4, <1>5, LimitsAssumption DEF DecideColdStart
  <2> QED BY <1>1, <1>2, <1>3, <2>1, <2>2, LocalGoto
<1>6. CASE ~(Count < inv[i].limit)
  <2>1. "wait" \in Steps \ {"done", "create", "retire"} /\ "wait" \notin Gated \cup Holding
    BY DEF Steps, Gated, Holding
  <2>2. Goto(i, "wait") /\ gate' = Free /\ Count >= inv[i].limit
    BY <1>4, <1>6, LimitsAssumption DEF DecideColdStart
  <2>3. Informed(inv[i]) /\ inv[i].ch = "open" => ~CanReuse(i) /\ Discardable(i) = {}
    BY <1>1, <1>6 DEF Informed, CanReuse, MayReuse, Discardable, Others
  <2> QED BY <1>1, <1>2, <1>3, <2>1, <2>2, <2>3, LocalGoto
<1> QED BY <1>5, <1>6

LEMMA KeepLocal ==
    ASSUME PoolInv, NEW i \in Invokers, At(i, "discard"), Discardable(i) = {}, Goto(i, "count2"),
           UNCHANGED <<store, pool, box, gate, pending, ops, calls>>
    PROVE  Local(i)
<1>1. inv[i].pc = "discard" /\ gate = i
  BY InvokerAt DEF At, InvokerOK, Gated
<1>2. inv[i].info = NoBox /\ inv[i].pc \notin {"done", "create", "retire"}
  BY <1>1, InvokerAt DEF Holding
<1>3. "count2" \in Steps \ {"done", "create", "retire"} /\ "count2" \notin Holding
  BY DEF Steps, Holding
<1>4. Informed(inv[i]) /\ inv[i].ch = "open" => ~CanReuse(i)
  BY <1>1 DEF Informed, CanReuse, MayReuse
<1> QED BY <1>1, <1>2, <1>3, <1>4, LocalGoto

LEMMA RunLocal == ASSUME PoolInv, NEW i \in Invokers, Run(i) PROVE Local(i)
<1>1. inv[i].pc = "run" /\ Goto(i, "finish")
  BY DEF Run, At
<1>2. "finish" \in Steps \ {"done", "create", "retire"} /\ "finish" \notin Gated \cup Holding
  BY DEF Steps, Gated, Holding
<1>3. UNCHANGED <<store, pool, box, pending, ops, calls>> /\ gate' = gate
  BY SameEngine DEF Run, Engineless
<1> QED BY <1>1, <1>2, <1>3, LocalGoto

LEMMA FinishLocal ==
    ASSUME PoolInv, NEW i \in Invokers, Release(i), inv[i].info = NoBox PROVE Local(i)
<1>1. inv[i].pc = "finish" /\ Goto(i, "unlease")
      /\ UNCHANGED <<store, pool, box, gate, pending, ops, calls>>
  BY DEF Release, At
<1>2. "unlease" \in Steps \ {"done", "create", "retire"} /\ "unlease" \notin Gated \cup Holding
  BY DEF Steps, Gated, Holding
<1> QED BY <1>1, <1>2, LocalGoto

LEMMA DeadLocal ==
    ASSUME PoolInv, NEW i \in Invokers, RemoveDead(i), inv[i].info \notin pool PROVE Local(i)
<1>1. inv[i].pc = "run" /\ Goto(i, "removing") /\ pool' = pool
      /\ UNCHANGED <<store, box, gate, pending, ops, calls>>
  BY DEF RemoveDead, At, Goto, Untrack
<1>2. "removing" \in Steps \ {"done", "create", "retire"} /\ "removing" \in Holding \ Gated
  BY DEF Steps, Gated, Holding
<1>3. inv[i].info # NoBox
  BY <1>1, InvokerAt DEF InvokerOK, Holding
<1> QED BY <1>1, <1>2, <1>3, LocalGoto

(***************************************************************************)
(* Management calls                                                        *)
(***************************************************************************)
(* What a management call does to the record and the directories. *)
Recorded ==
    /\ \E f \in Function \cup {NoFunction}, d \in SUBSET Codes :
         Commit(f, d) /\ dirs \subseteq d /\ Referenced(f) \subseteq Referenced(fn) \cup d
    /\ leases' = leases /\ instances' \in 0..MaxInstance
    /\ ops' \in 0..MaxOps /\ calls' = calls

LEMMA OperateType == ASSUME StoreType, Operate PROVE ops' \in 0..MaxOps /\ calls' = calls
BY LimitsAssumption DEF StoreType, Operate

LEMMA RecordedType == ASSUME StoreType, Recorded PROVE StoreType'
<1>1. PICK f \in Function \cup {NoFunction}, d \in SUBSET Codes : Commit(f, d)
  BY DEF Recorded
<1>2. /\ fn' = f /\ dirs' = d \cap (Referenced(f) \cup Leased(leases))
      /\ gc' = (Leased(leases) \ Referenced(f) # {})
  BY <1>1 DEF Commit, Prune
<1>3. gc' \in BOOLEAN
  BY <1>2
<1> QED BY <1>2, <1>3 DEF StoreType, Recorded

LEMMA ReferencedCodes == ASSUME StoreType PROVE Referenced(fn) \subseteq Codes
<1>1. CASE fn = NoFunction
  BY <1>1 DEF Referenced, NoFunction, Unpublished
<1>2. CASE fn \in Function
  BY <1>2 DEF Referenced, Function
<1> QED BY <1>1, <1>2 DEF StoreType

LEMMA ManageRecorded ==
    ASSUME StoreType,
           \/ \E code \in Codes : CreateFunction(code) \/ UpdateFunction(code)
           \/ \E v \in Versions : PutAlias(v) \/ DeleteVersion(v)
           \/ PublishVersion \/ DeleteAlias \/ DeleteFunction
           \/ \E value \in Reserved \cup {Unreserved} : SetConcurrency(value)
    PROVE  Recorded
<1>1. fn \in Function \cup {NoFunction} /\ dirs \subseteq Codes /\ instances \in 0..MaxInstance
  BY DEF StoreType
<1>2. ASSUME Exists PROVE fn \in Function
  BY <1>1, <1>2 DEF Exists
<1>3. ASSUME NEW f \in Function \cup {NoFunction}, NEW d \in SUBSET Codes, Commit(f, d),
             dirs \subseteq d, Referenced(f) \subseteq Referenced(fn) \cup d, Operate,
             leases' = leases, instances' \in 0..MaxInstance
      PROVE  Recorded
  BY <1>3, OperateType DEF Recorded
<1>4. ASSUME NEW code \in Codes, UpdateFunction(code) PROVE Recorded
  <2> DEFINE f == [fn EXCEPT !.code = code]
  <2>1. fn \in Function /\ Commit(f, Prepared(code)) /\ Operate
        /\ UNCHANGED <<leases, instances>>
    BY <1>2, <1>4 DEF UpdateFunction
  <2>2. f \in Function /\ f.code = code /\ f.versions = fn.versions
    BY <2>1 DEF Function
  <2> HIDE DEF f
  <2>3. Referenced(f) \subseteq Referenced(fn) \cup Prepared(code)
    BY <2>2 DEF Referenced, Prepared
  <2>4. dirs \subseteq Prepared(code) /\ Prepared(code) \in SUBSET Codes
    BY <1>1 DEF Prepared
  <2> QED BY <1>1, <1>3, <2>1, <2>2, <2>3, <2>4
<1>5. ASSUME NEW code \in Codes, CreateFunction(code) PROVE Recorded
  <2> DEFINE f == IF Exists THEN [fn EXCEPT !.code = code]
                  ELSE [NoFunction EXCEPT !.code = code, !.instance = instances + 1]
  <2>1. /\ f.instance <= MaxInstance /\ Commit(f, Prepared(code)) /\ Operate /\ leases' = leases
        /\ instances' = IF Exists THEN instances ELSE instances + 1
    BY <1>5 DEF CreateFunction
  <2>2. dirs \subseteq Prepared(code) /\ Prepared(code) \in SUBSET Codes
    BY <1>1 DEF Prepared
  <2>3. CASE Exists
    <3>1. f = [fn EXCEPT !.code = code] /\ fn \in Function
      BY <1>2, <2>3
    <3>2. f \in Function /\ f.code = code /\ f.versions = fn.versions
      BY <3>1 DEF Function
    <3>3. instances' \in 0..MaxInstance
      BY <1>1, <2>1, <2>3
    <3> HIDE DEF f
    <3>4. Referenced(f) \subseteq Referenced(fn) \cup Prepared(code)
      BY <3>2 DEF Referenced, Prepared
    <3> QED BY <1>3, <2>1, <2>2, <3>2, <3>3, <3>4
  <2>4. CASE ~Exists
    <3>1. f = [NoFunction EXCEPT !.code = code, !.instance = instances + 1]
      BY <2>4
    <3>2. /\ f.code = code /\ f.versions = Unpublished /\ f.instance = instances + 1
          /\ f.next = 0 /\ f.alias = 0 /\ f.reserved = Unreserved
      BY <3>1 DEF NoFunction
    <3>3. instances + 1 \in 1..MaxInstance /\ 0 \in 0..MaxVersion
      BY <1>1, <2>1, <3>2, LimitsAssumption
    <3>4. Unpublished \in [Versions -> Codes \cup {NoCode}] /\ \A v \in Versions : Unpublished[v] = NoCode
      BY DEF Unpublished
    <3>5. f \in Function
      BY <3>1, <3>3, <3>4 DEF NoFunction, Function
    <3>6. instances' \in 0..MaxInstance
      BY <1>1, <2>1, <2>4, <3>3, LimitsAssumption
    <3> HIDE DEF f
    <3>7. Referenced(f) \subseteq Referenced(fn) \cup Prepared(code)
      BY <3>2, <3>4 DEF Referenced, Prepared
    <3> QED BY <1>3, <2>1, <2>2, <3>5, <3>6, <3>7
  <2> QED BY <2>3, <2>4
<1>6. ASSUME NEW v \in Versions, PutAlias(v) PROVE Recorded
  <2> DEFINE f == [fn EXCEPT !.alias = v]
  <2>1. fn \in Function /\ Commit(f, dirs) /\ Operate /\ UNCHANGED <<leases, instances>>
    BY <1>2, <1>6 DEF PutAlias
  <2>2. v \in 0..MaxVersion
    BY LimitsAssumption DEF Versions
  <2>3. f \in Function /\ f.code = fn.code /\ f.versions = fn.versions
    BY <2>1, <2>2 DEF Function
  <2> HIDE DEF f
  <2>4. Referenced(f) = Referenced(fn)
    BY <2>3 DEF Referenced
  <2> QED BY <1>1, <1>3, <2>1, <2>3, <2>4
<1>7. ASSUME NEW v \in Versions, DeleteVersion(v) PROVE Recorded
  <2> DEFINE w == [fn.versions EXCEPT ![v] = NoCode]
             f == [fn EXCEPT !.versions = w]
  <2>1. /\ fn \in Function /\ Commit([fn EXCEPT !.versions[v] = NoCode], dirs) /\ Operate
        /\ UNCHANGED <<leases, instances>>
    BY <1>2, <1>7 DEF DeleteVersion
  <2>2. fn.versions \in [Versions -> Codes \cup {NoCode}]
    BY <2>1 DEF Function
  <2>3. /\ w \in [Versions -> Codes \cup {NoCode}]
        /\ \A u \in Versions : w[u] = IF u = v THEN NoCode ELSE fn.versions[u]
    BY <2>2
  <2>4. [fn EXCEPT !.versions[v] = NoCode] = f
    BY <2>1 DEF Function
  <2> HIDE DEF w
  <2>5. f \in Function /\ f.code = fn.code /\ f.versions = w
    BY <2>1, <2>3 DEF Function
  <2> HIDE DEF f
  <2>6. Referenced(f) \subseteq Referenced(fn)
    BY <2>3, <2>5 DEF Referenced
  <2> QED BY <1>1, <1>3, <2>1, <2>4, <2>5, <2>6
<1>8. CASE PublishVersion
  <2> DEFINE n == fn.next + 1
             w == [fn.versions EXCEPT ![n] = fn.code]
             f == [fn EXCEPT !.next = n, !.versions = w]
  <2>1. /\ fn \in Function /\ fn.next < MaxVersion /\ Operate /\ UNCHANGED <<leases, instances>>
        /\ Commit([fn EXCEPT !.next = @ + 1, !.versions[fn.next + 1] = fn.code], dirs)
    BY <1>2, <1>8 DEF PublishVersion
  <2>2. /\ fn.versions \in [Versions -> Codes \cup {NoCode}] /\ fn.code \in Codes
        /\ fn.next \in 0..MaxVersion
    BY <2>1 DEF Function
  <2>3. n \in Versions /\ n \in 0..MaxVersion
    BY <2>1, <2>2, LimitsAssumption DEF Versions
  <2>4. [fn EXCEPT !.next = @ + 1, !.versions[fn.next + 1] = fn.code] = f
    BY <2>1 DEF Function
  <2>5. /\ w \in [Versions -> Codes \cup {NoCode}]
        /\ \A u \in Versions : w[u] = IF u = n THEN fn.code ELSE fn.versions[u]
    BY <2>2, <2>3
  <2> HIDE DEF w, n
  <2>6. f \in Function /\ f.code = fn.code /\ f.versions = w
    BY <2>1, <2>3, <2>5 DEF Function
  <2> HIDE DEF f
  <2>7. Referenced(f) \subseteq Referenced(fn)
    BY <2>5, <2>6 DEF Referenced
  <2> QED BY <1>1, <1>3, <2>1, <2>4, <2>6, <2>7
<1>9. CASE DeleteAlias
  <2> DEFINE f == [fn EXCEPT !.alias = 0]
  <2>1. fn \in Function /\ Commit(f, dirs) /\ Operate /\ UNCHANGED <<leases, instances>>
    BY <1>2, <1>9 DEF DeleteAlias
  <2>2. 0 \in 0..MaxVersion
    BY LimitsAssumption
  <2>3. f \in Function /\ f.code = fn.code /\ f.versions = fn.versions
    BY <2>1, <2>2 DEF Function
  <2> HIDE DEF f
  <2>4. Referenced(f) = Referenced(fn)
    BY <2>3 DEF Referenced
  <2> QED BY <1>1, <1>3, <2>1, <2>3, <2>4
<1>10. CASE DeleteFunction
  <2>1. Commit(NoFunction, dirs) /\ Operate /\ UNCHANGED <<leases, instances>>
    BY <1>10 DEF DeleteFunction
  <2>2. Referenced(NoFunction) = {}
    BY DEF Referenced, NoFunction, Unpublished
  <2> QED BY <1>1, <1>3, <2>1, <2>2
<1>11. ASSUME NEW value \in Reserved \cup {Unreserved}, SetConcurrency(value) PROVE Recorded
  <2> DEFINE f == [fn EXCEPT !.reserved = value]
  <2>1. fn \in Function /\ Commit(f, dirs) /\ Operate /\ UNCHANGED <<leases, instances>>
    BY <1>2, <1>11 DEF SetConcurrency
  <2>2. f \in Function /\ f.code = fn.code /\ f.versions = fn.versions
    BY <2>1 DEF Function
  <2> HIDE DEF f
  <2>3. Referenced(f) = Referenced(fn)
    BY <2>2 DEF Referenced
  <2> QED BY <1>1, <1>3, <2>1, <2>2, <2>3
<1> QED BY <1>4, <1>5, <1>6, <1>7, <1>8, <1>9, <1>10, <1>11

(* Containers of the pool are marked or leave it; everybody is notified, or *)
(* there was nothing to tell.                                               *)
Marks ==
    /\ pool' \subseteq pool /\ box' \in [Containers -> Container]
    /\ \A c \in Containers :
         /\ box'[c].rev = box[c].rev /\ box'[c].busy = box[c].busy
         /\ box'[c].running = box[c].running /\ box'[c].lease = box[c].lease
         /\ box'[c].docker = box[c].docker
    /\ inv' \in [Invokers -> Invoker] /\ \A i \in Invokers : Alike(inv'[i], inv[i])
    /\ \/ \A i \in Invokers : inv'[i].ch # "open"
       \/ pool' = pool /\ box' = box /\ inv' = inv

LEMMA MarksPool ==
    ASSUME PoolInv, StoreType', Marks, gate' = gate, pending' \in [retire : Nat, signal : Nat]
    PROVE  PoolInv'
<1>1. EngineType'
  BY DEF PoolInv, EngineType, Marks
<1>2. \A j \in Invokers : InvokerOK(j, inv'[j], gate', pool')
  BY StayOK DEF Marks
<1>3. \A j \in Invokers : inv'[j].info = inv[j].info
  BY DEF Marks, Alike
<1>4. \A c \in Containers :
        /\ box'[c].rev = box[c].rev /\ (c \in pool' => box'[c].busy = box[c].busy)
        /\ box'[c].lease => box[c].lease /\ box'[c].docker
  BY DEF Marks, PoolInv, ContainerOK
<1> QED BY <1>1, <1>2, <1>3, <1>4, PoolShrinks DEF Marks

LEMMA NotifyAll ==
    ASSUME EngineType, inv' = Notified(inv)
    PROVE  /\ inv' \in [Invokers -> Invoker] /\ \A i \in Invokers : Alike(inv'[i], inv[i])
           /\ \A i \in Invokers : inv'[i].ch # "open"
<1>1. inv \in [Invokers -> Invoker]
  BY DEF EngineType
<1>2. \A i \in Invokers : inv'[i] = Closed(inv[i]) /\ inv[i] \in Invoker
  BY <1>1, NotifiedState
<1> QED BY <1>1, <1>2, NotifiedState, ClosedRecord

LEMMA RetireBoxes ==
    ASSUME EngineType, NEW M, Retire(M)
    PROVE  /\ pool' = pool \ {c \in M : ~box[c].busy} /\ box' \in [Containers -> Container]
           /\ \A c \in Containers :
                /\ box'[c].rev = box[c].rev /\ box'[c].busy = box[c].busy
                /\ box'[c].running = box[c].running /\ box'[c].lease = box[c].lease
                /\ box'[c].docker = box[c].docker
                /\ box'[c].retired <=> (c \in M \/ box[c].retired)
<1>1. \A c \in Containers :
        /\ box[c] \in Container
        /\ [box[c] EXCEPT !.retired = TRUE] \in Container
        /\ [box[c] EXCEPT !.retired = TRUE].rev = box[c].rev
        /\ [box[c] EXCEPT !.retired = TRUE].busy = box[c].busy
        /\ [box[c] EXCEPT !.retired = TRUE].running = box[c].running
        /\ [box[c] EXCEPT !.retired = TRUE].lease = box[c].lease
        /\ [box[c] EXCEPT !.retired = TRUE].docker = box[c].docker
        /\ [box[c] EXCEPT !.retired = TRUE].retired
  BY DEF EngineType, Container
<1>2. \A c \in Containers :
        box'[c] = IF c \in M THEN [box[c] EXCEPT !.retired = TRUE] ELSE box[c]
  BY DEF Retire
<1>3. box' \in [Containers -> Container]
  BY <1>1 DEF Retire
<1> QED BY <1>1, <1>2, <1>3 DEF Retire, Untrack

LEMMA RetireMarks ==
    ASSUME EngineType, NEW M, Retire(M), inv' = Notified(inv) PROVE Marks
BY RetireBoxes, NotifyAll DEF Marks

LEMMA SameMarks == ASSUME EngineType, UNCHANGED <<pool, box, inv>> PROVE Marks
BY DEF EngineType, Marks, Alike

LEMMA DropMarks ==
    ASSUME EngineType, pool' \subseteq pool, box' = box, inv' = Notified(inv) PROVE Marks
BY NotifyAll DEF EngineType, Marks

(* The steps without an invocation of their own, but ForceRemove and Restart. *)
Background == Manage \/ EvictIdle \/ EvictAccount

LEMMA PendingType ==
    ASSUME EngineType,
           \/ pending' = pending
           \/ pending' = [pending EXCEPT !.retire = @ + 1]
           \/ pending' = [pending EXCEPT !.signal = @ + 1]
           \/ pending.retire > 0 /\ pending' = [pending EXCEPT !.retire = @ - 1]
           \/ pending.signal > 0 /\ pending' = [pending EXCEPT !.signal = @ - 1]
    PROVE  pending' \in [retire : Nat, signal : Nat]
BY DEF EngineType

LEMMA BackgroundStep ==
    ASSUME PoolInv, Background
    PROVE  StoreType' /\ Marks /\ gate' = gate /\ pending' \in [retire : Nat, signal : Nat]
<1>1. StoreType /\ EngineType
  BY DEF PoolInv
<1>2. ASSUME NEW code \in Codes, CreateFunction(code)
      PROVE  Marks /\ gate' = gate /\ pending' = pending
  BY <1>1, <1>2, RetireMarks DEF CreateFunction
<1>3. ASSUME NEW code \in Codes, UpdateFunction(code)
      PROVE  Marks /\ gate' = gate /\ pending' = [pending EXCEPT !.retire = @ + 1]
  BY <1>1, <1>3, SameMarks DEF UpdateFunction
<1>4. ASSUME NEW v \in Versions, PutAlias(v)
      PROVE  Marks /\ gate' = gate /\ pending' = pending
  BY <1>1, <1>4, SameMarks DEF PutAlias
<1>5. ASSUME NEW v \in Versions, DeleteVersion(v)
      PROVE  Marks /\ gate' = gate /\ pending' = pending
  BY <1>1, <1>5, RetireMarks DEF DeleteVersion
<1>6. CASE PublishVersion \/ DeleteAlias
  BY <1>1, <1>6, SameMarks, PendingType, ManageRecorded, RecordedType DEF PublishVersion, DeleteAlias
<1>7. CASE DeleteFunction
  <2>1. Marks /\ gate' = gate /\ pending' = pending
    BY <1>1, <1>7, RetireMarks DEF DeleteFunction
  <2> QED BY <1>1, <1>7, <2>1, PendingType, ManageRecorded, RecordedType
<1>8. ASSUME NEW value \in Reserved \cup {Unreserved}, SetConcurrency(value)
      PROVE  Marks /\ gate' = gate /\ pending' = [pending EXCEPT !.signal = @ + 1]
  BY <1>1, <1>8, SameMarks DEF SetConcurrency
<1>9. CASE RetireAfterUpdate
  <2>1. /\ Marks /\ gate' = gate /\ pending.retire > 0
        /\ pending' = [pending EXCEPT !.retire = @ - 1] /\ UNCHANGED <<store, ops, calls>>
    BY <1>1, <1>9, RetireMarks DEF RetireAfterUpdate, RetireLatestContainers
  <2> QED BY <1>1, <2>1, StoreSame, PendingType
<1>10. CASE SignalAvailability
  <2>1. /\ pool' = pool /\ box' = box /\ inv' = Notified(inv) /\ gate' = gate /\ pending.signal > 0
        /\ pending' = [pending EXCEPT !.signal = @ - 1] /\ UNCHANGED <<store, ops, calls>>
    BY <1>10 DEF SignalAvailability, engine
  <2> QED BY <1>1, <2>1, DropMarks, StoreSame, PendingType
<1>11. CASE EvictIdle
  <2>1. /\ pool' \subseteq pool /\ box' = box /\ inv' = Notified(inv) /\ gate' = gate
        /\ pending' = pending /\ UNCHANGED <<store, ops, calls>>
    BY <1>11 DEF EvictIdle, Untrack
  <2> QED BY <1>1, <2>1, DropMarks, StoreSame, PendingType
<1>12. CASE EvictAccount
  <2>1. /\ pool' = {} /\ box' = box /\ gate' = gate /\ pending' = pending /\ Operate
        /\ UNCHANGED store /\ inv' = IF pool = {} THEN inv ELSE Notified(inv)
    BY <1>12 DEF EvictAccount
  <2>2. StoreType'
    BY <1>1, <2>1, OperateType DEF StoreType, store
  <2>3. Marks
    BY <1>1, <2>1, SameMarks, DropMarks
  <2> QED BY <1>1, <2>1, <2>2, <2>3, PendingType
<1>13. ASSUME NEW code \in Codes, CreateFunction(code) \/ UpdateFunction(code)
       PROVE  StoreType' /\ Marks /\ gate' = gate /\ pending' \in [retire : Nat, signal : Nat]
  BY <1>1, <1>2, <1>3, <1>13, ManageRecorded, RecordedType, PendingType
<1>14. ASSUME NEW v \in Versions, PutAlias(v) \/ DeleteVersion(v)
       PROVE  StoreType' /\ Marks /\ gate' = gate /\ pending' \in [retire : Nat, signal : Nat]
  BY <1>1, <1>4, <1>5, <1>14, ManageRecorded, RecordedType, PendingType
<1>15. ASSUME NEW value \in Reserved \cup {Unreserved}, SetConcurrency(value)
       PROVE  StoreType' /\ Marks /\ gate' = gate /\ pending' \in [retire : Nat, signal : Nat]
  BY <1>1, <1>8, <1>15, ManageRecorded, RecordedType, PendingType
<1> QED BY <1>6, <1>7, <1>9, <1>10, <1>11, <1>12, <1>13, <1>14, <1>15 DEF Background, Manage

(***************************************************************************)
(* The other steps of an invocation                                        *)
(***************************************************************************)
LEMMA ReleaseType ==
    ASSUME StoreType, NEW code \in Codes, ReleaseLease(code), UNCHANGED <<fn, instances, ops, calls>>
    PROVE  StoreType'
<1>1. leases' \in [Codes -> Int]
  BY DEF StoreType, ReleaseLease
<1>2. dirs' \subseteq Codes /\ gc' \in BOOLEAN
  BY DEF StoreType, ReleaseLease, Prune
<1> QED BY <1>1, <1>2 DEF StoreType

LEMMA Leasing ==
    ASSUME StoreType, NEW code \in Codes, leases' = [leases EXCEPT ![code] = @ + 1],
           UNCHANGED <<fn, dirs, gc, instances, ops>>, calls' \in 0..MaxInvokes
    PROVE  StoreType'
BY DEF StoreType

LEMMA IdleRecord == IdleInvoker \in Invoker /\ IdleInvoker.pc = "done" /\ IdleInvoker.info = NoBox
                    /\ IdleInvoker.ch = "none"
BY LimitsAssumption DEF IdleInvoker, Invoker, Steps

(* A new invocation: it leases a deployment the record names. *)
Invoked(i) ==
    /\ inv[i].pc = "done"
    /\ \E r \in Invoker :
         /\ Alone(i, r) /\ r.pc = "top" /\ r.rev \in Revisions /\ r.info = NoBox /\ r.ch = "none"
         /\ r.rev.code \in Referenced(fn)
         /\ leases' = [leases EXCEPT ![r.rev.code] = @ + 1]
    /\ UNCHANGED <<fn, dirs, gc, pool, box, gate, pending, instances, ops>>
    /\ calls' \in 0..MaxInvokes

LEMMA InvokeEffect ==
    ASSUME PoolInv, NEW i \in Invokers, NEW q \in Qualifiers, Invoke(i, q) PROVE Invoked(i)
<1>1. StoreType /\ EngineType /\ fn \in Function /\ At(i, "done") /\ calls' = calls + 1
      /\ calls < MaxInvokes
  BY DEF PoolInv, StoreType, Invoke, Selectable, Exists
<1> DEFINE ver == SelectVersion(q)
<1>2. ver \in Published(fn) \cup {Latest}
  <2>1. Latest # ByAlias
    BY LimitsAssumption DEF Latest, ByAlias
  <2> QED BY <2>1 DEF Invoke, Selectable, SelectVersion
<1> HIDE DEF ver
<1>3. DeploymentOf(ver) \in Referenced(fn) /\ DeploymentOf(ver) \in Codes
  <2>1. CASE ver = Latest
    BY <1>1, <2>1, CodesAssumption DEF DeploymentOf, Referenced, Function
  <2>2. CASE ver \in Published(fn) /\ ver # Latest
    BY <1>1, <2>2 DEF DeploymentOf, Referenced, Published, Function
  <2> QED BY <1>2, <2>1, <2>2
<1> DEFINE v == Revision(DeploymentOf(ver), fn.instance, ver)
           r == [IdleInvoker EXCEPT !.pc = "top", !.rev = v]
<1>4. v \in Revisions /\ v.code = DeploymentOf(ver)
  BY <1>1, <1>2, <1>3 DEF Revision, Revisions, Published, Function
<1>5. leases' = [leases EXCEPT ![DeploymentOf(ver)] = @ + 1] /\ inv' = [inv EXCEPT ![i] = r]
  BY DEF Invoke, AcquireDeployment, ver
<1> HIDE DEF v
<1>6. r \in Invoker /\ r.pc = "top" /\ r.rev = v /\ r.info = NoBox /\ r.ch = "none"
  <2>1. r \in Invoker
    BY <1>4, IdleRecord DEF Invoker, Steps
  <2> QED BY <2>1 DEF IdleInvoker
<1> HIDE DEF r
<1>7. Alone(i, r)
  BY <1>1, <1>5, <1>6, SetAlone
<1>8. calls' \in 0..MaxInvokes
  BY <1>1, LimitsAssumption DEF StoreType
<1>9. UNCHANGED <<fn, dirs, gc, pool, box, gate, pending, instances, ops>>
  BY DEF Invoke
<1> QED BY <1>1, <1>3, <1>4, <1>5, <1>6, <1>7, <1>8, <1>9 DEF Invoked, At

LEMMA InvokePool == ASSUME PoolInv, NEW i \in Invokers, Invoked(i) PROVE PoolInv'
<1>1. PICK r \in Invoker :
        /\ Alone(i, r) /\ r.pc = "top" /\ r.rev \in Revisions /\ r.info = NoBox
        /\ leases' = [leases EXCEPT ![r.rev.code] = @ + 1]
  BY DEF Invoked
<1>2. /\ inv[i].pc = "done" /\ pool' = pool /\ box' = box /\ gate' = gate /\ pending' = pending
      /\ UNCHANGED <<fn, dirs, gc, instances, ops>> /\ calls' \in 0..MaxInvokes
  BY DEF Invoked
<1>3. inv[i].info = NoBox
  BY <1>2, InvokerAt DEF Holding
<1>4. r.rev.code \in Codes
  BY <1>1 DEF Revisions
<1>5. StoreType'
  BY <1>1, <1>2, <1>4, Leasing DEF PoolInv
<1>6. EngineType'
  BY <1>1, <1>2 DEF PoolInv, EngineType, Alone
<1>7. InvokerOK(i, r, gate', pool')
  BY <1>1 DEF InvokerOK, Gated, Holding
<1> QED BY <1>1, <1>2, <1>3, <1>5, <1>6, <1>7, MovesEither, SameBoxes, PoolStep

(* The cold start has its own lease. *)
Retained(i) ==
    /\ inv[i].pc = "retain" /\ inv[i].rev.code \in dirs
    /\ \E r \in Invoker : Alone(i, r) /\ GoesTo(r, i, "create")
    /\ leases' = [leases EXCEPT ![inv[i].rev.code] = @ + 1]
    /\ UNCHANGED <<fn, dirs, gc, pool, box, gate, pending, instances, ops, calls>>

LEMMA RetainEffect ==
    ASSUME PoolInv, NEW i \in Invokers, RetainDeployment(i) PROVE Retained(i) \/ Local(i)
<1>1. inv[i].pc = "retain" /\ inv[i].info = NoBox /\ EngineType
  BY InvokerAt DEF RetainDeployment, At, Holding
<1>2. UNCHANGED <<fn, dirs, gc, pool, box, pending, instances, ops, calls>>
  BY DEF RetainDeployment
<1>3. CASE /\ inv[i].rev.code \in dirs /\ Goto(i, "create") /\ gate' = gate
           /\ leases' = [leases EXCEPT ![inv[i].rev.code] = @ + 1]
  <2>1. "create" \in Steps
    BY DEF Steps
  <2> QED BY <1>1, <1>2, <1>3, <2>1, GotoAlone DEF Retained
<1>4. CASE Fail(i) /\ gate' = Free /\ leases' = leases
  <2>1. UNCHANGED <<store, pool, box, pending, ops, calls>>
    BY <1>2, <1>4 DEF store
  <2>2. inv[i].pc \in Gated
    BY <1>1 DEF Gated
  <2> QED BY <1>1, <1>4, <2>1, <2>2, LocalFail
<1> QED BY <1>3, <1>4 DEF RetainDeployment

LEMMA RetainPool == ASSUME PoolInv, NEW i \in Invokers, Retained(i) PROVE PoolInv'
<1>1. PICK r \in Invoker : Alone(i, r) /\ GoesTo(r, i, "create")
  BY DEF Retained
<1>2. /\ inv[i].pc = "retain" /\ pool' = pool /\ box' = box /\ gate' = gate /\ pending' = pending
      /\ UNCHANGED <<fn, dirs, gc, instances, ops, calls>> /\ inv[i].rev.code \in dirs
      /\ leases' = [leases EXCEPT ![inv[i].rev.code] = @ + 1]
  BY DEF Retained
<1>3. StoreType'
  BY <1>2, Leasing DEF PoolInv, StoreType
<1>4. EngineType'
  BY <1>1, <1>2 DEF PoolInv, EngineType, Alone
<1>5. InvokerOK(i, r, gate', pool') /\ r.info = inv[i].info
  BY <1>1, <1>2, InvokerAt DEF InvokerOK, GoesTo, Gated, Holding
<1> QED BY <1>1, <1>2, <1>3, <1>4, <1>5, MovesEither, SameBoxes, PoolStep

(* An invocation gives a lease back: create fails, or the invocation ends. *)
Freed(i) ==
    /\ inv[i].pc \in {"create", "unlease"}
    /\ \E r \in Invoker :
         /\ Alone(i, r) /\ r.info = NoBox /\ r.ch = "none"
         /\ inv[i].pc = "create" => r.pc = "finish" /\ r.rev = inv[i].rev
         /\ inv[i].pc = "unlease" => r.pc = "done"
    /\ ReleaseLease(inv[i].rev.code)
    /\ gate' \in Invokers \cup {Free} /\ \A j \in Invokers : j # i /\ gate = j => gate' = j
    /\ UNCHANGED <<fn, pool, box, pending, instances, ops, calls>>

LEMMA FreedEffect ==
    ASSUME PoolInv, NEW i \in Invokers, CreateFails(i) \/ Unlease(i) PROVE Freed(i)
<1>1. EngineType
  BY DEF PoolInv
<1>2. CASE CreateFails(i)
  <2>1. /\ inv[i].pc = "create" /\ inv[i].info = NoBox /\ Fail(i) /\ gate' = Free
        /\ ReleaseLease(inv[i].rev.code) /\ inv[i].pc \in Gated
        /\ UNCHANGED <<fn, pool, box, pending, instances, ops, calls>>
    BY <1>2, InvokerAt DEF CreateFails, At, Holding, Gated
  <2> QED BY <2>1, FailAlone, GateFrame DEF Freed, Left
<1>3. CASE Unlease(i)
  <2>1. /\ inv[i].pc = "unlease" /\ gate' = gate /\ inv' = [inv EXCEPT ![i] = IdleInvoker]
        /\ ReleaseLease(inv[i].rev.code)
        /\ UNCHANGED <<fn, pool, box, pending, instances, ops, calls>>
    BY <1>3 DEF Unlease, At
  <2>2. Alone(i, IdleInvoker)
    BY <1>1, <2>1, IdleRecord, SetAlone
  <2>3. gate' \in Invokers \cup {Free} /\ \A j \in Invokers : j # i /\ gate = j => gate' = j
    BY <2>1, GateFrame
  <2> QED BY <2>1, <2>2, <2>3, IdleRecord DEF Freed
<1> QED BY <1>2, <1>3

LEMMA FreedPool == ASSUME PoolInv, NEW i \in Invokers, Freed(i) PROVE PoolInv'
<1>1. PICK r \in Invoker :
         /\ Alone(i, r) /\ r.info = NoBox
         /\ inv[i].pc = "create" => r.pc = "finish" /\ r.rev = inv[i].rev
         /\ inv[i].pc = "unlease" => r.pc = "done"
  BY DEF Freed
<1>2. /\ inv[i].pc \in {"create", "unlease"} /\ pool' = pool /\ box' = box /\ pending' = pending
      /\ ReleaseLease(inv[i].rev.code) /\ UNCHANGED <<fn, instances, ops, calls>>
      /\ gate' \in Invokers \cup {Free} /\ \A j \in Invokers : j # i /\ gate = j => gate' = j
  BY DEF Freed
<1>3. inv[i].rev \in Revisions /\ inv[i].info = NoBox
  BY <1>2, InvokerAt DEF Holding
<1>4. StoreType'
  BY <1>2, <1>3, ReleaseType DEF PoolInv, Revisions
<1>5. EngineType'
  BY <1>1, <1>2 DEF PoolInv, EngineType, Alone
<1>6. InvokerOK(i, r, gate', pool')
  BY <1>1, <1>2, <1>3 DEF InvokerOK, Gated, Holding
<1> QED BY <1>1, <1>2, <1>3, <1>4, <1>5, <1>6, MovesEither, SameBoxes, PoolStep

(* Containers leave the pool, or are marked, and everybody is notified. *)
Sheds(i) ==
    /\ UNCHANGED <<store, pending, ops, calls>>
    /\ pool' \subseteq pool /\ box' \in [Containers -> Container]
    /\ \A c \in Containers :
         /\ box'[c].rev = box[c].rev /\ box'[c].busy = box[c].busy
         /\ box'[c].lease = box[c].lease /\ box'[c].docker = box[c].docker
    /\ gate' \in Invokers \cup {Free} /\ \A j \in Invokers : j # i /\ gate = j => gate' = j
    /\ inv[i].pc \notin {"done", "create"}
    /\ \E r \in Invoker :
         /\ Told(i, r) /\ InvokerOK(i, r, gate', pool') /\ r.rev = inv[i].rev
         /\ r.info = inv[i].info \/ (r.info = NoBox /\ inv[i].info \notin pool')
         /\ r.pc \notin {"done", "create", "retire"}
    /\ (box' = box /\ inv[i].pc # "retire") \/ RetireLatestContainers

LEMMA ShedsPool == ASSUME PoolInv, NEW i \in Invokers, Sheds(i) PROVE PoolInv'
<1>1. PICK r \in Invoker :
        /\ Told(i, r) /\ InvokerOK(i, r, gate', pool')
        /\ r.info = inv[i].info \/ (r.info = NoBox /\ inv[i].info \notin pool')
  BY DEF Sheds
<1>2. StoreType'
  BY StoreSame DEF Sheds, PoolInv
<1>3. EngineType'
  BY <1>1 DEF Sheds, PoolInv, EngineType, Told
<1>4. \A c \in Containers :
        /\ box'[c].rev = box[c].rev /\ (c \in pool' => box'[c].busy = box[c].busy)
        /\ box'[c].lease => box[c].lease /\ box'[c].docker
  BY DEF Sheds, PoolInv, ContainerOK
<1>5. pool' \subseteq pool /\ \A j \in Invokers : j # i /\ gate = j => gate' = j
  BY DEF Sheds
<1> QED BY <1>1, <1>2, <1>3, <1>4, <1>5, MovesEither, PoolStep

LEMMA BoxesSame ==
    ASSUME EngineType, box' = box
    PROVE  /\ box' \in [Containers -> Container]
           /\ \A c \in Containers :
                /\ box'[c].rev = box[c].rev /\ box'[c].busy = box[c].busy
                /\ box'[c].lease = box[c].lease /\ box'[c].docker = box[c].docker
BY DEF EngineType

LEMMA DiscardSheds ==
    ASSUME PoolInv, NEW i \in Invokers, DiscardIdle(i) PROVE Sheds(i) \/ Local(i)
<1>1. /\ EngineType /\ inv[i].pc = "discard" /\ inv[i].info = NoBox /\ gate = i
      /\ inv[i].rev \in Revisions
  BY InvokerAt DEF DiscardIdle, At, Holding, InvokerOK, Gated
<1>2. UNCHANGED <<store, box, gate, pending, ops, calls>>
  BY DEF DiscardIdle
<1>3. CASE Discardable(i) = {} /\ Goto(i, "count2") /\ UNCHANGED pool
  BY <1>2, <1>3, KeepLocal DEF DiscardIdle
<1>4. ASSUME NEW c \in Discardable(i), Untrack({c}), inv' = Notified([inv EXCEPT ![i].pc = "count2"])
      PROVE  Sheds(i)
  <2>1. "count2" \in Steps
    BY DEF Steps
  <2>2. PICK r \in Invoker : Told(i, r) /\ GoesTo(r, i, "count2")
    BY <1>1, <1>4, <2>1, GotoTold
  <2>3. InvokerOK(i, r, gate', pool')
    BY <1>1, <1>2, <2>2 DEF InvokerOK, GoesTo, Holding
  <2>4. pool' \subseteq pool
    BY <1>4 DEF Untrack
  <2> QED BY <1>1, <1>2, <2>2, <2>3, <2>4, BoxesSame, GateFrame DEF Sheds, GoesTo
<1> QED BY <1>3, <1>4 DEF DiscardIdle

LEMMA RetireSheds ==
    ASSUME PoolInv, NEW i \in Invokers, RetireAfterCreate(i) PROVE Sheds(i)
<1>1. /\ EngineType /\ inv[i].pc = "retire" /\ inv[i].info # NoBox /\ gate = i
      /\ inv[i].rev \in Revisions
  BY InvokerAt DEF RetireAfterCreate, At, Holding, InvokerOK, Gated
<1>2. /\ UNCHANGED <<store, gate, pending, ops, calls>> /\ RetireLatestContainers
      /\ inv' = Notified([inv EXCEPT ![i].pc = "start"]) /\ "start" \in Steps
  BY DEF RetireAfterCreate, Steps
<1>3. PICK r \in Invoker : Told(i, r) /\ GoesTo(r, i, "start")
  BY <1>1, <1>2, GotoTold
<1>4. InvokerOK(i, r, gate', pool')
  BY <1>1, <1>2, <1>3 DEF InvokerOK, GoesTo, Holding
<1>5. /\ pool' \subseteq pool /\ box' \in [Containers -> Container]
      /\ \A c \in Containers :
           /\ box'[c].rev = box[c].rev /\ box'[c].busy = box[c].busy
           /\ box'[c].lease = box[c].lease /\ box'[c].docker = box[c].docker
  BY <1>1, <1>2, RetireBoxes DEF RetireLatestContainers
<1> QED BY <1>1, <1>2, <1>3, <1>4, <1>5, GateFrame DEF Sheds, GoesTo

LEMMA StartFailsSheds ==
    ASSUME PoolInv, NEW i \in Invokers, StartFails(i) PROVE Sheds(i)
<1>1. EngineType /\ inv[i].pc = "start" /\ inv[i].rev \in Revisions /\ inv[i].pc \in Gated
  BY InvokerAt DEF StartFails, At, Gated
<1>2. /\ UNCHANGED <<store, box, pending, ops, calls>> /\ gate' = Free /\ "finish" \in Steps
      /\ inv' = Notified(Returned(i, "finish", NoBox)) /\ pool' = pool \ {inv[i].info}
  BY DEF StartFails, Steps, Untrack
<1>3. PICK r \in Invoker : Left(r, i, "finish", NoBox)
                           /\ Returned(i, "finish", NoBox) = [inv EXCEPT ![i] = r]
  BY <1>1, <1>2, ReturnedRecord
<1>4. Told(i, r)
  BY <1>1, <1>2, <1>3, SetTold
<1>5. InvokerOK(i, r, gate', pool')
  BY <1>1, <1>3 DEF InvokerOK, Left, Holding, Gated
<1> QED BY <1>1, <1>2, <1>3, <1>4, <1>5, BoxesSame, GateFrame DEF Sheds, Left

LEMMA DeadSheds ==
    ASSUME PoolInv, NEW i \in Invokers, RemoveDead(i) PROVE Sheds(i) \/ Local(i)
<1>1. EngineType /\ inv[i].pc = "run" /\ inv[i].rev \in Revisions /\ inv[i].info # NoBox
  BY InvokerAt DEF RemoveDead, At, Holding, InvokerOK
<1>2. CASE inv[i].info \notin pool
  BY <1>2, DeadLocal
<1>3. CASE inv[i].info \in pool
  <2>1. /\ UNCHANGED <<store, box, gate, pending, ops, calls>> /\ "removing" \in Steps
        /\ inv' = Notified([inv EXCEPT ![i].pc = "removing"]) /\ pool' = pool \ {inv[i].info}
    BY <1>3 DEF RemoveDead, Steps, Untrack
  <2>2. PICK r \in Invoker : Told(i, r) /\ GoesTo(r, i, "removing")
    BY <1>1, <2>1, GotoTold
  <2>3. InvokerOK(i, r, gate', pool')
    BY <1>1, <2>1, <2>2 DEF InvokerOK, GoesTo, Holding, Gated
  <2> QED BY <1>1, <2>1, <2>2, <2>3, BoxesSame, GateFrame DEF Sheds, GoesTo
<1> QED BY <1>2, <1>3

(* A cold start's container. *)
Born(i, c) ==
    /\ inv[i].pc = "create" /\ c \in Containers \ pool /\ ~box[c].docker
    /\ \A j \in Invokers : inv[j].info # c
    /\ pool' = pool \cup {c} /\ box' \in [Containers -> Container]
    /\ box'[c].rev = inv[i].rev /\ box'[c].busy /\ box'[c].lease /\ box'[c].docker
    /\ ~box'[c].retired
    /\ \A b \in Containers : b # c => box'[b] = box[b]
    /\ \E r \in Invoker : Told(i, r) /\ r.pc = "retire" /\ r.info = c /\ r.rev = inv[i].rev
    /\ UNCHANGED <<store, gate, pending, ops, calls>>

LEMMA CreateEffect ==
    ASSUME PoolInv, NEW i \in Invokers, CreateContainer(i) PROVE \E c \in Containers : Born(i, c)
<1>1. EngineType /\ inv[i].pc = "create" /\ inv[i].rev \in Revisions /\ inv[i] \in Invoker
  BY InvokerAt DEF CreateContainer, At
<1> DEFINE b == [NoContainer EXCEPT !.rev = inv[i].rev, !.busy = TRUE, !.lease = TRUE, !.docker = TRUE]
<1>2. PICK c \in Unborn :
        /\ box' = [box EXCEPT ![c] = b] /\ pool' = pool \cup {c}
        /\ inv' = Notified([inv EXCEPT ![i].pc = "retire", ![i].info = c])
  BY DEF CreateContainer
<1>3. c \in Containers \ pool /\ ~box[c].docker /\ \A j \in Invokers : inv[j].info # c
  BY DEF Unborn
<1>4. b \in Container /\ b.rev = inv[i].rev /\ b.busy /\ b.lease /\ b.docker /\ ~b.retired
  <2>1. b \in Container
    BY <1>1 DEF NoContainer, Container
  <2> QED BY <2>1 DEF NoContainer
<1> HIDE DEF b
<1>5. box' \in [Containers -> Container] /\ box'[c] = b /\ \A d \in Containers : d # c => box'[d] = box[d]
  BY <1>1, <1>2, <1>3, <1>4 DEF EngineType
<1> DEFINE r == [inv[i] EXCEPT !.pc = "retire", !.info = c]
<1>6. r \in Invoker /\ r.pc = "retire" /\ r.info = c /\ r.rev = inv[i].rev
  BY <1>1, <1>3 DEF Invoker, Steps
<1>7. inv' = Notified([inv EXCEPT ![i] = r])
  BY <1>1, <1>2 DEF EngineType
<1> HIDE DEF r
<1>8. Told(i, r)
  BY <1>1, <1>6, <1>7, SetTold
<1>9. UNCHANGED <<store, gate, pending, ops, calls>>
  BY DEF CreateContainer
<1> QED BY <1>1, <1>2, <1>3, <1>4, <1>5, <1>6, <1>8, <1>9 DEF Born

LEMMA BornPool == ASSUME PoolInv, NEW i \in Invokers, NEW c \in Containers, Born(i, c) PROVE PoolInv'
<1>1. PICK r \in Invoker : Told(i, r) /\ r.pc = "retire" /\ r.info = c /\ r.rev = inv[i].rev
  BY DEF Born
<1>2. /\ inv' \in [Invokers -> Invoker] /\ Alike(inv'[i], r)
      /\ \A j \in Invokers : j # i => Alike(inv'[j], inv[j])
  BY <1>1 DEF Told
<1>3. StoreType'
  BY StoreSame DEF Born, PoolInv
<1>4. EngineType'
  BY <1>2 DEF Born, PoolInv, EngineType
<1>5. c \notin pool /\ c # NoBox /\ inv[i].pc = "create" /\ gate = i /\ gate' = gate
      /\ inv[i].rev \in Revisions /\ \A j \in Invokers : inv[j].info # c
  BY InvokerAt, ContainersAssumption DEF Born, InvokerOK, Gated
<1>6. Cardinality(pool') = Cardinality(pool) + 1 /\ Cardinality(pool) \in Nat
      /\ Cardinality(pool) < MaxConcurrency
  BY <1>5, InvokerAt, PoolFinite, FS_AddElement DEF Born, InvokerOK, PoolInv
<1>7. ASSUME NEW j \in Invokers PROVE InvokerOK(j, inv'[j], gate', pool')
  <2>1. CASE j = i
    BY <1>1, <1>2, <1>5, <2>1 DEF InvokerOK, Alike, Gated, Holding
  <2>2. CASE j # i
    <3>1. InvokerOK(j, inv[j], gate, pool) /\ inv[j].pc \notin Gated
      BY <1>5, <2>2 DEF PoolInv, InvokerOK
    <3>2. inv[j].pc \notin {"retain", "create"}
      BY <3>1 DEF Gated
    <3> QED BY <1>2, <1>5, <2>2, <3>1, <3>2 DEF InvokerOK, Alike, Born
  <2> QED BY <2>1, <2>2
<1>8. \A b \in Containers : ContainerOK(b)'
  BY <1>5 DEF PoolInv, ContainerOK, Born
<1>9. inv'[i].info = c /\ \A j \in Invokers : j # i => inv'[j].info = inv[j].info
  BY <1>1, <1>2 DEF Alike
<1>10. HeldOnce'
  BY <1>5, <1>9 DEF PoolInv, HeldOnce
<1>11. inv[i].info = NoBox
  BY <1>5, InvokerAt DEF Holding
<1>12. BusyHeld'
  <2> SUFFICES ASSUME NEW b \in pool' PROVE box'[b].busy <=> \E j \in Invokers : inv'[j].info = b
    BY DEF BusyHeld, Holds
  <2>1. CASE b = c
    BY <1>9, <2>1 DEF Born
  <2>2. CASE b # c
    <3>1. b \in pool /\ b \in Containers /\ b # NoBox /\ box'[b] = box[b]
      BY <2>2, ContainersAssumption DEF Born, PoolInv, EngineType
    <3>2. \A j \in Invokers : inv'[j].info = b <=> inv[j].info = b
      BY <1>9, <1>11, <2>2, <3>1
    <3> QED BY <3>1, <3>2 DEF PoolInv, BusyHeld, Holds
  <2> QED BY <2>1, <2>2
<1>13. Cardinality(pool') <= MaxConcurrency
  BY <1>6, LimitsAssumption
<1>14. \A j \in Invokers : InvokerOK(j, inv[j], gate, pool)'
  BY <1>7 DEF InvokerOK
<1> QED BY <1>3, <1>4, <1>8, <1>10, <1>12, <1>13, <1>14 DEF PoolInv

(* An idle container of the pool is taken. *)
Taken(i, c) ==
    /\ inv[i].pc \in {"idle", "idle2"} /\ c \in pool /\ ~box[c].busy /\ box[c].rev = inv[i].rev
    /\ ~box[c].retired
    /\ pool' = pool /\ box' \in [Containers -> Container]
    /\ box'[c].rev = box[c].rev /\ box'[c].busy /\ box'[c].retired = box[c].retired
    /\ box'[c].lease = box[c].lease /\ box'[c].docker = box[c].docker
    /\ \A b \in Containers : b # c => box'[b] = box[b]
    /\ \E r \in Invoker : Alone(i, r) /\ Left(r, i, "run", c)
    /\ gate' \in Invokers \cup {Free} /\ \A j \in Invokers : j # i /\ gate = j => gate' = j
    /\ UNCHANGED <<store, pending, ops, calls>>

LEMMA BoxRecord ==
    ASSUME NEW b \in Container
    PROVE  /\ [b EXCEPT !.busy = TRUE] \in Container
           /\ [b EXCEPT !.busy = FALSE] \in Container
           /\ [b EXCEPT !.running = TRUE] \in Container
           /\ [b EXCEPT !.docker = FALSE, !.lease = FALSE] \in Container
BY DEF Container

LEMMA SetBox ==
    ASSUME EngineType, NEW c \in Containers, NEW b \in Container, box' = [box EXCEPT ![c] = b]
    PROVE  /\ box' \in [Containers -> Container] /\ box'[c] = b
           /\ \A d \in Containers : d # c => box'[d] = box[d]
BY DEF EngineType

LEMMA AcquireEffect ==
    ASSUME PoolInv, NEW i \in Invokers,
           NEW pc \in {"idle", "idle2"}, NEW next \in {"gate", "count"},
           (pc = "idle" /\ next = "gate") \/ (pc = "idle2" /\ next = "count"),
           AcquireIdle(i, pc, next)
    PROVE  Local(i) \/ \E c \in Containers : Taken(i, c)
<1>1. EngineType /\ inv[i].pc = pc /\ UNCHANGED <<store, pool, pending, ops, calls>>
  BY InvokerAt DEF AcquireIdle, At
<1>2. CASE ~CanReuse(i) /\ Goto(i, next) /\ UNCHANGED <<box, gate>>
  <2>1. At(i, pc)
    BY DEF AcquireIdle
  <2> QED BY <1>1, <1>2, <2>1, NoIdleLocal
<1>3. ASSUME NEW c \in Reusable(inv[i].rev), box' = [box EXCEPT ![c].busy = TRUE],
             inv' = Returned(i, "run", c), gate' = IF gate = i THEN Free ELSE gate
      PROVE  \E b \in Containers : Taken(i, b)
  <2>1. c \in pool /\ c \in Containers /\ ~box[c].busy /\ ~box[c].retired /\ box[c].rev = inv[i].rev
        /\ box[c] \in Container
    BY <1>1 DEF Reusable, EngineType
  <2>2. box' = [box EXCEPT ![c] = [box[c] EXCEPT !.busy = TRUE]]
    BY <1>1, <1>3 DEF EngineType
  <2>3. /\ box' \in [Containers -> Container] /\ box'[c] = [box[c] EXCEPT !.busy = TRUE]
        /\ \A d \in Containers : d # c => box'[d] = box[d]
    BY <1>1, <2>1, <2>2, BoxRecord, SetBox
  <2>4. /\ box'[c].rev = box[c].rev /\ box'[c].busy /\ box'[c].retired = box[c].retired
        /\ box'[c].lease = box[c].lease /\ box'[c].docker = box[c].docker
    BY <2>1, <2>3 DEF Container
  <2>5. "run" \in Steps
    BY DEF Steps
  <2>6. PICK r \in Invoker : Left(r, i, "run", c) /\ Returned(i, "run", c) = [inv EXCEPT ![i] = r]
    BY <1>1, <2>1, <2>5, ReturnedRecord
  <2>7. Alone(i, r)
    BY <1>1, <1>3, <2>6, SetAlone
  <2> QED BY <1>1, <1>3, <2>1, <2>3, <2>4, <2>6, <2>7, GateFrame DEF Taken
<1> QED BY <1>2, <1>3 DEF AcquireIdle

LEMMA TakenPool == ASSUME PoolInv, NEW i \in Invokers, NEW c \in Containers, Taken(i, c) PROVE PoolInv'
<1>1. PICK r \in Invoker : Alone(i, r) /\ Left(r, i, "run", c)
  BY DEF Taken
<1>2. /\ inv' \in [Invokers -> Invoker] /\ inv'[i] = r /\ \A j \in Invokers : j # i => inv'[j] = inv[j]
      /\ r.pc = "run" /\ r.info = c /\ r.rev = inv[i].rev
  BY <1>1 DEF Alone, Left
<1>3. StoreType'
  BY StoreSame DEF Taken, PoolInv
<1>4. EngineType'
  BY <1>2 DEF Taken, PoolInv, EngineType
<1>5. /\ c \in pool /\ c # NoBox /\ inv[i].info = NoBox /\ inv[i].rev \in Revisions
      /\ \A j \in Invokers : inv[j].info # c
  <2>1. c # NoBox /\ c \in pool /\ ~box[c].busy /\ inv[i].pc \in {"idle", "idle2"}
    BY ContainersAssumption DEF Taken
  <2> QED BY <2>1, InvokerAt DEF PoolInv, BusyHeld, Holds, Holding
<1>6. ASSUME NEW j \in Invokers PROVE InvokerOK(j, inv'[j], gate', pool')
  <2>1. CASE j = i
    BY <1>2, <1>5, <2>1 DEF InvokerOK, Gated, Holding
  <2>2. CASE j # i
    BY <1>2, <2>2 DEF Taken, PoolInv, InvokerOK
  <2> QED BY <2>1, <2>2
<1>7. \A b \in Containers : ContainerOK(b)'
  BY DEF PoolInv, ContainerOK, Taken
<1>8. HeldOnce'
  BY <1>2, <1>5 DEF PoolInv, HeldOnce
<1>9. BusyHeld'
  <2> SUFFICES ASSUME NEW b \in pool PROVE box'[b].busy <=> \E j \in Invokers : inv'[j].info = b
    BY DEF BusyHeld, Holds, Taken
  <2>1. CASE b = c
    BY <1>2, <2>1 DEF Taken
  <2>2. CASE b # c
    <3>1. b \in Containers /\ b # NoBox /\ box'[b] = box[b]
      BY <2>2, ContainersAssumption DEF Taken, PoolInv, EngineType
    <3>2. \A j \in Invokers : inv'[j].info = b <=> inv[j].info = b
      BY <1>2, <1>5, <2>2, <3>1
    <3> QED BY <3>1, <3>2 DEF PoolInv, BusyHeld, Holds
  <2> QED BY <2>1, <2>2
<1>10. pool' = pool
  BY DEF Taken
<1>11. \A j \in Invokers : InvokerOK(j, inv[j], gate, pool)'
  BY <1>6 DEF InvokerOK
<1> QED BY <1>3, <1>4, <1>7, <1>8, <1>9, <1>10, <1>11 DEF PoolInv

(* The container answers: the cold start is over. *)
Started(i) ==
    /\ inv[i].pc = "start" /\ inv[i].info \in Containers
    /\ pool' = pool /\ box' \in [Containers -> Container]
    /\ \A c \in Containers :
         /\ box'[c].rev = box[c].rev /\ box'[c].busy = box[c].busy /\ box'[c].retired = box[c].retired
         /\ box'[c].lease = box[c].lease /\ box'[c].docker = box[c].docker
         /\ c # inv[i].info => box'[c] = box[c]
    /\ \E r \in Invoker : Alone(i, r) /\ Left(r, i, "run", inv[i].info)
    /\ gate' \in Invokers \cup {Free} /\ \A j \in Invokers : j # i /\ gate = j => gate' = j
    /\ UNCHANGED <<store, pending, ops, calls>>

LEMMA StartEffect ==
    ASSUME PoolInv, NEW i \in Invokers, StartContainer(i) PROVE Started(i)
<1> DEFINE c == inv[i].info
<1>1. /\ EngineType /\ inv[i] \in Invoker /\ inv[i].pc = "start" /\ c \in Containers
      /\ gate' = Free /\ inv[i].pc \in Gated /\ UNCHANGED <<store, pool, pending, ops, calls>>
      /\ "run" \in Steps
  BY InvokerAt DEF StartContainer, At, InvokerOK, Holding, Gated, Invoker, Steps
<1> HIDE DEF c
<1>2. box' = [box EXCEPT ![c] = [box[c] EXCEPT !.running = TRUE]] /\ box[c] \in Container
  BY <1>1 DEF StartContainer, EngineType, c
<1>3. /\ box' \in [Containers -> Container] /\ box'[c] = [box[c] EXCEPT !.running = TRUE]
      /\ \A d \in Containers : d # c => box'[d] = box[d]
  BY <1>1, <1>2, BoxRecord, SetBox
<1>4. /\ box'[c].rev = box[c].rev /\ box'[c].busy = box[c].busy /\ box'[c].retired = box[c].retired
      /\ box'[c].lease = box[c].lease /\ box'[c].docker = box[c].docker
  BY <1>2, <1>3 DEF Container
<1>5. PICK q \in Invoker : Left(q, i, "run", c) /\ Returned(i, "run", c) = [inv EXCEPT ![i] = q]
  BY <1>1, ReturnedRecord
<1> DEFINE r == [q EXCEPT !.cold = TRUE]
<1>6. r \in Invoker /\ Left(r, i, "run", c)
  BY <1>5 DEF Invoker, Left
<1>7. inv' = [inv EXCEPT ![i] = r]
  <2>1. inv' = [Returned(i, "run", c) EXCEPT ![i].cold = TRUE]
    BY DEF StartContainer, c
  <2> QED BY <1>1, <1>5, <2>1 DEF EngineType
<1> HIDE DEF r
<1>8. Alone(i, r)
  BY <1>1, <1>6, <1>7, SetAlone
<1> QED BY <1>1, <1>3, <1>4, <1>6, <1>8, GateFrame DEF Started, c

LEMMA StartedPool == ASSUME PoolInv, NEW i \in Invokers, Started(i) PROVE PoolInv'
<1>1. PICK r \in Invoker : Alone(i, r) /\ Left(r, i, "run", inv[i].info)
  BY DEF Started
<1>2. StoreType'
  BY StoreSame DEF Started, PoolInv
<1>3. EngineType'
  BY <1>1 DEF Started, PoolInv, EngineType, Alone
<1>4. \A c \in Containers :
        /\ box'[c].rev = box[c].rev /\ (c \in pool' => box'[c].busy = box[c].busy)
        /\ box'[c].lease => box[c].lease /\ box'[c].docker
  BY DEF Started, PoolInv, ContainerOK
<1>5. pool' \subseteq pool /\ \A j \in Invokers : j # i /\ gate = j => gate' = j
  BY DEF Started
<1>6. InvokerOK(i, r, gate', pool') /\ r.info = inv[i].info
  BY <1>1, InvokerAt DEF InvokerOK, Left, Gated, Holding, Started
<1> QED BY <1>1, <1>2, <1>3, <1>4, <1>5, <1>6, MovesEither, PoolStep

(* The invocation lets its container go; a retired one leaves the pool. *)
Released(i) ==
    /\ inv[i].pc = "finish" /\ inv[i].info \in Containers
    /\ pool' = IF box[inv[i].info].retired THEN pool \ {inv[i].info} ELSE pool
    /\ box' \in [Containers -> Container] /\ ~box'[inv[i].info].busy
    /\ \A c \in Containers :
         /\ box'[c].rev = box[c].rev /\ box'[c].retired = box[c].retired
         /\ box'[c].lease = box[c].lease /\ box'[c].docker = box[c].docker
         /\ c # inv[i].info => box'[c] = box[c]
    /\ \E r \in Invoker : Told(i, r) /\ r.pc = "unlease" /\ r.rev = inv[i].rev /\ r.info = NoBox
    /\ UNCHANGED <<store, gate, pending, ops, calls>>

LEMMA ReleaseEffect ==
    ASSUME PoolInv, NEW i \in Invokers, Release(i) PROVE Local(i) \/ Released(i)
<1>1. CASE inv[i].info = NoBox
  BY <1>1, FinishLocal
<1>2. CASE inv[i].info # NoBox
  <2> DEFINE c == inv[i].info
  <2>1. /\ EngineType /\ inv[i] \in Invoker /\ inv[i].pc = "finish" /\ c \in Containers
        /\ UNCHANGED <<store, gate, pending, ops, calls>>
    BY <1>2, InvokerAt DEF Release, At, Invoker
  <2>2. /\ box' = [box EXCEPT ![c].busy = FALSE]
        /\ pool' = IF box[c].retired THEN pool \ {c} ELSE pool
        /\ inv' = Notified([inv EXCEPT ![i].pc = "unlease", ![i].info = NoBox])
    BY <1>2 DEF Release, Untrack
  <2> HIDE DEF c
  <2>3. box' = [box EXCEPT ![c] = [box[c] EXCEPT !.busy = FALSE]] /\ box[c] \in Container
    BY <2>1, <2>2 DEF EngineType
  <2>4. /\ box' \in [Containers -> Container] /\ box'[c] = [box[c] EXCEPT !.busy = FALSE]
        /\ \A d \in Containers : d # c => box'[d] = box[d]
    BY <2>1, <2>3, BoxRecord, SetBox
  <2>5. /\ box'[c].rev = box[c].rev /\ ~box'[c].busy /\ box'[c].retired = box[c].retired
        /\ box'[c].lease = box[c].lease /\ box'[c].docker = box[c].docker
    BY <2>3, <2>4 DEF Container
  <2> DEFINE r == [inv[i] EXCEPT !.pc = "unlease", !.info = NoBox]
  <2>6. r \in Invoker /\ r.pc = "unlease" /\ r.info = NoBox /\ r.rev = inv[i].rev
    BY <2>1 DEF Invoker, Steps
  <2>7. inv' = Notified([inv EXCEPT ![i] = r])
    BY <2>1, <2>2 DEF EngineType
  <2> HIDE DEF r
  <2>8. Told(i, r)
    BY <2>1, <2>6, <2>7, SetTold
  <2> QED BY <2>1, <2>2, <2>4, <2>5, <2>6, <2>8 DEF Released, c
<1> QED BY <1>1, <1>2

LEMMA ReleasedPool == ASSUME PoolInv, NEW i \in Invokers, Released(i) PROVE PoolInv'
<1> DEFINE c == inv[i].info
<1>1. PICK r \in Invoker : Told(i, r) /\ r.pc = "unlease" /\ r.rev = inv[i].rev /\ r.info = NoBox
  BY DEF Released
<1>2. /\ inv' \in [Invokers -> Invoker] /\ Alike(inv'[i], r)
      /\ \A j \in Invokers : j # i => Alike(inv'[j], inv[j])
  BY <1>1 DEF Told
<1>3. StoreType'
  BY StoreSame DEF Released, PoolInv
<1>4. pool' \subseteq pool /\ gate' = gate /\ c \in Containers /\ c # NoBox
  BY ContainersAssumption DEF Released
<1>5. EngineType'
  BY <1>2, <1>4 DEF Released, PoolInv, EngineType
<1>6. ASSUME NEW j \in Invokers PROVE InvokerOK(j, inv'[j], gate', pool')
  <2>1. CASE j = i
    <3>1. inv[i].rev \in Revisions
      BY InvokerAt DEF Released
    <3> QED BY <1>1, <1>2, <2>1, <3>1 DEF InvokerOK, Alike, Gated, Holding
  <2>2. CASE j # i
    BY <1>2, <1>4, <2>2, StayOK
  <2> QED BY <2>1, <2>2
<1>7. \A b \in Containers : ContainerOK(b)'
  BY <1>4 DEF PoolInv, ContainerOK, Released
<1>8. inv'[i].info = NoBox /\ \A j \in Invokers : j # i => inv'[j].info = inv[j].info
  BY <1>1, <1>2 DEF Alike
<1>9. HeldOnce'
  BY <1>8 DEF PoolInv, HeldOnce
<1>10. \A j \in Invokers : inv'[j].info # c
  BY <1>4, <1>8 DEF PoolInv, HeldOnce
<1>11. BusyHeld'
  <2> SUFFICES ASSUME NEW b \in pool' PROVE box'[b].busy <=> \E j \in Invokers : inv'[j].info = b
    BY DEF BusyHeld, Holds
  <2>1. CASE b = c
    BY <1>10, <2>1 DEF Released
  <2>2. CASE b # c
    <3>1. b \in pool /\ b \in Containers /\ b # NoBox /\ box'[b] = box[b]
      BY <1>4, <2>2, ContainersAssumption DEF Released, PoolInv, EngineType
    <3>2. \A j \in Invokers : inv'[j].info = b <=> inv[j].info = b
      BY <1>8, <2>2, <3>1
    <3> QED BY <3>1, <3>2 DEF PoolInv, BusyHeld, Holds
  <2> QED BY <2>1, <2>2
<1>12. Cardinality(pool') <= MaxConcurrency
  <2>1. /\ Cardinality(pool') <= Cardinality(pool) /\ Cardinality(pool) \in Nat
        /\ Cardinality(pool') \in Nat
    BY <1>4, PoolFinite DEF PoolInv
  <2> QED BY <2>1, LimitsAssumption DEF PoolInv
<1>13. \A j \in Invokers : InvokerOK(j, inv[j], gate, pool)'
  BY <1>6 DEF InvokerOK
<1> QED BY <1>3, <1>5, <1>7, <1>9, <1>11, <1>12, <1>13 DEF PoolInv

(* Docker removes a container that is no longer in the pool. *)
Removed(c) ==
    /\ c \in Containers \ pool /\ pool' = pool
    /\ box' \in [Containers -> Container] /\ ~box'[c].lease
    /\ \A b \in Containers :
         /\ box'[b].rev = box[b].rev
         /\ b # c => box'[b] = box[b]
    /\ IF box[c].lease THEN ReleaseLease(box[c].rev.code) ELSE UNCHANGED <<leases, dirs, gc>>
    /\ UNCHANGED <<fn, gate, pending, instances, ops, calls>>

LEMMA RemoveEffect ==
    ASSUME EngineType, NEW c \in Containers \ pool, pool' = pool,
           box' = [box EXCEPT ![c].docker = FALSE, ![c].lease = FALSE],
           IF box[c].lease THEN ReleaseLease(box[c].rev.code) ELSE UNCHANGED <<leases, dirs, gc>>,
           UNCHANGED <<fn, gate, pending, instances, ops, calls>>
    PROVE  Removed(c)
<1>1. box' = [box EXCEPT ![c] = [box[c] EXCEPT !.docker = FALSE, !.lease = FALSE]]
      /\ box[c] \in Container
  BY DEF EngineType
<1>2. /\ box' \in [Containers -> Container]
      /\ box'[c] = [box[c] EXCEPT !.docker = FALSE, !.lease = FALSE]
      /\ \A d \in Containers : d # c => box'[d] = box[d]
  BY <1>1, BoxRecord, SetBox
<1>3. box'[c].rev = box[c].rev /\ ~box'[c].lease
  BY <1>1, <1>2 DEF Container
<1> QED BY <1>2, <1>3 DEF Removed

LEMMA RemovedParts ==
    ASSUME PoolInv, NEW c \in Containers, Removed(c)
    PROVE  /\ StoreType'
           /\ \A b \in Containers :
                /\ box'[b].rev = box[b].rev /\ (b \in pool' => box'[b].busy = box[b].busy)
                /\ box'[b].lease => box[b].lease /\ box'[b].docker
<1>1. StoreType'
  <2>1. CASE box[c].lease
    <3>1. box[c].rev.code \in Codes
      BY <2>1 DEF PoolInv, ContainerOK, Revisions
    <3> QED BY <2>1, <3>1, ReleaseType DEF Removed, PoolInv
  <2>2. CASE ~box[c].lease
    BY <2>2 DEF Removed, PoolInv, StoreType
  <2> QED BY <2>1, <2>2
<1>2. ASSUME NEW b \in Containers
      PROVE  /\ box'[b].rev = box[b].rev /\ (b \in pool' => box'[b].busy = box[b].busy)
             /\ box'[b].lease => box[b].lease /\ box'[b].docker
  BY DEF Removed, PoolInv, ContainerOK
<1> QED BY <1>1, <1>2

(* A dead container: the invocation looks for another one or gives up. *)
Reacquired(i) ==
    /\ inv[i].pc = "removing" /\ inv[i].info \in Containers \ pool
    /\ \E r \in Invoker : /\ Alone(i, r) /\ r.pc \in {"top", "finish"} /\ r.info = NoBox
                          /\ r.rev = inv[i].rev
    /\ \/ UNCHANGED <<leases, dirs, gc, fn, box, pool, gate, pending, instances, ops, calls>>
       \/ Removed(inv[i].info)

LEMMA ReacquireEffect ==
    ASSUME PoolInv, NEW i \in Invokers, Reacquire(i) PROVE Reacquired(i)
<1> DEFINE c == inv[i].info
<1>1. /\ EngineType /\ inv[i] \in Invoker /\ inv[i].pc = "removing" /\ c \in Containers \ pool
  BY InvokerAt DEF Reacquire, At, InvokerOK, Invoker, Holding
<1>2. UNCHANGED <<fn, pool, gate, pending, instances, ops, calls>>
  BY DEF Reacquire
<1>3. PICK pc \in {"top", "finish"} :
        inv' = [inv EXCEPT ![i].pc = pc, ![i].info = NoBox, ![i].retried = TRUE]
  BY DEF Reacquire
<1> DEFINE r == [inv[i] EXCEPT !.pc = pc, !.info = NoBox, !.retried = TRUE]
<1>4. r \in Invoker /\ r.pc = pc /\ r.info = NoBox /\ r.rev = inv[i].rev
  BY <1>1 DEF Invoker, Steps
<1>5. inv' = [inv EXCEPT ![i] = r]
  BY <1>1, <1>3 DEF EngineType
<1> HIDE DEF r
<1>6. Alone(i, r)
  BY <1>1, <1>4, <1>5, SetAlone
<1>7. UNCHANGED <<leases, dirs, gc, box>> \/ Removed(c)
  <2>1. CASE UNCHANGED <<box, leases, dirs, gc>>
    BY <2>1
  <2>2. CASE /\ box' = [box EXCEPT ![c].docker = FALSE, ![c].lease = FALSE]
             /\ IF box[c].lease THEN ReleaseLease(box[c].rev.code)
                ELSE UNCHANGED <<leases, dirs, gc>>
    <3> HIDE DEF c
    <3> QED BY <1>1, <1>2, <2>2, RemoveEffect
  <2> QED BY <2>1, <2>2 DEF Reacquire
<1> QED BY <1>1, <1>2, <1>4, <1>6, <1>7 DEF Reacquired

LEMMA ReacquiredPool == ASSUME PoolInv, NEW i \in Invokers, Reacquired(i) PROVE PoolInv'
<1>1. PICK r \in Invoker : /\ Alone(i, r) /\ r.pc \in {"top", "finish"} /\ r.info = NoBox
                           /\ r.rev = inv[i].rev
  BY DEF Reacquired
<1>2. /\ inv[i].pc = "removing" /\ inv[i].info \in Containers \ pool /\ pool' = pool /\ gate' = gate
      /\ pending' = pending
  BY DEF Reacquired, Removed
<1>3. /\ StoreType' /\ box' \in [Containers -> Container]
      /\ \A b \in Containers :
           /\ box'[b].rev = box[b].rev /\ (b \in pool' => box'[b].busy = box[b].busy)
           /\ box'[b].lease => box[b].lease /\ box'[b].docker
  <2>1. CASE Removed(inv[i].info)
    BY <1>2, <2>1, RemovedParts DEF Removed
  <2>2. CASE UNCHANGED <<leases, dirs, gc, fn, box, pool, gate, pending, instances, ops, calls>>
    BY <2>2, SameBoxes DEF PoolInv, EngineType, StoreType
  <2> QED BY <2>1, <2>2 DEF Reacquired
<1>4. EngineType'
  BY <1>1, <1>2, <1>3 DEF PoolInv, EngineType, Alone
<1>5. InvokerOK(i, r, gate', pool')
  <2>1. inv[i].rev \in Revisions
    BY <1>2, InvokerAt
  <2> QED BY <1>1, <2>1 DEF InvokerOK, Gated, Holding
<1> QED BY <1>1, <1>2, <1>3, <1>4, <1>5, MovesEither, PoolStep

LEMMA ForceEffect ==
    ASSUME PoolInv, NEW c \in Containers, ForceRemove(c) PROVE Removed(c) /\ inv' = inv
<1>1. EngineType
  BY DEF PoolInv
<1> QED BY <1>1, RemoveEffect DEF ForceRemove

LEMMA ForcePool ==
    ASSUME PoolInv, NEW c \in Containers, Removed(c), inv' = inv PROVE PoolInv'
<1>1. pool' = pool /\ gate' = gate /\ pending' = pending /\ box' \in [Containers -> Container]
  BY DEF Removed
<1>2. EngineType'
  BY <1>1 DEF PoolInv, EngineType
<1>3. \A j \in Invokers : InvokerOK(j, inv'[j], gate', pool') /\ inv'[j].info = inv[j].info
  BY <1>1 DEF PoolInv
<1> QED BY <1>1, <1>2, <1>3, RemovedParts, PoolShrinks

(***************************************************************************)
(* The pool is sound                                                       *)
(***************************************************************************)
(* Nothing runs: the process has just started. *)
Fresh ==
    /\ pool = {} /\ box = [c \in Containers |-> NoContainer] /\ gate = Free
    /\ inv = [i \in Invokers |-> IdleInvoker] /\ pending = [retire |-> 0, signal |-> 0]

LEMMA FreshParts ==
    Fresh => /\ \A c \in Containers : box[c] = NoContainer /\ ~box[c].lease /\ ~box[c].docker
             /\ \A i \in Invokers : inv[i] = IdleInvoker /\ inv[i].pc = "done" /\ inv[i].info = NoBox
                                    /\ inv[i].ch = "none"
BY IdleRecord DEF Fresh, NoContainer

LEMMA FreshPool == StoreType /\ Fresh => PoolInv
<1> SUFFICES ASSUME StoreType, Fresh PROVE PoolInv
  OBVIOUS
<1>1. NoContainer \in Container
  BY DEF NoContainer, Container
<1>2. EngineType
  BY <1>1, IdleRecord DEF EngineType, Fresh
<1>3. \A i \in Invokers : InvokerOK(i, inv[i], gate, pool)
  BY FreshParts DEF InvokerOK, Gated, Holding
<1>4. \A c \in Containers : ContainerOK(c)
  BY FreshParts DEF ContainerOK, Fresh
<1>5. HeldOnce /\ BusyHeld
  BY FreshParts DEF HeldOnce, BusyHeld, Fresh
<1>6. Cardinality(pool) <= MaxConcurrency
  BY FS_EmptySet, LimitsAssumption DEF Fresh
<1> QED BY <1>2, <1>3, <1>4, <1>5, <1>6 DEF PoolInv

LEMMA RestartFresh == ASSUME StoreType, Restart PROVE StoreType' /\ Fresh'
<1>1. ops' \in 0..MaxOps /\ calls' = calls
  BY OperateType DEF Restart
<1>2. leases' \in [Codes -> Int] /\ dirs' \subseteq Codes /\ gc' \in BOOLEAN
  BY DEF Restart, Prune, StoreType
<1> QED BY <1>1, <1>2 DEF Restart, StoreType, Fresh

LEMMA StoredFunctions == ASSUME NEW f \in Stored PROVE f \in Function /\ f.instance = 1
<1>1. PICK code, published \in Codes :
        f = [code |-> code, instance |-> 1, versions |-> [Unpublished EXCEPT ![1] = published],
             next |-> 1, alias |-> 1, reserved |-> Unreserved]
  BY DEF Stored
<1>2. [Unpublished EXCEPT ![1] = published] \in [Versions -> Codes \cup {NoCode}]
  BY DEF Unpublished
<1>3. 1 \in 0..MaxVersion /\ 1 \in 1..MaxInstance
  BY LimitsAssumption
<1> QED BY <1>1, <1>2, <1>3 DEF Function

LEMMA PoolInit == Init => PoolInv
<1> SUFFICES ASSUME Init PROVE PoolInv
  OBVIOUS
<1>1. fn \in Function \cup {NoFunction} /\ fn.instance \in 0..MaxInstance
  BY StoredFunctions, LimitsAssumption DEF Init, NoFunction
<1>2. Referenced(fn) \subseteq Codes
  <2>1. CASE fn = NoFunction
    BY <2>1 DEF Referenced, NoFunction, Unpublished
  <2>2. CASE fn \in Function
    BY <2>2 DEF Referenced, Function
  <2> QED BY <1>1, <2>1, <2>2
<1>3. leases \in [Codes -> Int] /\ 0 \in 0..MaxOps /\ 0 \in 0..MaxInvokes
  BY LimitsAssumption DEF Init
<1>4. StoreType
  BY <1>1, <1>2, <1>3 DEF Init, StoreType
<1> QED BY <1>4, FreshPool DEF Init, Fresh

(* Every step of an invocation is one of these. *)
InvokerStep(i) ==
    \/ Local(i) \/ Invoked(i) \/ Retained(i) \/ Freed(i) \/ Sheds(i) \/ Started(i)
    \/ Released(i) \/ Reacquired(i)
    \/ \E c \in Containers : Born(i, c) \/ Taken(i, c)

LEMMA InvokerSteps ==
    ASSUME PoolInv, NEW i \in Invokers,
           \/ \E q \in Qualifiers : Invoke(i, q)
           \/ Acquire(i) \/ ColdStart(i)
           \/ Run(i) \/ RemoveDead(i) \/ Reacquire(i) \/ Release(i) \/ Unlease(i)
    PROVE  InvokerStep(i)
<1>1. CASE \E q \in Qualifiers : Invoke(i, q)
  BY <1>1, InvokeEffect DEF InvokerStep
<1>2. CASE Acquire(i)
  <2>1. CASE Top(i) \/ TimedOut(i) \/ Wake(i) \/ CaptureChannel(i)
    BY <2>1, TopLocal DEF InvokerStep
  <2>2. CASE ReadConcurrency(i, "limit", "reserved") \/ ReadConcurrency(i, "limit2", "reserved2")
    BY <2>2, ReadLocal DEF InvokerStep
  <2>3. CASE CheckReserved(i, "reserved", "idle") \/ CheckReserved(i, "reserved2", "capture")
    BY <2>3, CheckLocal DEF InvokerStep
  <2>4. CASE AcquireIdle(i, "idle", "gate") \/ AcquireIdle(i, "idle2", "count")
    BY <2>4, AcquireEffect DEF InvokerStep
  <2>5. CASE TakeGate(i) \/ CountPool(i) \/ DecideColdStart(i)
    BY <2>5, TakeLocal, CountLocal, DecideLocal DEF InvokerStep
  <2>6. CASE DiscardIdle(i)
    BY <2>6, DiscardSheds DEF InvokerStep
  <2> QED BY <1>2, <2>1, <2>2, <2>3, <2>4, <2>5, <2>6 DEF Acquire
<1>3. CASE ColdStart(i)
  BY <1>3, RetainEffect, CreateEffect, FreedEffect, RetireSheds, StartEffect, StartFailsSheds
  DEF ColdStart, InvokerStep
<1>4. CASE Run(i) \/ RemoveDead(i) \/ Reacquire(i) \/ Release(i) \/ Unlease(i)
  BY <1>4, RunLocal, DeadSheds, ReacquireEffect, ReleaseEffect, FreedEffect DEF InvokerStep
<1> QED BY <1>1, <1>2, <1>3, <1>4

LEMMA InvokerPool == ASSUME PoolInv, NEW i \in Invokers, InvokerStep(i) PROVE PoolInv'
BY LocalPool, InvokePool, RetainPool, FreedPool, ShedsPool, StartedPool, ReleasedPool,
   ReacquiredPool, BornPool, TakenPool DEF InvokerStep

(* The five ways a step goes. *)
LEMMA Steps5 ==
    ASSUME PoolInv, [Next]_vars
    PROVE  \/ UNCHANGED vars
           \/ Background
           \/ Restart
           \/ \E i \in Invokers : InvokerStep(i)
           \/ \E c \in Containers : Removed(c) /\ inv' = inv
BY InvokerSteps, ForceEffect DEF Next, Background

LEMMA SameState == ASSUME UNCHANGED vars PROVE (PoolInv => PoolInv') /\ (StaleInv => StaleInv')
                                               /\ (WaitInv => WaitInv')
<1> USE DEF vars
<1>1. PoolInv => PoolInv'
  BY DEF PoolInv, StoreType, EngineType, InvokerOK, ContainerOK, HeldOnce, BusyHeld, Holds
<1>2. StaleInv => StaleInv'
  BY DEF StaleInv, Exists, CurrentRevision, Holds, At
<1>3. WaitInv => WaitInv'
  BY DEF WaitInv, Informed, MayReuse, Stopped, Others, Busy, Reusable, Count
<1> QED BY <1>1, <1>2, <1>3

LEMMA PoolNext == PoolInv /\ [Next]_vars => PoolInv'
<1> SUFFICES ASSUME PoolInv, [Next]_vars PROVE PoolInv'
  OBVIOUS
<1>1. CASE UNCHANGED vars
  BY <1>1, SameState
<1>2. CASE Background
  BY <1>2, BackgroundStep, MarksPool
<1>3. CASE Restart
  <2>1. StoreType' /\ Fresh'
    BY <1>3, RestartFresh DEF PoolInv
  <2> QED BY <2>1, FreshPool, PTL
<1>4. ASSUME NEW i \in Invokers, InvokerStep(i) PROVE PoolInv'
  BY <1>4, InvokerPool
<1>5. ASSUME NEW c \in Containers, Removed(c), inv' = inv PROVE PoolInv'
  BY <1>5, ForcePool
<1> QED BY <1>1, <1>2, <1>3, <1>4, <1>5, Steps5

LEMMA PoolAlways == Spec => []PoolInv
BY PoolInit, PoolNext, PTL DEF Spec

(* One invocation at a time per container, on every path of a cold start    *)
(* and of a recovery, and never more containers than the limit allows       *)
(* (acquireContainer, coldStart and recoverDeadWarmContainer), for any       *)
(* number of concurrent invocations.                                        *)
THEOREM PoolIsSound == Spec => []PoolSound
<1>1. PoolInv => PoolSound
  BY DEF PoolInv, PoolSound, HeldOnce, BusyHeld, Count, Holds
<1> QED BY <1>1, PoolAlways, PTL

(***************************************************************************)
(* No container of an old revision is left idle                            *)
(***************************************************************************)
Excused(c) ==
    \/ pending.retire > 0
    \/ Exists /\ box[c].rev = CurrentRevision
    \/ \E i \in Invokers : Holds(i, c) /\ At(i, "retire")

LEMMA StaleParts ==
    StaleInv <=> \A c \in pool : /\ box[c].retired => box[c].busy
                                 /\ ~box[c].retired /\ box[c].rev.version = Latest => Excused(c)
BY DEF StaleInv, Excused

LEMMA StalePartsNext ==
    StaleInv' <=> \A c \in pool' : /\ box'[c].retired => box'[c].busy
                                   /\ ~box'[c].retired /\ box'[c].rev.version = Latest => Excused(c)'
BY DEF StaleInv, Excused

(* An invocation that is about to retire old containers stays so. *)
Patient == \A i \in Invokers : At(i, "retire") => inv'[i].pc = "retire" /\ inv'[i].info = inv[i].info

LEMMA ExcusedKept ==
    ASSUME NEW c, box'[c].rev = box[c].rev, Patient, pending.retire > 0 => pending'.retire > 0,
           Exists => Exists' /\ CurrentRevision' = CurrentRevision, Excused(c)
    PROVE  Excused(c)'
BY DEF Excused, Patient, Holds, At

(* The pool shrinks and nothing is marked. *)
LEMMA StaleFrame ==
    ASSUME StaleInv, pool' \subseteq pool, Patient, pending.retire > 0 => pending'.retire > 0,
           Exists => Exists' /\ CurrentRevision' = CurrentRevision,
           \A c \in pool' : /\ box'[c].rev = box[c].rev /\ box'[c].retired = box[c].retired
                            /\ box[c].retired /\ box[c].busy => box'[c].busy
    PROVE  StaleInv'
BY StaleParts, StalePartsNext, ExcusedKept

LEMMA RetireStale ==
    ASSUME EngineType, StaleInv, NEW M, Retire(M),
           \A c \in pool \ M : ~box[c].retired /\ box[c].rev.version = Latest => Excused(c)'
    PROVE  StaleInv'
<1> SUFFICES ASSUME NEW c \in pool'
             PROVE  /\ box'[c].retired => box'[c].busy
                    /\ ~box'[c].retired /\ box'[c].rev.version = Latest => Excused(c)'
  BY StalePartsNext
<1>1. /\ c \in pool /\ c \in Containers /\ ~(c \in M /\ ~box[c].busy)
      /\ box'[c].rev = box[c].rev /\ box'[c].busy = box[c].busy
      /\ box'[c].retired <=> (c \in M \/ box[c].retired)
  BY RetireBoxes DEF EngineType
<1>2. box[c].retired => box[c].busy
  BY <1>1, StaleParts
<1> QED BY <1>1, <1>2

(* RetireLatestRevision, or RetireFunction when the record is gone. *)
LEMMA RetireLatestStale ==
    ASSUME EngineType, StaleInv, RetireLatestContainers, fn' = fn
    PROVE  StaleInv'
<1> DEFINE M == IF Exists THEN StaleLatest(fn) ELSE pool
<1>1. Retire(M)
  BY DEF RetireLatestContainers
<1>2. ASSUME NEW c \in pool \ M, ~box[c].retired, box[c].rev.version = Latest PROVE Excused(c)'
  <2>1. Exists /\ box[c].rev = Revision(fn.code, fn.instance, Latest)
    BY <1>2 DEF StaleLatest
  <2>2. box'[c].rev = box[c].rev
    BY <1>1, RetireBoxes DEF EngineType
  <2> QED BY <2>1, <2>2 DEF Excused, Exists, CurrentRevision
<1> HIDE DEF M
<1> QED BY <1>1, <1>2, RetireStale

LEMMA InvokerStale ==
    ASSUME PoolInv, StaleInv, NEW i \in Invokers, InvokerStep(i)
    PROVE  StaleInv'
<1>1. EngineType
  BY DEF PoolInv
<1>2. ASSUME NEW r, Alone(i, r) \/ Told(i, r), inv[i].pc # "retire" PROVE Patient
  BY <1>2 DEF Alone, Told, Alike, Patient, At
<1>3. ASSUME fn' = fn, pending' = pending
      PROVE  /\ pending.retire > 0 => pending'.retire > 0
             /\ Exists => Exists' /\ CurrentRevision' = CurrentRevision
  BY <1>3 DEF Exists, CurrentRevision
<1>4. CASE Local(i)
  BY <1>2, <1>3, <1>4, StaleFrame DEF Local, store
<1>5. CASE Invoked(i)
  BY <1>2, <1>3, <1>5, StaleFrame DEF Invoked
<1>6. CASE Retained(i)
  BY <1>2, <1>3, <1>6, StaleFrame DEF Retained
<1>7. CASE Freed(i)
  <2>1. inv[i].pc # "retire"
    BY <1>7 DEF Freed
  <2> QED BY <1>2, <1>3, <1>7, <2>1, StaleFrame DEF Freed
<1>8. CASE Sheds(i)
  <2>1. fn' = fn /\ pending' = pending /\ pool' \subseteq pool
    BY <1>8 DEF Sheds, store
  <2>2. CASE RetireLatestContainers
    BY <1>1, <2>1, <2>2, RetireLatestStale
  <2>3. CASE box' = box /\ inv[i].pc # "retire"
    <3>1. Patient
      BY <1>2, <1>8, <2>3 DEF Sheds
    <3> QED BY <1>3, <2>1, <2>3, <3>1, StaleFrame
  <2> QED BY <1>8, <2>2, <2>3 DEF Sheds
<1>9. CASE Started(i)
  <2>1. Patient /\ fn' = fn /\ pending' = pending /\ pool' = pool
    BY <1>2, <1>9 DEF Started, store
  <2>2. \A c \in pool' : /\ box'[c].rev = box[c].rev /\ box'[c].retired = box[c].retired
                         /\ box[c].retired /\ box[c].busy => box'[c].busy
    BY <1>1, <1>9 DEF Started, EngineType
  <2> QED BY <1>3, <2>1, <2>2, StaleFrame
<1>10. CASE Released(i)
  <2>1. Patient /\ fn' = fn /\ pending' = pending /\ pool' \subseteq pool
    BY <1>2, <1>10 DEF Released, store
  <2>2. \A c \in pool' : /\ box'[c].rev = box[c].rev /\ box'[c].retired = box[c].retired
                         /\ box[c].retired /\ box[c].busy => box'[c].busy
    BY <1>1, <1>10 DEF Released, EngineType
  <2> QED BY <1>3, <2>1, <2>2, StaleFrame
<1>11. CASE Reacquired(i)
  <2>1. Patient /\ fn' = fn /\ pending' = pending /\ pool' \subseteq pool
    BY <1>2, <1>11 DEF Reacquired, Removed
  <2>2. \A c \in pool' : box'[c] = box[c]
    BY <1>1, <1>11 DEF Reacquired, Removed, EngineType
  <2> QED BY <1>3, <2>1, <2>2, StaleFrame
<1>12. ASSUME NEW c \in Containers, Taken(i, c) PROVE StaleInv'
  <2>1. Patient /\ fn' = fn /\ pending' = pending /\ pool' = pool
    BY <1>2, <1>12 DEF Taken, store
  <2>2. \A b \in pool' : /\ box'[b].rev = box[b].rev /\ box'[b].retired = box[b].retired
                         /\ box[b].retired /\ box[b].busy => box'[b].busy
    BY <1>1, <1>12 DEF Taken, EngineType
  <2> QED BY <1>3, <2>1, <2>2, StaleFrame
<1>13. ASSUME NEW c \in Containers, Born(i, c) PROVE StaleInv'
  <2>1. Patient /\ fn' = fn /\ pending' = pending /\ pool' = pool \cup {c}
    BY <1>2, <1>13 DEF Born, store
  <2>2. \A b \in pool : box'[b] = box[b]
    BY <1>1, <1>13 DEF Born, EngineType
  <2>3. ~box'[c].retired /\ inv'[i].pc = "retire" /\ inv'[i].info = c
    BY <1>13 DEF Born, Told, Alike
  <2>4. Excused(c)'
    BY <2>3 DEF Excused, Holds, At
  <2>5. \A b \in pool : Excused(b) => Excused(b)'
    BY <1>3, <2>1, <2>2, ExcusedKept
  <2> QED BY <2>1, <2>2, <2>3, <2>4, <2>5, StaleParts, StalePartsNext
<1> QED BY <1>4, <1>5, <1>6, <1>7, <1>8, <1>9, <1>10, <1>11, <1>12, <1>13 DEF InvokerStep

LEMMA BackgroundStale ==
    ASSUME PoolInv, StaleInv, Background
    PROVE  StaleInv'
<1>1. StoreType /\ EngineType /\ (Exists => fn \in Function)
  BY DEF PoolInv, StoreType, Exists
<1>2. Patient
  BY BackgroundStep DEF Marks, Alike, Patient, At
<1>3. ASSUME UNCHANGED <<pool, box>>, pending'.retire = pending.retire,
             Exists => Exists' /\ CurrentRevision' = CurrentRevision
      PROVE  StaleInv'
  BY <1>2, <1>3, StaleFrame
<1>4. ASSUME NEW code \in Codes, CreateFunction(code) PROVE StaleInv'
  <2> DEFINE f == IF Exists THEN [fn EXCEPT !.code = code]
                  ELSE [NoFunction EXCEPT !.code = code, !.instance = instances + 1]
  <2>1. fn' = f /\ Retire(StaleLatest(f))
    BY <1>4 DEF CreateFunction, Commit
  <2>2. f # NoFunction
    <3>1. f.code = code
      BY <1>1 DEF Function, NoFunction
    <3> QED BY <3>1, CodesAssumption DEF NoFunction
  <2> HIDE DEF f
  <2>3. ASSUME NEW c \in pool \ StaleLatest(f), box[c].rev.version = Latest PROVE Excused(c)'
    <3>1. box[c].rev = Revision(f.code, f.instance, Latest)
      BY <2>3 DEF StaleLatest
    <3>2. box'[c].rev = box[c].rev
      BY <1>1, <2>1, RetireBoxes DEF EngineType
    <3> QED BY <2>1, <2>2, <3>1, <3>2 DEF Excused, Exists, CurrentRevision
  <2> QED BY <1>1, <2>1, <2>3, RetireStale
<1>5. ASSUME NEW code \in Codes, UpdateFunction(code) PROVE StaleInv'
  <2>1. pool' = pool /\ box' = box /\ pending' = [pending EXCEPT !.retire = @ + 1]
    BY <1>5 DEF UpdateFunction
  <2>2. pending'.retire > 0
    BY <1>1, <2>1 DEF EngineType
  <2>3. \A c \in pool : Excused(c)'
    BY <2>2 DEF Excused
  <2> QED BY <2>1, <2>3, StaleParts, StalePartsNext
<1>6. ASSUME NEW v \in Versions, PutAlias(v) PROVE StaleInv'
  <2> DEFINE f == [fn EXCEPT !.alias = v]
  <2>1. fn' = f /\ fn \in Function /\ UNCHANGED <<pool, box, pending>>
    BY <1>1, <1>6 DEF PutAlias, Commit
  <2>2. f.code = fn.code /\ f.instance = fn.instance /\ f.code \in Codes
    BY <2>1 DEF Function
  <2>3. Exists' /\ CurrentRevision' = CurrentRevision
    BY <2>1, <2>2, CodesAssumption DEF Exists, CurrentRevision, NoFunction
  <2> QED BY <1>3, <2>1, <2>3
<1>7. ASSUME NEW v \in Versions, DeleteVersion(v) PROVE StaleInv'
  <2> DEFINE f == [fn EXCEPT !.versions[v] = NoCode]
             M == {c \in pool : box[c].rev.version = v}
  <2>1. fn' = f /\ fn \in Function /\ pending' = pending /\ Retire(M)
    BY <1>1, <1>7 DEF DeleteVersion, Commit
  <2>2. f.code = fn.code /\ f.instance = fn.instance /\ f.code \in Codes
    BY <2>1 DEF Function
  <2>3. Exists' /\ CurrentRevision' = CurrentRevision
    BY <2>1, <2>2, CodesAssumption DEF Exists, CurrentRevision, NoFunction
  <2> HIDE DEF M
  <2>4. ASSUME NEW c \in pool \ M, ~box[c].retired, box[c].rev.version = Latest PROVE Excused(c)'
    <3>1. box'[c].rev = box[c].rev /\ Excused(c)
      BY <1>1, <2>1, <2>4, RetireBoxes, StaleParts DEF EngineType
    <3> QED BY <1>2, <2>1, <2>3, <3>1, ExcusedKept
  <2> QED BY <1>1, <2>1, <2>4, RetireStale
<1>8. CASE PublishVersion
  <2> DEFINE f == [fn EXCEPT !.next = @ + 1, !.versions[fn.next + 1] = fn.code]
  <2>1. fn' = f /\ fn \in Function /\ UNCHANGED <<pool, box, pending>>
    BY <1>1, <1>8 DEF PublishVersion, Commit
  <2>2. f.code = fn.code /\ f.instance = fn.instance /\ f.code \in Codes
    BY <2>1 DEF Function
  <2>3. Exists' /\ CurrentRevision' = CurrentRevision
    BY <2>1, <2>2, CodesAssumption DEF Exists, CurrentRevision, NoFunction
  <2> QED BY <1>3, <2>1, <2>3
<1>9. CASE DeleteAlias
  <2> DEFINE f == [fn EXCEPT !.alias = 0]
  <2>1. fn' = f /\ fn \in Function /\ UNCHANGED <<pool, box, pending>>
    BY <1>1, <1>9 DEF DeleteAlias, Commit
  <2>2. f.code = fn.code /\ f.instance = fn.instance /\ f.code \in Codes
    BY <2>1 DEF Function
  <2>3. Exists' /\ CurrentRevision' = CurrentRevision
    BY <2>1, <2>2, CodesAssumption DEF Exists, CurrentRevision, NoFunction
  <2> QED BY <1>3, <2>1, <2>3
<1>10. CASE DeleteFunction
  BY <1>1, <1>10, RetireStale DEF DeleteFunction
<1>11. ASSUME NEW value \in Reserved \cup {Unreserved}, SetConcurrency(value) PROVE StaleInv'
  <2> DEFINE f == [fn EXCEPT !.reserved = value]
  <2>1. /\ fn' = f /\ fn \in Function /\ UNCHANGED <<pool, box>>
        /\ pending' = [pending EXCEPT !.signal = @ + 1]
    BY <1>1, <1>11 DEF SetConcurrency, Commit
  <2>2. f.code = fn.code /\ f.instance = fn.instance /\ f.code \in Codes
    BY <2>1 DEF Function
  <2>3. Exists' /\ CurrentRevision' = CurrentRevision
    BY <2>1, <2>2, CodesAssumption DEF Exists, CurrentRevision, NoFunction
  <2>4. pending'.retire = pending.retire
    BY <1>1, <2>1 DEF EngineType
  <2> QED BY <1>3, <2>1, <2>3, <2>4
<1>12. CASE RetireAfterUpdate
  BY <1>1, <1>12, RetireLatestStale DEF RetireAfterUpdate, store
<1>13. CASE SignalAvailability
  <2>1. UNCHANGED <<fn, pool, box>> /\ pending'.retire = pending.retire
    BY <1>1, <1>13 DEF SignalAvailability, store, engine, EngineType
  <2> QED BY <1>3, <2>1 DEF Exists, CurrentRevision
<1>14. CASE EvictIdle \/ EvictAccount
  <2>1. UNCHANGED <<fn, box, pending>> /\ pool' \subseteq pool
    BY <1>14 DEF EvictIdle, EvictAccount, store, Untrack
  <2> QED BY <1>2, <2>1, StaleFrame DEF Exists, CurrentRevision
<1> QED BY <1>4, <1>5, <1>6, <1>7, <1>8, <1>9, <1>10, <1>11, <1>12, <1>13, <1>14
        DEF Background, Manage

LEMMA StaleNext == PoolInv /\ StaleInv /\ [Next]_vars => StaleInv'
<1> SUFFICES ASSUME PoolInv, StaleInv, [Next]_vars PROVE StaleInv'
  OBVIOUS
<1>1. CASE UNCHANGED vars
  BY <1>1, SameState
<1>2. CASE Restart
  BY <1>2, StalePartsNext DEF Restart
<1>3. ASSUME NEW c \in Containers, Removed(c), inv' = inv PROVE StaleInv'
  <2>1. pool' \subseteq pool /\ \A b \in pool' : box'[b] = box[b]
    BY <1>3 DEF Removed, PoolInv, EngineType
  <2> QED BY <1>3, <2>1, StaleFrame DEF Removed, Patient, At, Exists, CurrentRevision
<1> QED BY <1>1, <1>2, <1>3, Steps5, BackgroundStale, InvokerStale

(* What an update, a delete or a delete and re-create leaves idle in the    *)
(* pool runs the current code and configuration (RetireLatestRevision after *)
(* every commit, and again at the end of coldStart), however many cold      *)
(* starts, updates and deletes overlap.                                     *)
THEOREM NoStaleIdle == Spec => []NoStaleEnvironment
<1>1. Init => StaleInv
  BY DEF Init, StaleInv
<1>2. PoolInv /\ StaleInv => NoStaleEnvironment
  <2> SUFFICES ASSUME PoolInv, StaleInv, pending.retire = 0, NEW c \in pool, ~box[c].busy,
                      box[c].rev.version = Latest
               PROVE  Exists /\ box[c].rev = CurrentRevision
    BY DEF NoStaleEnvironment
  <2>1. ~box[c].retired /\ Excused(c)
    BY StaleParts
  <2>2. ~ \E i \in Invokers : Holds(i, c)
    BY DEF PoolInv, BusyHeld
  <2> QED BY <2>1, <2>2 DEF Excused
<1> QED BY <1>1, <1>2, StaleNext, PoolAlways, PTL DEF Spec

(***************************************************************************)
(* No release is missed                                                    *)
(***************************************************************************)
LEMMA Unclaimed ==
    ASSUME NEW j \in Invokers,
           inv'[j].ch # "open" \/ inv'[j].pc \notin {"count", "discard", "count2", "wait"}
    PROVE  Informed(inv[j])'
BY DEF Informed

(* Containers are taken but none becomes idle: what r knows still holds. *)
LEMMA InformedKept ==
    ASSUME PoolInv, NEW j \in Invokers, NEW r \in Invoker, inv'[j] = r, Informed(r), pool' = pool,
           \A c \in pool : /\ box'[c].rev = box[c].rev /\ (box[c].busy => box'[c].busy)
                           /\ ~box'[c].busy => box'[c] = box[c]
    PROVE  Informed(inv[j])'
<1>1. Busy \subseteq Busy' /\ Busy' \subseteq pool
  BY DEF Busy
<1>2. /\ Cardinality(Busy) \in Nat /\ Cardinality(Busy') \in Nat
      /\ Cardinality(Busy) <= Cardinality(Busy')
  <2>1. IsFiniteSet(Busy')
    BY <1>1, PoolFinite DEF PoolInv
  <2> QED BY <1>1, <2>1, FS_Subset, FS_CardinalityType
<1>3. r.limit \in Int
  BY DEF Invoker
<1>4. MayReuse(inv[j])' => MayReuse(r)
  <2>1. Reusable(inv[j].rev)' \subseteq Reusable(r.rev)
    BY DEF Reusable
  <2> QED BY <1>2, <1>3, <2>1 DEF MayReuse
<1>5. Stopped(r) => Stopped(inv[j])'
  BY <1>2, <1>3 DEF Stopped
<1>6. Others(inv[j])' \subseteq Others(r)
  BY DEF Others
<1>7. Count' = Count
  BY DEF Count
<1> QED BY <1>4, <1>5, <1>6, <1>7 DEF Informed

LEMMA InvokerWait ==
    ASSUME PoolInv, WaitInv, NEW i \in Invokers, InvokerStep(i), NEW j \in Invokers
    PROVE  Informed(inv[j])'
<1>1. EngineType /\ inv[j] \in Invoker /\ Informed(inv[j]) /\ pool \subseteq Containers
  BY DEF PoolInv, EngineType, WaitInv
<1>2. ASSUME j # i, NEW r, Alone(i, r), pool' = pool,
             \A c \in pool : /\ box'[c].rev = box[c].rev /\ (box[c].busy => box'[c].busy)
                             /\ ~box'[c].busy => box'[c] = box[c]
      PROVE  Informed(inv[j])'
  <2>1. inv'[j] = inv[j]
    BY <1>2 DEF Alone
  <2> QED BY <1>1, <1>2, <2>1, InformedKept
<1>3. ASSUME NEW r, Told(i, r) PROVE Informed(inv[j])'
  BY <1>3, Unclaimed DEF Told
<1>4. ASSUME NEW r, Alone(i, r), j = i,
             r.ch = "none" \/ r.pc \notin {"count", "discard", "count2", "wait"}
      PROVE  Informed(inv[j])'
  BY <1>4, Unclaimed DEF Alone
<1>5. CASE Local(i)
  <2>1. PICK r \in Invoker : Alone(i, r) /\ (Informed(inv[i]) => Informed(r))
    BY <1>5 DEF Local
  <2>2. pool' = pool /\ box' = box
    BY <1>5 DEF Local
  <2>3. CASE j = i
    <3>1. inv'[j] = r /\ Informed(r)
      BY <1>1, <2>1, <2>3 DEF Alone
    <3> QED BY <2>2, <3>1, InformedKept
  <2> QED BY <1>2, <2>1, <2>2, <2>3
<1>6. CASE Invoked(i)
  BY <1>2, <1>4, <1>6 DEF Invoked
<1>7. CASE Retained(i)
  BY <1>2, <1>4, <1>7 DEF Retained, GoesTo
<1>8. CASE Freed(i)
  BY <1>2, <1>4, <1>8 DEF Freed
<1>9. CASE Sheds(i) \/ Released(i)
  BY <1>3, <1>9 DEF Sheds, Released
<1>10. CASE Started(i)
  <2>1. \A c \in pool : c = inv[i].info => box[c].busy
    BY DEF PoolInv, BusyHeld, Holds
  <2>2. \A c \in pool : /\ box'[c].rev = box[c].rev /\ (box[c].busy => box'[c].busy)
                        /\ ~box'[c].busy => box'[c] = box[c]
    BY <1>1, <1>10, <2>1 DEF Started
  <2> QED BY <1>2, <1>4, <1>10, <2>2 DEF Started, Left
<1>11. CASE Reacquired(i)
  <2>1. pool' = pool /\ \A c \in pool : box'[c] = box[c]
    BY <1>1, <1>11 DEF Reacquired, Removed
  <2> QED BY <1>2, <1>4, <1>11, <2>1 DEF Reacquired
<1>12. ASSUME NEW c \in Containers, Taken(i, c) PROVE Informed(inv[j])'
  <2>1. \A b \in pool : /\ box'[b].rev = box[b].rev /\ (box[b].busy => box'[b].busy)
                        /\ ~box'[b].busy => box'[b] = box[b]
    BY <1>1, <1>12 DEF Taken
  <2> QED BY <1>2, <1>4, <1>12, <2>1 DEF Taken, Left
<1>13. ASSUME NEW c \in Containers, Born(i, c) PROVE Informed(inv[j])'
  BY <1>3, <1>13 DEF Born
<1> QED BY <1>5, <1>6, <1>7, <1>8, <1>9, <1>10, <1>11, <1>12, <1>13 DEF InvokerStep

LEMMA WaitNext == PoolInv /\ WaitInv /\ [Next]_vars => WaitInv'
<1> SUFFICES ASSUME PoolInv, WaitInv, [Next]_vars PROVE WaitInv'
  OBVIOUS
<1>1. CASE UNCHANGED vars
  BY <1>1, SameState
<1> SUFFICES ASSUME ~ UNCHANGED vars, NEW j \in Invokers PROVE Informed(inv[j])'
  BY <1>1 DEF WaitInv
<1>2. inv[j] \in Invoker /\ Informed(inv[j])
  BY DEF PoolInv, EngineType, WaitInv
<1>3. CASE Background
  <2>1. CASE \A i \in Invokers : inv'[i].ch # "open"
    BY <2>1, Unclaimed
  <2>2. CASE pool' = pool /\ box' = box /\ inv' = inv
    BY <1>2, <2>2, InformedKept
  <2> QED BY <1>3, <2>1, <2>2, BackgroundStep DEF Marks
<1>4. CASE Restart
  <2>1. inv'[j].ch # "open"
    BY <1>4, IdleRecord DEF Restart
  <2> QED BY <2>1, Unclaimed
<1>5. ASSUME NEW c \in Containers, Removed(c), inv' = inv PROVE Informed(inv[j])'
  <2>1. pool' = pool /\ \A b \in pool : box'[b] = box[b]
    BY <1>5 DEF Removed, PoolInv, EngineType
  <2> QED BY <1>2, <1>5, <2>1, InformedKept
<1> QED BY <1>3, <1>4, <1>5, Steps5, InvokerWait

(* availability.go promises that a release between the inspection and the   *)
(* wait is not missed: acquireContainer captures the channel before it      *)
(* looks, and everything that makes room closes it.  So an invocation that  *)
(* waits on an open channel has nothing to acquire, for any number of       *)
(* invocations and containers and every order of their steps.               *)
THEOREM ReleasesNotMissed == Spec => []NoMissedRelease
<1>1. Init => WaitInv
  <2> SUFFICES ASSUME Init, NEW i \in Invokers PROVE Informed(inv[i])
    BY DEF WaitInv
  <2>1. inv[i].ch = "none"
    BY IdleRecord DEF Init
  <2> QED BY <2>1 DEF Informed
<1>2. WaitInv => NoMissedRelease
  BY DEF WaitInv, Informed, NoMissedRelease, At, Throttled, Stopped, CanReuse, MayReuse,
         Discardable, Others
<1> QED BY <1>1, <1>2, WaitNext, PoolAlways, PTL DEF Spec

(***************************************************************************)
(* Leases are counted exactly, and keep what is used on disk               *)
(***************************************************************************)
Users(code) == {i \in Invokers : inv[i].pc # "done" /\ inv[i].rev.code = code}
Starters(code) == {i \in Invokers : inv[i].pc = "create" /\ inv[i].rev.code = code}
Owned(code) == {c \in Containers : box[c].lease /\ box[c].rev.code = code}

(* A step hands out as many leases of every deployment as it takes holders. *)
Balanced ==
    \A code \in Codes : LeaseHolders(code)' - LeaseHolders(code) = leases'[code] - leases[code]

LEMMA HolderSets ==
    ASSUME NEW code
    PROVE  /\ LeaseHolders(code) =
                Cardinality(Users(code)) + Cardinality(Starters(code)) + Cardinality(Owned(code))
           /\ LeaseHolders(code)' =
                Cardinality(Users(code)') + Cardinality(Starters(code)') + Cardinality(Owned(code)')
           /\ IsFiniteSet(Users(code)) /\ IsFiniteSet(Starters(code)) /\ IsFiniteSet(Owned(code))
           /\ Cardinality(Users(code)) \in Nat /\ Cardinality(Starters(code)) \in Nat
           /\ Cardinality(Owned(code)) \in Nat
<1>1. LeaseHolders(code) =
        Cardinality(Users(code)) + Cardinality(Starters(code)) + Cardinality(Owned(code))
  BY DEF LeaseHolders, Users, Starters, Owned, At
<1>2. LeaseHolders(code)' =
        Cardinality(Users(code)') + Cardinality(Starters(code)') + Cardinality(Owned(code)')
  BY DEF LeaseHolders, Users, Starters, Owned, At
<1>3. Users(code) \subseteq Invokers /\ Starters(code) \subseteq Invokers
      /\ Owned(code) \subseteq Containers
  BY DEF Users, Starters, Owned
<1>4. IsFiniteSet(Users(code)) /\ IsFiniteSet(Starters(code)) /\ IsFiniteSet(Owned(code))
  BY <1>3, FS_Subset, InvokersAssumption, ContainersAssumption
<1> QED BY <1>1, <1>2, <1>4, FS_CardinalityType

LEMMA OneMore ==
    ASSUME NEW S, IsFiniteSet(S), NEW x, x \notin S, NEW T, T = S \cup {x}
    PROVE  Cardinality(T) = Cardinality(S) + 1
BY FS_AddElement

LEMMA OneLess ==
    ASSUME NEW S, IsFiniteSet(S), NEW x \in S, NEW T, T = S \ {x}
    PROVE  Cardinality(T) = Cardinality(S) - 1
BY FS_RemoveElement

SameUsers == \A i \in Invokers : /\ (inv'[i].pc = "done") <=> (inv[i].pc = "done")
                                 /\ inv[i].pc # "done" => inv'[i].rev = inv[i].rev
SameStarters == \A i \in Invokers : (inv'[i].pc = "create") <=> (inv[i].pc = "create")
SameOwned == \A c \in Containers : (box'[c].lease <=> box[c].lease) /\ box'[c].rev = box[c].rev

LEMMA SameSets ==
    ASSUME NEW code
    PROVE  /\ SameUsers => Users(code)' = Users(code)
           /\ SameUsers /\ SameStarters => Starters(code)' = Starters(code)
           /\ SameOwned => Owned(code)' = Owned(code)
BY DEF SameUsers, SameStarters, SameOwned, Users, Starters, Owned

LEMMA LeaseFrame ==
    ASSUME StoreType, SameUsers, SameStarters, SameOwned, leases' = leases PROVE Balanced
<1> SUFFICES ASSUME NEW code \in Codes
             PROVE  LeaseHolders(code)' - LeaseHolders(code) = leases'[code] - leases[code]
  BY DEF Balanced
<1>1. leases[code] \in Int
  BY DEF StoreType
<1> QED BY <1>1, HolderSets, SameSets

LEMMA InvokedBalance == ASSUME PoolInv, NEW i \in Invokers, Invoked(i) PROVE Balanced
<1> SUFFICES ASSUME NEW code \in Codes
             PROVE  LeaseHolders(code)' - LeaseHolders(code) = leases'[code] - leases[code]
  BY DEF Balanced
<1>1. PICK r \in Invoker : /\ Alone(i, r) /\ r.pc = "top"
                           /\ leases' = [leases EXCEPT ![r.rev.code] = @ + 1]
  BY DEF Invoked
<1>2. leases \in [Codes -> Int] /\ inv[i].pc = "done" /\ box' = box
  BY DEF Invoked, PoolInv, StoreType
<1>3. Starters(code)' = Starters(code) /\ Owned(code)' = Owned(code)
  BY <1>1, <1>2 DEF Starters, Owned, Alone
<1>4. CASE r.rev.code = code
  <2>1. i \notin Users(code) /\ Users(code)' = Users(code) \cup {i}
    BY <1>1, <1>2, <1>4 DEF Users, Alone
  <2>2. Cardinality(Users(code)') = Cardinality(Users(code)) + 1
    BY <2>1, HolderSets, OneMore
  <2>3. leases'[code] = leases[code] + 1 /\ leases[code] \in Int
    BY <1>1, <1>2, <1>4
  <2> QED BY <1>3, <2>2, <2>3, HolderSets
<1>5. CASE r.rev.code # code
  <2>1. Users(code)' = Users(code)
    BY <1>1, <1>2, <1>5 DEF Users, Alone
  <2>2. leases'[code] = leases[code] /\ leases[code] \in Int
    BY <1>1, <1>2, <1>5
  <2> QED BY <1>3, <2>1, <2>2, HolderSets
<1> QED BY <1>4, <1>5

LEMMA RetainedBalance == ASSUME PoolInv, NEW i \in Invokers, Retained(i) PROVE Balanced
<1> SUFFICES ASSUME NEW code \in Codes
             PROVE  LeaseHolders(code)' - LeaseHolders(code) = leases'[code] - leases[code]
  BY DEF Balanced
<1>1. PICK r \in Invoker : Alone(i, r) /\ r.pc = "create" /\ r.rev = inv[i].rev
  BY DEF Retained, GoesTo
<1>2. /\ leases \in [Codes -> Int] /\ inv[i].pc = "retain" /\ box' = box
      /\ leases' = [leases EXCEPT ![inv[i].rev.code] = @ + 1]
  BY DEF Retained, PoolInv, StoreType
<1>3. Users(code)' = Users(code) /\ Owned(code)' = Owned(code)
  BY <1>1, <1>2 DEF Users, Owned, Alone
<1>4. CASE inv[i].rev.code = code
  <2>1. i \notin Starters(code) /\ Starters(code)' = Starters(code) \cup {i}
    BY <1>1, <1>2, <1>4 DEF Starters, Alone
  <2>2. Cardinality(Starters(code)') = Cardinality(Starters(code)) + 1
    BY <2>1, HolderSets, OneMore
  <2>3. leases'[code] = leases[code] + 1 /\ leases[code] \in Int
    BY <1>1, <1>2, <1>4
  <2> QED BY <1>3, <2>2, <2>3, HolderSets
<1>5. CASE inv[i].rev.code # code
  <2>1. Starters(code)' = Starters(code)
    BY <1>1, <1>2, <1>5 DEF Starters, Alone
  <2>2. leases'[code] = leases[code] /\ leases[code] \in Int
    BY <1>1, <1>2, <1>5
  <2> QED BY <1>3, <2>1, <2>2, HolderSets
<1> QED BY <1>4, <1>5

LEMMA FreedBalance == ASSUME PoolInv, NEW i \in Invokers, Freed(i) PROVE Balanced
<1> SUFFICES ASSUME NEW code \in Codes
             PROVE  LeaseHolders(code)' - LeaseHolders(code) = leases'[code] - leases[code]
  BY DEF Balanced
<1>1. PICK r \in Invoker :
         /\ Alone(i, r)
         /\ inv[i].pc = "create" => r.pc = "finish" /\ r.rev = inv[i].rev
         /\ inv[i].pc = "unlease" => r.pc = "done"
  BY DEF Freed
<1>2. /\ leases \in [Codes -> Int] /\ inv[i].pc \in {"create", "unlease"} /\ box' = box
      /\ leases' = [leases EXCEPT ![inv[i].rev.code] = @ - 1]
  BY DEF Freed, PoolInv, StoreType, ReleaseLease
<1>3. Owned(code)' = Owned(code)
  BY <1>2 DEF Owned
<1>4. CASE inv[i].rev.code = code
  <2>1. leases'[code] = leases[code] - 1 /\ leases[code] \in Int
    BY <1>2, <1>4
  <2>2. CASE inv[i].pc = "create"
    <3>1. Users(code)' = Users(code)
      BY <1>1, <2>2 DEF Users, Alone
    <3>2. i \in Starters(code) /\ Starters(code)' = Starters(code) \ {i}
      BY <1>1, <1>4, <2>2 DEF Starters, Alone
    <3>3. Cardinality(Starters(code)') = Cardinality(Starters(code)) - 1
      BY <3>2, HolderSets, OneLess
    <3> QED BY <1>3, <2>1, <3>1, <3>3, HolderSets
  <2>3. CASE inv[i].pc = "unlease"
    <3>1. Starters(code)' = Starters(code)
      BY <1>1, <2>3 DEF Starters, Alone
    <3>2. i \in Users(code) /\ Users(code)' = Users(code) \ {i}
      BY <1>1, <1>4, <2>3 DEF Users, Alone
    <3>3. Cardinality(Users(code)') = Cardinality(Users(code)) - 1
      BY <3>2, HolderSets, OneLess
    <3> QED BY <1>3, <2>1, <3>1, <3>3, HolderSets
  <2> QED BY <1>2, <2>2, <2>3
<1>5. CASE inv[i].rev.code # code
  <2>1. Starters(code)' = Starters(code) /\ Users(code)' = Users(code)
    BY <1>1, <1>2, <1>5 DEF Users, Starters, Alone
  <2>2. leases'[code] = leases[code] /\ leases[code] \in Int
    BY <1>2, <1>5
  <2> QED BY <1>3, <2>1, <2>2, HolderSets
<1> QED BY <1>4, <1>5

(* The container takes over the lease of its cold start. *)
LEMMA BornBalance ==
    ASSUME PoolInv, NEW i \in Invokers, NEW c \in Containers, Born(i, c) PROVE Balanced
<1> SUFFICES ASSUME NEW code \in Codes
             PROVE  LeaseHolders(code)' - LeaseHolders(code) = leases'[code] - leases[code]
  BY DEF Balanced
<1>1. PICK r \in Invoker : Told(i, r) /\ r.pc = "retire" /\ r.rev = inv[i].rev
  BY DEF Born
<1>2. /\ inv[i].pc = "create" /\ leases' = leases /\ leases[code] \in Int /\ ~box[c].lease
      /\ box'[c].rev = inv[i].rev /\ box'[c].lease
      /\ \A b \in Containers : b # c => box'[b] = box[b]
  BY DEF Born, PoolInv, StoreType, ContainerOK, store
<1>3. /\ inv'[i].pc = "retire" /\ inv'[i].rev = inv[i].rev
      /\ \A j \in Invokers : j # i => inv'[j].pc = inv[j].pc /\ inv'[j].rev = inv[j].rev
  BY <1>1 DEF Told, Alike
<1>4. Users(code)' = Users(code)
  BY <1>2, <1>3 DEF Users
<1>5. CASE inv[i].rev.code = code
  <2>1. i \in Starters(code) /\ Starters(code)' = Starters(code) \ {i}
    BY <1>2, <1>3, <1>5 DEF Starters
  <2>2. c \notin Owned(code) /\ Owned(code)' = Owned(code) \cup {c}
    BY <1>2, <1>5 DEF Owned
  <2>3. /\ Cardinality(Starters(code)') = Cardinality(Starters(code)) - 1
        /\ Cardinality(Owned(code)') = Cardinality(Owned(code)) + 1
    BY <2>1, <2>2, HolderSets, OneLess, OneMore
  <2> QED BY <1>2, <1>4, <2>3, HolderSets
<1>6. CASE inv[i].rev.code # code
  <2>1. Starters(code)' = Starters(code)
    BY <1>2, <1>3, <1>6 DEF Starters
  <2>2. Owned(code)' = Owned(code)
    BY <1>2, <1>6 DEF Owned
  <2> QED BY <1>2, <1>4, <2>1, <2>2, HolderSets
<1> QED BY <1>5, <1>6

LEMMA RemovedBalance ==
    ASSUME PoolInv, NEW c \in Containers, Removed(c), SameUsers, SameStarters PROVE Balanced
<1> SUFFICES ASSUME NEW code \in Codes
             PROVE  LeaseHolders(code)' - LeaseHolders(code) = leases'[code] - leases[code]
  BY DEF Balanced
<1>1. Users(code)' = Users(code) /\ Starters(code)' = Starters(code)
  BY SameSets
<1>2. leases \in [Codes -> Int] /\ ~box'[c].lease /\ \A b \in Containers : b # c => box'[b] = box[b]
  BY DEF PoolInv, StoreType, Removed
<1>3. CASE box[c].lease /\ box[c].rev.code = code
  <2>1. leases'[code] = leases[code] - 1 /\ leases[code] \in Int
    BY <1>2, <1>3 DEF Removed, ReleaseLease
  <2>2. c \in Owned(code) /\ Owned(code)' = Owned(code) \ {c}
    BY <1>2, <1>3 DEF Owned
  <2>3. Cardinality(Owned(code)') = Cardinality(Owned(code)) - 1
    BY <2>2, HolderSets, OneLess
  <2> QED BY <1>1, <2>1, <2>3, HolderSets
<1>4. CASE ~(box[c].lease /\ box[c].rev.code = code)
  <2>1. leases'[code] = leases[code] /\ leases[code] \in Int
    BY <1>2, <1>4 DEF Removed, ReleaseLease
  <2>2. Owned(code)' = Owned(code)
    BY <1>2, <1>4 DEF Owned
  <2> QED BY <1>1, <2>1, <2>2, HolderSets
<1> QED BY <1>3, <1>4

LEMMA InvokerBalance == ASSUME PoolInv, NEW i \in Invokers, InvokerStep(i) PROVE Balanced
<1>1. StoreType /\ EngineType
  BY DEF PoolInv
<1>2. ASSUME NEW r, Alone(i, r) \/ Told(i, r), r.rev = inv[i].rev,
             inv[i].pc \notin {"done", "create"}, r.pc \notin {"done", "create"}
      PROVE  SameUsers /\ SameStarters
  BY <1>2 DEF Alone, Told, Alike, SameUsers, SameStarters
<1>3. CASE Local(i)
  <2>1. SameUsers /\ SameStarters
    BY <1>2, <1>3 DEF Local
  <2> QED BY <1>1, <1>3, <2>1, LeaseFrame DEF Local, store, SameOwned
<1>4. CASE Sheds(i)
  <2>1. SameUsers /\ SameStarters
    BY <1>2, <1>4 DEF Sheds
  <2> QED BY <1>1, <1>4, <2>1, LeaseFrame DEF Sheds, store, SameOwned
<1>5. CASE Started(i)
  <2>1. SameUsers /\ SameStarters
    BY <1>2, <1>5 DEF Started, Left
  <2> QED BY <1>1, <1>5, <2>1, LeaseFrame DEF Started, store, SameOwned
<1>6. CASE Released(i)
  <2>1. SameUsers /\ SameStarters
    BY <1>2, <1>6 DEF Released
  <2> QED BY <1>1, <1>6, <2>1, LeaseFrame DEF Released, store, SameOwned
<1>7. CASE Reacquired(i)
  <2>1. PICK r \in Invoker : Alone(i, r) /\ r.pc \in {"top", "finish"} /\ r.rev = inv[i].rev
    BY <1>7 DEF Reacquired
  <2>2. SameUsers /\ SameStarters
    BY <1>2, <1>7, <2>1 DEF Reacquired
  <2>3. CASE Removed(inv[i].info)
    BY <1>7, <2>2, <2>3, RemovedBalance DEF Reacquired
  <2>4. CASE UNCHANGED <<leases, dirs, gc, fn, box, pool, gate, pending, instances, ops, calls>>
    BY <1>1, <2>2, <2>4, LeaseFrame DEF SameOwned
  <2> QED BY <1>7, <2>3, <2>4 DEF Reacquired
<1>8. ASSUME NEW c \in Containers, Taken(i, c) PROVE Balanced
  <2>1. PICK r \in Invoker : Alone(i, r) /\ Left(r, i, "run", c)
    BY <1>8 DEF Taken
  <2>2. inv[i].pc \notin {"done", "create"} /\ r.pc = "run" /\ r.rev = inv[i].rev
    BY <1>8, <2>1 DEF Taken, Left
  <2>3. SameUsers /\ SameStarters
    BY <1>2, <2>1, <2>2
  <2> QED BY <1>1, <1>8, <2>3, LeaseFrame DEF Taken, store, SameOwned
<1> QED BY <1>3, <1>4, <1>5, <1>6, <1>7, <1>8, InvokedBalance, RetainedBalance, FreedBalance,
           BornBalance DEF InvokerStep

(* What the record or a lease names is on disk; what nobody names is gone,  *)
(* or fnGC remembers it and a release to come will prune it.                *)
OnDisk ==
    /\ Leased(leases) \cup Referenced(fn) \subseteq dirs
    /\ \A code \in dirs : code \in Referenced(fn) \/ (gc /\ leases[code] > 0)

LEMMA LeaseTaken ==
    ASSUME StoreType, OnDisk, NEW code \in dirs, leases' = [leases EXCEPT ![code] = @ + 1],
           UNCHANGED <<fn, dirs, gc>>
    PROVE  OnDisk'
<1>1. leases \in [Codes -> Int] /\ code \in Codes /\ dirs \subseteq Codes
  BY DEF StoreType
<1>2. /\ \A d \in Codes : d # code => leases'[d] = leases[d]
      /\ leases'[code] = leases[code] + 1 /\ leases[code] \in Int
  BY <1>1
<1>3. Leased(leases)' \subseteq Leased(leases) \cup {code}
  BY <1>2 DEF Leased
<1>4. \A d \in dirs : leases[d] > 0 => leases'[d] > 0
  BY <1>1, <1>2
<1>5. Referenced(fn)' = Referenced(fn)
  BY DEF Referenced
<1> QED BY <1>3, <1>4, <1>5 DEF OnDisk

(* A prune for the record f keeps what f or a lease names. *)
LEMMA PruneOnDisk ==
    ASSUME NEW f, NEW d \in SUBSET Codes, Prune(f, d, leases'), fn' = f,
           Leased(leases') \cup Referenced(f) \subseteq d
    PROVE  OnDisk'
<1>1. /\ dirs' = d \cap (Referenced(f) \cup Leased(leases'))
      /\ gc' = (Leased(leases') \ Referenced(f) # {})
  BY DEF Prune
<1>2. Leased(leases)' = Leased(leases') /\ Referenced(fn)' = Referenced(f)
  BY DEF Leased, Referenced
<1>3. Leased(leases)' \cup Referenced(fn)' \subseteq dirs'
  BY <1>1, <1>2
<1>4. ASSUME NEW code \in dirs', code \notin Referenced(f) PROVE gc' /\ leases'[code] > 0
  <2>1. code \in Leased(leases') /\ code \notin Referenced(f)
    BY <1>1, <1>4
  <2> QED BY <1>1, <2>1 DEF Leased
<1> QED BY <1>2, <1>3, <1>4 DEF OnDisk

LEMMA LeaseGiven ==
    ASSUME StoreType, OnDisk, NEW code \in Codes, ReleaseLease(code), fn' = fn
    PROVE  OnDisk'
<1>1. leases \in [Codes -> Int] /\ dirs \subseteq Codes
      /\ leases' = [leases EXCEPT ![code] = @ - 1]
  BY DEF StoreType, ReleaseLease
<1>2. Leased(leases') \subseteq Leased(leases)
  BY <1>1 DEF Leased
<1>3. CASE gc
  <2>1. Prune(fn, dirs, leases')
    BY <1>3 DEF ReleaseLease
  <2> QED BY <1>1, <1>2, <2>1, PruneOnDisk DEF OnDisk
<1>4. CASE ~gc
  <2>1. dirs' = dirs /\ Referenced(fn)' = Referenced(fn) /\ Leased(leases)' = Leased(leases')
    BY <1>4 DEF ReleaseLease, Referenced, Leased
  <2> QED BY <1>2, <1>4, <2>1 DEF OnDisk
<1> QED BY <1>3, <1>4

LEMMA SameDisk == ASSUME OnDisk, UNCHANGED <<fn, dirs, leases, gc>> PROVE OnDisk'
BY DEF OnDisk, Leased, Referenced

LEMMA RecordedDisk == ASSUME StoreType, OnDisk, Recorded PROVE OnDisk'
<1>1. PICK f \in Function \cup {NoFunction}, d \in SUBSET Codes :
        Commit(f, d) /\ dirs \subseteq d /\ Referenced(f) \subseteq Referenced(fn) \cup d
  BY DEF Recorded
<1>2. fn' = f /\ Prune(f, d, leases) /\ leases' = leases
  BY <1>1 DEF Recorded, Commit
<1>3. Prune(f, d, leases') /\ Leased(leases') = Leased(leases)
  BY <1>2
<1>4. Leased(leases') \cup Referenced(f) \subseteq d
  BY <1>1, <1>3 DEF OnDisk
<1> QED BY <1>2, <1>3, <1>4, PruneOnDisk

LEMMA RemovedDisk == ASSUME PoolInv, OnDisk, NEW c \in Containers, Removed(c) PROVE OnDisk'
<1>1. CASE box[c].lease
  <2>1. box[c].rev.code \in Codes
    BY <1>1 DEF PoolInv, ContainerOK, Revisions
  <2> QED BY <1>1, <2>1, LeaseGiven DEF Removed, PoolInv
<1>2. CASE ~box[c].lease
  BY <1>2, SameDisk DEF Removed
<1> QED BY <1>1, <1>2

LEMMA InvokerDisk == ASSUME PoolInv, OnDisk, NEW i \in Invokers, InvokerStep(i) PROVE OnDisk'
<1>1. StoreType /\ EngineType
  BY DEF PoolInv
<1>3. CASE Local(i) \/ Sheds(i) \/ Started(i) \/ Released(i)
  BY <1>3, SameDisk DEF Local, Sheds, Started, Released, store
<1>4. CASE \E c \in Containers : Born(i, c) \/ Taken(i, c)
  BY <1>4, SameDisk DEF Born, Taken, store
<1>5. CASE Invoked(i)
  BY <1>1, <1>5, LeaseTaken DEF Invoked, OnDisk
<1>6. CASE Retained(i)
  BY <1>1, <1>6, LeaseTaken DEF Retained
<1>7. CASE Freed(i)
  <2>1. inv[i].rev.code \in Codes
    BY <1>7, InvokerAt DEF Freed, Revisions
  <2> QED BY <1>1, <1>7, <2>1, LeaseGiven DEF Freed
<1>8. CASE Reacquired(i)
  BY <1>8, RemovedDisk, SameDisk DEF Reacquired
<1> QED BY <1>3, <1>4, <1>5, <1>6, <1>7, <1>8 DEF InvokerStep

Counted == \A code \in Codes : leases[code] = LeaseHolders(code)

LEMMA LeaseNext == PoolInv /\ Counted /\ OnDisk /\ [Next]_vars => Counted' /\ OnDisk'
<1> SUFFICES ASSUME PoolInv, Counted, OnDisk, [Next]_vars PROVE Counted' /\ OnDisk'
  OBVIOUS
<1>1. StoreType /\ EngineType /\ leases \in [Codes -> Int]
  BY DEF PoolInv, StoreType
<1>2. ASSUME Balanced, PoolInv' PROVE Counted'
  <2> SUFFICES ASSUME NEW code \in Codes PROVE leases'[code] = LeaseHolders(code)'
    BY DEF Counted
  <2>1. leases[code] = LeaseHolders(code) /\ leases'[code] \in Int /\ leases[code] \in Int
    BY <1>1, <1>2 DEF Counted, PoolInv, StoreType
  <2>2. LeaseHolders(code)' \in Int
    <3>1. /\ Users(code)' \subseteq Invokers /\ Starters(code)' \subseteq Invokers
          /\ Owned(code)' \subseteq Containers
      BY DEF Users, Starters, Owned
    <3>2. /\ Cardinality(Users(code)') \in Nat /\ Cardinality(Starters(code)') \in Nat
          /\ Cardinality(Owned(code)') \in Nat
      BY <3>1, FS_Subset, FS_CardinalityType, InvokersAssumption, ContainersAssumption
    <3> QED BY <3>2, HolderSets
  <2> QED BY <1>2, <2>1, <2>2 DEF Balanced
<1>3. PoolInv'
  BY PoolNext
<1>4. ASSUME inv' = inv, box' = box PROVE SameUsers /\ SameStarters /\ SameOwned
  BY <1>4 DEF SameUsers, SameStarters, SameOwned
<1>5. CASE UNCHANGED vars
  BY <1>1, <1>2, <1>3, <1>4, <1>5, LeaseFrame, SameDisk DEF vars
<1>6. CASE Background
  <2>1. SameUsers /\ SameStarters /\ SameOwned
    BY <1>6, BackgroundStep DEF Marks, Alike, SameUsers, SameStarters, SameOwned
  <2>2. Recorded \/ UNCHANGED store
    BY <1>1, <1>6, ManageRecorded
    DEF Background, Manage, RetireAfterUpdate, SignalAvailability, EvictIdle, EvictAccount
  <2>3. leases' = leases /\ OnDisk'
    BY <1>1, <2>2, RecordedDisk, SameDisk DEF Recorded, store
  <2> QED BY <1>1, <1>2, <1>3, <2>1, <2>3, LeaseFrame
<1>7. CASE Restart
  <2>1. /\ fn' = fn /\ leases' = [c \in Codes |-> 0] /\ Prune(fn, dirs, leases')
    BY <1>7 DEF Restart
  <2>2. Leased(leases') = {}
    BY <2>1 DEF Leased
  <2>3. OnDisk'
    BY <1>1, <2>1, <2>2, PruneOnDisk DEF OnDisk, StoreType
  <2>4. ASSUME NEW code \in Codes PROVE LeaseHolders(code)' = 0
    <3>1. Fresh'
      BY <1>1, <1>7, RestartFresh
    <3>2. /\ \A c \in Containers : ~box'[c].lease
          /\ \A i \in Invokers : inv'[i].pc = "done"
      <4>1. (Fresh => \A c \in Containers : ~box[c].lease)'
            /\ (Fresh => \A i \in Invokers : inv[i].pc = "done")'
        BY IdleRecord DEF Fresh, NoContainer
      <4> QED BY <3>1, <4>1
    <3>3. Users(code)' = {} /\ Starters(code)' = {} /\ Owned(code)' = {}
      BY <3>2 DEF Users, Starters, Owned
    <3> QED BY <3>3, HolderSets, FS_EmptySet
  <2> QED BY <2>1, <2>3, <2>4 DEF Counted
<1>8. ASSUME NEW i \in Invokers, InvokerStep(i) PROVE Counted' /\ OnDisk'
  BY <1>2, <1>3, <1>8, InvokerBalance, InvokerDisk
<1>9. ASSUME NEW c \in Containers, Removed(c), inv' = inv PROVE Counted' /\ OnDisk'
  <2>1. SameUsers /\ SameStarters
    BY <1>9 DEF SameUsers, SameStarters
  <2> QED BY <1>2, <1>3, <1>9, <2>1, RemovedDisk, RemovedBalance
<1> QED BY <1>5, <1>6, <1>7, <1>8, <1>9, Steps5

LEMMA LeaseInit == Init => Counted /\ OnDisk
<1> SUFFICES ASSUME Init PROVE Counted /\ OnDisk
  OBVIOUS
<1>1. OnDisk
  BY DEF Init, OnDisk, Leased
<1>2. ASSUME NEW code \in Codes PROVE LeaseHolders(code) = 0
  <2>1. Users(code) = {} /\ Starters(code) = {} /\ Owned(code) = {}
    BY IdleRecord DEF Init, Users, Starters, Owned, NoContainer
  <2> QED BY <2>1, HolderSets, FS_EmptySet
<1> QED BY <1>1, <1>2 DEF Init, Counted

LEMMA LeaseAlways == Spec => [](Counted /\ OnDisk)
BY LeaseInit, LeaseNext, PoolAlways, PTL DEF Spec

(* fnLeases counts exactly the invocations, cold starts and containers that *)
(* use a deployment, so no directory in use is pruned and none that nobody  *)
(* uses is forgotten, on every path of acquireDeployment, retainDeployment, *)
(* their release closures and pruneDeploymentsLocked, restarts included.    *)
THEOREM DeploymentsAreKept == Spec => []DeploymentsKept
<1>1. Counted /\ OnDisk => DeploymentsKept
  BY DEF Counted, OnDisk, DeploymentsKept
<1> QED BY <1>1, LeaseAlways, PTL

(* Type correctness of the function, its deployments and the pool.  That a  *)
(* lease counter never goes below zero (the release closures run once) is   *)
(* part of it, and rests on the count of the holders.                       *)
THEOREM LambdaType == Spec => []TypeOK
<1>1. PoolInv /\ Counted => TypeOK
  <2> SUFFICES ASSUME PoolInv, Counted PROVE TypeOK
    OBVIOUS
  <2>1. \A code \in Codes : leases[code] \in Nat
    BY HolderSets DEF Counted
  <2>2. leases \in [Codes -> Nat]
    BY <2>1 DEF PoolInv, StoreType
  <2> QED BY <2>2 DEF PoolInv, StoreType, EngineType, TypeOK
<1> QED BY <1>1, LeaseAlways, PoolAlways, PTL
=============================================================================
