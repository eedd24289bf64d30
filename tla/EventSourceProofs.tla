------------------------- MODULE EventSourceProofs -------------------------
(***************************************************************************)
(* Proofs about EventSource, for every number of callers, loops, messages   *)
(* and records: what a poller settles and saves, whose tags it keeps, and    *)
(* what it may no longer save once it is stopped.                           *)
(***************************************************************************)
EXTENDS EventSource, TLAPS

(***************************************************************************)
(* The invariant.  TypeOK alone is not inductive: a poller that runs must   *)
(* have a mapping, a call must have the mapping its step needs, and a loop  *)
(* must hold the mutex it writes under.                                     *)
(***************************************************************************)
CallsShaped ==
  \A c \in Callers :
    /\ ~At(c, "idle") => call[c].id # 0
    /\ At(c, "start") => call[c].op \in {"create", "upsert"}
    /\ At(c, "save") => call[c].op \in {"create", "upsert", "update"}
    /\ At(c, "stop") \/ At(c, "stopping") => call[c].op \in {"upsert", "update", "delete"}
    /\ call[c].op \in {"create", "upsert", "update"} => call[c].m # None

(* What loop l may be doing with record r, if held is the loop that holds   *)
(* the mutex of its poller.                                                 *)
Shaped(held, l, r) ==
  /\ r.pc \in {"save", "selfstop", "selfwait"} => held = l
  /\ r.todo = <<"selfstop">> => r.pc = "save"
  /\ r.pc \in {"filter", "settle"} \/ r.todo = <<"settle">> => kind = "sqs"
  /\ r.pc = "advance" => kind # "sqs"

(* What must be among the successes when a loop holds record r. *)
Earned(done, r) ==
  /\ kind = "sqs" /\ r.pc \notin {"filter", "invoke"} =>
       \A x \in r.batch \ r.failed : x.m \in done
  /\ r.pc = "advance" => 1..r.next \subseteq done
  /\ kind # "sqs" /\ r.pc = "invoke" => 1..r.next \subseteq done \cup r.batch

PollersShaped ==
  \A g \in Gens :
    /\ gen[g].id # 0 => gen[g].copy # None
    /\ \A l \in Loops : loop[g][l].pc # "off" => gen[g].id # 0

LoopsShaped ==
  \A g \in Gens, l \in Loops : Shaped(pmu[g], l, loop[g][l]) /\ Earned(handled, loop[g][l])

(* No copy of a mapping is ahead of the records that succeeded. *)
CopiesEarned ==
  /\ \A c \in Callers : 1..call[c].m.seq \subseteq handled
  /\ \A g \in Gens : 1..gen[g].copy.seq \subseteq handled
  /\ \A i \in Ids : 1..store[i].seq \subseteq handled

QueueEarned ==
  \A m \in Msgs : /\ queue[m].at = "gone" => m \in handled
                  /\ queue[m].at = "dlq" => queue[m].count >= MaxReceiveCount

ESInv ==
  /\ TypeOK /\ CallsShaped /\ PollersShaped /\ LoopsShaped /\ CopiesEarned /\ QueueEarned

(***************************************************************************)
(* How a loop moves                                                        *)
(***************************************************************************)
Idling == [NoLoop EXCEPT !.pc = "idle"]
Polling == [NoLoop EXCEPT !.pc = "poll"]
Resting == {NoLoop, Idling, Polling}

(* Loop l of g goes on with record r; scaleUp may start others of g. *)
Turns(g, l, r) ==
  /\ loop' \in [Gens -> [Loops -> Loop]]
  /\ loop'[g][l] = r
  /\ \A h \in Gens, k \in Loops :
       h # g \/ k # l => loop'[h][k] = loop[h][k] \/ (h = g /\ loop'[h][k] = Polling)

LEMMA RestingType == NoLoop \in Loop /\ Idling \in Loop /\ Polling \in Loop
<1>1. 0 \in 0..MaxRecords
  BY EventSourceAssumption
<1>2. NoLoop \in Loop
  BY <1>1 DEF NoLoop, Loop, Steps
<1> QED BY <1>2 DEF Idling, Polling, Loop, Steps

LEMMA SetTurns ==
  ASSUME TypeOK, NEW g \in Gens, NEW l \in Loops, NEW r \in Loop, loop' = Set(g, l, r)
  PROVE  Turns(g, l, r)
<1>1. [loop[g] EXCEPT ![l] = r] \in [Loops -> Loop]
  BY DEF TypeOK
<1>2. loop' = [loop EXCEPT ![g] = [loop[g] EXCEPT ![l] = r]]
  BY DEF Set, TypeOK
<1> QED BY <1>1, <1>2 DEF TypeOK, Turns

LEMMA ReturnTurns ==
  ASSUME TypeOK, NEW g \in Gens, NEW l \in Loops, NEW more, loop' = PollReturns(g, l, more)
  PROVE  \E r \in Resting : Turns(g, l, r)
<1>1. ASSUME NEW r \in Resting, loop' = Set(g, l, r) PROVE Turns(g, l, r)
  BY <1>1, RestingType, SetTurns DEF Resting
<1>2. ASSUME loop' = [loop EXCEPT ![g] = ScaledUp(g, l)] PROVE Turns(g, l, Polling)
  <2>1. ScaledUp(g, l) \in [Loops -> Loop]
    BY RestingType DEF ScaledUp, Polling, TypeOK
  <2>2. loop'[g] = ScaledUp(g, l) /\ \A h \in Gens : h # g => loop'[h] = loop[h]
    BY <1>2 DEF TypeOK
  <2>3. loop' \in [Gens -> [Loops -> Loop]]
    BY <1>2, <2>1 DEF TypeOK
  <2> QED BY <2>2, <2>3 DEF Turns, ScaledUp, Polling
<1> QED BY <1>1, <1>2 DEF PollReturns, Resting, Idling, Polling

LEMMA OneLeft == ASSUME NEW x PROVE Head(<<x>>) = x /\ Tail(<<x>>) = <<>>
OBVIOUS

LEMMA ContinueTurns ==
  ASSUME TypeOK, NEW g \in Gens, NEW l \in Loops, NEW r \in Loop, loop' = Continue(g, l, r)
  PROVE  \/ \E q \in Resting : Turns(g, l, q)
         \/ /\ r.todo # <<>>
            /\ Turns(g, l, [r EXCEPT !.pc = Head(r.todo), !.todo = Tail(r.todo)])
<1>1. CASE r.todo = <<>>
  BY <1>1, ReturnTurns DEF Continue
<1>2. CASE r.todo # <<>>
  <2>1. [r EXCEPT !.pc = Head(r.todo), !.todo = Tail(r.todo)] \in Loop
    <3>1. r.todo \in {<<"result">>, <<"settle">>, <<"selfstop">>}
      BY <1>2 DEF Loop
    <3>2. Head(r.todo) \in Steps /\ Tail(r.todo) = <<>>
      BY <3>1, OneLeft DEF Steps
    <3> QED BY <3>2 DEF Loop
  <2> QED BY <1>2, <2>1, SetTurns DEF Continue
<1> QED BY <1>1, <1>2
(***************************************************************************)
(* What one step of loop l of g may do, in parts                           *)
(***************************************************************************)
LoopPart(g, l) ==
  \E r \in Loop :
    /\ Turns(g, l, r)
    /\ Shaped(pmu'[g], l, r) /\ Earned(handled', r)
    /\ r.pc = "save" => ~gen[g].stopped

GenPart(g) ==
  /\ gen' \in [Gens -> Poller]
  /\ \A h \in Gens : h # g => gen'[h] = gen[h]
  /\ gen'[g].id = gen[g].id /\ gen'[g].left = gen[g].left
  /\ gen[g].stopped => gen'[g].stopped
  /\ gen'[g].copy # None /\ 1..gen'[g].copy.seq \subseteq handled'

MutexPart(g, l) ==
  /\ pmu' \in [Gens -> Loops \cup {0}]
  /\ \A h \in Gens : h # g => pmu'[h] = pmu[h]
  /\ pmu'[g] = pmu[g] \/ pmu[g] \in {0, l}

StorePart ==
  /\ store' \in [Ids -> Mapping \cup {None}]
  /\ \A i \in Ids : 1..store'[i].seq \subseteq handled'

QueuePart ==
  /\ queue' \in [Msgs -> Item] /\ \A m \in Msgs : queue'[m].count <= queue'[m].rcpt
  /\ QueueEarned'
  /\ handled \subseteq handled' /\ handled' \subseteq Msgs \cup Records
  /\ head' \in 0..MaxRecords

Effect(g, l) ==
  /\ UNCHANGED callVars /\ loop[g][l].pc # "off"
  /\ LoopPart(g, l) /\ GenPart(g) /\ MutexPart(g, l) /\ StorePart /\ QueuePart

LEMMA NoneOutside == 0 \notin Ids /\ None \notin Mapping
<1>1. None.res = "none"
  BY DEF None
<1>2. \A m \in Mapping : m.res # "none"
  BY DEF Mapping
<1>3. 0 \notin Ids
  BY EventSourceAssumption DEF Ids
<1> QED BY <1>1, <1>2, <1>3

LEMMA NoneSeq == 1..None.seq = {}
BY DEF None

LEMMA EarnedGrows ==
  ASSUME NEW D, NEW E, D \subseteq E, NEW r, Earned(D, r) PROVE Earned(E, r)
BY DEF Earned

LEMMA RestEarned ==
  ASSUME NEW r \in Resting, NEW held, NEW D, NEW l \in Loops
  PROVE  Shaped(held, l, r) /\ Earned(D, r) /\ r.pc # "save"
<1>1. r.pc \in {"off", "idle", "poll"} /\ r.batch = {} /\ r.todo = <<>>
  <2>1. CASE r = NoLoop
    BY <2>1 DEF NoLoop
  <2>2. CASE r = Idling
    BY <2>2 DEF NoLoop, Idling
  <2>3. CASE r = Polling
    BY <2>3 DEF NoLoop, Polling
  <2> QED BY <2>1, <2>2, <2>3 DEF Resting
<1>2. <<>> # <<"selfstop">> /\ <<>> # <<"settle">>
  OBVIOUS
<1>3. Shaped(held, l, r) /\ r.pc # "save"
  BY <1>1, <1>2 DEF Shaped
<1> QED BY <1>1, <1>3 DEF Earned

LEMMA EffectInv ==
  ASSUME ESInv, NEW g \in Gens, NEW l \in Loops, Effect(g, l)
  PROVE  ESInv'
<1> USE DEF ESInv
<1>1. /\ kind' = kind /\ refused' = refused /\ pollers' = pollers /\ last' = last
      /\ call' = call /\ smu' = smu /\ made' = made /\ boots' = boots
  BY DEF Effect, callVars
<1>2. PICK r \in Loop : /\ Turns(g, l, r)
                        /\ Shaped(pmu'[g], l, r) /\ Earned(handled', r)
  BY DEF Effect, LoopPart
<1>3. GenPart(g) /\ MutexPart(g, l) /\ StorePart /\ QueuePart
  BY DEF Effect
<1>4. handled \subseteq handled'
  BY <1>3 DEF QueuePart
<1>5. Loop' = Loop /\ Call' = Call /\ Poller' = Poller /\ Item' = Item
  BY <1>1 DEF Loop, Call, Poller, Item
<1>6. TypeOK'
  BY <1>1, <1>2, <1>3, <1>5 DEF TypeOK, Turns, GenPart, MutexPart, StorePart, QueuePart
<1>7. CallsShaped'
  BY <1>1 DEF CallsShaped, At
<1>8. gen[g].id # 0
  BY DEF Effect, PollersShaped
<1>9. PollersShaped'
  <2>1. \A h \in Gens : gen'[h].id = gen[h].id /\ (gen[h].id # 0 => gen'[h].copy # None)
    BY <1>3 DEF GenPart, PollersShaped
  <2>2. ASSUME NEW h \in Gens, NEW k \in Loops, loop'[h][k].pc # "off" PROVE gen'[h].id # 0
    BY <1>2, <1>8, <2>1, <2>2 DEF Turns, PollersShaped
  <2> QED BY <2>1, <2>2 DEF PollersShaped
<1>10. ASSUME NEW h \in Gens, NEW k \in Loops
       PROVE  Shaped(pmu'[h], k, loop'[h][k]) /\ Earned(handled', loop'[h][k])
  <2>1. CASE h = g /\ k = l
    BY <1>2, <2>1 DEF Turns
  <2>2. CASE loop'[h][k] = Polling
    BY <2>2, RestEarned DEF Resting
  <2>3. CASE ~(h = g /\ k = l) /\ loop'[h][k] = loop[h][k]
    <3>1. Earned(handled', loop[h][k])
      BY <1>4, EarnedGrows DEF LoopsShaped
    <3>2. Shaped(pmu[h], k, loop[h][k]) /\ k # 0
      BY DEF LoopsShaped, Loops
    <3>3. Shaped(pmu'[h], k, loop[h][k])
      BY <1>3, <2>3, <3>2 DEF Shaped, MutexPart
    <3> QED BY <2>3, <3>1, <3>3
  <2> QED BY <1>2, <2>1, <2>2, <2>3 DEF Turns
<1>11. LoopsShaped'
  BY <1>1, <1>10 DEF LoopsShaped, Shaped, Earned
<1>12. CopiesEarned'
  <2>1. \A c \in Callers : 1..call'[c].m.seq \subseteq handled'
    BY <1>1, <1>4 DEF CopiesEarned
  <2>2. \A h \in Gens : 1..gen'[h].copy.seq \subseteq handled'
    BY <1>3, <1>4 DEF CopiesEarned, GenPart
  <2> QED BY <1>3, <2>1, <2>2 DEF CopiesEarned, StorePart
<1> QED BY <1>3, <1>6, <1>7, <1>9, <1>11, <1>12 DEF QueuePart
(***************************************************************************)
(* The parts of the steps                                                  *)
(***************************************************************************)
(* What a loop that runs can count on. *)
LEMMA Running ==
  ASSUME ESInv, NEW g \in Gens, NEW l \in Loops, loop[g][l].pc # "off"
  PROVE  /\ gen[g] \in Poller /\ gen[g].id \in Ids /\ gen[g].copy \in Mapping
         /\ gen[g].copy # None
         /\ gen[g].streak \in 0..NotFoundMax
         /\ loop[g][l] \in Loop
         /\ 1..gen[g].copy.seq \subseteq handled
<1>1. gen[g] \in Poller /\ loop[g][l] \in Loop
  BY DEF ESInv, TypeOK
<1>2. gen[g].id # 0 /\ gen[g].copy # None
  BY DEF ESInv, PollersShaped
<1> QED BY <1>1, <1>2 DEF Poller, ESInv, CopiesEarned

LEMMA SameGen ==
  ASSUME ESInv, NEW g \in Gens, NEW l \in Loops, loop[g][l].pc # "off",
         UNCHANGED gen, handled \subseteq handled'
  PROVE  GenPart(g)
BY Running DEF GenPart, ESInv, TypeOK

LEMMA NewStreak ==
  ASSUME ESInv, NEW g \in Gens, NEW l \in Loops, loop[g][l].pc # "off",
         NEW n \in 0..NotFoundMax, gen' = [gen EXCEPT ![g].streak = n], handled \subseteq handled'
  PROVE  GenPart(g)
<1>1. [gen[g] EXCEPT !.streak = n] \in Poller
  BY Running DEF Poller
<1>2. gen' = [gen EXCEPT ![g] = [gen[g] EXCEPT !.streak = n]]
  BY DEF ESInv, TypeOK
<1> QED BY <1>1, <1>2, Running DEF GenPart, ESInv, TypeOK, Poller

LEMMA SameMutex ==
  ASSUME ESInv, NEW g \in Gens, NEW l \in Loops, UNCHANGED pmu PROVE MutexPart(g, l)
BY DEF MutexPart, ESInv, TypeOK

LEMMA SetMutex ==
  ASSUME ESInv, NEW g \in Gens, NEW l \in Loops, NEW n \in Loops \cup {0},
         pmu' = [pmu EXCEPT ![g] = n], pmu[g] \in {0, l}
  PROVE  MutexPart(g, l) /\ pmu'[g] = n
BY DEF MutexPart, ESInv, TypeOK

LEMMA SameStore ==
  ASSUME ESInv, UNCHANGED store, handled \subseteq handled' PROVE StorePart
BY DEF StorePart, ESInv, TypeOK, CopiesEarned

LEMMA SameQueue ==
  ASSUME ESInv, UNCHANGED <<queue, head>>, handled \subseteq handled',
         handled' \subseteq Msgs \cup Records
  PROVE  QueuePart
BY DEF QueuePart, ESInv, TypeOK, QueueEarned

LEMMA SetPart ==
  ASSUME ESInv, NEW g \in Gens, NEW l \in Loops, NEW r \in Loop, loop' = Set(g, l, r),
         Shaped(pmu'[g], l, r), Earned(handled', r), r.pc = "save" => ~gen[g].stopped
  PROVE  LoopPart(g, l)
BY SetTurns DEF LoopPart, ESInv

LEMMA ReturnPart ==
  ASSUME ESInv, NEW g \in Gens, NEW l \in Loops, NEW more, loop' = PollReturns(g, l, more)
  PROVE  LoopPart(g, l)
<1>1. PICK r \in Resting : Turns(g, l, r)
  BY ReturnTurns DEF ESInv
<1> QED BY <1>1, RestEarned, RestingType DEF LoopPart, Resting

(* The rest of a poll: the messages that did not fail have been handled. *)
LEMMA ContinuePart ==
  ASSUME ESInv, NEW g \in Gens, NEW l \in Loops, NEW r \in Loop, loop' = Continue(g, l, r),
         r.todo = <<"selfstop">> => pmu'[g] = l,
         r.todo = <<"settle">> => kind = "sqs",
         kind = "sqs" => \A x \in r.batch \ r.failed : x.m \in handled'
  PROVE  LoopPart(g, l)
<1> DEFINE q == [r EXCEPT !.pc = Head(r.todo), !.todo = Tail(r.todo)]
<1>1. CASE \E n \in Resting : Turns(g, l, n)
  BY <1>1, RestEarned, RestingType DEF LoopPart, Resting
<1>2. CASE r.todo # <<>> /\ Turns(g, l, q)
  <2>1. r.todo \in {<<"result">>, <<"settle">>, <<"selfstop">>}
    BY <1>2 DEF Loop
  <2>2. /\ q \in Loop /\ q.batch = r.batch /\ q.failed = r.failed
        /\ q.pc = Head(r.todo) /\ q.todo = <<>>
        /\ q.pc \in {"result", "settle", "selfstop"}
        /\ q.pc = "selfstop" => r.todo = <<"selfstop">>
        /\ q.pc = "settle" => r.todo = <<"settle">>
    <3>1. /\ Head(r.todo) \in {"result", "settle", "selfstop"} /\ Tail(r.todo) = <<>>
          /\ Head(r.todo) = "selfstop" => r.todo = <<"selfstop">>
          /\ Head(r.todo) = "settle" => r.todo = <<"settle">>
      BY <2>1, OneLeft
    <3> QED BY <3>1 DEF Loop, Steps
  <2>3. <<>> # <<"selfstop">> /\ <<>> # <<"settle">>
    OBVIOUS
  <2> HIDE DEF q
  <2>4. Shaped(pmu'[g], l, q) /\ Earned(handled', q) /\ q.pc # "save"
    BY <2>2, <2>3 DEF Shaped, Earned
  <2> QED BY <1>2, <2>2, <2>4 DEF LoopPart
<1> QED BY <1>1, <1>2, ContinueTurns DEF ESInv

(* Write: under the mutex, and with a save only of a poller not stopped. *)
LEMMA WriteParts ==
  ASSUME ESInv, NEW g \in Gens, NEW l \in Loops, NEW m \in Mapping, NEW n \in 0..NotFoundMax,
         NEW r \in Loop, loop[g][l].pc # "off", pmu[g] = 0, m # None,
         1..m.seq \subseteq handled,
         r.todo = <<"settle">> => kind = "sqs",
         kind = "sqs" => \A x \in r.batch \ r.failed : x.m \in handled,
         Write(g, l, m, n, r), UNCHANGED <<callVars, store, queue, head, handled>>
  PROVE  Effect(g, l)
<1>1. UNCHANGED <<store, handled, queue, head>> /\ handled' \subseteq Msgs \cup Records
  BY DEF ESInv, TypeOK
<1>2. StorePart /\ QueuePart
  BY <1>1, SameStore, SameQueue
<1>3. GenPart(g)
  <2>1. [gen[g] EXCEPT !.copy = m, !.streak = n] \in Poller
    BY Running DEF Poller
  <2>2. gen' = [gen EXCEPT ![g] = [gen[g] EXCEPT !.copy = m, !.streak = n]]
    BY DEF Write, ESInv, TypeOK
  <2>3. /\ gen' \in [Gens -> Poller] /\ gen'[g] = [gen[g] EXCEPT !.copy = m, !.streak = n]
        /\ \A h \in Gens : h # g => gen'[h] = gen[h]
    BY <2>1, <2>2 DEF ESInv, TypeOK
  <2> QED BY <1>1, <2>3, Running DEF GenPart, Poller
<1>4. CASE gen[g].stopped
  <2>1. /\ loop' = Continue(g, l, r)
        /\ pmu' = [pmu EXCEPT ![g] = IF r.todo = <<"selfstop">> THEN l ELSE 0]
    BY <1>4 DEF Write
  <2>2. MutexPart(g, l) /\ (r.todo = <<"selfstop">> => pmu'[g] = l)
    BY <2>1, SetMutex
  <2>3. LoopPart(g, l)
    BY <1>1, <2>1, <2>2, ContinuePart
  <2> QED BY <1>2, <1>3, <2>2, <2>3 DEF Effect
<1>5. CASE ~gen[g].stopped
  <2> DEFINE q == [r EXCEPT !.pc = "save"]
  <2>1. loop' = Set(g, l, q) /\ pmu' = [pmu EXCEPT ![g] = l]
    BY <1>5 DEF Write
  <2>2. MutexPart(g, l) /\ pmu'[g] = l
    BY <2>1, SetMutex
  <2>3. q \in Loop /\ q.pc = "save" /\ q.todo = r.todo /\ q.batch = r.batch /\ q.failed = r.failed
    BY DEF Loop, Steps
  <2> HIDE DEF q
  <2>4. Shaped(pmu'[g], l, q) /\ Earned(handled', q)
    BY <1>1, <2>2, <2>3 DEF Shaped, Earned
  <2>5. LoopPart(g, l)
    BY <1>5, <2>1, <2>3, <2>4, SetPart
  <2> QED BY <1>2, <1>3, <2>2, <2>5 DEF Effect
<1> QED BY <1>4, <1>5
(***************************************************************************)
(* The steps of a poll, one by one                                         *)
(***************************************************************************)
(* A step that only moves its own loop. *)
LEMMA OnlyLoop ==
  ASSUME ESInv, NEW g \in Gens, NEW l \in Loops, loop[g][l].pc # "off", LoopPart(g, l),
         UNCHANGED <<callVars, store, gen, pmu, queue, head, handled>>
  PROVE  Effect(g, l)
<1>1. handled' \subseteq Msgs \cup Records
  BY DEF ESInv, TypeOK
<1> QED BY <1>1, SameGen, SameMutex, SameStore, SameQueue DEF Effect

(* A fresh record in state pc. *)
LEMMA FreshRecord ==
  ASSUME NEW pc \in {"idle", "poll", "result", "disable", "selfwait"}, NEW r,
         \/ r = [NoLoop EXCEPT !.pc = pc]
         \/ r = [NoLoop EXCEPT !.pc = pc, !.res = "ERROR"]
  PROVE  /\ r \in Loop /\ r.pc = pc /\ \A D : Earned(D, r)
         /\ \A held, l : (pc = "selfwait" => held = l) => Shaped(held, l, r)
<1>1. r.pc = pc /\ r.batch = {} /\ r.todo = <<>>
  BY DEF NoLoop
<1>2. r \in Loop
  BY RestingType DEF Loop, Steps
<1>3. <<>> # <<"selfstop">> /\ <<>> # <<"settle">>
  OBVIOUS
<1>4. \A D : Earned(D, r)
  BY <1>1 DEF Earned
<1> QED BY <1>1, <1>2, <1>3, <1>4 DEF Shaped

LEMMA TickEffect ==
  ASSUME ESInv, NEW g \in Gens, NEW l \in Loops, Tick(g, l) PROVE Effect(g, l)
<1> DEFINE r == IF gen[g].stopped THEN NoLoop ELSE Polling
<1>1. r \in Resting /\ r \in Loop
  BY RestingType DEF Resting
<1>2. loop' = Set(g, l, r) /\ loop[g][l].pc # "off"
  BY DEF Tick, In, Polling
<1>3. LoopPart(g, l)
  BY <1>1, <1>2, RestEarned, SetPart
<1> QED BY <1>2, <1>3, OnlyLoop DEF Tick

LEMMA NothingEffect ==
  ASSUME ESInv, NEW g \in Gens, NEW l \in Loops, ReceiveNothing(g, l) PROVE Effect(g, l)
<1>1. loop[g][l].pc # "off" /\ handled' = handled /\ handled' \subseteq Msgs \cup Records
  BY DEF ReceiveNothing, In, ESInv, TypeOK
<1>2. 0 \in 0..NotFoundMax
  BY EventSourceAssumption
<1>3. GenPart(g)
  BY <1>1, <1>2, NewStreak DEF ReceiveNothing
<1>4. LoopPart(g, l)
  BY ReturnPart DEF ReceiveNothing
<1> QED BY <1>1, <1>3, <1>4, SameMutex, SameStore, SameQueue DEF Effect, ReceiveNothing

(* A receive error, a source or a function that is gone. *)
LEMMA ErrorEffect ==
  ASSUME ESInv, NEW g \in Gens, NEW l \in Loops,
         ReceiveError(g, l) \/ SourceGone(g, l) \/ FunctionGone(g, l)
  PROVE  Effect(g, l)
<1>1. loop[g][l].pc # "off" /\ UNCHANGED <<callVars, store, gen, pmu, queue, head, handled>>
  BY DEF ReceiveError, SourceGone, FunctionGone, In
<1>2. PICK pc \in {"result", "disable"} :
        \/ loop' = Set(g, l, [NoLoop EXCEPT !.pc = pc])
        \/ loop' = Set(g, l, [NoLoop EXCEPT !.pc = pc, !.res = "ERROR"])
  BY DEF ReceiveError, SourceGone, FunctionGone
<1>3. LoopPart(g, l)
  BY <1>2, FreshRecord, SetPart
<1> QED BY <1>1, <1>3, OnlyLoop

LEMMA ReceiveEffect ==
  ASSUME ESInv, NEW g \in Gens, NEW l \in Loops, ReceiveMessages(g, l) PROVE Effect(g, l)
<1>1. /\ loop[g][l].pc # "off" /\ handled' = handled /\ handled' \subseteq Msgs \cup Records
      /\ kind = "sqs"
  BY DEF ReceiveMessages, In, ESInv, TypeOK
<1>2. 0 \in 0..NotFoundMax
  BY EventSourceAssumption
<1>3. GenPart(g)
  BY <1>1, <1>2, NewStreak DEF ReceiveMessages
<1>4. PICK ms \in SUBSET Receivable :
        /\ queue' = [m \in Msgs |->
             IF m \in ms THEN [queue[m] EXCEPT !.hidden = TRUE, !.count = @ + 1, !.rcpt = @ + 1]
             ELSE queue[m]]
        /\ loop' = Set(g, l, [NoLoop EXCEPT
             !.pc = IF ms \cap refused = {} THEN "invoke" ELSE "filter",
             !.batch = {[m |-> m, rcpt |-> queue'[m].rcpt] : m \in ms},
             !.more = Cardinality(ms) = BatchSize])
  BY DEF ReceiveMessages
<1>5. \A m \in ms : /\ m \in Msgs /\ queue[m].at = "queue" /\ queue[m].rcpt < MaxReceives
                    /\ queue[m] \in Item /\ queue[m].count <= queue[m].rcpt
  BY DEF Receivable, ESInv, TypeOK
<1>6. \A m \in ms : /\ [queue[m] EXCEPT !.hidden = TRUE, !.count = @ + 1, !.rcpt = @ + 1] \in Item
                    /\ queue[m].count + 1 <= queue[m].rcpt + 1
  <2> TAKE m \in ms
  <2>1. /\ queue[m].count + 1 \in 0..MaxReceives /\ queue[m].rcpt + 1 \in 0..MaxReceives
        /\ queue[m].count + 1 <= queue[m].rcpt + 1
    BY <1>5, EventSourceAssumption DEF Item
  <2> QED BY <1>5, <2>1 DEF Item
<1>7. queue' \in [Msgs -> Item] /\ \A m \in Msgs : queue'[m].count <= queue'[m].rcpt
  BY <1>4, <1>5, <1>6 DEF ESInv, TypeOK, Item
<1>8. QueueEarned'
  <2>1. \A m \in Msgs : queue'[m] = queue[m] \/ queue'[m].at = "queue"
    BY <1>4, <1>5 DEF Item
  <2> QED BY <1>1, <2>1 DEF ESInv, QueueEarned
<1>9. QueuePart
  BY <1>1, <1>7, <1>8 DEF QueuePart, ReceiveMessages, ESInv, TypeOK
<1>10. LoopPart(g, l)
  <2> DEFINE b == {[m |-> m, rcpt |-> queue'[m].rcpt] : m \in ms}
             pc == IF ms \cap refused = {} THEN "invoke" ELSE "filter"
             more == Cardinality(ms) = BatchSize
             r == [NoLoop EXCEPT !.pc = pc, !.batch = b, !.more = more]
  <2>1. b \in SUBSET Receipt
    BY <1>5, <1>7 DEF Receipt, Item
  <2>2. pc \in {"invoke", "filter"} /\ more \in BOOLEAN
    OBVIOUS
  <2>3. loop' = Set(g, l, r)
    BY <1>4
  <2> HIDE DEF b, pc, more
  <2>4. r \in Loop /\ r.pc = pc /\ r.todo = <<>> /\ r.batch = b
    <3>1. NoLoop \in Loop
      BY RestingType
    <3>2. r \in Loop
      BY <1>1, <2>1, <2>2, <3>1 DEF Loop, Steps
    <3> QED BY <3>2 DEF NoLoop
  <2>5. <<>> # <<"selfstop">> /\ <<>> # <<"settle">>
    OBVIOUS
  <2> HIDE DEF r
  <2>6. Shaped(pmu'[g], l, r) /\ Earned(handled', r) /\ r.pc # "save"
    BY <1>1, <2>2, <2>4, <2>5 DEF Shaped, Earned
  <2> QED BY <2>3, <2>4, <2>6, SetPart
<1> QED BY <1>1, <1>3, <1>9, <1>10, SameMutex, SameStore DEF Effect, ReceiveMessages

LEMMA FilterEffect ==
  ASSUME ESInv, NEW g \in Gens, NEW l \in Loops, Filter(g, l) PROVE Effect(g, l)
<1> DEFINE b == loop[g][l].batch
           miss == {x \in b : x.m \in refused}
<1>1. /\ loop[g][l].pc = "filter" /\ handled' = handled /\ handled' \subseteq Msgs \cup Records
      /\ UNCHANGED <<store, gen, pmu, head>> /\ loop[g][l] \in Loop
  BY DEF Filter, In, ESInv, TypeOK
<1>2. queue' = [m \in Msgs |->
        IF queue[m].at = "queue" /\ [m |-> m, rcpt |-> queue[m].rcpt] \in miss
        THEN [queue[m] EXCEPT !.hidden = FALSE, !.count = IF @ > 0 THEN @ - 1 ELSE 0]
        ELSE queue[m]]
  BY DEF Filter
<1> HIDE DEF miss
<1>3. \A m \in Msgs : queue[m] \in Item /\ queue[m].count <= queue[m].rcpt
  BY DEF ESInv, TypeOK
<1>4. \A m \in Msgs :
        LET i == [queue[m] EXCEPT !.hidden = FALSE, !.count = IF @ > 0 THEN @ - 1 ELSE 0]
        IN  i \in Item /\ i.count <= i.rcpt /\ i.at = queue[m].at
  <2> TAKE m \in Msgs
  <2> DEFINE n == IF queue[m].count > 0 THEN queue[m].count - 1 ELSE 0
  <2>1. n \in 0..MaxReceives /\ n <= queue[m].rcpt
    BY <1>3, EventSourceAssumption DEF Item
  <2> HIDE DEF n
  <2>2. LET i == [queue[m] EXCEPT !.hidden = FALSE, !.count = n]
        IN  i \in Item /\ i.count <= i.rcpt /\ i.at = queue[m].at
    BY <1>3, <2>1 DEF Item
  <2> QED BY <2>2 DEF n
<1>5. queue' \in [Msgs -> Item] /\ \A m \in Msgs : queue'[m].count <= queue'[m].rcpt
  BY <1>2, <1>3, <1>4
<1>6. \A m \in Msgs : queue'[m] = queue[m] \/ queue'[m].at = "queue"
  BY <1>2, <1>3, <1>4
<1>7. QueuePart
  BY <1>1, <1>5, <1>6 DEF QueuePart, ESInv, QueueEarned, TypeOK
<1>8. LoopPart(g, l)
  <2>1. CASE miss = b
    BY <2>1, ReturnPart DEF Filter, miss
  <2>2. CASE miss # b
    <3> DEFINE r == [loop[g][l] EXCEPT !.pc = "invoke", !.batch = b \ miss]
    <3>1. loop' = Set(g, l, r)
      BY <2>2 DEF Filter, miss
    <3>2. Shaped(pmu[g], l, loop[g][l]) /\ kind = "sqs"
      BY <1>1 DEF ESInv, LoopsShaped, Shaped
    <3>3. r \in Loop /\ r.pc = "invoke" /\ r.todo = loop[g][l].todo
      BY <1>1 DEF Loop, Steps
    <3> HIDE DEF r
    <3>4. Shaped(pmu'[g], l, r) /\ Earned(handled', r)
      BY <1>1, <3>2, <3>3 DEF Shaped, Earned
    <3> QED BY <3>1, <3>3, <3>4, SetPart
  <2> QED BY <2>1, <2>2
<1> QED BY <1>1, <1>7, <1>8, SameGen, SameMutex, SameStore DEF Effect, Filter
LEMMA ReadEffect ==
  ASSUME ESInv, NEW g \in Gens, NEW l \in Loops, ReadStream(g, l) PROVE Effect(g, l)
<1> DEFINE seq == gen[g].copy.seq
           next == IF head < seq + BatchSize THEN head ELSE seq + BatchSize
           more == next = seq + BatchSize
           r == [NoLoop EXCEPT !.pc = "invoke", !.batch = (seq + 1)..next,
                               !.next = next, !.more = more]
<1>1. /\ loop[g][l].pc # "off" /\ handled' = handled /\ handled' \subseteq Msgs \cup Records
      /\ kind # "sqs" /\ UNCHANGED <<callVars, store, pmu, queue, head>>
      /\ gen' = [gen EXCEPT ![g].streak = 0] /\ loop' = Set(g, l, r)
  BY DEF ReadStream, In, ESInv, TypeOK
<1>2. 0 \in 0..NotFoundMax
  BY EventSourceAssumption
<1>3. GenPart(g)
  BY <1>1, <1>2, NewStreak
<1>4. seq \in 0..MaxRecords /\ head \in 0..MaxRecords /\ 1..seq \subseteq handled
  BY <1>1, Running DEF Mapping, ESInv, TypeOK
<1>5. /\ next \in 0..MaxRecords /\ (seq + 1)..next \subseteq Records
      /\ 1..next \subseteq handled \cup ((seq + 1)..next)
  <2>1. next \in 0..MaxRecords /\ seq \in Nat
    BY <1>4, EventSourceAssumption
  <2> HIDE DEF next, seq
  <2>2. (seq + 1)..next \subseteq Records
    BY <2>1, EventSourceAssumption DEF Records
  <2>3. \A i \in 1..next : i \in 1..seq \/ i \in (seq + 1)..next
    BY <2>1
  <2> QED BY <1>4, <2>1, <2>2, <2>3
<1>6. more \in BOOLEAN
  OBVIOUS
<1> HIDE DEF next, seq, more
<1>7. /\ r \in Loop /\ r.pc = "invoke" /\ r.todo = <<>> /\ r.next = next
      /\ r.batch = (seq + 1)..next
  <2>1. r \in Loop
    BY <1>1, <1>5, <1>6, RestingType DEF Loop, Steps
  <2> QED BY <2>1 DEF NoLoop
<1>8. <<>> # <<"selfstop">> /\ <<>> # <<"settle">>
  OBVIOUS
<1> HIDE DEF r
<1>9. Shaped(pmu'[g], l, r) /\ Earned(handled', r)
  BY <1>1, <1>5, <1>7, <1>8 DEF Shaped, Earned
<1>10. LoopPart(g, l)
  BY <1>1, <1>7, <1>9, SetPart
<1> QED BY <1>1, <1>3, <1>10, SameMutex, SameStore, SameQueue DEF Effect

LEMMA InvokeOKEffect ==
  ASSUME ESInv, NEW g \in Gens, NEW l \in Loops, InvokeOK(g, l) PROVE Effect(g, l)
<1>1. /\ loop[g][l].pc = "invoke" /\ loop[g][l] \in Loop
      /\ UNCHANGED <<callVars, store, pmu, queue, head>>
      /\ kind \in {"sqs", "dynamodb-stream"}
  BY EventSourceAssumption DEF InvokeOK, In, ESInv, TypeOK
<1>2. PICK failed \in SUBSET loop[g][l].batch :
        /\ kind = "dynamodb-stream" => failed = {}
        /\ handled' = handled \cup (IF kind = "sqs" THEN {x.m : x \in loop[g][l].batch \ failed}
                                    ELSE loop[g][l].batch)
        /\ loop' = Set(g, l, [loop[g][l] EXCEPT
             !.pc = IF kind = "sqs" THEN "settle" ELSE "advance",
             !.failed = failed, !.todo = <<"result">>,
             !.res = IF failed = {} THEN "OK" ELSE "ERROR",
             !.more = @ /\ failed = {}])
  BY DEF InvokeOK
<1>3. handled \subseteq handled' /\ handled' \subseteq Msgs \cup Records
  <2>1. handled \subseteq Msgs \cup Records
    BY DEF ESInv, TypeOK
  <2>2. CASE kind = "sqs"
    <3>1. \A x \in loop[g][l].batch : x.m \in Msgs
      BY <1>1, <2>2 DEF Loop, Receipt
    <3> QED BY <1>2, <2>1, <2>2, <3>1
  <2>3. CASE kind # "sqs"
    <3>1. loop[g][l].batch \subseteq Records
      BY <1>1, <2>3 DEF Loop
    <3> QED BY <1>2, <2>1, <2>3, <3>1
  <2> QED BY <2>2, <2>3
<1>4. GenPart(g)
  <2>1. 0 \in 0..NotFoundMax
    BY EventSourceAssumption
  <2>2. gen' = gen \/ gen' = [gen EXCEPT ![g].streak = 0]
    BY DEF InvokeOK
  <2> QED BY <1>1, <1>3, <2>1, <2>2, SameGen, NewStreak
<1>5. LoopPart(g, l)
  <2> DEFINE pc == IF kind = "sqs" THEN "settle" ELSE "advance"
             res == IF failed = {} THEN "OK" ELSE "ERROR"
             more == loop[g][l].more /\ failed = {}
             r == [loop[g][l] EXCEPT !.pc = pc, !.failed = failed, !.todo = <<"result">>,
                                     !.res = res, !.more = more]
  <2>1. /\ pc \in Steps /\ res \in {"OK", "ERROR"}
        /\ pc = "settle" => kind = "sqs"
        /\ pc = "advance" => kind # "sqs"
    BY DEF Steps
  <2>2. more \in BOOLEAN
    OBVIOUS
  <2>3. pc \in {"settle", "advance"} /\ loop' = Set(g, l, r)
    BY <1>2
  <2> HIDE DEF pc, res, more
  <2>4. /\ r \in Loop /\ r.pc = pc /\ r.todo = <<"result">> /\ r.failed = failed
        /\ r.batch = loop[g][l].batch /\ r.next = loop[g][l].next
    BY <1>1, <2>1, <2>2 DEF Loop
  <2>5. <<"result">> # <<"selfstop">> /\ <<"result">> # <<"settle">>
    OBVIOUS
  <2> HIDE DEF r
  <2>6. Shaped(pmu'[g], l, r)
    BY <2>1, <2>3, <2>4, <2>5 DEF Shaped
  <2>7. Earned(handled', r)
    <3>1. Earned(handled, loop[g][l])
      BY DEF ESInv, LoopsShaped
    <3>2. CASE kind = "sqs"
      BY <1>2, <2>1, <2>4, <3>2 DEF Earned
    <3>3. CASE kind # "sqs"
      BY <1>1, <1>2, <2>4, <3>1, <3>3 DEF Earned
    <3> QED BY <3>2, <3>3
  <2> QED BY <2>3, <2>4, <2>6, <2>7, SetPart
<1> QED BY <1>1, <1>3, <1>4, <1>5, SameMutex, SameStore, SameQueue DEF Effect

LEMMA InvokeErrorEffect ==
  ASSUME ESInv, NEW g \in Gens, NEW l \in Loops, InvokeError(g, l) PROVE Effect(g, l)
<1> DEFINE todo == IF kind = "sqs" THEN <<"settle">> ELSE <<>>
           r == [loop[g][l] EXCEPT !.pc = "result", !.failed = loop[g][l].batch, !.res = "ERROR",
                                   !.todo = todo, !.more = FALSE]
<1>1. /\ loop[g][l].pc = "invoke" /\ loop[g][l] \in Loop
      /\ UNCHANGED <<callVars, store, gen, pmu, queue, head, handled>>
      /\ loop' = Set(g, l, r)
  BY DEF InvokeError, In, ESInv, TypeOK
<1>2. /\ todo \in {<<>>, <<"settle">>} /\ todo # <<"selfstop">>
      /\ todo = <<"settle">> => kind = "sqs"
  <2>1. <<>> # <<"selfstop">> /\ <<>> # <<"settle">> /\ <<"settle">> # <<"selfstop">>
    OBVIOUS
  <2> QED BY <2>1
<1> HIDE DEF todo
<1>3. /\ r \in Loop /\ r.pc = "result" /\ r.todo = todo /\ r.failed = r.batch
  BY <1>1, <1>2 DEF Loop, Steps
<1> HIDE DEF r
<1>4. Shaped(pmu'[g], l, r) /\ Earned(handled', r)
  BY <1>2, <1>3 DEF Shaped, Earned
<1> QED BY <1>1, <1>3, <1>4, SetPart, OnlyLoop
(* Settling keeps the queue's account: a receipt that is stale changes      *)
(* nothing, one that is current removes a message that was handled.         *)
LEMMA SettledItem ==
  ASSUME ESInv, NEW x \in Receipt, NEW failed, x \notin failed => x.m \in handled
  PROVE  LET i == Settled(x, failed) IN
         /\ i \in Item /\ i.count <= i.rcpt
         /\ i.at = "gone" => x.m \in handled
         /\ i.at = "dlq" => i.count >= MaxReceiveCount
<1>1. x.m \in Msgs
  BY DEF Receipt
<1>2. /\ queue[x.m] \in Item /\ queue[x.m].count <= queue[x.m].rcpt
      /\ queue[x.m].at = "gone" => x.m \in handled
      /\ queue[x.m].at = "dlq" => queue[x.m].count >= MaxReceiveCount
  BY <1>1 DEF ESInv, TypeOK, QueueEarned
<1>3. CASE Settled(x, failed) = queue[x.m]
  BY <1>2, <1>3
<1>4. CASE x \notin failed /\ Settled(x, failed) = [queue[x.m] EXCEPT !.at = "gone"]
  BY <1>2, <1>4 DEF Item
<1>5. CASE /\ queue[x.m].count >= MaxReceiveCount
           /\ Settled(x, failed) = [queue[x.m] EXCEPT !.at = "dlq"]
  BY <1>2, <1>5 DEF Item
<1> QED BY <1>3, <1>4, <1>5 DEF Settled

LEMMA SettleEffect ==
  ASSUME ESInv, NEW g \in Gens, NEW l \in Loops, Settle(g, l) PROVE Effect(g, l)
<1> DEFINE r == loop[g][l]
<1>1. /\ r.pc = "settle" /\ r \in Loop /\ handled' \subseteq Msgs \cup Records
      /\ UNCHANGED <<callVars, store, gen, pmu, head, handled>>
  BY DEF Settle, In, ESInv, TypeOK
<1>2. Shaped(pmu[g], l, r) /\ Earned(handled, r)
  BY DEF ESInv, LoopsShaped
<1>3. kind = "sqs" /\ r.batch \subseteq Receipt /\ \A x \in r.batch \ r.failed : x.m \in handled
  BY <1>1, <1>2 DEF Shaped, Earned, Loop
<1>4. PICK x \in r.batch :
        /\ queue' = [queue EXCEPT ![x.m] = Settled(x, r.failed)]
        /\ loop' = IF r.batch = {x} THEN Continue(g, l, [r EXCEPT !.batch = {}])
                   ELSE Set(g, l, [r EXCEPT !.batch = @ \ {x}])
  BY DEF Settle
<1>5. QueuePart
  <2> DEFINE i == Settled(x, r.failed)
  <2>1. /\ i \in Item /\ i.count <= i.rcpt
        /\ i.at = "gone" => x.m \in handled
        /\ i.at = "dlq" => i.count >= MaxReceiveCount
    BY <1>3, SettledItem
  <2>2. x.m \in Msgs
    BY <1>3 DEF Receipt
  <2> HIDE DEF i
  <2>3. queue' = [queue EXCEPT ![x.m] = i]
    BY <1>4 DEF i
  <2>4. /\ queue' \in [Msgs -> Item] /\ queue'[x.m] = i
        /\ \A m \in Msgs : m # x.m => queue'[m] = queue[m]
    BY <2>1, <2>2, <2>3 DEF ESInv, TypeOK
  <2> QED BY <1>1, <2>1, <2>4 DEF QueuePart, QueueEarned, ESInv, TypeOK
<1>6. LoopPart(g, l)
  <2>1. CASE r.batch = {x}
    <3> DEFINE q == [r EXCEPT !.batch = {}]
    <3>1. q \in Loop /\ q.batch = {} /\ q.todo = r.todo
      BY <1>1 DEF Loop
    <3>2. q.todo # <<"selfstop">>
      BY <1>1, <1>2, <3>1 DEF Shaped
    <3>3. loop' = Continue(g, l, q)
      BY <1>4, <2>1
    <3> HIDE DEF q
    <3> QED BY <1>3, <3>1, <3>2, <3>3, ContinuePart
  <2>2. CASE r.batch # {x}
    <3> DEFINE q == [r EXCEPT !.batch = r.batch \ {x}]
    <3>1. /\ q \in Loop /\ q.batch = r.batch \ {x} /\ q.todo = r.todo /\ q.failed = r.failed
          /\ q.pc = "settle"
      BY <1>1 DEF Loop
    <3>2. loop' = Set(g, l, q)
      BY <1>4, <2>2
    <3> HIDE DEF q
    <3>3. Shaped(pmu'[g], l, q) /\ Earned(handled', q)
      BY <1>1, <1>2, <1>3, <3>1 DEF Shaped, Earned
    <3> QED BY <3>1, <3>2, <3>3, SetPart
  <2> QED BY <2>1, <2>2
<1> QED BY <1>1, <1>5, <1>6, SameGen, SameMutex, SameStore DEF Effect

LEMMA AdvanceEffect ==
  ASSUME ESInv, NEW g \in Gens, NEW l \in Loops, Advance(g, l) PROVE Effect(g, l)
<1> DEFINE r == loop[g][l]
           m == [gen[g].copy EXCEPT !.seq = r.next]
<1>1. r.pc = "advance" /\ r \in Loop /\ pmu[g] = 0
  BY DEF Advance, In, ESInv, TypeOK
<1>2. Shaped(pmu[g], l, r) /\ Earned(handled, r)
  BY DEF ESInv, LoopsShaped
<1>3. kind # "sqs" /\ 1..r.next \subseteq handled /\ (r.todo = <<"settle">> => kind = "sqs")
  BY <1>1, <1>2 DEF Shaped, Earned
<1>4. gen[g].copy \in Mapping /\ gen[g].streak \in 0..NotFoundMax
  BY <1>1, Running
<1>5. m \in Mapping /\ m.seq = r.next /\ m # None
  BY <1>1, <1>4 DEF Mapping, Loop, None
<1> HIDE DEF m
<1>6. Write(g, l, m, gen[g].streak, r) /\ UNCHANGED <<callVars, store, queue, head, handled>>
  BY DEF Advance, m
<1> QED BY <1>1, <1>3, <1>4, <1>5, <1>6, WriteParts

LEMMA ResultEffect ==
  ASSUME ESInv, NEW g \in Gens, NEW l \in Loops, UpdateResult(g, l) PROVE Effect(g, l)
<1> DEFINE r == loop[g][l]
           m == [gen[g].copy EXCEPT !.res = r.res]
<1>1. r.pc = "result" /\ r \in Loop /\ pmu[g] = 0
  BY DEF UpdateResult, In, ESInv, TypeOK
<1>2. Shaped(pmu[g], l, r) /\ Earned(handled, r)
  BY DEF ESInv, LoopsShaped
<1>3. /\ r.todo = <<"settle">> => kind = "sqs"
      /\ kind = "sqs" => \A x \in r.batch \ r.failed : x.m \in handled
  BY <1>1, <1>2 DEF Shaped, Earned
<1>4. /\ gen[g].copy \in Mapping /\ gen[g].streak \in 0..NotFoundMax
      /\ 1..gen[g].copy.seq \subseteq handled
  BY <1>1, Running
<1>5. m \in Mapping /\ m.seq = gen[g].copy.seq /\ m # None
  BY <1>1, <1>4 DEF Mapping, Loop, None
<1> HIDE DEF m
<1>6. Write(g, l, m, gen[g].streak, r) /\ UNCHANGED <<callVars, store, queue, head, handled>>
  BY DEF UpdateResult, m
<1> QED BY <1>1, <1>3, <1>4, <1>5, <1>6, WriteParts

(* Store.Save of a mapping, by a poller or by a call. *)
LEMMA SaveStore ==
  ASSUME ESInv, NEW id \in Ids, NEW m \in Mapping, 1..m.seq \subseteq handled, Save(id, m),
         UNCHANGED handled
  PROVE  StorePart
<1> DEFINE v == IF store[id] = None THEN m ELSE [m EXCEPT !.tags = store[id].tags]
<1>1. v \in Mapping /\ v.seq = m.seq
  <2>1. store[id] # None => store[id].tags \in 0..MaxCalls
    BY DEF ESInv, TypeOK, Mapping
  <2> QED BY <2>1 DEF Mapping
<1> HIDE DEF v
<1>2. store' = [store EXCEPT ![id] = v]
  BY DEF Save, ESInv, TypeOK, v
<1> QED BY <1>1, <1>2 DEF StorePart, ESInv, TypeOK, CopiesEarned

LEMMA SaveEffect ==
  ASSUME ESInv, NEW g \in Gens, NEW l \in Loops, SaveCopy(g, l) PROVE Effect(g, l)
<1> DEFINE r == loop[g][l]
<1>1. /\ r.pc = "save" /\ r \in Loop /\ handled' \subseteq Msgs \cup Records
      /\ UNCHANGED <<callVars, gen, queue, head, handled>>
  BY DEF SaveCopy, In, ESInv, TypeOK
<1>2. Shaped(pmu[g], l, r) /\ Earned(handled, r)
  BY DEF ESInv, LoopsShaped
<1>3. /\ pmu[g] = l /\ (r.todo = <<"settle">> => kind = "sqs")
      /\ kind = "sqs" => \A x \in r.batch \ r.failed : x.m \in handled
  BY <1>1, <1>2 DEF Shaped, Earned
<1>4. MutexPart(g, l) /\ (r.todo = <<"selfstop">> => pmu'[g] = l)
  BY <1>3, SetMutex DEF SaveCopy
<1>5. LoopPart(g, l)
  BY <1>1, <1>3, <1>4, ContinuePart DEF SaveCopy
<1>6. StorePart
  BY <1>1, Running, SaveStore DEF SaveCopy
<1> QED BY <1>1, <1>4, <1>5, <1>6, SameGen, SameQueue DEF Effect
LEMMA DisableEffect ==
  ASSUME ESInv, NEW g \in Gens, NEW l \in Loops, DisableWithError(g, l) PROVE Effect(g, l)
<1> DEFINE streak == IF gen[g].streak < NotFoundMax THEN gen[g].streak + 1 ELSE NotFoundMax
           m1 == [gen[g].copy EXCEPT !.res = "ERROR"]
           m2 == [gen[g].copy EXCEPT !.res = "DISABLED", !.enabled = FALSE]
           r2 == [NoLoop EXCEPT !.todo = <<"selfstop">>]
<1>1. /\ loop[g][l].pc # "off" /\ pmu[g] = 0 /\ handled' \subseteq Msgs \cup Records
      /\ UNCHANGED <<callVars, store, queue, head, handled>>
  BY DEF DisableWithError, In, ESInv, TypeOK
<1>2. /\ gen[g].copy \in Mapping /\ gen[g].streak \in 0..NotFoundMax
      /\ 1..gen[g].copy.seq \subseteq handled
  BY <1>1, Running
<1>3. streak \in 0..NotFoundMax
  BY <1>2, EventSourceAssumption
<1>4. /\ m1 \in Mapping /\ m1.seq = gen[g].copy.seq /\ m1 # None
      /\ m2 \in Mapping /\ m2.seq = gen[g].copy.seq /\ m2 # None
  BY <1>2 DEF Mapping, None
<1>5. /\ NoLoop \in Loop /\ NoLoop.batch = {} /\ NoLoop.todo = <<>>
      /\ r2 \in Loop /\ r2.batch = {} /\ r2.todo = <<"selfstop">>
  <2>1. NoLoop \in Loop /\ NoLoop.batch = {} /\ NoLoop.todo = <<>>
    BY RestingType DEF NoLoop
  <2> QED BY <2>1 DEF Loop
<1>6. <<>> # <<"settle">> /\ <<"selfstop">> # <<"settle">>
  OBVIOUS
<1> HIDE DEF streak, m1, m2, r2
<1>7. CASE Write(g, l, m1, streak, NoLoop)
  BY <1>1, <1>2, <1>3, <1>4, <1>5, <1>6, <1>7, WriteParts
<1>8. CASE Write(g, l, m2, streak, r2)
  BY <1>1, <1>2, <1>3, <1>4, <1>5, <1>6, <1>8, WriteParts
<1>9. CASE /\ loop' = PollReturns(g, l, FALSE)
           /\ gen' = [gen EXCEPT ![g].streak = streak] /\ UNCHANGED pmu
  BY <1>1, <1>3, <1>9, ReturnPart, NewStreak, SameMutex, SameStore, SameQueue DEF Effect
<1> QED BY <1>7, <1>8, <1>9 DEF DisableWithError, streak, m1, m2, r2

LEMMA SelfStopEffect ==
  ASSUME ESInv, NEW g \in Gens, NEW l \in Loops, SelfStop(g, l) PROVE Effect(g, l)
<1> DEFINE r == [NoLoop EXCEPT !.pc = "selfwait"]
<1>1. /\ loop[g][l].pc = "selfstop" /\ handled' \subseteq Msgs \cup Records
      /\ UNCHANGED <<callVars, store, pmu, queue, head, handled>>
      /\ gen' = [gen EXCEPT ![g].stopped = TRUE] /\ loop' = Set(g, l, r)
  BY DEF SelfStop, In, ESInv, TypeOK
<1>2. pmu'[g] = l
  BY <1>1 DEF ESInv, LoopsShaped, Shaped
<1>3. LoopPart(g, l)
  BY <1>1, <1>2, FreshRecord, SetPart
<1>4. GenPart(g)
  <2>1. [gen[g] EXCEPT !.stopped = TRUE] \in Poller
    BY <1>1, Running DEF Poller
  <2>2. gen' = [gen EXCEPT ![g] = [gen[g] EXCEPT !.stopped = TRUE]]
    BY <1>1 DEF ESInv, TypeOK
  <2>3. /\ gen' \in [Gens -> Poller] /\ gen'[g] = [gen[g] EXCEPT !.stopped = TRUE]
        /\ \A h \in Gens : h # g => gen'[h] = gen[h]
    BY <2>1, <2>2 DEF ESInv, TypeOK
  <2> QED BY <1>1, <2>3, Running DEF GenPart, Poller
<1> QED BY <1>1, <1>3, <1>4, SameMutex, SameStore, SameQueue DEF Effect

LEMMA SelfStoppedEffect ==
  ASSUME ESInv, NEW g \in Gens, NEW l \in Loops, SelfStopped(g, l) PROVE Effect(g, l)
<1>1. /\ loop[g][l].pc = "selfwait" /\ handled' \subseteq Msgs \cup Records
      /\ UNCHANGED <<callVars, store, gen, queue, head, handled>>
  BY DEF SelfStopped, In, ESInv, TypeOK
<1>2. pmu[g] = l
  BY <1>1 DEF ESInv, LoopsShaped, Shaped
<1>3. MutexPart(g, l)
  BY <1>2, SetMutex DEF SelfStopped
<1>4. LoopPart(g, l)
  BY ReturnPart DEF SelfStopped
<1> QED BY <1>1, <1>3, <1>4, SameGen, SameStore, SameQueue DEF Effect

LEMMA PollEffect ==
  ASSUME ESInv, NEW g \in Gens, NEW l \in Loops, PollStep(g, l) PROVE Effect(g, l)
BY TickEffect, NothingEffect, ErrorEffect, ReceiveEffect, FilterEffect, ReadEffect, InvokeOKEffect,
   InvokeErrorEffect, SettleEffect, AdvanceEffect, ResultEffect, SaveEffect, DisableEffect,
   SelfStopEffect, SelfStoppedEffect
   DEF PollStep

(***************************************************************************)
(* The calls                                                               *)
(***************************************************************************)
(* What a step of a call leaves alone in the pollers. *)
LEMMA SamePollers ==
  ASSUME ESInv, UNCHANGED <<pollVars, idleVars>>
  PROVE  /\ PollersShaped' /\ LoopsShaped' /\ QueueEarned'
         /\ \A g \in Gens : 1..gen'[g].copy.seq \subseteq handled'
         /\ Loop' = Loop
BY DEF ESInv, pollVars, idleVars, PollersShaped, LoopsShaped, Shaped, Earned, QueueEarned,
       CopiesEarned, Loop

(* A step that only moves call c. *)
LEMMA CallMoves ==
  ASSUME ESInv, NEW c \in Callers, NEW r \in Call, call' = [call EXCEPT ![c] = r],
         r.pc # "idle" => r.id # 0,
         r.pc = "start" => r.op \in {"create", "upsert"},
         r.pc = "save" => r.op \in {"create", "upsert", "update"},
         r.pc \in {"stop", "stopping"} => r.op \in {"upsert", "update", "delete"},
         r.op \in {"create", "upsert", "update"} => r.m # None,
         1..r.m.seq \subseteq handled, handled' = handled
  PROVE  /\ CallsShaped' /\ call' \in [Callers -> Call]
         /\ \A d \in Callers : 1..call'[d].m.seq \subseteq handled'
<1>1. /\ call' \in [Callers -> Call] /\ call'[c] = r
      /\ \A d \in Callers : d # c => call'[d] = call[d]
  BY DEF ESInv, TypeOK
<1> QED BY <1>1 DEF ESInv, CallsShaped, CopiesEarned, At

LEMMA NoCallMoves ==
  NoCall \in Call /\ NoCall.pc = "idle" /\ NoCall.op = "" /\ 1..NoCall.m.seq = {}
BY NoneSeq DEF NoCall, Call
CallPart ==
  /\ CallsShaped' /\ call' \in [Callers -> Call]
  /\ \A d \in Callers : 1..call'[d].m.seq \subseteq handled'
  /\ smu' \in Callers \cup {Nobody} /\ made' \in 0..MaxCalls

LEMMA CallFrame ==
  ASSUME ESInv, UNCHANGED <<pollVars, idleVars>>, CallPart, StorePart
  PROVE  ESInv'
<1>1. TypeOK'
  BY SamePollers DEF ESInv, TypeOK, CallPart, StorePart, pollVars, idleVars, Call, Poller, Item
<1>2. CopiesEarned'
  BY SamePollers DEF CopiesEarned, CallPart, StorePart
<1> QED BY <1>1, <1>2, SamePollers DEF ESInv, CallPart

(* A call about to begin: what its record is made of. *)
LEMMA BeginCall ==
  ASSUME ESInv, NEW c \in Callers, NEW op, Begin(c, op)
  PROVE  /\ made + 1 \in Ids /\ made' = made + 1 /\ made' \in 0..MaxCalls
         /\ \A e \in BOOLEAN : /\ NewMapping(e) \in Mapping /\ NewMapping(e) # None
                               /\ 1..NewMapping(e).seq \subseteq handled
         /\ \A i \in Existing, e \in BOOLEAN :
              LET m == [store[i] EXCEPT !.ver = made + 1, !.enabled = e] IN
              /\ i \in Ids /\ i # 0 /\ m \in Mapping /\ m # None
              /\ 1..m.seq \subseteq handled
<1>1. made \in 0..MaxCalls /\ made < MaxCalls /\ made' = made + 1
  BY DEF Begin, ESInv, TypeOK
<1>2. made + 1 \in Ids /\ made + 1 \in 0..MaxCalls /\ 0 \in 0..MaxRecords /\ 0 \in 0..MaxCalls
  BY <1>1, EventSourceAssumption DEF Ids
<1>3. ASSUME NEW e \in BOOLEAN
      PROVE  /\ NewMapping(e) \in Mapping /\ NewMapping(e) # None
             /\ 1..NewMapping(e).seq \subseteq handled
  <2>1. NewMapping(e) \in Mapping
    BY <1>2 DEF NewMapping, Mapping
  <2>2. NewMapping(e).res = "" /\ NewMapping(e).seq = 0 /\ None.res = "none"
    BY DEF NewMapping, None
  <2>3. 1..0 = {} /\ "" # "none"
    OBVIOUS
  <2>4. NewMapping(e) # None
    BY <2>2, <2>3, Zenon
  <2>5. 1..NewMapping(e).seq = {}
    BY <2>2, <2>3, Zenon
  <2> QED BY <2>1, <2>4, <2>5, Zenon
<1>4. ASSUME NEW i \in Existing, NEW e \in BOOLEAN
      PROVE  LET m == [store[i] EXCEPT !.ver = made + 1, !.enabled = e] IN
             /\ i \in Ids /\ i # 0 /\ m \in Mapping /\ m # None
             /\ 1..m.seq \subseteq handled
  <2>1. i \in Ids /\ i # 0 /\ store[i] \in Mapping /\ 1..store[i].seq \subseteq handled
    BY DEF Existing, Ids, ESInv, TypeOK, CopiesEarned
  <2> QED BY <1>2, <2>1 DEF Mapping, None
<1> QED BY <1>1, <1>2, <1>3, <1>4

LEMMA ApiInv == ASSUME ESInv, NEW c \in Callers, ApiCall(c) PROVE ESInv'
<1>t. smu \in Callers \cup {Nobody}
  BY DEF ESInv, TypeOK
<1>1. ASSUME NEW op, Begin(c, op), UNCHANGED <<pollVars, idleVars, store, smu>>,
             NEW pc \in {"save", "stop"}, NEW o \in {"create", "upsert", "update"},
             pc = "stop" => o # "create",
             NEW i \in Ids, i # 0, NEW m \in Mapping, m # None, 1..m.seq \subseteq handled,
             call' = [call EXCEPT ![c] = [pc |-> pc, op |-> o, id |-> i, m |-> m]]
      PROVE  ESInv'
  <2> DEFINE r == [pc |-> pc, op |-> o, id |-> i, m |-> m]
  <2>1. r \in Call /\ r.pc = pc /\ r.op = o /\ r.id = i /\ r.m = m
    BY <1>1 DEF Call
  <2>2. UNCHANGED <<store, handled>>
    BY <1>1 DEF pollVars
  <2> HIDE DEF r
  <2>3. call' = [call EXCEPT ![c] = r]
    BY <1>1 DEF r
  <2>4. CallPart
    BY <1>t, <1>1, <2>1, <2>2, <2>3, CallMoves, BeginCall DEF CallPart
  <2> QED BY <1>1, <2>2, <2>4, SameStore, CallFrame
<1>2. CASE CreateMapping(c)
  <2>1. Begin(c, "create") /\ UNCHANGED <<pollVars, idleVars, store, smu>>
    BY <1>2 DEF CreateMapping
  <2>2. PICK e \in BOOLEAN :
          IF Existing = {}
          THEN call' = [call EXCEPT ![c] = [pc |-> "save", op |-> "create", id |-> made + 1,
                                            m |-> NewMapping(e)]]
          ELSE \E i \in Existing :
                 call' = [call EXCEPT ![c] =
                   [pc |-> "stop", op |-> "upsert", id |-> i,
                    m |-> [store[i] EXCEPT !.ver = made + 1, !.enabled = e]]]
    BY <1>2 DEF CreateMapping
  <2>3. CASE Existing = {}
    <3>1. /\ made + 1 \in Ids /\ made + 1 # 0 /\ NewMapping(e) \in Mapping /\ NewMapping(e) # None
          /\ 1..NewMapping(e).seq \subseteq handled
      <4>1. made \in Nat
        BY EventSourceAssumption DEF ESInv, TypeOK
      <4>2. made + 1 # 0
        BY <4>1
      <4> QED BY <2>1, <4>2, BeginCall
    <3> QED BY <1>1, <2>1, <2>2, <2>3, <3>1
  <2>4. CASE Existing # {}
    <3>1. PICK i \in Existing :
            call' = [call EXCEPT ![c] =
              [pc |-> "stop", op |-> "upsert", id |-> i,
               m |-> [store[i] EXCEPT !.ver = made + 1, !.enabled = e]]]
      BY <2>2, <2>4
    <3> DEFINE m == [store[i] EXCEPT !.ver = made + 1, !.enabled = e]
    <3>2. i \in Ids /\ i # 0 /\ m \in Mapping /\ m # None /\ 1..m.seq \subseteq handled
      BY <2>1, BeginCall
    <3> HIDE DEF m
    <3>3. call' = [call EXCEPT ![c] = [pc |-> "stop", op |-> "upsert", id |-> i, m |-> m]]
      BY <3>1 DEF m
    <3> QED BY <1>1, <2>1, <3>2, <3>3
  <2> QED BY <2>3, <2>4
<1>3. CASE UpdateMapping(c)
  <2>1. Begin(c, "update") /\ UNCHANGED <<pollVars, idleVars, store, smu>>
    BY <1>3 DEF UpdateMapping
  <2>2. PICK i \in Existing, e \in BOOLEAN :
          call' = [call EXCEPT ![c] =
            [pc |-> "save", op |-> "update", id |-> i,
             m |-> [store[i] EXCEPT !.ver = made + 1, !.enabled = e]]]
    BY <1>3 DEF UpdateMapping
  <2> DEFINE m == [store[i] EXCEPT !.ver = made + 1, !.enabled = e]
  <2>3. i \in Ids /\ i # 0 /\ m \in Mapping /\ m # None /\ 1..m.seq \subseteq handled
    BY <2>1, BeginCall
  <2> HIDE DEF m
  <2>4. call' = [call EXCEPT ![c] = [pc |-> "save", op |-> "update", id |-> i, m |-> m]]
    BY <2>2 DEF m
  <2> QED BY <1>1, <2>1, <2>3, <2>4
<1>4. CASE DeleteMapping(c)
  <2>1. Begin(c, "delete") /\ UNCHANGED <<pollVars, idleVars, store, smu, handled>>
    BY <1>4 DEF DeleteMapping, pollVars
  <2>2. PICK i \in Existing :
          call' = [call EXCEPT ![c] = [pc |-> "stop", op |-> "delete", id |-> i, m |-> None]]
    BY <1>4 DEF DeleteMapping
  <2> DEFINE r == [pc |-> "stop", op |-> "delete", id |-> i, m |-> None]
  <2>3. /\ r \in Call /\ r.pc = "stop" /\ r.op = "delete" /\ r.id # 0
        /\ 1..r.m.seq \subseteq handled
    BY NoneSeq DEF Call, Existing, Ids
  <2>4. CallPart
    <3> HIDE DEF r
    <3>1. call' = [call EXCEPT ![c] = r]
      BY <2>2 DEF r
    <3> QED BY <1>t, <2>1, <2>3, <3>1, CallMoves, BeginCall DEF CallPart
  <2> QED BY <2>1, <2>4, SameStore, CallFrame
<1>5. CASE UpdateTags(c)
  <2>1. Begin(c, "tag") /\ UNCHANGED <<pollVars, idleVars, smu, call, handled>>
    BY <1>5 DEF UpdateTags, pollVars
  <2>2. PICK i \in Existing : store' = [store EXCEPT ![i].tags = made + 1]
    BY <1>5 DEF UpdateTags
  <2>3. StorePart
    <3>1. i \in Ids /\ store[i] \in Mapping /\ made + 1 \in 0..MaxCalls
      BY <2>1, BeginCall DEF Existing, ESInv, TypeOK
    <3>2. [store[i] EXCEPT !.tags = made + 1] \in Mapping
      BY <3>1 DEF Mapping
    <3>3. [store[i] EXCEPT !.tags = made + 1].seq = store[i].seq
      BY <3>1 DEF Mapping
    <3>4. store' = [store EXCEPT ![i] = [store[i] EXCEPT !.tags = made + 1]]
      BY <2>2 DEF ESInv, TypeOK
    <3> QED BY <2>1, <3>1, <3>2, <3>3, <3>4 DEF StorePart, ESInv, TypeOK, CopiesEarned
  <2>4. CallPart
    BY <1>t, <2>1, BeginCall DEF CallPart, ESInv, TypeOK, CallsShaped, At, CopiesEarned
  <2> QED BY <2>1, <2>3, <2>4, CallFrame
<1> QED BY <1>2, <1>3, <1>4, <1>5 DEF ApiCall
(* A call in progress: what its record holds. *)
LEMMA CallRecord ==
  ASSUME ESInv, NEW c \in Callers, ~At(c, "idle")
  PROVE  /\ call[c] \in Call /\ call[c].id \in Ids
         /\ 1..call[c].m.seq \subseteq handled
         /\ call[c].op \in {"create", "upsert", "update"} => call[c].m \in Mapping
<1>1. call[c] \in Call /\ call[c].id # 0
  BY DEF ESInv, TypeOK, CallsShaped
<1>2. call[c].op \in {"create", "upsert", "update"} => call[c].m # None
  BY DEF ESInv, CallsShaped
<1> QED BY <1>1, <1>2 DEF Call, ESInv, CopiesEarned

LEMMA ReturnCall ==
  ASSUME ESInv, NEW c \in Callers, Return(c), handled' = handled,
         smu' \in Callers \cup {Nobody}, made' = made
  PROVE  CallPart
BY NoCallMoves, CallMoves DEF Return, CallPart, ESInv, TypeOK

LEMMA GotoCall ==
  ASSUME ESInv, NEW c \in Callers, ~At(c, "idle"), handled' = handled,
         NEW pc \in {"save", "start", "stop", "stopping", "remove"}, Goto(c, pc),
         pc = "start" => call[c].op \in {"create", "upsert"},
         pc = "save" => call[c].op \in {"create", "upsert", "update"},
         pc \in {"stop", "stopping"} => call[c].op \in {"upsert", "update", "delete"},
         smu' \in Callers \cup {Nobody}, made' = made
  PROVE  CallPart
<1> DEFINE r == [call[c] EXCEPT !.pc = pc]
<1>1. call[c] \in Call /\ call[c].id \in Ids /\ 1..call[c].m.seq \subseteq handled
  BY CallRecord
<1>2. /\ r \in Call /\ r.pc = pc /\ r.op = call[c].op /\ r.id = call[c].id /\ r.m = call[c].m
  BY <1>1 DEF Call
<1>3. call' = [call EXCEPT ![c] = r]
  BY DEF Goto, ESInv, TypeOK
<1> HIDE DEF r
<1>4. r.id # 0 /\ (r.op \in {"create", "upsert", "update"} => r.m # None)
  BY <1>1, <1>2, NoneOutside DEF ESInv, CallsShaped
<1> QED BY <1>1, <1>2, <1>3, <1>4, CallMoves DEF CallPart, ESInv, TypeOK

(* A step of a call that starts, stops or replaces pollers. *)
Replaces ==
  /\ last' \in Gens \cup {0} /\ pollers' \in [Ids -> Gens \cup {0}]
  /\ gen' \in [Gens -> Poller] /\ loop' \in [Gens -> [Loops -> Loop]]
  /\ \A g \in Gens :
       \/ /\ loop'[g] = loop[g] /\ gen'[g].id = gen[g].id /\ gen'[g].copy = gen[g].copy
          /\ gen[g].stopped => gen'[g].stopped
       \/ /\ loop'[g] = FirstLoop /\ gen'[g].id # 0 /\ gen'[g].copy # None
          /\ 1..gen'[g].copy.seq \subseteq handled /\ ~gen'[g].left

LEMMA FirstRests == FirstLoop \in [Loops -> Loop] /\ \A l \in Loops : FirstLoop[l] \in Resting
BY RestingType DEF FirstLoop, Resting, Idling

LEMMA ReplaceFrame ==
  ASSUME ESInv, UNCHANGED <<pollVars, store>>, CallPart, Replaces
  PROVE  ESInv'
<1>1. /\ kind' = kind /\ pmu' = pmu /\ handled' = handled /\ Loop' = Loop
      /\ refused' = refused /\ queue' = queue /\ head' = head /\ boots' = boots
  BY DEF pollVars, Loop
<1>2. TypeOK'
  BY <1>1 DEF ESInv, TypeOK, CallPart, Replaces, Poller, Call, Item
<1>3. PollersShaped'
  BY DEF ESInv, PollersShaped, Replaces
<1>4. LoopsShaped'
  <2> SUFFICES ASSUME NEW g \in Gens, NEW l \in Loops
               PROVE  Shaped(pmu'[g], l, loop'[g][l]) /\ Earned(handled', loop'[g][l])
    BY <1>1 DEF LoopsShaped, Shaped, Earned
  <2>1. CASE loop'[g] = loop[g]
    BY <1>1, <2>1 DEF ESInv, LoopsShaped
  <2>2. CASE loop'[g] = FirstLoop
    BY <2>2, FirstRests, RestEarned
  <2> QED BY <2>1, <2>2 DEF Replaces
<1>5. CopiesEarned'
  <2>1. \A g \in Gens : 1..gen'[g].copy.seq \subseteq handled'
    BY <1>1 DEF Replaces, ESInv, CopiesEarned
  <2> QED BY <1>1, <2>1 DEF CopiesEarned, CallPart, ESInv
<1>6. QueueEarned'
  BY <1>1 DEF ESInv, QueueEarned
<1> QED BY <1>2, <1>3, <1>4, <1>5, <1>6 DEF ESInv, CallPart

LEMMA FreshPoller ==
  ASSUME NEW id \in Ids, NEW m \in Mapping
  PROVE  /\ Fresh(id, m) \in Poller /\ Fresh(id, m).id = id /\ Fresh(id, m).copy = m
         /\ ~Fresh(id, m).left /\ ~Fresh(id, m).stopped /\ id # 0 /\ m # None
<1>1. 0 \in 0..NotFoundMax
  BY EventSourceAssumption
<1>2. Fresh(id, m) \in Poller /\ Fresh(id, m).id = id /\ Fresh(id, m).copy = m
  BY <1>1 DEF Fresh, NoPoller, Poller
<1>3. ~Fresh(id, m).left /\ ~Fresh(id, m).stopped
  BY DEF Fresh, NoPoller
<1> QED BY <1>2, <1>3, NoneOutside

LEMMA StartReplaces ==
  ASSUME ESInv, NEW id \in Ids, NEW m \in Mapping, 1..m.seq \subseteq handled, Start(id, m)
  PROVE  Replaces /\ last + 1 \in Gens
<1>1. /\ last + 1 \in Gens /\ last' = last + 1 /\ gen' = [gen EXCEPT ![last + 1] = Fresh(id, m)]
      /\ loop' = [loop EXCEPT ![last + 1] = FirstLoop]
      /\ pollers' = [pollers EXCEPT ![id] = last + 1]
  BY DEF Start
<1>2. /\ gen' \in [Gens -> Poller] /\ loop' \in [Gens -> [Loops -> Loop]]
      /\ pollers' \in [Ids -> Gens \cup {0}]
  BY <1>1, FreshPoller, FirstRests DEF ESInv, TypeOK
<1>3. /\ gen'[last + 1] = Fresh(id, m) /\ loop'[last + 1] = FirstLoop
      /\ \A g \in Gens : g # last + 1 => gen'[g] = gen[g] /\ loop'[g] = loop[g]
  BY <1>1 DEF ESInv, TypeOK
<1> QED BY <1>1, <1>2, <1>3, FreshPoller DEF Replaces
LEMMA CallSaveInv == ASSUME ESInv, NEW c \in Callers, CallSave(c) PROVE ESInv'
<1>1. /\ At(c, "save") /\ ~At(c, "idle") /\ UNCHANGED <<pollVars, idleVars, smu, made>>
      /\ handled' = handled
  BY DEF CallSave, At, pollVars
<1>2. call[c].op \in {"create", "upsert", "update"}
  BY <1>1 DEF ESInv, CallsShaped
<1>3. call[c].id \in Ids /\ call[c].m \in Mapping /\ 1..call[c].m.seq \subseteq handled
  BY <1>1, <1>2, CallRecord
<1>4. StorePart
  BY <1>1, <1>3, SaveStore DEF CallSave
<1>5. smu' \in Callers \cup {Nobody}
  BY <1>1 DEF ESInv, TypeOK
<1>6. CASE call[c].op = "update"
  <2>1. Goto(c, "stop")
    BY <1>6 DEF CallSave
  <2> QED BY <1>1, <1>4, <1>5, <1>6, <2>1, GotoCall, CallFrame
<1>7. CASE call[c].op # "update" /\ call[c].m.enabled
  <2>1. Goto(c, "start")
    BY <1>7 DEF CallSave
  <2> QED BY <1>1, <1>2, <1>4, <1>5, <1>7, <2>1, GotoCall, CallFrame
<1>8. CASE call[c].op # "update" /\ ~call[c].m.enabled
  <2>1. Return(c)
    BY <1>8 DEF CallSave
  <2> QED BY <1>1, <1>4, <1>5, <2>1, ReturnCall, CallFrame
<1> QED BY <1>6, <1>7, <1>8

LEMMA CallStartReplaces ==
  ASSUME ESInv, NEW c \in Callers, CallStart(c) PROVE Replaces
<1>1. At(c, "start") /\ ~At(c, "idle")
  BY DEF CallStart, At
<1>2. call[c].op \in {"create", "upsert"}
  BY <1>1 DEF ESInv, CallsShaped
<1>3. call[c].id \in Ids /\ call[c].m \in Mapping /\ 1..call[c].m.seq \subseteq handled
  BY <1>1, <1>2, CallRecord
<1> QED BY <1>3, StartReplaces DEF CallStart

LEMMA CallStartInv == ASSUME ESInv, NEW c \in Callers, CallStart(c) PROVE ESInv'
<1>1. /\ UNCHANGED <<pollVars, store, smu, made>> /\ handled' = handled /\ Return(c)
      /\ smu' \in Callers \cup {Nobody}
  BY DEF CallStart, pollVars, ESInv, TypeOK
<1> QED BY <1>1, CallStartReplaces, ReturnCall, ReplaceFrame

(* Marking a generation keeps its mapping and its loops. *)
LEMMA MarkReplaces ==
  ASSUME ESInv, NEW g \in Gens, NEW p \in Poller, p.id = gen[g].id, p.copy = gen[g].copy,
         gen[g].stopped => p.stopped, gen' = [gen EXCEPT ![g] = p], UNCHANGED <<last, loop>>,
         pollers' \in [Ids -> Gens \cup {0}]
  PROVE  Replaces
<1>1. /\ gen' \in [Gens -> Poller] /\ gen'[g] = p
      /\ \A h \in Gens : h # g => gen'[h] = gen[h]
  BY DEF ESInv, TypeOK
<1> QED BY <1>1 DEF Replaces, ESInv, TypeOK

LEMMA SameReplaces ==
  ASSUME ESInv, UNCHANGED <<last, loop, gen>>, pollers' \in [Ids -> Gens \cup {0}] PROVE Replaces
BY DEF Replaces, ESInv, TypeOK

LEMMA CallStopReplaces ==
  ASSUME ESInv, NEW c \in Callers, CallStop(c)
  PROVE  Replaces /\ UNCHANGED pollers
<1> DEFINE g == pollers[call[c].id]
<1>1. ~At(c, "idle") /\ UNCHANGED <<last, loop, pollers>>
  BY DEF CallStop, At
<1>2. pollers' \in [Ids -> Gens \cup {0}] /\ g \in Gens \cup {0}
  BY <1>1, CallRecord DEF ESInv, TypeOK
<1>3. CASE g = 0
  BY <1>1, <1>2, <1>3, SameReplaces DEF CallStop
<1>4. CASE g # 0
  <2> DEFINE p == [gen[g] EXCEPT !.stopped = TRUE]
  <2>1. g \in Gens /\ gen[g] \in Poller
    BY <1>2, <1>4 DEF ESInv, TypeOK
  <2>2. p \in Poller /\ p.id = gen[g].id /\ p.copy = gen[g].copy /\ p.stopped
    BY <2>1 DEF Poller
  <2>3. gen' = [gen EXCEPT ![g] = p]
    BY <1>4 DEF CallStop, ESInv, TypeOK
  <2> HIDE DEF p, g
  <2> QED BY <1>1, <1>2, <2>1, <2>2, <2>3, MarkReplaces
<1> QED BY <1>3, <1>4

LEMMA CallStopInv == ASSUME ESInv, NEW c \in Callers, CallStop(c) PROVE ESInv'
<1>1. /\ UNCHANGED <<pollVars, store, made>> /\ handled' = handled /\ Goto(c, "stopping")
      /\ At(c, "stop") /\ ~At(c, "idle") /\ smu' \in Callers \cup {Nobody}
  BY DEF CallStop, At, pollVars
<1>2. call[c].op \in {"upsert", "update", "delete"}
  BY <1>1 DEF ESInv, CallsShaped
<1> QED BY <1>1, <1>2, CallStopReplaces, GotoCall, ReplaceFrame

LEMMA CallStoppedReplaces ==
  ASSUME ESInv, NEW c \in Callers, CallStopped(c)
  PROVE  Replaces
<1> DEFINE id == call[c].id
           g == pollers[id]
           p == [gen[g] EXCEPT !.left = TRUE]
<1>1. At(c, "stopping") /\ ~At(c, "idle")
  BY DEF CallStopped, At
<1>2. id \in Ids /\ g \in Gens \cup {0} /\ 1..call[c].m.seq \subseteq handled
  BY <1>1, CallRecord DEF ESInv, TypeOK
<1>3. g # 0 => /\ gen[g] \in Poller /\ p \in Poller /\ p.id = gen[g].id /\ p.copy = gen[g].copy
               /\ p.stopped = gen[g].stopped
  BY <1>2 DEF ESInv, TypeOK, Poller
<1>4. CASE call[c].op = "update" /\ call[c].m.enabled
  <2> DEFINE f == Fresh(id, call[c].m)
  <2>1. call[c].m \in Mapping
    BY <1>1, <1>4, CallRecord
  <2>2. /\ f \in Poller /\ f.id # 0 /\ f.copy = call[c].m /\ f.copy # None /\ ~f.left
    BY <1>2, <2>1, FreshPoller
  <2>3. /\ last + 1 \in Gens /\ last' = last + 1
        /\ gen' = [h \in Gens |-> IF h = last + 1 THEN f ELSE IF h = g THEN [gen[h] EXCEPT !.left = TRUE]
                                  ELSE gen[h]]
        /\ loop' = [loop EXCEPT ![last + 1] = FirstLoop]
        /\ pollers' = [pollers EXCEPT ![id] = last + 1]
    BY <1>4 DEF CallStopped
  <2>4. /\ loop' \in [Gens -> [Loops -> Loop]] /\ pollers' \in [Ids -> Gens \cup {0}]
        /\ loop'[last + 1] = FirstLoop /\ \A h \in Gens : h # last + 1 => loop'[h] = loop[h]
    BY <2>3, FirstRests DEF ESInv, TypeOK
  <2> HIDE DEF f, g, id
  <2>5. /\ gen'[last + 1] = f
        /\ \A h \in Gens : h # last + 1 /\ h # g => gen'[h] = gen[h]
        /\ g # 0 /\ g # last + 1 => gen'[g] = p
    BY <1>2, <2>3
  <2>6. gen' \in [Gens -> Poller]
    <3>1. \A h \in Gens : gen[h] \in Poller /\ (h = g => [gen[h] EXCEPT !.left = TRUE] \in Poller)
      BY DEF ESInv, TypeOK, Poller
    <3> QED BY <2>2, <2>3, <3>1
  <2>7. 1..f.copy.seq \subseteq handled
    BY <1>2, <2>2
  <2> QED BY <1>2, <1>3, <2>2, <2>3, <2>4, <2>5, <2>6, <2>7 DEF Replaces
<1>5. CASE ~(call[c].op = "update" /\ call[c].m.enabled)
  <2>1. /\ pollers' = [pollers EXCEPT ![id] = 0] /\ UNCHANGED <<last, loop>>
        /\ gen' = IF g = 0 THEN gen ELSE [gen EXCEPT ![g].left = TRUE]
    BY <1>5 DEF CallStopped
  <2>2. pollers' \in [Ids -> Gens \cup {0}]
    BY <2>1 DEF ESInv, TypeOK
  <2>3. CASE g = 0
    BY <2>1, <2>2, <2>3, SameReplaces
  <2>4. CASE g # 0
    <3>1. gen' = [gen EXCEPT ![g] = p]
      BY <2>1, <2>4 DEF ESInv, TypeOK
    <3> HIDE DEF p, g
    <3> QED BY <1>2, <1>3, <2>1, <2>2, <2>4, <3>1, MarkReplaces
  <2> QED BY <2>3, <2>4
<1> QED BY <1>4, <1>5

LEMMA CallStoppedInv == ASSUME ESInv, NEW c \in Callers, CallStopped(c) PROVE ESInv'
<1>1. /\ UNCHANGED <<pollVars, store, made>> /\ handled' = handled
      /\ At(c, "stopping") /\ ~At(c, "idle") /\ smu' \in Callers \cup {Nobody}
  BY DEF CallStopped, At, pollVars
<1>2. call[c].op \in {"upsert", "update", "delete"}
  BY <1>1 DEF ESInv, CallsShaped
<1>3. CallPart
  <2>1. CASE call[c].op = "update"
    BY <1>1, <2>1, ReturnCall DEF CallStopped
  <2>2. CASE call[c].op = "upsert"
    <3>1. Goto(c, "save")
      BY <2>2 DEF CallStopped
    <3> QED BY <1>1, <2>2, <3>1, GotoCall
  <2>3. CASE call[c].op = "delete"
    <3>1. Goto(c, "remove")
      BY <2>3 DEF CallStopped
    <3> QED BY <1>1, <2>3, <3>1, GotoCall
  <2> QED BY <1>2, <2>1, <2>2, <2>3
<1> QED BY <1>1, <1>3, CallStoppedReplaces, ReplaceFrame

LEMMA CallRemoveInv == ASSUME ESInv, NEW c \in Callers, CallRemove(c) PROVE ESInv'
<1>1. /\ UNCHANGED <<pollVars, idleVars, smu, made>> /\ handled' = handled /\ Return(c)
      /\ smu' \in Callers \cup {Nobody} /\ store' = [store EXCEPT ![call[c].id] = None]
  BY DEF CallRemove, pollVars, ESInv, TypeOK
<1>2. StorePart
  BY <1>1, NoneSeq DEF StorePart, ESInv, TypeOK, CopiesEarned
<1> QED BY <1>1, <1>2, ReturnCall, CallFrame
(***************************************************************************)
(* The source, restarts and the whole                                      *)
(***************************************************************************)
LEMMA SourceInv == ASSUME ESInv, VisibilityExpires \/ RecordAppended PROVE ESInv'
<1>1. /\ UNCHANGED restVars /\ kind' = kind /\ Loop' = Loop
  BY DEF VisibilityExpires, RecordAppended, restVars, Loop
<1>2. QueuePart
  <2>1. handled' = handled /\ handled \subseteq Msgs \cup Records
    BY <1>1 DEF restVars, ESInv, TypeOK
  <2>2. CASE VisibilityExpires
    <3>1. PICK m \in Msgs : queue' = [queue EXCEPT ![m].hidden = FALSE] /\ head' = head
      BY <2>2 DEF VisibilityExpires
    <3> DEFINE i == [queue[m] EXCEPT !.hidden = FALSE]
    <3>2. i \in Item /\ i.count = queue[m].count /\ i.rcpt = queue[m].rcpt /\ i.at = queue[m].at
      BY DEF ESInv, TypeOK, Item
    <3>3. queue' = [queue EXCEPT ![m] = i]
      BY <3>1 DEF ESInv, TypeOK
    <3> HIDE DEF i
    <3>4. /\ queue' \in [Msgs -> Item] /\ queue'[m] = i
          /\ \A n \in Msgs : n # m => queue'[n] = queue[n]
      BY <3>2, <3>3 DEF ESInv, TypeOK
    <3> QED BY <2>1, <3>1, <3>2, <3>4 DEF QueuePart, QueueEarned, ESInv, TypeOK
  <2>3. CASE RecordAppended
    <3>1. head' \in 0..MaxRecords /\ queue' = queue
      BY <2>3, EventSourceAssumption DEF RecordAppended, ESInv, TypeOK
    <3> QED BY <2>1, <3>1 DEF QueuePart, QueueEarned, ESInv, TypeOK
  <2> QED BY <2>2, <2>3
<1>3. TypeOK'
  BY <1>1, <1>2 DEF ESInv, TypeOK, restVars, QueuePart, Poller, Call, Item
<1>4. CallsShaped' /\ PollersShaped' /\ LoopsShaped' /\ CopiesEarned'
  BY <1>1 DEF ESInv, restVars, CallsShaped, At, PollersShaped, LoopsShaped, Shaped, Earned, CopiesEarned
<1> QED BY <1>2, <1>3, <1>4 DEF ESInv, QueuePart

LEMMA NoPollerType == NoPoller \in Poller /\ NoPoller.id = 0 /\ NoPoller.copy = None /\ ~NoPoller.left
<1>1. 0 \in 0..NotFoundMax
  BY EventSourceAssumption
<1>2. NoPoller \in Poller
  BY <1>1 DEF NoPoller, Poller
<1> QED BY <1>2 DEF NoPoller

LEMMA RestartInv == ASSUME ESInv, Restart PROVE ESInv'
<1>1. /\ UNCHANGED <<kind, refused, made, queue, head, handled>> /\ Loop' = Loop
      /\ pmu' = [g \in Gens |-> 0] /\ call' = [c \in Callers |-> NoCall] /\ smu' = Nobody
      /\ boots' \in 0..MaxRestarts
  <2>1. boots' \in 0..MaxRestarts
    BY EventSourceAssumption DEF Restart, ESInv, TypeOK
  <2>2. kind' = kind
    BY DEF Restart
  <2>3. Loop' = Loop
    BY <2>2 DEF Loop
  <2> QED BY <2>1, <2>3 DEF Restart
<1>2. PICK keep \in Existing :
        LET m == Reenabled(store[keep]) IN
        /\ store' = [Deduped(keep) EXCEPT ![keep] = m]
        /\ pollers' = [i \in Ids |-> IF i = keep /\ m.enabled THEN 1 ELSE 0]
        /\ gen' = [g \in Gens |-> IF g = 1 /\ m.enabled THEN Fresh(keep, m) ELSE NoPoller]
        /\ loop' = [g \in Gens |-> IF g = 1 /\ m.enabled THEN FirstLoop
                                   ELSE [l \in Loops |-> NoLoop]]
        /\ last' = IF m.enabled THEN 1 ELSE 0
  BY DEF Restart
<1> DEFINE m == Reenabled(store[keep])
<1>3. keep \in Ids /\ store[keep] \in Mapping /\ 1..store[keep].seq \subseteq handled
  BY DEF Existing, ESInv, TypeOK, CopiesEarned
<1>4. m \in Mapping /\ m.seq = store[keep].seq
  BY <1>3 DEF Reenabled, Mapping
<1> HIDE DEF m
<1>5. StorePart
  <2>1. /\ store' \in [Ids -> Mapping \cup {None}]
        /\ \A i \in Ids : store'[i] = IF i = keep THEN m ELSE None
    BY <1>2, <1>3, <1>4 DEF Deduped, m
  <2> QED BY <1>1, <1>3, <1>4, <2>1, NoneSeq DEF StorePart
<1>6. /\ 1 \in Gens /\ pollers' \in [Ids -> Gens \cup {0}] /\ last' \in Gens \cup {0}
  BY <1>2, EventSourceAssumption DEF Gens, m
<1>7. /\ gen' \in [Gens -> Poller] /\ loop' \in [Gens -> [Loops -> Loop]]
      /\ \A g \in Gens :
           \/ gen'[g] = NoPoller /\ loop'[g] = [l \in Loops |-> NoLoop]
           \/ gen'[g] = Fresh(keep, m) /\ loop'[g] = FirstLoop
  BY <1>2, <1>3, <1>4, FreshPoller, NoPollerType, FirstRests, RestingType DEF m
<1>8. \A g \in Gens, l \in Loops :
        /\ loop'[g][l] \in Resting
        /\ loop'[g][l].pc # "off" => gen'[g] = Fresh(keep, m)
  <2>1. NoLoop.pc = "off" /\ NoLoop \in Resting
    BY DEF NoLoop, Resting
  <2> QED BY <1>7, <2>1, FirstRests
<1>9. CallsShaped' /\ call' \in [Callers -> Call]
  BY <1>1, NoCallMoves DEF CallsShaped, At
<1>10. TypeOK'
  <2>1. pmu' \in [Gens -> Loops \cup {0}]
    BY <1>1
  <2> QED BY <1>1, <1>5, <1>6, <1>7, <1>9, <2>1 DEF ESInv, TypeOK, StorePart, Poller, Call, Item
<1>11. PollersShaped'
  BY <1>3, <1>4, <1>7, <1>8, FreshPoller, NoPollerType DEF PollersShaped
<1>12. LoopsShaped'
  <2> SUFFICES ASSUME NEW g \in Gens, NEW l \in Loops
               PROVE  Shaped(pmu'[g], l, loop'[g][l]) /\ Earned(handled', loop'[g][l])
    BY <1>1 DEF LoopsShaped, Shaped, Earned
  <2> QED BY <1>8, RestEarned
<1>13. CopiesEarned'
  <2>1. \A g \in Gens : 1..gen'[g].copy.seq \subseteq handled'
    BY <1>1, <1>3, <1>4, <1>7, FreshPoller, NoPollerType, NoneSeq
  <2>2. \A c \in Callers : 1..call'[c].m.seq \subseteq handled'
    BY <1>1, NoCallMoves
  <2> QED BY <1>5, <2>1, <2>2 DEF CopiesEarned, StorePart
<1>14. QueueEarned'
  BY <1>1 DEF ESInv, QueueEarned
<1> QED BY <1>9, <1>10, <1>11, <1>12, <1>13, <1>14 DEF ESInv

LEMMA ESInvInit == Init => ESInv
<1> SUFFICES ASSUME Init PROVE ESInv
  OBVIOUS
<1>1. /\ call \in [Callers -> Call] /\ CallsShaped
      /\ \A c \in Callers : 1..call[c].m.seq \subseteq handled
  BY NoCallMoves DEF Init, CallsShaped, At
<1>2. /\ gen \in [Gens -> Poller]
      /\ \A g \in Gens : gen[g].id = 0 /\ 1..gen[g].copy.seq \subseteq handled
  BY NoPollerType, NoneSeq DEF Init
<1>3. /\ loop \in [Gens -> [Loops -> Loop]]
      /\ \A g \in Gens, l \in Loops : loop[g][l] \in Resting /\ loop[g][l].pc = "off"
  <2>1. NoLoop.pc = "off" /\ NoLoop \in Resting /\ NoLoop \in Loop
    BY RestingType DEF NoLoop, Resting
  <2> QED BY <2>1 DEF Init
<1>4. /\ queue \in [Msgs -> Item]
      /\ \A m \in Msgs : queue[m].count <= queue[m].rcpt /\ queue[m].at = "queue"
  BY EventSourceAssumption DEF Init, Item
<1>5. /\ store \in [Ids -> Mapping \cup {None}]
      /\ \A i \in Ids : 1..store[i].seq \subseteq handled
  BY NoneSeq DEF Init
<1>6. TypeOK
  BY <1>1, <1>2, <1>3, <1>4, <1>5, EventSourceAssumption DEF Init, TypeOK
<1>7. PollersShaped
  BY <1>2, <1>3 DEF PollersShaped
<1>8. LoopsShaped
  BY <1>3, RestEarned DEF LoopsShaped
<1> QED BY <1>1, <1>2, <1>4, <1>5, <1>6, <1>7, <1>8 DEF ESInv, CopiesEarned, QueueEarned

LEMMA ESInvStep == ESInv /\ [Next]_vars => ESInv'
<1> SUFFICES ASSUME ESInv, [Next]_vars PROVE ESInv'
  OBVIOUS
<1>1. ASSUME NEW c \in Callers, CallStep(c) PROVE ESInv'
  BY <1>1, CallSaveInv, CallStartInv, CallStopInv, CallStoppedInv, CallRemoveInv DEF CallStep
<1>2. ASSUME NEW g \in Gens, NEW l \in Loops, PollStep(g, l) PROVE ESInv'
  BY <1>2, PollEffect, EffectInv
<1>3. CASE UNCHANGED vars
  <2>1. UNCHANGED <<pollVars, idleVars, store, smu, made, call, handled>>
    BY <1>3 DEF vars, pollVars, idleVars
  <2>2. CallPart
    BY <2>1 DEF CallPart, ESInv, TypeOK, CallsShaped, At, CopiesEarned
  <2> QED BY <2>1, <2>2, SameStore, CallFrame
<1> QED BY <1>1, <1>2, <1>3, ApiInv, SourceInv, RestartInv DEF Next

LEMMA ESInvariance == Spec => []ESInv
BY ESInvInit, ESInvStep, PTL DEF Spec

(* The service's state stays well formed: every generation, loop and call   *)
(* has the record its step expects.                                         *)
THEOREM EventSourceType == Spec => []TypeOK
BY ESInvariance, PTL DEF ESInv

(* A message leaves the queue only handled or with its receives used up,    *)
(* and no mapping, stored or in memory, is ahead of the stream records that *)
(* a run succeeded on: settle, saveLocked and UpdateMapping together.       *)
THEOREM EverythingAccounted == Spec => []Accounted
<1>1. ESInv => Accounted
  BY DEF ESInv, Accounted, CopiesEarned, QueueEarned, Existing
<1> QED BY <1>1, ESInvariance, PTL
(***************************************************************************)
(* Tags                                                                    *)
(***************************************************************************)
LEMMA SaveKeepsTags ==
  ASSUME ESInv, NEW id \in Ids, NEW m \in Mapping, Save(id, m) PROVE KeepsTags
<1> DEFINE v == IF store[id] = None THEN m ELSE [m EXCEPT !.tags = store[id].tags]
<1>1. store[id] # None => v.tags = store[id].tags
  BY DEF Mapping
<1> HIDE DEF v
<1>2. store' = [store EXCEPT ![id] = v]
  BY DEF Save, ESInv, TypeOK, v
<1> QED BY <1>1, <1>2 DEF KeepsTags, ESInv, TypeOK

(* A poll writes the store only to save its copy. *)
LEMMA PollStore ==
  ASSUME NEW g \in Gens, NEW l \in Loops, PollStep(g, l)
  PROVE  \/ UNCHANGED store
         \/ loop[g][l].pc # "off" /\ Save(gen[g].id, gen[g].copy)
<1>1. CASE SaveCopy(g, l)
  BY <1>1 DEF SaveCopy, In
<1>2. CASE ~SaveCopy(g, l)
  BY <1>2 DEF PollStep, Tick, ReceiveNothing, ReceiveError, SourceGone, ReceiveMessages, Filter,
     ReadStream, InvokeOK, InvokeError, FunctionGone, Settle, Advance, UpdateResult,
     DisableWithError, SelfStop, SelfStopped
<1> QED BY <1>1, <1>2

LEMMA TagStep == ESInv /\ [Next]_vars => [KeepsTags]_vars
<1> SUFFICES ASSUME ESInv, Next PROVE KeepsTags
  OBVIOUS
<1>s. ASSUME UNCHANGED store PROVE KeepsTags
  BY <1>s DEF KeepsTags
<1>1. ASSUME NEW c \in Callers, ApiCall(c) PROVE KeepsTags
  <2>1. CASE UpdateTags(c)
    <3>1. PICK i \in Existing : store' = [store EXCEPT ![i].tags = made + 1]
      BY <2>1 DEF UpdateTags
    <3>2. i \in Ids /\ store[i] \in Mapping /\ made' = made + 1
      BY <2>1 DEF UpdateTags, Begin, Existing, ESInv, TypeOK
    <3>3. [store[i] EXCEPT !.tags = made + 1].tags = made + 1
      BY <3>2 DEF Mapping
    <3>4. store' = [store EXCEPT ![i] = [store[i] EXCEPT !.tags = made + 1]]
      BY <3>1 DEF ESInv, TypeOK
    <3> QED BY <3>2, <3>3, <3>4 DEF KeepsTags, ESInv, TypeOK
  <2>2. CASE CreateMapping(c) \/ UpdateMapping(c) \/ DeleteMapping(c)
    BY <2>2, <1>s DEF CreateMapping, UpdateMapping, DeleteMapping
  <2> QED BY <1>1, <2>1, <2>2 DEF ApiCall
<1>2. ASSUME NEW c \in Callers, CallStep(c) PROVE KeepsTags
  <2>1. CASE CallSave(c)
    <3>1. ~At(c, "idle") /\ call[c].op \in {"create", "upsert", "update"} /\ Save(call[c].id, call[c].m)
      BY <2>1 DEF CallSave, At, ESInv, CallsShaped
    <3> QED BY <3>1, CallRecord, SaveKeepsTags
  <2>2. CASE CallRemove(c)
    BY <2>2 DEF CallRemove, KeepsTags, ESInv, TypeOK
  <2>3. CASE CallStart(c) \/ CallStop(c) \/ CallStopped(c)
    BY <2>3, <1>s DEF CallStart, CallStop, CallStopped
  <2> QED BY <1>2, <2>1, <2>2, <2>3 DEF CallStep
<1>3. ASSUME NEW g \in Gens, NEW l \in Loops, PollStep(g, l) PROVE KeepsTags
  BY <1>3, <1>s, PollStore, Running, SaveKeepsTags
<1>4. CASE VisibilityExpires \/ RecordAppended
  BY <1>4, <1>s DEF VisibilityExpires, RecordAppended, restVars
<1>5. CASE Restart
  <2>1. PICK keep \in Existing : store' = [Deduped(keep) EXCEPT ![keep] = Reenabled(store[keep])]
    BY <1>5 DEF Restart
  <2>2. keep \in Ids /\ store[keep] \in Mapping
    BY DEF Existing, ESInv, TypeOK
  <2>3. Reenabled(store[keep]).tags = store[keep].tags
    BY <2>2 DEF Reenabled, Mapping
  <2>4. \A i \in Ids : store'[i] = IF i = keep THEN Reenabled(store[keep]) ELSE None
    BY <2>1, <2>2 DEF Deduped
  <2> QED BY <2>3, <2>4 DEF KeepsTags
<1> QED BY <1>1, <1>2, <1>3, <1>4, <1>5 DEF Next

(* Only UpdateTags changes the tags of a mapping that stays: neither a      *)
(* poller's save nor the save of a call that read the mapping before undoes *)
(* it (Store.Save).                                                         *)
THEOREM TagsKept == Spec => TagsSurvive
BY ESInvariance, TagStep, PTL DEF Spec, TagsSurvive

(***************************************************************************)
(* Stopping                                                                *)
(***************************************************************************)
(* A caller in stop has Service.mu, and the poller it stops is the one on   *)
(* record; a poller whose stop has returned is stopped.                     *)
StopInv ==
  /\ \A c \in Callers : At(c, "stopping") =>
       /\ smu = c
       /\ pollers[call[c].id] # 0 => gen[pollers[call[c].id]].stopped
  /\ \A g \in Gens : gen[g].left => gen[g].stopped
  /\ PromptSteps => NoSaveAfterStop

LEMMA StopPoll ==
  ASSUME ESInv, StopInv, NEW g \in Gens, NEW l \in Loops, Effect(g, l) PROVE StopInv'
<1>1. pollers' = pollers /\ call' = call /\ smu' = smu
  BY DEF Effect, callVars
<1>2. \A h \in Gens : gen'[h].left = gen[h].left /\ (gen[h].stopped => gen'[h].stopped)
  BY DEF Effect, GenPart
<1>3. \A c \in Callers : At(c, "stopping") /\ pollers[call[c].id] # 0 => pollers[call[c].id] \in Gens
  BY CallRecord DEF At, ESInv, TypeOK
<1>4. NoSaveAfterStop => NoSaveAfterStop'
  <2>1. PICK r \in Loop : Turns(g, l, r) /\ (r.pc = "save" => ~gen[g].stopped)
    BY DEF Effect, LoopPart
  <2>2. Polling.pc # "save"
    BY DEF Polling, NoLoop
  <2> SUFFICES ASSUME NoSaveAfterStop, NEW h \in Gens, NEW k \in Loops, gen'[h].left
               PROVE  loop'[h][k].pc # "save"
    BY DEF NoSaveAfterStop, In
  <2>3. gen[h].left /\ gen[h].stopped /\ loop[h][k].pc # "save"
    BY <1>2 DEF StopInv, NoSaveAfterStop, In
  <2> QED BY <2>1, <2>2, <2>3 DEF Turns
<1> QED BY <1>1, <1>2, <1>3, <1>4 DEF StopInv, At

(* A step of a call that leaves the pollers alone and is not about stop. *)
LEMMA StopCall ==
  ASSUME StopInv, NEW c \in Callers, UNCHANGED <<idleVars, smu>>,
         \A d \in Callers : d # c => call'[d] = call[d], call'[c].pc # "stopping"
  PROVE  StopInv'
BY DEF StopInv, idleVars, At, NoSaveAfterStop, In

LEMMA OtherCalls ==
  ASSUME ESInv, NEW c \in Callers, NEW r, call' = [call EXCEPT ![c] = r]
  PROVE  call'[c] = r /\ \A d \in Callers : d # c => call'[d] = call[d]
BY DEF ESInv, TypeOK

LEMMA Returned ==
  ASSUME ESInv, NEW c \in Callers, Return(c)
  PROVE  /\ call'[c].pc = "idle" /\ call'[c].op = "" /\ call'[c].id = 0
         /\ \A d \in Callers : d # c => call'[d] = call[d]
<1>1. call' = [call EXCEPT ![c] = NoCall]
  BY DEF Return
<1>2. call'[c] = NoCall /\ \A d \in Callers : d # c => call'[d] = call[d]
  BY <1>1, OtherCalls
<1>3. NoCall.pc = "idle" /\ NoCall.op = "" /\ NoCall.id = 0
  BY DEF NoCall
<1> QED BY <1>2, <1>3

LEMMA Gone ==
  ASSUME ESInv, NEW c \in Callers, NEW pc, Goto(c, pc)
  PROVE  /\ call'[c].pc = pc /\ call'[c].op = call[c].op /\ call'[c].id = call[c].id
         /\ \A d \in Callers : d # c => call'[d] = call[d]
<1>1. call' = [call EXCEPT ![c] = [call[c] EXCEPT !.pc = pc]]
  BY DEF Goto, ESInv, TypeOK
<1>2. call[c] \in Call
  BY DEF ESInv, TypeOK
<1>3. /\ call'[c] = [call[c] EXCEPT !.pc = pc]
      /\ \A d \in Callers : d # c => call'[d] = call[d]
  BY <1>1, OtherCalls
<1> QED BY <1>2, <1>3 DEF Call

(* While Service.mu is free nobody is in stop. *)
LEMMA FreeMutex ==
  ASSUME StopInv, smu = Nobody PROVE \A d \in Callers : ~At(d, "stopping")
BY EventSourceAssumption DEF StopInv

LEMMA StopApi == ASSUME ESInv, StopInv, NEW c \in Callers, ApiCall(c) PROVE StopInv'
<1>1. CASE UpdateTags(c)
  <2>1. At(c, "idle") /\ UNCHANGED <<idleVars, smu, call>>
    BY <1>1 DEF UpdateTags, Begin
  <2> QED BY <2>1, StopCall DEF At
<1>2. ASSUME NEW r, call' = [call EXCEPT ![c] = r], r.pc # "stopping", UNCHANGED <<idleVars, smu>>
      PROVE  StopInv'
  BY <1>2, OtherCalls, StopCall
<1>a. ASSUME NEW pc \in {"save", "stop"}, NEW op, NEW id, NEW m, UNCHANGED <<idleVars, smu>>,
             call' = [call EXCEPT ![c] = [pc |-> pc, op |-> op, id |-> id, m |-> m]]
      PROVE  StopInv'
  <2> DEFINE q == [pc |-> pc, op |-> op, id |-> id, m |-> m]
  <2>1. q.pc # "stopping"
    OBVIOUS
  <2> HIDE DEF q
  <2>2. call' = [call EXCEPT ![c] = q]
    BY <1>a DEF q
  <2> QED BY <1>2, <1>a, <2>1, <2>2
<1>3. CASE CreateMapping(c)
  <2>1. UNCHANGED <<idleVars, smu>>
    BY <1>3 DEF CreateMapping
  <2>2. PICK e \in BOOLEAN :
          \/ call' = [call EXCEPT ![c] = [pc |-> "save", op |-> "create", id |-> made + 1,
                                          m |-> NewMapping(e)]]
          \/ \E i \in Existing :
               call' = [call EXCEPT ![c] =
                 [pc |-> "stop", op |-> "upsert", id |-> i,
                  m |-> [store[i] EXCEPT !.ver = made + 1, !.enabled = e]]]
    BY <1>3 DEF CreateMapping
  <2>3. CASE call' = [call EXCEPT ![c] = [pc |-> "save", op |-> "create", id |-> made + 1,
                                          m |-> NewMapping(e)]]
    BY <1>a, <2>1, <2>3
  <2>4. ASSUME NEW i \in Existing,
               call' = [call EXCEPT ![c] =
                 [pc |-> "stop", op |-> "upsert", id |-> i,
                  m |-> [store[i] EXCEPT !.ver = made + 1, !.enabled = e]]]
        PROVE  StopInv'
    BY <1>a, <2>1, <2>4
  <2> QED BY <2>2, <2>3, <2>4
<1>4. CASE UpdateMapping(c)
  <2>1. PICK i \in Existing, e \in BOOLEAN :
          call' = [call EXCEPT ![c] =
            [pc |-> "save", op |-> "update", id |-> i,
             m |-> [store[i] EXCEPT !.ver = made + 1, !.enabled = e]]]
    BY <1>4 DEF UpdateMapping
  <2> QED BY <1>a, <1>4, <2>1 DEF UpdateMapping
<1>5. CASE DeleteMapping(c)
  <2>1. PICK i \in Existing : call' = [call EXCEPT ![c] = [pc |-> "stop", op |-> "delete",
                                                            id |-> i, m |-> None]]
    BY <1>5 DEF DeleteMapping
  <2> QED BY <1>a, <1>5, <2>1 DEF DeleteMapping
<1> QED BY <1>1, <1>3, <1>4, <1>5 DEF ApiCall

LEMMA StopSave == ASSUME ESInv, StopInv, NEW c \in Callers, CallSave(c) \/ CallRemove(c)
  PROVE StopInv'
<1>1. UNCHANGED <<idleVars, smu>>
  BY DEF CallSave, CallRemove
<1>2. Return(c) \/ Goto(c, "stop") \/ Goto(c, "start")
  <2>1. CASE CallSave(c)
    <3>1. call[c].op = "update" \/ (call[c].op # "update" /\ call[c].m.enabled)
          \/ (call[c].op # "update" /\ ~call[c].m.enabled)
      OBVIOUS
    <3> QED BY <2>1, <3>1 DEF CallSave
  <2>2. CASE CallRemove(c)
    BY <2>2 DEF CallRemove
  <2> QED BY <2>1, <2>2
<1>3. CASE Return(c)
  BY <1>1, <1>3, Returned, StopCall
<1>4. CASE Goto(c, "stop")
  BY <1>1, <1>4, Gone, StopCall
<1>5. CASE Goto(c, "start")
  BY <1>1, <1>5, Gone, StopCall
<1> QED BY <1>2, <1>3, <1>4, <1>5

(* A step that ends with nobody in stop. *)
LEMMA NobodyStops ==
  ASSUME ESInv, StopInv, \A d \in Callers : call'[d].pc # "stopping",
         \A g \in Gens :
           \/ loop'[g] = FirstLoop /\ ~gen'[g].left
           \/ loop'[g] = loop[g] /\ gen'[g] = gen[g]
           \/ /\ loop'[g] = loop[g] /\ gen'[g].stopped
              /\ PromptSteps => \A l \in Loops : loop[g][l].pc # "save"
  PROVE  StopInv'
<1>1. \A c \in Callers : ~(At(c, "stopping"))'
  BY DEF At
<1>2. \A g \in Gens : gen'[g].left => gen'[g].stopped
  BY DEF StopInv
<1>3. ASSUME PromptSteps, NEW g \in Gens, NEW l \in Loops, gen'[g].left
      PROVE  loop'[g][l].pc # "save"
  BY <1>3 DEF StopInv, NoSaveAfterStop, In
<1> QED BY <1>1, <1>2, <1>3 DEF StopInv, NoSaveAfterStop, In

LEMMA StopStart == ASSUME ESInv, StopInv, NEW c \in Callers, CallStart(c) PROVE StopInv'
<1>1. /\ At(c, "start") /\ ~At(c, "idle") /\ smu = Nobody /\ Return(c)
      /\ Start(call[c].id, call[c].m)
  BY DEF CallStart, At
<1>2. \A d \in Callers : call'[d].pc # "stopping"
  BY <1>1, FreeMutex, Returned DEF At
<1>3. call[c].id \in Ids /\ call[c].m \in Mapping
  BY <1>1, CallRecord DEF ESInv, CallsShaped
<1>4. \A g \in Gens : \/ loop'[g] = FirstLoop /\ ~gen'[g].left
                      \/ loop'[g] = loop[g] /\ gen'[g] = gen[g]
  BY <1>1, <1>3, FreshPoller DEF Start, ESInv, TypeOK
<1> QED BY <1>2, <1>4, NobodyStops

LEMMA StopStop == ASSUME ESInv, StopInv, NEW c \in Callers, CallStop(c) PROVE StopInv'
<1> DEFINE g == pollers[call[c].id]
<1>1. /\ At(c, "stop") /\ ~At(c, "idle") /\ smu = Nobody /\ smu' = c /\ Goto(c, "stopping")
      /\ gen' = IF g = 0 THEN gen ELSE [gen EXCEPT ![g].stopped = TRUE]
      /\ pollers' = pollers /\ loop' = loop
  BY DEF CallStop, At
<1>2. call[c].id \in Ids /\ g \in Gens \cup {0}
  BY <1>1, CallRecord DEF ESInv, TypeOK
<1>3. /\ call'[c].id = call[c].id /\ call'[c].pc = "stopping"
      /\ \A d \in Callers : d # c => call'[d].pc # "stopping"
  BY <1>1, FreeMutex, Gone DEF At
<1>4. /\ g # 0 => gen'[g].stopped
      /\ \A h \in Gens : gen'[h].left = gen[h].left /\ (gen[h].stopped => gen'[h].stopped)
  <2>1. CASE g = 0
    BY <1>1, <2>1
  <2>2. CASE g # 0
    <3>1. gen[g] \in Poller
      BY <1>2, <2>2 DEF ESInv, TypeOK
    <3>2. gen' = [gen EXCEPT ![g] = [gen[g] EXCEPT !.stopped = TRUE]]
      BY <1>1, <2>2 DEF ESInv, TypeOK
    <3>3. gen'[g] = [gen[g] EXCEPT !.stopped = TRUE] /\ \A h \in Gens : h # g => gen'[h] = gen[h]
      BY <1>2, <2>2, <3>2 DEF ESInv, TypeOK
    <3>4. [gen[g] EXCEPT !.stopped = TRUE].stopped /\ [gen[g] EXCEPT !.stopped = TRUE].left = gen[g].left
      BY <3>1 DEF Poller
    <3> QED BY <2>2, <3>3, <3>4
  <2> QED BY <2>1, <2>2
<1> QED BY <1>1, <1>3, <1>4 DEF StopInv, At, NoSaveAfterStop, In

(* Once the grace is over, or all loops have left, no loop is at its save: a *)
(* loop at its save has poller.mu and is neither parked nor gone.            *)
LEMMA NoSaveWaits ==
  ASSUME ESInv, PromptSteps, NEW g \in Gens, Exited(g) \/ GraceOver(g), NEW l \in Loops
  PROVE  loop[g][l].pc # "save"
<1> SUFFICES ASSUME loop[g][l].pc = "save" PROVE FALSE
  OBVIOUS
<1>1. pmu[g] = l
  BY DEF ESInv, LoopsShaped, Shaped
<1> QED BY <1>1 DEF Exited, GraceOver, Parked

LEMMA StopStopped == ASSUME ESInv, StopInv, NEW c \in Callers, CallStopped(c) PROVE StopInv'
<1> DEFINE id == call[c].id
           g == pollers[id]
<1>1. /\ At(c, "stopping") /\ ~At(c, "idle") /\ smu = c
      /\ g # 0 => Exited(g) \/ GraceOver(g)
  BY DEF CallStopped, At
<1>2. id \in Ids /\ g \in Gens \cup {0} /\ call[c].op \in {"upsert", "update", "delete"}
  BY <1>1, CallRecord DEF ESInv, TypeOK, CallsShaped
<1>3. \A d \in Callers : call'[d].pc # "stopping"
  <2>1. \A d \in Callers : d # c => call[d].pc # "stopping"
    BY <1>1 DEF StopInv, At
  <2>2. Return(c) \/ Goto(c, "save") \/ Goto(c, "remove")
    BY <1>2 DEF CallStopped
  <2>3. CASE Return(c)
    BY <2>1, <2>3, Returned
  <2>4. CASE Goto(c, "save")
    BY <2>1, <2>4, Gone
  <2>5. CASE Goto(c, "remove")
    BY <2>1, <2>5, Gone
  <2> QED BY <2>2, <2>3, <2>4, <2>5
<1>4. g # 0 => /\ gen[g].stopped /\ gen[g] \in Poller
               /\ PromptSteps => \A l \in Loops : loop[g][l].pc # "save"
  BY <1>1, <1>2, NoSaveWaits DEF StopInv, ESInv, TypeOK
<1>5. g # 0 => [gen[g] EXCEPT !.left = TRUE].stopped
  BY <1>4 DEF Poller
<1>6. CASE call[c].op = "update" /\ call[c].m.enabled
  <2>1. call[c].m \in Mapping
    BY <1>1, <1>6, CallRecord
  <2>2. /\ last + 1 \in Gens
        /\ gen' = [h \in Gens |->
                     IF h = last + 1 THEN Fresh(id, call[c].m)
                     ELSE IF h = g THEN [gen[h] EXCEPT !.left = TRUE] ELSE gen[h]]
        /\ loop' = [loop EXCEPT ![last + 1] = FirstLoop]
    BY <1>6 DEF CallStopped
  <2>3. /\ loop'[last + 1] = FirstLoop /\ \A h \in Gens : h # last + 1 => loop'[h] = loop[h]
    BY <2>2 DEF ESInv, TypeOK
  <2> HIDE DEF g, id
  <2>4. gen'[last + 1] = Fresh(id, call[c].m) /\ ~gen'[last + 1].left
    BY <1>2, <2>1, <2>2, FreshPoller
  <2>5. \A h \in Gens : h # last + 1 => gen'[h] = IF h = g THEN [gen[g] EXCEPT !.left = TRUE] ELSE gen[h]
    BY <2>2
  <2>6. \A h \in Gens : h # last + 1 /\ h = g => h # 0
    BY EventSourceAssumption DEF Gens
  <2> QED BY <1>3, <1>4, <1>5, <2>3, <2>4, <2>5, <2>6, NobodyStops
<1>7. CASE ~(call[c].op = "update" /\ call[c].m.enabled)
  <2>1. /\ UNCHANGED loop
        /\ gen' = IF g = 0 THEN gen ELSE [gen EXCEPT ![g].left = TRUE]
    BY <1>7 DEF CallStopped
  <2>2. CASE g = 0
    BY <1>3, <2>1, <2>2, NobodyStops
  <2>3. CASE g # 0
    <3>1. gen' = [gen EXCEPT ![g] = [gen[g] EXCEPT !.left = TRUE]]
      BY <2>1, <2>3 DEF ESInv, TypeOK
    <3>2. gen'[g] = [gen[g] EXCEPT !.left = TRUE] /\ \A h \in Gens : h # g => gen'[h] = gen[h]
      BY <1>2, <2>3, <3>1 DEF ESInv, TypeOK
    <3> HIDE DEF g, id
    <3> QED BY <1>3, <1>4, <1>5, <2>1, <2>3, <3>2, NobodyStops
  <2> QED BY <2>2, <2>3
<1> QED BY <1>6, <1>7

LEMMA StopRestart == ASSUME ESInv, StopInv, Restart PROVE StopInv'
<1>1. \A d \in Callers : call'[d].pc # "stopping"
  BY DEF Restart, NoCall
<1>2. PICK keep \in Existing :
        LET m == Reenabled(store[keep]) IN
        gen' = [g \in Gens |-> IF g = 1 /\ m.enabled THEN Fresh(keep, m) ELSE NoPoller]
  BY DEF Restart
<1> DEFINE m == Reenabled(store[keep])
<1>3. keep \in Ids /\ store[keep] \in Mapping
  BY DEF Existing, ESInv, TypeOK
<1>4. m \in Mapping
  BY <1>3 DEF Reenabled, Mapping
<1>5. \A g \in Gens : ~gen'[g].left
  BY <1>2, <1>3, <1>4, FreshPoller, NoPollerType
<1> QED BY <1>1, <1>5 DEF StopInv, At, NoSaveAfterStop

LEMMA StopStep == ESInv /\ StopInv /\ [Next]_vars => StopInv'
<1> SUFFICES ASSUME ESInv, StopInv, [Next]_vars PROVE StopInv'
  OBVIOUS
<1>1. ASSUME NEW c \in Callers, CallStep(c) PROVE StopInv'
  BY <1>1, StopSave, StopStart, StopStop, StopStopped DEF CallStep
<1>2. ASSUME NEW g \in Gens, NEW l \in Loops, PollStep(g, l) PROVE StopInv'
  BY <1>2, PollEffect, StopPoll
<1>3. CASE UNCHANGED vars
  BY <1>3 DEF vars, StopInv, At, NoSaveAfterStop, In
<1>4. CASE VisibilityExpires \/ RecordAppended
  BY <1>4 DEF VisibilityExpires, RecordAppended, restVars, StopInv, At, NoSaveAfterStop, In
<1> QED BY <1>1, <1>2, <1>3, <1>4, StopApi, StopRestart DEF Next

LEMMA StopInvariance == Spec => []StopInv
<1>1. Init => StopInv
  <2> SUFFICES ASSUME Init PROVE StopInv
    OBVIOUS
  <2>1. \A c \in Callers : ~At(c, "stopping")
    BY DEF Init, At, NoCall
  <2>2. \A g \in Gens : ~gen[g].left
    BY NoPollerType DEF Init
  <2> QED BY <2>1, <2>2 DEF StopInv, NoSaveAfterStop
<1> QED BY <1>1, StopStep, ESInvariance, PTL DEF Spec

(* When only an invoke outlasts pollerStopGrace, a poller whose stop has    *)
(* returned saves nothing more: saveLocked tests stopped before it saves,   *)
(* and stop waits for a save that is under way.  Without that assumption    *)
(* the theorem does not hold: stop gives up waiting after the grace.        *)
THEOREM StoppedSavesNothing ==
  ASSUME PromptSteps PROVE Spec => []NoSaveAfterStop
<1>1. StopInv => NoSaveAfterStop
  BY DEF StopInv
<1> QED BY <1>1, StopInvariance, PTL
============================================================================
