---------------------------- MODULE EventSource ----------------------------
(***************************************************************************)
(* Event source mappings of internal/eventsource (service.go, poller.go,    *)
(* store.go): mappings created, updated and deleted by API calls, pollers   *)
(* that read a queue or a stream, invoke the function and settle the batch, *)
(* and the saves of both into one store.                                    *)
(*                                                                          *)
(* All mappings here are of one event source and one function.  A poller is *)
(* a generation: every start makes a new one, with its own copy of the      *)
(* mapping.  Its loops are numbered: 1 is run, the others are drain loops.  *)
(* A configuration (batch size, filter, function) is a version number.  The *)
(* queue is reduced to what a poller can tell: is a message visible, how    *)
(* often was it received, is this still its receipt.                        *)
(***************************************************************************)
EXTENDS Naturals, Sequences, FiniteSets

CONSTANTS
  Sources,     \* the kinds of source explored: "sqs", "dynamodb-stream"
  Callers,     \* concurrent API callers
  Msgs,        \* messages of the queue
  Filters,     \* the mapping's filters explored: each is the set of messages it refuses
  MaxReceiveCount, \* of the queue's redrive policy
  Concurrency, \* loops() of a queue's poller
  NotFoundMax, \* maxConsecutiveNotFoundRetries
  BatchSize,
  PromptSteps, \* TRUE: only an invoke (or a poller's own stop) outlasts pollerStopGrace
  Kinds,       \* the API calls explored
  MaxCalls,    \* bound: API calls
  MaxRestarts, \* bound: restarts of the process
  MaxReceives, \* bound: receives of one message
  MaxRecords   \* bound: records appended to the stream

Nobody == "nobody"

ASSUME EventSourceAssumption ==
  /\ Nobody \notin Callers
  /\ Sources \subseteq {"sqs", "dynamodb-stream"}
  /\ Filters \subseteq SUBSET Msgs
  /\ MaxReceiveCount \in Nat /\ Concurrency \in Nat \ {0}
  /\ NotFoundMax \in Nat \ {0} /\ BatchSize \in Nat \ {0}
  /\ PromptSteps \in BOOLEAN
  /\ MaxCalls \in Nat /\ MaxRestarts \in Nat /\ MaxReceives \in Nat /\ MaxRecords \in Nat

VARIABLES
  kind,    \* SourceType of the mappings
  refused, \* messages that fail their FilterCriteria
  store,   \* Store.mappings
  pollers, \* Service.pollers: mapping -> generation (0: none)
  gen,     \* generation -> poller
  last,    \* the newest generation of this process
  loop,    \* generation, loop -> what the goroutine does
  pmu,     \* generation -> the loop that holds poller.mu (0: none)
  call,    \* API caller -> what its goroutine does
  smu,     \* the caller that holds Service.mu (Nobody: free)
  made,    \* API calls made so far
  boots,   \* restarts so far
  queue,   \* message -> its place, receives and visibility
  head,    \* records in the stream
  handled  \* history: messages and records that a run of the function succeeded on

vars == <<kind, refused, store, pollers, gen, last, loop, pmu, call, smu, made, boots,
          queue, head, handled>>

(* no mapping under this id *)
None == [ver |-> 0, enabled |-> FALSE, seq |-> 0, tags |-> 0, res |-> "none"]
Ids == 1..MaxCalls
Gens == 1..(MaxCalls + 1)
Loops == 1..Concurrency
Records == 1..MaxRecords

Mapping ==
  [ver : 0..MaxCalls, enabled : BOOLEAN, seq : 0..MaxRecords, tags : 0..MaxCalls,
   res : {"", "OK", "ERROR", "DISABLED"}]
Receipt == [m : Msgs, rcpt : 0..MaxReceives]
Steps == {"off", "idle", "poll", "filter", "invoke", "settle", "advance", "result",
          "disable", "save", "selfstop", "selfwait"}

NoLoop == [pc |-> "off", batch |-> {}, failed |-> {}, next |-> 0, todo |-> <<>>,
           res |-> "", more |-> FALSE]
NoCall == [pc |-> "idle", op |-> "", id |-> 0, m |-> None]
NoPoller == [id |-> 0, copy |-> None, stopped |-> FALSE, left |-> FALSE, streak |-> 0]

Poller ==
  [id : Ids \cup {0}, copy : Mapping \cup {None}, stopped : BOOLEAN, left : BOOLEAN,
   streak : 0..NotFoundMax]
Loop ==
  LET Batch == IF kind = "sqs" THEN Receipt ELSE Records IN
  [pc : Steps, batch : SUBSET Batch, failed : SUBSET Batch, next : 0..MaxRecords,
   todo : {<<>>, <<"result">>, <<"settle">>, <<"selfstop">>}, res : {"", "OK", "ERROR"},
   more : BOOLEAN]
Call ==
  [pc : {"idle", "save", "start", "stop", "stopping", "remove"},
   op : {"", "create", "upsert", "update", "delete"}, id : Ids \cup {0}, m : Mapping \cup {None}]
Item ==
  [at : {"queue", "gone", "dlq"}, count : 0..MaxReceives, rcpt : 0..MaxReceives, hidden : BOOLEAN]

TypeOK ==
  /\ kind \in Sources /\ refused \in Filters
  /\ store \in [Ids -> Mapping \cup {None}]
  /\ pollers \in [Ids -> Gens \cup {0}] /\ last \in Gens \cup {0}
  /\ gen \in [Gens -> Poller] /\ pmu \in [Gens -> Loops \cup {0}]
  /\ loop \in [Gens -> [Loops -> Loop]]
  /\ call \in [Callers -> Call] /\ smu \in Callers \cup {Nobody}
  /\ made \in 0..MaxCalls /\ boots \in 0..MaxRestarts /\ head \in 0..MaxRecords
  /\ queue \in [Msgs -> Item] /\ \A m \in Msgs : queue[m].count <= queue[m].rcpt
  /\ handled \subseteq Msgs \cup Records

Init ==
  /\ kind \in Sources /\ refused \in Filters
  /\ store = [i \in Ids |-> None]
  /\ pollers = [i \in Ids |-> 0] /\ gen = [g \in Gens |-> NoPoller] /\ last = 0
  /\ loop = [g \in Gens |-> [l \in Loops |-> NoLoop]] /\ pmu = [g \in Gens |-> 0]
  /\ call = [c \in Callers |-> NoCall] /\ smu = Nobody /\ made = 0 /\ boots = 0
  /\ queue = [m \in Msgs |-> [at |-> "queue", count |-> 0, rcpt |-> 0, hidden |-> FALSE]]
  /\ head = 0 /\ handled = {}

(***************************************************************************)
(* The store and the generations of pollers                                *)
(***************************************************************************)

(* Mutant: the caller's tags replace the stored ones. *)
SavePlain(id, m) == store' = [store EXCEPT ![id] = m]

(* Store.Save keeps the tags of the mapping it replaces *)
Save(id, m) ==
  store' = [store EXCEPT ![id] = IF @ = None THEN m ELSE [m EXCEPT !.tags = store[id].tags]]

MaxLoops == IF kind = "dynamodb-stream" THEN 1 ELSE Concurrency

Fresh(id, m) == [NoPoller EXCEPT !.id = id, !.copy = m]
FirstLoop == [l \in Loops |-> IF l = 1 THEN [NoLoop EXCEPT !.pc = "idle"] ELSE NoLoop]

(* newPoller and start; a call starts at most one, so Gens is never used up *)
Start(id, m) ==
  /\ last + 1 \in Gens /\ last' = last + 1
  /\ gen' = [gen EXCEPT ![last + 1] = Fresh(id, m)]
  /\ loop' = [loop EXCEPT ![last + 1] = FirstLoop]
  /\ pollers' = [pollers EXCEPT ![id] = last + 1]

Exited(g) == \A l \in Loops : loop[g][l].pc = "off"

(* a loop that may stay where it is for longer than pollerStopGrace: it invokes, *)
(* waits in a stop of its own, or waits for the mutex of one that does          *)
Parked(g, l) ==
  \/ loop[g][l].pc \in {"off", "invoke", "selfwait"}
  \/ pmu[g] # 0 /\ loop[g][pmu[g]].pc = "selfwait"

(* the timer of stop *)
GraceOver(g) == PromptSteps => \A l \in Loops : Parked(g, l)

(***************************************************************************)
(* API calls                                                               *)
(***************************************************************************)
pollVars == <<kind, refused, pmu, queue, head, handled, boots>>
idleVars == <<gen, last, loop, pollers>>

At(c, pc) == call[c].pc = pc
Return(c) == call' = [call EXCEPT ![c] = NoCall]
Goto(c, pc) == call' = [call EXCEPT ![c].pc = pc]
Begin(c, op) == At(c, "idle") /\ made < MaxCalls /\ op \in Kinds /\ made' = made + 1

NewMapping(e) == [ver |-> made + 1, enabled |-> e, seq |-> 0, tags |-> 0, res |-> ""]
Existing == {i \in Ids : store[i] # None}

(* CreateMapping looks for a mapping of its source and function, without a lock *)
CreateMapping(c) ==
  /\ Begin(c, "create")
  /\ \E e \in BOOLEAN :
       IF Existing = {}
       THEN call' = [call EXCEPT ![c] = [pc |-> "save", op |-> "create", id |-> made + 1,
                                         m |-> NewMapping(e)]]
       ELSE \E i \in Existing :
              call' = [call EXCEPT ![c] =
                [pc |-> "stop", op |-> "upsert", id |-> i,
                 m |-> [store[i] EXCEPT !.ver = made + 1, !.enabled = e]]]
  /\ UNCHANGED <<pollVars, idleVars, store, smu>>

(* UpdateMapping works on a copy of the mapping *)
UpdateMapping(c) ==
  /\ Begin(c, "update")
  /\ \E i \in Existing, e \in BOOLEAN :
       call' = [call EXCEPT ![c] =
         [pc |-> "save", op |-> "update", id |-> i,
          m |-> [store[i] EXCEPT !.ver = made + 1, !.enabled = e]]]
  /\ UNCHANGED <<pollVars, idleVars, store, smu>>

DeleteMapping(c) ==
  /\ Begin(c, "delete")
  /\ \E i \in Existing : call' = [call EXCEPT ![c] = [pc |-> "stop", op |-> "delete",
                                                      id |-> i, m |-> None]]
  /\ UNCHANGED <<pollVars, idleVars, store, smu>>

UpdateTags(c) ==
  /\ Begin(c, "tag")
  /\ \E i \in Existing : store' = [store EXCEPT ![i].tags = made + 1]
  /\ UNCHANGED <<pollVars, idleVars, smu, call>>

CallSave(c) ==
  /\ At(c, "save")
  /\ Save(call[c].id, call[c].m)
  /\ CASE call[c].op = "update"                     -> Goto(c, "stop")
       [] call[c].op # "update" /\ call[c].m.enabled  -> Goto(c, "start")
       [] call[c].op # "update" /\ ~call[c].m.enabled -> Return(c)
  /\ UNCHANGED <<pollVars, idleVars, smu, made>>

CallStart(c) ==
  /\ At(c, "start") /\ smu = Nobody
  /\ Start(call[c].id, call[c].m)
  /\ Return(c)
  /\ UNCHANGED <<pollVars, store, smu, made>>

(* stop under Service.mu: close done; the wait for the loops is CallStopped *)
CallStop(c) ==
  LET g == pollers[call[c].id] IN
  /\ At(c, "stop") /\ smu = Nobody
  /\ smu' = c /\ Goto(c, "stopping")
  /\ gen' = IF g = 0 THEN gen ELSE [gen EXCEPT ![g].stopped = TRUE]
  /\ UNCHANGED <<pollVars, last, loop, pollers, store, made>>

(* the old poller has left, or its grace is over: forget it, and for an update *)
(* start the new one, all under Service.mu                                     *)
CallStopped(c) ==
  LET id == call[c].id
      g  == pollers[id] IN
  /\ At(c, "stopping") /\ smu = c
  /\ g # 0 => Exited(g) \/ GraceOver(g)
  /\ smu' = Nobody
  /\ IF call[c].op = "update" /\ call[c].m.enabled
     THEN /\ last + 1 \in Gens /\ last' = last + 1
          /\ gen' = [h \in Gens |->
                       IF h = last + 1 THEN Fresh(id, call[c].m)
                       ELSE IF h = g THEN [gen[h] EXCEPT !.left = TRUE] ELSE gen[h]]
          /\ loop' = [loop EXCEPT ![last + 1] = FirstLoop]
          /\ pollers' = [pollers EXCEPT ![id] = last + 1]
     ELSE /\ pollers' = [pollers EXCEPT ![id] = 0]
          /\ gen' = IF g = 0 THEN gen ELSE [gen EXCEPT ![g].left = TRUE]
          /\ UNCHANGED <<last, loop>>
  /\ CASE call[c].op = "update" -> Return(c)
       [] call[c].op = "upsert" -> Goto(c, "save")
       [] call[c].op = "delete" -> Goto(c, "remove")
  /\ UNCHANGED <<pollVars, store, made>>

CallRemove(c) ==
  /\ At(c, "remove")
  /\ store' = [store EXCEPT ![call[c].id] = None]
  /\ Return(c)
  /\ UNCHANGED <<pollVars, idleVars, smu, made>>

ApiCall(c) ==
  CreateMapping(c) \/ UpdateMapping(c) \/ DeleteMapping(c) \/ UpdateTags(c)

CallStep(c) ==
  CallSave(c) \/ CallStart(c) \/ CallStop(c) \/ CallStopped(c) \/ CallRemove(c)

(***************************************************************************)
(* A poll of one loop                                                      *)
(***************************************************************************)
callVars == <<kind, refused, pollers, last, call, smu, made, boots>>

In(g, l, pc) == loop[g][l].pc = pc
Set(g, l, r) == [loop EXCEPT ![g][l] = r]

(* scaleUp fills the poller up to loops() loops *)
ScaledUp(g, l) ==
  [k \in Loops |-> IF k = l THEN [NoLoop EXCEPT !.pc = "poll"]
                   ELSE IF In(g, k, "off") /\ k <= MaxLoops THEN [NoLoop EXCEPT !.pc = "poll"]
                   ELSE loop[g][k]]

(* poll returns: run goes on at once (and scales up) or waits for its tick, *)
(* a drain loop goes on or exits                                            *)
PollReturns(g, l, more) ==
  IF l = 1
  THEN IF ~more THEN Set(g, l, [NoLoop EXCEPT !.pc = "idle"])
       ELSE IF gen[g].stopped THEN Set(g, l, NoLoop)
       ELSE [loop EXCEPT ![g] = ScaledUp(g, l)]
  ELSE IF more /\ ~gen[g].stopped THEN Set(g, l, [NoLoop EXCEPT !.pc = "poll"])
       ELSE Set(g, l, NoLoop)

(* go on with the next of the poll's remaining steps *)
Continue(g, l, r) ==
  IF r.todo = <<>> THEN PollReturns(g, l, r.more)
  ELSE Set(g, l, [r EXCEPT !.pc = Head(r.todo), !.todo = Tail(r.todo)])

Tick(g, l) ==
  /\ In(g, l, "idle")
  /\ loop' = Set(g, l, IF gen[g].stopped THEN NoLoop ELSE [NoLoop EXCEPT !.pc = "poll"])
  /\ UNCHANGED <<callVars, store, gen, pmu, queue, head, handled>>

(* an empty receive: nothing came, or done was closed *)
ReceiveNothing(g, l) ==
  /\ In(g, l, "poll") /\ pmu[g] = 0
  /\ gen' = [gen EXCEPT ![g].streak = 0]
  /\ loop' = PollReturns(g, l, FALSE)
  /\ UNCHANGED <<callVars, store, pmu, queue, head, handled>>

ReceiveError(g, l) ==
  /\ In(g, l, "poll") /\ ~gen[g].stopped
  /\ loop' = Set(g, l, [NoLoop EXCEPT !.pc = "result", !.res = "ERROR"])
  /\ UNCHANGED <<callVars, store, gen, pmu, queue, head, handled>>

SourceGone(g, l) ==
  /\ In(g, l, "poll") /\ ~gen[g].stopped
  /\ loop' = Set(g, l, [NoLoop EXCEPT !.pc = "disable"])
  /\ UNCHANGED <<callVars, store, gen, pmu, queue, head, handled>>

Receivable == {m \in Msgs : queue[m].at = "queue" /\ ~queue[m].hidden
                            /\ queue[m].rcpt < MaxReceives}

(* up to BatchSize messages become invisible and get a new receipt *)
ReceiveMessages(g, l) ==
  /\ kind = "sqs" /\ In(g, l, "poll") /\ ~gen[g].stopped /\ pmu[g] = 0
  /\ \E ms \in SUBSET Receivable :
       /\ ms # {} /\ Cardinality(ms) <= BatchSize
       /\ queue' = [m \in Msgs |->
            IF m \in ms THEN [queue[m] EXCEPT !.hidden = TRUE, !.count = @ + 1, !.rcpt = @ + 1]
            ELSE queue[m]]
       /\ loop' = Set(g, l, [NoLoop EXCEPT
            !.pc = IF ms \cap refused = {} THEN "invoke" ELSE "filter",
            !.batch = {[m |-> m, rcpt |-> queue'[m].rcpt] : m \in ms},
            !.more = Cardinality(ms) = BatchSize])
  /\ gen' = [gen EXCEPT ![g].streak = 0]
  /\ UNCHANGED <<callVars, store, pmu, head, handled>>

(* messages the filter refuses are released and their receive is taken back *)
Filter(g, l) ==
  LET b    == loop[g][l].batch
      miss == {x \in b : x.m \in refused} IN
  /\ In(g, l, "filter")
  /\ queue' = [m \in Msgs |->
       IF queue[m].at = "queue" /\ [m |-> m, rcpt |-> queue[m].rcpt] \in miss
       THEN [queue[m] EXCEPT !.hidden = FALSE, !.count = IF @ > 0 THEN @ - 1 ELSE 0]
       ELSE queue[m]]
  /\ loop' = IF miss = b THEN PollReturns(g, l, FALSE)
             ELSE Set(g, l, [loop[g][l] EXCEPT !.pc = "invoke", !.batch = b \ miss])
  /\ UNCHANGED <<callVars, store, gen, pmu, head, handled>>

(* StreamBatchUntil after the copy's LastStreamSequence *)
ReadStream(g, l) ==
  LET seq  == gen[g].copy.seq
      next == IF head < seq + BatchSize THEN head ELSE seq + BatchSize IN
  /\ kind = "dynamodb-stream" /\ In(g, l, "poll") /\ ~gen[g].stopped /\ pmu[g] = 0
  /\ head > seq
  /\ gen' = [gen EXCEPT ![g].streak = 0]
  /\ loop' = Set(g, l, [NoLoop EXCEPT !.pc = "invoke", !.batch = (seq + 1)..next,
                                      !.next = next, !.more = (next = seq + BatchSize)])
  /\ UNCHANGED <<callVars, store, pmu, queue, head, handled>>

(* the function ran: on a queue it may report some messages as failed, or fail *)
(* as a whole; on a stream it fails as a whole or not at all                   *)
InvokeOK(g, l) ==
  LET r == loop[g][l] IN
  /\ In(g, l, "invoke") /\ (kind = "sqs" => pmu[g] = 0)
  /\ \E failed \in SUBSET r.batch :
       /\ kind = "dynamodb-stream" => failed = {}
       /\ handled' = handled \cup (IF kind = "sqs" THEN {x.m : x \in r.batch \ failed}
                                   ELSE r.batch)
       /\ loop' = Set(g, l, [r EXCEPT
            !.pc = IF kind = "sqs" THEN "settle" ELSE "advance",
            !.failed = failed, !.todo = <<"result">>,
            !.res = IF failed = {} THEN "OK" ELSE "ERROR",
            !.more = @ /\ failed = {}])
  /\ gen' = IF kind = "sqs" THEN [gen EXCEPT ![g].streak = 0] ELSE gen
  /\ UNCHANGED <<callVars, store, pmu, queue, head>>

(* the invoke itself failed: the result is saved first, then every message is *)
(* offered to the dead-letter queue                                           *)
InvokeError(g, l) ==
  LET r == loop[g][l] IN
  /\ In(g, l, "invoke")
  /\ loop' = Set(g, l, [r EXCEPT !.pc = "result", !.failed = r.batch, !.res = "ERROR",
                                 !.todo = IF kind = "sqs" THEN <<"settle">> ELSE <<>>,
                                 !.more = FALSE])
  /\ UNCHANGED <<callVars, store, gen, pmu, queue, head, handled>>

FunctionGone(g, l) ==
  /\ In(g, l, "invoke")
  /\ loop' = Set(g, l, [NoLoop EXCEPT !.pc = "disable"])
  /\ UNCHANGED <<callVars, store, gen, pmu, queue, head, handled>>

(* Mutant: a failed message is deleted like the others. *)
SettledAll(x, failed) ==
  IF queue[x.m].at # "queue" \/ queue[x.m].rcpt # x.rcpt THEN queue[x.m]
  ELSE [queue[x.m] EXCEPT !.at = "gone"]

(* a message that succeeded is deleted, one that failed too often is moved to the *)
(* dead-letter queue, and a stale receipt changes nothing                         *)
Settled(x, failed) ==
  IF queue[x.m].at # "queue" \/ queue[x.m].rcpt # x.rcpt THEN queue[x.m]
  ELSE IF x \notin failed THEN [queue[x.m] EXCEPT !.at = "gone"]
  ELSE IF MaxReceiveCount > 0 /\ queue[x.m].count >= MaxReceiveCount
       THEN [queue[x.m] EXCEPT !.at = "dlq"]
  ELSE queue[x.m]

Settle(g, l) ==
  LET r == loop[g][l] IN
  /\ In(g, l, "settle")
  /\ \E x \in r.batch :
       /\ queue' = [queue EXCEPT ![x.m] = Settled(x, r.failed)]
       /\ loop' = IF r.batch = {x} THEN Continue(g, l, [r EXCEPT !.batch = {}])
                  ELSE Set(g, l, [r EXCEPT !.batch = @ \ {x}])
  /\ UNCHANGED <<callVars, store, gen, pmu, head, handled>>

(* Mutant: a stopped poller saves too. *)
WriteStopped(g, l, m, streak, r) ==
  /\ gen' = [gen EXCEPT ![g].copy = m, ![g].streak = streak]
  /\ loop' = Set(g, l, [r EXCEPT !.pc = "save"])
  /\ pmu' = [pmu EXCEPT ![g] = l]

(* the mapping's own copy changes under poller.mu; saveLocked then saves it, *)
(* unless the poller is stopped                                              *)
Write(g, l, m, streak, r) ==
  /\ gen' = [gen EXCEPT ![g].copy = m, ![g].streak = streak]
  /\ IF gen[g].stopped
     THEN /\ loop' = Continue(g, l, r)
          /\ pmu' = [pmu EXCEPT ![g] = IF r.todo = <<"selfstop">> THEN l ELSE 0]
     ELSE /\ loop' = Set(g, l, [r EXCEPT !.pc = "save"])
          /\ pmu' = [pmu EXCEPT ![g] = l]

SaveCopy(g, l) ==
  LET r == loop[g][l] IN
  /\ In(g, l, "save")
  /\ Save(gen[g].id, gen[g].copy)
  /\ loop' = Continue(g, l, r)
  /\ pmu' = [pmu EXCEPT ![g] = IF r.todo = <<"selfstop">> THEN l ELSE 0]
  /\ UNCHANGED <<callVars, gen, queue, head, handled>>

Advance(g, l) ==
  /\ In(g, l, "advance") /\ pmu[g] = 0
  /\ Write(g, l, [gen[g].copy EXCEPT !.seq = loop[g][l].next], gen[g].streak, loop[g][l])
  /\ UNCHANGED <<callVars, store, queue, head, handled>>

UpdateResult(g, l) ==
  /\ In(g, l, "result") /\ pmu[g] = 0
  /\ Write(g, l, [gen[g].copy EXCEPT !.res = loop[g][l].res], gen[g].streak, loop[g][l])
  /\ UNCHANGED <<callVars, store, queue, head, handled>>

(* disableWithError: count, and at the limit disable the mapping and stop the *)
(* poller from inside, still holding poller.mu                                *)
DisableWithError(g, l) ==
  LET streak == IF gen[g].streak < NotFoundMax THEN gen[g].streak + 1 ELSE NotFoundMax IN
  /\ In(g, l, "disable") /\ pmu[g] = 0
  /\ IF streak < NotFoundMax
     THEN Write(g, l, [gen[g].copy EXCEPT !.res = "ERROR"], streak, NoLoop)
     ELSE IF ~gen[g].copy.enabled
     THEN /\ loop' = PollReturns(g, l, FALSE)
          /\ gen' = [gen EXCEPT ![g].streak = streak] /\ UNCHANGED pmu
     ELSE Write(g, l, [gen[g].copy EXCEPT !.res = "DISABLED", !.enabled = FALSE], streak,
                [NoLoop EXCEPT !.todo = <<"selfstop">>])
  /\ UNCHANGED <<callVars, store, queue, head, handled>>

SelfStop(g, l) ==
  /\ In(g, l, "selfstop")
  /\ gen' = [gen EXCEPT ![g].stopped = TRUE]
  /\ loop' = Set(g, l, [NoLoop EXCEPT !.pc = "selfwait"])
  /\ UNCHANGED <<callVars, store, pmu, queue, head, handled>>

(* Mutant: the mutex is not given back. *)
SelfStoppedLocked(g, l) ==
  /\ In(g, l, "selfwait")
  /\ loop' = PollReturns(g, l, FALSE)
  /\ UNCHANGED <<callVars, store, gen, pmu, queue, head, handled>>

(* it waits for itself, so only the timer ends the wait *)
SelfStopped(g, l) ==
  /\ In(g, l, "selfwait")
  /\ pmu' = [pmu EXCEPT ![g] = 0]
  /\ loop' = PollReturns(g, l, FALSE)
  /\ UNCHANGED <<callVars, store, gen, queue, head, handled>>

PollStep(g, l) ==
  \/ Tick(g, l) \/ ReceiveNothing(g, l) \/ ReceiveError(g, l) \/ SourceGone(g, l)
  \/ ReceiveMessages(g, l) \/ Filter(g, l) \/ ReadStream(g, l)
  \/ InvokeOK(g, l) \/ InvokeError(g, l) \/ FunctionGone(g, l)
  \/ Settle(g, l) \/ Advance(g, l) \/ UpdateResult(g, l) \/ SaveCopy(g, l)
  \/ DisableWithError(g, l) \/ SelfStop(g, l) \/ SelfStopped(g, l)

(***************************************************************************)
(* The source, the snapshot and restarts                                   *)
(***************************************************************************)
restVars == <<kind, refused, store, pollers, gen, last, loop, pmu, call, smu, made, boots, handled>>

VisibilityExpires ==
  /\ \E m \in Msgs : queue[m].hidden /\ queue[m].at = "queue"
                     /\ queue' = [queue EXCEPT ![m].hidden = FALSE]
  /\ UNCHANGED <<restVars, head>>

RecordAppended ==
  /\ kind = "dynamodb-stream" /\ head < MaxRecords /\ head' = head + 1
  /\ UNCHANGED <<restVars, queue>>

(* Start re-enables a mapping that was disabled with an error *)
Reenabled(m) == IF ~m.enabled /\ m.res = "ERROR" THEN [m EXCEPT !.enabled = TRUE] ELSE m

(* dedupeMappings keeps the mapping modified last, here: any one of them *)
Deduped(keep) == [i \in Ids |-> IF i = keep THEN store[i] ELSE None]

(* the process ends (Close saves the store) and starts again: Init, dedupeMappings, *)
(* Start                                                                            *)
Restart ==
  /\ boots < MaxRestarts /\ boots' = boots + 1
  /\ \E keep \in Existing :
       LET m == Reenabled(store[keep]) IN
       /\ store' = [Deduped(keep) EXCEPT ![keep] = m]
       /\ pollers' = [i \in Ids |-> IF i = keep /\ m.enabled THEN 1 ELSE 0]
       /\ gen' = [g \in Gens |-> IF g = 1 /\ m.enabled THEN Fresh(keep, m) ELSE NoPoller]
       /\ loop' = [g \in Gens |-> IF g = 1 /\ m.enabled THEN FirstLoop
                                  ELSE [l \in Loops |-> NoLoop]]
       /\ last' = IF m.enabled THEN 1 ELSE 0
  /\ pmu' = [g \in Gens |-> 0]
  /\ call' = [c \in Callers |-> NoCall] /\ smu' = Nobody
  /\ UNCHANGED <<kind, refused, made, queue, head, handled>>

Next ==
  \/ \E c \in Callers : ApiCall(c) \/ CallStep(c)
  \/ \E g \in Gens, l \in Loops : PollStep(g, l)
  \/ VisibilityExpires \/ RecordAppended \/ Restart

Fairness ==
  /\ \A c \in Callers : WF_vars(CallStep(c))
  /\ \A g \in Gens, l \in Loops : WF_vars(PollStep(g, l))

Spec == Init /\ [][Next]_vars
FairSpec == Spec /\ Fairness

(***************************************************************************)
(* Properties                                                              *)
(***************************************************************************)

(* Once the stop of a poller has returned (UpdateMapping and DeleteMapping go  *)
(* on then), none of its loops is about to save its stale copy: saveLocked     *)
(* tests stopped before it saves, and stop waits for a save under way.         *)
NoSaveAfterStop ==
  \A g \in Gens, l \in Loops : gen[g].left => ~In(g, l, "save")

(* A message leaves the queue only after a run of the function succeeded on it, *)
(* or for the dead-letter queue after the policy's number of receives; and no   *)
(* copy of a mapping, in memory or saved, points past a stream record that no   *)
(* run has succeeded on.                                                        *)
Accounted ==
  /\ \A m \in Msgs : /\ queue[m].at = "gone" => m \in handled
                     /\ queue[m].at = "dlq" => queue[m].count >= MaxReceiveCount
  /\ \A i \in Existing : 1..store[i].seq \subseteq handled
  /\ \A g \in Gens : gen[g].id # 0 => 1..gen[g].copy.seq \subseteq handled

(* Tags changed by UpdateTags are not undone by the save of a poller or of a   *)
(* call that read the mapping before: only UpdateTags changes them.            *)
KeepsTags ==
  \A i \in Ids :
    store[i] # None /\ store'[i] # None /\ store'[i].tags # store[i].tags
      => store'[i].tags = made' /\ made' = made + 1

TagsSurvive == [][KeepsTags]_vars

(* "DeleteMapping removes a mapping and stops its poller": a poller that runs *)
(* is the one the service has on record for its mapping, the only one that   *)
(* DeleteMapping, UpdateMapping, a repeated create and Stop can stop.        *)
NoOrphan ==
  \A g \in Gens : gen[g].id # 0 /\ ~gen[g].stopped => pollers[gen[g].id] = g

(* Every loop of a stopped poller ends, also when the poller stopped itself *)
(* holding the mutex the other loops wait for.                              *)
StoppedExits ==
  \A g \in Gens : gen[g].stopped ~> (Exited(g) \/ ~gen[g].stopped)

(* "an in-flight poll finishing after UpdateMapping or DeleteMapping must not *)
(* write it back": between calls, the stored configuration of a mapping is    *)
(* the one its poller runs.                                                   *)
StoreMatchesPoller ==
  (\A c \in Callers : At(c, "idle")) =>
    \A i \in Ids : pollers[i] # 0 =>
      store[i] # None /\ store[i].ver = gen[pollers[i]].copy.ver

============================================================================
