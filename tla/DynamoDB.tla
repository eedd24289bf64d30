------------------------------- MODULE DynamoDB -------------------------------
(***************************************************************************)
(* One DynamoDB table of internal/dynamodb: its items, its stream with the  *)
(* readers that wait on it, the TTL sweeper, and the snapshot on disk.       *)
(*                                                                         *)
(* Every operation runs under the store's mutex, so it is one step; tableMu *)
(* says who left it locked.  An item is a key and one of a few values; the   *)
(* values of Expired carry a TTL attribute that has passed.  A stream ARN is *)
(* a number: streams created within one millisecond are not distinguished    *)
(* by the code and are left out.                                             *)
(***************************************************************************)
EXTENDS Integers, Sequences, FiniteSets, SequencesExt

CONSTANTS
    Keys, Vals,     \* keys and item values
    Expired,        \* the values whose TTL attribute has passed
    Writes,         \* the single writes callers make: members of Action
    Requests,       \* the batches and transactions they make: sequences of them
    MaxRecords,     \* maxStreamRecords
    Readers,        \* callers of StreamBatchUntil
    MaxStreams,     \* bound: streams created
    MaxWrites,      \* bound: writes and updates of the table
    MaxRestarts     \* bound: restarts of the process

WriteKinds == {"put", "update", "delete", "check"}
Conditions == {"always", "exists", "absent"}
Action == [kind : WriteKinds, key : Keys, val : Vals, cond : Conditions]

ASSUME DynamoDBAssumption ==
    /\ Writes \subseteq Action /\ Requests \subseteq Seq(Action)
    /\ MaxRecords \in Nat /\ IsFiniteSet(Keys)

VARIABLES
    tableMu,    \* the store's mutex: "free", or "leaked" by a call that returned
    table,      \* the tableState, or NoTable
    outcome,    \* how the last call on the table ended
    reader,     \* reader[r]: a StreamBatchUntil call
    nstreams,   \* stream ARNs given out
    image,      \* the snapshot on disk
    nwrites, nrestarts

dynVars == <<tableMu, table, outcome, reader, nstreams, image, nwrites, nrestarts>>

None == "none"
NoStream == [arn |-> 0, view |-> None, next |-> 0, records |-> <<>>]
NoTable == [exists |-> FALSE, items |-> [k \in Keys |-> None], ttl |-> FALSE,
            protected |-> FALSE, stream |-> NoStream]
NoRead == [pc |-> "idle", arn |-> 0, last |-> 0]

TableInit ==
    /\ tableMu = "free" /\ table = NoTable /\ outcome = "ok"
    /\ reader = [r \in Readers |-> NoRead]
    /\ nstreams = 0 /\ image = NoTable /\ nwrites = 0 /\ nrestarts = 0

Views == {"KEYS_ONLY", "NEW_AND_OLD_IMAGES"}

Lock == tableMu = "free" /\ nwrites < MaxWrites /\ nwrites' = nwrites + 1
Rejected == outcome' = "rejected" /\ UNCHANGED <<tableMu, table, reader, nstreams>>
Frame == UNCHANGED <<image, nrestarts>>

-----------------------------------------------------------------------------
(* The stream                                                              *)

(* Closing the channel wakes every reader that sleeps on the stream.        *)
signalStreamLocked(arn) ==
    reader' = [r \in Readers |-> IF reader[r].pc = "asleep" /\ reader[r].arn = arn
                                 THEN [reader[r] EXCEPT !.pc = "woken"] ELSE reader[r]]

evictOldStreamRecordsLocked(records) ==
    IF Len(records) > MaxRecords THEN SubSeq(records, Len(records) - MaxRecords + 1, Len(records))
    ELSE records

appendStreamRecordLocked(stream, key, old, new) ==
    IF stream.arn = 0 THEN stream
    ELSE LET images == stream.view = "NEW_AND_OLD_IMAGES"
             record == [seq |-> stream.next + 1, key |-> key,
                        old |-> IF images THEN old ELSE None,
                        new |-> IF images THEN new ELSE None]
         IN  [stream EXCEPT !.next = @ + 1,
                            !.records = evictOldStreamRecordsLocked(Append(@, record))]

(* Records past the retention are a prefix of the stream; how many there    *)
(* are is the clock's choice.                                               *)
pruneStreamLocked(stream) ==
    {[stream EXCEPT !.records = SubSeq(@, n, Len(@))] : n \in 1 .. Len(stream.records) + 1}

-----------------------------------------------------------------------------
(* Writes: planned against the state, then applied                         *)

Holds(a) ==
    CASE a.cond = "always" -> TRUE
      [] a.cond = "exists" -> table.items[a.key] # None
      [] a.cond = "absent" -> table.items[a.key] = None

(* planLocked: the old item as the plan saw it, and the new one.            *)
planLocked(a) ==
    [kind |-> a.kind, key |-> a.key, old |-> table.items[a.key],
     new |-> IF a.kind \in {"put", "update"} THEN a.val ELSE None]

(* A write that changes nothing leaves no record.                          *)
commitLocked(state, w) ==
    LET items == [state.items EXCEPT ![w.key] = w.new]
    IN  IF w.old = w.new THEN [state EXCEPT !.items = items]
        ELSE [state EXCEPT !.items = items,
                           !.stream = appendStreamRecordLocked(@, w.key, w.old, w.new)]

(* The plans are applied in their order; a check applies nothing.          *)
CommitAll(state, plans) ==
    LET after[n \in 0 .. Len(plans)] ==
          IF n = 0 THEN state
          ELSE IF plans[n].kind = "check" THEN after[n - 1]
          ELSE commitLocked(after[n - 1], plans[n])
    IN  after[Len(plans)]

(* The state a list of plans leads to, its stream pruned first.             *)
Committed(plans) ==
    \E stream \in pruneStreamLocked(table.stream) :
        /\ table' = CommitAll([table EXCEPT !.stream = stream], plans)
        /\ IF table'.stream.next > table.stream.next
           THEN signalStreamLocked(table.stream.arn) ELSE UNCHANGED reader
        /\ outcome' = "ok" /\ UNCHANGED <<tableMu, nstreams>>

(* PutItem, UpdateItem, DeleteItem.                                        *)
writeOne(a) ==
    /\ Lock /\ Frame /\ a.kind # "check"
    /\ IF table.exists /\ Holds(a) THEN Committed(<<planLocked(a)>>) ELSE Rejected

(* Mutant: two actions of one request may meet on an item. *)
NeverSeen(actions) == TRUE

(* markSeen: no two actions of one request on one item.                    *)
markSeen(actions) == \A i, j \in DOMAIN actions : i # j => actions[i].key # actions[j].key

(* Puts and deletes without conditions; one bad entry refuses the batch.   *)
BatchWriteItem(actions) ==
    /\ Lock /\ Frame
    /\ \A i \in DOMAIN actions : actions[i].kind \in {"put", "delete"} /\ actions[i].cond = "always"
    /\ IF table.exists /\ markSeen(actions)
       THEN Committed([i \in DOMAIN actions |-> planLocked(actions[i])]) ELSE Rejected

(* Every condition is looked at before anything is applied.                *)
TransactWriteItems(actions) ==
    /\ Lock /\ Frame
    /\ \A i \in DOMAIN actions : actions[i].kind = "check" => actions[i].cond # "always"
    /\ IF /\ table.exists /\ markSeen(actions)
          /\ \A i \in DOMAIN actions : Holds(actions[i])
       THEN Committed([i \in DOMAIN actions |-> planLocked(actions[i])]) ELSE Rejected

(* The TTL sweeper deletes every expired item, each with a record, in the    *)
(* order in which the map is walked.                                        *)
sweepExpired ==
    /\ tableMu = "free" /\ table.exists /\ table.ttl
    /\ LET expired == {k \in Keys : table.items[k] \in Expired}
           plan(k) == [kind |-> "delete", key |-> k, old |-> table.items[k], new |-> None]
       IN  /\ expired # {}
           /\ \E order \in SetToSeqs(expired) :
                Committed([i \in 1 .. Cardinality(expired) |-> plan(order[i])])
    /\ UNCHANGED nwrites /\ Frame

-----------------------------------------------------------------------------
(* The table                                                               *)

NewStream(view) == [NoStream EXCEPT !.arn = nstreams + 1, !.view = view]

CreateTable(view) ==
    /\ Lock /\ Frame
    /\ IF table.exists THEN Rejected
       ELSE /\ IF view = None
               THEN table' = [NoTable EXCEPT !.exists = TRUE] /\ UNCHANGED nstreams
               ELSE /\ nstreams < MaxStreams /\ nstreams' = nstreams + 1
                    /\ table' = [NoTable EXCEPT !.exists = TRUE, !.stream = NewStream(view)]
            /\ outcome' = "ok" /\ UNCHANGED <<tableMu, reader>>

DeleteTable ==
    /\ Lock /\ Frame
    /\ IF table.exists /\ ~table.protected
       THEN /\ table' = NoTable /\ signalStreamLocked(table.stream.arn)
            /\ outcome' = "ok" /\ UNCHANGED <<tableMu, nstreams>>
       ELSE Rejected

UpdateTimeToLive(enabled) ==
    /\ Lock /\ Frame
    /\ IF table.exists
       THEN /\ table' = [table EXCEPT !.ttl = enabled]
            /\ outcome' = "ok" /\ UNCHANGED <<tableMu, reader, nstreams>>
       ELSE Rejected

applyTableStreamUpdateLocked(view) ==
    CASE view = None -> NoStream
      [] view # None /\ view = table.stream.view -> table.stream
      [] OTHER -> NewStream(view)

(* Mutant: nobody is woken. *)
RetireQuietly(arn) == UNCHANGED reader

(* Whoever sleeps on a stream that is retired is woken.                     *)
Retire(arn) == signalStreamLocked(arn)

(* UpdateTable with a stream specification, a deletion protection and an    *)
(* encryption specification, which may be invalid: that return keeps the     *)
(* mutex.                                                                   *)
UpdateTable(view, protect, badEncryption) ==
    /\ Lock /\ Frame
    /\ IF ~table.exists THEN Rejected
       ELSE IF badEncryption
       THEN /\ tableMu' = "leaked" /\ outcome' = "rejected"
            /\ UNCHANGED <<table, reader, nstreams>>
       ELSE LET stream == applyTableStreamUpdateLocked(view)
            IN  /\ stream.arn <= MaxStreams
                /\ table' = [table EXCEPT !.stream = stream, !.protected = protect]
                /\ nstreams' = IF stream.arn > nstreams THEN stream.arn ELSE nstreams
                /\ IF table.stream.arn # 0 /\ stream.arn # table.stream.arn
                   THEN Retire(table.stream.arn) ELSE UNCHANGED reader
                /\ outcome' = "ok" /\ UNCHANGED tableMu

-----------------------------------------------------------------------------
(* StreamBatchUntil                                                        *)

ReaderFrame == UNCHANGED <<tableMu, outcome, nstreams, image, nwrites, nrestarts>>

(* A reader that had a stream's last sequence number comes back.           *)
StreamBatchUntil(r) ==
    /\ reader[r].pc = "idle" /\ table.stream.arn # 0
    /\ reader' = [reader EXCEPT ![r] =
                    [pc |-> "reading", arn |-> table.stream.arn,
                     last |-> IF @.arn = table.stream.arn THEN @.last ELSE 0]]
    /\ UNCHANGED table /\ ReaderFrame

(* The positions of the records after the reader's checkpoint.             *)
Unread(r, records) == {i \in DOMAIN records : records[i].seq > reader[r].last}

(* streamWindow: an empty window comes with the channel, under one lock.     *)
(* A window ends where the caller's limit cuts it.                          *)
streamWindow(r) ==
    /\ reader[r].pc \in {"reading", "woken"} /\ tableMu = "free"
    /\ IF table.stream.arn # reader[r].arn
       THEN reader' = [reader EXCEPT ![r] = NoRead] /\ UNCHANGED table
       ELSE \E stream \in pruneStreamLocked(table.stream) :
              /\ table' = [table EXCEPT !.stream = stream]
              /\ \/ /\ Unread(r, stream.records) = {}
                    /\ reader' = [reader EXCEPT ![r].pc = "asleep"]
                 \/ \E i \in Unread(r, stream.records) :
                       reader' = [reader EXCEPT ![r].pc = "idle", ![r].last = stream.records[i].seq]
    /\ ReaderFrame

(* The deadline passes or the caller cancels.                              *)
ReadTimeout(r) ==
    /\ reader[r].pc = "asleep"
    /\ reader' = [reader EXCEPT ![r].pc = "idle"]
    /\ UNCHANGED table /\ ReaderFrame

-----------------------------------------------------------------------------
(* Persistence                                                             *)

flushToDisk ==
    /\ tableMu = "free" /\ image # table
    /\ image' = table
    /\ UNCHANGED <<tableMu, table, outcome, reader, nstreams, nwrites, nrestarts>>

(* The process ends without Close, and the next one loads the snapshot.    *)
Restart ==
    /\ nrestarts < MaxRestarts /\ nrestarts' = nrestarts + 1
    /\ tableMu' = "free" /\ outcome' = "ok"
    /\ \E stream \in pruneStreamLocked(image.stream) : table' = [image EXCEPT !.stream = stream]
    /\ reader' = [r \in Readers |-> NoRead]
    /\ UNCHANGED <<nstreams, image, nwrites>>

-----------------------------------------------------------------------------
TableNext ==
    \/ \E view \in Views \cup {None} :
          \/ CreateTable(view)
          \/ \E protect, bad \in BOOLEAN : UpdateTable(view, protect, bad)
    \/ DeleteTable
    \/ \E enabled \in BOOLEAN : UpdateTimeToLive(enabled)
    \/ \E a \in Writes : writeOne(a)
    \/ \E actions \in Requests : BatchWriteItem(actions) \/ TransactWriteItems(actions)
    \/ sweepExpired
    \/ \E r \in Readers : StreamBatchUntil(r) \/ streamWindow(r) \/ ReadTimeout(r)
    \/ flushToDisk \/ Restart

TableSpec == TableInit /\ [][TableNext]_dynVars

-----------------------------------------------------------------------------
(* Properties                                                              *)

Later(records, i) == {j \in DOMAIN records : j > i /\ records[j].key = records[i].key}

(* The stream tells the table's history: the records of a key follow each    *)
(* other, the old image of one being the new image of the one before, and     *)
(* the last one is the item, whatever mixture of writes, batches,             *)
(* transactions, expirations, evictions and restarts produced them            *)
(* (write.go: planLocked, commitLocked, markSeen; ttl.go: sweepExpired).       *)
StreamMirrorsItems ==
    LET records == table.stream.records
    IN  table.stream.view = "NEW_AND_OLD_IMAGES" =>
            \A i \in DOMAIN records :
                /\ \A j \in Later(records, i) :
                     (\A k \in Later(records, i) : j <= k) => records[i].new = records[j].old
                /\ Later(records, i) = {} => records[i].new = table.items[records[i].key]

(* A reader sleeps only while there is nothing to wake it for: its stream is  *)
(* the table's and holds nothing after its checkpoint (store.go:              *)
(* streamWindow, appendStreamRecordLocked; table.go: UpdateTable).             *)
NoSleepOverRecords ==
    \A r \in Readers : reader[r].pc = "asleep" =>
        /\ reader[r].arn = table.stream.arn
        /\ \A i \in DOMAIN table.stream.records : table.stream.records[i].seq <= reader[r].last

=============================================================================
