-------------------------------- MODULE Logs --------------------------------
(***************************************************************************)
(* The log groups of one account (internal/logs).  A group keeps its       *)
(* events in a buffer that grows to MaxEvents and is a ring from then on;  *)
(* pruning replaces it by a shorter one that grows again.  Every operation *)
(* holds the store's lock, so it is one step; IngestContainerLogs takes    *)
(* the lock twice.  An event is its timestamp, which the container chose,  *)
(* and its number.                                                         *)
(***************************************************************************)
EXTENDS Integers, Sequences, FiniteSets, SequencesExt, TLC

CONSTANTS
    Groups,       \* log group names
    SystemGroups, \* the ones NewService creates
    LogStreams,   \* stream names
    MaxEvents,    \* LogsMaxEventsPerGroup
    MaxLogStreams,\* maxStreamsPerGroup
    Retentions,   \* retention policies, in days
    Today,        \* the day it is; containers stamp events with any earlier one
    MaxLines      \* bound on the events written

ASSUME LogsAssumption ==
    /\ SystemGroups \subseteq Groups
    /\ MaxEvents \in Nat \ {0} /\ MaxLines \in Nat \ {0}
    /\ Today \in Nat /\ Retentions \subseteq Nat

VARIABLES
    group,      \* s.groups
    ingesting,  \* Lambda groups between the two halves of IngestContainerLogs
    nlines      \* events written so far

logVars == <<group, ingesting, nlines>>

Times == 0..Today

EmptyGroup ==
    [events |-> <<>>, head |-> 0, count |-> 0, streams |-> [s \in {} |-> 0], retention |-> 0]

LogsInit ==
    /\ group = [g \in SystemGroups |-> EmptyGroup]
    /\ ingesting = {}
    /\ nlines = 0

GroupExists(g) == g \in DOMAIN group

(* CreateGroup, which every path to a new group goes through.             *)
WithGroup(g) ==
    [h \in DOMAIN group \cup {g} |-> IF h \in DOMAIN group THEN group[h] ELSE EmptyGroup]

(* The ring, oldest event first: what every reader iterates over.          *)
RingStart(r) == (r.head - r.count + MaxEvents) % MaxEvents
RingSlot(r, i) == ((RingStart(r) + i - 1) % MaxEvents) + 1
RingEvents(r) == [i \in 1..r.count |-> r.events[RingSlot(r, i)]]

(* A put that takes a full buffer for one that still grows: head is not    *)
(* moved past the slot just written.                                       *)
RingPutInPlace(r, e) ==
    IF Len(r.events) < MaxEvents
    THEN LET grown == Append(r.events, e)
         IN [r EXCEPT !.events = grown, !.count = Len(grown), !.head = Len(grown) % MaxEvents]
    ELSE [r EXCEPT !.events[r.head + 1] = e]

(* logGroup.put                                                            *)
RingPut(r, e) ==
    IF Len(r.events) < MaxEvents
    THEN LET grown == Append(r.events, e)
         IN [r EXCEPT !.events = grown, !.count = Len(grown), !.head = Len(grown) % MaxEvents]
    ELSE [r EXCEPT !.events[r.head + 1] = e, !.head = (r.head + 1) % MaxEvents]

(* The events of a batch, one after the other.                             *)
PutAll(r, events) ==
    LET after[n \in 0 .. Len(events)] ==
            IF n = 0 THEN r ELSE RingPut(after[n - 1], events[n])
    IN  after[Len(events)]

(* The streams without the least recently written ones past the limit; of  *)
(* equally old ones the map's order decides.                               *)
EvictStreams(streams) ==
    {[s \in keep |-> streams[s]] : keep \in
        {k \in SUBSET DOMAIN streams :
            /\ Cardinality(k) =
                 IF Cardinality(DOMAIN streams) > MaxLogStreams THEN MaxLogStreams
                 ELSE Cardinality(DOMAIN streams)
            /\ \A s \in k, t \in DOMAIN streams \ k : streams[t] <= streams[s]}}

(* PutLogEvents of a batch of timestamps; a missing group drops it.        *)
PutLogEvents(g, stream, batch) ==
    LET numbered == [i \in DOMAIN batch |-> [time |-> batch[i], id |-> nlines + i]]
        r == group[g]
        newest == CHOOSE t \in ToSet(batch) : \A u \in ToSet(batch) : u <= t
        last == IF stream \in DOMAIN r.streams /\ r.streams[stream] > newest
                THEN r.streams[stream] ELSE newest
    IN /\ nlines + Len(batch) <= MaxLines
       /\ nlines' = nlines + Len(batch)
       /\ IF ~GroupExists(g) THEN UNCHANGED group
          ELSE \E streams \in EvictStreams((stream :> last) @@ r.streams) :
                  group' = [group EXCEPT ![g] =
                      [PutAll(r, numbered) EXCEPT !.streams = streams]]

(* LogSystemEvent and LogAPIRequest write one event, stamped by the clock. *)
LogSystemEvent(g) ==
    /\ g \in SystemGroups
    /\ \E s \in LogStreams : PutLogEvents(g, s, <<Today>>)
    /\ UNCHANGED ingesting

(* IngestContainerLogs creates the group, parses the lines outside the     *)
(* lock and writes what it found.                                          *)
IngestCreate(g) ==
    /\ g \notin SystemGroups \cup ingesting
    /\ nlines < MaxLines
    /\ group' = WithGroup(g)
    /\ ingesting' = ingesting \cup {g}
    /\ UNCHANGED nlines

IngestPut(g) ==
    /\ g \in ingesting
    /\ ingesting' = ingesting \ {g}
    /\ \/ \E s \in LogStreams, t, u \in Times :
            \E batch \in {<<t>>, <<t, u>>} : PutLogEvents(g, s, batch)
       \/ UNCHANGED <<group, nlines>>      \* only empty lines

(* The CloudWatch Logs operations that change a group.                     *)
CreateLogGroup(g) ==
    /\ ~GroupExists(g)
    /\ group' = WithGroup(g)
    /\ UNCHANGED <<ingesting, nlines>>

DeleteLogGroup(g) ==
    /\ GroupExists(g)
    /\ group' = [h \in DOMAIN group \ {g} |-> group[h]]
    /\ UNCHANGED <<ingesting, nlines>>

PutRetentionPolicy(g) ==
    /\ GroupExists(g)
    /\ \E days \in Retentions \cup {0} :       \* 0 by DeleteRetentionPolicy
          group' = [group EXCEPT ![g].retention = days]
    /\ UNCHANGED <<ingesting, nlines>>

ClearGroup(g) ==
    /\ GroupExists(g)
    /\ group' = [group EXCEPT ![g] =
                    [@ EXCEPT !.events = <<>>, !.head = 0, !.count = 0, !.streams = [s \in {} |-> 0]]]
    /\ UNCHANGED <<ingesting, nlines>>

(* The events of s that are not older than limit, in order.                *)
KeptEvents(s, limit) ==
    LET kept[n \in 0 .. Len(s)] ==
            IF n = 0 THEN <<>>
            ELSE IF s[n].time >= limit THEN Append(kept[n - 1], s[n]) ELSE kept[n - 1]
    IN  kept[Len(s)]

(* A group without the events older than cutoff, or than its own policy    *)
(* allows; a buffer without such events is left alone.                     *)
Pruned(r, cutoff) ==
    LET own == Today - r.retention
        limit == IF r.retention > 0 /\ own > cutoff THEN own ELSE cutoff
        kept == KeptEvents(RingEvents(r), limit)
    IN IF \A i \in 1 .. r.count : RingEvents(r)[i].time >= limit THEN r
       ELSE [r EXCEPT !.events = kept, !.count = Len(kept), !.head = Len(kept) % MaxEvents]

PruneOlderThan ==
    \E cutoff \in Times :
        /\ group' = [g \in DOMAIN group |-> Pruned(group[g], cutoff)]
        /\ UNCHANGED <<ingesting, nlines>>

LogsNext ==
    \/ PruneOlderThan
    \/ \E g \in Groups :
        \/ LogSystemEvent(g) \/ IngestCreate(g) \/ IngestPut(g)
        \/ CreateLogGroup(g) \/ DeleteLogGroup(g) \/ PutRetentionPolicy(g) \/ ClearGroup(g)

LogsSpec == LogsInit /\ [][LogsNext]_logVars

-----------------------------------------------------------------------------
(* The ring shows its readers a bounded log: whatever growth, wrapping,    *)
(* pruning and clearing did to the buffer, reading it from the oldest slot *)
(* gives exactly the newest events that were written and not pruned, in    *)
(* the order they were written, and no call loses an event of an existing  *)
(* group (internal/logs/store.go, put, GetLogEvents and PruneOlderThan).   *)
Shown == [g \in DOMAIN group |-> RingEvents(group[g])]
Book == INSTANCE BoundedLog WITH
            log <- Shown, given <- nlines, Capacity <- MaxEvents,
            Event <- [time : Times, id : 1..MaxLines]
ImplementsLog == Book!Spec
=============================================================================
