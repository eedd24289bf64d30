----------------------------- MODULE BoundedLog -----------------------------
(***************************************************************************)
(* What a log group promises its readers: every event written to it,       *)
(* oldest first, of which the newest Capacity are kept and the ones older  *)
(* than a cutoff may be dropped.  Events are numbered as they are handed   *)
(* in, so an event that is handed in and does not appear breaks the        *)
(* promise, except one for a group that does not exist.                    *)
(***************************************************************************)
EXTENDS Integers, Sequences

CONSTANTS
    Groups,     \* log group names
    Capacity,   \* events kept per group
    Event       \* the events that may be written: a time and a number

VARIABLES
    log,        \* the events of each group that exists
    given       \* the number of events handed in so far

(* The newest Capacity of s.                                               *)
Newest(s) == SubSeq(s, 1 + (IF Len(s) > Capacity THEN Len(s) - Capacity ELSE 0), Len(s))

Entries(s) == {s[i] : i \in DOMAIN s}

(* Events are in the order in which they were written.                     *)
Ordered(s) == \A i, j \in DOMAIN s : i < j => s[i].id < s[j].id

Init == given = 0 /\ \E there \in SUBSET Groups : log = [g \in there |-> <<>>]

Create(g) ==
    /\ g \notin DOMAIN log
    /\ log' = [h \in DOMAIN log \cup {g} |-> IF h = g THEN <<>> ELSE log[h]]
    /\ UNCHANGED given

Delete(g) ==
    /\ g \in DOMAIN log
    /\ log' = [h \in DOMAIN log \ {g} |-> log[h]]
    /\ UNCHANGED given

Clear(g) ==
    /\ g \in DOMAIN log
    /\ log' = [log EXCEPT ![g] = <<>>]
    /\ UNCHANGED given

Numbered(n) == {e \in Event : e.id = n}

(* The events of one call, all of them, in their order; none is kept of a  *)
(* group that does not exist.                                              *)
Add(g, batch) ==
    /\ given' = given + Len(batch)
    /\ log' = IF g \in DOMAIN log THEN [log EXCEPT ![g] = Newest(@ \o batch)] ELSE log

Write(g) ==
    \E e \in Numbered(given + 1) :
        Add(g, <<e>>) \/ \E f \in Numbered(given + 2) : Add(g, <<e, f>>)

(* Of every group the events older than some cutoff go, and no others.     *)
Prune ==
    \E cutoff \in [DOMAIN log -> {e.time : e \in Event}] :
        /\ log' \in [DOMAIN log -> Seq(Event)]
        /\ \A g \in DOMAIN log :
             /\ Entries(log'[g]) = {e \in Entries(log[g]) : e.time >= cutoff[g]}
             /\ Ordered(log'[g])
        /\ UNCHANGED given

Next == Prune \/ \E g \in Groups : Create(g) \/ Delete(g) \/ Clear(g) \/ Write(g)

Spec == Init /\ [][Next]_<<log, given>>
=============================================================================
