------------------------------ MODULE Accounts ------------------------------
(***************************************************************************)
(* The accounts of one instance (internal/api/accounts.go and the registry *)
(* of server.go): requests load an account's services on first use; the    *)
(* dashboard archives, restores and deletes accounts; activity times are   *)
(* saved in the background and at shutdown.  r.mu guards the loaded        *)
(* services, metaMu the records, writeMu the account.json files.  metaMu is *)
(* never held across a step, so its sections are single steps.  Writing    *)
(* account.json does not fail.  The default account is always loaded and   *)
(* cannot be archived.                                                     *)
(***************************************************************************)
EXTENDS Integers

CONSTANTS
    Account,    \* the accounts other than the default one
    Kinds,      \* the calls made: requests, imports, archive, restore, delete
    MaxCalls,   \* bound on the calls of a behaviour
    MaxStarts   \* bound on the times the server starts

VARIABLES
    meta,       \* r.metas
    file,       \* account.json
    dir,        \* accounts whose data directory exists
    loaded,     \* r.bundles
    mu,         \* r.mu: "free", "read" by StopAll, "write" by a load
    call,       \* the calls: what each asks and of which account
    pc,         \* where each call is
    served,     \* the account whose services a request runs on
    background, \* the requests whose background write is not done
    writing,    \* holders of writeMu, with what each is about to write
    server,     \* "up", "draining", "persisting" or "stopped"
    drained,    \* whether every call had ended when StopAll began
    unsaved,    \* persistActivity's list
    clock,      \* activity times handed out
    nstarts     \* times the server started

callVars == <<call, pc, served, background>>
vars == <<meta, file, dir, loaded, mu, callVars, writing, server, drained, unsaved, clock, nstarts>>

Default == "default"
Unused == [known |-> FALSE, archived |-> FALSE, activity |-> 0, persistedAt |-> 0]
NoFile == [there |-> FALSE, archived |-> FALSE, activity |-> 0]
NoWriter == [w \in {} |-> NoFile]
Saved(m) == [there |-> TRUE, archived |-> m.archived, activity |-> m.activity]
Read(f) == [known |-> f.there, archived |-> f.archived,
            activity |-> f.activity, persistedAt |-> f.activity]

Calls == 1..MaxCalls
NoCall == [kind |-> "none", account |-> Default]
At(i, place) == pc[i] = place
Over(i) == pc[i] \in {"none", "done"}
Goto(i, place) == pc' = [pc EXCEPT ![i] = place] /\ UNCHANGED <<call, served, background>>
IsArchived(a) == meta[a].archived
Meta(archived, activity, persistedAt) ==
    [known |-> TRUE, archived |-> archived, activity |-> activity, persistedAt |-> persistedAt]
Background(i) == <<i, "background">>
Foreground(i) == <<i, "call">>

(* An account nobody used yet, or one the last start loaded.               *)
Init ==
    /\ dir \in SUBSET Account
    /\ file = [a \in Account |-> IF a \in dir THEN Saved(Unused) ELSE NoFile]
    /\ meta = [a \in Account |-> Read(file[a])]
    /\ loaded = dir
    /\ call = [i \in Calls |-> NoCall]
    /\ pc = [i \in Calls |-> "none"]
    /\ served = [i \in Calls |-> "nobody"]
    /\ background = {}
    /\ mu = "free" /\ writing = NoWriter /\ server = "up" /\ drained = FALSE
    /\ unsaved = {} /\ clock = 0 /\ nstarts = 1

-----------------------------------------------------------------------------
(* withLogging and datadogAccounts turn an archived account's calls away.  *)
(* Only a server that is up takes new calls.                               *)
checkMutable(a) == meta[a].known \/ a \in loaded \/ a \in dir

Called(i, kind, a, place) ==
    /\ call' = [call EXCEPT ![i] = [kind |-> kind, account |-> a]]
    /\ pc' = [pc EXCEPT ![i] = place]
    /\ UNCHANGED <<served, background>>

Arrive(i, kind, a) ==
    /\ server = "up"
    /\ At(i, "none") /\ \A j \in 1..i - 1 : ~At(j, "none")
    /\ \/ /\ kind \in {"request", "import"}
          /\ Called(i, kind, a, IF IsArchived(a) THEN "done" ELSE "get")
       \/ kind = "restore" /\ Called(i, kind, a, IF checkMutable(a) THEN "restore" ELSE "done")
       \/ kind = "delete" /\ Called(i, kind, a, IF checkMutable(a) THEN "unload" ELSE "done")
       \/ /\ kind = "archive"
          /\ Called(i, kind, a, IF checkMutable(a) /\ ~IsArchived(a) THEN "unload" ELSE "done")
    /\ UNCHANGED <<meta, file, dir, loaded, mu, writing, server, drained, unsaved, clock, nstarts>>

(* A lookup ends with the services of an account; the request log makes    *)
(* its own after Touch.                                                    *)
Gets(i, who) ==
    /\ served' = [served EXCEPT ![i] = who]
    /\ pc' = [pc EXCEPT ![i] = IF pc[i] \in {"get", "load"} THEN "serve" ELSE "done"]
    /\ UNCHANGED <<call, background>>

(* hs falls back to the default account when get has nothing, which it     *)
(* takes for a failed load; an import reports an error.                    *)
Nothing(i, who) == IF call[i].kind = "import" THEN Goto(i, "done") ELSE Gets(i, who)

(* get without its second look at the archive mark.                        *)
GetUnchecked(i) ==
    LET a == call[i].account
    IN /\ At(i, "get") \/ At(i, "log")
       /\ \/ a \in loaded /\ mu \in {"free", "read"} /\ Gets(i, a) /\ UNCHANGED mu
          \/ /\ a \notin loaded /\ mu = "free"
             /\ mu' = "write"
             /\ Goto(i, IF At(i, "get") THEN "load" ELSE "logload")
       /\ UNCHANGED <<meta, file, dir, loaded, writing, server, drained, unsaved, clock, nstarts>>

(* get: the bundle if there is one; otherwise the factory runs under the   *)
(* registry's lock, unless the account is archived.                        *)
Get(i) ==
    LET a == call[i].account
    IN /\ At(i, "get") \/ At(i, "log")
       /\ \/ a \in loaded /\ mu \in {"free", "read"} /\ Gets(i, a) /\ UNCHANGED mu
          \/ /\ a \notin loaded /\ mu = "free"
             /\ IF IsArchived(a) THEN Nothing(i, Default) /\ UNCHANGED mu
                ELSE mu' = "write" /\ Goto(i, IF At(i, "get") THEN "load" ELSE "logload")
       /\ UNCHANGED <<meta, file, dir, loaded, writing, server, drained, unsaved, clock, nstarts>>

(* The factory makes the data directory and loads what is in it, or fails. *)
Load(i) ==
    LET a == call[i].account
    IN /\ At(i, "load") \/ At(i, "logload")
       /\ mu' = "free"
       /\ \/ /\ dir' = dir \cup {a}
             /\ loaded' = loaded \cup {a}
             /\ Gets(i, a)
          \/ /\ dir' \in {dir, dir \cup {a}}
             /\ UNCHANGED loaded
             /\ Nothing(i, "default, after a failed load")
       /\ UNCHANGED <<meta, file, writing, server, drained, unsaved, clock, nstarts>>

(* A request of the dashboard leaves no activity and no request log.        *)
AnswerDashboard(i) ==
    /\ At(i, "serve") /\ call[i].kind = "request"
    /\ Goto(i, "done")
    /\ UNCHANGED <<meta, file, dir, loaded, mu, writing, server, drained, unsaved, clock, nstarts>>

(* The handler has answered; Touch notes the activity and saves it in the  *)
(* background once an hour.  The write is counted right after metaMu is    *)
(* released, while the call is still under way: whoever waits for the      *)
(* calls to end and then for the writes cannot come between.               *)
Touch(i) ==
    LET a == call[i].account
    IN /\ At(i, "serve")
       /\ clock' = clock + 1
       /\ \E persist \in IF meta[a].persistedAt = 0 THEN {TRUE} ELSE BOOLEAN :
             /\ meta' = [meta EXCEPT ![a] = Meta(meta[a].archived, clock + 1,
                             IF persist THEN clock + 1 ELSE meta[a].persistedAt)]
             /\ background' = IF persist THEN background \cup {i} ELSE background
       /\ pc' = [pc EXCEPT ![i] = IF call[i].kind = "import" THEN "done" ELSE "log"]
       /\ UNCHANGED <<call, served>>
       /\ UNCHANGED <<file, dir, loaded, mu, writing, server, drained, unsaved, nstarts>>

-----------------------------------------------------------------------------
(* unload takes the services out of the registry and marks the record in   *)
(* one section of r.mu.                                                    *)
Unload(i) ==
    LET a == call[i].account
    IN /\ At(i, "unload") /\ mu = "free"
       /\ meta' = [meta EXCEPT ![a] = Meta(TRUE, meta[a].activity, meta[a].persistedAt)]
       /\ loaded' = loaded \ {a}
       /\ Goto(i, "stop")
       /\ UNCHANGED <<file, dir, mu, writing, server, drained, unsaved, clock, nstarts>>

(* The services have stopped.  Archive stores the counts and then saves;   *)
(* Delete removes.                                                         *)
Stop(i) ==
    LET a == call[i].account
    IN /\ At(i, "stop")
       /\ IF call[i].kind = "delete" THEN Goto(i, "remove") /\ UNCHANGED meta
          ELSE Goto(i, "save") /\ meta' = [meta EXCEPT ![a] =
                     Meta(meta[a].archived, meta[a].activity, meta[a].persistedAt)]
       /\ UNCHANGED <<file, dir, loaded, mu, writing, server, drained, unsaved, clock, nstarts>>

Restore(i) ==
    LET a == call[i].account
    IN /\ At(i, "restore")
       /\ clock' = clock + 1
       /\ meta' = [meta EXCEPT ![a] = Meta(FALSE, clock + 1, meta[a].persistedAt)]
       /\ Goto(i, "save")
       /\ UNCHANGED <<file, dir, loaded, mu, writing, server, drained, unsaved, nstarts>>

(* Delete forgets the record and then the files, under writeMu.            *)
Forget(i) ==
    LET a == call[i].account
    IN /\ At(i, "remove") /\ writing = NoWriter
       /\ meta' = [meta EXCEPT ![a] = Unused]
       /\ writing' = [w \in {Foreground(i)} |-> NoFile]
       /\ Goto(i, "removing")
       /\ UNCHANGED <<file, dir, loaded, mu, server, drained, unsaved, clock, nstarts>>

RemoveAccount(i) ==
    LET a == call[i].account
    IN /\ At(i, "removing")
       /\ file' = [file EXCEPT ![a] = NoFile]
       /\ dir' = dir \ {a}
       /\ writing' = NoWriter
       /\ Goto(i, "done")
       /\ UNCHANGED <<meta, loaded, mu, server, drained, unsaved, clock, nstarts>>

-----------------------------------------------------------------------------
(* writeMeta, of a call or of the background write it left: the record is  *)
(* read under writeMu; a deleted one is not written.                       *)
Ended(w) ==
    IF w[2] = "call" THEN Goto(w[1], "done")
    ELSE background' = background \ {w[1]} /\ UNCHANGED <<call, pc, served>>

Due(w) ==
    /\ w \notin DOMAIN writing
    /\ IF w[2] = "call" THEN At(w[1], "save") ELSE w[1] \in background

(* The record is read before the lock is held: another write may come      *)
(* between.                                                                *)
WriteUnlocked(w) ==
    LET a == call[w[1]].account
    IN /\ Due(w)
       /\ IF meta[a].known
          THEN /\ writing' = [v \in DOMAIN writing \cup {w} |->
                                IF v = w THEN Saved(meta[a]) ELSE writing[v]]
               /\ UNCHANGED callVars
          ELSE Ended(w) /\ UNCHANGED writing
       /\ UNCHANGED <<meta, file, dir, loaded, mu, server, drained, unsaved, clock, nstarts>>

WriteMeta(w) ==
    LET a == call[w[1]].account
    IN /\ Due(w) /\ writing = NoWriter
       /\ IF meta[a].known THEN writing' = [v \in {w} |-> Saved(meta[a])] /\ UNCHANGED callVars
          ELSE Ended(w) /\ UNCHANGED writing
       /\ UNCHANGED <<meta, file, dir, loaded, mu, server, drained, unsaved, clock, nstarts>>

WriteFile(w) ==
    LET a == call[w[1]].account
    IN /\ w \in DOMAIN writing /\ writing[w].there
       /\ file' = [file EXCEPT ![a] = writing[w]]
       /\ dir' = dir \cup {a}
       /\ writing' = [v \in DOMAIN writing \ {w} |-> writing[v]]
       /\ Ended(w)
       /\ UNCHANGED <<meta, loaded, mu, server, drained, unsaved, clock, nstarts>>

-----------------------------------------------------------------------------
(* Shutdown lets the calls in flight end, up to its deadline; StopAll then *)
(* stops the services under r.mu and saves the activity times that no      *)
(* background write took.                                                  *)
Quiet(a) ==
    \A i \in Calls : call[i].account = a => Over(i) /\ i \notin background

Shutdown ==
    /\ server = "up"
    /\ server' = "draining"
    /\ UNCHANGED <<meta, file, dir, loaded, mu, callVars, writing, drained, unsaved, clock, nstarts>>

StopAll ==
    /\ server = "draining" /\ mu = "free"
    /\ mu' = "read"
    /\ server' = "persisting"
    /\ drained' = \A i \in Calls : Over(i)
    /\ UNCHANGED <<meta, file, dir, loaded, callVars, writing, unsaved, clock, nstarts>>

PersistActivity ==
    /\ server = "persisting" /\ unsaved = {}
    /\ background = {}
    /\ LET late == {a \in Account : meta[a].activity > meta[a].persistedAt}
       IN /\ unsaved' = late
          /\ meta' = [a \in Account |->
                IF a \in late THEN Meta(meta[a].archived, meta[a].activity, meta[a].activity)
                ELSE meta[a]]
          /\ server' = IF late = {} THEN "stopped" ELSE server
    /\ UNCHANGED <<file, dir, loaded, mu, callVars, writing, drained, clock, nstarts>>

PersistOne(a) ==
    /\ a \in unsaved /\ writing = NoWriter
    /\ unsaved' = unsaved \ {a}
    /\ file' = IF meta[a].known THEN [file EXCEPT ![a] = Saved(meta[a])] ELSE file
    /\ dir' = IF meta[a].known THEN dir \cup {a} ELSE dir
    /\ server' = IF unsaved' = {} THEN "stopped" ELSE server
    /\ UNCHANGED <<meta, loaded, mu, callVars, writing, drained, clock, nstarts>>

(* The next start, after a shutdown or a crash: the records come from the  *)
(* files and every account that is not archived is loaded.                 *)
Start ==
    /\ nstarts < MaxStarts
    /\ nstarts' = nstarts + 1
    /\ meta' = [a \in Account |-> Read(file[a])]
    /\ loaded' = {a \in dir : ~file[a].archived}
    /\ pc' = [i \in Calls |-> IF At(i, "none") THEN "none" ELSE "done"]
    /\ background' = {}
    /\ mu' = "free" /\ writing' = NoWriter /\ server' = "up" /\ drained' = FALSE /\ unsaved' = {}
    /\ UNCHANGED <<file, dir, call, served, clock>>

Next ==
    \/ Shutdown \/ StopAll \/ PersistActivity \/ Start
    \/ \E a \in Account : PersistOne(a)
    \/ \E i \in Calls :
          \/ \E a \in Account, kind \in Kinds : Arrive(i, kind, a)
          \/ Get(i) \/ Load(i) \/ AnswerDashboard(i) \/ Touch(i)
          \/ Unload(i) \/ Stop(i) \/ Restore(i) \/ Forget(i) \/ RemoveAccount(i)
          \/ \E w \in {Foreground(i), Background(i)} : WriteMeta(w) \/ WriteFile(w)

Spec == Init /\ [][Next]_vars

-----------------------------------------------------------------------------
(* The types of the state.                                                 *)
Pcs == {"none", "get", "load", "serve", "log", "logload", "unload", "stop", "restore", "remove",
        "removing", "save", "done"}
Metas == [known : BOOLEAN, archived : BOOLEAN, activity : Nat, persistedAt : Nat]
Files == [there : BOOLEAN, archived : BOOLEAN, activity : Nat]
TypeOK ==
    /\ meta \in [Account -> Metas]
    /\ file \in [Account -> Files]
    /\ dir \subseteq Account /\ loaded \subseteq Account /\ unsaved \subseteq Account
    /\ mu \in {"free", "read", "write"}
    /\ call \in [Calls -> [kind : Kinds \cup {"none"}, account : Account \cup {Default}]]
    /\ pc \in [Calls -> Pcs]
    /\ background \subseteq Calls
    /\ \A w \in DOMAIN writing : writing[w] \in Files /\ w \in Calls \X {"call", "background"}
    /\ server \in {"up", "draining", "persisting", "stopped"}
    /\ drained \in BOOLEAN
    /\ clock \in Nat /\ nstarts \in Nat

(* An archived account has no services: whatever requests, restores and    *)
(* deletions are under way, the mark and the registry change together, and  *)
(* a request that passed the check before the mark does not load it         *)
(* (server.go, get; accounts.go, unload).                                   *)
ArchivedNotLoaded == \A a \in Account : IsArchived(a) => a \notin loaded

(* Once nothing is under way for an account, account.json says what the     *)
(* record says about archiving, however its activity writes were delayed;   *)
(* and after a shutdown that let every call end, the activity time too, so  *)
(* that the next start finds the account as it was left (accounts.go,       *)
(* writeMeta and persistActivity).                                          *)
RecordsSaved ==
    \A a \in Account :
        /\ Quiet(a) => /\ file[a].there = meta[a].known
                       /\ file[a].archived = meta[a].archived
        /\ server = "stopped" /\ drained /\ meta[a].known => file[a].activity = meta[a].activity

(* "Archived accounts never reach here" (server.go, hs): a request runs on  *)
(* the default account's resources only when its own could not be loaded.   *)
ServedByItsAccount == \A i \in Calls : served[i] # Default
=============================================================================
