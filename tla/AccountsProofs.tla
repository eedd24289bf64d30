--------------------------- MODULE AccountsProofs ---------------------------
(***************************************************************************)
(* Proofs about Accounts, for any set of accounts and any number of calls. *)
(* That an archived account has no services is not inductive: get looks at *)
(* the mark and registers the services in two steps, and only r.mu keeps   *)
(* unload from setting the mark in between (LoadsGuarded).                 *)
(***************************************************************************)
EXTENDS Accounts, TLAPS

Writers == Calls \X {"call", "background"}
Loading(i) == pc[i] \in {"load", "logload"}

(* Only the holder of r.mu loads, and what it loads is not archived.       *)
LoadsGuarded ==
    /\ \A i \in Calls : Loading(i) => mu = "write" /\ ~meta[call[i].account].archived
    /\ \A i, j \in Calls : Loading(i) /\ Loading(j) => i = j

(* A call that is under way is for one of the accounts.                    *)
CallsPlaced ==
    /\ \A i \in Calls : pc[i] # "none" => call[i].account \in Account
    /\ \A i \in background : pc[i] # "none"
    /\ \A w \in DOMAIN writing : pc[w[1]] # "none"

IInv == TypeOK /\ CallsPlaced /\ LoadsGuarded /\ ArchivedNotLoaded

(* A writer is a call's own write or the background write it left.         *)
LEMMA WriterIsPair ==
    \A i \in Calls : \A w \in {Foreground(i), Background(i)} : w \in Writers
BY DEF Foreground, Background, Writers

(* The invariant holds when the server first starts.                       *)
LEMMA InitIInv == Init => IInv
<1> SUFFICES ASSUME Init PROVE IInv
    OBVIOUS
<1> USE DEF Init
<1>1. file \in [Account -> Files] /\ \A a \in Account : ~file[a].archived
    BY DEF Files, NoFile, Saved, Unused
<1>2. meta \in [Account -> Metas] /\ \A a \in Account : ~meta[a].archived
    BY <1>1 DEF Files, Metas, Read
<1>3. TypeOK
    BY <1>1, <1>2 DEF TypeOK, Pcs, NoCall, NoWriter
<1> QED
    BY <1>2, <1>3 DEF IInv, CallsPlaced, LoadsGuarded, Loading, ArchivedNotLoaded, IsArchived,
            NoWriter

(* Every step keeps the types: what a call writes is for an account it was  *)
(* placed on.                                                              *)
LEMMA TypeStep == IInv /\ [Next]_vars => TypeOK'
<1> SUFFICES ASSUME IInv, [Next]_vars PROVE TypeOK'
    OBVIOUS
<1> USE DEF IInv, TypeOK, Pcs, Files, Metas, CallsPlaced, Writers
<1>1. CASE UNCHANGED vars
    BY <1>1 DEF vars, callVars
<1>2. CASE Shutdown
    BY <1>2 DEF Shutdown, callVars
<1>3. CASE StopAll
    BY <1>3 DEF StopAll, Over, callVars
<1>4. CASE PersistActivity
    BY <1>4 DEF PersistActivity, Meta, callVars
<1>5. CASE Start
  <2>1. meta' \in [Account -> Metas]
      BY <1>5 DEF Start, Read
  <2>2. loaded' \subseteq Account /\ pc' \in [Calls -> Pcs] /\ writing' = NoWriter
      BY <1>5 DEF Start, At
  <2>3. DOMAIN writing' = {}
      BY <2>2 DEF NoWriter
  <2>4. mu' = "free" /\ server' = "up" /\ drained' = FALSE /\ unsaved' = {} /\ background' = {}
        /\ nstarts' \in Nat /\ UNCHANGED <<file, dir, call, clock>>
      BY <1>5 DEF Start
  <2> QED
      BY <2>1, <2>2, <2>3, <2>4
<1>6. ASSUME NEW a \in Account, PersistOne(a) PROVE TypeOK'
    BY <1>6 DEF PersistOne, Saved, callVars
<1>7. ASSUME NEW i \in Calls, NEW a \in Account, NEW kind \in Kinds, Arrive(i, kind, a)
      PROVE  TypeOK'
  <2>1. pc' \in [Calls -> Pcs]
        /\ call' \in [Calls -> [kind : Kinds \cup {"none"}, account : Account \cup {Default}]]
      BY <1>7 DEF Arrive, Called
  <2>2. UNCHANGED <<meta, file, dir, loaded, mu, background, writing, server, drained, unsaved,
          clock, nstarts>>
      BY <1>7 DEF Arrive, Called
  <2> QED
      BY <2>1, <2>2
<1>8. ASSUME NEW i \in Calls, Get(i) PROVE TypeOK'
    BY <1>8 DEF Get, At, Gets, Nothing, Goto, callVars
<1>9. ASSUME NEW i \in Calls, Load(i) PROVE TypeOK'
  <2>1. call[i].account \in Account
      BY <1>9 DEF Load, At
  <2>2. pc' \in [Calls -> Pcs] /\ UNCHANGED <<call, background>>
      BY <1>9 DEF Load, Gets, Nothing, Goto
  <2>3. dir' \subseteq Account /\ loaded' \subseteq Account /\ mu' = "free"
      BY <1>9, <2>1 DEF Load
  <2>4. UNCHANGED <<meta, file, writing, server, drained, unsaved, clock, nstarts>>
      BY <1>9 DEF Load
  <2> QED
      BY <2>2, <2>3, <2>4
<1>18. ASSUME NEW i \in Calls, AnswerDashboard(i) PROVE TypeOK'
    BY <1>18 DEF AnswerDashboard, At, Goto
<1>10. ASSUME NEW i \in Calls, Touch(i) PROVE TypeOK'
    BY <1>10 DEF Touch, At, Meta
<1>11. ASSUME NEW i \in Calls, Unload(i) PROVE TypeOK'
    BY <1>11 DEF Unload, At, Goto, Meta
<1>12. ASSUME NEW i \in Calls, Stop(i) PROVE TypeOK'
  <2>1. call[i].account \in Account
      BY <1>12 DEF Stop, At
  <2>2. meta' \in [Account -> Metas]
    <3>1. Meta(meta[call[i].account].archived, meta[call[i].account].activity,
               meta[call[i].account].persistedAt) \in Metas
        BY <2>1 DEF Meta
    <3> QED
        BY <1>12, <2>1, <3>1 DEF Stop
  <2>3. pc' \in [Calls -> Pcs] /\ UNCHANGED <<call, background>>
      BY <1>12 DEF Stop, Goto
  <2> QED
      BY <1>12, <2>2, <2>3 DEF Stop
<1>13. ASSUME NEW i \in Calls, Restore(i) PROVE TypeOK'
    BY <1>13 DEF Restore, At, Goto, Meta
<1>14. ASSUME NEW i \in Calls, Forget(i) PROVE TypeOK'
    BY <1>14 DEF Forget, At, Goto, Unused, NoFile, Foreground
<1>15. ASSUME NEW i \in Calls, RemoveAccount(i) PROVE TypeOK'
    BY <1>15 DEF RemoveAccount, At, Goto, NoFile, NoWriter
<1>16. ASSUME NEW w \in Writers, WriteMeta(w) PROVE TypeOK'
  <2>1. w[1] \in Calls /\ pc[w[1]] # "none" /\ call[w[1]].account \in Account
      BY <1>16 DEF WriteMeta, Due, At
  <2>2. CASE meta[call[w[1]].account].known
    <3>1. Saved(meta[call[w[1]].account]) \in Files
        BY <2>1 DEF Saved
    <3>2. \A v \in DOMAIN writing' : writing'[v] \in Files /\ v \in Calls \X {"call",
            "background"}
        BY <1>16, <2>2, <3>1 DEF WriteMeta
    <3> QED
        BY <1>16, <2>2, <3>2 DEF WriteMeta, callVars
  <2>3. CASE ~meta[call[w[1]].account].known
    <3>1. pc' \in [Calls -> Pcs] /\ background' \subseteq Calls /\ UNCHANGED <<call, writing>>
        BY <1>16, <2>1, <2>3 DEF WriteMeta, Ended, Goto
    <3> QED
        BY <1>16, <3>1 DEF WriteMeta
  <2> QED
      BY <2>2, <2>3
<1>17. ASSUME NEW w \in Writers, WriteFile(w) PROVE TypeOK'
  <2>1. w[1] \in Calls /\ pc[w[1]] # "none" /\ call[w[1]].account \in Account
      BY <1>17 DEF WriteFile
  <2>2. pc' \in [Calls -> Pcs] /\ background' \subseteq Calls /\ UNCHANGED call
      BY <1>17, <2>1 DEF WriteFile, Ended, Goto
  <2>3. file' \in [Account -> Files]
      BY <1>17, <2>1 DEF WriteFile
  <2>4. \A v \in DOMAIN writing' : writing'[v] \in Files /\ v \in Calls \X {"call", "background"}
      BY <1>17 DEF WriteFile
  <2> QED
      BY <1>17, <2>1, <2>2, <2>3, <2>4 DEF WriteFile
<1> QED
    BY <1>1, <1>2, <1>3, <1>4, <1>5, <1>6, <1>7, <1>8, <1>9,
       <1>10, <1>11, <1>12, <1>13, <1>14, <1>15, <1>16, <1>17, <1>18, WriterIsPair DEF Next

(* Calls stay placed: no write outlives the call it belongs to.            *)
LEMMA PlacedStep == IInv /\ [Next]_vars => CallsPlaced'
<1> SUFFICES ASSUME IInv, [Next]_vars PROVE CallsPlaced'
    OBVIOUS
<1> USE DEF IInv, TypeOK, Pcs, CallsPlaced, Writers
<1>1. CASE UNCHANGED vars
    BY <1>1 DEF vars, callVars
<1>2. CASE Shutdown
    BY <1>2 DEF Shutdown, callVars
<1>3. CASE StopAll
    BY <1>3 DEF StopAll, Over, callVars
<1>4. CASE PersistActivity
    BY <1>4 DEF PersistActivity, Meta, callVars
<1>5. CASE Start
    BY <1>5 DEF Start, Read, NoWriter, At
<1>6. ASSUME NEW a \in Account, PersistOne(a) PROVE CallsPlaced'
    BY <1>6 DEF PersistOne, Saved, callVars
<1>7. ASSUME NEW i \in Calls, NEW a \in Account, NEW kind \in Kinds, Arrive(i, kind, a)
      PROVE  CallsPlaced'
    BY <1>7 DEF Arrive, Called, At
<1>8. ASSUME NEW i \in Calls, Get(i) PROVE CallsPlaced'
    BY <1>8 DEF Get, At, Gets, Nothing, Goto, callVars
<1>9. ASSUME NEW i \in Calls, Load(i) PROVE CallsPlaced'
    BY <1>9 DEF Load, At, Gets, Nothing, Goto
<1>18. ASSUME NEW i \in Calls, AnswerDashboard(i) PROVE CallsPlaced'
    BY <1>18 DEF AnswerDashboard, At, Goto
<1>10. ASSUME NEW i \in Calls, Touch(i) PROVE CallsPlaced'
    BY <1>10 DEF Touch, At, Meta
<1>11. ASSUME NEW i \in Calls, Unload(i) PROVE CallsPlaced'
    BY <1>11 DEF Unload, At, Goto, Meta
<1>12. ASSUME NEW i \in Calls, Stop(i) PROVE CallsPlaced'
    BY <1>12 DEF Stop, At, Goto, Meta
<1>13. ASSUME NEW i \in Calls, Restore(i) PROVE CallsPlaced'
    BY <1>13 DEF Restore, At, Goto, Meta
<1>14. ASSUME NEW i \in Calls, Forget(i) PROVE CallsPlaced'
    BY <1>14 DEF Forget, At, Goto, Unused, NoFile, Foreground
<1>15. ASSUME NEW i \in Calls, RemoveAccount(i) PROVE CallsPlaced'
    BY <1>15 DEF RemoveAccount, At, Goto, NoFile, NoWriter
<1>16. ASSUME NEW w \in Writers, WriteMeta(w) PROVE CallsPlaced'
    BY <1>16 DEF WriteMeta, Due, Ended, Saved, At, Goto, callVars
<1>17. ASSUME NEW w \in Writers, WriteFile(w) PROVE CallsPlaced'
    BY <1>17 DEF WriteFile, Ended, Goto
<1> QED
    BY <1>1, <1>2, <1>3, <1>4, <1>5, <1>6, <1>7, <1>8, <1>9,
       <1>10, <1>11, <1>12, <1>13, <1>14, <1>15, <1>16, <1>17, <1>18, WriterIsPair DEF Next

(* Every step keeps loads guarded: unload needs r.mu, Stop copies the mark *)
(* and Restore clears it.                                                  *)
LEMMA GuardStep == IInv /\ [Next]_vars => LoadsGuarded'
<1> SUFFICES ASSUME IInv, [Next]_vars PROVE LoadsGuarded'
    OBVIOUS
<1> USE DEF IInv, TypeOK, Pcs, Metas, CallsPlaced, LoadsGuarded, Loading, IsArchived, Writers
<1>1. CASE UNCHANGED vars
    BY <1>1 DEF vars, callVars
<1>2. CASE Shutdown
    BY <1>2 DEF Shutdown, callVars
<1>3. CASE StopAll
    BY <1>3 DEF StopAll, Over, callVars
<1>4. CASE PersistActivity
    BY <1>4 DEF PersistActivity, Meta, callVars
<1>5. CASE Start
    BY <1>5 DEF Start, Read, NoWriter, At
<1>6. ASSUME NEW a \in Account, PersistOne(a) PROVE LoadsGuarded'
    BY <1>6 DEF PersistOne, Saved, callVars
<1>7. ASSUME NEW i \in Calls, NEW a \in Account, NEW kind \in Kinds, Arrive(i, kind, a)
      PROVE  LoadsGuarded'
  <2>1. ~Loading(i)' /\ ~Loading(i) /\ UNCHANGED <<mu, meta>>
      BY <1>7 DEF Arrive, Called, At
  <2>2. \A j \in Calls \ {i} : pc'[j] = pc[j] /\ call'[j] = call[j]
      BY <1>7 DEF Arrive, Called
  <2> QED
      BY <2>1, <2>2
<1>8. ASSUME NEW i \in Calls, Get(i) PROVE LoadsGuarded'
    BY <1>8 DEF Get, At, Gets, Nothing, Goto, callVars
<1>9. ASSUME NEW i \in Calls, Load(i) PROVE LoadsGuarded'
    BY <1>9 DEF Load, At, Gets, Nothing, Goto
<1>18. ASSUME NEW i \in Calls, AnswerDashboard(i) PROVE LoadsGuarded'
    BY <1>18 DEF AnswerDashboard, At, Goto
<1>10. ASSUME NEW i \in Calls, Touch(i) PROVE LoadsGuarded'
    BY <1>10 DEF Touch, At, Meta
<1>11. ASSUME NEW i \in Calls, Unload(i) PROVE LoadsGuarded'
    BY <1>11 DEF Unload, At, Goto, Meta
<1>12. ASSUME NEW i \in Calls, Stop(i) PROVE LoadsGuarded'
  <2>1. call[i].account \in Account /\ UNCHANGED <<mu, call>>
      BY <1>12 DEF Stop, At, Goto
  <2>2. \A b \in Account : meta'[b].archived = meta[b].archived
      BY <1>12, <2>1 DEF Stop, Meta
  <2>3. ~Loading(i)' /\ \A j \in Calls \ {i} : pc'[j] = pc[j]
      BY <1>12 DEF Stop, Goto
  <2> QED
      BY <2>1, <2>2, <2>3
<1>13. ASSUME NEW i \in Calls, Restore(i) PROVE LoadsGuarded'
    BY <1>13 DEF Restore, At, Goto, Meta
<1>14. ASSUME NEW i \in Calls, Forget(i) PROVE LoadsGuarded'
    BY <1>14 DEF Forget, At, Goto, Unused, NoFile, Foreground
<1>15. ASSUME NEW i \in Calls, RemoveAccount(i) PROVE LoadsGuarded'
    BY <1>15 DEF RemoveAccount, At, Goto, NoFile, NoWriter
<1>16. ASSUME NEW w \in Writers, WriteMeta(w) PROVE LoadsGuarded'
    BY <1>16 DEF WriteMeta, Due, Ended, Saved, At, Goto, callVars
<1>17. ASSUME NEW w \in Writers, WriteFile(w) PROVE LoadsGuarded'
    BY <1>17 DEF WriteFile, Ended, Goto
<1> QED
    BY <1>1, <1>2, <1>3, <1>4, <1>5, <1>6, <1>7, <1>8, <1>9,
       <1>10, <1>11, <1>12, <1>13, <1>14, <1>15, <1>16, <1>17, <1>18, WriterIsPair DEF Next

(* No step leaves an archived account loaded: unload drops the services    *)
(* with the mark, and a load ends unmarked.                                *)
LEMMA NotLoadedStep == IInv /\ [Next]_vars => ArchivedNotLoaded'
<1> SUFFICES ASSUME IInv, [Next]_vars PROVE ArchivedNotLoaded'
    OBVIOUS
<1> USE DEF IInv, TypeOK, Pcs, Metas, CallsPlaced, LoadsGuarded, Loading, IsArchived,
        ArchivedNotLoaded, Writers
<1>1. CASE UNCHANGED vars
    BY <1>1 DEF vars, callVars
<1>2. CASE Shutdown
    BY <1>2 DEF Shutdown, callVars
<1>3. CASE StopAll
    BY <1>3 DEF StopAll, Over, callVars
<1>4. CASE PersistActivity
    BY <1>4 DEF PersistActivity, Meta, callVars
<1>5. CASE Start
    BY <1>5 DEF Start, Read, NoWriter, At
<1>6. ASSUME NEW a \in Account, PersistOne(a) PROVE ArchivedNotLoaded'
    BY <1>6 DEF PersistOne, Saved, callVars
<1>7. ASSUME NEW i \in Calls, NEW a \in Account, NEW kind \in Kinds, Arrive(i, kind, a)
      PROVE  ArchivedNotLoaded'
    BY <1>7 DEF Arrive, Called, At
<1>8. ASSUME NEW i \in Calls, Get(i) PROVE ArchivedNotLoaded'
    BY <1>8 DEF Get, At, Gets, Nothing, Goto, callVars
<1>9. ASSUME NEW i \in Calls, Load(i) PROVE ArchivedNotLoaded'
    BY <1>9 DEF Load, At, Gets, Nothing, Goto
<1>18. ASSUME NEW i \in Calls, AnswerDashboard(i) PROVE ArchivedNotLoaded'
    BY <1>18 DEF AnswerDashboard, At, Goto
<1>10. ASSUME NEW i \in Calls, Touch(i) PROVE ArchivedNotLoaded'
    BY <1>10 DEF Touch, At, Meta
<1>11. ASSUME NEW i \in Calls, Unload(i) PROVE ArchivedNotLoaded'
    BY <1>11 DEF Unload, At, Goto, Meta
<1>12. ASSUME NEW i \in Calls, Stop(i) PROVE ArchivedNotLoaded'
    BY <1>12 DEF Stop, At, Goto, Meta
<1>13. ASSUME NEW i \in Calls, Restore(i) PROVE ArchivedNotLoaded'
    BY <1>13 DEF Restore, At, Goto, Meta
<1>14. ASSUME NEW i \in Calls, Forget(i) PROVE ArchivedNotLoaded'
    BY <1>14 DEF Forget, At, Goto, Unused, NoFile, Foreground
<1>15. ASSUME NEW i \in Calls, RemoveAccount(i) PROVE ArchivedNotLoaded'
    BY <1>15 DEF RemoveAccount, At, Goto, NoFile, NoWriter
<1>16. ASSUME NEW w \in Writers, WriteMeta(w) PROVE ArchivedNotLoaded'
    BY <1>16 DEF WriteMeta, Due, Ended, Saved, At, Goto, callVars
<1>17. ASSUME NEW w \in Writers, WriteFile(w) PROVE ArchivedNotLoaded'
    BY <1>17 DEF WriteFile, Ended, Goto
<1> QED
    BY <1>1, <1>2, <1>3, <1>4, <1>5, <1>6, <1>7, <1>8, <1>9,
       <1>10, <1>11, <1>12, <1>13, <1>14, <1>15, <1>16, <1>17, <1>18, WriterIsPair DEF Next

(* The invariant is inductive.                                             *)
LEMMA Inductive == IInv /\ [Next]_vars => IInv'
BY TypeStep, PlacedStep, GuardStep, NotLoadedStep DEF IInv

(* Type correctness, for any accounts and any number of calls.             *)
THEOREM AccountsType == Spec => []TypeOK
<1>1. IInv => TypeOK
    BY DEF IInv
<1> QED
    BY <1>1, InitIInv, Inductive, PTL DEF Spec

(* However requests, archivings, restores, deletions, shutdowns and crashes *)
(* interleave, an archived account has no services in the registry (get and *)
(* unload).                                                                *)
THEOREM ArchivedStaysUnloaded == Spec => []ArchivedNotLoaded
<1>1. IInv => ArchivedNotLoaded
    BY DEF IInv
<1> QED
    BY <1>1, InitIInv, Inductive, PTL DEF Spec

(***************************************************************************)
(* account.json never falls behind the record for good (RecordsSaved).      *)
(***************************************************************************)
(* The types of the fields the proof reads, and where calls are placed.    *)
Fields ==
    /\ \A a \in Account :
          /\ meta[a].known \in BOOLEAN /\ meta[a].archived \in BOOLEAN
          /\ meta[a].activity \in Nat /\ meta[a].persistedAt \in Nat
          /\ file[a].there \in BOOLEAN /\ file[a].archived \in BOOLEAN /\ file[a].activity \in Nat
    /\ \A i \in Calls : pc[i] # "none" => call[i].account \in Account
    /\ \A i \in background : i \in Calls /\ pc[i] # "none"
    /\ \A w \in DOMAIN writing :
          /\ w[1] \in Calls /\ w[2] \in {"call", "background"} /\ w = <<w[1], w[2]>>
          /\ pc[w[1]] # "none"
          /\ writing[w].there \in BOOLEAN /\ writing[w].archived \in BOOLEAN
          /\ writing[w].activity \in Nat
    /\ clock \in Nat /\ unsaved \subseteq Account /\ drained \in BOOLEAN

(* A call owes a write from the moment it changed the record.              *)
Owing(i) == pc[i] \in {"stop", "save", "remove", "removing"}
Of(w) == call[w[1]].account
Owed(w) == IF w[2] = "call" THEN Owing(w[1]) ELSE w[1] \in background

(* Nobody owes account a a write, or nobody but w does.                    *)
Settled(a) == \A i \in Calls : call[i].account = a => ~Owing(i) /\ i \notin background
OnlyOwed(w) ==
    \A i \in Calls : call[i].account = Of(w) =>
        /\ Owing(i) => w = <<i, "call">>
        /\ i \in background => w = <<i, "background">>

(* The record and the file agree about archiving.                          *)
Agree(a) == file[a].there = meta[a].known /\ file[a].archived = meta[a].archived

(* writeMu: one holder, which owes the write; a deletion holds it between  *)
(* its two halves.                                                         *)
LockHeld ==
    /\ \A v, w \in DOMAIN writing : v = w
    /\ \A w \in DOMAIN writing :
          /\ Owed(w)
          /\ writing[w].there <=> ~(w[2] = "call" /\ pc[w[1]] = "removing")
          /\ writing[w].there => \A i \in Calls : pc[i] # "removing"
    /\ \A i \in Calls : pc[i] = "removing" => <<i, "call">> \in DOMAIN writing
    /\ \A i, j \in Calls : pc[i] = "removing" /\ pc[j] = "removing" => i = j

(* A record that is not known is blank, and has no file unless a deletion  *)
(* is about to remove it; a file that is not there says nothing.           *)
BlankRecords ==
    \A a \in Account :
        /\ ~meta[a].known => ~meta[a].archived /\ meta[a].activity = 0 /\ meta[a].persistedAt = 0
        /\ ~meta[a].known /\ file[a].there =>
              \E i \in Calls : pc[i] = "removing" /\ call[i].account = a
        /\ ~file[a].there => ~file[a].archived /\ file[a].activity = 0

(* What is being written is current unless somebody else owes a write, and *)
(* so is what a deletion is about to remove.                               *)
WritesCurrent ==
    /\ \A w \in DOMAIN writing : writing[w].there =>
          /\ meta[Of(w)].known
          /\ OnlyOwed(w) => writing[w].archived = meta[Of(w)].archived
    /\ \A i \in Calls :
          pc[i] = "removing" /\ OnlyOwed(<<i, "call">>) => ~meta[call[i].account].known

(* A settled account agrees with its file.                                 *)
SettledAgree == \A a \in Account : Settled(a) => Agree(a)

(* No activity time is newer than the last one handed out, and only        *)
(* answered requests have background writes.                               *)
TimesOrdered ==
    /\ \A a \in Account :
          /\ meta[a].persistedAt <= meta[a].activity /\ meta[a].activity <= clock
          /\ file[a].activity <= clock
    /\ \A w \in DOMAIN writing : writing[w].activity <= clock
    /\ \A i \in background : pc[i] \in {"log", "logload", "done"}

(* No activity write of a is pending but the one w makes.                  *)
Noted(a, w) ==
    /\ a \notin unsaved /\ meta[a].activity = meta[a].persistedAt
    /\ \A i \in background : call[i].account = a => w = <<i, "background">>

(* An activity time that counts as saved is in the file, or on its way.    *)
ActivitySaved ==
    /\ \A a \in Account :
          /\ a \notin unsaved /\ meta[a].activity = meta[a].persistedAt
          /\ \A i \in Calls : call[i].account = a => i \notin background /\ pc[i] # "removing"
          => file[a].activity = meta[a].activity
    /\ \A w \in DOMAIN writing :
          writing[w].there /\ Noted(Of(w), w) => writing[w].activity = meta[Of(w)].activity
    /\ \A i \in Calls :
          pc[i] = "removing" /\ Noted(call[i].account, <<i, "call">>)
          => meta[call[i].account].activity = 0

(* A shutdown that drained the calls leaves nothing to note.               *)
Shut ==
    /\ drained => server \in {"persisting", "stopped"} /\ \A i \in Calls : Over(i)
    /\ server # "persisting" => unsaved = {}
    /\ drained /\ (server = "stopped" \/ unsaved # {}) =>
          /\ background = {}
          /\ \A a \in Account : meta[a].activity = meta[a].persistedAt

RInv ==
    /\ LockHeld /\ BlankRecords /\ WritesCurrent /\ SettledAgree
    /\ TimesOrdered /\ ActivitySaved /\ Shut

-----------------------------------------------------------------------------
(* What each action changes of the state that the invariants below read,   *)
(* field by field.                                                         *)

(* A stutter, Shutdown and StopAll.                                        *)
ServerEffect ==
    /\ \/ UNCHANGED <<server, drained>>
       \/ server' = "draining" /\ UNCHANGED drained /\ server = "up"
       \/ server' = "persisting" /\ drained' = (\A i \in Calls : Over(i)) /\ server = "draining"
    /\ UNCHANGED <<meta, file, call, pc, background, writing, unsaved, clock>>

PersistEffect ==
    /\ server = "persisting" /\ unsaved = {} /\ background = {}
    /\ unsaved' \subseteq Account
    /\ \A a \in Account :
          /\ a \in unsaved' <=> meta[a].activity > meta[a].persistedAt
          /\ a \notin unsaved' => meta'[a] = meta[a]
          /\ meta'[a].known = (meta[a].known \/ a \in unsaved')
          /\ meta'[a].archived = meta[a].archived /\ meta'[a].activity = meta[a].activity
          /\ a \in unsaved' => meta'[a].persistedAt = meta[a].activity
    /\ server' = IF unsaved' = {} THEN "stopped" ELSE server
    /\ UNCHANGED <<file, call, pc, background, writing, drained, clock>>

StartEffect ==
    /\ \A a \in Account :
          /\ meta'[a].known = file[a].there /\ meta'[a].archived = file[a].archived
          /\ meta'[a].activity = file[a].activity /\ meta'[a].persistedAt = file[a].activity
    /\ \A j \in Calls : pc'[j] \in {"none", "done"}
    /\ background' = {} /\ DOMAIN writing' = {} /\ server' = "up" /\ drained' = FALSE
    /\ unsaved' = {}
    /\ UNCHANGED <<file, call, clock>>

PersistOneEffect(a) ==
    /\ a \in unsaved /\ DOMAIN writing = {} /\ DOMAIN writing' = {}
    /\ \A b \in Account : b \in unsaved' <=> b \in unsaved /\ b # a
    /\ unsaved' \subseteq Account
    /\ server' = IF unsaved' = {} THEN "stopped" ELSE server
    /\ \A b \in Account :
          file'[b] = IF b = a /\ meta[a].known THEN Saved(meta[a]) ELSE file[b]
    /\ UNCHANGED <<meta, call, pc, background, drained, clock>>

ArriveEffect(i, a) ==
    /\ pc[i] = "none" /\ pc'[i] \in {"get", "restore", "unload", "done"}
    /\ call'[i].account = a
    /\ \A j \in Calls : j # i => pc'[j] = pc[j] /\ call'[j] = call[j]
    /\ server = "up"
    /\ UNCHANGED <<meta, file, background, writing, server, drained, unsaved, clock>>

(* Looking services up, loading them and the end of a dashboard request    *)
(* touch nothing that is saved.                                            *)
LoadEffect(i) ==
    /\ pc[i] \in {"get", "log", "load", "logload", "serve"}
    /\ pc'[i] \in {"load", "logload", "serve", "done"}
    /\ pc[i] \in {"log", "logload"} => pc'[i] \in {"logload", "done"}
    /\ \A j \in Calls : j # i => pc'[j] = pc[j]
    /\ UNCHANGED <<meta, file, call, background, writing, server, drained, unsaved, clock>>

TouchEffect(i) ==
    /\ pc[i] = "serve" /\ pc'[i] \in {"log", "done"}
    /\ \A j \in Calls : j # i => pc'[j] = pc[j]
    /\ clock' = clock + 1
    /\ call[i].account \in Account /\ \A b \in Account : b # call[i].account => meta'[b] = meta[b]
    /\ meta'[call[i].account].known = TRUE
    /\ meta'[call[i].account].archived = meta[call[i].account].archived
    /\ meta'[call[i].account].activity = clock + 1
    /\ \/ background' = background \cup {i} /\ meta'[call[i].account].persistedAt = clock + 1
       \/ /\ background' = background /\ meta[call[i].account].persistedAt # 0
          /\ meta'[call[i].account].persistedAt = meta[call[i].account].persistedAt
    /\ UNCHANGED <<file, call, writing, server, drained, unsaved>>

UnloadEffect(i) ==
    /\ pc[i] = "unload" /\ pc'[i] = "stop"
    /\ \A j \in Calls : j # i => pc'[j] = pc[j]
    /\ call[i].account \in Account /\ \A b \in Account : b # call[i].account => meta'[b] = meta[b]
    /\ meta'[call[i].account].known = TRUE /\ meta'[call[i].account].archived = TRUE
    /\ meta'[call[i].account].activity = meta[call[i].account].activity
    /\ meta'[call[i].account].persistedAt = meta[call[i].account].persistedAt
    /\ UNCHANGED <<file, call, background, writing, server, drained, unsaved, clock>>

StopEffect(i) ==
    /\ pc[i] = "stop" /\ pc'[i] \in {"save", "remove"}
    /\ \A j \in Calls : j # i => pc'[j] = pc[j]
    /\ call[i].account \in Account /\ \A b \in Account : b # call[i].account => meta'[b] = meta[b]
    /\ meta'[call[i].account].known = (meta[call[i].account].known \/ pc'[i] = "save")
    /\ meta'[call[i].account].archived = meta[call[i].account].archived
    /\ meta'[call[i].account].activity = meta[call[i].account].activity
    /\ meta'[call[i].account].persistedAt = meta[call[i].account].persistedAt
    /\ UNCHANGED <<file, call, background, writing, server, drained, unsaved, clock>>

RestoreEffect(i) ==
    /\ pc[i] = "restore" /\ pc'[i] = "save"
    /\ \A j \in Calls : j # i => pc'[j] = pc[j]
    /\ clock' = clock + 1
    /\ call[i].account \in Account /\ \A b \in Account : b # call[i].account => meta'[b] = meta[b]
    /\ meta'[call[i].account].known = TRUE /\ meta'[call[i].account].archived = FALSE
    /\ meta'[call[i].account].activity = clock + 1
    /\ meta'[call[i].account].persistedAt = meta[call[i].account].persistedAt
    /\ UNCHANGED <<file, call, background, writing, server, drained, unsaved>>

ForgetEffect(i) ==
    /\ pc[i] = "remove" /\ pc'[i] = "removing"
    /\ \A j \in Calls : j # i => pc'[j] = pc[j]
    /\ call[i].account \in Account /\ \A b \in Account : b # call[i].account => meta'[b] = meta[b]
    /\ meta'[call[i].account] = Unused
    /\ DOMAIN writing = {} /\ DOMAIN writing' = {<<i, "call">>}
    /\ writing'[<<i, "call">>] = NoFile
    /\ UNCHANGED <<file, call, background, server, drained, unsaved, clock>>

RemoveEffect(i) ==
    /\ pc[i] = "removing" /\ pc'[i] = "done"
    /\ \A j \in Calls : j # i => pc'[j] = pc[j]
    /\ call[i].account \in Account /\ file'[call[i].account] = NoFile
    /\ \A b \in Account : b # call[i].account => file'[b] = file[b]
    /\ DOMAIN writing' = {}
    /\ UNCHANGED <<meta, call, background, server, drained, unsaved, clock>>

(* A write is over: its call goes on, or its background write is done.     *)
EndedEffect(w) ==
    /\ DOMAIN writing' = {}
    /\ \A j \in Calls : pc'[j] = IF w = <<j, "call">> THEN "done" ELSE pc[j]
    /\ \A j \in Calls : j \in background' <=> j \in background /\ w # <<j, "background">>
    /\ background' \subseteq Calls

(* The first half of writeMeta begins the write of a known record, or is   *)
(* done with a deleted one.                                                *)
WriteMetaEffect(w) ==
    /\ w[1] \in Calls /\ w = <<w[1], w[2]>> /\ Of(w) \in Account /\ DOMAIN writing = {}
    /\ IF w[2] = "call" THEN pc[w[1]] = "save" ELSE w[1] \in background
    /\ UNCHANGED <<meta, file, call, server, drained, unsaved, clock>>
    /\ \/ /\ meta[Of(w)].known /\ DOMAIN writing' = {w} /\ writing'[w] = Saved(meta[Of(w)])
          /\ UNCHANGED <<pc, background>>
       \/ ~meta[Of(w)].known /\ EndedEffect(w)

WriteFileEffect(w) ==
    /\ w[1] \in Calls /\ w = <<w[1], w[2]>> /\ Of(w) \in Account
    /\ w \in DOMAIN writing /\ writing[w].there
    /\ file'[Of(w)] = writing[w] /\ \A b \in Account : b # Of(w) => file'[b] = file[b]
    /\ EndedEffect(w)
    /\ UNCHANGED <<meta, call, server, drained, unsaved, clock>>

(* A step, as far as the records and their files are concerned.            *)
SaveStep ==
    \/ ServerEffect \/ PersistEffect \/ StartEffect
    \/ \E a \in Account : PersistOneEffect(a)
    \/ \E i \in Calls, a \in Account : ArriveEffect(i, a)
    \/ \E i \in Calls :
          \/ LoadEffect(i) \/ TouchEffect(i) \/ UnloadEffect(i) \/ StopEffect(i)
          \/ RestoreEffect(i) \/ ForgetEffect(i) \/ RemoveEffect(i)
    \/ \E w \in Writers : WriteMetaEffect(w) \/ WriteFileEffect(w)

-----------------------------------------------------------------------------
(* The fields have their types.                                            *)
LEMMA FieldTypes == IInv => Fields
BY DEF IInv, TypeOK, CallsPlaced, Metas, Files, Fields

(* Also after a step.                                                      *)
LEMMA FieldTypesNext == IInv' => Fields'
BY DEF IInv, TypeOK, CallsPlaced, Metas, Files, Fields

(* The actions have these effects: the server stops taking calls.          *)
LEMMA ServerHas == Shutdown \/ StopAll \/ UNCHANGED vars => ServerEffect
BY DEF Shutdown, StopAll, vars, callVars, ServerEffect

(* persistActivity lists the records to write.                             *)
LEMMA PersistHas == IInv /\ PersistActivity => PersistEffect
<1> SUFFICES ASSUME IInv, PersistActivity PROVE PersistEffect
    OBVIOUS
<1>1. PICK late : /\ late = {a \in Account : meta[a].activity > meta[a].persistedAt}
                  /\ unsaved' = late
                  /\ meta' = [a \in Account |->
                        IF a \in late THEN Meta(meta[a].archived, meta[a].activity,
                                meta[a].activity)
                        ELSE meta[a]]
                  /\ server' = IF late = {} THEN "stopped" ELSE server
    BY DEF PersistActivity
<1>2. /\ server = "persisting" /\ unsaved = {} /\ background = {}
      /\ UNCHANGED <<file, call, pc, background, writing, drained, clock>>
    BY DEF PersistActivity, callVars
<1>3. \A a \in Account : meta[a].known \in BOOLEAN
    BY DEF IInv, TypeOK, Metas
<1> QED
    BY <1>1, <1>2, <1>3 DEF PersistEffect, Meta

(* The next start reads the files.                                         *)
LEMMA StartHas == IInv /\ Start => StartEffect
BY DEF IInv, TypeOK, Start, StartEffect, Read, At, NoWriter

(* persistActivity writes one record.                                      *)
LEMMA PersistOneHas == \A a \in Account : IInv /\ PersistOne(a) => PersistOneEffect(a)
BY DEF IInv, TypeOK, PersistOne, PersistOneEffect, NoWriter, callVars

(* A call arrives.                                                         *)
LEMMA ArriveHas ==
    \A i \in Calls, a \in Account, kind \in Kinds : IInv /\ Arrive(i, kind,
            a) => ArriveEffect(i, a)
BY DEF IInv, TypeOK, CallsPlaced, Pcs, Metas, Files, Writers, Arrive, ArriveEffect, Called, At

(* get answers or begins a load.                                           *)
LEMMA GetHas == \A i \in Calls : IInv /\ Get(i) => LoadEffect(i)
BY DEF IInv, TypeOK, CallsPlaced, Pcs, Metas, Files, Writers, Get, LoadEffect, Gets, Nothing,
        Goto, At, callVars

(* The factory ends.                                                       *)
LEMMA LoadHas == \A i \in Calls : IInv /\ Load(i) => LoadEffect(i)
BY DEF IInv, TypeOK, CallsPlaced, Pcs, Metas, Files, Writers, Load, LoadEffect, Gets, Nothing,
        Goto, At

(* A dashboard request ends.                                               *)
LEMMA DashboardHas == \A i \in Calls : IInv /\ AnswerDashboard(i) => LoadEffect(i)
BY DEF IInv, TypeOK, CallsPlaced, Pcs, AnswerDashboard, LoadEffect, Goto, At

(* Touch notes an activity time.                                           *)
LEMMA TouchHas == \A i \in Calls : IInv /\ Touch(i) => TouchEffect(i)
<1> SUFFICES ASSUME NEW i \in Calls, IInv, Touch(i) PROVE TouchEffect(i)
    OBVIOUS
<1> USE DEF IInv, TypeOK, CallsPlaced, Pcs, Metas
<1>1. call[i].account \in Account
    BY DEF Touch, At
<1>2. PICK persist \in BOOLEAN :
          /\ meta' = [meta EXCEPT ![call[i].account] =
                         Meta(meta[call[i].account].archived, clock + 1,
                              IF persist THEN clock + 1 ELSE meta[call[i].account].persistedAt)]
          /\ background' = IF persist THEN background \cup {i} ELSE background
          /\ persist \/ meta[call[i].account].persistedAt # 0
    BY DEF Touch
<1>3. /\ pc[i] = "serve" /\ pc'[i] \in {"log", "done"} /\ clock' = clock + 1
      /\ \A j \in Calls : j # i => pc'[j] = pc[j]
      /\ UNCHANGED <<file, call, writing, server, drained, unsaved>>
    BY DEF Touch, At
<1> QED
    BY <1>1, <1>2, <1>3 DEF TouchEffect, Meta

(* unload takes the services out and marks the record.                     *)
LEMMA UnloadHas == \A i \in Calls : IInv /\ Unload(i) => UnloadEffect(i)
BY DEF IInv, TypeOK, CallsPlaced, Pcs, Metas, Files, Writers, Unload, UnloadEffect, At, Goto, Meta

(* The services have stopped.                                              *)
LEMMA StopHas == \A i \in Calls : IInv /\ Stop(i) => StopEffect(i)
<1> SUFFICES ASSUME NEW i \in Calls, IInv, Stop(i) PROVE StopEffect(i)
    OBVIOUS
<1> USE DEF IInv, TypeOK, CallsPlaced, Pcs, Metas, At, Goto
<1>1. call[i].account \in Account
    BY DEF Stop
<1>2. CASE call[i].kind = "delete"
    BY <1>1, <1>2 DEF Stop, StopEffect
<1>3. CASE call[i].kind # "delete"
  <2>1. meta' = [meta EXCEPT ![call[i].account] =
                    Meta(meta[call[i].account].archived, meta[call[i].account].activity,
                         meta[call[i].account].persistedAt)]
      BY <1>3 DEF Stop
  <2>2. /\ pc[i] = "stop" /\ pc'[i] = "save" /\ \A j \in Calls : j # i => pc'[j] = pc[j]
        /\ UNCHANGED <<file, call, background, writing, server, drained, unsaved, clock>>
      BY <1>3 DEF Stop
  <2> QED
      BY <1>1, <2>1, <2>2 DEF StopEffect, Meta
<1> QED
    BY <1>2, <1>3

(* Restore clears the mark.                                                *)
LEMMA RestoreHas == \A i \in Calls : IInv /\ Restore(i) => RestoreEffect(i)
BY DEF IInv, TypeOK, CallsPlaced, Pcs, Metas, Files, Writers, Restore, RestoreEffect, At, Goto,
        Meta

(* Delete forgets the record.                                              *)
LEMMA ForgetHas == \A i \in Calls : IInv /\ Forget(i) => ForgetEffect(i)
BY DEF IInv, TypeOK, CallsPlaced, Pcs, Metas, Files, Writers, Forget, ForgetEffect, At, Goto,
        Foreground, NoWriter

(* Delete removes the files.                                               *)
LEMMA RemoveHas == \A i \in Calls : IInv /\ RemoveAccount(i) => RemoveEffect(i)
BY DEF IInv, TypeOK, CallsPlaced, Pcs, Metas, Files, Writers, RemoveAccount, RemoveEffect, At, Goto,
        NoWriter

(* writeMeta reads the record under writeMu.                               *)
LEMMA WriteMetaHas == \A w \in Writers : IInv /\ WriteMeta(w) => WriteMetaEffect(w)
<1> SUFFICES ASSUME NEW w \in Writers, IInv, WriteMeta(w) PROVE WriteMetaEffect(w)
    OBVIOUS
<1> USE DEF IInv, TypeOK, CallsPlaced, Writers, Of
<1>1. /\ w[1] \in Calls /\ DOMAIN writing = {} /\ w = <<w[1], w[2]>>
      /\ IF w[2] = "call" THEN pc[w[1]] = "save" ELSE w[1] \in background
      /\ UNCHANGED <<meta, file, call, server, drained, unsaved, clock>>
    BY DEF WriteMeta, Due, At, NoWriter, Ended, Goto, callVars
<1>2. Of(w) \in Account
    BY <1>1
<1>3. CASE meta[Of(w)].known
    BY <1>1, <1>2, <1>3 DEF WriteMeta, WriteMetaEffect, callVars
<1>4. CASE ~meta[Of(w)].known
    BY <1>1, <1>2, <1>4 DEF WriteMeta, WriteMetaEffect, EndedEffect, Ended, Goto
<1> QED
    BY <1>3, <1>4

(* writeMeta renames the file into place.                                  *)
LEMMA WriteFileHas == \A w \in Writers : IInv /\ LockHeld /\ WriteFile(w) => WriteFileEffect(w)
<1> SUFFICES ASSUME NEW w \in Writers, IInv, LockHeld, WriteFile(w) PROVE WriteFileEffect(w)
    OBVIOUS
<1> USE DEF IInv, TypeOK, CallsPlaced, Writers, Of
<1>1. /\ w[1] \in Calls /\ w \in DOMAIN writing /\ writing[w].there /\ w = <<w[1], w[2]>>
      /\ UNCHANGED <<meta, call, server, drained, unsaved, clock>>
    BY DEF WriteFile, Ended, Goto
<1>2. Of(w) \in Account
    BY <1>1
<1>3. DOMAIN writing' = {}
    BY <1>1 DEF WriteFile, LockHeld
<1>4. EndedEffect(w)
    BY <1>1, <1>3 DEF WriteFile, EndedEffect, Ended, Goto
<1>5. file'[Of(w)] = writing[w] /\ \A b \in Account : b # Of(w) => file'[b] = file[b]
    BY <1>1, <1>2 DEF WriteFile
<1> QED
    BY <1>1, <1>2, <1>4, <1>5 DEF WriteFileEffect

(* Every step is one of these.                                             *)
LEMMA StepHas == IInv /\ RInv /\ [Next]_vars => SaveStep
<1>1. RInv => LockHeld
    BY DEF RInv
<1> QED
    BY <1>1, ServerHas, PersistHas, StartHas, PersistOneHas, ArriveHas, GetHas, LoadHas, DashboardHas,
       TouchHas, UnloadHas, StopHas, RestoreHas, ForgetHas, RemoveHas, WriteMetaHas, WriteFileHas,
       WriterIsPair DEF Next, SaveStep

-----------------------------------------------------------------------------
(* One writer at a time: writeMu is taken only when it is free.            *)
LEMMA LockStep == Fields /\ Fields' /\ RInv /\ SaveStep => LockHeld'
<1> SUFFICES ASSUME Fields, Fields', RInv, SaveStep PROVE LockHeld'
    OBVIOUS
<1>0. LockHeld
    BY DEF RInv
<1> USE <1>0 DEF Fields, LockHeld, Owed, Owing
<1>1. CASE ServerEffect
    BY <1>1 DEF ServerEffect
<1>2. CASE PersistEffect
    BY <1>2 DEF PersistEffect
<1>3. CASE StartEffect
    BY <1>3 DEF StartEffect
<1>4. ASSUME NEW a \in Account, PersistOneEffect(a) PROVE LockHeld'
    BY <1>4 DEF PersistOneEffect, Saved
<1>5. ASSUME NEW i \in Calls, NEW a \in Account, ArriveEffect(i, a) PROVE LockHeld'
    BY <1>5 DEF ArriveEffect
<1>6. ASSUME NEW i \in Calls, LoadEffect(i) PROVE LockHeld'
    BY <1>6 DEF LoadEffect
<1>7. ASSUME NEW i \in Calls, TouchEffect(i) PROVE LockHeld'
    BY <1>7 DEF TouchEffect
<1>8. ASSUME NEW i \in Calls, UnloadEffect(i) PROVE LockHeld'
    BY <1>8 DEF UnloadEffect
<1>9. ASSUME NEW i \in Calls, StopEffect(i) PROVE LockHeld'
    BY <1>9 DEF StopEffect
<1>10. ASSUME NEW i \in Calls, RestoreEffect(i) PROVE LockHeld'
    BY <1>10 DEF RestoreEffect
<1>11. ASSUME NEW i \in Calls, ForgetEffect(i) PROVE LockHeld'
    BY <1>11 DEF ForgetEffect, Unused, NoFile
<1>12. ASSUME NEW i \in Calls, RemoveEffect(i) PROVE LockHeld'
    BY <1>12 DEF RemoveEffect, NoFile
<1>13. ASSUME NEW w \in Writers, WriteMetaEffect(w) PROVE LockHeld'
    BY <1>13 DEF WriteMetaEffect, EndedEffect, Saved
<1>14. ASSUME NEW w \in Writers, WriteFileEffect(w) PROVE LockHeld'
    BY <1>14 DEF WriteFileEffect, EndedEffect
<1> HIDE <1>0 DEF Fields, LockHeld, Owed, Owing
<1> QED
    BY <1>1, <1>2, <1>3, <1>4, <1>5, <1>6, <1>7, <1>8, <1>9,
       <1>10, <1>11, <1>12, <1>13, <1>14 DEF SaveStep

(* Blank records stay blank: only Delete forgets a record, and it removes  *)
(* the file before anybody writes it again.                                *)
LEMMA BlankStep == Fields /\ Fields' /\ RInv /\ SaveStep => BlankRecords'
<1> SUFFICES ASSUME Fields, Fields', RInv, SaveStep PROVE BlankRecords'
    OBVIOUS
<1>0. LockHeld /\ BlankRecords /\ WritesCurrent
    BY DEF RInv
<1> USE <1>0 DEF Fields, BlankRecords, WritesCurrent, LockHeld, Owed, Owing, Of
<1>1. CASE ServerEffect
    BY <1>1 DEF ServerEffect
<1>2. CASE PersistEffect
    BY <1>2 DEF PersistEffect
<1>3. CASE StartEffect
    BY <1>3 DEF StartEffect
<1>4. ASSUME NEW a \in Account, PersistOneEffect(a) PROVE BlankRecords'
    BY <1>4 DEF PersistOneEffect, Saved
<1>5. ASSUME NEW i \in Calls, NEW a \in Account, ArriveEffect(i, a) PROVE BlankRecords'
    BY <1>5 DEF ArriveEffect
<1>6. ASSUME NEW i \in Calls, LoadEffect(i) PROVE BlankRecords'
    BY <1>6 DEF LoadEffect
<1>7. ASSUME NEW i \in Calls, TouchEffect(i) PROVE BlankRecords'
    BY <1>7 DEF TouchEffect
<1>8. ASSUME NEW i \in Calls, UnloadEffect(i) PROVE BlankRecords'
    BY <1>8 DEF UnloadEffect
<1>9. ASSUME NEW i \in Calls, StopEffect(i) PROVE BlankRecords'
    BY <1>9 DEF StopEffect
<1>10. ASSUME NEW i \in Calls, RestoreEffect(i) PROVE BlankRecords'
    BY <1>10 DEF RestoreEffect
<1>11. ASSUME NEW i \in Calls, ForgetEffect(i) PROVE BlankRecords'
    BY <1>11 DEF ForgetEffect, Unused, NoFile
<1>12. ASSUME NEW i \in Calls, RemoveEffect(i) PROVE BlankRecords'
    BY <1>12 DEF RemoveEffect, NoFile
<1>13. ASSUME NEW w \in Writers, WriteMetaEffect(w) PROVE BlankRecords'
    BY <1>13 DEF WriteMetaEffect, EndedEffect, Saved
<1>14. ASSUME NEW w \in Writers, WriteFileEffect(w) PROVE BlankRecords'
    BY <1>14 DEF WriteFileEffect, EndedEffect
<1> HIDE <1>0 DEF Fields, BlankRecords, WritesCurrent, LockHeld, Owed, Owing, Of
<1> QED
    BY <1>1, <1>2, <1>3, <1>4, <1>5, <1>6, <1>7, <1>8, <1>9,
       <1>10, <1>11, <1>12, <1>13, <1>14 DEF SaveStep

(* A write stays current: whoever changes a record after writeMeta read it *)
(* owes a write of its own.                                                *)
LEMMA CurrentStep == Fields /\ Fields' /\ RInv /\ SaveStep => WritesCurrent'
<1> SUFFICES ASSUME Fields, Fields', RInv, SaveStep PROVE WritesCurrent'
    OBVIOUS
<1>0. LockHeld /\ WritesCurrent /\ BlankRecords
    BY DEF RInv
<1> USE <1>0 DEF Fields, WritesCurrent, BlankRecords, LockHeld, OnlyOwed, Owed, Owing, Of
<1>1. CASE ServerEffect
    BY <1>1 DEF ServerEffect
<1>2. CASE PersistEffect
    BY <1>2 DEF PersistEffect
<1>3. CASE StartEffect
    BY <1>3 DEF StartEffect
<1>4. ASSUME NEW a \in Account, PersistOneEffect(a) PROVE WritesCurrent'
    BY <1>4 DEF PersistOneEffect, Saved
<1>5. ASSUME NEW i \in Calls, NEW a \in Account, ArriveEffect(i, a) PROVE WritesCurrent'
    BY <1>5 DEF ArriveEffect
<1>6. ASSUME NEW i \in Calls, LoadEffect(i) PROVE WritesCurrent'
    BY <1>6 DEF LoadEffect
<1>7. ASSUME NEW i \in Calls, TouchEffect(i) PROVE WritesCurrent'
    BY <1>7 DEF TouchEffect
<1>8. ASSUME NEW i \in Calls, UnloadEffect(i) PROVE WritesCurrent'
    BY <1>8 DEF UnloadEffect
<1>9. ASSUME NEW i \in Calls, StopEffect(i) PROVE WritesCurrent'
    BY <1>9 DEF StopEffect
<1>10. ASSUME NEW i \in Calls, RestoreEffect(i) PROVE WritesCurrent'
    BY <1>10 DEF RestoreEffect
<1>11. ASSUME NEW i \in Calls, ForgetEffect(i) PROVE WritesCurrent'
    BY <1>11 DEF ForgetEffect, Unused, NoFile
<1>12. ASSUME NEW i \in Calls, RemoveEffect(i) PROVE WritesCurrent'
    BY <1>12 DEF RemoveEffect, NoFile
<1>13. ASSUME NEW w \in Writers, WriteMetaEffect(w) PROVE WritesCurrent'
    BY <1>13 DEF WriteMetaEffect, EndedEffect, Saved
<1>14. ASSUME NEW w \in Writers, WriteFileEffect(w) PROVE WritesCurrent'
    BY <1>14 DEF WriteFileEffect, EndedEffect
<1> HIDE <1>0 DEF Fields, WritesCurrent, BlankRecords, LockHeld, OnlyOwed, Owed, Owing, Of
<1> QED
    BY <1>1, <1>2, <1>3, <1>4, <1>5, <1>6, <1>7, <1>8, <1>9,
       <1>10, <1>11, <1>12, <1>13, <1>14 DEF SaveStep

(* A settled account agrees with its file: the last write owed was current.*)
LEMMA AgreeStep == Fields /\ Fields' /\ RInv /\ SaveStep => SettledAgree'
<1> SUFFICES ASSUME Fields, Fields', RInv, SaveStep PROVE SettledAgree'
    OBVIOUS
<1>0. LockHeld /\ SettledAgree /\ WritesCurrent /\ BlankRecords
    BY DEF RInv
<1> USE <1>0 DEF Fields, SettledAgree, Settled, Agree, WritesCurrent, BlankRecords, LockHeld,
        OnlyOwed, Owed, Owing, Of
<1>1. CASE ServerEffect
    BY <1>1 DEF ServerEffect
<1>2. CASE PersistEffect
    BY <1>2 DEF PersistEffect
<1>3. CASE StartEffect
    BY <1>3 DEF StartEffect
<1>4. ASSUME NEW a \in Account, PersistOneEffect(a) PROVE SettledAgree'
    BY <1>4 DEF PersistOneEffect, Saved
<1>5. ASSUME NEW i \in Calls, NEW a \in Account, ArriveEffect(i, a) PROVE SettledAgree'
    BY <1>5 DEF ArriveEffect
<1>6. ASSUME NEW i \in Calls, LoadEffect(i) PROVE SettledAgree'
    BY <1>6 DEF LoadEffect
<1>7. ASSUME NEW i \in Calls, TouchEffect(i) PROVE SettledAgree'
    BY <1>7 DEF TouchEffect
<1>8. ASSUME NEW i \in Calls, UnloadEffect(i) PROVE SettledAgree'
    BY <1>8 DEF UnloadEffect
<1>9. ASSUME NEW i \in Calls, StopEffect(i) PROVE SettledAgree'
    BY <1>9 DEF StopEffect
<1>10. ASSUME NEW i \in Calls, RestoreEffect(i) PROVE SettledAgree'
    BY <1>10 DEF RestoreEffect
<1>11. ASSUME NEW i \in Calls, ForgetEffect(i) PROVE SettledAgree'
    BY <1>11 DEF ForgetEffect, Unused, NoFile
<1>12. ASSUME NEW i \in Calls, RemoveEffect(i) PROVE SettledAgree'
    BY <1>12 DEF RemoveEffect, NoFile
<1>13. ASSUME NEW w \in Writers, WriteMetaEffect(w) PROVE SettledAgree'
    BY <1>13 DEF WriteMetaEffect, EndedEffect, Saved
<1>14. ASSUME NEW w \in Writers, WriteFileEffect(w) PROVE SettledAgree'
    BY <1>14 DEF WriteFileEffect, EndedEffect
<1> HIDE <1>0 DEF Fields, SettledAgree, Settled, Agree, WritesCurrent, BlankRecords, LockHeld,
        OnlyOwed, Owed, Owing, Of
<1> QED
    BY <1>1, <1>2, <1>3, <1>4, <1>5, <1>6, <1>7, <1>8, <1>9,
       <1>10, <1>11, <1>12, <1>13, <1>14 DEF SaveStep

(* Times stay ordered.                                                     *)
LEMMA TimesStep == Fields /\ Fields' /\ RInv /\ SaveStep => TimesOrdered'
<1> SUFFICES ASSUME Fields, Fields', RInv, SaveStep PROVE TimesOrdered'
    OBVIOUS
<1>0. LockHeld /\ TimesOrdered
    BY DEF RInv
<1> USE <1>0 DEF Fields, TimesOrdered, LockHeld, Owed, Owing, Of
<1>1. CASE ServerEffect
    BY <1>1 DEF ServerEffect
<1>2. CASE PersistEffect
    BY <1>2 DEF PersistEffect
<1>3. CASE StartEffect
    BY <1>3 DEF StartEffect
<1>4. ASSUME NEW a \in Account, PersistOneEffect(a) PROVE TimesOrdered'
    BY <1>4 DEF PersistOneEffect, Saved
<1>5. ASSUME NEW i \in Calls, NEW a \in Account, ArriveEffect(i, a) PROVE TimesOrdered'
    BY <1>5 DEF ArriveEffect
<1>6. ASSUME NEW i \in Calls, LoadEffect(i) PROVE TimesOrdered'
    BY <1>6 DEF LoadEffect
<1>7. ASSUME NEW i \in Calls, TouchEffect(i) PROVE TimesOrdered'
    BY <1>7 DEF TouchEffect
<1>8. ASSUME NEW i \in Calls, UnloadEffect(i) PROVE TimesOrdered'
    BY <1>8 DEF UnloadEffect
<1>9. ASSUME NEW i \in Calls, StopEffect(i) PROVE TimesOrdered'
    BY <1>9 DEF StopEffect
<1>10. ASSUME NEW i \in Calls, RestoreEffect(i) PROVE TimesOrdered'
    BY <1>10 DEF RestoreEffect
<1>11. ASSUME NEW i \in Calls, ForgetEffect(i) PROVE TimesOrdered'
    BY <1>11 DEF ForgetEffect, Unused, NoFile
<1>12. ASSUME NEW i \in Calls, RemoveEffect(i) PROVE TimesOrdered'
    BY <1>12 DEF RemoveEffect, NoFile
<1>13. ASSUME NEW w \in Writers, WriteMetaEffect(w) PROVE TimesOrdered'
    BY <1>13 DEF WriteMetaEffect, EndedEffect, Saved
<1>14. ASSUME NEW w \in Writers, WriteFileEffect(w) PROVE TimesOrdered'
    BY <1>14 DEF WriteFileEffect, EndedEffect
<1> HIDE <1>0 DEF Fields, TimesOrdered, LockHeld, Owed, Owing, Of
<1> QED
    BY <1>1, <1>2, <1>3, <1>4, <1>5, <1>6, <1>7, <1>8, <1>9,
       <1>10, <1>11, <1>12, <1>13, <1>14 DEF SaveStep

(* Noted activity is saved: a time counts as saved only with a write owed. *)
LEMMA ActivityStep == Fields /\ Fields' /\ RInv /\ SaveStep => ActivitySaved'
<1> SUFFICES ASSUME Fields, Fields', RInv, SaveStep PROVE ActivitySaved'
    OBVIOUS
<1>0. LockHeld /\ ActivitySaved /\ TimesOrdered /\ BlankRecords /\ WritesCurrent
    BY DEF RInv
<1> USE <1>0 DEF Fields, ActivitySaved, Noted, TimesOrdered, BlankRecords, WritesCurrent,
        LockHeld, Owed, Owing, Of
<1>1. CASE ServerEffect
    BY <1>1 DEF ServerEffect
<1>2. CASE PersistEffect
    BY <1>2 DEF PersistEffect
<1>3. CASE StartEffect
    BY <1>3 DEF StartEffect
<1>4. ASSUME NEW a \in Account, PersistOneEffect(a) PROVE ActivitySaved'
    BY <1>4 DEF PersistOneEffect, Saved
<1>5. ASSUME NEW i \in Calls, NEW a \in Account, ArriveEffect(i, a) PROVE ActivitySaved'
    BY <1>5 DEF ArriveEffect
<1>6. ASSUME NEW i \in Calls, LoadEffect(i) PROVE ActivitySaved'
    BY <1>6 DEF LoadEffect
<1>7. ASSUME NEW i \in Calls, TouchEffect(i) PROVE ActivitySaved'
    BY <1>7 DEF TouchEffect
<1>8. ASSUME NEW i \in Calls, UnloadEffect(i) PROVE ActivitySaved'
  <2>1. \A b \in Account : /\ meta'[b].activity = meta[b].activity
                             /\ meta'[b].persistedAt = meta[b].persistedAt
      BY <1>8 DEF UnloadEffect
  <2>2. \A j \in Calls : pc'[j] = "removing" <=> pc[j] = "removing"
      BY <1>8 DEF UnloadEffect
  <2>3. UNCHANGED <<file, call, background, writing, unsaved>>
      BY <1>8 DEF UnloadEffect
  <2> QED
      BY <2>1, <2>2, <2>3
<1>9. ASSUME NEW i \in Calls, StopEffect(i) PROVE ActivitySaved'
  <2>1. \A b \in Account : /\ meta'[b].activity = meta[b].activity
                             /\ meta'[b].persistedAt = meta[b].persistedAt
      BY <1>9 DEF StopEffect
  <2>2. \A j \in Calls : pc'[j] = "removing" <=> pc[j] = "removing"
      BY <1>9 DEF StopEffect
  <2>3. UNCHANGED <<file, call, background, writing, unsaved>>
      BY <1>9 DEF StopEffect
  <2> QED
      BY <2>1, <2>2, <2>3
<1>10. ASSUME NEW i \in Calls, RestoreEffect(i) PROVE ActivitySaved'
    BY <1>10 DEF RestoreEffect
<1>11. ASSUME NEW i \in Calls, ForgetEffect(i) PROVE ActivitySaved'
    BY <1>11 DEF ForgetEffect, Unused, NoFile
<1>12. ASSUME NEW i \in Calls, RemoveEffect(i) PROVE ActivitySaved'
    BY <1>12 DEF RemoveEffect, NoFile
<1>13. ASSUME NEW w \in Writers, WriteMetaEffect(w) PROVE ActivitySaved'
    BY <1>13 DEF WriteMetaEffect, EndedEffect, Saved
<1>14. ASSUME NEW w \in Writers, WriteFileEffect(w) PROVE ActivitySaved'
    BY <1>14 DEF WriteFileEffect, EndedEffect
<1> HIDE <1>0 DEF Fields, ActivitySaved, Noted, TimesOrdered, BlankRecords, WritesCurrent,
        LockHeld, Owed, Owing, Of
<1> QED
    BY <1>1, <1>2, <1>3, <1>4, <1>5, <1>6, <1>7, <1>8, <1>9,
       <1>10, <1>11, <1>12, <1>13, <1>14 DEF SaveStep

(* A drained shutdown ends with every activity time noted.                 *)
LEMMA ShutStep == Fields /\ Fields' /\ RInv /\ SaveStep => Shut'
<1> SUFFICES ASSUME Fields, Fields', RInv, SaveStep PROVE Shut'
    OBVIOUS
<1>0. LockHeld /\ Shut /\ TimesOrdered
    BY DEF RInv
<1> USE <1>0 DEF Fields, Shut, Over, LockHeld, Owed, Owing, TimesOrdered
<1>1. CASE ServerEffect
    BY <1>1 DEF ServerEffect
<1>2. CASE PersistEffect
    BY <1>2 DEF PersistEffect
<1>3. CASE StartEffect
    BY <1>3 DEF StartEffect
<1>4. ASSUME NEW a \in Account, PersistOneEffect(a) PROVE Shut'
    BY <1>4 DEF PersistOneEffect, Saved
<1>5. ASSUME NEW i \in Calls, NEW a \in Account, ArriveEffect(i, a) PROVE Shut'
    BY <1>5 DEF ArriveEffect
<1>6. ASSUME NEW i \in Calls, LoadEffect(i) PROVE Shut'
    BY <1>6 DEF LoadEffect
<1>7. ASSUME NEW i \in Calls, TouchEffect(i) PROVE Shut'
    BY <1>7 DEF TouchEffect
<1>8. ASSUME NEW i \in Calls, UnloadEffect(i) PROVE Shut'
    BY <1>8 DEF UnloadEffect
<1>9. ASSUME NEW i \in Calls, StopEffect(i) PROVE Shut'
    BY <1>9 DEF StopEffect
<1>10. ASSUME NEW i \in Calls, RestoreEffect(i) PROVE Shut'
    BY <1>10 DEF RestoreEffect
<1>11. ASSUME NEW i \in Calls, ForgetEffect(i) PROVE Shut'
    BY <1>11 DEF ForgetEffect, Unused, NoFile
<1>12. ASSUME NEW i \in Calls, RemoveEffect(i) PROVE Shut'
    BY <1>12 DEF RemoveEffect, NoFile
<1>13. ASSUME NEW w \in Writers, WriteMetaEffect(w) PROVE Shut'
    BY <1>13 DEF WriteMetaEffect, EndedEffect, Saved
<1>14. ASSUME NEW w \in Writers, WriteFileEffect(w) PROVE Shut'
    BY <1>14 DEF WriteFileEffect, EndedEffect
<1> HIDE <1>0 DEF Fields, Shut, Over, LockHeld, Owed, Owing, TimesOrdered
<1> QED
    BY <1>1, <1>2, <1>3, <1>4, <1>5, <1>6, <1>7, <1>8, <1>9,
       <1>10, <1>11, <1>12, <1>13, <1>14 DEF SaveStep

(* The invariant holds when the server first starts.                       *)
LEMMA InitRInv == Init => RInv
<1> SUFFICES ASSUME Init PROVE RInv
    OBVIOUS
<1>1. \A a \in Account :
          /\ file[a].archived = FALSE /\ file[a].activity = 0
          /\ file[a].there \in BOOLEAN /\ meta[a].known = file[a].there /\ meta[a].archived = FALSE
          /\ meta[a].activity = 0 /\ meta[a].persistedAt = 0
    BY DEF Init, Saved, Unused, NoFile, Read
<1>2. /\ DOMAIN writing = {} /\ background = {} /\ unsaved = {} /\ drained = FALSE /\ server = "up"
      /\ clock = 0 /\ \A i \in Calls : pc[i] = "none"
    BY DEF Init, NoWriter
<1>3. LockHeld /\ WritesCurrent
    BY <1>2 DEF LockHeld, WritesCurrent
<1>4. BlankRecords /\ SettledAgree
    BY <1>1 DEF BlankRecords, SettledAgree, Agree
<1>5. TimesOrdered /\ ActivitySaved /\ Shut
    BY <1>1, <1>2 DEF TimesOrdered, ActivitySaved, Shut
<1> QED
    BY <1>3, <1>4, <1>5 DEF RInv

(* The invariant implies the property.                                     *)
LEMMA SavedFollows == RInv => RecordsSaved
<1> SUFFICES ASSUME RInv, NEW a \in Account
             PROVE  /\ Quiet(a) => Agree(a)
                    /\ server = "stopped" /\ drained => file[a].activity = meta[a].activity
    BY DEF RecordsSaved, Agree
<1>1. Quiet(a) => Agree(a)
    BY DEF RInv, SettledAgree, Settled, Owing, Quiet, Over
<1>2. server = "stopped" /\ drained => file[a].activity = meta[a].activity
    BY DEF RInv, Shut, Over, ActivitySaved
<1> QED
    BY <1>1, <1>2

(* Once nothing is under way for an account, account.json says what its    *)
(* record says, and a shutdown that drained the calls saved its activity   *)
(* time: for any accounts and calls, with the writes delayed and the server *)
(* crashing and restarting at any point (writeMeta, persistActivity).      *)
THEOREM RecordsStaySaved == Spec => []RecordsSaved
<1>1. IInv /\ RInv /\ [Next]_vars => (IInv /\ RInv)'
  <2> SUFFICES ASSUME IInv, RInv, [Next]_vars PROVE (IInv /\ RInv)'
      OBVIOUS
  <2>1. IInv' /\ Fields /\ Fields' /\ SaveStep
      BY Inductive, FieldTypes, FieldTypesNext, StepHas
  <2> QED
      BY <2>1, LockStep, BlankStep, CurrentStep, AgreeStep, TimesStep, ActivityStep, ShutStep
         DEF RInv
<1> QED
    BY <1>1, InitIInv, InitRInv, SavedFollows, PTL DEF Spec
=============================================================================
