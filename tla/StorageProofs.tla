---------------------------- MODULE StorageProofs ----------------------------
(***************************************************************************)
(* What is proved of the stores of user pools, tables, buckets and log     *)
(* groups: the index of refresh tokens (Cognito), the stream of a table    *)
(* (DynamoDB), the index of a bucket (S3) and the ring of a group (Logs).  *)
(***************************************************************************)
EXTENDS Cognito, DynamoDB, S3, Logs, FiniteSetTheorems, SequenceTheorems, WellFoundedInduction, TLAPS

(***************************************************************************)
(* THE USER POOL                                                           *)
(***************************************************************************)
Session == [jti : Nat, user : Nat, revoked : BOOLEAN, expired : BOOLEAN]
Token == [jti : Nat, key : UserNames]

(* Two names never share an object, and no object is numbered beforehand. *)
UsersDistinct ==
  \A m \in UserNames :
    /\ users[m] <= nusers
    /\ \A n \in UserNames : users[m] = users[n] /\ users[m] # 0 => m = n

(* A session has the number it was started with and the user who has one. *)
SessionsOwned ==
  \A s \in sessions :
    /\ s.jti <= nsessions /\ s.jti # 0
    /\ \A t \in sessions : s.jti = t.jti => s = t
    /\ s.user # 0
    /\ \E n \in UserNames : users[n] = s.user

(* A call that gave up the lock remembers a user that existed. *)
CallsKnow ==
  \A c \in SignInCallers :
    /\ signIns[c].op # "idle" => signIns[c].name \in UserNames
    /\ signIns[c].op \in {"password", "srp"} => signIns[c].user # 0

IndexInv ==
  /\ users \in [UserNames -> Nat] /\ nusers \in Nat /\ nsessions \in Nat
  /\ sessions \in SUBSET Session /\ refresh \in SUBSET Token
  /\ UsersDistinct /\ SessionsOwned /\ RefreshIndexExact

CallsInv ==
  /\ \A ch \in challenges : ch.key \in UserNames
  /\ signIns \in [SignInCallers -> [op : {"idle", "signup", "password", "srp"},
                                    name : UserNames \cup {""}, user : Nat]]
  /\ CallsKnow

PoolInv == IndexInv /\ CallsInv

(* The five ways in which a step meets the index. *)
IndexSame == UNCHANGED <<users, nusers, sessions, nsessions, refresh>>

(* Sessions change, but neither their numbers nor their users. *)
Relabelled ==
  /\ UNCHANGED <<users, nusers, nsessions, refresh>>
  /\ sessions' \in SUBSET Session
  /\ \A s \in sessions : \E t \in sessions' : t.jti = s.jti /\ t.user = s.user
  /\ \A t \in sessions' : \E s \in sessions : t.jti = s.jti /\ t.user = s.user
  /\ \A s, t \in sessions' : s.jti = t.jti => s = t

Started == \E n \in UserNames :
  /\ users[n] # 0 /\ StartSession(users[n], n) /\ UNCHANGED <<users, nusers>>

Created == \E n \in UserNames :
  /\ users[n] = 0 /\ users' = [users EXCEPT ![n] = nusers + 1] /\ nusers' = nusers + 1
  /\ UNCHANGED <<sessions, nsessions, refresh>>

Rebuilt == refresh' = RebuildRefreshIndex /\ UNCHANGED <<users, nusers, sessions, nsessions>>

LEMMA SameKeeps == IndexInv /\ IndexSame => IndexInv'
BY DEF IndexInv, IndexSame, UsersDistinct, SessionsOwned, RefreshIndexExact, Exists, SessionsOf

LEMMA RelabelledKeeps ==
  ASSUME IndexInv, Relabelled
  PROVE  IndexInv'
<1>1. SessionsOwned'
  BY DEF IndexInv, Relabelled, SessionsOwned, Session
<1>2. RefreshIndexExact'
  <2>1. ASSUME NEW r \in refresh
        PROVE  \E s \in sessions' : s.jti = r.jti /\ users[r.key] # 0 /\ s.user = users[r.key]
    <3>1. PICK s \in sessions : s.jti = r.jti /\ users[r.key] # 0 /\ s.user = users[r.key]
      BY DEF IndexInv, RefreshIndexExact, Exists
    <3> QED BY <3>1 DEF Relabelled
  <2>2. ASSUME NEW n \in UserNames, NEW t \in sessions', t.user = users[n]
        PROVE  [jti |-> t.jti, key |-> n] \in refresh
    <3>1. PICK s \in sessions : t.jti = s.jti /\ t.user = s.user
      BY DEF Relabelled
    <3> QED BY <2>2, <3>1 DEF IndexInv, RefreshIndexExact, SessionsOf
  <2> QED BY <2>1, <2>2 DEF Relabelled, RefreshIndexExact, Exists, SessionsOf
<1> QED BY <1>1, <1>2 DEF IndexInv, Relabelled, UsersDistinct

LEMMA CreatedKeeps ==
  ASSUME IndexInv, Created
  PROVE  IndexInv'
<1>1. PICK n \in UserNames :
         /\ users[n] = 0 /\ users' = [users EXCEPT ![n] = nusers + 1] /\ nusers' = nusers + 1
         /\ UNCHANGED <<sessions, nsessions, refresh>>
  BY DEF Created
<1>2. users' \in [UserNames -> Nat] /\ nusers' \in Nat
  BY <1>1 DEF IndexInv
<1>3. UsersDistinct'
  BY <1>1 DEF IndexInv, UsersDistinct
<1>4. \A s \in sessions : s.user <= nusers /\ s.user \in Nat
  BY DEF IndexInv, SessionsOwned, UsersDistinct, Session
<1>5. SessionsOwned'
  BY <1>1, <1>4 DEF IndexInv, SessionsOwned
<1>6. RefreshIndexExact'
  <2>1. ASSUME NEW r \in refresh
        PROVE  \E s \in sessions : s.jti = r.jti /\ users'[r.key] # 0 /\ s.user = users'[r.key]
    BY <1>1 DEF IndexInv, RefreshIndexExact, Exists, Token
  <2>2. ASSUME NEW m \in UserNames, NEW s \in sessions, s.user = users'[m]
        PROVE  [jti |-> s.jti, key |-> m] \in refresh
    <3>1. m # n
      BY <1>1, <1>4, <2>2 DEF IndexInv
    <3>2. s.user = users[m]
      BY <1>1, <2>2, <3>1 DEF IndexInv
    <3> QED BY <3>2 DEF IndexInv, RefreshIndexExact, SessionsOf
  <2> QED BY <1>1, <2>1, <2>2 DEF RefreshIndexExact, Exists, SessionsOf
<1> QED BY <1>1, <1>2, <1>3, <1>5, <1>6 DEF IndexInv

LEMMA StartedKeeps ==
  ASSUME IndexInv, Started
  PROVE  IndexInv'
<1>1. PICK n \in UserNames :
         /\ users[n] # 0 /\ StartSession(users[n], n) /\ UNCHANGED <<users, nusers>>
  BY DEF Started
<1> DEFINE i == users[n]
           old == {s \in sessions : s.user = i /\ s.expired}
           jti == nsessions + 1
           new == [jti |-> jti, user |-> i, revoked |-> FALSE, expired |-> FALSE]
<1>2. /\ nsessions' = jti
      /\ sessions' = (sessions \ old) \cup {new}
      /\ refresh' = {r \in refresh : \A s \in old : r.jti # s.jti} \cup {[jti |-> jti, key |-> n]}
  BY <1>1 DEF StartSession, SessionsOf
<1>3. i \in Nat /\ jti \in Nat /\ jti > nsessions
  BY DEF IndexInv
<1>4. new \in Session /\ new.jti = jti /\ new.user = i
  BY <1>3 DEF Session
<1>5. [jti |-> jti, key |-> n] \in Token
  BY <1>3 DEF Token
<1>6. \A s \in sessions : s.jti <= nsessions /\ s.jti \in Nat /\ s.jti # jti
  BY <1>3 DEF IndexInv, SessionsOwned, Session
<1> HIDE DEF new, jti, i
<1>7. /\ users' \in [UserNames -> Nat] /\ nusers' \in Nat /\ nsessions' \in Nat
      /\ sessions' \in SUBSET Session /\ refresh' \in SUBSET Token /\ UsersDistinct'
  BY <1>1, <1>2, <1>3, <1>4, <1>5 DEF IndexInv, UsersDistinct
<1>8. SessionsOwned'
  <2> SUFFICES ASSUME NEW s \in sessions'
               PROVE  /\ s.jti <= nsessions' /\ s.jti # 0
                      /\ \A t \in sessions' : s.jti = t.jti => s = t
                      /\ s.user # 0
                      /\ \E m \in UserNames : users'[m] = s.user
    BY DEF SessionsOwned
  <2>1. CASE s = new
    BY <1>1, <1>2, <1>3, <1>4, <1>6, <2>1 DEF IndexInv, i
  <2>2. CASE s \in sessions
    <3>1. s.jti <= nsessions' /\ s.jti # 0 /\ s.user # 0 /\ \E m \in UserNames : users'[m] = s.user
      BY <1>1, <1>2, <1>3, <1>6, <2>2 DEF IndexInv, SessionsOwned
    <3>2. ASSUME NEW t \in sessions', s.jti = t.jti PROVE s = t
      BY <1>2, <1>4, <1>6, <2>2, <3>2 DEF IndexInv, SessionsOwned
    <3> QED BY <3>1, <3>2
  <2> QED BY <1>2, <2>1, <2>2
<1>9. RefreshIndexExact'
  <2>1. ASSUME NEW r \in refresh'
        PROVE  \E s \in sessions' : s.jti = r.jti /\ users[r.key] # 0 /\ s.user = users[r.key]
    <3>1. CASE r = [jti |-> jti, key |-> n]
      BY <1>1, <1>2, <1>4, <3>1 DEF i
    <3>2. CASE r \in refresh /\ \A s \in old : r.jti # s.jti
      <4>1. PICK s \in sessions : s.jti = r.jti /\ users[r.key] # 0 /\ s.user = users[r.key]
        BY <3>2 DEF IndexInv, RefreshIndexExact, Exists
      <4>2. s \notin old
        BY <3>2, <4>1
      <4> QED BY <1>2, <4>1, <4>2
    <3> QED BY <1>2, <3>1, <3>2
  <2>2. ASSUME NEW m \in UserNames, NEW s \in sessions', s.user = users[m]
        PROVE  [jti |-> s.jti, key |-> m] \in refresh'
    <3>1. CASE s = new
      <4>1. m = n
        BY <1>1, <1>4, <2>2, <3>1 DEF IndexInv, UsersDistinct, i
      <4> QED BY <1>2, <1>4, <3>1, <4>1
    <3>2. CASE s \in sessions /\ s \notin old
      <4>1. [jti |-> s.jti, key |-> m] \in refresh
        BY <2>2, <3>2 DEF IndexInv, RefreshIndexExact, SessionsOf
      <4>2. \A t \in old : s.jti # t.jti
        BY <3>2 DEF IndexInv, SessionsOwned
      <4> QED BY <1>2, <4>1, <4>2
    <3> QED BY <1>2, <3>1, <3>2
  <2> QED BY <1>1, <2>1, <2>2 DEF RefreshIndexExact, Exists, SessionsOf
<1> QED BY <1>7, <1>8, <1>9 DEF IndexInv

LEMMA DeletedKeeps ==
  ASSUME IndexInv, NEW n \in UserNames, DeleteUser(n)
  PROVE  IndexInv'
<1> DEFINE i == users[n]
<1>1. /\ i # 0 /\ i \in Nat
      /\ refresh' = {r \in refresh : \A s \in sessions : s.user = i => r.jti # s.jti}
      /\ users' = [users EXCEPT ![n] = 0]
      /\ sessions' = {s \in sessions : s.user # i}
      /\ UNCHANGED <<nusers, nsessions>>
  BY DEF DeleteUser, Exists, DroppedTokens, SessionsOf, IndexInv
<1>2. \A m \in UserNames : users'[m] = IF m = n THEN 0 ELSE users[m]
  BY <1>1 DEF IndexInv
<1>3. \A m \in UserNames : m # n => users[m] # i
  BY <1>1 DEF IndexInv, UsersDistinct
<1> HIDE DEF i
<1>4. /\ users' \in [UserNames -> Nat] /\ nusers' \in Nat /\ nsessions' \in Nat
      /\ sessions' \in SUBSET Session /\ refresh' \in SUBSET Token
  BY <1>1 DEF IndexInv
<1>5. UsersDistinct'
  BY <1>1, <1>2 DEF IndexInv, UsersDistinct
<1>6. SessionsOwned'
  <2> SUFFICES ASSUME NEW s \in sessions'
               PROVE  /\ s.jti <= nsessions /\ s.jti # 0
                      /\ \A t \in sessions' : s.jti = t.jti => s = t
                      /\ s.user # 0
                      /\ \E m \in UserNames : users'[m] = s.user
    BY <1>1 DEF SessionsOwned
  <2>1. PICK m \in UserNames : users[m] = s.user
    BY <1>1 DEF IndexInv, SessionsOwned
  <2>2. users'[m] = s.user
    BY <1>1, <1>2, <2>1 DEF i
  <2> QED BY <1>1, <2>2 DEF IndexInv, SessionsOwned
<1>7. RefreshIndexExact'
  <2>1. ASSUME NEW r \in refresh'
        PROVE  \E s \in sessions' : s.jti = r.jti /\ users'[r.key] # 0 /\ s.user = users'[r.key]
    <3>1. PICK s \in sessions : s.jti = r.jti /\ users[r.key] # 0 /\ s.user = users[r.key]
      BY <1>1 DEF IndexInv, RefreshIndexExact, Exists
    <3>2. s.user # i
      BY <1>1, <3>1
    <3>3. r.key \in UserNames
      BY <1>1 DEF IndexInv, Token
    <3> QED BY <1>1, <1>2, <3>1, <3>2, <3>3 DEF i
  <2>2. ASSUME NEW m \in UserNames, NEW s \in sessions', s.user = users'[m]
        PROVE  [jti |-> s.jti, key |-> m] \in refresh'
    <3>1. s.user # 0 /\ s \in sessions /\ s.user # i
      BY <1>1 DEF IndexInv, SessionsOwned
    <3>2. users[m] = s.user
      BY <1>2, <2>2, <3>1
    <3>3. [jti |-> s.jti, key |-> m] \in refresh
      BY <3>1, <3>2 DEF IndexInv, RefreshIndexExact, SessionsOf
    <3>4. \A t \in sessions : t.user = i => s.jti # t.jti
      BY <3>1 DEF IndexInv, SessionsOwned
    <3> QED BY <1>1, <3>3, <3>4
  <2> QED BY <2>1, <2>2 DEF RefreshIndexExact, Exists, SessionsOf
<1> QED BY <1>4, <1>5, <1>6, <1>7 DEF IndexInv

LEMMA RebuiltKeeps ==
  ASSUME IndexInv, Rebuilt
  PROVE  IndexInv'
<1>1. \A r : r \in refresh' <=> /\ r \in [jti : 1..nsessions, key : UserNames]
                                /\ \E s \in sessions : s.user = users[r.key] /\ s.jti = r.jti
  BY DEF Rebuilt, RebuildRefreshIndex, SessionsOf
<1>2. UNCHANGED <<users, nusers, sessions, nsessions>>
  BY DEF Rebuilt
<1>3. refresh' \in SUBSET Token
  BY <1>1 DEF Token, IndexInv
<1>4. RefreshIndexExact'
  <2>1. ASSUME NEW r \in refresh'
        PROVE  \E s \in sessions : s.jti = r.jti /\ users[r.key] # 0 /\ s.user = users[r.key]
    BY <1>1 DEF IndexInv, SessionsOwned
  <2>2. ASSUME NEW n \in UserNames, NEW s \in sessions, s.user = users[n]
        PROVE  [jti |-> s.jti, key |-> n] \in refresh'
    <3>1. s.jti \in 1..nsessions
      BY DEF IndexInv, SessionsOwned, Session
    <3> QED BY <1>1, <2>2, <3>1
  <2> QED BY <1>2, <2>1, <2>2 DEF RefreshIndexExact, Exists, SessionsOf
<1> QED BY <1>2, <1>3, <1>4 DEF IndexInv, UsersDistinct, SessionsOwned

LEMMA RevokedRelabels ==
  ASSUME IndexInv, NEW i, sessions' = Revoked(i), UNCHANGED <<users, nusers, nsessions, refresh>>
  PROVE  Relabelled
<1> DEFINE f(s) == [s EXCEPT !.revoked = @ \/ s.user = i]
<1>1. \A s \in Session : f(s) \in Session /\ f(s).jti = s.jti /\ f(s).user = s.user
  BY DEF Session
<1>2. sessions' = {f(s) : s \in sessions} /\ sessions \in SUBSET Session
  BY DEF Revoked, IndexInv
<1> HIDE DEF f
<1>3. \A s, t \in sessions' : s.jti = t.jti => s = t
  BY <1>1, <1>2 DEF IndexInv, SessionsOwned
<1> QED BY <1>1, <1>2, <1>3 DEF Relabelled

LEMMA TokenRelabels ==
  ASSUME IndexInv, NEW r, RevokeToken(r)
  PROVE  Relabelled
<1> DEFINE f(s) == [s EXCEPT !.revoked = @ \/ (s.user = users[r.key] /\ s.jti = r.jti)]
<1>1. \A s \in Session : f(s) \in Session /\ f(s).jti = s.jti /\ f(s).user = s.user
  BY DEF Session
<1>2. sessions' = {f(s) : s \in sessions} /\ sessions \in SUBSET Session
  BY DEF RevokeToken, IndexInv
<1>4. UNCHANGED <<users, nusers, nsessions, refresh>>
  BY DEF RevokeToken, OnlySessions
<1> HIDE DEF f
<1>3. \A s, t \in sessions' : s.jti = t.jti => s = t
  BY <1>1, <1>2 DEF IndexInv, SessionsOwned
<1> QED BY <1>1, <1>2, <1>3, <1>4 DEF Relabelled

LEMMA ExpireRelabels ==
  ASSUME IndexInv, Expire
  PROVE  IndexSame \/ Relabelled
<1>1. CASE UNCHANGED sessions
  BY <1>1 DEF Expire, IndexSame
<1>2. ASSUME NEW s \in sessions, sessions' = (sessions \ {s}) \cup {[s EXCEPT !.expired = TRUE]}
      PROVE  Relabelled
  <2> DEFINE e == [s EXCEPT !.expired = TRUE]
  <2>1. e \in Session /\ e.jti = s.jti /\ e.user = s.user
    BY DEF IndexInv, Session
  <2>2. sessions' = (sessions \ {s}) \cup {e} /\ sessions \in SUBSET Session
    BY <1>2 DEF IndexInv
  <2>3. UNCHANGED <<users, nusers, nsessions, refresh>>
    BY DEF Expire
  <2> HIDE DEF e
  <2>4. \A t, u \in sessions' : t.jti = u.jti => t = u
    BY <2>1, <2>2 DEF IndexInv, SessionsOwned
  <2> QED BY <2>1, <2>2, <2>3, <2>4 DEF Relabelled
<1> QED BY <1>1, <1>2 DEF Expire

(* completeAuth starts a session of the user with the name, or none. *)
LEMMA CompleteAuthIndex ==
  ASSUME NEW n \in UserNames, users[n] # 0, NEW o, NEW mfaDone, NEW consumed,
         CompleteAuth(users[n], n, o, mfaDone, consumed), UNCHANGED <<users, nusers>>
  PROVE  IndexSame \/ Started
BY DEF CompleteAuth, NoSession, IndexSame, Started

LEMMA IndexStep ==
  ASSUME PoolInv, PoolNext
  PROVE  IndexInv'
<1> USE DEF PoolInv
<1>1. ASSUME NEW n \in UserNames, AdminCreateUser(n) PROVE IndexInv'
  <2>1. IndexSame \/ Created
    BY <1>1 DEF AdminCreateUser, NewUser, Exists, IndexSame, Created
  <2> QED BY <2>1, SameKeeps, CreatedKeeps
<1>2. ASSUME NEW n \in UserNames, OnlyUser PROVE IndexInv'
  BY <1>2, SameKeeps DEF OnlyUser, IndexSame
<1>3. ASSUME NEW n \in UserNames, SetEnabled(n) PROVE IndexInv'
  <2>1. IndexSame \/ Relabelled
    BY <1>3, RevokedRelabels DEF SetEnabled, OnlySessions, IndexSame
  <2> QED BY <2>1, SameKeeps, RelabelledKeeps
<1>4. ASSUME NEW n \in UserNames, AdminResetUserPassword(n) \/ GlobalSignOut(n) PROVE IndexInv'
  <2>1. Relabelled
    BY <1>4, RevokedRelabels DEF AdminResetUserPassword, GlobalSignOut, OnlySessions
  <2> QED BY <2>1, RelabelledKeeps
<1>5. ASSUME NEW n \in UserNames, DeleteUser(n) PROVE IndexInv'
  BY <1>5, DeletedKeeps
<1>6. ASSUME NEW n \in UserNames, MintTokens(n) PROVE IndexInv'
  BY <1>6, StartedKeeps DEF MintTokens, Exists, Started
<1>7. ASSUME NEW n \in UserNames, NEW c \in SignInCallers, NEW op, SignUpBegin(c, n) \/ SignInBegin(c, n, op)
      PROVE  IndexInv'
  BY <1>7, SameKeeps DEF SignUpBegin, SignInBegin, IndexSame
<1>8. ASSUME NEW c \in SignInCallers, SignUpEnd(c) PROVE IndexInv'
  <2>1. signIns[c].name \in UserNames
    BY <1>8 DEF SignUpEnd, CallsInv, CallsKnow
  <2>2. Created
    BY <1>8, <2>1 DEF SignUpEnd, NewUser, Exists, Created
  <2> QED BY <2>2, CreatedKeeps
<1>9. ASSUME NEW c \in SignInCallers, PasswordEnd(c) PROVE IndexInv'
  <2> DEFINE n == signIns[c].name
  <2>1. n \in UserNames /\ users[n] = signIns[c].user /\ users[n] # 0
    BY <1>9 DEF PasswordEnd, SameUser, CallsInv, CallsKnow
  <2>2. CompleteAuth(users[n], n, objs[signIns[c].user], FALSE, {}) /\ UNCHANGED <<users, nusers>>
    BY <1>9, <2>1 DEF PasswordEnd
  <2>3. IndexSame \/ Started
    BY <2>1, <2>2, CompleteAuthIndex
  <2> QED BY <2>3, SameKeeps, StartedKeeps
<1>10. ASSUME NEW c \in SignInCallers, SrpEnd(c) \/ CallFails(c) PROVE IndexInv'
  BY <1>10, SameKeeps DEF SrpEnd, CallFails, IndexSame
<1>11. ASSUME NEW ch \in challenges, Respond(ch) PROVE IndexInv'
  <2> DEFINE n == ch.key
  <2>1. n \in UserNames
    BY DEF CallsInv
  <2>2. \/ UNCHANGED <<users, nusers>> /\ NoSession
        \/ /\ users[n] # 0 /\ UNCHANGED <<users, nusers>>
           /\ \E o, mfaDone : CompleteAuth(users[n], n, o, mfaDone, {ch})
    BY <1>11 DEF Respond, Exists
  <2>3. IndexSame \/ Started
    BY <2>1, <2>2, CompleteAuthIndex DEF NoSession, IndexSame
  <2> QED BY <2>3, SameKeeps, StartedKeeps
<1>12. ASSUME NEW r \in refresh, RevokeToken(r) PROVE IndexInv'
  BY <1>12, TokenRelabels, RelabelledKeeps
<1>13. CASE Expire
  BY <1>13, ExpireRelabels, SameKeeps, RelabelledKeeps
<1>14. CASE RestartPool
  BY <1>14, RebuiltKeeps DEF RestartPool, Rebuilt
<1>15. ASSUME NEW n \in UserNames,
              \/ ConfirmSignUp(n) \/ AdminConfirmSignUp(n) \/ ResendConfirmationCode(n)
              \/ ForgotPassword(n) \/ ConfirmForgotPassword(n) \/ AdminSetUserPassword(n)
              \/ UpdateUserAttributes(n) \/ GetUserAttributeVerificationCode(n)
              \/ VerifyUserAttribute(n) \/ SetUserMFAPreference(n)
              \/ \E p \in Purposes : WrongCode(n, p)
       PROVE  OnlyUser
  BY <1>15 DEF ConfirmSignUp, AdminConfirmSignUp, ResendConfirmationCode, ForgotPassword,
               ConfirmForgotPassword, AdminSetUserPassword, UpdateUserAttributes,
               GetUserAttributeVerificationCode, VerifyUserAttribute, SetUserMFAPreference, WrongCode
<1> QED
  BY <1>1, <1>2, <1>3, <1>4, <1>5, <1>6, <1>7, <1>8, <1>9, <1>10, <1>11, <1>12, <1>13, <1>14, <1>15
  DEF PoolNext

LEMMA IdleCall == Idle \in [op : {"idle", "signup", "password", "srp"},
                            name : UserNames \cup {""}, user : Nat] /\ Idle.op = "idle"
<1>1. 0 \in Nat
  OBVIOUS
<1> QED BY <1>1 DEF Idle

LEMMA EndCallKeeps ==
  ASSUME CallsInv, NEW c, EndCall(c), \A ch \in challenges' : ch.key \in UserNames
  PROVE  CallsInv'
BY IdleCall DEF CallsInv, CallsKnow, EndCall

LEMMA ChallengeKeys ==
  ASSUME CallsInv, NEW n \in UserNames, NEW kind, NEW consumed, Challenge(n, kind, consumed)
  PROVE  \A ch \in challenges' : ch.key \in UserNames
<1> DEFINE kept == {ch \in challenges \ consumed : ~ch.expired}
<1>1. PICK k : challenges' = kept \cup {[id |-> k, kind |-> kind, key |-> n, expired |-> FALSE]}
  BY DEF Challenge
<1>2. \A ch \in kept : ch.key \in UserNames
  BY DEF CallsInv
<1> HIDE DEF kept
<1> QED BY <1>1, <1>2

LEMMA CompleteAuthKeys ==
  ASSUME CallsInv, NEW i, NEW n \in UserNames, NEW o, NEW mfaDone, NEW consumed,
         CompleteAuth(i, n, o, mfaDone, consumed)
  PROVE  \A ch \in challenges' : ch.key \in UserNames
<1>1. CASE challenges' = challenges \ consumed
  BY <1>1 DEF CallsInv
<1>2. ASSUME NEW kind, Challenge(n, kind, consumed)
      PROVE  \A ch \in challenges' : ch.key \in UserNames
  BY <1>2, ChallengeKeys
<1>3. \/ challenges' = challenges \ consumed
      \/ Challenge(n, "NEW_PASSWORD_REQUIRED", consumed) \/ Challenge(n, "MFA", consumed)
  BY DEF CompleteAuth
<1> QED BY <1>1, <1>2, <1>3

LEMMA CallsStep ==
  ASSUME PoolInv, PoolNext
  PROVE  CallsInv'
<1>0. CallsInv /\ IndexInv
  BY DEF PoolInv
<1>1. CASE UNCHANGED <<challenges, signIns>>
  BY <1>0, <1>1 DEF CallsInv, CallsKnow
<1>2. ASSUME NEW n \in UserNames, NEW c \in SignInCallers, SignUpBegin(c, n) PROVE CallsInv'
  <2> DEFINE call == [op |-> "signup", name |-> n, user |-> 0]
  <2>1. call \in [op : {"idle", "signup", "password", "srp"}, name : UserNames \cup {""}, user : Nat]
        /\ call.op = "signup" /\ call.name = n
    OBVIOUS
  <2>2. signIns' = [signIns EXCEPT ![c] = call] /\ UNCHANGED challenges
    BY <1>2 DEF SignUpBegin
  <2> HIDE DEF call
  <2> QED BY <1>0, <2>1, <2>2 DEF CallsInv, CallsKnow
<1>3. ASSUME NEW n \in UserNames, NEW c \in SignInCallers, NEW op \in {"password", "srp"},
             SignInBegin(c, n, op)
      PROVE  CallsInv'
  <2> DEFINE call == [op |-> op, name |-> n, user |-> users[n]]
  <2>1. call \in [op : {"idle", "signup", "password", "srp"}, name : UserNames \cup {""}, user : Nat]
        /\ call.name = n /\ call.user # 0
    BY <1>0, <1>3 DEF IndexInv, SignInBegin, Exists
  <2>2. signIns' = [signIns EXCEPT ![c] = call] /\ UNCHANGED challenges
    BY <1>3 DEF SignInBegin
  <2> HIDE DEF call
  <2> QED BY <1>0, <2>1, <2>2 DEF CallsInv, CallsKnow
<1>4. ASSUME NEW c \in SignInCallers, SignUpEnd(c) \/ CallFails(c) PROVE CallsInv'
  <2>1. EndCall(c) /\ UNCHANGED challenges
    BY <1>4 DEF SignUpEnd, CallFails
  <2>2. \A ch \in challenges' : ch.key \in UserNames
    BY <1>0, <2>1 DEF CallsInv
  <2> QED BY <1>0, <2>1, <2>2, EndCallKeeps
<1>5. ASSUME NEW c \in SignInCallers, PasswordEnd(c) PROVE CallsInv'
  <2> DEFINE n == signIns[c].name
             i == signIns[c].user
             o == objs[signIns[c].user]
  <2>1. n \in UserNames /\ CompleteAuth(i, n, o, FALSE, {}) /\ EndCall(c)
    BY <1>0, <1>5 DEF PasswordEnd, CallsInv, CallsKnow
  <2> HIDE DEF n, i, o
  <2>2. \A ch \in challenges' : ch.key \in UserNames
    BY <1>0, <2>1, CompleteAuthKeys
  <2> QED BY <1>0, <2>1, <2>2, EndCallKeeps
<1>6. ASSUME NEW c \in SignInCallers, SrpEnd(c) PROVE CallsInv'
  <2> DEFINE n == signIns[c].name
  <2>1. n \in UserNames /\ Challenge(n, "PASSWORD_VERIFIER", {}) /\ EndCall(c)
    BY <1>0, <1>6 DEF SrpEnd, CallsInv, CallsKnow
  <2> HIDE DEF n
  <2>2. \A ch \in challenges' : ch.key \in UserNames
    BY <1>0, <2>1, ChallengeKeys
  <2> QED BY <1>0, <2>1, <2>2, EndCallKeeps
<1>7. ASSUME NEW ch \in challenges, Respond(ch) PROVE CallsInv'
  <2> DEFINE n == ch.key
             S == {ch}
  <2>1. n \in UserNames
    BY <1>0 DEF CallsInv
  <2>2. UNCHANGED signIns
    BY <1>7 DEF Respond
  <2>3. \/ challenges' = challenges \ S
        \/ \E o, mfaDone : CompleteAuth(users[n], n, o, mfaDone, S)
    BY <1>7 DEF Respond
  <2> HIDE DEF n, S
  <2>4. \A d \in challenges' : d.key \in UserNames
    BY <1>0, <2>1, <2>3, CompleteAuthKeys DEF CallsInv
  <2> QED BY <1>0, <2>2, <2>4 DEF CallsInv, CallsKnow
<1>8. CASE Expire
  <2>1. UNCHANGED signIns
    BY <1>8 DEF Expire
  <2>2. CASE UNCHANGED challenges
    BY <1>0, <2>1, <2>2 DEF CallsInv, CallsKnow
  <2>3. ASSUME NEW ch \in challenges,
               challenges' = (challenges \ {ch}) \cup {[ch EXCEPT !.expired = TRUE]}
        PROVE  CallsInv'
    <3>1. [ch EXCEPT !.expired = TRUE].key = ch.key
      OBVIOUS
    <3>2. \A d \in challenges' : d.key \in UserNames
      BY <1>0, <2>3, <3>1 DEF CallsInv
    <3> QED BY <1>0, <2>1, <3>2 DEF CallsInv, CallsKnow
  <2> QED BY <1>8, <2>2, <2>3 DEF Expire
<1>9. CASE RestartPool
  BY <1>9, IdleCall DEF RestartPool, CallsInv, CallsKnow
<1>10. ASSUME NEW n \in UserNames,
              \/ AdminCreateUser(n) \/ ConfirmSignUp(n) \/ AdminConfirmSignUp(n)
              \/ ResendConfirmationCode(n) \/ ForgotPassword(n) \/ ConfirmForgotPassword(n)
              \/ AdminSetUserPassword(n) \/ UpdateUserAttributes(n)
              \/ GetUserAttributeVerificationCode(n) \/ VerifyUserAttribute(n)
              \/ SetUserMFAPreference(n) \/ SetEnabled(n) \/ AdminResetUserPassword(n)
              \/ GlobalSignOut(n) \/ DeleteUser(n) \/ MintTokens(n)
              \/ \E p \in Purposes : WrongCode(n, p)
       PROVE  UNCHANGED <<challenges, signIns>>
  BY <1>10 DEF AdminCreateUser, ConfirmSignUp, AdminConfirmSignUp, ResendConfirmationCode,
               ForgotPassword, ConfirmForgotPassword, AdminSetUserPassword, UpdateUserAttributes,
               GetUserAttributeVerificationCode, VerifyUserAttribute, SetUserMFAPreference, WrongCode,
               SetEnabled, AdminResetUserPassword, GlobalSignOut, DeleteUser, MintTokens,
               OnlyUser, OnlySessions
<1>11. ASSUME NEW r \in refresh, RevokeToken(r) PROVE UNCHANGED <<challenges, signIns>>
  BY <1>11 DEF RevokeToken, OnlySessions
<1> QED
  BY <1>1, <1>2, <1>3, <1>4, <1>5, <1>6, <1>7, <1>8, <1>9, <1>10, <1>11 DEF PoolNext

LEMMA PoolInvariant == PoolSpec => []PoolInv
<1>1. PoolInit => PoolInv
  <2> SUFFICES ASSUME PoolInit PROVE PoolInv
    OBVIOUS
  <2>1. 0 \in Nat
    OBVIOUS
  <2>2. IndexInv
    BY <2>1 DEF PoolInit, IndexInv, UsersDistinct, SessionsOwned, RefreshIndexExact, SessionsOf
  <2>3. CallsInv
    BY IdleCall DEF PoolInit, CallsInv, CallsKnow
  <2> QED BY <2>2, <2>3 DEF PoolInv
<1>2. PoolInv /\ [PoolNext]_poolVars => PoolInv'
  <2> SUFFICES ASSUME PoolInv, [PoolNext]_poolVars PROVE PoolInv'
    OBVIOUS
  <2>1. CASE UNCHANGED poolVars
    <3>1. IndexSame
      BY <2>1 DEF poolVars, IndexSame
    <3>2. CallsInv'
      BY <2>1 DEF poolVars, PoolInv, CallsInv, CallsKnow
    <3> QED BY <3>1, <3>2, SameKeeps DEF PoolInv
  <2>2. CASE PoolNext
    BY <2>2, IndexStep, CallsStep DEF PoolInv
  <2> QED BY <2>1, <2>2
<1> QED BY <1>1, <1>2, PTL DEF PoolSpec

(* The index of refresh tokens and the sessions of the users are the same map *)
(* (cognito/tokens.go: startSession; users.go: deleteUser; service.go:        *)
(* rebuildRefreshIndex).                                                      *)
THEOREM TokensMatchSessions == PoolSpec => []RefreshIndexExact
<1>1. PoolInv => RefreshIndexExact
  BY DEF PoolInv, IndexInv
<1> QED BY <1>1, PoolInvariant, PTL

(* A session belongs to one user, who still has a name, and two names never   *)
(* share a user, however sign-ups, deletions and sign-ins under way meet      *)
(* (cognito/users.go: deleteUser; auth.go: passwordAuth).                     *)
THEOREM SessionsHaveOwners == PoolSpec => [](UsersDistinct /\ SessionsOwned)
<1>1. PoolInv => UsersDistinct /\ SessionsOwned
  BY DEF PoolInv, IndexInv
<1> QED BY <1>1, PoolInvariant, PTL

(***************************************************************************)
(* THE TABLE AND ITS STREAM                                                *)
(***************************************************************************)
Item == Vals \cup {None}
StreamRecord == [seq : Nat, key : Keys, old : Item, new : Item]
Stream == [arn : Nat, view : Views \cup {None}, next : Nat, records : Seq(StreamRecord)]
TableState == [exists : BOOLEAN, items : [Keys -> Item], ttl : BOOLEAN, protected : BOOLEAN,
               stream : Stream]
Plan == [kind : WriteKinds, key : Keys, old : Item, new : Item]

(* StreamMirrorsItems of a list of records and the items. *)
Mirrors(records, items) ==
  \A i \in DOMAIN records :
    /\ \A j \in Later(records, i) :
         (\A k \in Later(records, i) : j <= k) => records[i].new = records[j].old
    /\ Later(records, i) = {} => records[i].new = items[records[i].key]

LEMMA LeastNat ==
  ASSUME NEW S, S \subseteq Nat, S # {}
  PROVE  \E t \in S : \A u \in S : t <= u
<1> DEFINE R == {ss \in Nat \X Nat : ss[1] < ss[2]}
<1>1. IsWellFoundedOn(R, Nat)
  BY NatLessThanWellFounded, Zenon DEF OpToRel
<1>2. PICK t \in S : \A u \in S : <<u, t>> \notin R
  <2> HIDE DEF R
  <2> QED BY <1>1, WFMin
<1>3. \A u \in S : t <= u
  <2> TAKE u \in S
  <2>1. <<u, t>> \notin R
    BY <1>2
  <2> QED BY <2>1
<1> QED BY <1>3

(* The end of a stream mirrors the items as the whole does. *)
LEMMA SuffixMirrors ==
  ASSUME NEW records \in Seq(StreamRecord), NEW n \in 1 .. Len(records) + 1
  PROVE  LET s == SubSeq(records, n, Len(records))
         IN  /\ s \in Seq(StreamRecord)
             /\ \A i \in DOMAIN s : \E j \in DOMAIN records : s[i] = records[j]
             /\ \A items : Mirrors(records, items) => Mirrors(s, items)
<1> DEFINE s == SubSeq(records, n, Len(records))
           d == n - 1
<1>1. /\ s \in Seq(StreamRecord) /\ Len(s) = Len(records) - d
      /\ \A i \in 1 .. Len(s) : s[i] = records[i + d]
  BY SubSeqProperties, LenProperties, ElementOfSeq
<1>2. d \in Nat /\ Len(records) \in Nat /\ Len(s) \in Nat
  BY <1>1, LenProperties
<1>3. DOMAIN s = 1 .. Len(s) /\ DOMAIN records = 1 .. Len(records)
  BY <1>1, LenProperties
<1> HIDE DEF s, d
<1>4. ASSUME NEW i \in DOMAIN s
      PROVE  /\ i + d \in DOMAIN records /\ s[i] = records[i + d]
             /\ \A j \in Later(s, i) : j + d \in Later(records, i + d)
             /\ \A k \in Later(records, i + d) : k - d \in Later(s, i)
  <2>1. i + d \in DOMAIN records /\ s[i] = records[i + d]
    BY <1>1, <1>2, <1>3
  <2>2. ASSUME NEW j \in Later(s, i) PROVE j + d \in Later(records, i + d)
    <3>1. j \in DOMAIN s /\ j > i /\ s[j].key = s[i].key
      BY DEF Later
    <3>2. j + d \in DOMAIN records /\ j + d > i + d
      BY <1>1, <1>2, <1>3, <3>1
    <3>3. s[j] = records[j + d]
      BY <1>1, <1>3, <3>1
    <3> QED BY <2>1, <3>1, <3>2, <3>3 DEF Later
  <2>3. ASSUME NEW k \in Later(records, i + d) PROVE k - d \in Later(s, i)
    <3>1. k \in DOMAIN records /\ k > i + d /\ records[k].key = records[i + d].key
      BY DEF Later
    <3>2. k - d \in DOMAIN s /\ k - d > i /\ (k - d) + d = k
      BY <1>1, <1>2, <1>3, <3>1
    <3>3. s[k - d] = records[k]
      BY <1>1, <1>3, <3>2
    <3> QED BY <2>1, <3>1, <3>2, <3>3 DEF Later
  <2> QED BY <2>1, <2>2, <2>3
<1>5. ASSUME NEW items, Mirrors(records, items) PROVE Mirrors(s, items)
  <2> SUFFICES ASSUME NEW i \in DOMAIN s
               PROVE  /\ \A j \in Later(s, i) :
                           (\A k \in Later(s, i) : j <= k) => s[i].new = s[j].old
                      /\ Later(s, i) = {} => s[i].new = items[s[i].key]
    BY DEF Mirrors
  <2>1. Later(s, i) = {} => s[i].new = items[s[i].key]
    BY <1>4, <1>5 DEF Mirrors
  <2>2. ASSUME NEW j \in Later(s, i), \A k \in Later(s, i) : j <= k
        PROVE  s[i].new = s[j].old
    <3>1. j \in DOMAIN s /\ j \in Int /\ j + d \in Later(records, i + d) /\ s[j] = records[j + d]
      BY <1>3, <1>4 DEF Later
    <3>2. ASSUME NEW k \in Later(records, i + d) PROVE j + d <= k
      <4>1. j <= k - d /\ k \in Int
        BY <1>3, <1>4, <2>2 DEF Later
      <4> QED BY <1>2, <3>1, <4>1
    <3> QED BY <1>4, <1>5, <3>1, <3>2 DEF Mirrors
  <2> QED BY <2>1, <2>2
<1> QED BY <1>1, <1>3, <1>4, <1>5 DEF s

(* A record of the change from the item to its successor keeps the mirror. *)
LEMMA AppendMirrors ==
  ASSUME NEW records \in Seq(StreamRecord), NEW items \in [Keys -> Item], Mirrors(records, items),
         NEW rec \in StreamRecord, rec.old = items[rec.key]
  PROVE  /\ Append(records, rec) \in Seq(StreamRecord)
         /\ Mirrors(Append(records, rec), [items EXCEPT ![rec.key] = rec.new])
<1> DEFINE a == Append(records, rec)
           after == [items EXCEPT ![rec.key] = rec.new]
           L == Len(records)
<1>1. /\ a \in Seq(StreamRecord) /\ Len(a) = L + 1 /\ a[L + 1] = rec
      /\ \A i \in 1 .. L : a[i] = records[i]
  BY AppendProperties
<1>2. L \in Nat /\ DOMAIN a = 1 .. L + 1 /\ DOMAIN records = 1 .. L
  BY <1>1, LenProperties
<1>3. \A i \in 1 .. L : records[i] \in StreamRecord
  BY ElementOfSeq
<1>4. /\ rec.key \in Keys /\ after[rec.key] = rec.new
      /\ \A k \in Keys : k # rec.key => after[k] = items[k]
  BY DEF StreamRecord
<1> HIDE DEF a, after, L
<1>5. ASSUME NEW i \in 1 .. L + 1
      PROVE  /\ \A j \in Later(a, i) :
                  (\A k \in Later(a, i) : j <= k) => a[i].new = a[j].old
             /\ Later(a, i) = {} => a[i].new = after[a[i].key]
  <2>1. CASE i = L + 1
    <3>1. Later(a, i) = {}
      BY <1>2, <2>1 DEF Later
    <3> QED BY <1>1, <1>4, <2>1, <3>1
  <2>2. CASE i \in 1 .. L /\ records[i].key # rec.key
    <3>1. Later(a, i) = Later(records, i)
      BY <1>1, <1>2, <2>2 DEF Later
    <3>2. \A j \in Later(records, i) : a[j] = records[j]
      BY <1>1, <1>2 DEF Later
    <3>3. a[i] = records[i] /\ records[i].key \in Keys
      BY <1>1, <1>3, <2>2 DEF StreamRecord
    <3> QED BY <1>2, <1>4, <2>2, <3>1, <3>2, <3>3 DEF Mirrors
  <2>3. CASE i \in 1 .. L /\ records[i].key = rec.key
    <3>1. Later(a, i) = Later(records, i) \cup {L + 1} /\ a[i] = records[i]
      BY <1>1, <1>2, <2>3 DEF Later
    <3>2. \A j \in Later(records, i) : a[j] = records[j] /\ j <= L /\ j \in Int
      BY <1>1, <1>2 DEF Later
    <3>3. ASSUME NEW j \in Later(a, i), \A k \in Later(a, i) : j <= k
          PROVE  a[i].new = a[j].old
      <4>1. CASE j \in Later(records, i)
        BY <1>2, <2>3, <3>1, <3>2, <3>3, <4>1 DEF Mirrors
      <4>2. CASE j = L + 1
        <5>1. Later(records, i) = {}
          <6> SUFFICES ASSUME NEW k \in Later(records, i) PROVE FALSE
            OBVIOUS
          <6>1. L + 1 <= k
            BY <3>1, <3>3, <4>2
          <6>2. k <= L /\ k \in Int
            BY <3>2
          <6> QED BY <1>2, <6>1, <6>2
        <5>2. records[i].new = items[rec.key]
          BY <1>2, <2>3, <5>1 DEF Mirrors
        <5> QED BY <1>1, <3>1, <4>2, <5>2
      <4> QED BY <3>1, <4>1, <4>2
    <3> QED BY <3>1, <3>3
  <2> QED BY <1>2, <2>1, <2>2, <2>3
<1>6. Mirrors(a, after)
  BY <1>2, <1>5 DEF Mirrors
<1> QED BY <1>1, <1>6 DEF a, after

(* What is always true of a table, the one in the store and the one on disk. *)
StateInv(t) ==
  /\ t.stream.arn = 0 => t.stream.view = None
  /\ ~t.exists => t.stream.arn = 0
  /\ t.stream.view = "NEW_AND_OLD_IMAGES" => Mirrors(t.stream.records, t.items)

(* A step from table s to table t on the same stream: what is appended is    *)
(* numbered.                                                                *)
Follows(s, t) ==
  /\ t \in TableState /\ StateInv(t) /\ t.exists = s.exists
  /\ t.stream.arn = s.stream.arn
  /\ t.stream.next >= s.stream.next
  /\ t.stream.next = s.stream.next => t.stream = s.stream

LEMMA AppendRecord ==
  ASSUME NEW stream \in Stream, NEW items \in [Keys -> Item], NEW w \in Plan,
         stream.arn = 0 => stream.view = None,
         stream.view = "NEW_AND_OLD_IMAGES" => Mirrors(stream.records, items),
         w.old = items[w.key]
  PROVE  LET t == appendStreamRecordLocked(stream, w.key, w.old, w.new)
         IN  /\ t \in Stream /\ t.arn = stream.arn /\ t.view = stream.view
             /\ t.next >= stream.next /\ (t.next = stream.next => t = stream)
             /\ t.view = "NEW_AND_OLD_IMAGES" =>
                  Mirrors(t.records, [items EXCEPT ![w.key] = w.new])
<1> DEFINE t == appendStreamRecordLocked(stream, w.key, w.old, w.new)
           images == stream.view = "NEW_AND_OLD_IMAGES"
           rec == [seq |-> stream.next + 1, key |-> w.key,
                   old |-> IF images THEN w.old ELSE None, new |-> IF images THEN w.new ELSE None]
           a == Append(stream.records, rec)
           e == evictOldStreamRecordsLocked(a)
<1>1. /\ stream.arn \in Nat /\ stream.next \in Nat /\ stream.view \in Views \cup {None}
      /\ stream.records \in Seq(StreamRecord)
  BY DEF Stream
<1>2. w.key \in Keys /\ w.old \in Item /\ w.new \in Item /\ None \in Item
  BY DEF Plan, Item
<1>3. rec \in StreamRecord /\ rec.key = w.key
      /\ (images => rec.old = w.old /\ rec.new = w.new)
  <2>1. stream.next + 1 \in Nat
    BY <1>1
  <2> QED BY <1>2, <2>1 DEF StreamRecord
<1>4. CASE stream.arn = 0
  <2>1. t = stream /\ stream.view # "NEW_AND_OLD_IMAGES"
    BY <1>4 DEF appendStreamRecordLocked, None
  <2> QED BY <1>1, <2>1
<1>5. CASE stream.arn # 0
  <2>1. t = [stream EXCEPT !.next = stream.next + 1, !.records = e]
    BY <1>1, <1>5 DEF appendStreamRecordLocked, Stream
  <2> HIDE DEF rec, images, t
  <2>2. a \in Seq(StreamRecord) /\ Len(a) \in Nat /\ Len(a) >= 1
    BY <1>1, <1>3, AppendProperties, LenProperties
  <2>3. images => Mirrors(a, [items EXCEPT ![w.key] = w.new])
    <3>1. images => Mirrors(stream.records, items) /\ rec.old = items[rec.key] /\ rec.new = w.new
      BY <1>3 DEF images
    <3> QED BY <1>1, <1>3, <3>1, AppendMirrors
  <2> HIDE DEF a
  <2>4. /\ e \in Seq(StreamRecord)
        /\ \A x : Mirrors(a, x) => Mirrors(e, x)
    <3>1. CASE Len(a) > MaxRecords
      <4>1. Len(a) - MaxRecords + 1 \in 1 .. Len(a) + 1
        BY <2>2, <3>1, DynamoDBAssumption
      <4>2. e = SubSeq(a, Len(a) - MaxRecords + 1, Len(a))
        BY <3>1 DEF evictOldStreamRecordsLocked
      <4> HIDE DEF e
      <4> QED BY <2>2, <4>1, <4>2, SuffixMirrors
    <3>2. CASE ~(Len(a) > MaxRecords)
      BY <2>2, <3>2 DEF evictOldStreamRecordsLocked
    <3> QED BY <3>1, <3>2
  <2> HIDE DEF e
  <2>5. stream.next + 1 \in Nat
    BY <1>1
  <2>6. /\ t \in Stream /\ t.arn = stream.arn /\ t.view = stream.view
        /\ t.next = stream.next + 1 /\ t.records = e
    BY <1>1, <2>1, <2>4, <2>5 DEF Stream
  <2> QED BY <1>1, <2>3, <2>4, <2>6 DEF images, t
<1> QED BY <1>4, <1>5

LEMMA CommitOne ==
  ASSUME NEW s \in TableState, StateInv(s), NEW w \in Plan, w.old = s.items[w.key]
  PROVE  /\ Follows(s, commitLocked(s, w))
         /\ commitLocked(s, w).items = [s.items EXCEPT ![w.key] = w.new]
<1> DEFINE t == commitLocked(s, w)
           items == [s.items EXCEPT ![w.key] = w.new]
           stream == appendStreamRecordLocked(s.stream, w.key, w.old, w.new)
<1>1. s.items \in [Keys -> Item] /\ s.stream \in Stream /\ s.exists \in BOOLEAN
  BY DEF TableState
<1>2. w.key \in Keys /\ w.new \in Item
  BY DEF Plan
<1>3. items \in [Keys -> Item]
  BY <1>1, <1>2
<1>4. CASE w.old = w.new
  <2>1. items = s.items
    BY <1>1, <1>2, <1>4
  <2>2. t = [s EXCEPT !.items = items]
    BY <1>4 DEF commitLocked
  <2>3. t = s
    BY <2>1, <2>2 DEF TableState
  <2>4. s.stream.next \in Nat
    BY <1>1 DEF Stream
  <2>5. Follows(s, s)
    BY <2>4 DEF Follows
  <2> HIDE DEF t
  <2> QED BY <2>1, <2>3, <2>5 DEF t
<1>5. CASE w.old # w.new
  <2>1. t = [s EXCEPT !.items = items, !.stream = stream]
    BY <1>5 DEF commitLocked, TableState
  <2>2. /\ stream \in Stream /\ stream.arn = s.stream.arn /\ stream.view = s.stream.view
        /\ stream.next >= s.stream.next /\ (stream.next = s.stream.next => stream = s.stream)
        /\ stream.view = "NEW_AND_OLD_IMAGES" => Mirrors(stream.records, items)
    BY <1>1, AppendRecord DEF StateInv
  <2> HIDE DEF stream, items, t
  <2>3. t \in TableState /\ t.items = items /\ t.stream = stream /\ t.exists = s.exists
    BY <1>3, <2>1, <2>2 DEF TableState
  <2>4. StateInv(t)
    BY <2>2, <2>3 DEF StateInv
  <2>5. Follows(s, t)
    BY <2>2, <2>3, <2>4 DEF Follows
  <2> QED BY <2>3, <2>5 DEF t, items
<1> QED BY <1>4, <1>5

(* The plan of one item among the writes of a request. *)
ApplyPlan(s, w) == IF w.kind = "check" THEN s ELSE commitLocked(s, w)

(* The equation that the states after each plan of CommitAll solve. *)
Progress(s, plans, n, g) ==
  g = [m \in 0 .. n |-> IF m = 0 THEN s ELSE ApplyPlan(g[m - 1], plans[m])]

LEMMA ProgressExists ==
  ASSUME NEW s, NEW plans, NEW n \in Nat
  PROVE  \E g : Progress(s, plans, n, g)
<1> DEFINE Bad == {k \in Nat : ~ \E g : Progress(s, plans, k, g)}
<1> SUFFICES ASSUME Bad # {} PROVE FALSE
  OBVIOUS
<1>1. PICK k \in Bad : \A l \in Bad : k <= l
  BY LeastNat
<1>2. CASE k = 0
  <2> DEFINE g == [m \in 0 .. 0 |-> s]
  <2>1. Progress(s, plans, 0, g)
    BY DEF Progress
  <2> QED BY <1>2, <2>1
<1>3. CASE k # 0
  <2>1. k - 1 \in Nat /\ k - 1 \notin Bad
    BY <1>1, <1>3
  <2>2. PICK g : Progress(s, plans, k - 1, g)
    BY <2>1
  <2> DEFINE h == [m \in 0 .. k |-> IF m = k THEN ApplyPlan(g[k - 1], plans[k]) ELSE g[m]]
  <2>3. ASSUME NEW m \in 0 .. k
        PROVE  h[m] = IF m = 0 THEN s ELSE ApplyPlan(h[m - 1], plans[m])
    <3>1. CASE m = k
      <4>1. h[m] = ApplyPlan(g[k - 1], plans[k]) /\ h[m - 1] = g[k - 1]
        BY <1>3, <2>1, <3>1
      <4> QED BY <1>3, <3>1, <4>1
    <3>2. CASE m # k
      <4>1. m \in 0 .. k - 1 /\ h[m] = g[m]
        BY <3>2
      <4>2. g[m] = IF m = 0 THEN s ELSE ApplyPlan(g[m - 1], plans[m])
        BY <2>2, <4>1 DEF Progress
      <4>3. m # 0 => h[m - 1] = g[m - 1]
        BY <4>1
      <4> QED BY <4>1, <4>2, <4>3
    <3> QED BY <3>1, <3>2
  <2>4. Progress(s, plans, k, h)
    <3>1. h = [m \in 0 .. k |-> h[m]]
      OBVIOUS
    <3> HIDE DEF h
    <3> QED BY <2>3, <3>1 DEF Progress
  <2> QED BY <2>4
<1> QED BY <1>2, <1>3

LEMMA CommitAllProgress ==
  ASSUME NEW s, NEW plans, Len(plans) \in Nat
  PROVE  \E g : Progress(s, plans, Len(plans), g) /\ CommitAll(s, plans) = g[Len(plans)]
<1> DEFINE after == CHOOSE g : Progress(s, plans, Len(plans), g)
<1>1. Progress(s, plans, Len(plans), after)
  BY ProgressExists
<1>2. CommitAll(s, plans) = after[Len(plans)]
  BY DEF CommitAll, Progress, ApplyPlan
<1> QED BY <1>1, <1>2

(* Plans made against the state they are applied to, no two of one item. *)
PlansOf(s, plans) ==
  /\ Len(plans) \in Nat
  /\ \A i \in 1 .. Len(plans) : plans[i] \in Plan /\ plans[i].old = s.items[plans[i].key]
  /\ \A i, j \in 1 .. Len(plans) : i # j => plans[i].key # plans[j].key

LEMMA FollowsTransitive ==
  ASSUME NEW s \in TableState, NEW t, NEW u, Follows(s, t), Follows(t, u)
  PROVE  Follows(s, u)
<1>1. s.stream.next \in Nat /\ t.stream.next \in Nat /\ u.stream.next \in Nat
  BY DEF Follows, TableState, Stream
<1> QED BY <1>1 DEF Follows

LEMMA FollowsReflexive ==
  ASSUME NEW s \in TableState, StateInv(s)
  PROVE  Follows(s, s)
<1>1. s.stream.next \in Nat
  BY DEF TableState, Stream
<1> QED BY <1>1 DEF Follows

(* Each plan still finds the item it was made for. *)
LEMMA CommitAllFollows ==
  ASSUME NEW s \in TableState, StateInv(s), NEW plans, PlansOf(s, plans)
  PROVE  Follows(s, CommitAll(s, plans))
<1>1. PICK g : Progress(s, plans, Len(plans), g) /\ CommitAll(s, plans) = g[Len(plans)]
  BY CommitAllProgress DEF PlansOf
<1> DEFINE Good(n) ==
             /\ Follows(s, g[n])
             /\ \A i \in 1 .. Len(plans) : i > n => g[n].items[plans[i].key] = s.items[plans[i].key]
           Bad == {n \in 0 .. Len(plans) : ~Good(n)}
<1>2. Len(plans) \in Nat
  BY DEF PlansOf
<1> SUFFICES ASSUME Bad # {} PROVE FALSE
  BY <1>1, <1>2
<1>3. PICK n \in Bad : \A l \in Bad : n <= l
  <2>1. Bad \subseteq Nat
    BY <1>2
  <2> HIDE DEF Bad
  <2> QED BY <2>1, LeastNat
<1>4. n \in 0 .. Len(plans) /\ ~Good(n)
  BY <1>3
<1>5. CASE n = 0
  <2>1. g[0] = s
    BY <1>1, <1>2 DEF Progress
  <2>2. Good(0)
    BY <2>1, FollowsReflexive
  <2> QED BY <1>4, <1>5, <2>2
<1>6. CASE n # 0
  <2> DEFINE p == g[n - 1]
             w == plans[n]
  <2>1. n - 1 \in 0 .. Len(plans) /\ n \in 1 .. Len(plans)
    BY <1>2, <1>4, <1>6
  <2>2. Good(n - 1)
    <3>1. n - 1 \notin Bad
      BY <1>2, <1>3, <1>4
    <3> QED BY <2>1, <3>1
  <2>3. g[n] = ApplyPlan(p, w)
    BY <1>1, <1>6, <2>1 DEF Progress
  <2>4. w \in Plan /\ w.old = s.items[w.key]
    BY <2>1 DEF PlansOf
  <2>5. Follows(s, p) /\ p.items[w.key] = s.items[w.key]
    BY <1>2, <2>1, <2>2
  <2>6. p \in TableState /\ StateInv(p)
    BY <2>5 DEF Follows
  <2>7. CASE w.kind = "check"
    <3>1. g[n] = p
      BY <2>3, <2>7 DEF ApplyPlan
    <3>2. Good(n)
      BY <1>2, <2>1, <2>2, <3>1
    <3> QED BY <1>4, <3>2
  <2>8. CASE w.kind # "check"
    <3>1. g[n] = commitLocked(p, w)
      BY <2>3, <2>8 DEF ApplyPlan
    <3> HIDE DEF p, w
    <3>2. Follows(p, g[n]) /\ g[n].items = [p.items EXCEPT ![w.key] = w.new]
      BY <2>4, <2>5, <2>6, <3>1, CommitOne
    <3>3. Follows(s, g[n])
      BY <2>5, <3>2, FollowsTransitive
    <3>4. ASSUME NEW i \in 1 .. Len(plans), i > n
          PROVE  g[n].items[plans[i].key] = s.items[plans[i].key]
      <4>1. plans[i].key # w.key /\ plans[i].key \in Keys
        BY <1>2, <2>1, <3>4 DEF PlansOf, Plan, w
      <4>2. p.items \in [Keys -> Item]
        BY <2>6 DEF TableState
      <4>3. g[n].items[plans[i].key] = p.items[plans[i].key]
        BY <3>2, <4>1, <4>2
      <4>4. i > n - 1
        BY <2>1, <3>4
      <4> QED BY <2>2, <4>3, <4>4 DEF p
    <3> QED BY <1>4, <3>3, <3>4
  <2> QED BY <2>7, <2>8
<1> QED BY <1>5, <1>6

ReaderCall == [pc : {"idle", "reading", "asleep", "woken"}, arn : Nat, last : Nat]

TableTypeOK ==
  /\ tableMu \in {"free", "leaked"} /\ outcome \in {"ok", "rejected"}
  /\ table \in TableState /\ image \in TableState
  /\ reader \in [Readers -> ReaderCall]
  /\ nstreams \in Nat /\ nwrites \in Nat /\ nrestarts \in Nat

(* A reader that is not idle reads a stream. *)
ReadersInv ==
  /\ reader \in [Readers -> ReaderCall]
  /\ \A r \in Readers : reader[r].pc # "idle" => reader[r].arn # 0

StatesInv ==
  /\ table \in TableState /\ StateInv(table)
  /\ image \in TableState /\ StateInv(image)

TableInv == TableTypeOK /\ StatesInv /\ ReadersInv /\ NoSleepOverRecords

LEMMA NoneType ==
  /\ NoStream \in Stream /\ NoStream.arn = 0 /\ NoStream.view = None /\ NoStream.records = <<>>
  /\ NoTable \in TableState /\ NoTable.stream = NoStream /\ StateInv(NoTable)
  /\ NoRead \in ReaderCall /\ NoRead.pc = "idle"
<1>1. 0 \in Nat /\ <<>> \in Seq(StreamRecord) /\ None \in Item /\ None \in Views \cup {None}
  BY EmptySeq DEF Item
<1>2. NoStream \in Stream /\ NoStream.arn = 0 /\ NoStream.view = None /\ NoStream.records = <<>>
  BY <1>1 DEF NoStream, Stream
<1>3. NoTable \in TableState /\ NoTable.stream = NoStream
  BY <1>1, <1>2 DEF NoTable, TableState
<1>4. StateInv(NoTable)
  <2>1. NoTable.stream.arn = 0 /\ NoTable.stream.view = None
    BY <1>2, <1>3
  <2> QED BY <2>1 DEF StateInv, None
<1>5. NoRead \in ReaderCall /\ NoRead.pc = "idle"
  BY <1>1 DEF NoRead, ReaderCall
<1> QED BY <1>2, <1>3, <1>4, <1>5

LEMMA PruneKeeps ==
  ASSUME NEW s \in TableState, StateInv(s), NEW stream \in pruneStreamLocked(s.stream)
  PROVE  LET t == [s EXCEPT !.stream = stream]
         IN  /\ t \in TableState /\ StateInv(t) /\ t.items = s.items /\ t.stream = stream
             /\ stream \in Stream /\ stream.arn = s.stream.arn /\ stream.next = s.stream.next
             /\ \A i \in DOMAIN stream.records :
                  \E j \in DOMAIN s.stream.records : stream.records[i] = s.stream.records[j]
<1> DEFINE t == [s EXCEPT !.stream = stream]
           records == s.stream.records
<1>1. s.stream \in Stream /\ records \in Seq(StreamRecord)
  BY DEF TableState, Stream
<1>2. PICK n \in 1 .. Len(records) + 1 :
         stream = [s.stream EXCEPT !.records = SubSeq(records, n, Len(records))]
  BY <1>1 DEF pruneStreamLocked, Stream
<1> DEFINE rest == SubSeq(records, n, Len(records))
<1>3. /\ rest \in Seq(StreamRecord)
      /\ \A i \in DOMAIN rest : \E j \in DOMAIN records : rest[i] = records[j]
      /\ \A items : Mirrors(records, items) => Mirrors(rest, items)
  BY <1>1, SuffixMirrors
<1>4. stream = [s.stream EXCEPT !.records = rest]
  BY <1>2
<1> HIDE DEF rest
<1>5. /\ stream \in Stream /\ stream.arn = s.stream.arn /\ stream.next = s.stream.next
      /\ stream.view = s.stream.view /\ stream.records = rest
  BY <1>1, <1>3, <1>4 DEF Stream
<1>6. t \in TableState /\ t.items = s.items /\ t.stream = stream /\ t.exists = s.exists
  BY <1>5 DEF TableState
<1> HIDE DEF t
<1>7. StateInv(t)
  BY <1>3, <1>5, <1>6 DEF StateInv
<1> QED BY <1>3, <1>5, <1>6, <1>7 DEF t

(* A signal leaves nobody asleep. *)
LEMMA SignalWakes ==
  ASSUME ReadersInv, NoSleepOverRecords, signalStreamLocked(table.stream.arn)
  PROVE  ReadersInv' /\ \A r \in Readers : reader'[r].pc # "asleep"
<1>1. ASSUME NEW r \in Readers
      PROVE  /\ reader'[r] \in ReaderCall /\ reader'[r].arn = reader[r].arn
             /\ reader'[r].pc # "asleep" /\ (reader'[r].pc # "idle" => reader[r].pc # "idle")
  <2>1. reader[r] \in ReaderCall
    BY DEF ReadersInv
  <2>2. CASE reader[r].pc = "asleep"
    <3>1. reader[r].arn = table.stream.arn
      BY <2>2 DEF NoSleepOverRecords
    <3>2. reader'[r] = [reader[r] EXCEPT !.pc = "woken"]
      BY <2>2, <3>1 DEF signalStreamLocked
    <3> QED BY <2>1, <2>2, <3>2 DEF ReaderCall
  <2>3. CASE reader[r].pc # "asleep"
    <3>1. reader'[r] = reader[r]
      BY <2>3 DEF signalStreamLocked
    <3> QED BY <2>1, <2>3, <3>1
  <2> QED BY <2>2, <2>3
<1>2. reader' = [r \in Readers |-> reader'[r]]
  BY DEF signalStreamLocked
<1> QED BY <1>1, <1>2 DEF ReadersInv

LEMMA CommittedKeeps ==
  ASSUME StatesInv, ReadersInv, NoSleepOverRecords, NEW plans, PlansOf(table, plans),
         Committed(plans)
  PROVE  table' \in TableState /\ StateInv(table') /\ ReadersInv' /\ NoSleepOverRecords'
<1>1. PICK stream \in pruneStreamLocked(table.stream) :
         /\ table' = CommitAll([table EXCEPT !.stream = stream], plans)
         /\ IF table'.stream.next > table.stream.next
            THEN signalStreamLocked(table.stream.arn) ELSE UNCHANGED reader
  BY DEF Committed
<1> DEFINE t == [table EXCEPT !.stream = stream]
<1>2. /\ t \in TableState /\ StateInv(t) /\ t.items = table.items /\ t.stream = stream
      /\ stream \in Stream /\ stream.arn = table.stream.arn /\ stream.next = table.stream.next
      /\ \A i \in DOMAIN stream.records :
           \E j \in DOMAIN table.stream.records : stream.records[i] = table.stream.records[j]
  BY PruneKeeps DEF StatesInv
<1>3. table' = CommitAll(t, plans)
  BY <1>1
<1> HIDE DEF t
<1>4. PlansOf(t, plans)
  BY <1>2 DEF PlansOf
<1>5. Follows(t, table')
  BY <1>2, <1>3, <1>4, CommitAllFollows
<1>6. table' \in TableState /\ StateInv(table')
  BY <1>5 DEF Follows
<1>7. CASE table'.stream.next > table.stream.next
  <2>1. ReadersInv' /\ \A r \in Readers : reader'[r].pc # "asleep"
    BY <1>1, <1>7, SignalWakes
  <2> QED BY <1>6, <2>1 DEF NoSleepOverRecords
<1>8. CASE ~(table'.stream.next > table.stream.next)
  <2>1. table'.stream.next \in Nat /\ stream.next \in Nat
    BY <1>2, <1>6 DEF TableState, Stream
  <2>2. table'.stream = stream
    BY <1>2, <1>5, <1>8, <2>1 DEF Follows
  <2>3. UNCHANGED reader
    BY <1>1, <1>8
  <2>4. ReadersInv'
    BY <2>3 DEF ReadersInv
  <2>5. NoSleepOverRecords'
    BY <1>2, <2>2, <2>3 DEF NoSleepOverRecords
  <2> QED BY <1>6, <2>4, <2>5
<1> QED BY <1>7, <1>8

LEMMA LenOfFunction ==
  ASSUME NEW S, NEW n \in Nat, NEW f \in [1 .. n -> S]
  PROVE  f \in Seq(S) /\ Len(f) = n
<1>1. f \in Seq(S)
  BY SeqDef
<1>2. 1 .. Len(f) = 1 .. n /\ Len(f) \in Nat
  BY <1>1, LenProperties
<1>3. \A m \in 1 .. n : m \in 1 .. Len(f)
  BY <1>2
<1>4. \A m \in 1 .. Len(f) : m \in 1 .. n
  BY <1>2
<1>5. n <= Len(f)
  BY <1>2, <1>3
<1>6. Len(f) <= n
  BY <1>2, <1>4
<1> QED BY <1>1, <1>2, <1>5, <1>6

LEMMA PlanType ==
  ASSUME table \in TableState, NEW a \in Action
  PROVE  /\ planLocked(a) \in Plan /\ planLocked(a).key = a.key
         /\ planLocked(a).old = table.items[a.key]
<1>1. a.kind \in WriteKinds /\ a.key \in Keys /\ a.val \in Item /\ None \in Item
  BY DEF Action, Item
<1>2. table.items[a.key] \in Item
  BY <1>1 DEF TableState
<1> QED BY <1>1, <1>2 DEF planLocked, Plan

LEMMA RequestPlans ==
  ASSUME table \in TableState, NEW actions \in Seq(Action), markSeen(actions)
  PROVE  PlansOf(table, [i \in DOMAIN actions |-> planLocked(actions[i])])
<1> DEFINE plans == [i \in DOMAIN actions |-> planLocked(actions[i])]
           n == Len(actions)
<1>1. n \in Nat /\ DOMAIN actions = 1 .. n /\ \A i \in 1 .. n : actions[i] \in Action
  BY LenProperties, ElementOfSeq
<1>2. \A i \in 1 .. n : /\ plans[i] \in Plan /\ plans[i].key = actions[i].key
                        /\ plans[i].old = table.items[plans[i].key]
  BY <1>1, PlanType
<1>3. plans \in [1 .. n -> Plan]
  BY <1>1, <1>2
<1> HIDE DEF plans, n
<1>4. Len(plans) = n
  BY <1>1, <1>3, LenOfFunction
<1> QED BY <1>1, <1>2, <1>4 DEF PlansOf, markSeen, plans

LEMMA WritePlans ==
  ASSUME table \in TableState, NEW a \in Action
  PROVE  PlansOf(table, <<planLocked(a)>>)
<1> DEFINE w == planLocked(a)
<1>1. w \in Plan /\ w.old = table.items[w.key]
  BY PlanType
<1> HIDE DEF w
<1>2. Len(<<w>>) = 1 /\ <<w>>[1] = w
  OBVIOUS
<1>3. PlansOf(table, <<w>>)
  BY <1>1, <1>2 DEF PlansOf
<1> QED BY <1>3 DEF w

ExpiredKeys == {k \in Keys : table.items[k] \in Expired}
ExpiryPlan(k) == [kind |-> "delete", key |-> k, old |-> table.items[k], new |-> None]

LEMMA SweepPlans ==
  ASSUME table \in TableState, NEW order \in SetToSeqs(ExpiredKeys)
  PROVE  PlansOf(table, [i \in 1 .. Cardinality(ExpiredKeys) |-> ExpiryPlan(order[i])])
<1> DEFINE n == Cardinality(ExpiredKeys)
           plans == [i \in 1 .. n |-> ExpiryPlan(order[i])]
<1>1. n \in Nat
  BY FS_Subset, FS_CardinalityType, DynamoDBAssumption DEF ExpiredKeys
<1>2. /\ order \in [1 .. n -> ExpiredKeys]
      /\ \A i, j \in 1 .. n : i # j => order[i] # order[j]
  BY DEF SetToSeqs
<1> HIDE DEF n
<1>3. ASSUME NEW k \in ExpiredKeys
      PROVE  /\ ExpiryPlan(k) \in Plan /\ ExpiryPlan(k).key = k
             /\ ExpiryPlan(k).old = table.items[k]
  <2>1. k \in Keys /\ table.items[k] \in Item /\ None \in Item /\ "delete" \in WriteKinds
    BY DEF ExpiredKeys, TableState, Item, WriteKinds
  <2> QED BY <2>1 DEF ExpiryPlan, Plan
<1>4. \A i \in 1 .. n : /\ plans[i] \in Plan /\ plans[i].key = order[i]
                        /\ plans[i].old = table.items[plans[i].key]
  BY <1>2, <1>3
<1>5. plans \in [1 .. n -> Plan]
  BY <1>4
<1> HIDE DEF plans
<1>6. Len(plans) = n
  BY <1>1, <1>5, LenOfFunction
<1>7. PlansOf(table, plans)
  BY <1>1, <1>2, <1>4, <1>6 DEF PlansOf
<1> QED BY <1>7 DEF plans, n

TableKept == table \in TableState /\ StateInv(table) /\ ReadersInv /\ NoSleepOverRecords

LEMMA SameTableKept == TableKept /\ UNCHANGED <<table, reader>> => TableKept'
BY DEF TableKept, ReadersInv, NoSleepOverRecords

LEMMA NewStreamType ==
  ASSUME nstreams \in Nat, NEW view \in Views
  PROVE  /\ NewStream(view) \in Stream /\ NewStream(view).arn = nstreams + 1
         /\ NewStream(view).view = view /\ NewStream(view).records = <<>>
<1> DEFINE n == NoStream
           a == nstreams + 1
<1>1. n \in Stream /\ n.records = <<>> /\ a \in Nat
  BY NoneType
<1>2. NewStream(view) = [n EXCEPT !.arn = a, !.view = view]
  BY DEF NewStream
<1> HIDE DEF n, a
<1>3. /\ NewStream(view) \in Stream /\ NewStream(view).arn = a
      /\ NewStream(view).view = view /\ NewStream(view).records = <<>>
  BY <1>1, <1>2 DEF Stream
<1> QED BY <1>3 DEF a

LEMMA EmptyMirrors == ASSUME NEW items PROVE Mirrors(<<>>, items)
<1>1. DOMAIN <<>> = {}
  OBVIOUS
<1> QED BY <1>1 DEF Mirrors

LEMMA WritesKept ==
  ASSUME TableInv,
         \/ \E a \in Writes : writeOne(a)
         \/ \E actions \in Requests : BatchWriteItem(actions) \/ TransactWriteItems(actions)
         \/ sweepExpired
  PROVE  TableKept'
<1>1. /\ StatesInv /\ ReadersInv /\ NoSleepOverRecords /\ table \in TableState /\ TableKept
  BY DEF TableInv, StatesInv, TableKept
<1>2. ASSUME NEW plans, PlansOf(table, plans), Committed(plans) PROVE TableKept'
  BY <1>1, <1>2, CommittedKeeps DEF TableKept
<1>3. CASE Rejected
  BY <1>1, <1>3, SameTableKept DEF Rejected
<1>4. ASSUME NEW a \in Writes, writeOne(a) PROVE TableKept'
  <2>1. a \in Action
    BY DynamoDBAssumption
  <2>2. Committed(<<planLocked(a)>>) \/ Rejected
    BY <1>4 DEF writeOne
  <2> QED BY <1>1, <1>2, <1>3, <2>1, <2>2, WritePlans
<1>5. ASSUME NEW actions \in Requests, BatchWriteItem(actions) \/ TransactWriteItems(actions)
      PROVE  TableKept'
  <2>1. actions \in Seq(Action)
    BY DynamoDBAssumption
  <2>2. \/ markSeen(actions) /\ Committed([i \in DOMAIN actions |-> planLocked(actions[i])])
        \/ Rejected
    BY <1>5 DEF BatchWriteItem, TransactWriteItems
  <2> QED BY <1>1, <1>2, <1>3, <2>1, <2>2, RequestPlans
<1>6. CASE sweepExpired
  <2>1. PICK order \in SetToSeqs(ExpiredKeys) :
          Committed([i \in 1 .. Cardinality(ExpiredKeys) |-> ExpiryPlan(order[i])])
    BY <1>6 DEF sweepExpired, ExpiredKeys, ExpiryPlan
  <2> QED BY <1>1, <1>2, <2>1, SweepPlans
<1> QED BY <1>4, <1>5, <1>6

LEMMA CreateKept ==
  ASSUME TableInv, NEW view \in Views \cup {None}, CreateTable(view)
  PROVE  TableKept'
<1>1. TableKept /\ nstreams \in Nat
  BY DEF TableInv, StatesInv, TableKept, TableTypeOK
<1>2. CASE Rejected
  BY <1>1, <1>2, SameTableKept DEF Rejected
<1> DEFINE n == NoTable
<1>3. n \in TableState /\ n.stream = NoStream
  BY NoneType
<1>4. CASE ~Rejected
  <2>1. ~table.exists /\ UNCHANGED reader
    BY <1>4 DEF CreateTable
  <2>2. \A r \in Readers : reader[r].pc # "asleep"
    <3>1. table.stream.arn = 0
      BY <1>1, <2>1 DEF TableKept, StateInv
    <3> QED BY <1>1, <3>1 DEF TableKept, ReadersInv, NoSleepOverRecords
  <2>3. \/ view = None /\ table' = [n EXCEPT !.exists = TRUE]
        \/ view # None /\ table' = [n EXCEPT !.exists = TRUE, !.stream = NewStream(view)]
    BY <1>4 DEF CreateTable
  <2> HIDE DEF n
  <2>4. CASE view = None
    <3>1. table' \in TableState /\ table'.exists /\ table'.stream = NoStream
      BY <1>3, <2>3, <2>4 DEF TableState
    <3>2. StateInv(table')
      BY <3>1, NoneType DEF StateInv, None
    <3> QED BY <1>1, <2>1, <2>2, <3>1, <3>2 DEF TableKept, ReadersInv, NoSleepOverRecords
  <2>5. CASE view # None
    <3>1. /\ NewStream(view) \in Stream /\ NewStream(view).arn = nstreams + 1
          /\ NewStream(view).view = view /\ NewStream(view).records = <<>>
      BY <1>1, <2>5, NewStreamType
    <3>2. table' \in TableState /\ table'.exists /\ table'.stream = NewStream(view)
      BY <1>3, <2>3, <2>5, <3>1 DEF TableState
    <3>3. StateInv(table')
      BY <1>1, <3>1, <3>2, EmptyMirrors DEF StateInv
    <3> QED BY <1>1, <2>1, <2>2, <3>2, <3>3 DEF TableKept, ReadersInv, NoSleepOverRecords
  <2> QED BY <2>4, <2>5
<1> QED BY <1>2, <1>4

LEMMA UpdateKept ==
  ASSUME TableInv, NEW view \in Views \cup {None}, NEW protect \in BOOLEAN, NEW bad \in BOOLEAN,
         UpdateTable(view, protect, bad)
  PROVE  TableKept'
<1>1. /\ TableKept /\ nstreams \in Nat /\ table \in TableState /\ StateInv(table)
      /\ ReadersInv /\ NoSleepOverRecords
  BY DEF TableInv, StatesInv, TableKept, TableTypeOK
<1>2. CASE UNCHANGED <<table, reader>>
  BY <1>1, <1>2, SameTableKept
<1>3. CASE ~UNCHANGED <<table, reader>>
  <2> DEFINE stream == applyTableStreamUpdateLocked(view)
  <2>1. /\ table.exists
        /\ table' = [table EXCEPT !.stream = stream, !.protected = protect]
        /\ IF table.stream.arn # 0 /\ stream.arn # table.stream.arn
           THEN Retire(table.stream.arn) ELSE UNCHANGED reader
    BY <1>3 DEF UpdateTable, Rejected
  <2>2. /\ stream \in Stream
        /\ stream = table.stream \/ (stream.records = <<>> /\ (stream.arn = 0 => stream.view = None))
    <3>1. CASE view = None
      <4>1. stream = NoStream
        BY <3>1 DEF applyTableStreamUpdateLocked
      <4> QED BY <4>1, NoneType
    <3>2. CASE view # None /\ view = table.stream.view
      BY <1>1, <3>2 DEF applyTableStreamUpdateLocked, TableState
    <3>3. CASE view # None /\ view # table.stream.view
      <4>1. stream = NewStream(view) /\ view \in Views
        BY <3>3 DEF applyTableStreamUpdateLocked
      <4> QED BY <1>1, <4>1, NewStreamType
    <3> QED BY <3>1, <3>2, <3>3
  <2> HIDE DEF stream
  <2>3. /\ table' \in TableState /\ table'.stream = stream /\ table'.items = table.items
        /\ table'.exists = table.exists
    BY <1>1, <2>1, <2>2 DEF TableState
  <2>4. StateInv(table')
    BY <1>1, <2>1, <2>2, <2>3, EmptyMirrors DEF StateInv
  <2>5. CASE table.stream.arn # 0 /\ stream.arn # table.stream.arn
    <3>1. ReadersInv' /\ \A r \in Readers : reader'[r].pc # "asleep"
      BY <1>1, <2>1, <2>5, SignalWakes DEF Retire
    <3> QED BY <2>3, <2>4, <3>1 DEF TableKept, NoSleepOverRecords
  <2>6. CASE ~(table.stream.arn # 0 /\ stream.arn # table.stream.arn)
    <3>1. UNCHANGED reader
      BY <2>1, <2>6
    <3>2. ReadersInv'
      BY <1>1, <3>1 DEF ReadersInv
    <3>3. ASSUME NEW r \in Readers, reader[r].pc = "asleep"
          PROVE  /\ reader[r].arn = stream.arn
                 /\ \A i \in DOMAIN stream.records : stream.records[i].seq <= reader[r].last
      <4>1. reader[r].arn = table.stream.arn /\ table.stream.arn # 0
        BY <1>1, <3>3 DEF NoSleepOverRecords, ReadersInv
      <4>2. CASE stream = table.stream
        BY <1>1, <3>3, <4>2 DEF NoSleepOverRecords
      <4>3. CASE stream.records = <<>>
        BY <2>6, <4>1, <4>3
      <4> QED BY <2>2, <4>2, <4>3
    <3> QED BY <2>3, <2>4, <3>1, <3>2, <3>3 DEF TableKept, NoSleepOverRecords
  <2> QED BY <2>5, <2>6
<1> QED BY <1>2, <1>3

LEMMA TableOpsKept ==
  ASSUME TableInv, DeleteTable \/ \E enabled \in BOOLEAN : UpdateTimeToLive(enabled)
  PROVE  TableKept'
<1>1. /\ TableKept /\ table \in TableState /\ StateInv(table) /\ ReadersInv /\ NoSleepOverRecords
  BY DEF TableInv, StatesInv, TableKept
<1>2. CASE Rejected
  BY <1>1, <1>2, SameTableKept DEF Rejected
<1>3. CASE table' = NoTable /\ signalStreamLocked(table.stream.arn)
  <2>1. ReadersInv' /\ \A r \in Readers : reader'[r].pc # "asleep"
    BY <1>1, <1>3, SignalWakes
  <2> QED BY <1>3, <2>1, NoneType DEF TableKept, NoSleepOverRecords
<1>4. ASSUME NEW enabled \in BOOLEAN, table' = [table EXCEPT !.ttl = enabled], UNCHANGED reader
      PROVE  TableKept'
  <2>1. /\ table' \in TableState /\ table'.stream = table.stream /\ table'.items = table.items
        /\ table'.exists = table.exists
    BY <1>1, <1>4 DEF TableState
  <2> QED BY <1>1, <1>4, <2>1 DEF TableKept, StateInv, ReadersInv, NoSleepOverRecords
<1> QED BY <1>2, <1>3, <1>4 DEF DeleteTable, UpdateTimeToLive

LEMMA ReadersKept ==
  ASSUME TableInv, NEW r \in Readers, StreamBatchUntil(r) \/ streamWindow(r) \/ ReadTimeout(r)
  PROVE  TableKept'
<1>1. /\ TableKept /\ table \in TableState /\ StateInv(table) /\ ReadersInv /\ NoSleepOverRecords
  BY DEF TableInv, StatesInv, TableKept
<1>2. reader[r] \in ReaderCall /\ reader \in [Readers -> ReaderCall]
  BY <1>1 DEF ReadersInv
<1>3. CASE StreamBatchUntil(r)
  <2> DEFINE call == [pc |-> "reading", arn |-> table.stream.arn,
                      last |-> IF reader[r].arn = table.stream.arn THEN reader[r].last ELSE 0]
  <2>1. UNCHANGED table /\ reader' = [reader EXCEPT ![r] = call] /\ table.stream.arn # 0
    BY <1>2, <1>3 DEF StreamBatchUntil
  <2>2. call \in ReaderCall /\ call.pc = "reading" /\ call.arn # 0
    <3>1. table.stream.arn \in Nat /\ reader[r].last \in Nat
      BY <1>1, <1>2 DEF TableState, Stream, ReaderCall
    <3> QED BY <2>1, <3>1 DEF ReaderCall
  <2> HIDE DEF call
  <2> QED BY <1>1, <1>2, <2>1, <2>2 DEF TableKept, ReadersInv, NoSleepOverRecords
<1>4. CASE ReadTimeout(r)
  <2> DEFINE call == [reader[r] EXCEPT !.pc = "idle"]
  <2>1. UNCHANGED table /\ reader' = [reader EXCEPT ![r] = call]
    BY <1>2, <1>4 DEF ReadTimeout
  <2>2. call \in ReaderCall /\ call.pc = "idle"
    BY <1>2 DEF ReaderCall
  <2> HIDE DEF call
  <2> QED BY <1>1, <1>2, <2>1, <2>2 DEF TableKept, ReadersInv, NoSleepOverRecords
<1>5. CASE streamWindow(r) /\ table.stream.arn # reader[r].arn
  <2>1. UNCHANGED table /\ reader' = [reader EXCEPT ![r] = NoRead]
    BY <1>5 DEF streamWindow
  <2> QED BY <1>1, <1>2, <2>1, NoneType DEF TableKept, ReadersInv, NoSleepOverRecords
<1>6. CASE streamWindow(r) /\ table.stream.arn = reader[r].arn
  <2>1. PICK stream \in pruneStreamLocked(table.stream) :
          /\ table' = [table EXCEPT !.stream = stream]
          /\ \/ /\ Unread(r, stream.records) = {}
                /\ reader' = [reader EXCEPT ![r].pc = "asleep"]
             \/ \E i \in Unread(r, stream.records) :
                   reader' = [reader EXCEPT ![r].pc = "idle", ![r].last = stream.records[i].seq]
    BY <1>6 DEF streamWindow
  <2>2. /\ table' \in TableState /\ StateInv(table') /\ table'.stream = stream
        /\ stream \in Stream /\ stream.arn = table.stream.arn
        /\ \A i \in DOMAIN stream.records :
             \E j \in DOMAIN table.stream.records : stream.records[i] = table.stream.records[j]
    BY <1>1, <2>1, PruneKeeps
  <2>3. \A i \in DOMAIN stream.records : stream.records[i].seq \in Nat
    <3>1. stream.records \in Seq(StreamRecord)
      BY <2>2 DEF Stream
    <3>2. DOMAIN stream.records = 1 .. Len(stream.records)
      BY <3>1, LenProperties
    <3>3. \A i \in DOMAIN stream.records : stream.records[i] \in StreamRecord
      BY <3>1, <3>2, ElementOfSeq
    <3> QED BY <3>3 DEF StreamRecord
  <2>4. reader[r].pc \in {"reading", "woken"} /\ reader[r].arn # 0 /\ reader[r].last \in Nat
    BY <1>1, <1>2, <1>6 DEF streamWindow, ReadersInv, ReaderCall
  <2>5. \A q \in Readers : reader[q].pc = "asleep" =>
          /\ reader[q].arn = stream.arn
          /\ \A i \in DOMAIN stream.records : stream.records[i].seq <= reader[q].last
    BY <1>1, <2>2 DEF NoSleepOverRecords
  <2>6. CASE Unread(r, stream.records) = {} /\ reader' = [reader EXCEPT ![r].pc = "asleep"]
    <3> DEFINE call == [reader[r] EXCEPT !.pc = "asleep"]
    <3>1. reader' = [reader EXCEPT ![r] = call]
      BY <1>2, <2>6
    <3>2. call \in ReaderCall /\ call.arn = reader[r].arn /\ call.last = reader[r].last
      BY <1>2 DEF ReaderCall
    <3> HIDE DEF call
    <3>3. \A i \in DOMAIN stream.records : stream.records[i].seq <= reader[r].last
      BY <2>3, <2>4, <2>6 DEF Unread
    <3>4. ReadersInv'
      BY <1>1, <1>2, <2>4, <3>1, <3>2 DEF ReadersInv
    <3>5. NoSleepOverRecords'
      BY <1>2, <1>6, <2>2, <2>5, <3>1, <3>2, <3>3 DEF NoSleepOverRecords
    <3> QED BY <2>2, <3>4, <3>5 DEF TableKept
  <2>7. ASSUME NEW i \in Unread(r, stream.records),
               reader' = [reader EXCEPT ![r].pc = "idle", ![r].last = stream.records[i].seq]
        PROVE  TableKept'
    <3> DEFINE seq == stream.records[i].seq
               call == [reader[r] EXCEPT !.pc = "idle", !.last = seq]
    <3>1. seq \in Nat
      BY <2>3 DEF Unread
    <3>2. reader' = [reader EXCEPT ![r] = call]
      BY <1>2, <2>7
    <3> HIDE DEF seq
    <3>3. call \in ReaderCall /\ call.pc = "idle"
      BY <1>2, <3>1 DEF ReaderCall
    <3> HIDE DEF call
    <3>4. ReadersInv'
      BY <1>1, <1>2, <3>2, <3>3 DEF ReadersInv
    <3>5. NoSleepOverRecords'
      BY <1>2, <2>2, <2>5, <3>2, <3>3 DEF NoSleepOverRecords
    <3> QED BY <2>2, <3>4, <3>5 DEF TableKept
  <2> QED BY <2>1, <2>6, <2>7
<1> QED BY <1>3, <1>4, <1>5, <1>6

LEMMA RestartKept ==
  ASSUME TableInv, Restart
  PROVE  TableKept'
<1>1. PICK stream \in pruneStreamLocked(image.stream) : table' = [image EXCEPT !.stream = stream]
  BY DEF Restart
<1>2. table' \in TableState /\ StateInv(table')
  BY <1>1, PruneKeeps DEF TableInv, StatesInv
<1>3. reader' = [r \in Readers |-> NoRead]
  BY DEF Restart
<1> QED BY <1>2, <1>3, NoneType DEF TableKept, ReadersInv, NoSleepOverRecords

LEMMA TableKeptStep ==
  ASSUME TableInv, TableNext
  PROVE  TableKept'
<1>1. CASE flushToDisk
  <2>1. TableKept /\ UNCHANGED <<table, reader>>
    BY <1>1 DEF flushToDisk, TableInv, StatesInv, TableKept
  <2> QED BY <2>1, SameTableKept
<1> QED BY <1>1, WritesKept, CreateKept, UpdateKept, TableOpsKept, ReadersKept, RestartKept
        DEF TableNext

LEMMA TableRestStep ==
  ASSUME TableInv, TableNext
  PROVE  /\ tableMu' \in {"free", "leaked"} /\ outcome' \in {"ok", "rejected"}
         /\ nstreams' \in Nat /\ nwrites' \in Nat /\ nrestarts' \in Nat
         /\ image' \in TableState /\ StateInv(image')
<1>0. TableTypeOK /\ StatesInv
  BY DEF TableInv
<1>1. ASSUME NEW plans, Committed(plans) PROVE tableMu' = tableMu /\ nstreams' = nstreams /\ outcome' = "ok"
  BY <1>1 DEF Committed
<1>2. image' = image \/ image' = table
  BY DEF TableNext, CreateTable, UpdateTable, DeleteTable, UpdateTimeToLive, writeOne,
         BatchWriteItem, TransactWriteItems, sweepExpired, StreamBatchUntil, streamWindow,
         ReadTimeout, flushToDisk, Restart, Frame, ReaderFrame
<1>3. nwrites' \in {nwrites, nwrites + 1} /\ nrestarts' \in {nrestarts, nrestarts + 1}
  BY DEF TableNext, CreateTable, UpdateTable, DeleteTable, UpdateTimeToLive, writeOne,
         BatchWriteItem, TransactWriteItems, sweepExpired, StreamBatchUntil, streamWindow,
         ReadTimeout, flushToDisk, Restart, Frame, ReaderFrame, Lock
<1>4. tableMu' \in {tableMu, "free", "leaked"} /\ outcome' \in {outcome, "ok", "rejected"}
  BY <1>1 DEF TableNext, CreateTable, UpdateTable, DeleteTable, UpdateTimeToLive, writeOne,
         BatchWriteItem, TransactWriteItems, sweepExpired, StreamBatchUntil, streamWindow,
         ReadTimeout, flushToDisk, Restart, Frame, ReaderFrame, Rejected
<1>5. nstreams' \in Nat
  <2>1. ASSUME NEW view \in Views \cup {None}, NEW protect \in BOOLEAN, NEW bad \in BOOLEAN,
               UpdateTable(view, protect, bad)
        PROVE  nstreams' \in Nat
    <3> DEFINE stream == applyTableStreamUpdateLocked(view)
    <3>1. stream.arn \in Nat
      <4>1. table.stream.arn \in Nat /\ nstreams + 1 \in Nat /\ nstreams \in Nat
        BY <1>0 DEF TableTypeOK, TableState, Stream
      <4>2. CASE view = None
        BY <4>2, NoneType DEF applyTableStreamUpdateLocked
      <4>3. CASE view # None /\ view = table.stream.view
        BY <4>1, <4>3 DEF applyTableStreamUpdateLocked
      <4>4. CASE view # None /\ view # table.stream.view
        BY <4>1, <4>4, NewStreamType DEF applyTableStreamUpdateLocked
      <4> QED BY <4>2, <4>3, <4>4
    <3>2. nstreams' \in {nstreams, stream.arn}
      BY <2>1 DEF UpdateTable, Rejected
    <3> QED BY <1>0, <3>1, <3>2 DEF TableTypeOK
  <2>2. ASSUME NEW view, CreateTable(view) PROVE nstreams' \in Nat
    BY <1>0, <2>2 DEF CreateTable, Rejected, TableTypeOK
  <2>3. ASSUME UNCHANGED nstreams PROVE nstreams' \in Nat
    BY <1>0, <2>3 DEF TableTypeOK
  <2> QED BY <1>1, <2>1, <2>2, <2>3
          DEF TableNext, DeleteTable, UpdateTimeToLive, writeOne, BatchWriteItem, TransactWriteItems,
              sweepExpired, StreamBatchUntil, streamWindow, ReadTimeout, flushToDisk, Restart,
              ReaderFrame, Rejected
<1> QED BY <1>0, <1>2, <1>3, <1>4, <1>5 DEF TableTypeOK, StatesInv

LEMMA TableInvariant == TableSpec => []TableInv
<1>1. TableInit => TableInv
  <2> SUFFICES ASSUME TableInit PROVE TableInv
    OBVIOUS
  <2>1. 0 \in Nat
    OBVIOUS
  <2>2. TableTypeOK /\ StatesInv
    BY <2>1, NoneType DEF TableInit, TableTypeOK, StatesInv
  <2>3. ReadersInv /\ NoSleepOverRecords
    BY NoneType DEF TableInit, ReadersInv, NoSleepOverRecords
  <2> QED BY <2>2, <2>3 DEF TableInv
<1>2. TableInv /\ [TableNext]_dynVars => TableInv'
  <2> SUFFICES ASSUME TableInv, [TableNext]_dynVars PROVE TableInv'
    OBVIOUS
  <2>1. CASE UNCHANGED dynVars
    BY <2>1 DEF dynVars, TableInv, TableTypeOK, StatesInv, ReadersInv, NoSleepOverRecords
  <2>2. CASE TableNext
    <3>1. TableKept'
      BY <2>2, TableKeptStep
    <3>2. /\ tableMu' \in {"free", "leaked"} /\ outcome' \in {"ok", "rejected"}
          /\ nstreams' \in Nat /\ nwrites' \in Nat /\ nrestarts' \in Nat
          /\ image' \in TableState /\ StateInv(image')
      BY <2>2, TableRestStep
    <3> QED BY <3>1, <3>2 DEF TableKept, TableInv, TableTypeOK, StatesInv, ReadersInv
  <2> QED BY <2>1, <2>2
<1> QED BY <1>1, <1>2, PTL DEF TableSpec

(* The stream of a table tells the history of its items, whatever mixture of  *)
(* writes, batches, transactions, expirations, evictions and restarts led     *)
(* there (dynamodb/write.go: commitLocked, markSeen; ttl.go: sweepExpired;    *)
(* store.go: appendStreamRecordLocked).                                       *)
THEOREM StreamTellsHistory == TableSpec => []StreamMirrorsItems
<1>1. TableInv => StreamMirrorsItems
  BY DEF TableInv, StatesInv, StateInv, Mirrors, StreamMirrorsItems
<1> QED BY <1>1, TableInvariant, PTL

(* No reader sleeps while its stream holds a record after its checkpoint, or  *)
(* on a stream that is gone (dynamodb/store.go: streamWindow,                 *)
(* signalStreamLocked; table.go: UpdateTable, DeleteTable).                   *)
THEOREM NobodySleepsOverRecords == TableSpec => []NoSleepOverRecords
<1>1. TableInv => NoSleepOverRecords
  BY DEF TableInv
<1> QED BY <1>1, TableInvariant, PTL

(* The state of the DynamoDB model keeps its types.                           *)
THEOREM TableType == TableSpec => []TableTypeOK
<1>1. TableInv => TableTypeOK
  BY DEF TableInv
<1> QED BY <1>1, TableInvariant, PTL

(***************************************************************************)
(* THE INDEX OF A BUCKET                                                   *)
(***************************************************************************)
(***************************************************************************)
(* Sums over finite sets of objects: what Sizing computes.                 *)
(***************************************************************************)
First(s) == CHOOSE k \in s : TRUE
Smaller(s) == s \ {First(s)}

(* The equation that the sums over the sets of up to n objects solve. *)
UpTo(n) == {s \in SUBSET Objects : Cardinality(s) <= n}
Sums(m, n, f) ==
  f = [s \in UpTo(n) |-> IF s = {} THEN 0 ELSE m[First(s)].size + f[Smaller(s)]]

LEMMA ObjectSets ==
  ASSUME NEW s \in SUBSET Objects
  PROVE  /\ IsFiniteSet(s) /\ Cardinality(s) \in Nat /\ Cardinality(s) <= Cardinality(Objects)
         /\ Cardinality(s) = 0 <=> s = {}
         /\ \A k \in s : s \ {k} \in SUBSET Objects /\ Cardinality(s \ {k}) = Cardinality(s) - 1
         /\ \A k \in Objects \ s : Cardinality(s \cup {k}) = Cardinality(s) + 1
<1>1. IsFiniteSet(s) /\ Cardinality(s) <= Cardinality(Objects)
  BY S3Assumption, FS_Subset
<1>2. Cardinality(s) \in Nat
  BY <1>1, FS_CardinalityType
<1>3. Cardinality(s) = 0 <=> s = {}
  BY <1>1, FS_EmptySet
<1>4. \A k \in s : s \ {k} \in SUBSET Objects /\ Cardinality(s \ {k}) = Cardinality(s) - 1
  BY <1>1, FS_RemoveElement
<1>5. \A k \in Objects \ s : Cardinality(s \cup {k}) = Cardinality(s) + 1
  BY <1>1, FS_AddElement
<1> QED BY <1>1, <1>2, <1>3, <1>4, <1>5

LEMMA FirstInside ==
  ASSUME NEW s \in SUBSET Objects, s # {}
  PROVE  /\ First(s) \in s /\ First(s) \in Objects /\ Smaller(s) \in SUBSET Objects
         /\ Cardinality(Smaller(s)) = Cardinality(s) - 1
<1>1. First(s) \in s
  BY DEF First
<1> QED BY <1>1, ObjectSets DEF Smaller

(* Among sets of objects there is one with the fewest. *)
LEMMA SmallestSet ==
  ASSUME NEW P, P \subseteq SUBSET Objects, P # {}
  PROVE  \E s \in P : \A t \in P : Cardinality(s) <= Cardinality(t)
<1> DEFINE N == {Cardinality(s) : s \in P}
<1>1. N \subseteq Nat /\ N # {}
  BY ObjectSets
<1>2. PICK n \in N : \A u \in N : n <= u
  <2> HIDE DEF N
  <2> QED BY <1>1, LeastNat
<1>3. PICK s \in P : n = Cardinality(s)
  OBVIOUS
<1> QED BY <1>2, <1>3

LEMMA SumsExist ==
  ASSUME NEW m
  PROVE  \A n \in Nat : \E f : Sums(m, n, f)
<1> DEFINE Bad == {n \in Nat : ~ \E f : Sums(m, n, f)}
<1>1. SUFFICES ASSUME Bad # {} PROVE FALSE
  OBVIOUS
<1>2. PICK n \in Bad : \A u \in Bad : n <= u
  <2>1. Bad \subseteq Nat
    OBVIOUS
  <2> HIDE DEF Bad
  <2> QED BY <1>1, <2>1, LeastNat
<1>3. n # 0
  <2>1. SUFFICES ASSUME n = 0 PROVE FALSE
    OBVIOUS
  <2>2. UpTo(0) = {{}}
    BY ObjectSets DEF UpTo
  <2>3. Sums(m, 0, [s \in UpTo(0) |-> 0])
    BY <2>2 DEF Sums
  <2> QED BY <2>1, <2>3
<1>4. n - 1 \in Nat /\ n - 1 \notin Bad
  BY <1>2, <1>3
<1>5. PICK f : Sums(m, n - 1, f)
  BY <1>4
<1> DEFINE g == [s \in UpTo(n) |-> IF s = {} THEN 0 ELSE m[First(s)].size + f[Smaller(s)]]
<1>6. ASSUME NEW s \in UpTo(n), s # {} PROVE g[Smaller(s)] = f[Smaller(s)]
  <2>1. Smaller(s) \in UpTo(n - 1) /\ Smaller(s) \in UpTo(n)
    BY <1>2, <1>6, FirstInside, ObjectSets DEF UpTo
  <2>2. f[Smaller(s)] = IF Smaller(s) = {} THEN 0
                        ELSE m[First(Smaller(s))].size + f[Smaller(Smaller(s))]
    BY <1>5, <2>1 DEF Sums
  <2> QED BY <2>1, <2>2
<1>7. Sums(m, n, g)
  <2>1. g = [s \in UpTo(n) |-> IF s = {} THEN 0 ELSE m[First(s)].size + g[Smaller(s)]]
    BY <1>6
  <2> QED BY <2>1 DEF Sums
<1> QED BY <1>2, <1>7

LEMMA SizingStep ==
  ASSUME NEW m, NEW s \in SUBSET Objects
  PROVE  Sizing(m, s) = IF s = {} THEN 0 ELSE m[First(s)].size + Sizing(m, Smaller(s))
<1> DEFINE all == Cardinality(Objects)
           sum == CHOOSE f : Sums(m, all, f)
<1>1. all \in Nat /\ UpTo(all) = SUBSET Objects
  BY ObjectSets DEF UpTo
<1>2. Sums(m, all, sum)
  BY <1>1, SumsExist
<1>3. ASSUME NEW t \in SUBSET Objects PROVE Sizing(m, t) = sum[t]
  BY <1>1 DEF Sizing, Sums, First, Smaller
<1>4. sum[s] = IF s = {} THEN 0 ELSE m[First(s)].size + sum[Smaller(s)]
  <2> HIDE DEF sum, all
  <2> QED BY <1>1, <1>2 DEF Sums
<1>5. s # {} => Smaller(s) \in SUBSET Objects
  BY FirstInside
<1> HIDE DEF sum, all
<1> QED BY <1>3, <1>4, <1>5

LEMMA SizingEmpty ==
  ASSUME NEW m PROVE Sizing(m, {}) = 0
BY SizingStep

LEMMA SizingInt ==
  ASSUME NEW m, \A k \in Objects : m[k].size \in Int
  PROVE  \A s \in SUBSET Objects : Sizing(m, s) \in Int
<1> DEFINE Bad == {s \in SUBSET Objects : Sizing(m, s) \notin Int}
<1>1. SUFFICES ASSUME Bad # {} PROVE FALSE
  OBVIOUS
<1>2. PICK s \in Bad : \A t \in Bad : Cardinality(s) <= Cardinality(t)
  <2>1. Bad \subseteq SUBSET Objects
    OBVIOUS
  <2> HIDE DEF Bad
  <2> QED BY <1>1, <2>1, SmallestSet
<1>3. s # {}
  BY <1>2, SizingEmpty
<1>4. Smaller(s) \in SUBSET Objects /\ Smaller(s) \notin Bad
  BY <1>2, <1>3, FirstInside, ObjectSets
<1> QED BY <1>2, <1>3, <1>4, SizingStep, FirstInside

(* Any object may be taken out of the sum first. *)
LEMMA SizingRemove ==
  ASSUME NEW m, \A k \in Objects : m[k].size \in Int
  PROVE  \A s \in SUBSET Objects : \A y \in s : Sizing(m, s) = m[y].size + Sizing(m, s \ {y})
<1> DEFINE Bad == {s \in SUBSET Objects : ~ \A y \in s : Sizing(m, s) = m[y].size + Sizing(m, s \ {y})}
<1>1. SUFFICES ASSUME Bad # {} PROVE FALSE
  OBVIOUS
<1>2. PICK s \in Bad : \A t \in Bad : Cardinality(s) <= Cardinality(t)
  <2>1. Bad \subseteq SUBSET Objects
    OBVIOUS
  <2> HIDE DEF Bad
  <2> QED BY <1>1, <2>1, SmallestSet
<1>3. PICK y \in s : Sizing(m, s) # m[y].size + Sizing(m, s \ {y})
  OBVIOUS
<1> DEFINE x == First(s)
<1>4. s \in SUBSET Objects /\ x \in s /\ Smaller(s) = s \ {x}
  BY <1>3, FirstInside DEF Smaller
<1>5. Sizing(m, s) = m[x].size + Sizing(m, s \ {x})
  BY <1>3, <1>4, SizingStep
<1>6. x # y
  BY <1>3, <1>5
<1>7. s \ {x} \in SUBSET Objects /\ s \ {y} \in SUBSET Objects
  BY <1>4
<1>8. s \ {x} \notin Bad /\ s \ {y} \notin Bad
  <2>1. Cardinality(s \ {x}) < Cardinality(s) /\ Cardinality(s \ {y}) < Cardinality(s)
    BY <1>3, <1>4, ObjectSets
  <2>2. /\ Cardinality(s \ {x}) \in Nat /\ Cardinality(s \ {y}) \in Nat /\ Cardinality(s) \in Nat
    BY <1>4, <1>7, ObjectSets
  <2> HIDE DEF Bad, x
  <2> QED BY <1>2, <2>1, <2>2
<1>9. Sizing(m, s \ {x}) = m[y].size + Sizing(m, (s \ {x}) \ {y})
  BY <1>3, <1>6, <1>7, <1>8
<1>10. Sizing(m, s \ {y}) = m[x].size + Sizing(m, (s \ {y}) \ {x})
  BY <1>4, <1>6, <1>7, <1>8
<1>11. (s \ {x}) \ {y} = (s \ {y}) \ {x}
  OBVIOUS
<1>12. Sizing(m, (s \ {y}) \ {x}) \in Int /\ m[x].size \in Int /\ m[y].size \in Int
  BY <1>3, <1>4, SizingInt
<1>13. Sizing(m, s \ {x}) = m[y].size + Sizing(m, (s \ {y}) \ {x})
  BY <1>9, <1>11
<1>14. Sizing(m, s) = m[y].size + Sizing(m, s \ {y})
  BY <1>5, <1>10, <1>12, <1>13
<1> QED BY <1>3, <1>14

(* The sum depends on the sizes of its objects only. *)
LEMMA SizingSame ==
  ASSUME NEW m, NEW n, NEW z \in SUBSET Objects, \A k \in z : m[k] = n[k]
  PROVE  Sizing(m, z) = Sizing(n, z)
<1> DEFINE Bad == {s \in SUBSET z : Sizing(m, s) # Sizing(n, s)}
<1>1. SUFFICES ASSUME Bad # {} PROVE FALSE
  OBVIOUS
<1>2. PICK s \in Bad : \A t \in Bad : Cardinality(s) <= Cardinality(t)
  <2>1. Bad \subseteq SUBSET Objects
    OBVIOUS
  <2> HIDE DEF Bad
  <2> QED BY <1>1, <2>1, SmallestSet
<1>3. s # {} /\ s \in SUBSET Objects
  BY <1>2, SizingEmpty
<1>4. Smaller(s) \in SUBSET z /\ First(s) \in z /\ Cardinality(Smaller(s)) < Cardinality(s)
  BY <1>2, <1>3, FirstInside, ObjectSets DEF Smaller
<1>5. Smaller(s) \notin Bad
  <2>1. Cardinality(Smaller(s)) \in Nat /\ Cardinality(s) \in Nat
    BY <1>3, <1>4, ObjectSets
  <2> HIDE DEF Bad
  <2> QED BY <1>2, <1>4, <2>1
<1>6. Sizing(m, Smaller(s)) = Sizing(n, Smaller(s))
  BY <1>4, <1>5
<1>7. m[First(s)] = n[First(s)]
  BY <1>4
<1>8. Sizing(m, s) = Sizing(n, s)
  BY <1>3, <1>6, <1>7, SizingStep
<1> QED BY <1>2, <1>8

Writers == {"put", "copy"}
FileSize == Nat \cup {AbsentFile}
Stamp == {NoMeta} \cup [size : Nat, at : Nat]
PutCall == [op : Writers, pc : {"create", "copy", "meta"}, gen : Generations, key : Objects,
            src : Objects, size : Nat, prev : FileSize, linked : BOOLEAN]
DeleteCall == [op : {"delete"}, pc : {"lock", "meta"}, gen : Generations,
               keys : (SUBSET Objects) \ {{}}, found : FileSize]
OtherCall == {NoTransfer} \cup [op : {"rmdir"}, pc : {"remove"}]
             \cup [op : {"notify"}, pc : {"memory", "file"}, value : Settings]

(* The type invariant of the bucket, its files and the calls. *)
BucketTypeOK ==
  /\ nbuckets \in 0 .. MaxBuckets /\ bucket \in 0 .. nbuckets
  /\ objectDir \in BOOLEAN /\ torn \in Nat /\ nputs \in Nat /\ ntransfers \in Nat
  /\ body \in [Objects -> FileSize] /\ objectMeta \in [Objects -> Stamp]
  /\ index \in [Generations -> [count : Int, total : Int, recent : SUBSET [key : Objects, at : Nat]]]
  /\ lock \in [Generations -> Clients \cup {NoHolder}] /\ storeLock \in Clients \cup {NoHolder}
  /\ notif \in [mem : Settings \cup {Unset}, file : Settings \cup {Unset}]
  /\ conf \in [mem : Settings \cup {Unset}, file : Settings \cup {Unset}]
  /\ transfer \in [Clients -> PutCall \cup DeleteCall \cup OtherCall]

(* A call inside the lock of its bucket, and the object it works on. *)
Busy(t) ==
  \/ t.op \in Writers /\ t.pc \in {"copy", "meta"}
  \/ t.op = "delete" /\ t.pc = "meta"
Object(t) == IF t.op = "delete" THEN First(t.keys) ELSE t.key
Linked(t) == t.op \in Writers /\ t.pc = "copy" /\ t.linked

(* Calls know bucketStates made before, and write under their locks. *)
Holders ==
  \A c \in Clients :
    /\ transfer[c].op \in Writers \cup {"delete"} => transfer[c].gen <= nbuckets
    /\ Busy(transfer[c]) => lock[transfer[c].gen] = c

(* Without a bucket there are no files, and no open body has a name. *)
GoneWhenDeleted ==
  /\ objectDir = (bucket # 0)
  /\ \A g \in Generations : g > nbuckets => index[g] = EmptyIndex
  /\ bucket = 0 =>
       /\ \A k \in Objects : body[k] = AbsentFile /\ objectMeta[k] = NoMeta
       /\ \A c \in Clients : ~Linked(transfer[c])

(* The index tells what the metadata tell, also while somebody writes. *)
Matches(ix) ==
  /\ ix.count = Cardinality(Listed)
  /\ ix.total = Sizing(objectMeta, Listed)
  /\ ix.recent \subseteq {Stamped(k) : k \in Listed}

(* Body and metadata of an object agree unless a call works on it. *)
Fits(k) ==
  \/ body[k] = objectMeta[k].size
  \/ \E c \in Clients : /\ Busy(transfer[c]) /\ transfer[c].gen = bucket
                        /\ Object(transfer[c]) = k

(* A call under way remembers the size that the metadata still have. *)
Remembers(t) ==
  /\ Linked(t) => t.gen = bucket
  /\ t.op \in Writers /\ Busy(t) /\ t.gen = bucket =>
       t.prev = objectMeta[t.key].size
  /\ t.op = "delete" /\ Busy(t) /\ t.gen = bucket =>
       t.found = objectMeta[Object(t)].size /\ body[Object(t)] = AbsentFile

ExactInv ==
  bucket # 0 /\ torn = 0 =>
    /\ Matches(index[bucket])
    /\ \A k \in Objects : Fits(k)
    /\ \A c \in Clients : Remembers(transfer[c])

BucketInv == BucketTypeOK /\ Holders /\ GoneWhenDeleted /\ ExactInv

AnyCall == PutCall \cup DeleteCall \cup OtherCall

LEMMA CallShape ==
  ASSUME NEW t \in AnyCall
  PROVE  /\ t.op \in Writers => t \in PutCall
         /\ t.op = "delete" => t \in DeleteCall
         /\ t \in OtherCall => ~Busy(t) /\ ~Linked(t) /\ t.op \notin Writers \cup {"delete"}
BY DEF AnyCall, PutCall, DeleteCall, OtherCall, Writers, NoTransfer, Busy, Linked

LEMMA CallTyped ==
  ASSUME BucketTypeOK, NEW c \in Clients
  PROVE  transfer[c] \in AnyCall
BY DEF BucketTypeOK, AnyCall

LEMMA StampShape ==
  ASSUME NEW e \in Stamp
  PROVE  /\ e.size \in FileSize /\ e.size \in Int /\ e.at \in Nat
         /\ e = NoMeta <=> e.size = AbsentFile
<1>1. NoMeta.size = AbsentFile /\ NoMeta.at = 0
  BY DEF NoMeta
<1>2. -1 \in Int /\ -1 \notin Nat
  OBVIOUS
<1> QED BY <1>1, <1>2 DEF Stamp, FileSize, AbsentFile

LEMMA MetaSizes ==
  ASSUME BucketTypeOK
  PROVE  /\ \A k \in Objects : objectMeta[k] \in Stamp /\ objectMeta[k].size \in Int
         /\ Listed \in SUBSET Objects
BY StampShape DEF BucketTypeOK, Listed

(* Nobody else writes in a bucket whose lock is free or taken by c. *)
LEMMA OthersIdle ==
  ASSUME BucketInv, NEW c \in Clients, NEW g \in Generations, lock[g] \in {NoHolder, c}
  PROVE  \A d \in Clients \ {c} : ~(Busy(transfer[d]) /\ transfer[d].gen = g)
<1>1. \A d \in Clients : d # NoHolder
  BY S3Assumption DEF NoHolder
<1> QED BY <1>1 DEF BucketInv, Holders

(* A step of c on its own bucket, as far as the index is concerned. *)
LEMMA WorkKeepsExact ==
  ASSUME BucketInv, NEW c \in Clients, NEW r,
         bucket # 0, torn = 0, bucket' = bucket, lock[bucket] \in {NoHolder, c},
         transfer' = [transfer EXCEPT ![c] = r],
         Matches(index[bucket])',
         Remembers(r)',
         \A k \in Objects : \/ body'[k] = objectMeta'[k].size
                            \/ Busy(r) /\ r.gen = bucket /\ Object(r) = k
  PROVE  ExactInv'
<1>1. bucket \in Generations
  BY S3Assumption DEF BucketInv, BucketTypeOK, Generations
<1>2. transfer'[c] = r /\ \A d \in Clients \ {c} : transfer'[d] = transfer[d]
  BY DEF BucketInv, BucketTypeOK
<1>3. \A k \in Objects : Fits(k)'
  BY <1>2 DEF Fits
<1>4. ASSUME NEW d \in Clients \ {c} PROVE Remembers(transfer[d])'
  <2>1. ~(Busy(transfer[d]) /\ transfer[d].gen = bucket)
    BY <1>1, OthersIdle
  <2>2. Linked(transfer[d]) => Busy(transfer[d]) /\ transfer[d].gen = bucket
    BY DEF BucketInv, ExactInv, Remembers, Linked, Busy
  <2>3. ~Linked(transfer[d])
    BY <2>1, <2>2
  <2> QED BY <2>1, <2>3 DEF Remembers
<1>5. \A d \in Clients : Remembers(transfer[d])'
  BY <1>2, <1>4
<1> QED BY <1>3, <1>5 DEF ExactInv

(* Without a writer in the bucket every body fits its metadata. *)
LEMMA AllFit ==
  ASSUME BucketInv, NEW c \in Clients, bucket # 0, torn = 0, lock[bucket] \in {NoHolder, c}
  PROVE  /\ \A k \in Objects :
              \/ body[k] = objectMeta[k].size
              \/ /\ Busy(transfer[c]) /\ transfer[c].gen = bucket
                 /\ Object(transfer[c]) = k
         /\ Remembers(transfer[c])
<1>1. bucket \in Generations
  BY S3Assumption DEF BucketInv, BucketTypeOK, Generations
<1>2. \A d \in Clients \ {c} : ~(Busy(transfer[d]) /\ transfer[d].gen = bucket)
  BY <1>1, OthersIdle
<1> QED BY <1>2 DEF BucketInv, ExactInv, Fits

(* Steps that neither touch the index nor the files, nor enter a lock. *)
FilesSame == UNCHANGED <<bucket, nbuckets, objectDir, body, objectMeta, index, lock, torn>>

LEMMA QuietKeeps ==
  ASSUME BucketInv, NEW c \in Clients, NEW r \in AnyCall, FilesSame,
         ~Busy(transfer[c]), ~Busy(r),
         r.op \in Writers \cup {"delete"} => r.gen <= nbuckets,
         transfer' = [transfer EXCEPT ![c] = r], BucketTypeOK'
  PROVE  BucketInv'
<1>1. transfer'[c] = r /\ \A d \in Clients \ {c} : transfer'[d] = transfer[d]
  BY DEF BucketInv, BucketTypeOK
<1>2. ~Linked(r)
  BY DEF Linked, Busy
<1>3. Holders'
  BY <1>1 DEF BucketInv, Holders, FilesSame
<1>4. GoneWhenDeleted'
  BY <1>1, <1>2 DEF BucketInv, GoneWhenDeleted, FilesSame
<1>5. ExactInv'
  <2>1. SUFFICES ASSUME bucket # 0, torn = 0
                 PROVE  /\ Matches(index[bucket])'
                        /\ \A k \in Objects : Fits(k)'
                        /\ \A d \in Clients : Remembers(transfer[d])'
    BY DEF ExactInv, FilesSame
  <2>2. Matches(index[bucket])'
    BY <2>1 DEF BucketInv, ExactInv, Matches, FilesSame, Listed, Stamped
  <2>3. \A k \in Objects : Fits(k)'
    BY <1>1, <2>1 DEF BucketInv, ExactInv, Fits, FilesSame
  <2>4. Remembers(r)'
    BY <1>2 DEF Remembers
  <2>5. \A d \in Clients \ {c} : Remembers(transfer[d])'
    BY <1>1, <2>1 DEF BucketInv, ExactInv, Remembers, FilesSame
  <2> QED BY <1>1, <2>2, <2>3, <2>4, <2>5
<1> QED BY <1>3, <1>4, <1>5 DEF BucketInv

LEMMA Numbers ==
  /\ AbsentFile \in FileSize /\ AbsentFile \in Int /\ AbsentFile \notin Nat
  /\ 0 \in FileSize /\ NoMeta \in Stamp /\ NoTransfer \in AnyCall
<1>1. -1 \in Int /\ -1 \notin Nat
  OBVIOUS
<1> QED BY <1>1 DEF AbsentFile, FileSize, Stamp, AnyCall, OtherCall

LEMMA BucketGeneration ==
  ASSUME BucketTypeOK, bucket # 0
  PROVE  bucket \in Generations
BY S3Assumption DEF BucketTypeOK, Generations

(* A call that begins does not write yet. *)
LEMMA BeginKeeps ==
  ASSUME BucketInv, NEW c \in Clients, NEW r \in AnyCall, FilesSame,
         BeginTransfer(c, r), ~Busy(r), UNCHANGED <<nputs, notif, conf>>,
         storeLock' \in Clients \cup {NoHolder},
         r.op \in Writers \cup {"delete"} => r.gen <= nbuckets
  PROVE  BucketInv'
<1>1. NoTransfer \in AnyCall
  BY Numbers
<1>2. transfer' = [transfer EXCEPT ![c] = r] /\ ~Busy(transfer[c])
  BY <1>1, CallShape DEF BeginTransfer, OtherCall
<1>3. BucketTypeOK'
  BY <1>2 DEF BucketInv, BucketTypeOK, BeginTransfer, FilesSame, AnyCall
<1> QED BY <1>2, <1>3, QuietKeeps

LEMMA PutObjectKeeps ==
  ASSUME BucketInv, NEW c \in Clients, NEW k \in Objects, NEW size \in Sizes, PutObject(c, k, size)
  PROVE  BucketInv'
<1> DEFINE r == [op |-> "put", pc |-> "create", gen |-> bucket, key |-> k, src |-> k,
                 size |-> size, prev |-> AbsentFile, linked |-> TRUE]
<1>1. r \in PutCall
  BY BucketGeneration, Numbers, S3Assumption DEF BucketInv, PutObject, Lookup, PutCall, Writers
<1>2. ~Busy(r) /\ r.gen <= nbuckets
  BY DEF Busy, Writers, BucketInv, BucketTypeOK
<1>3. FilesSame /\ BeginTransfer(c, r) /\ UNCHANGED <<nputs, notif, conf, storeLock>>
  BY DEF PutObject, Lookup, FilesSame, bucketStore, objectFiles
<1>4. storeLock' \in Clients \cup {NoHolder}
  BY <1>3 DEF BucketInv, BucketTypeOK
<1>5. r \in AnyCall
  BY <1>1 DEF AnyCall
<1> HIDE DEF r
<1> QED BY <1>2, <1>3, <1>4, <1>5, BeginKeeps

LEMMA CopyObjectKeeps ==
  ASSUME BucketInv, NEW c \in Clients, NEW src \in Objects, NEW k \in Objects, CopyObject(c, src, k)
  PROVE  BucketInv'
<1> DEFINE r == [op |-> "copy", pc |-> "create", gen |-> bucket, key |-> k, src |-> src,
                 size |-> body[src], prev |-> AbsentFile, linked |-> TRUE]
<1>0. body[src] \in Nat
  BY DEF BucketInv, BucketTypeOK, CopyObject, FileSize
<1>1. r \in PutCall
  BY <1>0, BucketGeneration, Numbers DEF BucketInv, CopyObject, Lookup, PutCall, Writers
<1>2. ~Busy(r) /\ r.gen <= nbuckets
  BY DEF Busy, Writers, BucketInv, BucketTypeOK
<1>3. FilesSame /\ BeginTransfer(c, r) /\ UNCHANGED <<nputs, notif, conf, storeLock>>
  BY DEF CopyObject, Lookup, FilesSame, bucketStore, objectFiles
<1>4. storeLock' \in Clients \cup {NoHolder}
  BY <1>3 DEF BucketInv, BucketTypeOK
<1>5. r \in AnyCall
  BY <1>1 DEF AnyCall
<1> HIDE DEF r
<1> QED BY <1>2, <1>3, <1>4, <1>5, BeginKeeps

LEMMA DeleteObjectsKeeps ==
  ASSUME BucketInv, NEW c \in Clients, NEW ks \in (SUBSET Objects) \ {{}}, DeleteObjects(c, ks)
  PROVE  BucketInv'
<1> DEFINE r == [op |-> "delete", pc |-> "lock", gen |-> bucket, keys |-> ks, found |-> AbsentFile]
<1>1. r \in DeleteCall
  BY BucketGeneration, Numbers DEF BucketInv, DeleteObjects, Lookup, DeleteCall
<1>2. ~Busy(r) /\ r.gen <= nbuckets
  BY DEF Busy, Writers, BucketInv, BucketTypeOK
<1>3. FilesSame /\ BeginTransfer(c, r) /\ UNCHANGED <<nputs, notif, conf, storeLock>>
  BY DEF DeleteObjects, Lookup, FilesSame, bucketStore, objectFiles
<1>4. storeLock' \in Clients \cup {NoHolder}
  BY <1>3 DEF BucketInv, BucketTypeOK
<1>5. r \in AnyCall
  BY <1>1 DEF AnyCall
<1> HIDE DEF r
<1> QED BY <1>2, <1>3, <1>4, <1>5, BeginKeeps

LEMMA DeleteBucketKeeps ==
  ASSUME BucketInv, NEW c \in Clients, DeleteBucket(c)
  PROVE  BucketInv'
<1> DEFINE r == [op |-> "rmdir", pc |-> "remove"]
<1>1. r \in OtherCall /\ r \in AnyCall
  BY DEF OtherCall, AnyCall
<1>2. ~Busy(r) /\ r.op \notin Writers \cup {"delete"}
  BY <1>1, CallShape
<1>3. FilesSame /\ BeginTransfer(c, r) /\ UNCHANGED <<nputs, notif, conf>> /\ storeLock' = c
  BY DEF DeleteBucket, FilesSame, objectFiles
<1> HIDE DEF r
<1> QED BY <1>1, <1>2, <1>3, BeginKeeps

LEMMA PutNotificationKeeps ==
  ASSUME BucketInv, NEW c \in Clients, NEW v \in Settings, PutBucketNotification(c, v)
  PROVE  BucketInv'
<1> DEFINE r == [op |-> "notify", pc |-> "memory", value |-> v]
<1>1. r \in OtherCall /\ r \in AnyCall
  BY DEF OtherCall, AnyCall
<1>2. ~Busy(r) /\ r.op \notin Writers \cup {"delete"}
  BY <1>1, CallShape
<1>3. FilesSame /\ BeginTransfer(c, r) /\ UNCHANGED <<nputs, notif, conf, storeLock>>
  BY DEF PutBucketNotification, Lookup, FilesSame, bucketStore, objectFiles
<1>4. storeLock' \in Clients \cup {NoHolder}
  BY <1>3 DEF BucketInv, BucketTypeOK
<1> HIDE DEF r
<1> QED BY <1>1, <1>2, <1>3, <1>4, BeginKeeps

LEMMA NotifyKeeps ==
  ASSUME BucketInv, NEW c \in Clients, NotifyMemory(c) \/ NotifyFile(c)
  PROVE  BucketInv'
<1> DEFINE t == transfer[c]
<1>1. t \in [op : {"notify"}, pc : {"memory", "file"}, value : Settings]
  BY CallTyped DEF BucketInv, AnyCall, PutCall, DeleteCall, OtherCall, NoTransfer, Writers,
                   NotifyMemory, NotifyFile
<1>2. FilesSame /\ UNCHANGED <<nputs, ntransfers, conf, storeLock>>
  BY DEF NotifyMemory, NotifyFile, FilesSame, objectFiles
<1>3. notif' \in [mem : Settings \cup {Unset}, file : Settings \cup {Unset}]
  BY <1>1 DEF BucketInv, BucketTypeOK, NotifyMemory, NotifyFile
<1>4. PICK r \in OtherCall : transfer' = [transfer EXCEPT ![c] = r]
  <2>1. CASE NotifyMemory(c)
    <3>1. [t EXCEPT !.pc = "file"] \in OtherCall
      BY <1>1 DEF OtherCall
    <3>2. transfer' = [transfer EXCEPT ![c] = [t EXCEPT !.pc = "file"]]
      BY <2>1 DEF NotifyMemory, TransferTo
    <3> QED BY <3>1, <3>2
  <2>2. CASE NotifyFile(c)
    BY <2>2 DEF NotifyFile, EndTransfer, OtherCall
  <2> QED BY <2>1, <2>2
<1>5. r \in AnyCall /\ t \in OtherCall /\ t \in AnyCall
  BY <1>1 DEF AnyCall, OtherCall
<1>6. ~Busy(t) /\ ~Busy(r) /\ r.op \notin Writers \cup {"delete"}
  BY <1>5, CallShape
<1>7. BucketTypeOK'
  BY <1>2, <1>3, <1>4, <1>5 DEF BucketInv, BucketTypeOK, FilesSame, AnyCall
<1> QED BY <1>2, <1>4, <1>5, <1>6, <1>7, QuietKeeps

(* The files and the calls stay as they are. *)
LEMMA ConfigKeeps ==
  ASSUME BucketInv, FilesSame, UNCHANGED transfer, BucketTypeOK'
  PROVE  BucketInv'
<1>1. Holders' /\ GoneWhenDeleted'
  BY DEF BucketInv, Holders, GoneWhenDeleted, FilesSame
<1>2. ExactInv'
  <2>1. Listed' = Listed /\ \A k : Stamped(k)' = Stamped(k)
    BY DEF Listed, Stamped, FilesSame
  <2>2. Matches(index[bucket])' = Matches(index[bucket])
    BY <2>1 DEF Matches, FilesSame
  <2>3. \A k \in Objects : Fits(k)' = Fits(k)
    BY DEF Fits, FilesSame
  <2>4. \A c \in Clients : Remembers(transfer[c])' = Remembers(transfer[c])
    BY DEF Remembers, FilesSame
  <2> QED BY <2>2, <2>3, <2>4 DEF BucketInv, ExactInv, FilesSame
<1> QED BY <1>1, <1>2 DEF BucketInv

LEMMA UpdateConfigKeeps ==
  ASSUME BucketInv, NEW v \in Settings, UpdateBucketConfig(v)
  PROVE  BucketInv'
<1>1. FilesSame /\ UNCHANGED <<transfer, storeLock, notif, nputs>>
  BY DEF UpdateBucketConfig, FilesSame, objectFiles
<1>2. conf' \in [mem : Settings \cup {Unset}, file : Settings \cup {Unset}] /\ ntransfers' \in Nat
  BY DEF UpdateBucketConfig, CountedCall, BucketInv, BucketTypeOK
<1>3. BucketTypeOK'
  BY <1>1, <1>2 DEF BucketInv, BucketTypeOK, FilesSame
<1> QED BY <1>1, <1>3, ConfigKeeps

LEMMA SameMatches ==
  ASSUME UNCHANGED <<bucket, objectMeta>>, index'[bucket] = index[bucket], Matches(index[bucket])
  PROVE  Matches(index[bucket])'
<1>1. Listed' = Listed /\ \A k : Stamped(k)' = Stamped(k)
  BY DEF Listed, Stamped
<1> QED BY <1>1 DEF Matches

(* The lock of c's bucket is taken or given up by c alone. *)
LEMMA LockKeepsHolders ==
  ASSUME BucketInv, NEW c \in Clients, NEW g \in Generations, NEW r \in AnyCall,
         lock[g] \in {NoHolder, c}, NEW l,
         lock' = [lock EXCEPT ![g] = l], nbuckets' = nbuckets,
         transfer' = [transfer EXCEPT ![c] = r],
         r.op \in Writers \cup {"delete"} => r.gen = g /\ g <= nbuckets,
         Busy(r) => l = c
  PROVE  Holders'
<1>1. transfer'[c] = r /\ \A d \in Clients \ {c} : transfer'[d] = transfer[d]
  BY DEF BucketInv, BucketTypeOK
<1>2. \A d \in Clients \ {c} : ~(Busy(transfer[d]) /\ transfer[d].gen = g)
  BY OthersIdle
<1>3. Busy(r) => r.op \in Writers \cup {"delete"}
  BY DEF Busy
<1>4. lock'[g] = l /\ \A h \in Generations \ {g} : lock'[h] = lock[h]
  BY DEF BucketInv, BucketTypeOK
<1>5. ASSUME NEW d \in Clients \ {c}, Busy(transfer[d]) PROVE lock'[transfer[d].gen] = d
  <2>1. transfer[d].gen \in Generations
    <3>1. transfer[d] \in AnyCall
      BY CallTyped DEF BucketInv
    <3> QED BY <1>5, <3>1, CallShape DEF Busy, PutCall, DeleteCall
  <2> QED BY <1>2, <1>4, <1>5, <2>1 DEF BucketInv, Holders
<1>6. ASSUME NEW d \in Clients PROVE Busy(transfer'[d]) => lock'[transfer'[d].gen] = d
  BY <1>1, <1>3, <1>4, <1>5
<1>7. ASSUME NEW d \in Clients
      PROVE  transfer'[d].op \in Writers \cup {"delete"} => transfer'[d].gen <= nbuckets
  BY <1>1 DEF BucketInv, Holders
<1> QED BY <1>6, <1>7 DEF Holders

(* Tear counts what is torn. *)
LEMMA TornCounts ==
  ASSUME BucketInv
  PROVE  torn \in Nat
BY DEF BucketInv, BucketTypeOK

LEMMA PutCreateKeeps ==
  ASSUME BucketInv, NEW c \in Clients, PutCreate(c)
  PROVE  BucketInv'
<1> DEFINE t == transfer[c]
           g == t.gen
<1>1. /\ t \in PutCall /\ t.op \in Writers /\ t.pc = "create" /\ lock[g] = NoHolder
      /\ g \in Generations /\ t.key \in Objects /\ g <= nbuckets
  BY CallTyped, CallShape DEF BucketInv, Holders, PutCreate, Writing, Writers, PutCall
<1>2. ~Busy(t)
  BY <1>1 DEF Busy, Writers
<1>3. CASE ~objectDir
  <2>1. FilesSame /\ transfer' = [transfer EXCEPT ![c] = NoTransfer]
    BY <1>3 DEF PutCreate, EndTransfer, FilesSame, bucketStore
  <2>2. NoTransfer \in AnyCall /\ NoTransfer \in OtherCall
    BY Numbers DEF OtherCall
  <2>3. ~Busy(NoTransfer) /\ NoTransfer.op \notin Writers \cup {"delete"}
    BY <2>2, CallShape
  <2>4. BucketTypeOK'
    BY <2>1, <2>2 DEF BucketInv, BucketTypeOK, FilesSame, AnyCall, PutCreate, bucketStore
  <2> QED BY <1>2, <2>1, <2>2, <2>3, <2>4, QuietKeeps
<1>4. CASE objectDir
  <2>1. /\ lock' = [lock EXCEPT ![g] = c]
        /\ transfer' = [transfer EXCEPT ![c] = [t EXCEPT !.pc = "copy", !.prev = body[t.key]]]
        /\ body' = [body EXCEPT ![t.key] = 0]
        /\ torn' \in Nat /\ (torn' = 0 => torn = 0 /\ g = bucket)
        /\ UNCHANGED <<bucket, nbuckets, objectDir, objectMeta, index, storeLock, notif, conf,
                       nputs, ntransfers>>
    <3>1. /\ lock' = [lock EXCEPT ![g] = c]
          /\ transfer' = [transfer EXCEPT ![c] = [t EXCEPT !.pc = "copy", !.prev = body[t.key]]]
          /\ body' = [body EXCEPT ![t.key] = 0]
          /\ UNCHANGED <<bucket, nbuckets, objectDir, objectMeta, index, storeLock, notif, conf,
                         nputs, ntransfers>>
      BY <1>4 DEF PutCreate, bucketStore
    <3>2. Tear(Stale(c))
      BY <1>4 DEF PutCreate
    <3>3. torn' \in Nat /\ (torn' = 0 => torn = 0 /\ g = bucket)
      BY <3>2, TornCounts DEF Tear, Stale
    <3> QED BY <3>1, <3>3
  <2>2. PICK r : r = [t EXCEPT !.pc = "copy", !.prev = body[t.key]]
    OBVIOUS
  <2>3. body[t.key] \in FileSize
    BY <1>1 DEF BucketInv, BucketTypeOK
  <2>4. /\ r \in PutCall /\ r.op = t.op /\ r.pc = "copy" /\ r.gen = g /\ r.key = t.key
        /\ r.prev = body[t.key]
    BY <1>1, <2>2, <2>3 DEF PutCall
  <2>5. transfer' = [transfer EXCEPT ![c] = r]
    BY <2>1, <2>2
  <2>6. r \in AnyCall
    BY <2>4 DEF AnyCall
  <2>7. BucketTypeOK'
    BY <2>1, <2>5, <2>6, Numbers DEF BucketInv, BucketTypeOK, AnyCall
  <2>8. Holders'
    BY <1>1, <2>1, <2>4, <2>5, <2>6, LockKeepsHolders
  <2>9. GoneWhenDeleted'
    BY <1>4, <2>1 DEF BucketInv, GoneWhenDeleted
  <2>10. ExactInv'
    <3>1. SUFFICES ASSUME bucket # 0, torn = 0, g = bucket PROVE ExactInv'
      BY <2>1 DEF ExactInv
    <3>2. \A k \in Objects : body[k] = objectMeta[k].size
      BY <1>1, <1>2, <3>1, AllFit
    <3>3. Matches(index[bucket])'
      BY <2>1, <3>1, SameMatches DEF BucketInv, ExactInv
    <3>4. r.op # "delete" /\ Busy(r) /\ Object(r) = t.key
      BY <1>1, <2>4 DEF Busy, Object, Writers
    <3>5. Remembers(r)'
      BY <1>1, <2>1, <2>4, <3>1, <3>2, <3>4 DEF Remembers
    <3>6. \A k \in Objects \ {t.key} : body'[k] = objectMeta'[k].size
      BY <2>1, <3>2 DEF BucketInv, BucketTypeOK
    <3> QED BY <1>1, <2>1, <2>4, <2>5, <3>1, <3>3, <3>4, <3>5, <3>6, WorkKeepsExact
  <2> QED BY <2>7, <2>8, <2>9, <2>10 DEF BucketInv
<1> QED BY <1>3, <1>4

LEMMA PutCopyKeeps ==
  ASSUME BucketInv, NEW c \in Clients, PutCopy(c)
  PROVE  BucketInv'
<1> DEFINE t == transfer[c]
           g == t.gen
           k == t.key
           n == CopiedSize(c)
<1>1. /\ t \in PutCall /\ t.op \in Writers /\ t.op # "delete" /\ t.pc = "copy"
      /\ g \in Generations /\ k \in Objects /\ g <= nbuckets
      /\ t.src \in Objects /\ t.size \in Nat /\ t.linked \in BOOLEAN /\ t.prev \in FileSize
  BY CallTyped, CallShape DEF BucketInv, Holders, PutCopy, Writing, Writers, PutCall
<1>2. Busy(t) /\ Object(t) = k /\ (Linked(t) <=> t.linked)
  BY <1>1 DEF Busy, Object, Linked
<1>3. lock[g] = c
  BY <1>2 DEF BucketInv, Holders
<1>4. n \in Nat
  BY <1>1 DEF CopiedSize, BucketInv, BucketTypeOK, FileSize
<1>5. UNCHANGED <<bucket, nbuckets, objectDir, objectMeta, index, storeLock, notif, conf, nputs,
                  ntransfers>>
  BY DEF PutCopy, bucketStore
<1>6. ASSUME bucket # 0, torn = 0, g = bucket
      PROVE  /\ \A j \in Objects \ {k} : body[j] = objectMeta[j].size
             /\ t.prev = objectMeta[k].size /\ lock[bucket] \in {NoHolder, c}
  BY <1>1, <1>2, <1>3, <1>6, AllFit DEF Remembers
<1>7. CASE /\ body' = IF t.linked /\ body[k] # AbsentFile THEN [body EXCEPT ![k] = n] ELSE body
           /\ transfer' = [transfer EXCEPT ![c] = [t EXCEPT !.pc = "meta", !.size = n]]
           /\ UNCHANGED <<lock, torn>>
  <2>1. PICK r : r = [t EXCEPT !.pc = "meta", !.size = n]
    OBVIOUS
  <2>2. /\ r \in PutCall /\ r.op = t.op /\ r.pc = "meta" /\ r.gen = g /\ r.key = k
        /\ r.prev = t.prev /\ r.size = n /\ r.linked = t.linked
    BY <1>1, <1>4, <2>1 DEF PutCall
  <2>3. transfer' = [transfer EXCEPT ![c] = r]
    BY <1>7, <2>1
  <2>4. r \in AnyCall
    BY <2>2 DEF AnyCall
  <2>5. ~Linked(r) /\ Busy(r) /\ Object(r) = k
    BY <1>1, <2>2 DEF Linked, Busy, Object
  <2> HIDE DEF n
  <2>6. body' \in [Objects -> FileSize]
    BY <1>4, <1>7 DEF BucketInv, BucketTypeOK, FileSize
  <2>7. BucketTypeOK'
    BY <1>5, <1>7, <2>3, <2>4, <2>6 DEF BucketInv, BucketTypeOK, AnyCall
  <2>8. Holders'
    <3>1. lock' = [lock EXCEPT ![g] = c]
      BY <1>3, <1>7 DEF BucketInv, BucketTypeOK
    <3> QED BY <1>1, <1>3, <1>5, <2>2, <2>3, <2>4, <3>1, LockKeepsHolders
  <2>9. GoneWhenDeleted'
    <3>1. bucket = 0 => ~t.linked
      BY <1>2 DEF BucketInv, GoneWhenDeleted
    <3>2. \A d \in Clients : Linked(transfer'[d]) => Linked(transfer[d])
      BY <2>3, <2>5 DEF BucketInv, BucketTypeOK
    <3> QED BY <1>5, <1>7, <3>1, <3>2 DEF BucketInv, GoneWhenDeleted
  <2>10. ExactInv'
    <3>1. SUFFICES ASSUME bucket # 0, torn = 0 PROVE ExactInv'
      BY <1>5, <1>7 DEF ExactInv
    <3>2. Matches(index[bucket])'
      BY <1>5, <3>1, SameMatches DEF BucketInv, ExactInv
    <3>3. CASE g = bucket
      <4>1. Remembers(r)'
        BY <1>1, <1>5, <1>6, <1>7, <2>2, <2>5, <3>1, <3>3 DEF Remembers, BucketInv, BucketTypeOK
      <4>2. \A j \in Objects \ {k} : body'[j] = objectMeta'[j].size
        BY <1>5, <1>6, <1>7, <3>1, <3>3 DEF BucketInv, BucketTypeOK
      <4> QED BY <1>5, <1>6, <2>2, <2>3, <2>5, <3>1, <3>2, <3>3, <4>1, <4>2, WorkKeepsExact
    <3>4. CASE g # bucket
      <4>1. ~t.linked
        BY <1>2, <3>1, <3>4 DEF BucketInv, ExactInv, Remembers
      <4>2. body' = body
        BY <1>7, <4>1
      <4>3. transfer'[c] = r /\ \A d \in Clients \ {c} : transfer'[d] = transfer[d]
        BY <2>3 DEF BucketInv, BucketTypeOK
      <4>4. \A j \in Objects : Fits(j)'
        BY <1>5, <2>2, <3>1, <3>4, <4>2, <4>3 DEF BucketInv, ExactInv, Fits
      <4>5. Remembers(r)'
        BY <1>5, <2>2, <2>5, <3>4 DEF Remembers
      <4>6. \A d \in Clients \ {c} : Remembers(transfer[d])'
        BY <1>5, <3>1, <4>2, <4>3 DEF BucketInv, ExactInv, Remembers
      <4> QED BY <3>2, <4>3, <4>4, <4>5, <4>6 DEF ExactInv
    <3> QED BY <3>3, <3>4
  <2> QED BY <2>7, <2>8, <2>9, <2>10 DEF BucketInv
<1>8. CASE /\ body' = [body EXCEPT ![k] = AbsentFile]
           /\ torn' \in Nat /\ (torn' = 0 => torn = 0 /\ objectMeta[k] = NoMeta /\ g = bucket)
           /\ transfer' = [transfer EXCEPT ![c] = NoTransfer]
           /\ lock' = [lock EXCEPT ![g] = NoHolder]
  <2>1. NoTransfer \in AnyCall /\ NoTransfer \in OtherCall
    BY Numbers DEF OtherCall
  <2>2. ~Busy(NoTransfer) /\ ~Linked(NoTransfer) /\ NoTransfer.op \notin Writers \cup {"delete"}
    BY <2>1, CallShape
  <2>3. BucketTypeOK'
    BY <1>5, <1>8, <2>1, Numbers DEF BucketInv, BucketTypeOK, AnyCall
  <2>4. Holders'
    BY <1>1, <1>3, <1>5, <1>8, <2>1, <2>2, LockKeepsHolders
  <2>5. GoneWhenDeleted'
    <3>1. \A d \in Clients : Linked(transfer'[d]) => Linked(transfer[d])
      BY <1>8, <2>2 DEF BucketInv, BucketTypeOK
    <3> QED BY <1>5, <1>8, <3>1 DEF BucketInv, GoneWhenDeleted, BucketTypeOK
  <2>6. ExactInv'
    <3>1. SUFFICES ASSUME bucket # 0, torn = 0, g = bucket, objectMeta[k] = NoMeta PROVE ExactInv'
      BY <1>5, <1>8 DEF ExactInv
    <3>2. Matches(index[bucket])'
      BY <1>5, <3>1, SameMatches DEF BucketInv, ExactInv
    <3>3. Remembers(NoTransfer)'
      BY <2>2 DEF Remembers, Busy
    <3>4. \A j \in Objects : body'[j] = objectMeta'[j].size
      BY <1>5, <1>6, <1>8, <3>1 DEF BucketInv, BucketTypeOK, NoMeta
    <3> QED BY <1>5, <1>6, <1>8, <3>1, <3>2, <3>3, <3>4, WorkKeepsExact
  <2> QED BY <2>3, <2>4, <2>5, <2>6 DEF BucketInv
<1>9. CASE /\ body' = [body EXCEPT ![k] = AbsentFile]
           /\ Tear(objectMeta[k] # NoMeta \/ Stale(c))
           /\ EndTransfer(c) /\ UnlockBucket(c)
  <2>1. torn' \in Nat /\ (torn' = 0 => torn = 0 /\ objectMeta[k] = NoMeta /\ g = bucket)
    BY <1>9, TornCounts DEF Tear, Stale
  <2> QED BY <1>8, <1>9, <2>1 DEF EndTransfer, UnlockBucket
<1> QED BY <1>7, <1>9 DEF PutCopy

LEMMA SizingAdd ==
  ASSUME NEW m, NEW n, NEW z \in SUBSET Objects, NEW k \in Objects, k \notin z,
         \A j \in z : n[j] = m[j], \A j \in Objects : n[j].size \in Int
  PROVE  Sizing(n, z \cup {k}) = n[k].size + Sizing(m, z)
<1>1. z \cup {k} \in SUBSET Objects /\ (z \cup {k}) \ {k} = z
  OBVIOUS
<1>2. Sizing(n, z \cup {k}) = n[k].size + Sizing(n, (z \cup {k}) \ {k})
  BY <1>1, SizingRemove
<1>3. Sizing(n, z) = Sizing(m, z)
  BY SizingSame
<1> QED BY <1>1, <1>2, <1>3

(* The metadata of one object change, and the index with them. *)
LEMMA ListedGrows ==
  ASSUME BucketTypeOK, NEW k \in Objects, NEW e \in Stamp, e # NoMeta,
         objectMeta' = [objectMeta EXCEPT ![k] = e], Matches(index[bucket]),
         NEW ix, ix = RecordObject(index[bucket], objectMeta[k].size, [key |-> k, at |-> e.at], e.size)
  PROVE  /\ ix.count = Cardinality(Listed')
         /\ ix.total = Sizing(objectMeta', Listed')
         /\ ix.recent \subseteq {Stamped(j)' : j \in Listed'}
<1> DEFINE rest == Listed \ {k}
<1>1. /\ Listed \in SUBSET Objects /\ rest \in SUBSET Objects /\ k \notin rest
      /\ objectMeta[k] \in Stamp /\ objectMeta'[k] = e
      /\ \A j \in Objects \ {k} : objectMeta'[j] = objectMeta[j]
  BY DEF Listed, BucketTypeOK
<1>2. Listed' = rest \cup {k}
  BY <1>1 DEF Listed
<1>3. \A j \in Objects : objectMeta[j].size \in Int /\ objectMeta'[j].size \in Int
  BY <1>1, MetaSizes, StampShape
<1>5. Sizing(objectMeta', Listed') = e.size + Sizing(objectMeta, rest)
  <2>1. PICK n : n = objectMeta'
    OBVIOUS
  <2>2. /\ \A j \in rest : n[j] = objectMeta[j]
        /\ \A j \in Objects : n[j].size \in Int
        /\ n[k].size = e.size
    BY <1>1, <1>3, <2>1
  <2> HIDE DEF rest
  <2>3. Sizing(n, rest \cup {k}) = n[k].size + Sizing(objectMeta, rest)
    BY <1>1, <2>2, SizingAdd
  <2>4. Sizing(n, Listed') = e.size + Sizing(objectMeta, rest)
    BY <1>2, <2>2, <2>3
  <2> QED BY <2>1, <2>4, Zenon
<1>6. Sizing(objectMeta, rest) \in Int /\ Cardinality(rest) \in Nat /\ e.size \in Int
  BY <1>1, <1>3, SizingInt, ObjectSets, StampShape
<1>7. Cardinality(Listed') = Cardinality(rest) + 1
  BY <1>1, <1>2, ObjectSets
<1>8. /\ ix.count = IF objectMeta[k].size = AbsentFile THEN index[bucket].count + 1
                    ELSE index[bucket].count
      /\ ix.total = index[bucket].total + e.size
                      - (IF objectMeta[k].size = AbsentFile THEN 0 ELSE objectMeta[k].size)
      /\ ix.recent \subseteq {f \in index[bucket].recent : f.key # k} \cup {[key |-> k, at |-> e.at]}
  BY DEF RecordObject, Newest
<1>9. ix.recent \subseteq {Stamped(j)' : j \in Listed'}
  <2>1. ASSUME NEW f \in index[bucket].recent, f.key # k
        PROVE  \E j \in Listed' : f = Stamped(j)'
    <3>1. PICK j \in Listed : f = Stamped(j)
      BY DEF Matches
    <3>2. j # k /\ j \in Listed' /\ Stamped(j)' = Stamped(j)
      BY <1>1, <1>2, <2>1, <3>1 DEF Stamped
    <3> QED BY <3>1, <3>2
  <2>2. k \in Listed' /\ [key |-> k, at |-> e.at] = Stamped(k)'
    BY <1>1, <1>2 DEF Stamped
  <2> QED BY <1>8, <2>1, <2>2
<1>10. CASE objectMeta[k] = NoMeta
  <2>1. objectMeta[k].size = AbsentFile /\ Listed = rest
    BY <1>10 DEF NoMeta, Listed
  <2>2. index[bucket].count = Cardinality(rest) /\ index[bucket].total = Sizing(objectMeta, rest)
    BY <2>1 DEF Matches
  <2> QED BY <1>5, <1>6, <1>7, <1>8, <1>9, <2>1, <2>2
<1>11. CASE objectMeta[k] # NoMeta
  <2>1. objectMeta[k].size # AbsentFile /\ k \in Listed
    BY <1>1, <1>11, StampShape DEF Listed
  <2>2. Cardinality(rest) = Cardinality(Listed) - 1
    BY <1>1, <2>1, ObjectSets
  <2>3. Sizing(objectMeta, Listed) = objectMeta[k].size + Sizing(objectMeta, rest)
    BY <1>1, <1>3, <2>1, SizingRemove
  <2>4. Cardinality(Listed) \in Nat /\ objectMeta[k].size \in Int
    BY <1>1, <1>3, ObjectSets
  <2>5. index[bucket].count = Cardinality(Listed) /\ index[bucket].total = Sizing(objectMeta, Listed)
    BY DEF Matches
  <2>6. ix.count = Cardinality(Listed')
    BY <1>7, <1>8, <2>1, <2>2, <2>4, <2>5
  <2>7. ix.total = Sizing(objectMeta', Listed')
    BY <1>5, <1>6, <1>8, <2>1, <2>3, <2>4, <2>5
  <2> QED BY <1>9, <2>6, <2>7
<1> QED BY <1>10, <1>11

LEMMA ListedShrinks ==
  ASSUME BucketTypeOK, NEW k \in Objects,
         objectMeta' = [objectMeta EXCEPT ![k] = NoMeta], Matches(index[bucket]),
         NEW ix, ix = ForgetObject(index[bucket], k, objectMeta[k].size)
  PROVE  /\ ix.count = Cardinality(Listed')
         /\ ix.total = Sizing(objectMeta', Listed')
         /\ ix.recent \subseteq {Stamped(j)' : j \in Listed'}
<1> DEFINE rest == Listed \ {k}
<1>1. /\ Listed \in SUBSET Objects /\ rest \in SUBSET Objects
      /\ objectMeta[k] \in Stamp /\ objectMeta'[k] = NoMeta
      /\ \A j \in Objects \ {k} : objectMeta'[j] = objectMeta[j]
  BY DEF Listed, BucketTypeOK
<1>2. Listed' = rest
  BY <1>1 DEF Listed
<1>3. \A j \in Objects : objectMeta[j].size \in Int
  BY MetaSizes
<1>4. Sizing(objectMeta', Listed') = Sizing(objectMeta, rest)
  <2>1. \A j \in rest : objectMeta'[j] = objectMeta[j]
    BY <1>1
  <2> HIDE DEF rest
  <2>2. Sizing(objectMeta', rest) = Sizing(objectMeta, rest)
    BY <1>1, <2>1, SizingSame, Zenon
  <2> QED BY <1>2, <2>2
<1>5. \A j \in rest : Stamped(j)' = Stamped(j)
  BY <1>1 DEF Stamped
<1>6. CASE objectMeta[k] = NoMeta
  <2>1. objectMeta[k].size = AbsentFile /\ Listed = rest
    BY <1>6 DEF NoMeta, Listed
  <2>2. ix = index[bucket]
    BY <2>1 DEF ForgetObject
  <2> QED BY <1>2, <1>4, <1>5, <2>1, <2>2 DEF Matches
<1>7. CASE objectMeta[k] # NoMeta
  <2>1. objectMeta[k].size # AbsentFile /\ k \in Listed
    BY <1>1, <1>7, StampShape DEF Listed
  <2>2. Cardinality(rest) = Cardinality(Listed) - 1
    BY <1>1, <2>1, ObjectSets
  <2>3. Sizing(objectMeta, Listed) = objectMeta[k].size + Sizing(objectMeta, rest)
    BY <1>1, <1>3, <2>1, SizingRemove
  <2>4. Sizing(objectMeta, rest) \in Int /\ objectMeta[k].size \in Int
    BY <1>1, <1>3, SizingInt
  <2>5. /\ ix.count = index[bucket].count - 1 /\ ix.total = index[bucket].total - objectMeta[k].size
        /\ ix.recent = {f \in index[bucket].recent : f.key # k}
    BY <2>1 DEF ForgetObject
  <2>6. ASSUME NEW f \in index[bucket].recent, f.key # k
        PROVE  \E j \in rest : f = Stamped(j)'
    <3>1. PICK j \in Listed : f = Stamped(j)
      BY DEF Matches
    <3>2. j \in rest
      BY <2>6, <3>1 DEF Stamped
    <3> QED BY <1>5, <3>1, <3>2
  <2>7. ix.count = Cardinality(Listed')
    BY <1>2, <2>2, <2>5 DEF Matches
  <2>8. ix.total = Sizing(objectMeta', Listed')
    <3>1. index[bucket].total = Sizing(objectMeta, Listed)
      BY DEF Matches
    <3> QED BY <1>4, <2>3, <2>4, <2>5, <3>1
  <2> QED BY <1>2, <2>5, <2>6, <2>7, <2>8
<1> QED BY <1>6, <1>7

IndexRecord == [count : Int, total : Int, recent : SUBSET [key : Objects, at : Nat]]

LEMMA RecordTyped ==
  ASSUME NEW ix \in IndexRecord, NEW prev \in FileSize, NEW k \in Objects, NEW now \in Nat,
         NEW size \in Nat
  PROVE  RecordObject(ix, prev, [key |-> k, at |-> now], size) \in IndexRecord
<1>1. prev \in Int
  BY Numbers DEF FileSize
<1>2. Newest({e \in ix.recent : e.key # k} \cup {[key |-> k, at |-> now]})
        \subseteq {e \in ix.recent : e.key # k} \cup {[key |-> k, at |-> now]}
  BY DEF Newest
<1>3. Newest({e \in ix.recent : e.key # k} \cup {[key |-> k, at |-> now]})
        \in SUBSET [key : Objects, at : Nat]
  BY <1>2 DEF IndexRecord
<1>4. /\ IF prev = AbsentFile THEN ix.count + 1 \in Int ELSE ix.count \in Int
      /\ ix.total + size - (IF prev = AbsentFile THEN 0 ELSE prev) \in Int
  BY <1>1 DEF IndexRecord
<1> QED BY <1>3, <1>4 DEF RecordObject, IndexRecord

LEMMA ForgetTyped ==
  ASSUME NEW ix \in IndexRecord, NEW k \in Objects, NEW size \in FileSize
  PROVE  ForgetObject(ix, k, size) \in IndexRecord
<1>1. size \in Int
  BY Numbers DEF FileSize
<1> QED BY <1>1 DEF ForgetObject, IndexRecord

LEMMA PutMetaKeeps ==
  ASSUME BucketInv, NEW c \in Clients, PutMeta(c)
  PROVE  BucketInv'
<1> DEFINE t == transfer[c]
           g == t.gen
           k == t.key
           now == nputs + 1
<1>1. /\ t \in PutCall /\ t.op \in Writers /\ t.op # "delete" /\ t.pc = "meta"
      /\ g \in Generations /\ k \in Objects /\ g <= nbuckets
      /\ t.size \in Nat /\ t.linked \in BOOLEAN /\ t.prev \in FileSize
  BY CallTyped, CallShape DEF BucketInv, Holders, PutMeta, Writing, Writers, PutCall
<1>2. Busy(t) /\ Object(t) = k /\ ~Linked(t)
  BY <1>1 DEF Busy, Object, Linked
<1>3. lock[g] = c
  BY <1>2 DEF BucketInv, Holders
<1>4. /\ UNCHANGED <<bucket, nbuckets, objectDir, storeLock, notif, conf, ntransfers>>
      /\ transfer' = [transfer EXCEPT ![c] = NoTransfer]
      /\ lock' = [lock EXCEPT ![g] = NoHolder]
  BY DEF PutMeta, bucketStore, EndTransfer, UnlockBucket
<1>5. NoTransfer \in AnyCall /\ NoTransfer \in OtherCall
  BY Numbers DEF OtherCall
<1>6. ~Busy(NoTransfer) /\ ~Linked(NoTransfer) /\ NoTransfer.op \notin Writers \cup {"delete"}
  BY <1>5, CallShape
<1>7. Holders'
  BY <1>1, <1>3, <1>4, <1>5, <1>6, LockKeepsHolders
<1>8. \A d \in Clients : Linked(transfer'[d]) => Linked(transfer[d])
  BY <1>4, <1>6 DEF BucketInv, BucketTypeOK
<1>9. Remembers(NoTransfer)'
  BY <1>6 DEF Remembers, Busy
<1>10. ASSUME bucket # 0, torn = 0, g = bucket
       PROVE  /\ \A j \in Objects \ {k} : body[j] = objectMeta[j].size
              /\ t.prev = objectMeta[k].size /\ lock[bucket] \in {NoHolder, c}
  BY <1>1, <1>2, <1>3, <1>10, AllFit DEF Remembers
<1>11. CASE /\ objectDir /\ nputs' = now
            /\ objectMeta' = [objectMeta EXCEPT ![k] = [size |-> t.size, at |-> now]]
            /\ index' = [index EXCEPT ![g] =
                           RecordObject(@, t.prev, [key |-> k, at |-> now], t.size)]
            /\ torn' \in Nat /\ (torn' = 0 => torn = 0 /\ g = bucket /\ body[k] = t.size)
            /\ UNCHANGED body
  <2>1. now \in Nat
    BY DEF BucketInv, BucketTypeOK
  <2> HIDE DEF now
  <2>2. PICK e : e = [size |-> t.size, at |-> now]
    OBVIOUS
  <2>3. e \in Stamp /\ e # NoMeta /\ e.size = t.size /\ e.at = now
    BY <1>1, <2>1, <2>2, Numbers DEF Stamp, NoMeta
  <2>4. index[g] \in IndexRecord /\ index \in [Generations -> IndexRecord]
    BY <1>1 DEF BucketInv, BucketTypeOK, IndexRecord
  <2>5. index' = [index EXCEPT ![g] = RecordObject(index[g], t.prev, [key |-> k, at |-> now], t.size)]
    BY <1>11, <2>4
  <2>6. index' \in [Generations -> IndexRecord]
    <3>1. RecordObject(index[g], t.prev, [key |-> k, at |-> now], t.size) \in IndexRecord
      BY <1>1, <2>1, <2>4, RecordTyped
    <3> QED BY <2>4, <2>5, <3>1
  <2>7. BucketTypeOK'
    BY <1>4, <1>5, <1>11, <2>1, <2>2, <2>3, <2>6 DEF BucketInv, BucketTypeOK, AnyCall, IndexRecord
  <2>8. GoneWhenDeleted'
    <3>1. \A h \in Generations : h > nbuckets => index'[h] = index[h]
      BY <1>1, <2>4, <2>5 DEF BucketInv, BucketTypeOK, Generations
    <3> QED BY <1>4, <1>11, <3>1 DEF BucketInv, GoneWhenDeleted
  <2>9. ExactInv'
    <3>1. SUFFICES ASSUME bucket # 0, torn = 0, g = bucket, body[k] = t.size PROVE ExactInv'
      BY <1>4, <1>11 DEF ExactInv
    <3>2. objectMeta' = [objectMeta EXCEPT ![k] = e]
      BY <1>11, <2>2
    <3>3. PICK ix : ix = RecordObject(index[bucket], objectMeta[k].size, [key |-> k, at |-> e.at], e.size)
      OBVIOUS
    <3>4. BucketTypeOK /\ Matches(index[bucket])
      BY <3>1 DEF BucketInv, ExactInv
    <3>5. /\ ix.count = Cardinality(Listed')
          /\ ix.total = Sizing(objectMeta', Listed')
          /\ ix.recent \subseteq {Stamped(j)' : j \in Listed'}
      BY <1>1, <2>3, <3>2, <3>3, <3>4, ListedGrows
    <3>6. index'[bucket'] = ix
      BY <1>1, <1>4, <1>10, <2>3, <2>4, <2>5, <3>1, <3>3
    <3>7. Matches(index[bucket])'
      BY <3>5, <3>6 DEF Matches
    <3>8. \A j \in Objects : body'[j] = objectMeta'[j].size
      <4>1. body'[k] = objectMeta'[k].size
        BY <1>1, <1>10, <1>11, <2>3, <3>1, <3>2 DEF BucketInv, BucketTypeOK
      <4>2. \A j \in Objects \ {k} : body'[j] = objectMeta'[j].size
        BY <1>10, <1>11, <3>1, <3>2 DEF BucketInv, BucketTypeOK
      <4> QED BY <4>1, <4>2
    <3> QED BY <1>4, <1>9, <1>10, <3>1, <3>7, <3>8, WorkKeepsExact
  <2> QED BY <1>7, <2>7, <2>8, <2>9 DEF BucketInv
<1>12. CASE /\ body' = [body EXCEPT ![k] = AbsentFile]
            /\ \E left \in {objectMeta[k], NoMeta} : objectMeta' = [objectMeta EXCEPT ![k] = left]
            /\ torn' \in Nat /\ (torn' = 0 => torn = 0 /\ objectMeta[k] = NoMeta /\ g = bucket)
            /\ UNCHANGED <<index, nputs>>
  <2>1. PICK left \in {objectMeta[k], NoMeta} : objectMeta' = [objectMeta EXCEPT ![k] = left]
    BY <1>12
  <2>2. left \in Stamp
    BY <1>1, Numbers DEF BucketInv, BucketTypeOK
  <2>3. BucketTypeOK'
    BY <1>4, <1>5, <1>12, <2>1, <2>2, Numbers DEF BucketInv, BucketTypeOK, AnyCall
  <2>4. GoneWhenDeleted'
    BY <1>1, <1>4, <1>8, <1>12, <2>1 DEF BucketInv, GoneWhenDeleted, BucketTypeOK
  <2>5. ExactInv'
    <3>1. SUFFICES ASSUME bucket # 0, torn = 0, g = bucket, objectMeta[k] = NoMeta PROVE ExactInv'
      BY <1>4, <1>12 DEF ExactInv
    <3>2. objectMeta' = objectMeta
      BY <2>1, <3>1 DEF BucketInv, BucketTypeOK
    <3>3. Matches(index[bucket])'
      BY <1>4, <1>12, <3>1, <3>2, SameMatches DEF BucketInv, ExactInv
    <3>4. \A j \in Objects : body'[j] = objectMeta'[j].size
      BY <1>10, <1>12, <3>1, <3>2 DEF BucketInv, BucketTypeOK, NoMeta
    <3> QED BY <1>4, <1>9, <1>10, <3>1, <3>3, <3>4, WorkKeepsExact
  <2> QED BY <1>7, <2>3, <2>4, <2>5 DEF BucketInv
<1> QED BY <1>11, <1>12, TornCounts DEF PutMeta, Tear, Stale

LEMMA DeleteBodyKeeps ==
  ASSUME BucketInv, NEW c \in Clients, DeleteBody(c)
  PROVE  BucketInv'
<1> DEFINE t == transfer[c]
           g == t.gen
           k == First(t.keys)
<1>1. /\ t \in DeleteCall /\ t.op = "delete" /\ t.pc = "lock" /\ lock[g] \in {NoHolder, c}
      /\ g \in Generations /\ t.keys \in SUBSET Objects /\ t.keys # {} /\ g <= nbuckets
  BY CallTyped, CallShape DEF BucketInv, Holders, DeleteBody, Deleting, DeleteCall
<1>2. k \in Objects /\ ~Busy(t)
  BY <1>1, FirstInside DEF Busy, Writers
<1>3. /\ body' = [body EXCEPT ![k] = AbsentFile]
      /\ transfer' = [transfer EXCEPT ![c] = [t EXCEPT !.pc = "meta", !.found = ObjectSize(k)]]
      /\ lock' = [lock EXCEPT ![g] = c]
      /\ torn' \in Nat /\ (torn' = 0 => torn = 0 /\ g = bucket)
      /\ UNCHANGED <<bucket, nbuckets, objectDir, objectMeta, index, storeLock, notif, conf,
                     nputs, ntransfers>>
  <2>1. /\ body' = [body EXCEPT ![k] = AbsentFile]
        /\ transfer' = [transfer EXCEPT ![c] = [t EXCEPT !.pc = "meta", !.found = ObjectSize(k)]]
        /\ lock' = [lock EXCEPT ![g] = c]
        /\ UNCHANGED <<bucket, nbuckets, objectDir, objectMeta, index, storeLock, notif, conf,
                       nputs, ntransfers>>
    BY DEF DeleteBody, bucketStore, First
  <2>2. Tear(Stale(c))
    BY DEF DeleteBody
  <2>3. torn' \in Nat /\ (torn' = 0 => torn = 0 /\ g = bucket)
    BY <2>2, TornCounts DEF Tear, Stale
  <2> QED BY <2>1, <2>3
<1>4. ObjectSize(k) \in FileSize
  <2>1. objectMeta[k] \in Stamp /\ body[k] \in FileSize
    BY <1>2 DEF BucketInv, BucketTypeOK
  <2> QED BY <2>1, StampShape DEF ObjectSize
<1>5. PICK r : r = [t EXCEPT !.pc = "meta", !.found = ObjectSize(k)]
  OBVIOUS
<1>6. /\ r \in DeleteCall /\ r.op = "delete" /\ r.pc = "meta" /\ r.gen = g /\ r.keys = t.keys
      /\ r.found = ObjectSize(k)
  BY <1>1, <1>4, <1>5 DEF DeleteCall
<1>7. transfer' = [transfer EXCEPT ![c] = r] /\ r \in AnyCall
  BY <1>3, <1>5, <1>6 DEF AnyCall
<1>8. Busy(r) /\ ~Linked(r) /\ Object(r) = k /\ r.op \notin Writers
  BY <1>6 DEF Busy, Linked, Object, Writers
<1> HIDE DEF k
<1>9. BucketTypeOK'
  BY <1>2, <1>3, <1>7, Numbers DEF BucketInv, BucketTypeOK, AnyCall
<1>10. Holders'
  BY <1>1, <1>3, <1>6, <1>7, LockKeepsHolders
<1>11. GoneWhenDeleted'
  <2>1. \A d \in Clients : Linked(transfer'[d]) => Linked(transfer[d])
    BY <1>7, <1>8 DEF BucketInv, BucketTypeOK
  <2> QED BY <1>2, <1>3, <2>1 DEF BucketInv, GoneWhenDeleted, BucketTypeOK
<1>12. ExactInv'
  <2>1. SUFFICES ASSUME bucket # 0, torn = 0, g = bucket PROVE ExactInv'
    BY <1>3 DEF ExactInv
  <2>2. \A j \in Objects : body[j] = objectMeta[j].size
    BY <1>1, <1>2, <2>1, AllFit
  <2>3. Matches(index[bucket])'
    BY <1>3, <2>1, SameMatches DEF BucketInv, ExactInv
  <2>4. ObjectSize(k) = objectMeta[k].size
    BY <1>2, <2>2 DEF ObjectSize
  <2>5. Remembers(r)'
    BY <1>2, <1>3, <1>6, <1>8, <2>1, <2>4 DEF Remembers, BucketInv, BucketTypeOK
  <2>6. \A j \in Objects \ {k} : body'[j] = objectMeta'[j].size
    BY <1>3, <2>2 DEF BucketInv, BucketTypeOK
  <2> QED BY <1>1, <1>3, <1>6, <1>7, <1>8, <2>1, <2>3, <2>5, <2>6, WorkKeepsExact
<1> QED BY <1>9, <1>10, <1>11, <1>12 DEF BucketInv

LEMMA DeleteMetaKeeps ==
  ASSUME BucketInv, NEW c \in Clients, DeleteMeta(c)
  PROVE  BucketInv'
<1> DEFINE t == transfer[c]
           g == t.gen
           k == First(t.keys)
           rest == t.keys \ {k}
<1>1. /\ t \in DeleteCall /\ t.op = "delete" /\ t.pc = "meta" /\ t.found \in FileSize
      /\ g \in Generations /\ t.keys \in SUBSET Objects /\ t.keys # {} /\ g <= nbuckets
  <2>1. t.op = "delete" /\ t.pc = "meta"
    BY DEF DeleteMeta, Deleting
  <2>2. t \in DeleteCall
    BY <2>1, CallTyped, CallShape DEF BucketInv
  <2> QED BY <2>1, <2>2 DEF BucketInv, Holders, DeleteCall
<1>2. k \in Objects /\ Busy(t) /\ Object(t) = k
  BY <1>1, FirstInside DEF Busy, Object
<1>3. lock[g] = c
  BY <1>2 DEF BucketInv, Holders
<1>4. /\ objectMeta' = [objectMeta EXCEPT ![k] = NoMeta]
      /\ index' = [index EXCEPT ![g] = ForgetObject(index[g], k, t.found)]
      /\ torn' \in Nat /\ (torn' = 0 => torn = 0 /\ g = bucket)
      /\ UNCHANGED <<bucket, nbuckets, objectDir, body, storeLock, notif, conf, nputs, ntransfers>>
  BY <1>1 DEF DeleteMeta, bucketStore, First, Tear, Stale, BucketInv, BucketTypeOK
<1>5. \E r \in AnyCall, l \in {NoHolder, c} :
        /\ transfer' = [transfer EXCEPT ![c] = r] /\ lock' = [lock EXCEPT ![g] = l]
        /\ ~Busy(r) /\ ~Linked(r)
        /\ r.op \in Writers \cup {"delete"} => r.gen = g
  <2>1. CASE rest = {}
    <3>1. transfer' = [transfer EXCEPT ![c] = NoTransfer] /\ lock' = [lock EXCEPT ![g] = NoHolder]
      BY <2>1 DEF DeleteMeta, EndTransfer, UnlockBucket, First
    <3>2. NoTransfer \in AnyCall /\ NoTransfer \in OtherCall
      BY Numbers DEF OtherCall
    <3> QED BY <3>1, <3>2, CallShape
  <2>2. CASE rest # {}
    <3>1. /\ transfer' = [transfer EXCEPT ![c] = [t EXCEPT !.pc = "lock", !.keys = rest]]
          /\ lock' = lock
      BY <2>2 DEF DeleteMeta, First
    <3>2. rest \in (SUBSET Objects) \ {{}}
      <4>1. rest \subseteq Objects
        BY <1>1
      <4> HIDE DEF rest
      <4> QED BY <2>2, <4>1
    <3> HIDE DEF rest
    <3>3. PICK r : r = [t EXCEPT !.pc = "lock", !.keys = rest]
      OBVIOUS
    <3>4. r \in DeleteCall /\ r.op = "delete" /\ r.pc = "lock" /\ r.gen = g
      BY <1>1, <3>2, <3>3 DEF DeleteCall
    <3>5. r \in AnyCall /\ ~Busy(r) /\ ~Linked(r)
      BY <3>4 DEF AnyCall, Busy, Linked, Writers
    <3>6. lock' = [lock EXCEPT ![g] = c]
      BY <1>1, <1>3, <3>1 DEF BucketInv, BucketTypeOK
    <3> QED BY <3>1, <3>3, <3>4, <3>5, <3>6
  <2> QED BY <2>1, <2>2
<1>6. PICK r \in AnyCall, l \in {NoHolder, c} :
        /\ transfer' = [transfer EXCEPT ![c] = r] /\ lock' = [lock EXCEPT ![g] = l]
        /\ ~Busy(r) /\ ~Linked(r)
        /\ r.op \in Writers \cup {"delete"} => r.gen = g
  BY <1>5
<1> HIDE DEF k, rest
<1>7. index \in [Generations -> IndexRecord]
  BY DEF BucketInv, BucketTypeOK, IndexRecord
<1>8. index' \in [Generations -> IndexRecord]
  <2>1. ForgetObject(index[g], k, t.found) \in IndexRecord
    BY <1>1, <1>2, <1>7, ForgetTyped
  <2> QED BY <1>4, <1>7, <2>1
<1>9. BucketTypeOK'
  BY <1>2, <1>4, <1>6, <1>8, Numbers DEF BucketInv, BucketTypeOK, AnyCall, IndexRecord
<1>10. Holders'
  BY <1>1, <1>3, <1>4, <1>6, LockKeepsHolders
<1>11. GoneWhenDeleted'
  <2>1. \A d \in Clients : Linked(transfer'[d]) => Linked(transfer[d])
    BY <1>6 DEF BucketInv, BucketTypeOK
  <2>2. \A h \in Generations : h > nbuckets => index'[h] = index[h]
    BY <1>1, <1>4, <1>7 DEF BucketInv, BucketTypeOK, Generations
  <2> QED BY <1>2, <1>4, <2>1, <2>2 DEF BucketInv, GoneWhenDeleted, BucketTypeOK
<1>12. ExactInv'
  <2>1. SUFFICES ASSUME bucket # 0, torn = 0, g = bucket PROVE ExactInv'
    BY <1>4 DEF ExactInv
  <2>2. /\ \A j \in Objects \ {k} : body[j] = objectMeta[j].size
        /\ t.found = objectMeta[k].size /\ body[k] = AbsentFile
        /\ lock[bucket] \in {NoHolder, c}
    BY <1>1, <1>2, <1>3, <2>1, AllFit DEF Remembers
  <2>3. PICK ix : ix = ForgetObject(index[bucket], k, objectMeta[k].size)
    OBVIOUS
  <2>4. BucketTypeOK /\ Matches(index[bucket])
    BY <2>1 DEF BucketInv, ExactInv
  <2>5. /\ ix.count = Cardinality(Listed')
        /\ ix.total = Sizing(objectMeta', Listed')
        /\ ix.recent \subseteq {Stamped(j)' : j \in Listed'}
    BY <1>2, <1>4, <2>3, <2>4, ListedShrinks
  <2>6. index'[bucket'] = ix
    BY <1>1, <1>4, <1>7, <2>1, <2>2, <2>3
  <2>7. Matches(index[bucket])'
    BY <2>5, <2>6 DEF Matches
  <2>8. \A j \in Objects : body'[j] = objectMeta'[j].size
    BY <1>2, <1>4, <2>2 DEF BucketInv, BucketTypeOK, NoMeta
  <2>9. Remembers(r)'
    BY <1>6 DEF Remembers
  <2> QED BY <1>4, <1>6, <2>1, <2>2, <2>7, <2>8, <2>9, WorkKeepsExact
<1> QED BY <1>9, <1>10, <1>11, <1>12 DEF BucketInv

LEMMA CreateBucketKeeps ==
  ASSUME BucketInv, CreateBucket
  PROVE  BucketInv'
<1> DEFINE g == nbuckets + 1
<1>1. /\ bucket = 0 /\ bucket' = g /\ nbuckets' = g /\ g \in Generations /\ g <= MaxBuckets
      /\ objectDir' = TRUE /\ torn' = 0 /\ ntransfers' \in Nat
      /\ UNCHANGED <<body, objectMeta, index, lock, storeLock, notif, conf, transfer, nputs>>
  BY S3Assumption DEF CreateBucket, CountedCall, BucketInv, BucketTypeOK, Generations
<1>2. nbuckets \in Nat /\ g \in Nat /\ g > nbuckets /\ g # 0
  BY DEF BucketInv, BucketTypeOK
<1>3. BucketTypeOK'
  <2>1. nbuckets' \in 0 .. MaxBuckets /\ bucket' \in 0 .. nbuckets'
    BY <1>1, <1>2, S3Assumption
  <2> QED BY <1>1, <2>1 DEF BucketInv, BucketTypeOK
<1>4. ASSUME NEW c \in Clients, transfer[c].op \in Writers \cup {"delete"}
      PROVE  /\ transfer[c].gen \in Generations /\ transfer[c].gen <= nbuckets
             /\ transfer[c].gen <= g /\ transfer[c].gen # g
  <2>1. transfer[c].gen \in Generations
    BY <1>4, CallTyped, CallShape DEF BucketInv, PutCall, DeleteCall
  <2> QED BY <1>2, <1>4, <2>1 DEF BucketInv, Holders, Generations
<1>5. Holders'
  BY <1>1, <1>4 DEF BucketInv, Holders
<1>6. /\ \A k \in Objects : body[k] = AbsentFile /\ objectMeta[k] = NoMeta
      /\ \A c \in Clients : ~Linked(transfer[c])
      /\ index[g] = EmptyIndex
  BY <1>1, <1>2 DEF BucketInv, GoneWhenDeleted
<1>7. GoneWhenDeleted'
  <2>1. \A h \in Generations : h > nbuckets' => index'[h] = EmptyIndex
    BY <1>1, <1>2, S3Assumption DEF BucketInv, GoneWhenDeleted, Generations
  <2> QED BY <1>1, <1>2, <2>1 DEF GoneWhenDeleted
<1>8. Matches(index[bucket])'
  <2>1. Listed' = {}
    BY <1>1, <1>6 DEF Listed
  <2>2. Cardinality({}) = 0 /\ Sizing(objectMeta', {}) = 0
    BY FS_EmptySet, SizingEmpty
  <2>3. index'[bucket'] = EmptyIndex
    BY <1>1, <1>6
  <2> QED BY <2>1, <2>2, <2>3 DEF Matches, EmptyIndex
<1>9. \A k \in Objects : Fits(k)'
  BY <1>1, <1>6 DEF Fits, NoMeta
<1>10. ASSUME NEW c \in Clients PROVE Remembers(transfer[c])'
  <2>1. Busy(transfer[c]) => transfer[c].gen # g
    BY <1>4 DEF Busy
  <2> QED BY <1>1, <1>6, <2>1 DEF Remembers
<1>11. ExactInv'
  BY <1>8, <1>9, <1>10 DEF ExactInv
<1> QED BY <1>3, <1>5, <1>7, <1>11 DEF BucketInv

LEMMA RemoveBucketKeeps ==
  ASSUME BucketInv, NEW c \in Clients, RemoveBucket(c)
  PROVE  BucketInv'
<1>1. /\ bucket' = 0 /\ objectDir' = FALSE /\ storeLock' = NoHolder
      /\ body' = [k \in Objects |-> AbsentFile] /\ objectMeta' = [k \in Objects |-> NoMeta]
      /\ notif' = [notif EXCEPT !.file = Unset] /\ conf' = [conf EXCEPT !.file = Unset]
      /\ UNCHANGED <<nbuckets, index, lock, nputs, ntransfers, torn>>
  BY DEF RemoveBucket
<1>2. ASSUME NEW d \in Clients
      PROVE  /\ transfer'[d] \in AnyCall /\ ~Linked(transfer'[d])
             /\ Busy(transfer'[d]) => Busy(transfer[d]) /\ transfer'[d].gen = transfer[d].gen
             /\ transfer'[d].op \in Writers \cup {"delete"} =>
                  /\ transfer[d].op \in Writers \cup {"delete"}
                  /\ transfer'[d].gen = transfer[d].gen
  <2>1. transfer[d] \in AnyCall
    BY CallTyped DEF BucketInv
  <2>2. CASE d = c
    <3>1. transfer'[d] = NoTransfer /\ NoTransfer \in OtherCall /\ NoTransfer \in AnyCall
      BY <2>2, Numbers DEF RemoveBucket, OtherCall
    <3> QED BY <3>1, CallShape
  <2>3. CASE d # c /\ Writing(d, "copy")
    <3>1. transfer'[d] = [transfer[d] EXCEPT !.linked = FALSE]
      BY <2>3 DEF RemoveBucket
    <3>2. transfer[d] \in PutCall
      BY <2>1, <2>3, CallShape DEF Writing, Writers
    <3>3. PICK r : r = [transfer[d] EXCEPT !.linked = FALSE]
      OBVIOUS
    <3>4. /\ r \in PutCall /\ r.op = transfer[d].op /\ r.pc = transfer[d].pc
          /\ r.gen = transfer[d].gen /\ r.linked = FALSE
      BY <3>2, <3>3 DEF PutCall
    <3>5. r \in AnyCall /\ ~Linked(r) /\ (Busy(r) => Busy(transfer[d]))
      BY <2>3, <3>4 DEF AnyCall, Linked, Busy, Writing, Writers
    <3> QED BY <3>1, <3>3, <3>4, <3>5
  <2>4. CASE d # c /\ ~Writing(d, "copy")
    <3>1. transfer'[d] = transfer[d]
      BY <2>4 DEF RemoveBucket
    <3>2. ~Linked(transfer[d])
      BY <2>4 DEF Linked, Writing, Writers
    <3> QED BY <2>1, <3>1, <3>2
  <2> QED BY <2>2, <2>3, <2>4
<1>3. transfer' \in [Clients -> AnyCall]
  <2>1. transfer' = [d \in Clients |-> transfer'[d]]
    BY DEF RemoveBucket
  <2> QED BY <1>2, <2>1
<1>4. BucketTypeOK'
  <2>1. body' \in [Objects -> FileSize] /\ objectMeta' \in [Objects -> Stamp]
    BY <1>1, Numbers
  <2>2. /\ notif' \in [mem : Settings \cup {Unset}, file : Settings \cup {Unset}]
        /\ conf' \in [mem : Settings \cup {Unset}, file : Settings \cup {Unset}]
    BY <1>1 DEF BucketInv, BucketTypeOK
  <2>3. bucket' \in 0 .. nbuckets'
    BY <1>1 DEF BucketInv, BucketTypeOK
  <2> QED BY <1>1, <1>3, <2>1, <2>2, <2>3 DEF BucketInv, BucketTypeOK, AnyCall
<1>5. Holders'
  BY <1>1, <1>2 DEF BucketInv, Holders
<1>6. GoneWhenDeleted'
  BY <1>1, <1>2 DEF BucketInv, GoneWhenDeleted
<1>7. ExactInv'
  BY <1>1 DEF ExactInv
<1> QED BY <1>4, <1>5, <1>6, <1>7 DEF BucketInv

LEMMA NoTransferIdle ==
  /\ NoTransfer \in AnyCall /\ ~Busy(NoTransfer) /\ ~Linked(NoTransfer)
  /\ NoTransfer.op \notin Writers \cup {"delete"}
<1>1. NoTransfer \in OtherCall /\ NoTransfer \in AnyCall
  BY Numbers DEF OtherCall
<1> QED BY <1>1, CallShape

LEMMA RebuildTyped ==
  ASSUME BucketTypeOK
  PROVE  RebuildIndex \in IndexRecord /\ Matches(RebuildIndex)
<1>1. Listed \in SUBSET Objects /\ \A k \in Objects : objectMeta[k].size \in Int
  BY MetaSizes
<1>2. Cardinality(Listed) \in Int /\ Sizing(objectMeta, Listed) \in Int
  BY <1>1, ObjectSets, SizingInt
<1>3. Newest({Stamped(k) : k \in Listed}) \subseteq {Stamped(k) : k \in Listed}
  BY DEF Newest
<1>4. {Stamped(k) : k \in Listed} \subseteq [key : Objects, at : Nat]
  BY <1>1, MetaSizes, StampShape DEF Stamped
<1> QED BY <1>2, <1>3, <1>4 DEF RebuildIndex, IndexRecord, Matches

LEMMA CrashStoreKeeps ==
  ASSUME BucketInv, CrashStore
  PROVE  BucketInv'
<1> DEFINE g == nbuckets + 1
           ix == IF objectDir THEN RebuildIndex ELSE EmptyIndex
<1>1. /\ nbuckets' = g /\ g \in Generations /\ g <= MaxBuckets /\ nbuckets \in Nat
      /\ bucket' = IF objectDir THEN g ELSE 0
      /\ index' = [index EXCEPT ![g] = ix]
      /\ lock' = [h \in Generations |-> NoHolder] /\ storeLock' = NoHolder
      /\ transfer' = [c \in Clients |-> NoTransfer]
      /\ torn' = Cardinality(Mismatched) /\ torn' \in Nat /\ (torn' = 0 => Mismatched = {})
      /\ UNCHANGED <<objectDir, body, objectMeta, nputs, ntransfers>>
  <2>1. Mismatched \in SUBSET Objects
    BY DEF Mismatched
  <2>2. Cardinality(Mismatched) \in Nat /\ (Cardinality(Mismatched) = 0 => Mismatched = {})
    BY <2>1, ObjectSets
  <2> QED BY <2>2, S3Assumption DEF CrashStore, objectFiles, BucketInv, BucketTypeOK, Generations
<1>2. ix \in IndexRecord
  <2>1. EmptyIndex \in IndexRecord
    BY DEF EmptyIndex, IndexRecord
  <2> QED BY <2>1, RebuildTyped DEF BucketInv
<1>3. index \in [Generations -> IndexRecord]
  BY DEF BucketInv, BucketTypeOK, IndexRecord
<1> HIDE DEF ix
<1>4. index' \in [Generations -> IndexRecord] /\ index'[g] = ix
  BY <1>1, <1>2, <1>3
<1>5. \A c \in Clients : transfer'[c] = NoTransfer
  BY <1>1
<1>6. BucketTypeOK'
  <2>1. nbuckets' \in 0 .. MaxBuckets /\ bucket' \in 0 .. nbuckets'
    BY <1>1, S3Assumption
  <2>2. /\ notif' \in [mem : Settings \cup {Unset}, file : Settings \cup {Unset}]
        /\ conf' \in [mem : Settings \cup {Unset}, file : Settings \cup {Unset}]
    BY DEF CrashStore, BucketInv, BucketTypeOK
  <2>3. transfer' \in [Clients -> AnyCall]
    BY <1>1, NoTransferIdle
  <2> QED BY <1>1, <1>4, <2>1, <2>2, <2>3 DEF BucketInv, BucketTypeOK, AnyCall, IndexRecord
<1>7. Holders'
  BY <1>5, NoTransferIdle DEF Holders
<1>8. objectDir = (bucket # 0) /\ g # 0
  BY <1>1 DEF BucketInv, GoneWhenDeleted
<1>9. GoneWhenDeleted'
  <2>1. \A h \in Generations : h > nbuckets' => index'[h] = EmptyIndex
    BY <1>1, <1>3, S3Assumption DEF BucketInv, GoneWhenDeleted, Generations
  <2>2. objectDir' = (bucket' # 0)
    BY <1>1, <1>8 DEF BucketInv, BucketTypeOK
  <2>3. bucket' = 0 => bucket = 0
    BY <1>1, <1>8
  <2> QED BY <1>1, <1>5, <2>1, <2>2, <2>3, NoTransferIdle DEF BucketInv, GoneWhenDeleted
<1>10. ExactInv'
  <2>1. SUFFICES ASSUME bucket' # 0, torn' = 0 PROVE ExactInv'
    BY DEF ExactInv
  <2>2. objectDir /\ bucket' = g
    BY <1>1, <2>1
  <2>3. PICK new : new = RebuildIndex
    OBVIOUS
  <2>4. Matches(new)
    BY <2>3, RebuildTyped DEF BucketInv
  <2>5. index'[bucket'] = new
    BY <1>4, <2>2, <2>3 DEF ix
  <2>6. Listed' = Listed /\ \A k : Stamped(k)' = Stamped(k)
    BY <1>1 DEF Listed, Stamped
  <2>7. Matches(index[bucket])'
    BY <1>1, <2>4, <2>5, <2>6 DEF Matches
  <2>8. \A k \in Objects : Fits(k)'
    BY <1>1, <2>1 DEF Fits, Mismatched
  <2>9. \A c \in Clients : Remembers(transfer[c])'
    BY <1>5, NoTransferIdle DEF Remembers
  <2> QED BY <2>7, <2>8, <2>9 DEF ExactInv
<1> QED BY <1>6, <1>7, <1>9, <1>10 DEF BucketInv

LEMMA BucketInitHolds == BucketInit => BucketInv
<1> SUFFICES ASSUME BucketInit PROVE BucketInv
  OBVIOUS
<1>1. \A c \in Clients : transfer[c] = NoTransfer
  BY DEF BucketInit
<1>2. BucketTypeOK
  <2>1. EmptyIndex \in IndexRecord
    BY DEF EmptyIndex, IndexRecord
  <2>2. index \in [Generations -> IndexRecord] /\ lock \in [Generations -> Clients \cup {NoHolder}]
    BY <2>1 DEF BucketInit
  <2>3. body \in [Objects -> FileSize] /\ objectMeta \in [Objects -> Stamp]
    BY Numbers DEF BucketInit
  <2>4. transfer \in [Clients -> AnyCall]
    BY NoTransferIdle DEF BucketInit
  <2>5. nbuckets \in 0 .. MaxBuckets /\ bucket \in 0 .. nbuckets
    BY S3Assumption DEF BucketInit
  <2> QED BY <2>2, <2>3, <2>4, <2>5 DEF BucketInit, BucketTypeOK, AnyCall, IndexRecord
<1>3. Holders
  BY <1>1, NoTransferIdle DEF Holders
<1>4. GoneWhenDeleted
  BY <1>1, NoTransferIdle DEF BucketInit, GoneWhenDeleted
<1>5. ExactInv
  BY DEF BucketInit, ExactInv
<1> QED BY <1>2, <1>3, <1>4, <1>5 DEF BucketInv

LEMMA BucketStep == BucketInv /\ [BucketNext]_bucketVars => BucketInv'
<1> SUFFICES ASSUME BucketInv, [BucketNext]_bucketVars PROVE BucketInv'
  OBVIOUS
<1>1. CASE UNCHANGED bucketVars
  <2>1. FilesSame /\ UNCHANGED transfer
    BY <1>1 DEF bucketVars, FilesSame
  <2>2. BucketTypeOK'
    BY <1>1 DEF bucketVars, BucketInv, BucketTypeOK
  <2> QED BY <2>1, <2>2, ConfigKeeps
<1>2. ASSUME NEW c \in Clients, NEW k \in Objects, NEW size \in Sizes, PutObject(c, k, size)
      PROVE  BucketInv'
  BY <1>2, PutObjectKeeps
<1>3. ASSUME NEW c \in Clients, NEW src \in Objects, NEW k \in Objects, CopyObject(c, src, k)
      PROVE  BucketInv'
  BY <1>3, CopyObjectKeeps
<1>4. ASSUME NEW c \in Clients, NEW ks \in (SUBSET Objects) \ {{}}, DeleteObjects(c, ks)
      PROVE  BucketInv'
  BY <1>4, DeleteObjectsKeeps
<1>5. ASSUME NEW c \in Clients, NEW v \in Settings, PutBucketNotification(c, v) PROVE BucketInv'
  BY <1>5, PutNotificationKeeps
<1>6. ASSUME NEW c \in Clients, PutCreate(c) PROVE BucketInv'
  BY <1>6, PutCreateKeeps
<1>7. ASSUME NEW c \in Clients, PutCopy(c) PROVE BucketInv'
  BY <1>7, PutCopyKeeps
<1>8. ASSUME NEW c \in Clients, PutMeta(c) PROVE BucketInv'
  BY <1>8, PutMetaKeeps
<1>9. ASSUME NEW c \in Clients, DeleteBody(c) PROVE BucketInv'
  BY <1>9, DeleteBodyKeeps
<1>10. ASSUME NEW c \in Clients, DeleteMeta(c) PROVE BucketInv'
  BY <1>10, DeleteMetaKeeps
<1>11. ASSUME NEW c \in Clients, DeleteBucket(c) PROVE BucketInv'
  BY <1>11, DeleteBucketKeeps
<1>12. ASSUME NEW c \in Clients, RemoveBucket(c) PROVE BucketInv'
  BY <1>12, RemoveBucketKeeps
<1>13. ASSUME NEW c \in Clients, NotifyMemory(c) \/ NotifyFile(c) PROVE BucketInv'
  BY <1>13, NotifyKeeps
<1>14. ASSUME NEW v \in Settings, UpdateBucketConfig(v) PROVE BucketInv'
  BY <1>14, UpdateConfigKeeps
<1>15. CASE CreateBucket
  BY <1>15, CreateBucketKeeps
<1>16. CASE CrashStore
  BY <1>16, CrashStoreKeeps
<1> QED BY <1>1, <1>2, <1>3, <1>4, <1>5, <1>6, <1>7, <1>8, <1>9, <1>10, <1>11, <1>12, <1>13,
           <1>14, <1>15, <1>16 DEF BucketNext

LEMMA BucketInvAlways == BucketSpec => []BucketInv
BY BucketInitHolds, BucketStep, PTL DEF BucketSpec

(***************************************************************************)
(* How far the count can drift from the listing.  What the next write of    *)
(* an object will take for its old state is the body it finds, or, once the  *)
(* write is under way, the size it found; the count stays between the        *)
(* objects that are both listed and seen so and those that are either, give  *)
(* or take one for every torn write.                                         *)
(***************************************************************************)
Works(t, k) == Busy(t) /\ t.gen = bucket /\ Object(t) = k
Before(t) == IF t.op = "delete" THEN t.found ELSE t.prev
Workers(k) == {c \in Clients : Works(transfer[c], k)}
Seen(k) ==
  IF Workers(k) = {} THEN body[k] # AbsentFile
  ELSE \A c \in Workers(k) : Before(transfer[c]) # AbsentFile
SeenSet == {k \in Objects : Seen(k)}

DriftInv ==
  bucket # 0 =>
    /\ index[bucket].count <= Cardinality(Listed \cap SeenSet) + torn
    /\ Cardinality(Listed \cup SeenSet) <= index[bucket].count + torn

(* Sets that agree except on one object. *)
LEMMA OneApart ==
  ASSUME NEW s \in SUBSET Objects, NEW u \in SUBSET Objects, NEW k \in Objects,
         s \ {k} = u \ {k}
  PROVE  /\ Cardinality(s) \in Nat /\ Cardinality(u) \in Nat
         /\ Cardinality(u) <= Cardinality(s) + 1 /\ Cardinality(s) <= Cardinality(u) + 1
         /\ k \in u /\ k \notin s => Cardinality(u) = Cardinality(s) + 1
         /\ k \in s /\ k \notin u => Cardinality(s) = Cardinality(u) + 1
         /\ (k \in s <=> k \in u) => Cardinality(s) = Cardinality(u)
<1>1. Cardinality(s) \in Nat /\ Cardinality(u) \in Nat
  BY ObjectSets
<1>2. CASE k \in s /\ k \notin u
  <2>1. s \ {k} = u
    BY <1>2
  <2>2. Cardinality(u) = Cardinality(s) - 1
    BY <1>2, <2>1, ObjectSets
  <2> QED BY <1>1, <1>2, <2>2
<1>3. CASE k \in u /\ k \notin s
  <2>1. u \ {k} = s
    BY <1>3
  <2>2. Cardinality(s) = Cardinality(u) - 1
    BY <1>3, <2>1, ObjectSets
  <2> QED BY <1>1, <1>3, <2>2
<1>4. CASE k \in s <=> k \in u
  <2>1. s = u
    BY <1>4
  <2> QED BY <1>1, <1>4, <2>1
<1> QED BY <1>2, <1>3, <1>4

(* A step of c on object k of its own bucket. *)
LEMMA OwnWork ==
  ASSUME BucketInv, NEW c \in Clients, NEW r, NEW k \in Objects, bucket # 0, bucket' = bucket,
         transfer' = [transfer EXCEPT ![c] = r],
         transfer[c].gen = bucket, lock[bucket] \in {NoHolder, c},
         \A j \in Objects \ {k} : body'[j] = body[j] /\ objectMeta'[j] = objectMeta[j],
         Busy(transfer[c]) => Object(transfer[c]) = k,
         Busy(r) => r.gen = bucket /\ Object(r) = k
  PROVE  /\ Listed \ {k} = Listed' \ {k} /\ SeenSet \ {k} = SeenSet' \ {k}
         /\ k \in SeenSet <=> IF Busy(transfer[c]) THEN Before(transfer[c]) # AbsentFile
                              ELSE body[k] # AbsentFile
         /\ k \in SeenSet' <=> IF Busy(r) THEN Before(r) # AbsentFile
                               ELSE body'[k] # AbsentFile
<1>1. bucket \in Generations
  BY BucketGeneration DEF BucketInv
<1>2. transfer'[c] = r /\ \A d \in Clients \ {c} : transfer'[d] = transfer[d]
  BY DEF BucketInv, BucketTypeOK
<1>3. \A d \in Clients \ {c} : ~(Busy(transfer[d]) /\ transfer[d].gen = bucket)
  BY <1>1, OthersIdle
<1>4. \A j \in Objects \ {k} : Workers(j) = {} /\ Workers(j)' = {}
  BY <1>2, <1>3 DEF Workers, Works
<1>5. \A j \in Objects \ {k} : Seen(j)' <=> Seen(j)
  BY <1>4 DEF Seen
<1>6. SeenSet \ {k} = SeenSet' \ {k}
  BY <1>5 DEF SeenSet
<1>7. Listed \ {k} = Listed' \ {k}
  BY DEF Listed
<1>8. Workers(k) = IF Busy(transfer[c]) THEN {c} ELSE {}
  BY <1>3 DEF Workers, Works
<1>9. Workers(k)' = IF Busy(r) THEN {c} ELSE {}
  BY <1>2, <1>3 DEF Workers, Works
<1>10. Seen(k) <=> IF Busy(transfer[c]) THEN Before(transfer[c]) # AbsentFile
                   ELSE body[k] # AbsentFile
  BY <1>8 DEF Seen
<1>11. Seen(k)' <=> IF Busy(r) THEN Before(r) # AbsentFile ELSE body'[k] # AbsentFile
  BY <1>2, <1>9 DEF Seen
<1> QED BY <1>6, <1>7, <1>10, <1>11 DEF SeenSet

(* A step of c that is no work on an object of the present bucket. *)
LEMMA StrayWork ==
  ASSUME BucketInv, NEW c \in Clients, NEW r, bucket' = bucket,
         transfer' = [transfer EXCEPT ![c] = r],
         Busy(transfer[c]) => transfer[c].gen # bucket,
         Busy(r) => r.gen # bucket
  PROVE  \A j \in Objects : body'[j] = body[j] => (Seen(j)' <=> Seen(j))
<1>1. transfer'[c] = r /\ \A d \in Clients \ {c} : transfer'[d] = transfer[d]
  BY DEF BucketInv, BucketTypeOK
<1>2. SUFFICES ASSUME NEW j \in Objects, body'[j] = body[j] PROVE Seen(j)' <=> Seen(j)
  OBVIOUS
<1>3. Workers(j)' = Workers(j) /\ c \notin Workers(j)
  BY <1>1 DEF Workers, Works
<1>4. \A d \in Workers(j) : transfer'[d] = transfer[d]
  BY <1>1, <1>3 DEF Workers
<1> QED BY <1>2, <1>3, <1>4 DEF Seen

(* What the moves of the two lemmas leave of the invariant to show. *)
LEMMA Typed ==
  ASSUME BucketInv, BucketTypeOK', bucket # 0, bucket' = bucket
  PROVE  /\ index[bucket].count \in Int /\ index'[bucket].count \in Int
         /\ torn \in Nat /\ torn' \in Nat
         /\ Listed \in SUBSET Objects /\ SeenSet \in SUBSET Objects
         /\ Listed' \in SUBSET Objects /\ SeenSet' \in SUBSET Objects
<1>1. bucket \in Generations
  BY BucketGeneration DEF BucketInv
<1>2. index[bucket].count \in Int /\ index'[bucket].count \in Int /\ torn \in Nat /\ torn' \in Nat
  BY <1>1 DEF BucketInv, BucketTypeOK
<1> QED BY <1>2 DEF Listed, SeenSet

(* The moves of one object that keep the count in its place. *)
LEMMA DriftStep ==
  ASSUME BucketInv, DriftInv, BucketTypeOK', bucket # 0, bucket' = bucket, NEW k \in Objects,
         Listed \ {k} = Listed' \ {k}, SeenSet \ {k} = SeenSet' \ {k},
         NEW m, m = index'[bucket].count, NEW n, n = index[bucket].count,
         \/ /\ torn' >= torn + 1
            /\ m = n \/ (m = n + 1 /\ k \notin SeenSet) \/ (m = n - 1 /\ k \in SeenSet)
         \/ /\ torn' = torn /\ m = n
            /\ k \in Listed \cap SeenSet => k \in Listed' \cap SeenSet'
            /\ k \in Listed' \cup SeenSet' => k \in Listed \cup SeenSet
         \/ torn' = torn /\ m = n + 1 /\ k \notin SeenSet /\ k \in Listed' \cap SeenSet'
         \/ torn' = torn /\ m = n - 1 /\ k \in SeenSet /\ k \notin Listed' \cup SeenSet'
  PROVE  DriftInv'
<1>1. /\ n \in Int /\ m \in Int /\ torn \in Nat /\ torn' \in Nat
      /\ Listed \in SUBSET Objects /\ SeenSet \in SUBSET Objects
      /\ Listed' \in SUBSET Objects /\ SeenSet' \in SUBSET Objects
  BY Typed
<1>2. PICK l \in SUBSET Objects, s \in SUBSET Objects :
        l = Listed /\ s = SeenSet
  BY <1>1
<1>3. PICK lnew \in SUBSET Objects, snew \in SUBSET Objects :
        lnew = Listed' /\ snew = SeenSet'
  BY <1>1
<1>4. PICK u \in Nat, v \in Nat : u = torn /\ v = torn'
  BY <1>1
<1>5. n <= Cardinality(l \cap s) + u /\ Cardinality(l \cup s) <= n + u
  BY <1>2, <1>4 DEF DriftInv
<1>6. l \ {k} = lnew \ {k} /\ s \ {k} = snew \ {k}
  BY <1>2, <1>3
<1>7. \/ v >= u + 1 /\ (m = n \/ (m = n + 1 /\ k \notin s) \/ (m = n - 1 /\ k \in s))
      \/ /\ v = u /\ m = n
         /\ k \in l \cap s => k \in lnew \cap snew
         /\ k \in lnew \cup snew => k \in l \cup s
      \/ v = u /\ m = n + 1 /\ k \notin s /\ k \in lnew \cap snew
      \/ v = u /\ m = n - 1 /\ k \in s /\ k \notin lnew \cup snew
  BY <1>2, <1>3, <1>4
<1>8. m <= Cardinality(lnew \cap snew) + v /\ Cardinality(lnew \cup snew) <= m + v
  <2>1. PICK both : both = l \cap s
    OBVIOUS
  <2>2. PICK bothnew : bothnew = lnew \cap snew
    OBVIOUS
  <2>3. PICK any : any = l \cup s
    OBVIOUS
  <2>4. PICK anynew : anynew = lnew \cup snew
    OBVIOUS
  <2>5. /\ both \in SUBSET Objects /\ bothnew \in SUBSET Objects /\ both \ {k} = bothnew \ {k}
        /\ any \in SUBSET Objects /\ anynew \in SUBSET Objects /\ any \ {k} = anynew \ {k}
    BY <1>6, <2>1, <2>2, <2>3, <2>4
  <2>6. PICK a \in Nat, b \in Nat, x \in Nat, y \in Nat :
          /\ a = Cardinality(both) /\ b = Cardinality(bothnew)
          /\ x = Cardinality(any) /\ y = Cardinality(anynew)
    BY <2>5, ObjectSets
  <2>7. /\ b <= a + 1 /\ a <= b + 1
        /\ k \in bothnew /\ k \notin both => b = a + 1
        /\ (k \in both => k \in bothnew) => a <= b
        /\ (k \notin both => k \notin bothnew) /\ (k \notin bothnew => k \notin both) => a = b
    BY <2>5, <2>6, OneApart
  <2>8. /\ y <= x + 1 /\ x <= y + 1
        /\ k \in any /\ k \notin anynew => x = y + 1
        /\ (k \in anynew => k \in any) => y <= x
        /\ k \in any => y <= x
    BY <2>5, <2>6, OneApart
  <2>9. n <= a + u /\ x <= n + u /\ n \in Int /\ m \in Int
    BY <1>1, <1>5, <2>1, <2>3, <2>6
  <2>10. /\ k \in both => k \in s
         /\ k \in s => k \in any
    BY <2>1, <2>3
  <2>11. m <= b + v
    <3>1. CASE v >= u + 1 /\ m = n
      BY <2>7, <2>9, <3>1
    <3>2. CASE v >= u + 1 /\ m = n + 1 /\ k \notin s
      <4>1. a <= b
        BY <2>7, <2>10, <3>2
      <4> QED BY <2>9, <3>2, <4>1
    <3>3. CASE v >= u + 1 /\ m = n - 1
      BY <2>7, <2>9, <3>3
    <3>4. CASE v = u /\ m = n /\ (k \in both => k \in bothnew)
      BY <2>7, <2>9, <3>4
    <3>5. CASE v = u /\ m = n + 1 /\ k \notin s /\ k \in bothnew
      <4>1. b = a + 1
        BY <2>7, <2>10, <3>5
      <4> QED BY <2>9, <3>5, <4>1
    <3>6. CASE v = u /\ m = n - 1
      BY <2>7, <2>9, <3>6
    <3> QED BY <1>7, <2>1, <2>2, <3>1, <3>2, <3>3, <3>4, <3>5, <3>6
  <2>12. y <= m + v
    <3>1. CASE v >= u + 1 /\ (m = n \/ m = n + 1)
      BY <2>8, <2>9, <3>1
    <3>2. CASE v >= u + 1 /\ m = n - 1 /\ k \in s
      <4>1. y <= x
        BY <2>8, <2>10, <3>2
      <4> QED BY <2>9, <3>2, <4>1
    <3>3. CASE v = u /\ m = n /\ (k \in anynew => k \in any)
      BY <2>8, <2>9, <3>3
    <3>4. CASE v = u /\ m = n + 1
      BY <2>8, <2>9, <3>4
    <3>5. CASE v = u /\ m = n - 1 /\ k \in s /\ k \notin anynew
      <4>1. x = y + 1
        BY <2>8, <2>10, <3>5
      <4> QED BY <2>9, <3>5, <4>1
    <3> QED BY <1>7, <2>3, <2>4, <3>1, <3>2, <3>3, <3>4, <3>5
  <2> QED BY <2>2, <2>4, <2>6, <2>11, <2>12
<1> QED BY <1>3, <1>4, <1>8 DEF DriftInv

LEMMA StrayDrift ==
  ASSUME BucketInv, DriftInv, BucketTypeOK', NEW c \in Clients, NEW r, NEW k \in Objects,
         bucket' = bucket, transfer' = [transfer EXCEPT ![c] = r],
         transfer[c].gen # bucket, Busy(r) => r.gen # bucket,
         \A j \in Objects \ {k} : body'[j] = body[j] /\ objectMeta'[j] = objectMeta[j],
         bucket # 0 => index'[bucket].count = index[bucket].count,
         torn' = torn + 1
  PROVE  DriftInv'
<1> SUFFICES ASSUME bucket # 0 PROVE DriftInv'
  BY DEF DriftInv
<1>1. \A j \in Objects : body'[j] = body[j] => (Seen(j)' <=> Seen(j))
  BY StrayWork
<1>2. SeenSet \ {k} = SeenSet' \ {k} /\ Listed \ {k} = Listed' \ {k}
  BY <1>1 DEF SeenSet, Listed
<1>3. torn' >= torn + 1
  BY Typed
<1> QED BY <1>2, <1>3, DriftStep

LEMMA QuietDrift ==
  ASSUME BucketInv, DriftInv, FilesSame, NEW c \in Clients, NEW r,
         transfer' = [transfer EXCEPT ![c] = r], ~Busy(transfer[c]), ~Busy(r)
  PROVE  DriftInv'
<1>1. \A j \in Objects : Seen(j)' <=> Seen(j)
  BY StrayWork DEF FilesSame
<1>2. SeenSet' = SeenSet /\ Listed' = Listed
  BY <1>1 DEF SeenSet, Listed, FilesSame
<1> QED BY <1>2 DEF DriftInv, FilesSame

LEMMA StillDrift ==
  ASSUME DriftInv, FilesSame, UNCHANGED transfer
  PROVE  DriftInv'
<1>1. \A j : Workers(j)' = Workers(j)
  BY DEF Workers, Works, FilesSame
<1>2. \A j : Seen(j)' <=> Seen(j)
  BY <1>1 DEF Seen, FilesSame
<1>3. SeenSet' = SeenSet /\ Listed' = Listed
  BY <1>2 DEF SeenSet, Listed, FilesSame
<1> QED BY <1>3 DEF DriftInv, FilesSame

LEMMA PutCreateDrift ==
  ASSUME BucketInv, DriftInv, BucketTypeOK', NEW c \in Clients, PutCreate(c)
  PROVE  DriftInv'
<1> DEFINE t == transfer[c]
           g == t.gen
           k == t.key
<1>1. /\ t \in PutCall /\ t.op \in Writers /\ t.pc = "create" /\ lock[g] = NoHolder
      /\ g \in Generations /\ k \in Objects
  BY CallTyped, CallShape DEF BucketInv, PutCreate, Writing, Writers, PutCall
<1>2. ~Busy(t)
  BY <1>1 DEF Busy, Writers
<1>3. CASE ~objectDir
  <2>1. FilesSame /\ transfer' = [transfer EXCEPT ![c] = NoTransfer]
    BY <1>3 DEF PutCreate, EndTransfer, FilesSame, bucketStore
  <2> QED BY <1>2, <2>1, NoTransferIdle, QuietDrift
<1>4. CASE objectDir
  <2>1. /\ transfer' = [transfer EXCEPT ![c] = [t EXCEPT !.pc = "copy", !.prev = body[k]]]
        /\ body' = [body EXCEPT ![k] = 0] /\ UNCHANGED <<bucket, objectMeta, index>>
    BY <1>4 DEF PutCreate, bucketStore
  <2>2. Tear(g # bucket)
    BY <1>4 DEF PutCreate, Stale
  <2>3. PICK r : r = [t EXCEPT !.pc = "copy", !.prev = body[k]]
    OBVIOUS
  <2>4. body[k] \in FileSize
    BY <1>1 DEF BucketInv, BucketTypeOK
  <2>5. r.op = t.op /\ r.pc = "copy" /\ r.gen = g /\ r.key = k /\ r.prev = body[k]
    BY <1>1, <2>3, <2>4 DEF PutCall
  <2>6. Busy(r) /\ Object(r) = k /\ Before(r) = body[k]
    BY <1>1, <2>5 DEF Busy, Object, Before, Writers
  <2>7. transfer' = [transfer EXCEPT ![c] = r]
    BY <2>1, <2>3
  <2>8. \A j \in Objects \ {k} : body'[j] = body[j] /\ objectMeta'[j] = objectMeta[j]
    BY <2>1 DEF BucketInv, BucketTypeOK
  <2>9. CASE g # bucket
    <3>1. torn' = torn + 1
      BY <2>2, <2>9 DEF Tear
    <3> QED BY <1>1, <2>1, <2>5, <2>7, <2>8, <2>9, <3>1, StrayDrift
  <2>10. CASE g = bucket
    <3>1. torn' = torn
      BY <2>2, <2>10, TornCounts DEF Tear
    <3>2. bucket # 0
      BY <1>1, <2>10 DEF Generations
    <3>3. /\ Listed \ {k} = Listed' \ {k} /\ SeenSet \ {k} = SeenSet' \ {k}
          /\ k \in SeenSet <=> body[k] # AbsentFile
          /\ k \in SeenSet' <=> body[k] # AbsentFile
      BY <1>1, <1>2, <2>1, <2>5, <2>6, <2>7, <2>8, <2>10, <3>2, OwnWork
    <3>4. Listed' = Listed
      BY <2>1 DEF Listed
    <3>5. index'[bucket].count = index[bucket].count
      BY <2>1
    <3> QED BY <1>1, <2>1, <3>1, <3>2, <3>3, <3>4, <3>5, DriftStep
  <2> QED BY <2>9, <2>10
<1> QED BY <1>3, <1>4

(* An upload that fails: its body goes, and the metadata may. *)
LEMMA FailedPutDrift ==
  ASSUME BucketInv, DriftInv, BucketTypeOK', NEW c \in Clients, NEW k \in Objects,
         NEW left \in {objectMeta[k], NoMeta}
  PROVE  /\ transfer[c] \in PutCall /\ transfer[c].op # "delete" /\ Busy(transfer[c])
         /\ transfer[c].key = k /\ transfer' = [transfer EXCEPT ![c] = NoTransfer]
         /\ body' = [body EXCEPT ![k] = AbsentFile]
         /\ objectMeta' = [objectMeta EXCEPT ![k] = left]
         /\ UNCHANGED <<bucket, index>>
         /\ Tear(objectMeta[k] # NoMeta \/ Stale(c))
         => DriftInv'
<1> DEFINE t == transfer[c]
           g == t.gen
<1>0. SUFFICES ASSUME t \in PutCall, t.op # "delete", Busy(t), t.key = k,
                      transfer' = [transfer EXCEPT ![c] = NoTransfer],
                      body' = [body EXCEPT ![k] = AbsentFile],
                      objectMeta' = [objectMeta EXCEPT ![k] = left],
                      UNCHANGED <<bucket, index>>,
                      Tear(objectMeta[k] # NoMeta \/ Stale(c))
               PROVE  DriftInv'
  OBVIOUS
<1>1. g \in Generations /\ lock[g] = c /\ Object(t) = k
  BY <1>0 DEF PutCall, BucketInv, Holders, Object
<1>2. /\ \A j \in Objects \ {k} : body'[j] = body[j] /\ objectMeta'[j] = objectMeta[j]
      /\ body'[k] = AbsentFile /\ bucket' = bucket /\ index' = index
  BY <1>0 DEF BucketInv, BucketTypeOK
<1>3. CASE g # bucket
  <2>1. torn' = torn + 1
    BY <1>0, <1>3 DEF Tear, Stale
  <2> QED BY <1>0, <1>2, <1>3, <2>1, NoTransferIdle, StrayDrift
<1>4. CASE g = bucket
  <2>1. bucket # 0
    BY <1>1, <1>4 DEF Generations
  <2>2. /\ Listed \ {k} = Listed' \ {k} /\ SeenSet \ {k} = SeenSet' \ {k}
        /\ k \in SeenSet' <=> body'[k] # AbsentFile
    <3>1. transfer[c].gen = bucket /\ lock[bucket] \in {NoHolder, c}
      BY <1>1, <1>4
    <3>2. Busy(transfer[c]) => Object(transfer[c]) = k
      BY <1>1
    <3>3. PICK r : r = NoTransfer
      OBVIOUS
    <3>4. transfer' = [transfer EXCEPT ![c] = r] /\ ~Busy(r)
      BY <1>0, <3>3, NoTransferIdle
    <3>5. /\ Listed \ {k} = Listed' \ {k} /\ SeenSet \ {k} = SeenSet' \ {k}
          /\ k \in SeenSet <=> IF Busy(transfer[c]) THEN Before(transfer[c]) # AbsentFile
                               ELSE body[k] # AbsentFile
          /\ k \in SeenSet' <=> IF Busy(r) THEN Before(r) # AbsentFile
                                ELSE body'[k] # AbsentFile
      <4>1. (Busy(transfer[c]) => Object(transfer[c]) = k) /\ (Busy(r) => r.gen = bucket /\ Object(r) = k)
        BY <3>2, <3>4
      <4>2. transfer' = [transfer EXCEPT ![c] = r]
        BY <3>4
      <4> QED BY <1>2, <2>1, <3>1, <4>1, <4>2, OwnWork
    <3> QED BY <3>4, <3>5
  <2>3. k \notin SeenSet'
    BY <1>2, <2>2
  <2>4. CASE objectMeta[k] # NoMeta
    <3>1. torn' = torn + 1 /\ torn' >= torn + 1
      BY <1>0, <2>4, TornCounts DEF Tear
    <3> QED BY <1>2, <2>1, <2>2, <3>1, DriftStep
  <2>5. CASE objectMeta[k] = NoMeta
    <3>1. torn' = torn
      BY <1>0, <1>4, <2>5, TornCounts DEF Tear, Stale
    <3>2. k \notin Listed /\ k \notin Listed'
      BY <1>0, <2>5 DEF Listed, BucketInv, BucketTypeOK
    <3> QED BY <1>2, <2>1, <2>2, <2>3, <3>1, <3>2, DriftStep
  <2> QED BY <2>4, <2>5
<1> QED BY <1>3, <1>4

LEMMA PutCopyDrift ==
  ASSUME BucketInv, DriftInv, BucketTypeOK', NEW c \in Clients, PutCopy(c)
  PROVE  DriftInv'
<1> DEFINE t == transfer[c]
           g == t.gen
           k == t.key
           n == CopiedSize(c)
<1>1. /\ t \in PutCall /\ t.op \in Writers /\ t.op # "delete" /\ t.pc = "copy"
      /\ g \in Generations /\ k \in Objects /\ t.src \in Objects /\ t.size \in Nat
  BY CallTyped, CallShape DEF BucketInv, PutCopy, Writing, Writers, PutCall
<1>2. Busy(t) /\ Object(t) = k
  BY <1>1 DEF Busy, Object
<1>3. lock[g] = c
  BY <1>2 DEF BucketInv, Holders
<1>4. n \in Nat
  BY <1>1 DEF CopiedSize, BucketInv, BucketTypeOK, FileSize
<1>5. UNCHANGED <<bucket, objectMeta, index>>
  BY DEF PutCopy, bucketStore
<1>6. CASE /\ body' = IF t.linked /\ body[k] # AbsentFile THEN [body EXCEPT ![k] = n] ELSE body
           /\ transfer' = [transfer EXCEPT ![c] = [t EXCEPT !.pc = "meta", !.size = n]]
           /\ UNCHANGED torn
  <2>1. PICK r : r = [t EXCEPT !.pc = "meta", !.size = n]
    OBVIOUS
  <2>2. r.op = t.op /\ r.pc = "meta" /\ r.gen = g /\ r.key = k /\ r.prev = t.prev
    BY <1>1, <1>4, <2>1 DEF PutCall
  <2>3. Busy(r) /\ Object(r) = k /\ Before(r) = t.prev /\ Before(t) = t.prev
    BY <1>1, <2>2 DEF Busy, Object, Before
  <2>4. transfer' = [transfer EXCEPT ![c] = r]
    BY <1>6, <2>1
  <2> HIDE DEF n
  <2>5. /\ \A j \in Objects \ {k} : body'[j] = body[j] /\ objectMeta'[j] = objectMeta[j]
        /\ \A j \in Objects : body'[j] # AbsentFile <=> body[j] # AbsentFile
    BY <1>4, <1>5, <1>6, Numbers DEF BucketInv, BucketTypeOK
  <2>6. Listed' = Listed
    BY <1>5 DEF Listed
  <2>7. CASE g # bucket
    <3>1. transfer'[c] = r /\ \A d \in Clients \ {c} : transfer'[d] = transfer[d]
      BY <2>4 DEF BucketInv, BucketTypeOK
    <3>2. \A j \in Objects : Workers(j)' = Workers(j) /\ c \notin Workers(j)
      BY <1>5, <2>2, <2>7, <3>1 DEF Workers, Works
    <3>3. \A j \in Objects : \A d \in Workers(j) : transfer'[d] = transfer[d]
      BY <3>1, <3>2 DEF Workers
    <3>4. \A j \in Objects : Seen(j)' <=> Seen(j)
      BY <2>5, <3>2, <3>3 DEF Seen
    <3>5. SeenSet' = SeenSet
      BY <3>4 DEF SeenSet
    <3> QED BY <1>5, <1>6, <2>6, <3>5 DEF DriftInv
  <2>8. CASE g = bucket
    <3>1. bucket # 0
      BY <1>1, <2>8 DEF Generations
    <3>2. /\ SeenSet \ {k} = SeenSet' \ {k}
          /\ k \in SeenSet <=> t.prev # AbsentFile
          /\ k \in SeenSet' <=> t.prev # AbsentFile
      <4>1. transfer[c].gen = bucket /\ lock[bucket] \in {NoHolder, c} /\ bucket' = bucket
        BY <1>3, <1>5, <2>8
      <4>2. (Busy(transfer[c]) => Object(transfer[c]) = k) /\ Busy(transfer[c])
        BY <1>2
      <4>3. Busy(r) /\ r.gen = bucket /\ Object(r) = k
        BY <2>2, <2>3, <2>8
      <4>4. /\ SeenSet \ {k} = SeenSet' \ {k}
            /\ k \in SeenSet <=> IF Busy(transfer[c]) THEN Before(transfer[c]) # AbsentFile
                                 ELSE body[k] # AbsentFile
            /\ k \in SeenSet' <=> IF Busy(r) THEN Before(r) # AbsentFile
                                  ELSE body'[k] # AbsentFile
        BY <1>1, <2>4, <2>5, <3>1, <4>1, <4>2, <4>3, OwnWork
      <4> QED BY <2>3, <4>2, <4>3, <4>4
    <3>3. SeenSet' = SeenSet
      BY <3>2
    <3> QED BY <1>5, <1>6, <2>6, <3>3 DEF DriftInv
  <2> QED BY <2>7, <2>8
<1>7. CASE /\ body' = [body EXCEPT ![k] = AbsentFile]
           /\ Tear(objectMeta[k] # NoMeta \/ Stale(c))
           /\ EndTransfer(c)
  <2>1. objectMeta' = [objectMeta EXCEPT ![k] = objectMeta[k]]
    BY <1>5 DEF BucketInv, BucketTypeOK
  <2>2. transfer' = [transfer EXCEPT ![c] = NoTransfer]
    BY <1>7 DEF EndTransfer
  <2> QED BY <1>1, <1>2, <1>5, <1>7, <2>1, <2>2, FailedPutDrift
<1> QED BY <1>6, <1>7 DEF PutCopy

LEMMA PutMetaDrift ==
  ASSUME BucketInv, DriftInv, BucketTypeOK', NEW c \in Clients, PutMeta(c)
  PROVE  DriftInv'
<1> DEFINE t == transfer[c]
           g == t.gen
           k == t.key
           now == nputs + 1
<1>1. /\ t \in PutCall /\ t.op \in Writers /\ t.op # "delete" /\ t.pc = "meta"
      /\ g \in Generations /\ k \in Objects /\ t.size \in Nat /\ t.prev \in FileSize
  BY CallTyped, CallShape DEF BucketInv, PutMeta, Writing, Writers, PutCall
<1>2. Busy(t) /\ Object(t) = k /\ Before(t) = t.prev
  BY <1>1 DEF Busy, Object, Before
<1>3. lock[g] = c
  BY <1>2 DEF BucketInv, Holders
<1>4. UNCHANGED bucket /\ transfer' = [transfer EXCEPT ![c] = NoTransfer]
  BY DEF PutMeta, bucketStore, EndTransfer
<1>5. CASE /\ objectMeta' = [objectMeta EXCEPT ![k] = [size |-> t.size, at |-> now]]
           /\ index' = [index EXCEPT ![g] =
                          RecordObject(@, t.prev, [key |-> k, at |-> now], t.size)]
           /\ Tear(body[k] # t.size \/ Stale(c))
           /\ UNCHANGED body
  <2>1. now \in Nat /\ now # 0
    BY DEF BucketInv, BucketTypeOK
  <2> HIDE DEF now
  <2>2. \A j \in Objects \ {k} : body'[j] = body[j] /\ objectMeta'[j] = objectMeta[j]
    BY <1>5 DEF BucketInv, BucketTypeOK
  <2>3. k \in Listed'
    BY <1>1, <1>5, <2>1 DEF Listed, NoMeta, BucketInv, BucketTypeOK
  <2>4. \A h \in Generations \ {g} : index'[h] = index[h]
    BY <1>5 DEF BucketInv, BucketTypeOK
  <2>5. index'[g] = RecordObject(index[g], t.prev, [key |-> k, at |-> now], t.size)
    BY <1>1, <1>5 DEF BucketInv, BucketTypeOK
  <2>6. index'[g].count = IF t.prev = AbsentFile THEN index[g].count + 1 ELSE index[g].count
    BY <2>5 DEF RecordObject
  <2>7. CASE g # bucket
    <3>1. torn' = torn + 1
      BY <1>5, <2>7 DEF Tear, Stale
    <3>2. bucket # 0 => index'[bucket].count = index[bucket].count
      BY <2>4, <2>7, BucketGeneration DEF BucketInv
    <3> QED BY <1>1, <1>4, <2>2, <2>7, <3>1, <3>2, NoTransferIdle, StrayDrift
  <2>8. CASE g = bucket
    <3>1. bucket # 0
      BY <1>1, <2>8 DEF Generations
    <3>2. PICK r : r = NoTransfer
      OBVIOUS
    <3>3. transfer' = [transfer EXCEPT ![c] = r] /\ ~Busy(r)
      BY <1>4, <3>2, NoTransferIdle
    <3>4. transfer[c].gen = bucket /\ lock[bucket] \in {NoHolder, c} /\ bucket' = bucket
      BY <1>3, <1>4, <2>8
    <3>5. (Busy(transfer[c]) => Object(transfer[c]) = k) /\ (Busy(r) => r.gen = bucket /\ Object(r) = k)
      BY <1>2, <3>3
    <3>6. /\ Listed \ {k} = Listed' \ {k} /\ SeenSet \ {k} = SeenSet' \ {k}
          /\ k \in SeenSet <=> IF Busy(transfer[c]) THEN Before(transfer[c]) # AbsentFile
                               ELSE body[k] # AbsentFile
          /\ k \in SeenSet' <=> IF Busy(r) THEN Before(r) # AbsentFile
                                ELSE body'[k] # AbsentFile
      BY <1>1, <2>2, <3>1, <3>3, <3>4, <3>5, OwnWork
    <3>7. /\ k \in SeenSet <=> t.prev # AbsentFile
          /\ k \in SeenSet' <=> body[k] # AbsentFile
      BY <1>2, <1>5, <3>3, <3>6
    <3>8. PICK m, n : m = index'[bucket].count /\ n = index[bucket].count
      OBVIOUS
    <3>9. /\ t.prev = AbsentFile => m = n + 1 /\ k \notin SeenSet
          /\ t.prev # AbsentFile => m = n /\ k \in SeenSet
      BY <2>6, <2>8, <3>7, <3>8
    <3>10. CASE body[k] = t.size
      <4>1. torn' = torn
        BY <1>5, <2>8, <3>10, TornCounts DEF Tear, Stale
      <4>2. k \in SeenSet'
        BY <1>1, <3>7, <3>10, Numbers DEF AbsentFile
      <4> QED BY <1>1, <1>4, <2>3, <3>1, <3>6, <3>8, <3>9, <4>1, <4>2, DriftStep
    <3>11. CASE body[k] # t.size
      <4>1. torn' = torn + 1 /\ torn' >= torn + 1
        BY <1>5, <3>11, TornCounts DEF Tear
      <4> QED BY <1>1, <1>4, <3>1, <3>6, <3>8, <3>9, <4>1, DriftStep
    <3> QED BY <3>10, <3>11
  <2> QED BY <2>7, <2>8
<1>6. CASE /\ body' = [body EXCEPT ![k] = AbsentFile]
           /\ \E left \in {objectMeta[k], NoMeta} : objectMeta' = [objectMeta EXCEPT ![k] = left]
           /\ Tear(objectMeta[k] # NoMeta \/ Stale(c))
           /\ UNCHANGED index
  BY <1>1, <1>2, <1>4, <1>6, FailedPutDrift
<1> QED BY <1>5, <1>6 DEF PutMeta

LEMMA DeleteBodyDrift ==
  ASSUME BucketInv, DriftInv, BucketTypeOK', NEW c \in Clients, DeleteBody(c)
  PROVE  DriftInv'
<1> DEFINE t == transfer[c]
           g == t.gen
           k == First(t.keys)
<1>1. /\ t \in DeleteCall /\ t.op = "delete" /\ t.pc = "lock" /\ lock[g] \in {NoHolder, c}
      /\ g \in Generations /\ t.keys \in SUBSET Objects /\ t.keys # {}
  <2>1. t.op = "delete" /\ t.pc = "lock" /\ t.keys # {} /\ lock[g] \in {NoHolder, c}
    BY DEF DeleteBody, Deleting
  <2>2. t \in DeleteCall
    BY <2>1, CallTyped, CallShape DEF BucketInv
  <2> QED BY <2>1, <2>2 DEF DeleteCall
<1>2. k \in Objects /\ ~Busy(t)
  BY <1>1, FirstInside DEF Busy, Writers
<1>3. /\ body' = [body EXCEPT ![k] = AbsentFile]
      /\ transfer' = [transfer EXCEPT ![c] = [t EXCEPT !.pc = "meta", !.found = ObjectSize(k)]]
      /\ UNCHANGED <<bucket, objectMeta, index>>
  BY DEF DeleteBody, bucketStore, First
<1>4. Tear(g # bucket)
  BY DEF DeleteBody, Stale
<1>5. /\ objectMeta[k] \in Stamp /\ body[k] \in FileSize /\ ObjectSize(k) \in FileSize
      /\ ObjectSize(k) # AbsentFile <=> objectMeta[k] # NoMeta \/ body[k] # AbsentFile
  <2>1. objectMeta[k] \in Stamp /\ body[k] \in FileSize
    BY <1>2 DEF BucketInv, BucketTypeOK
  <2> QED BY <2>1, StampShape DEF ObjectSize
<1>6. PICK r : r = [t EXCEPT !.pc = "meta", !.found = ObjectSize(k)]
  OBVIOUS
<1>7. /\ r.op = "delete" /\ r.pc = "meta" /\ r.gen = g /\ r.keys = t.keys
      /\ r.found = ObjectSize(k) /\ transfer' = [transfer EXCEPT ![c] = r]
  BY <1>1, <1>3, <1>5, <1>6 DEF DeleteCall
<1>8. Busy(r) /\ Object(r) = k /\ Before(r) = ObjectSize(k)
  BY <1>7 DEF Busy, Object, Before, Writers
<1> HIDE DEF k
<1>9. /\ \A j \in Objects \ {k} : body'[j] = body[j] /\ objectMeta'[j] = objectMeta[j]
      /\ Listed' = Listed
  BY <1>3 DEF BucketInv, BucketTypeOK, Listed
<1>10. CASE g # bucket
  <2>1. torn' = torn + 1
    BY <1>4, <1>10 DEF Tear
  <2>2. bucket' = bucket /\ (Busy(r) => r.gen # bucket)
    BY <1>3, <1>7, <1>10
  <2>3. bucket # 0 => index'[bucket].count = index[bucket].count
    BY <1>3
  <2> QED BY <1>2, <1>7, <1>9, <1>10, <2>1, <2>2, <2>3, StrayDrift
<1>11. CASE g = bucket
  <2>1. torn' = torn
    BY <1>4, <1>11, TornCounts DEF Tear
  <2>2. bucket # 0 /\ bucket' = bucket
    BY <1>1, <1>3, <1>11 DEF Generations
  <2>3. transfer[c].gen = bucket /\ lock[bucket] \in {NoHolder, c}
    BY <1>1, <1>11
  <2>4. (Busy(transfer[c]) => Object(transfer[c]) = k) /\ (Busy(r) => r.gen = bucket /\ Object(r) = k)
    BY <1>2, <1>7, <1>8, <1>11
  <2>5. /\ Listed \ {k} = Listed' \ {k} /\ SeenSet \ {k} = SeenSet' \ {k}
        /\ k \in SeenSet <=> IF Busy(transfer[c]) THEN Before(transfer[c]) # AbsentFile
                             ELSE body[k] # AbsentFile
        /\ k \in SeenSet' <=> IF Busy(r) THEN Before(r) # AbsentFile
                              ELSE body'[k] # AbsentFile
    BY <1>2, <1>7, <1>9, <2>2, <2>3, <2>4, OwnWork
  <2>6. /\ k \in SeenSet <=> body[k] # AbsentFile
        /\ k \in SeenSet' <=> objectMeta[k] # NoMeta \/ body[k] # AbsentFile
    BY <1>2, <1>5, <1>8, <2>5
  <2>7. k \in Listed <=> objectMeta[k] # NoMeta
    BY <1>2 DEF Listed
  <2>8. index'[bucket].count = index[bucket].count
    BY <1>3
  <2> QED BY <1>2, <1>9, <2>1, <2>2, <2>5, <2>6, <2>7, <2>8, DriftStep
<1> QED BY <1>10, <1>11

LEMMA DeleteMetaDrift ==
  ASSUME BucketInv, DriftInv, BucketTypeOK', NEW c \in Clients, DeleteMeta(c)
  PROVE  DriftInv'
<1> DEFINE t == transfer[c]
           g == t.gen
           k == First(t.keys)
           rest == t.keys \ {k}
<1>1. /\ t \in DeleteCall /\ t.op = "delete" /\ t.pc = "meta" /\ t.found \in FileSize
      /\ g \in Generations /\ t.keys \in SUBSET Objects /\ t.keys # {}
  <2>1. t.op = "delete" /\ t.pc = "meta"
    BY DEF DeleteMeta, Deleting
  <2>2. t \in DeleteCall
    BY <2>1, CallTyped, CallShape DEF BucketInv
  <2> QED BY <2>1, <2>2 DEF DeleteCall
<1>2. k \in Objects /\ Busy(t) /\ Object(t) = k /\ Before(t) = t.found
  BY <1>1, FirstInside DEF Busy, Object, Before
<1>3. lock[g] = c
  BY <1>2 DEF BucketInv, Holders
<1>4. /\ objectMeta' = [objectMeta EXCEPT ![k] = NoMeta]
      /\ index' = [index EXCEPT ![g] = ForgetObject(index[g], k, t.found)]
      /\ Tear(body[k] # AbsentFile \/ Stale(c))
      /\ UNCHANGED <<bucket, body>>
  BY DEF DeleteMeta, bucketStore, First
<1>5. \E r \in AnyCall : transfer' = [transfer EXCEPT ![c] = r] /\ ~Busy(r)
  <2>1. CASE rest = {}
    <3>1. transfer' = [transfer EXCEPT ![c] = NoTransfer]
      BY <2>1 DEF DeleteMeta, EndTransfer, First
    <3> QED BY <3>1, NoTransferIdle
  <2>2. CASE rest # {}
    <3>1. transfer' = [transfer EXCEPT ![c] = [t EXCEPT !.pc = "lock", !.keys = rest]]
      BY <2>2 DEF DeleteMeta, First
    <3>2. rest \in (SUBSET Objects) \ {{}}
      <4>1. rest \subseteq Objects
        BY <1>1
      <4> HIDE DEF rest
      <4> QED BY <2>2, <4>1
    <3> HIDE DEF rest
    <3>3. PICK r : r = [t EXCEPT !.pc = "lock", !.keys = rest]
      OBVIOUS
    <3>4. r \in DeleteCall /\ r.op = "delete" /\ r.pc = "lock"
      BY <1>1, <3>2, <3>3 DEF DeleteCall
    <3>5. r \in AnyCall /\ ~Busy(r)
      BY <3>4 DEF AnyCall, Busy, Writers
    <3> QED BY <3>1, <3>3, <3>5
  <2> QED BY <2>1, <2>2
<1>6. PICK r \in AnyCall : transfer' = [transfer EXCEPT ![c] = r] /\ ~Busy(r)
  BY <1>5
<1> HIDE DEF k, rest
<1>7. \A j \in Objects \ {k} : body'[j] = body[j] /\ objectMeta'[j] = objectMeta[j]
  BY <1>4 DEF BucketInv, BucketTypeOK
<1>8. k \notin Listed'
  BY <1>2, <1>4 DEF Listed, BucketInv, BucketTypeOK
<1>9. \A h \in Generations \ {g} : index'[h] = index[h]
  BY <1>4 DEF BucketInv, BucketTypeOK
<1>10. index'[g] = ForgetObject(index[g], k, t.found)
  BY <1>1, <1>4 DEF BucketInv, BucketTypeOK
<1>11. index'[g].count = IF t.found = AbsentFile THEN index[g].count ELSE index[g].count - 1
  BY <1>10 DEF ForgetObject
<1>12. CASE g # bucket
  <2>1. torn' = torn + 1
    BY <1>4, <1>12 DEF Tear, Stale
  <2>2. bucket # 0 => index'[bucket].count = index[bucket].count
    BY <1>9, <1>12, BucketGeneration DEF BucketInv
  <2>3. bucket' = bucket
    BY <1>4
  <2> QED BY <1>2, <1>6, <1>7, <1>12, <2>1, <2>2, <2>3, StrayDrift
<1>13. CASE g = bucket
  <2>1. bucket # 0 /\ bucket' = bucket
    BY <1>1, <1>4, <1>13 DEF Generations
  <2>2. transfer[c].gen = bucket /\ lock[bucket] \in {NoHolder, c}
    BY <1>3, <1>13
  <2>3. (Busy(transfer[c]) => Object(transfer[c]) = k) /\ (Busy(r) => r.gen = bucket /\ Object(r) = k)
    BY <1>2, <1>6
  <2>4. /\ Listed \ {k} = Listed' \ {k} /\ SeenSet \ {k} = SeenSet' \ {k}
        /\ k \in SeenSet <=> IF Busy(transfer[c]) THEN Before(transfer[c]) # AbsentFile
                             ELSE body[k] # AbsentFile
        /\ k \in SeenSet' <=> IF Busy(r) THEN Before(r) # AbsentFile
                              ELSE body'[k] # AbsentFile
    <3>1. k \in Objects /\ transfer' = [transfer EXCEPT ![c] = r]
      BY <1>2, <1>6
    <3> QED BY <1>7, <2>1, <2>2, <2>3, <3>1, OwnWork
  <2>5. /\ k \in SeenSet <=> t.found # AbsentFile
        /\ k \in SeenSet' <=> body[k] # AbsentFile
    BY <1>2, <1>4, <1>6, <2>4
  <2>6. PICK m, n : m = index'[bucket].count /\ n = index[bucket].count
    OBVIOUS
  <2>7. /\ t.found = AbsentFile => m = n /\ k \notin SeenSet
        /\ t.found # AbsentFile => m = n - 1 /\ k \in SeenSet
    BY <1>11, <1>13, <2>5, <2>6
  <2>8. CASE body[k] = AbsentFile
    <3>1. torn' = torn
      BY <1>4, <1>13, <2>8, TornCounts DEF Tear, Stale
    <3>2. k \notin SeenSet'
      BY <2>5, <2>8
    <3> QED BY <1>2, <1>8, <2>1, <2>4, <2>6, <2>7, <3>1, <3>2, DriftStep
  <2>9. CASE body[k] # AbsentFile
    <3>1. torn' = torn + 1 /\ torn' >= torn + 1
      BY <1>4, <2>9, TornCounts DEF Tear
    <3> QED BY <1>2, <2>1, <2>4, <2>6, <2>7, <3>1, DriftStep
  <2> QED BY <2>8, <2>9
<1> QED BY <1>12, <1>13

(* Steps that neither write nor look at an object. *)
LEMMA CallDrift ==
  ASSUME BucketInv, DriftInv, NEW c \in Clients,
         \/ \E k \in Objects, size \in Sizes : PutObject(c, k, size)
         \/ \E src, k \in Objects : CopyObject(c, src, k)
         \/ \E ks \in (SUBSET Objects) \ {{}} : DeleteObjects(c, ks)
         \/ \E v \in Settings : PutBucketNotification(c, v)
         \/ DeleteBucket(c) \/ NotifyMemory(c) \/ NotifyFile(c)
  PROVE  DriftInv'
<1>1. ASSUME NEW r, ~Busy(r), BeginTransfer(c, r), FilesSame PROVE DriftInv'
  BY <1>1, NoTransferIdle, QuietDrift DEF BeginTransfer
<1>2. ASSUME NEW k \in Objects, NEW size \in Sizes, PutObject(c, k, size) PROVE DriftInv'
  <2> DEFINE r == [op |-> "put", pc |-> "create", gen |-> bucket, key |-> k, src |-> k,
                   size |-> size, prev |-> AbsentFile, linked |-> TRUE]
  <2>1. ~Busy(r) /\ BeginTransfer(c, r) /\ FilesSame
    BY <1>2 DEF Busy, Writers, PutObject, Lookup, FilesSame, bucketStore, objectFiles
  <2> HIDE DEF r
  <2> QED BY <1>1, <2>1
<1>3. ASSUME NEW src \in Objects, NEW k \in Objects, CopyObject(c, src, k) PROVE DriftInv'
  <2> DEFINE r == [op |-> "copy", pc |-> "create", gen |-> bucket, key |-> k, src |-> src,
                   size |-> body[src], prev |-> AbsentFile, linked |-> TRUE]
  <2>1. ~Busy(r) /\ BeginTransfer(c, r) /\ FilesSame
    BY <1>3 DEF Busy, Writers, CopyObject, Lookup, FilesSame, bucketStore, objectFiles
  <2> HIDE DEF r
  <2> QED BY <1>1, <2>1
<1>4. ASSUME NEW ks \in (SUBSET Objects) \ {{}}, DeleteObjects(c, ks) PROVE DriftInv'
  <2> DEFINE r == [op |-> "delete", pc |-> "lock", gen |-> bucket, keys |-> ks,
                   found |-> AbsentFile]
  <2>1. ~Busy(r) /\ BeginTransfer(c, r) /\ FilesSame
    BY <1>4 DEF Busy, Writers, DeleteObjects, Lookup, FilesSame, bucketStore, objectFiles
  <2> HIDE DEF r
  <2> QED BY <1>1, <2>1
<1>5. ASSUME NEW v \in Settings, PutBucketNotification(c, v) PROVE DriftInv'
  <2> DEFINE r == [op |-> "notify", pc |-> "memory", value |-> v]
  <2>1. ~Busy(r) /\ BeginTransfer(c, r) /\ FilesSame
    BY <1>5 DEF Busy, Writers, PutBucketNotification, Lookup, FilesSame, bucketStore, objectFiles
  <2> HIDE DEF r
  <2> QED BY <1>1, <2>1
<1>6. CASE DeleteBucket(c)
  <2> DEFINE r == [op |-> "rmdir", pc |-> "remove"]
  <2>1. ~Busy(r) /\ BeginTransfer(c, r) /\ FilesSame
    BY <1>6 DEF Busy, Writers, DeleteBucket, FilesSame, objectFiles
  <2> HIDE DEF r
  <2> QED BY <1>1, <2>1
<1>7. CASE NotifyMemory(c) \/ NotifyFile(c)
  <2>1. transfer[c] \in [op : {"notify"}, pc : {"memory", "file"}, value : Settings]
    BY <1>7, CallTyped DEF BucketInv, AnyCall, PutCall, DeleteCall, OtherCall, NoTransfer, Writers,
                           NotifyMemory, NotifyFile
  <2>2. ~Busy(transfer[c])
    BY <2>1 DEF Busy, Writers
  <2>3. FilesSame
    BY <1>7 DEF NotifyMemory, NotifyFile, FilesSame, objectFiles
  <2>4. CASE NotifyMemory(c)
    <3>1. PICK r : r = [transfer[c] EXCEPT !.pc = "file"]
      OBVIOUS
    <3>2. r.op = "notify"
      BY <2>1, <3>1
    <3>3. transfer' = [transfer EXCEPT ![c] = r] /\ ~Busy(r)
      BY <2>4, <3>1, <3>2 DEF NotifyMemory, TransferTo, Busy, Writers
    <3> QED BY <2>2, <2>3, <3>3, QuietDrift
  <2>5. CASE NotifyFile(c)
    BY <2>2, <2>3, <2>5, NoTransferIdle, QuietDrift DEF NotifyFile, EndTransfer
  <2> QED BY <1>7, <2>4, <2>5
<1> QED BY <1>2, <1>3, <1>4, <1>5, <1>6, <1>7

LEMMA UnionBound ==
  ASSUME NEW s \in SUBSET Objects, NEW u \in SUBSET Objects, NEW w \in SUBSET Objects,
         s \subseteq u \cup w
  PROVE  Cardinality(s) <= Cardinality(u) + Cardinality(w)
<1>1. IsFiniteSet(u) /\ IsFiniteSet(w) /\ IsFiniteSet(u \cup w)
  <2>1. u \cup w \in SUBSET Objects
    OBVIOUS
  <2> QED BY <2>1, ObjectSets
<1>2. /\ Cardinality(s) \in Nat /\ Cardinality(u) \in Nat /\ Cardinality(w) \in Nat
      /\ Cardinality(u \cap w) \in Nat /\ Cardinality(u \cup w) \in Nat
  <2>1. u \cap w \in SUBSET Objects /\ u \cup w \in SUBSET Objects
    OBVIOUS
  <2> QED BY <2>1, ObjectSets
<1>3. Cardinality(u \cup w) = Cardinality(u) + Cardinality(w) - Cardinality(u \cap w)
  BY <1>1, FS_Union
<1>4. Cardinality(s) <= Cardinality(u \cup w)
  BY <1>1, FS_Subset
<1> QED BY <1>2, <1>3, <1>4

(* No call works on the bucket. *)
LEMMA FreshDrift ==
  ASSUME \A d \in Clients : ~(Busy(transfer'[d]) /\ transfer'[d].gen = bucket')
  PROVE  SeenSet' = {j \in Objects : body'[j] # AbsentFile}
<1>1. \A j \in Objects : Workers(j)' = {}
  BY DEF Workers, Works
<1> QED BY <1>1 DEF SeenSet, Seen

LEMMA CreateBucketDrift ==
  ASSUME BucketInv, CreateBucket
  PROVE  DriftInv'
<1> DEFINE g == nbuckets + 1
<1>1. /\ bucket = 0 /\ bucket' = g /\ g \in Generations /\ nbuckets \in Nat /\ torn' = 0
      /\ UNCHANGED <<body, objectMeta, index, transfer>>
  BY S3Assumption DEF CreateBucket, CountedCall, BucketInv, BucketTypeOK, Generations
<1>2. /\ \A k \in Objects : body[k] = AbsentFile /\ objectMeta[k] = NoMeta
      /\ index[g] = EmptyIndex
  BY <1>1 DEF BucketInv, GoneWhenDeleted
<1>3. ASSUME NEW d \in Clients PROVE ~(Busy(transfer'[d]) /\ transfer'[d].gen = bucket')
  <2>1. Busy(transfer[d]) => transfer[d].gen \in Generations /\ transfer[d].gen <= nbuckets
    BY CallTyped, CallShape DEF BucketInv, Holders, Busy, PutCall, DeleteCall
  <2> QED BY <1>1, <2>1 DEF Generations
<1>4. SeenSet' = {} /\ Listed' = {}
  <2>1. SeenSet' = {j \in Objects : body'[j] # AbsentFile}
    BY <1>3, FreshDrift
  <2> QED BY <1>1, <1>2, <2>1 DEF Listed
<1>5. index'[bucket'].count = 0
  BY <1>1, <1>2 DEF EmptyIndex
<1>6. Cardinality(Listed' \cap SeenSet') = 0 /\ Cardinality(Listed' \cup SeenSet') = 0
  BY <1>4, FS_EmptySet
<1> QED BY <1>1, <1>5, <1>6 DEF DriftInv

LEMMA CrashStoreDrift ==
  ASSUME BucketInv, CrashStore
  PROVE  DriftInv'
<1> DEFINE g == nbuckets + 1
<1>1. /\ g \in Generations /\ index' = [index EXCEPT ![g] = IF objectDir THEN RebuildIndex ELSE EmptyIndex]
      /\ bucket' = (IF objectDir THEN g ELSE 0) /\ torn' = Cardinality(Mismatched)
      /\ transfer' = [d \in Clients |-> NoTransfer] /\ UNCHANGED <<body, objectMeta>>
  BY S3Assumption DEF CrashStore, objectFiles, BucketInv, BucketTypeOK, Generations
<1>2. SUFFICES ASSUME objectDir PROVE DriftInv'
  BY <1>1 DEF DriftInv
<1>3. index'[bucket'].count = Cardinality(Listed) /\ Listed' = Listed
  BY <1>1, <1>2 DEF RebuildIndex, Listed, BucketInv, BucketTypeOK
<1>4. SeenSet' = {j \in Objects : body[j] # AbsentFile}
  <2>1. \A d \in Clients : ~(Busy(transfer'[d]) /\ transfer'[d].gen = bucket')
    BY <1>1, NoTransferIdle
  <2> QED BY <1>1, <2>1, FreshDrift
<1>5. PICK here : here = {j \in Objects : body[j] # AbsentFile}
  OBVIOUS
<1>6. \A j \in Objects : j \in Mismatched \/ (j \in Listed <=> j \in here)
  <2>1. \A j \in Objects : objectMeta[j] \in Stamp
    BY DEF BucketInv, BucketTypeOK
  <2>2. \A j \in Objects : objectMeta[j] = NoMeta <=> objectMeta[j].size = AbsentFile
    BY <2>1, StampShape
  <2> QED BY <1>5, <2>2 DEF Mismatched, Listed
<1>7. /\ Listed \in SUBSET Objects /\ here \in SUBSET Objects /\ Mismatched \in SUBSET Objects
      /\ Listed \cap here \in SUBSET Objects /\ Listed \cup here \in SUBSET Objects
  BY <1>5 DEF Listed, Mismatched
<1>8. Cardinality(Listed) <= Cardinality(Listed \cap here) + Cardinality(Mismatched)
  <2>1. Listed \subseteq (Listed \cap here) \cup Mismatched
    BY <1>6, <1>7
  <2> QED BY <1>7, <2>1, UnionBound
<1>9. Cardinality(Listed \cup here) <= Cardinality(Listed) + Cardinality(Mismatched)
  <2>1. Listed \cup here \subseteq Listed \cup Mismatched
    BY <1>6, <1>7
  <2> QED BY <1>7, <2>1, UnionBound
<1> QED BY <1>1, <1>3, <1>4, <1>5, <1>8, <1>9 DEF DriftInv

LEMMA DriftNext == BucketInv /\ DriftInv /\ [BucketNext]_bucketVars => DriftInv'
<1> SUFFICES ASSUME BucketInv, DriftInv, [BucketNext]_bucketVars PROVE DriftInv'
  OBVIOUS
<1>1. BucketTypeOK'
  BY BucketStep DEF BucketInv
<1>2. CASE UNCHANGED bucketVars
  <2>1. FilesSame /\ UNCHANGED transfer
    BY <1>2 DEF bucketVars, FilesSame
  <2> QED BY <2>1, StillDrift
<1>3. ASSUME NEW c \in Clients,
             \/ \E k \in Objects, size \in Sizes : PutObject(c, k, size)
             \/ \E src, k \in Objects : CopyObject(c, src, k)
             \/ \E ks \in (SUBSET Objects) \ {{}} : DeleteObjects(c, ks)
             \/ \E v \in Settings : PutBucketNotification(c, v)
             \/ DeleteBucket(c) \/ NotifyMemory(c) \/ NotifyFile(c)
      PROVE  DriftInv'
  BY <1>3, CallDrift
<1>4. ASSUME NEW c \in Clients, PutCreate(c) PROVE DriftInv'
  BY <1>1, <1>4, PutCreateDrift
<1>5. ASSUME NEW c \in Clients, PutCopy(c) PROVE DriftInv'
  BY <1>1, <1>5, PutCopyDrift
<1>6. ASSUME NEW c \in Clients, PutMeta(c) PROVE DriftInv'
  BY <1>1, <1>6, PutMetaDrift
<1>7. ASSUME NEW c \in Clients, DeleteBody(c) PROVE DriftInv'
  BY <1>1, <1>7, DeleteBodyDrift
<1>8. ASSUME NEW c \in Clients, DeleteMeta(c) PROVE DriftInv'
  BY <1>1, <1>8, DeleteMetaDrift
<1>9. ASSUME NEW c \in Clients, RemoveBucket(c) PROVE DriftInv'
  BY <1>9 DEF RemoveBucket, DriftInv
<1>10. ASSUME NEW v \in Settings, UpdateBucketConfig(v) PROVE DriftInv'
  <2>1. FilesSame /\ UNCHANGED transfer
    BY <1>10 DEF UpdateBucketConfig, FilesSame, objectFiles
  <2> QED BY <2>1, StillDrift
<1>11. CASE CreateBucket
  BY <1>11, CreateBucketDrift
<1>12. CASE CrashStore
  BY <1>12, CrashStoreDrift
<1> QED BY <1>2, <1>3, <1>4, <1>5, <1>6, <1>7, <1>8, <1>9, <1>10, <1>11, <1>12 DEF BucketNext

LEMMA DriftInvAlways == BucketSpec => []DriftInv
<1>1. BucketInit => DriftInv
  BY DEF BucketInit, DriftInv
<1> QED BY <1>1, BucketInvAlways, DriftNext, PTL DEF BucketSpec

(* Whatever overwrites, copies, deletions, failures, crashes and            *)
(* re-creations of the bucket came before, the count of a bucket that nobody *)
(* writes to differs from the number of objects ListObjects reads from the    *)
(* files by at most the number of writes that were torn: uploads that failed  *)
(* over an object that was there, bodies and metadata that a crash left       *)
(* apart, and file changes of a call whose bucket was deleted.  If there was  *)
(* none, the size is exact too and the preview shows only listed objects.     *)
THEOREM IndexStaysExact == BucketSpec => []IndexExact
<1>1. BucketInv /\ DriftInv => IndexExact
  <2> SUFFICES ASSUME BucketInv, DriftInv, bucket # 0, lock[bucket] = NoHolder PROVE IndexExact
    BY DEF IndexExact
  <2>1. index[bucket].count - Cardinality(Listed) \in -torn .. torn
    <3>1. bucket \in Generations
      BY BucketGeneration DEF BucketInv
    <3>2. index[bucket].count \in Int /\ torn \in Nat
      BY <3>1 DEF BucketInv, BucketTypeOK
    <3>3. /\ Listed \in SUBSET Objects /\ SeenSet \in SUBSET Objects
          /\ Listed \cap SeenSet \in SUBSET Objects /\ Listed \cup SeenSet \in SUBSET Objects
      BY DEF Listed, SeenSet
    <3>4. /\ Cardinality(Listed) \in Nat /\ Cardinality(Listed \cap SeenSet) \in Nat
          /\ Cardinality(Listed \cup SeenSet) \in Nat
      BY <3>3, ObjectSets
    <3>5. /\ Cardinality(Listed \cap SeenSet) <= Cardinality(Listed)
          /\ Cardinality(Listed) <= Cardinality(Listed \cup SeenSet)
      <4>1. IsFiniteSet(Listed) /\ IsFiniteSet(Listed \cup SeenSet)
        BY <3>3, ObjectSets
      <4>2. Listed \cap SeenSet \subseteq Listed /\ Listed \subseteq Listed \cup SeenSet
        OBVIOUS
      <4> QED BY <4>1, <4>2, FS_Subset
    <3>6. /\ index[bucket].count <= Cardinality(Listed \cap SeenSet) + torn
          /\ Cardinality(Listed \cup SeenSet) <= index[bucket].count + torn
      BY DEF DriftInv
    <3> QED BY <3>2, <3>4, <3>5, <3>6
  <2>2. torn = 0 => /\ index[bucket].total = Sizing(objectMeta, Listed)
                    /\ index[bucket].recent \subseteq {Stamped(k) : k \in Listed}
    BY DEF BucketInv, ExactInv, Matches
  <2> QED BY <2>1, <2>2 DEF IndexExact
<1> QED BY <1>1, BucketInvAlways, DriftInvAlways, PTL

(* The bucket, its files, its locks and the calls under way keep their type: *)
(* in particular a call that outlives its bucket still has a bucketState.    *)
THEOREM BucketType == BucketSpec => []BucketTypeOK
<1>1. BucketInv => BucketTypeOK
  BY DEF BucketInv
<1> QED BY <1>1, BucketInvAlways, PTL

(***************************************************************************)
(* THE LOG GROUPS                                                          *)
(***************************************************************************)
LogEvent == [time : Times, id : 1 .. MaxLines]

(* A ring whose count and head fit its buffer. *)
RingShape(r) ==
  /\ r \in [events : Seq(LogEvent), head : 0 .. MaxEvents - 1, count : 0 .. MaxEvents,
            streams : {r.streams}, retention : Nat]
  /\ r.count = Len(r.events)
  /\ r.count < MaxEvents => r.head = r.count

LEMMA SmallModulo ==
  ASSUME NEW m \in Nat \ {0}, NEW x \in 0 .. m - 1 PROVE x % m = x
OBVIOUS

LEMMA OverModulo ==
  ASSUME NEW m \in Nat \ {0}, NEW x \in m .. 2 * m - 1 PROVE x % m = x - m
OBVIOUS

LEMMA WrapModulo ==
  ASSUME NEW m \in Nat \ {0}, NEW x \in 0 .. 2 * m - 1
  PROVE  x % m = IF x < m THEN x ELSE x - m
<1>1. CASE x < m
  <2>1. x \in 0 .. m - 1
    BY <1>1
  <2> QED BY <1>1, <2>1, SmallModulo
<1>2. CASE x >= m
  <2>1. x \in m .. 2 * m - 1
    BY <1>2
  <2>2. ~(x < m)
    BY <1>2
  <2> QED BY <2>1, <2>2, OverModulo
<1> QED BY <1>1, <1>2

(* Where the i-th oldest event is. *)
LEMMA SlotOf ==
  ASSUME NEW r, RingShape(r), NEW i \in 1 .. r.count
  PROVE  /\ RingSlot(r, i) \in 1 .. r.count
         /\ r.count < MaxEvents => RingSlot(r, i) = i
         /\ r.count = MaxEvents =>
              RingSlot(r, i) = IF r.head + i <= MaxEvents THEN r.head + i
                               ELSE r.head + i - MaxEvents
<1>1. MaxEvents \in Nat \ {0} /\ MaxEvents \in Nat /\ MaxEvents > 0
  BY LogsAssumption
<1>2. r.count \in 0 .. MaxEvents /\ r.head \in 0 .. MaxEvents - 1
  BY DEF RingShape
<1>3. CASE r.count < MaxEvents
  <2>1. r.head - r.count + MaxEvents = MaxEvents
    BY <1>1, <1>2, <1>3 DEF RingShape
  <2>2. RingStart(r) = 0
    <3>1. MaxEvents \in 0 .. 2 * MaxEvents - 1
      BY <1>1
    <3>2. MaxEvents % MaxEvents = 0
      BY <1>1, <3>1, WrapModulo
    <3> QED BY <2>1, <3>2 DEF RingStart
  <2>3. RingStart(r) + i - 1 = i - 1 /\ i - 1 \in 0 .. 2 * MaxEvents - 1 /\ i - 1 < MaxEvents
    BY <1>1, <1>2, <2>2
  <2>4. (i - 1) % MaxEvents = i - 1
    BY <1>1, <2>3, WrapModulo
  <2>5. RingSlot(r, i) = i
    BY <1>2, <2>3, <2>4 DEF RingSlot
  <2> QED BY <1>1, <1>2, <1>3, <2>5
<1>4. CASE r.count = MaxEvents
  <2>1. r.head - r.count + MaxEvents = r.head
    BY <1>1, <1>2, <1>4
  <2>2. RingStart(r) = r.head
    <3>1. r.head \in 0 .. 2 * MaxEvents - 1 /\ r.head < MaxEvents
      BY <1>1, <1>2
    <3>2. r.head % MaxEvents = r.head
      BY <1>1, <3>1, WrapModulo
    <3> QED BY <2>1, <3>2 DEF RingStart
  <2>3. PICK x : x = r.head + i - 1
    OBVIOUS
  <2>4. x \in 0 .. 2 * MaxEvents - 1 /\ x % MaxEvents = IF x < MaxEvents THEN x ELSE x - MaxEvents
    <3>1. x \in 0 .. 2 * MaxEvents - 1
      BY <1>1, <1>2, <2>3
    <3> QED BY <1>1, <3>1, WrapModulo
  <2>5. RingSlot(r, i) = (x % MaxEvents) + 1
    BY <2>2, <2>3 DEF RingSlot
  <2>6. RingSlot(r, i) = IF r.head + i <= MaxEvents THEN r.head + i ELSE r.head + i - MaxEvents
    BY <1>1, <1>2, <2>3, <2>4, <2>5
  <2> QED BY <1>1, <1>2, <1>4, <2>6
<1> QED BY <1>1, <1>2, <1>3, <1>4

LEMMA RingReads ==
  ASSUME NEW r, RingShape(r)
  PROVE  /\ RingEvents(r) \in Seq(LogEvent) /\ Len(RingEvents(r)) = r.count
         /\ r.count < MaxEvents => RingEvents(r) = r.events
<1>1. r.count \in Nat /\ r.events \in Seq(LogEvent) /\ Len(r.events) = r.count
  BY LogsAssumption DEF RingShape
<1>2. \A i \in 1 .. r.count : r.events[RingSlot(r, i)] \in LogEvent
  BY <1>1, SlotOf, ElementOfSeq
<1>3. RingEvents(r) = [i \in 1 .. r.count |-> r.events[RingSlot(r, i)]]
  BY DEF RingEvents
<1>4. RingEvents(r) \in [1 .. r.count -> LogEvent]
  BY <1>2, <1>3
<1>5. RingEvents(r) \in Seq(LogEvent)
  BY <1>1, <1>4, SeqDef
<1>6. Len(RingEvents(r)) = r.count
  BY <1>1, <1>3, <1>5, LenProperties
<1>7. ASSUME r.count < MaxEvents PROVE RingEvents(r) = r.events
  <2>1. \A i \in 1 .. r.count : RingEvents(r)[i] = r.events[i]
    BY <1>3, <1>7, SlotOf
  <2> QED BY <1>1, <1>5, <1>6, <2>1, SeqEqual
<1> QED BY <1>5, <1>6, <1>7

(* What the newest events of a sequence with one more are. *)
LEMMA NewestOf ==
  ASSUME NEW s \in Seq(LogEvent), NEW e \in LogEvent, Len(s) <= MaxEvents
  PROVE  /\ Book!Newest(Append(s, e)) \in Seq(LogEvent)
         /\ Len(s) < MaxEvents => Book!Newest(Append(s, e)) = Append(s, e)
         /\ Len(s) = MaxEvents =>
              /\ Len(Book!Newest(Append(s, e))) = MaxEvents
              /\ \A i \in 1 .. MaxEvents :
                   Book!Newest(Append(s, e))[i] = IF i = MaxEvents THEN e ELSE s[i + 1]
<1> DEFINE t == Append(s, e)
<1>1. /\ t \in Seq(LogEvent) /\ Len(t) = Len(s) + 1 /\ t[Len(s) + 1] = e
      /\ \A i \in 1 .. Len(s) : t[i] = s[i]
  BY AppendProperties
<1>2. MaxEvents \in Nat \ {0} /\ Len(s) \in Nat
  BY LogsAssumption, LenProperties
<1> HIDE DEF t
<1>3. CASE Len(s) < MaxEvents
  <2>0. ~(Len(t) > MaxEvents)
    BY <1>1, <1>2, <1>3
  <2>1. Book!Newest(t) = SubSeq(t, 1, Len(t))
    <3>1. 1 + (IF Len(t) > MaxEvents THEN Len(t) - MaxEvents ELSE 0) = 1
      BY <2>0
    <3> QED BY <3>1, Zenon DEF Book!Newest
  <2>2. Book!Newest(t) = t
    BY <1>1, <2>1, SubSeqFull
  <2> QED BY <1>1, <1>2, <1>3, <2>2 DEF t
<1>4. CASE Len(s) = MaxEvents
  <2>1. Book!Newest(t) = SubSeq(t, 2, MaxEvents + 1)
    BY <1>1, <1>2, <1>4 DEF Book!Newest
  <2>2. 2 \in 1 .. Len(t) + 1 /\ MaxEvents + 1 \in 1 - 1 .. Len(t) /\ MaxEvents + 1 >= 2 - 1
    BY <1>1, <1>2, <1>4
  <2>3. /\ SubSeq(t, 2, MaxEvents + 1) \in Seq(LogEvent)
        /\ Len(SubSeq(t, 2, MaxEvents + 1)) = MaxEvents
        /\ \A i \in 1 .. MaxEvents : SubSeq(t, 2, MaxEvents + 1)[i] = t[i + 1]
    BY <1>1, <1>2, <1>4, SubSeqProperties
  <2>4. ASSUME NEW i \in 1 .. MaxEvents PROVE t[i + 1] = IF i = MaxEvents THEN e ELSE s[i + 1]
    BY <1>1, <1>2, <1>4
  <2> QED BY <1>2, <1>4, <2>1, <2>3, <2>4 DEF t
<1> QED BY <1>2, <1>3, <1>4

LEMMA PutOne ==
  ASSUME NEW r, RingShape(r), NEW e \in LogEvent
  PROVE  /\ RingShape(RingPut(r, e)) /\ RingPut(r, e).retention = r.retention
         /\ RingEvents(RingPut(r, e)) = Book!Newest(Append(RingEvents(r), e))
<1>1. MaxEvents \in Nat \ {0} /\ r.count \in 0 .. MaxEvents /\ r.head \in 0 .. MaxEvents - 1
  BY LogsAssumption DEF RingShape
<1>2. /\ r.events \in Seq(LogEvent) /\ r.count = Len(r.events) /\ r.retention \in Nat
      /\ r.count < MaxEvents => r.head = r.count
  BY DEF RingShape
<1>3. /\ RingEvents(r) \in Seq(LogEvent) /\ Len(RingEvents(r)) = r.count
      /\ r.count < MaxEvents => RingEvents(r) = r.events
  BY RingReads
<1>4. CASE r.count < MaxEvents
  <2>1. PICK grown : grown = Append(r.events, e)
    OBVIOUS
  <2>2. grown \in Seq(LogEvent) /\ Len(grown) = r.count + 1
    BY <1>2, <2>1, AppendProperties
  <2>3. PICK q : q = RingPut(r, e)
    OBVIOUS
  <2>4. q = [r EXCEPT !.events = grown, !.count = Len(grown), !.head = Len(grown) % MaxEvents]
    BY <1>2, <1>4, <2>1, <2>3 DEF RingPut
  <2>5. PICK h : h = Len(grown) % MaxEvents
    OBVIOUS
  <2>6. h = IF r.count + 1 = MaxEvents THEN 0 ELSE r.count + 1
    <3>1. r.count + 1 \in 0 .. 2 * MaxEvents - 1
      BY <1>1, <1>4
    <3>2. (r.count + 1) % MaxEvents = IF r.count + 1 < MaxEvents THEN r.count + 1
                                      ELSE r.count + 1 - MaxEvents
      BY <1>1, <3>1, WrapModulo
    <3>3. h = (r.count + 1) % MaxEvents
      BY <2>2, <2>5, Zenon
    <3>4. PICK w : w = (r.count + 1) % MaxEvents
      OBVIOUS
    <3>5. w = IF r.count + 1 < MaxEvents THEN r.count + 1 ELSE r.count + 1 - MaxEvents
      BY <3>2, <3>4, Zenon
    <3>6. h = w
      BY <3>3, <3>4, Zenon
    <3> QED BY <1>1, <1>4, <3>5, <3>6
  <2>7. /\ q.events = grown /\ q.count = r.count + 1 /\ q.head = h /\ q.retention = r.retention
        /\ q.streams = r.streams
        /\ q \in [events : Seq(LogEvent), head : 0 .. MaxEvents - 1, count : 0 .. MaxEvents,
                  streams : {r.streams}, retention : Nat]
    <3>1. h \in 0 .. MaxEvents - 1 /\ r.count + 1 \in 0 .. MaxEvents
      BY <1>1, <1>4, <2>6
    <3>2. q = [r EXCEPT !.events = grown, !.count = r.count + 1, !.head = h]
      BY <2>2, <2>4, <2>5
    <3> QED BY <2>2, <3>1, <3>2 DEF RingShape
  <2>8. RingShape(q)
    BY <1>1, <1>4, <2>2, <2>6, <2>7 DEF RingShape
  <2>9. RingEvents(q) = grown
    <3>1. CASE r.count + 1 < MaxEvents
      BY <2>7, <2>8, <3>1, RingReads
    <3>2. CASE r.count + 1 = MaxEvents
      <4>1. RingEvents(q) \in Seq(LogEvent) /\ Len(RingEvents(q)) = MaxEvents
        BY <2>7, <2>8, <3>2, RingReads
      <4>2. ASSUME NEW i \in 1 .. MaxEvents PROVE RingEvents(q)[i] = grown[i]
        <5>1. RingSlot(q, i) = i
          <6>1. h = 0
            BY <2>6, <3>2
          <6>2. q.head = 0 /\ q.count = MaxEvents
            BY <2>7, <3>2, <6>1
          <6>3. RingSlot(q, i) = IF q.head + i <= MaxEvents THEN q.head + i
                                 ELSE q.head + i - MaxEvents
            BY <2>8, <6>2, SlotOf
          <6> QED BY <1>1, <6>2, <6>3
        <5> QED BY <2>7, <3>2, <5>1 DEF RingEvents
      <4>3. PICK shown : shown = RingEvents(q)
        OBVIOUS
      <4>4. shown \in Seq(LogEvent) /\ Len(shown) = Len(grown)
        BY <2>2, <3>2, <4>1, <4>3
      <4>5. \A i \in 1 .. Len(shown) : shown[i] = grown[i]
        BY <3>2, <4>1, <4>2, <4>3
      <4>6. shown = grown
        BY <2>2, <4>4, <4>5, SeqEqual
      <4> QED BY <4>3, <4>6
    <3> QED BY <1>1, <1>4, <3>1, <3>2
  <2>10. Book!Newest(Append(RingEvents(r), e)) = grown
    <3>1. RingEvents(r) = r.events
      BY <1>3, <1>4
    <3>2. Len(RingEvents(r)) < MaxEvents
      BY <1>1, <1>3, <1>4
    <3>3. Len(RingEvents(r)) <= MaxEvents
      BY <1>1, <1>3, <3>2
    <3>4. Book!Newest(Append(RingEvents(r), e)) = Append(RingEvents(r), e)
      BY <1>3, <3>2, <3>3, NewestOf
    <3> QED BY <2>1, <3>1, <3>4
  <2> QED BY <2>3, <2>7, <2>8, <2>9, <2>10
<1>5. CASE r.count = MaxEvents
  <2>1. PICK ev : ev = [r.events EXCEPT ![r.head + 1] = e]
    OBVIOUS
  <2>2. r.head + 1 \in 1 .. Len(r.events)
    BY <1>1, <1>2, <1>5
  <2>3. /\ ev \in Seq(LogEvent) /\ Len(ev) = MaxEvents /\ ev[r.head + 1] = e
        /\ \A i \in 1 .. MaxEvents : i # r.head + 1 => ev[i] = r.events[i]
    <3>1. ev \in Seq(LogEvent) /\ Len(ev) = Len(r.events)
      BY <1>2, <2>1, <2>2, ExceptSeq
    <3>2. \A i \in 1 .. Len(r.events) : ev[i] = IF i = r.head + 1 THEN e ELSE r.events[i]
      BY <1>2, <2>1, <2>2, ExceptSeq
    <3> QED BY <1>2, <1>5, <2>2, <3>1, <3>2
  <2>4. PICK h : h = (r.head + 1) % MaxEvents
    OBVIOUS
  <2>5. h = IF r.head + 1 = MaxEvents THEN 0 ELSE r.head + 1
    <3>1. r.head + 1 \in 0 .. 2 * MaxEvents - 1
      BY <1>1
    <3>2. (r.head + 1) % MaxEvents = IF r.head + 1 < MaxEvents THEN r.head + 1
                                     ELSE r.head + 1 - MaxEvents
      BY <1>1, <3>1, WrapModulo
    <3>3. PICK w : w = (r.head + 1) % MaxEvents
      OBVIOUS
    <3>4. w = IF r.head + 1 < MaxEvents THEN r.head + 1 ELSE r.head + 1 - MaxEvents
      BY <3>2, <3>3, Zenon
    <3>5. h = w
      BY <2>4, <3>3, Zenon
    <3> QED BY <1>1, <3>4, <3>5
  <2>6. PICK q : q = RingPut(r, e)
    OBVIOUS
  <2>7. q = [r EXCEPT !.events = ev, !.head = h]
    <3>1. ~(Len(r.events) < MaxEvents)
      BY <1>1, <1>2, <1>5
    <3>2. q = [r EXCEPT !.events[r.head + 1] = e, !.head = (r.head + 1) % MaxEvents]
      BY <2>6, <3>1, Zenon DEF RingPut
    <3>3. q = [r EXCEPT !.events = [r.events EXCEPT ![r.head + 1] = e], !.head = h]
      BY <2>4, <3>2 DEF RingShape
    <3> QED BY <2>1, <3>3
  <2>8. /\ q.events = ev /\ q.count = MaxEvents /\ q.head = h /\ q.retention = r.retention
        /\ q.streams = r.streams
        /\ q \in [events : Seq(LogEvent), head : 0 .. MaxEvents - 1, count : 0 .. MaxEvents,
                  streams : {r.streams}, retention : Nat]
    <3>1. h \in 0 .. MaxEvents - 1
      BY <1>1, <2>5
    <3> QED BY <1>5, <2>3, <2>7, <3>1 DEF RingShape
  <2>9. RingShape(q)
    BY <1>1, <2>3, <2>8 DEF RingShape
  <2>10. RingEvents(q) \in Seq(LogEvent) /\ Len(RingEvents(q)) = MaxEvents
    BY <2>8, <2>9, RingReads
  <2>11. PICK n : n = Book!Newest(Append(RingEvents(r), e))
    OBVIOUS
  <2>12. /\ n \in Seq(LogEvent) /\ Len(n) = MaxEvents
         /\ \A i \in 1 .. MaxEvents : n[i] = IF i = MaxEvents THEN e ELSE RingEvents(r)[i + 1]
    <3>1. Len(RingEvents(r)) = MaxEvents /\ Len(RingEvents(r)) <= MaxEvents
      BY <1>1, <1>3, <1>5
    <3>2. Book!Newest(Append(RingEvents(r), e)) \in Seq(LogEvent)
      BY <1>3, <3>1, NewestOf
    <3>3. Len(Book!Newest(Append(RingEvents(r), e))) = MaxEvents
      BY <1>3, <3>1, NewestOf
    <3>4. \A i \in 1 .. MaxEvents : Book!Newest(Append(RingEvents(r), e))[i] =
                                     IF i = MaxEvents THEN e ELSE RingEvents(r)[i + 1]
      BY <1>3, <3>1, NewestOf
    <3> QED BY <2>11, <3>2, <3>3, <3>4
  <2>13. ASSUME NEW i \in 1 .. MaxEvents PROVE RingEvents(q)[i] = n[i]
    <3>1. RingEvents(q)[i] = ev[RingSlot(q, i)]
      BY <2>8 DEF RingEvents
    <3>2. RingSlot(q, i) = IF h + i <= MaxEvents THEN h + i ELSE h + i - MaxEvents
      BY <2>8, <2>9, SlotOf
    <3>3. CASE i = MaxEvents
      <4>1. RingSlot(q, i) = r.head + 1
        BY <1>1, <2>5, <3>2, <3>3
      <4> QED BY <2>3, <2>12, <3>1, <3>3, <4>1
    <3>4. CASE i # MaxEvents
      <4>1. i + 1 \in 1 .. MaxEvents
        BY <1>1, <3>4
      <4>2. RingSlot(r, i + 1) = IF r.head + (i + 1) <= MaxEvents THEN r.head + (i + 1)
                                 ELSE r.head + (i + 1) - MaxEvents
        BY <1>5, <4>1, SlotOf
      <4>3. /\ RingSlot(q, i) = RingSlot(r, i + 1) /\ RingSlot(q, i) # r.head + 1
            /\ RingSlot(q, i) \in 1 .. MaxEvents
        BY <1>1, <2>5, <3>2, <3>4, <4>1, <4>2
      <4>4. RingEvents(r)[i + 1] = r.events[RingSlot(r, i + 1)]
        BY <1>5, <4>1 DEF RingEvents
      <4> QED BY <2>3, <2>12, <3>1, <3>4, <4>3, <4>4
    <3> QED BY <3>3, <3>4
  <2>14. RingEvents(q) = n
    BY <2>10, <2>12, <2>13, SeqEqual
  <2> QED BY <2>6, <2>8, <2>9, <2>11, <2>14
<1> QED BY <1>1, <1>4, <1>5

LEMMA NewestElements ==
  ASSUME NEW t \in Seq(LogEvent)
  PROVE  LET n == Book!Newest(t)
         IN  /\ n \in Seq(LogEvent)
             /\ Len(n) = IF Len(t) > MaxEvents THEN MaxEvents ELSE Len(t)
             /\ \A i \in 1 .. Len(n) : n[i] = t[i + (Len(t) - Len(n))]
<1>1. MaxEvents \in Nat \ {0} /\ Len(t) \in Nat /\ \A i \in 1 .. Len(t) : t[i] \in LogEvent
  BY LogsAssumption, LenProperties, ElementOfSeq
<1>2. PICK d : d = IF Len(t) > MaxEvents THEN Len(t) - MaxEvents ELSE 0
  OBVIOUS
<1>3. d \in Nat /\ d <= Len(t)
  BY <1>1, <1>2
<1>4. PICK n : n = SubSeq(t, 1 + d, Len(t))
  OBVIOUS
<1>5. Book!Newest(t) = n
  BY <1>2, <1>4 DEF Book!Newest
<1>6. 1 + d \in Int /\ Len(t) \in Int /\ \A i \in 1 + d .. Len(t) : t[i] \in LogEvent
  BY <1>1, <1>3
<1>7. /\ n \in Seq(LogEvent)
      /\ Len(n) = IF 1 + d <= Len(t) THEN Len(t) - (1 + d) + 1 ELSE 0
      /\ \A i \in 1 .. Len(t) - (1 + d) + 1 : n[i] = t[(1 + d) + i - 1]
  BY <1>4, <1>6, SubSeqProperties
<1>8. Len(n) = Len(t) - d /\ Len(n) = IF Len(t) > MaxEvents THEN MaxEvents ELSE Len(t)
  <2>1. Len(n) = IF 1 + d <= Len(t) THEN Len(t) - (1 + d) + 1 ELSE 0
    BY <1>7
  <2>2. Len(n) = Len(t) - d
    BY <1>1, <1>3, <2>1
  <2> QED BY <1>1, <1>2, <2>2
<1>9. \A i \in 1 .. Len(n) : n[i] = t[i + (Len(t) - Len(n))]
  <2> TAKE i \in 1 .. Len(n)
  <2>1. i \in 1 .. Len(t) - (1 + d) + 1 /\ (1 + d) + i - 1 = i + (Len(t) - Len(n))
    BY <1>1, <1>3, <1>8
  <2> QED BY <1>7, <2>1
<1> QED BY <1>5, <1>7, <1>8, <1>9

(* Two events in one go or one after the other: the same newest remain. *)
LEMMA NewestTwice ==
  ASSUME NEW s \in Seq(LogEvent), NEW e \in LogEvent, NEW f \in LogEvent, Len(s) <= MaxEvents
  PROVE  Book!Newest(Append(Book!Newest(Append(s, e)), f)) = Book!Newest(s \o <<e, f>>)
<1>1. MaxEvents \in Nat \ {0} /\ Len(s) \in Nat
  BY LogsAssumption, LenProperties
<1>2. PICK t : t = Append(s, e)
  OBVIOUS
<1>3. /\ t \in Seq(LogEvent) /\ Len(t) = Len(s) + 1 /\ t[Len(s) + 1] = e
      /\ \A i \in 1 .. Len(s) : t[i] = s[i]
  BY <1>2, AppendProperties
<1>4. PICK a : a = Book!Newest(t)
  OBVIOUS
<1>5. /\ a \in Seq(LogEvent) /\ Len(a) = IF Len(t) > MaxEvents THEN MaxEvents ELSE Len(t)
      /\ \A i \in 1 .. Len(a) : a[i] = t[i + (Len(t) - Len(a))]
  BY <1>3, <1>4, NewestElements
<1>6. PICK u : u = Append(a, f)
  OBVIOUS
<1>7. /\ u \in Seq(LogEvent) /\ Len(u) = Len(a) + 1 /\ u[Len(a) + 1] = f
      /\ \A i \in 1 .. Len(a) : u[i] = a[i]
  BY <1>5, <1>6, AppendProperties
<1>8. PICK b : b = Book!Newest(u)
  OBVIOUS
<1>9. /\ b \in Seq(LogEvent) /\ Len(b) = IF Len(u) > MaxEvents THEN MaxEvents ELSE Len(u)
      /\ \A i \in 1 .. Len(b) : b[i] = u[i + (Len(u) - Len(b))]
  BY <1>7, <1>8, NewestElements
<1>10. PICK p : p = <<e, f>>
  OBVIOUS
<1>11. p \in Seq(LogEvent) /\ Len(p) = 2 /\ p[1] = e /\ p[2] = f
  BY <1>10
<1>12. PICK c : c = s \o p
  OBVIOUS
<1>13. /\ c \in Seq(LogEvent) /\ Len(c) = Len(s) + 2
       /\ \A i \in 1 .. Len(s) : c[i] = s[i]
       /\ c[Len(s) + 1] = e /\ c[Len(s) + 2] = f
  <2>1. /\ c \in Seq(LogEvent) /\ Len(c) = Len(s) + Len(p)
        /\ \A i \in 1 .. Len(s) + Len(p) : c[i] = IF i <= Len(s) THEN s[i] ELSE p[i - Len(s)]
    BY <1>11, <1>12, ConcatProperties
  <2> QED BY <1>1, <1>11, <2>1
<1>14. PICK d : d = Book!Newest(c)
  OBVIOUS
<1>15. /\ d \in Seq(LogEvent) /\ Len(d) = IF Len(c) > MaxEvents THEN MaxEvents ELSE Len(c)
       /\ \A i \in 1 .. Len(d) : d[i] = c[i + (Len(c) - Len(d))]
  BY <1>13, <1>14, NewestElements
<1>16. Len(b) = Len(d) /\ Len(d) \in Nat /\ Len(a) \in Nat
  BY <1>1, <1>3, <1>5, <1>7, <1>9, <1>13, <1>15
<1>17. /\ Len(t) = Len(s) + 1 /\ Len(u) = Len(a) + 1 /\ Len(c) = Len(s) + 2
       /\ Len(a) = IF Len(s) + 1 > MaxEvents THEN MaxEvents ELSE Len(s) + 1
       /\ Len(b) = IF Len(a) + 1 > MaxEvents THEN MaxEvents ELSE Len(a) + 1
       /\ Len(d) = IF Len(s) + 2 > MaxEvents THEN MaxEvents ELSE Len(s) + 2
  BY <1>3, <1>5, <1>7, <1>9, <1>13, <1>15
<1>18. /\ Len(u) \in Nat /\ Len(b) \in Nat /\ Len(b) <= Len(u) /\ Len(t) \in Nat
       /\ Len(a) <= Len(t) /\ Len(c) \in Nat
       /\ (Len(u) - Len(b)) + (Len(t) - Len(a)) = Len(c) - Len(d)
  <2>1. /\ Len(t) = Len(s) + 1 /\ Len(u) = Len(a) + 1 /\ Len(c) = Len(s) + 2
        /\ Len(b) = Len(d) /\ Len(s) \in Nat /\ Len(a) \in Nat /\ Len(d) \in Nat
    BY <1>1, <1>16, <1>17
  <2>2. Len(b) <= Len(u)
    BY <1>1, <1>16, <1>17
  <2>3. Len(a) <= Len(t)
    BY <1>1, <1>16, <1>17
  <2> QED BY <2>1, <2>2, <2>3
<1>19. ASSUME NEW i \in 1 .. Len(d) PROVE b[i] = d[i]
  <2>1. CASE i = Len(d)
    <3>1. i + (Len(u) - Len(b)) = Len(a) + 1 /\ i + (Len(c) - Len(d)) = Len(s) + 2
      BY <1>1, <1>7, <1>13, <1>16, <2>1
    <3> QED BY <1>7, <1>9, <1>13, <1>15, <1>16, <3>1
  <2>2. CASE i < Len(d)
    <3>1. PICK j : j = i + (Len(u) - Len(b))
      OBVIOUS
    <3>2. j \in 1 .. Len(a) /\ b[i] = a[j]
      <4>1. j \in 1 .. Len(a)
        <5>1. Len(u) = Len(a) + 1 /\ i < Len(b) /\ i \in Nat /\ i >= 1
          BY <1>16, <1>17, <2>2
        <5> QED BY <1>16, <1>18, <3>1, <5>1
      <4> QED BY <1>7, <1>9, <1>16, <3>1, <4>1
    <3>3. PICK k : k = j + (Len(t) - Len(a))
      OBVIOUS
    <3>4. a[j] = t[k] /\ k = i + (Len(c) - Len(d)) /\ k \in 1 .. Len(s) + 1
      <4>1. k = i + (Len(c) - Len(d)) /\ k \in 1 .. Len(s) + 1
        <5>1. Len(t) = Len(s) + 1 /\ i \in Nat
          BY <1>16, <1>17
        <5>2. k = i + (Len(c) - Len(d))
          BY <1>16, <1>18, <3>1, <3>3, <5>1
        <5>3. k \in 1 .. Len(s) + 1
          BY <1>1, <1>16, <1>18, <3>2, <3>3, <5>1
        <5> QED BY <5>2, <5>3
      <4> QED BY <1>5, <3>2, <3>3, <4>1
    <3>5. t[k] = c[k]
      <4>1. CASE k = Len(s) + 1
        BY <1>3, <1>13, <4>1
      <4>2. CASE k # Len(s) + 1
        <5>1. k \in 1 .. Len(s)
          BY <1>1, <3>4, <4>2
        <5> QED BY <1>3, <1>13, <5>1
      <4> QED BY <4>1, <4>2
    <3> QED BY <1>15, <3>2, <3>4, <3>5
  <2> QED BY <1>16, <2>1, <2>2
<1>20. b = d
  BY <1>9, <1>15, <1>16, <1>19, SeqEqual
<1> QED BY <1>2, <1>4, <1>6, <1>8, <1>10, <1>12, <1>14, <1>20

(* The rings after each event of a batch. *)
Batch(r, es, g) ==
  g = [n \in 0 .. Len(es) |-> IF n = 0 THEN r ELSE RingPut(g[n - 1], es[n])]

LEMMA PutAllOne ==
  ASSUME NEW r, NEW es, Len(es) = 1
  PROVE  PutAll(r, es) = RingPut(r, es[1])
<1> DEFINE after == CHOOSE g : Batch(r, es, g)
           g == [n \in 0 .. 1 |-> IF n = 0 THEN r ELSE RingPut(r, es[1])]
<1>1. Batch(r, es, g)
  BY DEF Batch
<1>2. Batch(r, es, after)
  BY <1>1
<1>3. PutAll(r, es) = after[Len(es)]
  BY DEF PutAll, Batch
<1> HIDE DEF after, g
<1>4. after[0] = r /\ after[1] = RingPut(after[0], es[1])
  BY <1>2 DEF Batch
<1> QED BY <1>3, <1>4

LEMMA PutAllTwo ==
  ASSUME NEW r, NEW es, Len(es) = 2
  PROVE  PutAll(r, es) = RingPut(RingPut(r, es[1]), es[2])
<1> DEFINE after == CHOOSE g : Batch(r, es, g)
           g == [n \in 0 .. 2 |-> IF n = 0 THEN r
                                  ELSE IF n = 1 THEN RingPut(r, es[1])
                                  ELSE RingPut(RingPut(r, es[1]), es[2])]
<1>1. Batch(r, es, g)
  BY DEF Batch
<1>2. Batch(r, es, after)
  BY <1>1
<1>3. PutAll(r, es) = after[Len(es)]
  BY DEF PutAll, Batch
<1> HIDE DEF after, g
<1>4. after[0] = r /\ after[1] = RingPut(after[0], es[1]) /\ after[2] = RingPut(after[1], es[2])
  BY <1>2 DEF Batch
<1> QED BY <1>3, <1>4

(* The equation that the survivors of the first n events solve. *)
KeepOne(kept, e, limit) == IF e.time >= limit THEN Append(kept, e) ELSE kept
Survivors(s, limit, n, g) ==
  g = [m \in 0 .. n |-> IF m = 0 THEN <<>> ELSE KeepOne(g[m - 1], s[m], limit)]

LEMMA SurvivorsExist ==
  ASSUME NEW s, NEW limit, NEW n \in Nat
  PROVE  \E g : Survivors(s, limit, n, g)
<1> DEFINE Bad == {k \in Nat : ~ \E g : Survivors(s, limit, k, g)}
<1> SUFFICES ASSUME Bad # {} PROVE FALSE
  OBVIOUS
<1>1. PICK k \in Bad : \A l \in Bad : k <= l
  BY LeastNat
<1>2. CASE k = 0
  <2> DEFINE g == [m \in 0 .. 0 |-> <<>>]
  <2>1. Survivors(s, limit, 0, g)
    BY DEF Survivors
  <2> QED BY <1>2, <2>1
<1>3. CASE k # 0
  <2>1. k - 1 \in Nat /\ k - 1 \notin Bad
    BY <1>1, <1>3
  <2>2. PICK g : Survivors(s, limit, k - 1, g)
    BY <2>1
  <2> DEFINE h == [m \in 0 .. k |-> IF m = k THEN KeepOne(g[k - 1], s[k], limit) ELSE g[m]]
  <2>3. ASSUME NEW m \in 0 .. k
        PROVE  h[m] = IF m = 0 THEN <<>> ELSE KeepOne(h[m - 1], s[m], limit)
    <3>1. CASE m = k
      <4>1. h[m] = KeepOne(g[k - 1], s[k], limit) /\ h[m - 1] = g[k - 1]
        BY <1>3, <2>1, <3>1
      <4> QED BY <1>3, <3>1, <4>1
    <3>2. CASE m # k
      <4>1. m \in 0 .. k - 1 /\ h[m] = g[m]
        BY <3>2
      <4>2. g[m] = IF m = 0 THEN <<>> ELSE KeepOne(g[m - 1], s[m], limit)
        BY <2>2, <4>1 DEF Survivors
      <4>3. m # 0 => h[m - 1] = g[m - 1]
        BY <4>1
      <4> QED BY <4>1, <4>2, <4>3
    <3> QED BY <3>1, <3>2
  <2>4. Survivors(s, limit, k, h)
    <3>1. h = [m \in 0 .. k |-> h[m]]
      OBVIOUS
    <3> HIDE DEF h
    <3> QED BY <2>3, <3>1 DEF Survivors
  <2> QED BY <2>4
<1> QED BY <1>2, <1>3

(* What the survivors of an ordered sequence are. *)
LEMMA KeptProperties ==
  ASSUME NEW s \in Seq(LogEvent), NEW limit \in Int, Book!Ordered(s)
  PROVE  LET kept == KeptEvents(s, limit)
         IN  /\ kept \in Seq(LogEvent) /\ Len(kept) <= Len(s) /\ Book!Ordered(kept)
             /\ \A j \in 1 .. Len(kept) :
                  \E i \in 1 .. Len(s) : kept[j] = s[i] /\ s[i].time >= limit
             /\ \A i \in 1 .. Len(s) :
                  s[i].time >= limit => \E j \in 1 .. Len(kept) : kept[j] = s[i]
<1> DEFINE sv == CHOOSE f : Survivors(s, limit, Len(s), f)
<1>1. Len(s) \in Nat /\ DOMAIN s = 1 .. Len(s) /\ \A i \in 1 .. Len(s) : s[i] \in LogEvent
  BY LenProperties, ElementOfSeq
<1>2. Survivors(s, limit, Len(s), sv)
  BY <1>1, SurvivorsExist
<1>3. KeptEvents(s, limit) = sv[Len(s)]
  BY DEF KeptEvents, Survivors, KeepOne
<1>4. PICK g : g = sv
  OBVIOUS
<1>5. \A m \in 0 .. Len(s) : g[m] = IF m = 0 THEN <<>> ELSE KeepOne(g[m - 1], s[m], limit)
  <2> HIDE DEF sv
  <2> QED BY <1>2, <1>4 DEF Survivors
<1> HIDE DEF sv
<1> DEFINE Good(n) ==
             /\ g[n] \in Seq(LogEvent) /\ Len(g[n]) <= n
             /\ \A i, j \in 1 .. Len(g[n]) : i < j => g[n][i].id < g[n][j].id
             /\ \A j \in 1 .. Len(g[n]) : \E i \in 1 .. n : g[n][j] = s[i] /\ s[i].time >= limit
             /\ \A i \in 1 .. n : s[i].time >= limit => \E j \in 1 .. Len(g[n]) : g[n][j] = s[i]
           Bad == {n \in 0 .. Len(s) : ~Good(n)}
<1>6. Bad = {}
  <2> SUFFICES ASSUME Bad # {} PROVE FALSE
    OBVIOUS
  <2>1. PICK n \in Bad : \A l \in Bad : n <= l
    <3>1. Bad \subseteq Nat
      BY <1>1
    <3> HIDE DEF Bad
    <3> QED BY <3>1, LeastNat
  <2>2. n \in 0 .. Len(s) /\ ~Good(n)
    BY <2>1
  <2>3. CASE n = 0
    <3>1. g[0] = <<>>
      BY <1>1, <1>5
    <3>2. Good(0)
      BY <3>1
    <3> QED BY <2>2, <2>3, <3>2
  <2>4. CASE n # 0
    <3>1. n - 1 \in 0 .. Len(s) /\ n \in 1 .. Len(s) /\ n \in Nat
      BY <1>1, <2>2, <2>4
    <3>2. Good(n - 1)
      <4>1. n - 1 \notin Bad
        <5> HIDE DEF Bad
        <5> QED BY <2>1, <3>1
      <4> QED BY <3>1, <4>1
    <3>3. PICK p : p = g[n - 1]
      OBVIOUS
    <3>4. PICK q : q = g[n]
      OBVIOUS
    <3>5. /\ p \in Seq(LogEvent) /\ Len(p) <= n - 1 /\ Len(p) \in Nat
          /\ \A i, j \in 1 .. Len(p) : i < j => p[i].id < p[j].id
          /\ \A j \in 1 .. Len(p) : \E i \in 1 .. n - 1 : p[j] = s[i] /\ s[i].time >= limit
          /\ \A i \in 1 .. n - 1 : s[i].time >= limit => \E j \in 1 .. Len(p) : p[j] = s[i]
      BY <3>2, <3>3, LenProperties
    <3>6. q = IF s[n].time >= limit THEN Append(p, s[n]) ELSE p
      BY <1>5, <2>2, <2>4, <3>3, <3>4 DEF KeepOne
    <3>7. CASE ~(s[n].time >= limit)
      <4>1. q = p
        BY <3>6, <3>7
      <4>2. \A i \in 1 .. n : i # n => i \in 1 .. n - 1
        BY <3>1
      <4>3. \A i \in 1 .. n - 1 : i \in 1 .. n
        BY <3>1
      <4>4. Len(p) <= n
        BY <3>1, <3>5
      <4>5. Good(n)
        BY <3>4, <3>5, <3>7, <4>1, <4>2, <4>3, <4>4
      <4> QED BY <2>2, <4>5
    <3>8. CASE s[n].time >= limit
      <4>1. /\ q \in Seq(LogEvent) /\ Len(q) = Len(p) + 1 /\ q[Len(p) + 1] = s[n]
            /\ \A i \in 1 .. Len(p) : q[i] = p[i]
        <5>1. q = Append(p, s[n]) /\ s[n] \in LogEvent
          BY <1>1, <3>1, <3>6, <3>8
        <5> QED BY <3>5, <5>1, AppendProperties
      <4>2. \A j \in 1 .. Len(q) : j # Len(p) + 1 => j \in 1 .. Len(p)
        BY <3>5, <4>1
      <4>3. \A j \in 1 .. Len(p) : j \in 1 .. Len(q)
        BY <3>5, <4>1
      <4>4. Len(p) + 1 \in 1 .. Len(q) /\ Len(q) <= n
        BY <3>1, <3>5, <4>1
      <4>5. ASSUME NEW i \in 1 .. Len(q), NEW j \in 1 .. Len(q), i < j PROVE q[i].id < q[j].id
        <5>1. i \in 1 .. Len(p)
          BY <3>5, <4>1, <4>5
        <5>2. CASE j \in 1 .. Len(p)
          BY <3>5, <4>1, <4>5, <5>1, <5>2
        <5>3. CASE j = Len(p) + 1
          <6>1. PICK k \in 1 .. n - 1 : p[i] = s[k]
            BY <3>5, <5>1
          <6>2. k \in DOMAIN s /\ n \in DOMAIN s /\ k < n
            BY <1>1, <3>1
          <6>3. s[k].id < s[n].id
            BY <6>2 DEF Book!Ordered
          <6> QED BY <4>1, <5>1, <5>3, <6>1, <6>3
        <5> QED BY <4>2, <5>2, <5>3
      <4>6. ASSUME NEW j \in 1 .. Len(q) PROVE \E i \in 1 .. n : q[j] = s[i] /\ s[i].time >= limit
        <5>1. CASE j = Len(p) + 1
          BY <3>1, <3>8, <4>1, <5>1
        <5>2. CASE j # Len(p) + 1
          <6>1. j \in 1 .. Len(p) /\ q[j] = p[j]
            BY <4>1, <4>2, <5>2
          <6>2. PICK i \in 1 .. n - 1 : p[j] = s[i] /\ s[i].time >= limit
            BY <3>5, <6>1
          <6>3. i \in 1 .. n
            BY <3>1
          <6> QED BY <6>1, <6>2, <6>3
        <5> QED BY <5>1, <5>2
      <4>7. ASSUME NEW i \in 1 .. n, s[i].time >= limit PROVE \E j \in 1 .. Len(q) : q[j] = s[i]
        <5>1. CASE i = n
          BY <4>1, <4>4, <5>1
        <5>2. CASE i # n
          <6>1. i \in 1 .. n - 1
            BY <3>1, <5>2
          <6>2. PICK j \in 1 .. Len(p) : p[j] = s[i]
            BY <3>5, <4>7, <6>1
          <6> QED BY <4>1, <4>3, <6>2
        <5> QED BY <5>1, <5>2
      <4>8. Good(n)
        BY <3>4, <4>1, <4>4, <4>5, <4>6, <4>7
      <4> QED BY <2>2, <4>8
    <3> QED BY <3>7, <3>8
  <2> QED BY <2>3, <2>4
<1>7. Good(Len(s))
  <2>1. Len(s) \in 0 .. Len(s)
    BY <1>1
  <2> HIDE DEF Good
  <2> QED BY <1>6, <2>1
<1>8. PICK kept : kept = KeptEvents(s, limit)
  OBVIOUS
<1>9. kept = g[Len(s)]
  BY <1>3, <1>4, <1>8
<1>10. kept \in Seq(LogEvent) /\ DOMAIN kept = 1 .. Len(kept)
  BY <1>7, <1>9, LenProperties
<1>11. Book!Ordered(kept)
  BY <1>7, <1>9, <1>10 DEF Book!Ordered
<1> QED BY <1>7, <1>8, <1>9, <1>10, <1>11

(* A buffer written from its first slot reads as it is. *)
LEMMA FreshRing ==
  ASSUME NEW q,
         q \in [events : Seq(LogEvent), head : {q.head}, count : {q.count},
                streams : {q.streams}, retention : Nat],
         q.count = Len(q.events), Len(q.events) <= MaxEvents, q.head = Len(q.events) % MaxEvents
  PROVE  RingShape(q) /\ RingEvents(q) = q.events
<1>1. MaxEvents \in Nat \ {0} /\ q.events \in Seq(LogEvent) /\ Len(q.events) \in Nat
  BY LogsAssumption, LenProperties
<1>2. PICK n : n = Len(q.events)
  OBVIOUS
<1>3. n \in 0 .. 2 * MaxEvents - 1 /\ n \in 0 .. MaxEvents
  BY <1>1, <1>2
<1>4. q.head = IF n < MaxEvents THEN n ELSE n - MaxEvents
  BY <1>1, <1>2, <1>3, WrapModulo
<1>5. q.head \in 0 .. MaxEvents - 1 /\ q.count = n /\ (n < MaxEvents => q.head = n)
  BY <1>1, <1>2, <1>3, <1>4
<1>6. RingShape(q)
  BY <1>2, <1>3, <1>5 DEF RingShape
<1>7. CASE n < MaxEvents
  BY <1>5, <1>6, <1>7, RingReads
<1>8. CASE n = MaxEvents
  <2>1. RingEvents(q) \in Seq(LogEvent) /\ Len(RingEvents(q)) = n
    BY <1>5, <1>6, RingReads
  <2>2. ASSUME NEW i \in 1 .. n PROVE RingEvents(q)[i] = q.events[i]
    <3>1. q.head = 0 /\ q.count = MaxEvents /\ i \in 1 .. q.count
      BY <1>1, <1>4, <1>5, <1>8
    <3>2. RingSlot(q, i) = i
      BY <1>1, <1>6, <1>8, <3>1, SlotOf
    <3> QED BY <3>1, <3>2 DEF RingEvents
  <2> QED BY <1>1, <1>2, <2>1, <2>2, SeqEqual, <1>6
<1> QED BY <1>1, <1>2, <1>3, <1>6, <1>7, <1>8

LEMMA PrunedRing ==
  ASSUME NEW r, RingShape(r), Book!Ordered(RingEvents(r)), NEW cutoff \in Times
  PROVE  /\ RingShape(Pruned(r, cutoff))
         /\ Book!Ordered(RingEvents(Pruned(r, cutoff)))
         /\ \E limit \in Times :
              Book!Entries(RingEvents(Pruned(r, cutoff)))
                = {e \in Book!Entries(RingEvents(r)) : e.time >= limit}
<1>1. Today \in Nat /\ r.retention \in Nat /\ r.count \in Nat /\ MaxEvents \in Nat
  BY LogsAssumption DEF RingShape
<1>2. PICK limit : limit = IF r.retention > 0 /\ Today - r.retention > cutoff
                           THEN Today - r.retention ELSE cutoff
  OBVIOUS
<1>3. limit \in Times /\ limit \in Int
  BY <1>1, <1>2 DEF Times
<1>4. PICK s : s = RingEvents(r)
  OBVIOUS
<1>5. s \in Seq(LogEvent) /\ Len(s) = r.count /\ DOMAIN s = 1 .. Len(s) /\ Book!Ordered(s)
  BY <1>4, RingReads, LenProperties
<1>6. \A i \in 1 .. Len(s) : s[i] \in LogEvent
  BY <1>5, ElementOfSeq
<1>7. CASE \A i \in 1 .. r.count : s[i].time >= limit
  <2>1. Pruned(r, cutoff) = r
    BY <1>2, <1>4, <1>7 DEF Pruned
  <2>2. Book!Entries(s) = {e \in Book!Entries(s) : e.time >= limit}
    BY <1>5, <1>7 DEF Book!Entries
  <2> QED BY <1>3, <1>4, <2>1, <2>2
<1>8. CASE ~ \A i \in 1 .. r.count : s[i].time >= limit
  <2>1. PICK kept : kept = KeptEvents(s, limit)
    OBVIOUS
  <2>2. /\ kept \in Seq(LogEvent) /\ Len(kept) <= Len(s) /\ Book!Ordered(kept)
        /\ \A j \in 1 .. Len(kept) :
             \E i \in 1 .. Len(s) : kept[j] = s[i] /\ s[i].time >= limit
        /\ \A i \in 1 .. Len(s) :
             s[i].time >= limit => \E j \in 1 .. Len(kept) : kept[j] = s[i]
    <3>1. s \in Seq(LogEvent) /\ limit \in Int /\ Book!Ordered(s)
      BY <1>3, <1>5
    <3> HIDE DEF Book!Ordered
    <3> QED BY <2>1, <3>1, KeptProperties, Zenon
  <2>3. PICK q : q = Pruned(r, cutoff)
    OBVIOUS
  <2>4. PICK h : h = Len(kept) % MaxEvents
    OBVIOUS
  <2>5. q = [r EXCEPT !.events = kept, !.count = Len(kept), !.head = h]
    BY <1>2, <1>4, <1>8, <2>1, <2>3, <2>4 DEF Pruned
  <2>6. /\ q.events = kept /\ q.count = Len(kept) /\ q.head = h
        /\ q \in [events : Seq(LogEvent), head : {q.head}, count : {q.count},
                  streams : {q.streams}, retention : Nat]
    BY <2>2, <2>5 DEF RingShape
  <2>7. Len(kept) <= MaxEvents
    <3>1. Len(kept) \in Nat /\ r.count <= MaxEvents
      BY <2>2, LenProperties DEF RingShape
    <3> QED BY <1>1, <1>5, <2>2, <3>1
  <2>8. RingShape(q) /\ RingEvents(q) = kept
    BY <2>4, <2>6, <2>7, FreshRing
  <2>9. DOMAIN kept = 1 .. Len(kept)
    BY <2>2, LenProperties
  <2>10. Book!Entries(kept) = {e \in Book!Entries(s) : e.time >= limit}
    <3>1. ASSUME NEW e \in Book!Entries(kept)
          PROVE  e \in Book!Entries(s) /\ e.time >= limit
      <4>1. PICK j \in 1 .. Len(kept) : e = kept[j]
        BY <2>9 DEF Book!Entries
      <4>2. PICK i \in 1 .. Len(s) : kept[j] = s[i] /\ s[i].time >= limit
        BY <2>2
      <4> QED BY <1>5, <4>1, <4>2 DEF Book!Entries
    <3>2. ASSUME NEW e \in Book!Entries(s), e.time >= limit
          PROVE  e \in Book!Entries(kept)
      <4>1. PICK i \in 1 .. Len(s) : e = s[i]
        BY <1>5 DEF Book!Entries
      <4>2. PICK j \in 1 .. Len(kept) : kept[j] = s[i]
        BY <2>2, <3>2, <4>1
      <4> QED BY <2>9, <4>1, <4>2 DEF Book!Entries
    <3> QED BY <3>1, <3>2
  <2> QED BY <1>3, <1>4, <2>2, <2>3, <2>8, <2>10
<1> QED BY <1>7, <1>8

(***************************************************************************)
(* The inductive invariant: the rings have their shape, and hold events in  *)
(* the order of their numbers, none of which is still to be given.           *)
(***************************************************************************)
RingInv(r, n) ==
  /\ RingShape(r) /\ Book!Ordered(RingEvents(r))
  /\ \A i \in DOMAIN RingEvents(r) : RingEvents(r)[i].id <= n
LogsInv ==
  /\ nlines \in 0 .. MaxLines
  /\ DOMAIN group \subseteq Groups /\ group = [g \in DOMAIN group |-> group[g]]
  /\ \A g \in DOMAIN group : RingInv(group[g], nlines)

LEMMA EmptyRing ==
  /\ \A n \in Nat : RingInv(EmptyGroup, n)
  /\ RingEvents(EmptyGroup) = <<>>
<1> DEFINE q == EmptyGroup
<1>1. /\ q.events = <<>> /\ q.head = 0 /\ q.count = 0 /\ q.retention = 0
      /\ q \in [events : Seq(LogEvent), head : {q.head}, count : {q.count},
                streams : {q.streams}, retention : Nat]
  BY DEF EmptyGroup
<1>2. Len(q.events) = 0 /\ MaxEvents \in Nat \ {0} /\ q.head = 0 % MaxEvents
  <2>1. MaxEvents \in Nat \ {0} /\ 0 \in 0 .. MaxEvents - 1
    BY LogsAssumption
  <2>2. 0 % MaxEvents = 0
    BY <2>1, SmallModulo
  <2> QED BY <1>1, <2>1, <2>2
<1>3. RingShape(q) /\ RingEvents(q) = <<>>
  BY <1>1, <1>2, FreshRing
<1>4. Book!Ordered(<<>>) /\ DOMAIN <<>> = {}
  BY DEF Book!Ordered
<1> QED BY <1>3, <1>4 DEF RingInv

(* Numbers given stay given. *)
LEMMA LaterRing ==
  ASSUME NEW n \in Nat, NEW m \in n .. MaxLines, NEW r, RingInv(r, n)
  PROVE  RingInv(r, m)
<1>1. PICK s : s = RingEvents(r)
  OBVIOUS
<1>2. RingShape(r) /\ Book!Ordered(s) /\ \A i \in DOMAIN s : s[i].id <= n
  BY <1>1 DEF RingInv
<1>3. DOMAIN s = 1 .. Len(s) /\ \A i \in 1 .. Len(s) : s[i] \in LogEvent
  BY <1>1, <1>2, RingReads, ElementOfSeq, LenProperties
<1>4. \A e \in LogEvent : e.id \in Int
  BY LogsAssumption DEF LogEvent
<1>5. \A i \in DOMAIN s : s[i].id <= m
  BY <1>2, <1>3, <1>4, LogsAssumption
<1> QED BY <1>1, <1>2, <1>5 DEF RingInv

(* A step that changes one ring. *)
LEMMA SetRing ==
  ASSUME LogsInv, NEW g \in DOMAIN group, NEW q, group' = [group EXCEPT ![g] = q],
         nlines' \in nlines .. MaxLines, RingInv(q, nlines')
  PROVE  LogsInv' /\ Shown' = [Shown EXCEPT ![g] = RingEvents(q)]
<1>1. DOMAIN group' = DOMAIN group /\ group' = [h \in DOMAIN group' |-> group'[h]]
  BY DEF LogsInv
<1>2. group'[g] = q /\ \A h \in DOMAIN group : h # g => group'[h] = group[h]
  BY DEF LogsInv
<1>3. nlines \in Nat /\ nlines' \in Nat /\ nlines <= nlines' /\ nlines' \in 0 .. MaxLines
  BY LogsAssumption DEF LogsInv
<1>4. ASSUME NEW h \in DOMAIN group, h # g PROVE RingInv(group[h], nlines')
  BY <1>3, LogsAssumption, LaterRing DEF LogsInv
<1>5. LogsInv'
  <2>1. \A h \in DOMAIN group' : RingInv(group'[h], nlines')
    BY <1>1, <1>2, <1>4
  <2> QED BY <1>1, <1>3, <2>1 DEF LogsInv
<1>6. Shown' = [Shown EXCEPT ![g] = RingEvents(q)]
  BY <1>1, <1>2 DEF Shown
<1> QED BY <1>5, <1>6

(* Writing the next event keeps the ring's order. *)
LEMMA NewestOrdered ==
  ASSUME NEW s \in Seq(LogEvent), NEW e \in LogEvent, Book!Ordered(s),
         \A i \in 1 .. Len(s) : s[i].id < e.id
  PROVE  LET n == Book!Newest(Append(s, e))
         IN  Book!Ordered(n) /\ \A i \in 1 .. Len(n) : n[i].id <= e.id
<1>1. PICK t : t = Append(s, e)
  OBVIOUS
<1>2. PICK n : n = Book!Newest(t)
  OBVIOUS
<1>3. /\ t \in Seq(LogEvent) /\ Len(t) = Len(s) + 1 /\ t[Len(s) + 1] = e
      /\ \A i \in 1 .. Len(s) : t[i] = s[i]
  BY <1>1, AppendProperties
<1>4. Len(s) \in Nat /\ DOMAIN s = 1 .. Len(s) /\ MaxEvents \in Nat /\ e.id \in Int
  BY LogsAssumption, LenProperties DEF LogEvent
<1>5. /\ n \in Seq(LogEvent)
      /\ Len(n) = IF Len(t) > MaxEvents THEN MaxEvents ELSE Len(t)
      /\ \A i \in 1 .. Len(n) : n[i] = t[i + (Len(t) - Len(n))]
  BY <1>2, <1>3, NewestElements
<1>6. Len(n) \in Nat /\ DOMAIN n = 1 .. Len(n) /\ Len(n) <= Len(t)
  BY <1>3, <1>4, <1>5, LenProperties
<1>7. \A i, j \in 1 .. Len(t) : i < j => t[i].id < t[j].id
  <2> SUFFICES ASSUME NEW i \in 1 .. Len(t), NEW j \in 1 .. Len(t), i < j
               PROVE  t[i].id < t[j].id
    OBVIOUS
  <2>1. i \in 1 .. Len(s) /\ t[i] = s[i]
    BY <1>3, <1>4
  <2>2. CASE j = Len(s) + 1
    BY <1>3, <2>1, <2>2
  <2>3. CASE j \in 1 .. Len(s)
    BY <1>3, <1>4, <2>1, <2>3 DEF Book!Ordered
  <2> QED BY <1>3, <1>4, <2>2, <2>3
<1>8. \A i \in 1 .. Len(t) : t[i].id <= e.id
  <2> SUFFICES ASSUME NEW i \in 1 .. Len(t) PROVE t[i].id <= e.id
    OBVIOUS
  <2>1. CASE i = Len(s) + 1
    BY <1>3, <1>4, <2>1
  <2>2. CASE i \in 1 .. Len(s)
    <3>1. s[i].id \in Int
      <4>1. s[i] \in LogEvent
        BY <2>2, ElementOfSeq
      <4> QED BY <4>1, LogsAssumption DEF LogEvent
    <3> QED BY <1>3, <1>4, <2>2, <3>1
  <2> QED BY <1>3, <1>4, <2>1, <2>2
<1>9. \A i \in 1 .. Len(n) : i + (Len(t) - Len(n)) \in 1 .. Len(t)
  BY <1>3, <1>4, <1>6
<1>10. Book!Ordered(n)
  <2> SUFFICES ASSUME NEW i \in 1 .. Len(n), NEW j \in 1 .. Len(n), i < j
               PROVE  n[i].id < n[j].id
    BY <1>6 DEF Book!Ordered
  <2>1. i + (Len(t) - Len(n)) < j + (Len(t) - Len(n))
    BY <1>3, <1>4, <1>6
  <2> QED BY <1>5, <1>7, <1>9, <2>1
<1>11. \A i \in 1 .. Len(n) : n[i].id <= e.id
  BY <1>5, <1>8, <1>9
<1> QED BY <1>1, <1>2, <1>10, <1>11

LEMMA PutInv ==
  ASSUME NEW r, NEW n \in Nat, RingInv(r, n), NEW e \in LogEvent, e.id = n + 1
  PROVE  /\ RingInv(RingPut(r, e), n + 1)
         /\ RingEvents(RingPut(r, e)) = Book!Newest(Append(RingEvents(r), e))
<1>1. PICK s : s = RingEvents(r)
  OBVIOUS
<1>2. RingShape(r) /\ Book!Ordered(s) /\ \A i \in DOMAIN s : s[i].id <= n
  BY <1>1 DEF RingInv
<1>3. s \in Seq(LogEvent) /\ DOMAIN s = 1 .. Len(s)
  BY <1>1, <1>2, RingReads, LenProperties
<1>4. \A i \in 1 .. Len(s) : s[i].id < e.id
  <2> SUFFICES ASSUME NEW i \in 1 .. Len(s) PROVE s[i].id < e.id
    OBVIOUS
  <2>1. s[i] \in LogEvent
    BY <1>3, ElementOfSeq
  <2>2. s[i].id \in Int /\ s[i].id <= n
    BY <1>2, <1>3, <2>1, LogsAssumption DEF LogEvent
  <2> QED BY <2>2
<1>5. RingShape(RingPut(r, e)) /\ RingEvents(RingPut(r, e)) = Book!Newest(Append(s, e))
  BY <1>1, <1>2, PutOne
<1>6. PICK t : t = Book!Newest(Append(s, e))
  OBVIOUS
<1>7. Book!Ordered(t) /\ \A i \in 1 .. Len(t) : t[i].id <= e.id
  BY <1>2, <1>3, <1>4, <1>6, NewestOrdered
<1>8. t \in Seq(LogEvent) /\ DOMAIN t = 1 .. Len(t)
  BY <1>5, <1>6, RingReads, LenProperties
<1>9. RingInv(RingPut(r, e), n + 1)
  <2>1. RingEvents(RingPut(r, e)) = t
    BY <1>5, <1>6
  <2>2. \A i \in DOMAIN t : t[i].id <= n + 1
    BY <1>7, <1>8
  <2> QED BY <1>5, <1>7, <2>1, <2>2 DEF RingInv
<1> QED BY <1>1, <1>5, <1>9

(* The streams are no part of the ring. *)
LEMMA Restream ==
  ASSUME NEW r, NEW n, RingInv(r, n), NEW streams
  PROVE  LET q == [r EXCEPT !.streams = streams]
         IN  RingInv(q, n) /\ RingEvents(q) = RingEvents(r)
<1>1. PICK q : q = [r EXCEPT !.streams = streams]
  OBVIOUS
<1>2. RingShape(r)
  BY DEF RingInv
<1>3. /\ q.events = r.events /\ q.head = r.head /\ q.count = r.count
      /\ q \in [events : Seq(LogEvent), head : 0 .. MaxEvents - 1, count : 0 .. MaxEvents,
                streams : {q.streams}, retention : Nat]
  BY <1>1, <1>2 DEF RingShape
<1>4. RingShape(q)
  BY <1>2, <1>3 DEF RingShape
<1>5. RingEvents(q) = RingEvents(r)
  BY <1>3 DEF RingEvents, RingSlot, RingStart
<1>6. RingInv(q, n)
  BY <1>4, <1>5 DEF RingInv
<1> QED BY <1>1, <1>5, <1>6

LEMMA PutStep ==
  ASSUME LogsInv, NEW g \in Groups, NEW stream, NEW batch \in Seq(Times), Len(batch) \in {1, 2},
         PutLogEvents(g, stream, batch)
  PROVE  LogsInv' /\ Book!Write(g)
<1>1. PICK es : es = [i \in DOMAIN batch |-> [time |-> batch[i], id |-> nlines + i]]
  OBVIOUS
<1>2. /\ nlines \in Nat /\ MaxLines \in Nat /\ Len(batch) \in Nat
      /\ nlines + Len(batch) <= MaxLines /\ nlines' = nlines + Len(batch)
  BY LogsAssumption DEF LogsInv, PutLogEvents
<1>3. DOMAIN batch = 1 .. Len(batch) /\ \A i \in 1 .. Len(batch) : batch[i] \in Times
  BY LenProperties, ElementOfSeq
<1>4. /\ DOMAIN es = 1 .. Len(batch) /\ Len(es) = Len(batch)
      /\ \A i \in 1 .. Len(batch) : es[i] \in LogEvent /\ es[i].id = nlines + i
  <2>1. \A i \in 1 .. Len(batch) : es[i] = [time |-> batch[i], id |-> nlines + i]
    BY <1>1, <1>3
  <2>2. \A i \in 1 .. Len(batch) : nlines + i \in 1 .. MaxLines
    BY <1>2
  <2>3. \A i \in 1 .. Len(batch) : es[i] \in LogEvent /\ es[i].id = nlines + i
    <3> SUFFICES ASSUME NEW i \in 1 .. Len(batch)
                 PROVE  es[i] \in LogEvent /\ es[i].id = nlines + i
      OBVIOUS
    <3>1. PICK n \in 1 .. MaxLines : n = nlines + i
      BY <2>2
    <3>2. PICK t \in Times : t = batch[i]
      BY <1>3
    <3>3. es[i] = [time |-> t, id |-> n]
      BY <2>1, <3>1, <3>2
    <3> QED BY <3>1, <3>3 DEF LogEvent
  <2>4. DOMAIN es = 1 .. Len(batch)
    BY <1>1, <1>3
  <2>5. es \in Seq(LogEvent)
    <3>1. es = [i \in 1 .. Len(batch) |-> es[i]]
      BY <1>1, <1>3
    <3> QED BY <1>2, <2>3, <2>4, <3>1, IsASeq
  <2>6. Len(es) = Len(batch)
    BY <1>2, <2>4, <2>5, LenProperties
  <2> QED BY <2>3, <2>4, <2>6
<1>5. CASE g \notin DOMAIN group
  <2>1. group' = group
    BY <1>5 DEF PutLogEvents, GroupExists
  <2>2. PICK n : n = nlines'
    OBVIOUS
  <2>3. n \in nlines .. MaxLines /\ nlines \in Nat
    BY <1>2, <2>2
  <2>4. \A h \in DOMAIN group : RingInv(group[h], n)
    BY <2>3, LogsAssumption, LaterRing DEF LogsInv
  <2>5. LogsInv'
    BY <2>1, <2>2, <2>3, <2>4 DEF LogsInv
  <2>6. Shown' = Shown /\ g \notin DOMAIN Shown
    BY <1>5, <2>1 DEF Shown
  <2>7. CASE Len(batch) = 1
    <3>1. PICK e \in LogEvent : e.id = nlines + 1
      BY <1>2, <1>4, <2>7
    <3>2. Len(<<e>>) = 1 /\ e \in Book!Numbered(nlines + 1)
      BY <3>1 DEF Book!Numbered, LogEvent
    <3>3. Book!Add(g, <<e>>)
      BY <1>2, <2>6, <2>7, <3>2 DEF Book!Add
    <3> QED BY <2>5, <3>2, <3>3 DEF Book!Write
  <2>8. CASE Len(batch) = 2
    <3>1. PICK e \in LogEvent : e.id = nlines + 1
      BY <1>2, <1>4, <2>8
    <3>2. PICK f \in LogEvent : f.id = nlines + 2
      BY <1>2, <1>4, <2>8
    <3>3. Len(<<e, f>>) = 2 /\ e \in Book!Numbered(nlines + 1) /\ f \in Book!Numbered(nlines + 2)
      BY <3>1, <3>2 DEF Book!Numbered, LogEvent
    <3>4. Book!Add(g, <<e, f>>)
      BY <1>2, <2>6, <2>8, <3>3 DEF Book!Add
    <3> QED BY <2>5, <3>3, <3>4 DEF Book!Write
  <2> QED BY <2>7, <2>8
<1>6. CASE g \in DOMAIN group
  <2>1. PICK r : r = group[g]
    OBVIOUS
  <2>2. RingInv(r, nlines)
    BY <1>6, <2>1 DEF LogsInv
  <2>3. PICK streams : group' = [group EXCEPT ![g] = [PutAll(r, es) EXCEPT !.streams = streams]]
    BY <1>1, <1>6, <2>1 DEF PutLogEvents, GroupExists
  <2>4. PICK p : p = PutAll(r, es)
    OBVIOUS
  <2>5. PICK q : q = [p EXCEPT !.streams = streams]
    OBVIOUS
  <2>6. group' = [group EXCEPT ![g] = q]
    BY <2>3, <2>4, <2>5
  <2>7. Shown[g] = RingEvents(r) /\ g \in DOMAIN Shown
    BY <1>6, <2>1 DEF Shown
  <2>8. CASE Len(batch) = 1
    <3>1. PICK e \in LogEvent : e = es[1] /\ e.id = nlines + 1
      BY <1>2, <1>4, <2>8
    <3>2. p = RingPut(r, e)
      BY <1>4, <2>4, <2>8, <3>1, PutAllOne
    <3>3. /\ RingInv(p, nlines + 1)
          /\ RingEvents(p) = Book!Newest(Append(RingEvents(r), e))
      BY <1>2, <2>2, <3>1, <3>2, PutInv
    <3>4. RingInv(q, nlines + 1) /\ RingEvents(q) = RingEvents(p)
      BY <2>5, <3>3, Restream
    <3>5. nlines' = nlines + 1 /\ nlines' \in nlines .. MaxLines /\ RingInv(q, nlines')
      BY <1>2, <2>8, <3>4
    <3>6. LogsInv' /\ Shown' = [Shown EXCEPT ![g] = RingEvents(q)]
      BY <1>6, <2>6, <3>5, SetRing
    <3>7. RingEvents(q) = Book!Newest(RingEvents(r) \o <<e>>)
      <4>1. RingEvents(r) \in Seq(LogEvent)
        BY <2>2, RingReads DEF RingInv
      <4>2. Append(RingEvents(r), e) = RingEvents(r) \o <<e>>
        BY <3>1, <4>1
      <4> QED BY <3>3, <3>4, <4>2
    <3>8. Len(<<e>>) = 1 /\ e \in Book!Numbered(nlines + 1)
      BY <3>1 DEF Book!Numbered, LogEvent
    <3>9. Book!Add(g, <<e>>)
      BY <2>7, <3>5, <3>6, <3>7, <3>8 DEF Book!Add
    <3> QED BY <3>6, <3>8, <3>9 DEF Book!Write
  <2>9. CASE Len(batch) = 2
    <3>1. PICK e \in LogEvent : e = es[1] /\ e.id = nlines + 1
      BY <1>2, <1>4, <2>9
    <3>2. PICK f \in LogEvent : f = es[2] /\ f.id = nlines + 2
      BY <1>2, <1>4, <2>9
    <3>3. PICK m : m = RingPut(r, e)
      OBVIOUS
    <3>4. /\ RingInv(m, nlines + 1)
          /\ RingEvents(m) = Book!Newest(Append(RingEvents(r), e))
      BY <1>2, <2>2, <3>1, <3>3, PutInv
    <3>5. p = RingPut(m, f)
      BY <1>4, <2>4, <2>9, <3>1, <3>2, <3>3, PutAllTwo
    <3>6. nlines + 1 \in Nat /\ f.id = (nlines + 1) + 1
      BY <1>2, <3>2
    <3>7. /\ RingInv(p, (nlines + 1) + 1)
          /\ RingEvents(p) = Book!Newest(Append(RingEvents(m), f))
      BY <3>4, <3>5, <3>6, PutInv
    <3>8. RingInv(q, (nlines + 1) + 1) /\ RingEvents(q) = RingEvents(p)
      BY <2>5, <3>7, Restream
    <3>9. nlines' = (nlines + 1) + 1 /\ nlines' \in nlines .. MaxLines
      BY <1>2, <2>9
    <3>10. RingInv(q, nlines')
      BY <3>8, <3>9
    <3>11. LogsInv' /\ Shown' = [Shown EXCEPT ![g] = RingEvents(q)]
      BY <1>6, <2>6, <3>9, <3>10, SetRing
    <3>12. RingEvents(q) = Book!Newest(RingEvents(r) \o <<e, f>>)
      <4>1. PICK s : s = RingEvents(r)
        OBVIOUS
      <4>2. s \in Seq(LogEvent) /\ Len(s) <= MaxEvents
        <5>1. RingShape(r)
          BY <2>2 DEF RingInv
        <5>2. s \in Seq(LogEvent) /\ Len(s) = r.count
          BY <4>1, <5>1, RingReads
        <5> QED BY <5>1, <5>2, LogsAssumption DEF RingShape
      <4> QED BY <3>1, <3>2, <3>4, <3>7, <3>8, <4>1, <4>2, NewestTwice
    <3>13. Len(<<e, f>>) = 2 /\ e \in Book!Numbered(nlines + 1) /\ f \in Book!Numbered(nlines + 2)
      BY <3>1, <3>2 DEF Book!Numbered, LogEvent
    <3>14. Book!Add(g, <<e, f>>)
      BY <1>2, <2>7, <2>9, <3>11, <3>12, <3>13 DEF Book!Add
    <3> QED BY <3>11, <3>13, <3>14 DEF Book!Write
  <2> QED BY <2>8, <2>9
<1> QED BY <1>5, <1>6

LEMMA WithGroupStep ==
  ASSUME LogsInv, NEW g \in Groups, group' = WithGroup(g), nlines' = nlines
  PROVE  LogsInv' /\ (Book!Create(g) \/ UNCHANGED <<Shown, nlines>>)
<1>1. CASE g \in DOMAIN group
  <2>1. DOMAIN group \cup {g} = DOMAIN group
    BY <1>1
  <2>2. group' = [h \in DOMAIN group |-> group[h]]
    BY <2>1 DEF WithGroup
  <2>3. group' = group
    BY <2>2 DEF LogsInv
  <2> QED BY <2>3 DEF LogsInv, Shown
<1>2. CASE g \notin DOMAIN group
  <2>1. DOMAIN group' = DOMAIN group \cup {g} /\ group' = [h \in DOMAIN group' |-> group'[h]]
    BY DEF WithGroup
  <2>2. group'[g] = EmptyGroup /\ \A h \in DOMAIN group : group'[h] = group[h]
    BY <1>2 DEF WithGroup
  <2>3. nlines \in Nat
    BY LogsAssumption DEF LogsInv
  <2>4. RingInv(EmptyGroup, nlines) /\ RingEvents(EmptyGroup) = <<>>
    BY <2>3, EmptyRing
  <2>5. LogsInv'
    <3>1. \A h \in DOMAIN group' : RingInv(group'[h], nlines)
      BY <2>1, <2>2, <2>4 DEF LogsInv
    <3>2. DOMAIN group' \subseteq Groups /\ nlines' \in 0 .. MaxLines
      BY <2>1 DEF LogsInv
    <3> QED BY <2>1, <3>1, <3>2 DEF LogsInv
  <2>6. Shown' = [h \in DOMAIN Shown \cup {g} |-> IF h = g THEN <<>> ELSE Shown[h]]
    BY <1>2, <2>1, <2>2, <2>4 DEF Shown
  <2>7. g \notin DOMAIN Shown
    BY <1>2 DEF Shown
  <2> QED BY <2>5, <2>6, <2>7 DEF Book!Create
<1> QED BY <1>1, <1>2

LEMMA DeleteGroupStep ==
  ASSUME LogsInv, NEW g \in Groups, DeleteLogGroup(g)
  PROVE  LogsInv' /\ Book!Delete(g)
<1>1. g \in DOMAIN group /\ group' = [h \in DOMAIN group \ {g} |-> group[h]] /\ nlines' = nlines
  BY DEF DeleteLogGroup, GroupExists
<1>2. DOMAIN group' = DOMAIN group \ {g} /\ \A h \in DOMAIN group' : group'[h] = group[h]
  BY <1>1
<1>3. group' = [h \in DOMAIN group' |-> group'[h]]
  BY <1>1
<1>4. LogsInv'
  BY <1>1, <1>2, <1>3 DEF LogsInv
<1>5. Shown' = [h \in DOMAIN Shown \ {g} |-> Shown[h]] /\ g \in DOMAIN Shown
  BY <1>1, <1>2 DEF Shown
<1> QED BY <1>1, <1>4, <1>5 DEF Book!Delete

LEMMA RetentionStep ==
  ASSUME LogsInv, NEW g \in Groups, PutRetentionPolicy(g)
  PROVE  LogsInv' /\ UNCHANGED <<Shown, nlines>>
<1>1. g \in DOMAIN group /\ nlines' = nlines
  BY DEF PutRetentionPolicy, GroupExists
<1>2. PICK days \in Retentions \cup {0} : group' = [group EXCEPT ![g].retention = days]
  BY DEF PutRetentionPolicy
<1>3. days \in Nat
  BY LogsAssumption
<1>4. PICK r : r = group[g]
  OBVIOUS
<1>5. PICK q : q = [r EXCEPT !.retention = days]
  OBVIOUS
<1>6. group' = [group EXCEPT ![g] = q]
  BY <1>2, <1>4, <1>5
<1>7. RingInv(r, nlines)
  BY <1>1, <1>4 DEF LogsInv
<1>8. RingShape(r)
  BY <1>7 DEF RingInv
<1>9. /\ q.events = r.events /\ q.head = r.head /\ q.count = r.count
      /\ q \in [events : Seq(LogEvent), head : 0 .. MaxEvents - 1, count : 0 .. MaxEvents,
                streams : {q.streams}, retention : Nat]
  BY <1>3, <1>5, <1>8 DEF RingShape
<1>10. RingShape(q)
  BY <1>8, <1>9 DEF RingShape
<1>11. RingEvents(q) = RingEvents(r)
  BY <1>9 DEF RingEvents, RingSlot, RingStart
<1>12. RingInv(q, nlines) /\ nlines' \in nlines .. MaxLines
  BY <1>1, <1>7, <1>10, <1>11, LogsAssumption DEF RingInv, LogsInv
<1>13. LogsInv' /\ Shown' = [Shown EXCEPT ![g] = RingEvents(q)]
  BY <1>1, <1>6, <1>12, SetRing
<1>14. Shown[g] = RingEvents(q) /\ Shown = [h \in DOMAIN group |-> Shown[h]]
  BY <1>1, <1>4, <1>11 DEF Shown
<1>15. [Shown EXCEPT ![g] = RingEvents(q)] = Shown
  BY <1>14
<1> QED BY <1>1, <1>13, <1>15

LEMMA ClearStep ==
  ASSUME LogsInv, NEW g \in Groups, ClearGroup(g)
  PROVE  LogsInv' /\ Book!Clear(g)
<1>1. g \in DOMAIN group /\ nlines' = nlines
  BY DEF ClearGroup, GroupExists
<1>2. PICK r : r = group[g]
  OBVIOUS
<1>3. PICK none : none = [s \in {} |-> 0]
  OBVIOUS
<1>4. PICK q : q = [r EXCEPT !.events = <<>>, !.head = 0, !.count = 0, !.streams = none]
  OBVIOUS
<1>5. group' = [group EXCEPT ![g] = q]
  BY <1>2, <1>3, <1>4 DEF ClearGroup
<1>6. RingShape(r)
  BY <1>1, <1>2 DEF LogsInv, RingInv
<1>7. /\ q.events = <<>> /\ q.head = 0 /\ q.count = 0
      /\ q \in [events : Seq(LogEvent), head : {q.head}, count : {q.count},
                streams : {q.streams}, retention : Nat]
  <2>1. r \in [events : Seq(LogEvent), head : 0 .. MaxEvents - 1, count : 0 .. MaxEvents,
               streams : {r.streams}, retention : Nat]
    BY <1>6 DEF RingShape
  <2>2. PICK empty \in Seq(LogEvent) : empty = <<>>
    <3>1. <<>> \in Seq(LogEvent)
      OBVIOUS
    <3> QED BY <3>1, Zenon
  <2>3. q = [r EXCEPT !.events = empty, !.head = 0, !.count = 0, !.streams = none]
    BY <1>4, <2>2
  <2>4. q.events = empty /\ q.head = 0 /\ q.count = 0 /\ q.streams = none
    BY <2>1, <2>3
  <2>5. q \in [events : Seq(LogEvent), head : {0}, count : {0}, streams : {none}, retention : Nat]
    BY <2>1, <2>3
  <2> QED BY <2>2, <2>4, <2>5
<1>8. Len(q.events) = 0 /\ MaxEvents \in Nat \ {0} /\ q.head = 0 % MaxEvents
  <2>1. MaxEvents \in Nat \ {0} /\ 0 \in 0 .. MaxEvents - 1
    BY LogsAssumption
  <2>2. 0 % MaxEvents = 0
    BY <2>1, SmallModulo
  <2> QED BY <1>7, <2>1, <2>2
<1>9. RingShape(q) /\ RingEvents(q) = <<>>
  BY <1>7, <1>8, FreshRing
<1>10. Book!Ordered(<<>>) /\ DOMAIN <<>> = {}
  BY DEF Book!Ordered
<1>11. RingInv(q, nlines) /\ nlines' \in nlines .. MaxLines
  BY <1>1, <1>9, <1>10, LogsAssumption DEF RingInv, LogsInv
<1>12. LogsInv' /\ Shown' = [Shown EXCEPT ![g] = <<>>]
  BY <1>1, <1>5, <1>9, <1>11, SetRing
<1> QED BY <1>1, <1>12 DEF Book!Clear, Shown

LEMMA PruneStep ==
  ASSUME LogsInv, PruneOlderThan
  PROVE  LogsInv' /\ Book!Prune
<1>1. PICK cutoff \in Times : group' = [g \in DOMAIN group |-> Pruned(group[g], cutoff)]
  BY DEF PruneOlderThan
<1>2. nlines' = nlines /\ nlines \in Nat
  BY LogsAssumption DEF PruneOlderThan, LogsInv
<1>3. DOMAIN group' = DOMAIN group /\ group' = [g \in DOMAIN group' |-> group'[g]]
  BY <1>1
<1> DEFINE Cut(g, limit) == Book!Entries(Shown'[g]) = {e \in Book!Entries(Shown[g]) : e.time >= limit}
<1>4. ASSUME NEW g \in DOMAIN group
      PROVE  /\ RingInv(group'[g], nlines) /\ Shown'[g] \in Seq(LogEvent)
             /\ Book!Ordered(Shown'[g])
             /\ \E limit \in Times : Cut(g, limit)
  <2>1. PICK r : r = group[g]
    OBVIOUS
  <2>2. PICK q : q = Pruned(r, cutoff)
    OBVIOUS
  <2>3. group'[g] = q /\ Shown'[g] = RingEvents(q) /\ Shown[g] = RingEvents(r)
    BY <1>1, <1>3, <2>1, <2>2 DEF Shown
  <2>4. /\ RingShape(r) /\ Book!Ordered(RingEvents(r))
        /\ \A i \in DOMAIN RingEvents(r) : RingEvents(r)[i].id <= nlines
    BY <2>1 DEF LogsInv, RingInv
  <2>5. /\ RingShape(q) /\ Book!Ordered(RingEvents(q))
        /\ \E limit \in Times :
             Book!Entries(RingEvents(q)) = {e \in Book!Entries(RingEvents(r)) : e.time >= limit}
    BY <2>2, <2>4, PrunedRing
  <2>6. \A i \in DOMAIN RingEvents(q) : RingEvents(q)[i].id <= nlines
    <3> SUFFICES ASSUME NEW i \in DOMAIN RingEvents(q) PROVE RingEvents(q)[i].id <= nlines
      OBVIOUS
    <3>1. RingEvents(q)[i] \in Book!Entries(RingEvents(q))
      BY DEF Book!Entries
    <3>2. RingEvents(q)[i] \in Book!Entries(RingEvents(r))
      BY <2>5, <3>1
    <3>3. PICK j \in DOMAIN RingEvents(r) : RingEvents(q)[i] = RingEvents(r)[j]
      BY <3>2 DEF Book!Entries
    <3> QED BY <2>4, <3>3
  <2>7. RingInv(q, nlines)
    BY <2>5, <2>6 DEF RingInv
  <2>8. RingEvents(q) \in Seq(LogEvent)
    BY <2>5, RingReads
  <2> QED BY <2>3, <2>5, <2>7, <2>8
<1>5. LogsInv'
  BY <1>2, <1>3, <1>4 DEF LogsInv
<1>6. Times = {e.time : e \in LogEvent}
  <2>1. 1 \in 1 .. MaxLines
    BY LogsAssumption
  <2>2. ASSUME NEW t \in Times PROVE t \in {e.time : e \in LogEvent}
    <3>1. PICK e : e = [time |-> t, id |-> 1]
      OBVIOUS
    <3>2. e \in LogEvent /\ e.time = t
      BY <2>1, <3>1 DEF LogEvent
    <3> QED BY <3>2
  <2>3. \A e \in LogEvent : e.time \in Times
    BY DEF LogEvent
  <2> QED BY <2>2, <2>3
<1>7. DOMAIN Shown = DOMAIN group /\ DOMAIN Shown' = DOMAIN group
      /\ Shown' = [g \in DOMAIN group |-> Shown'[g]]
  BY <1>3 DEF Shown
<1> DEFINE cut == [g \in DOMAIN group |-> CHOOSE limit \in Times : Cut(g, limit)]
<1>8. \A g \in DOMAIN group : cut[g] \in Times /\ Cut(g, cut[g])
  <2> SUFFICES ASSUME NEW g \in DOMAIN group PROVE cut[g] \in Times /\ Cut(g, cut[g])
    OBVIOUS
  <2>1. cut[g] = CHOOSE limit \in Times : Cut(g, limit)
    OBVIOUS
  <2>2. \E limit \in Times : Cut(g, limit)
    BY <1>4
  <2> HIDE DEF Cut, cut
  <2> QED BY <2>1, <2>2, Zenon
<1>9. cut \in [DOMAIN Shown -> {e.time : e \in LogEvent}]
  BY <1>6, <1>7, <1>8
<1>10. Shown' \in [DOMAIN Shown -> Seq(LogEvent)]
  BY <1>4, <1>7
<1> HIDE DEF cut
<1>11. \A g \in DOMAIN Shown :
         /\ Book!Entries(Shown'[g]) = {e \in Book!Entries(Shown[g]) : e.time >= cut[g]}
         /\ Book!Ordered(Shown'[g])
  BY <1>4, <1>7, <1>8
<1>12. Book!Prune
  BY <1>2, <1>9, <1>10, <1>11 DEF Book!Prune, LogEvent
<1> QED BY <1>5, <1>12

LEMMA LogsSteps == LogsInv /\ [LogsNext]_logVars => LogsInv' /\ [Book!Next]_<<Shown, nlines>>
<1> SUFFICES ASSUME LogsInv, [LogsNext]_logVars PROVE LogsInv' /\ [Book!Next]_<<Shown, nlines>>
  OBVIOUS
<1>1. CASE UNCHANGED logVars
  <2>1. group' = group /\ nlines' = nlines
    BY <1>1 DEF logVars
  <2> QED BY <2>1 DEF LogsInv, Shown
<1>2. CASE PruneOlderThan
  BY <1>2, PruneStep DEF Book!Next
<1>3. ASSUME NEW g \in Groups, LogSystemEvent(g) PROVE LogsInv' /\ [Book!Next]_<<Shown, nlines>>
  <2>1. PICK s \in LogStreams : PutLogEvents(g, s, <<Today>>)
    BY <1>3 DEF LogSystemEvent
  <2>2. <<Today>> \in Seq(Times) /\ Len(<<Today>>) \in {1, 2}
    BY LogsAssumption DEF Times
  <2>3. LogsInv' /\ Book!Write(g)
    BY <2>1, <2>2, PutStep
  <2> QED BY <2>3 DEF Book!Next
<1>4. ASSUME NEW g \in Groups, IngestCreate(g) PROVE LogsInv' /\ [Book!Next]_<<Shown, nlines>>
  <2>1. LogsInv' /\ (Book!Create(g) \/ UNCHANGED <<Shown, nlines>>)
    BY <1>4, WithGroupStep DEF IngestCreate
  <2> QED BY <2>1 DEF Book!Next
<1>5. ASSUME NEW g \in Groups, IngestPut(g) PROVE LogsInv' /\ [Book!Next]_<<Shown, nlines>>
  <2>1. CASE UNCHANGED <<group, nlines>>
    BY <2>1 DEF LogsInv, Shown
  <2>2. ASSUME NEW s \in LogStreams, NEW t \in Times, NEW u \in Times,
               NEW batch \in {<<t>>, <<t, u>>}, PutLogEvents(g, s, batch)
        PROVE  LogsInv' /\ [Book!Next]_<<Shown, nlines>>
    <3>1. <<t>> \in Seq(Times) /\ Len(<<t>>) = 1 /\ <<t, u>> \in Seq(Times) /\ Len(<<t, u>>) = 2
      OBVIOUS
    <3>2. batch \in Seq(Times) /\ Len(batch) \in {1, 2}
      BY <2>2, <3>1
    <3>3. LogsInv' /\ Book!Write(g)
      BY <2>2, <3>2, PutStep
    <3> QED BY <3>3 DEF Book!Next
  <2> QED BY <1>5, <2>1, <2>2 DEF IngestPut
<1>6. ASSUME NEW g \in Groups, CreateLogGroup(g) PROVE LogsInv' /\ [Book!Next]_<<Shown, nlines>>
  <2>1. LogsInv' /\ (Book!Create(g) \/ UNCHANGED <<Shown, nlines>>)
    BY <1>6, WithGroupStep DEF CreateLogGroup
  <2> QED BY <2>1 DEF Book!Next
<1>7. ASSUME NEW g \in Groups, DeleteLogGroup(g) PROVE LogsInv' /\ [Book!Next]_<<Shown, nlines>>
  BY <1>7, DeleteGroupStep DEF Book!Next
<1>8. ASSUME NEW g \in Groups, PutRetentionPolicy(g) PROVE LogsInv' /\ [Book!Next]_<<Shown, nlines>>
  BY <1>8, RetentionStep
<1>9. ASSUME NEW g \in Groups, ClearGroup(g) PROVE LogsInv' /\ [Book!Next]_<<Shown, nlines>>
  BY <1>9, ClearStep DEF Book!Next
<1> QED BY <1>1, <1>2, <1>3, <1>4, <1>5, <1>6, <1>7, <1>8, <1>9 DEF LogsNext

LEMMA LogsStart == LogsInit => LogsInv /\ Book!Init
<1> SUFFICES ASSUME LogsInit PROVE LogsInv /\ Book!Init
  OBVIOUS
<1>1. group = [g \in SystemGroups |-> EmptyGroup] /\ nlines = 0
  BY DEF LogsInit
<1>2. RingInv(EmptyGroup, 0) /\ RingEvents(EmptyGroup) = <<>>
  <2>1. 0 \in Nat
    OBVIOUS
  <2> QED BY <2>1, EmptyRing
<1>3. LogsInv
  <2>1. nlines \in 0 .. MaxLines /\ DOMAIN group \subseteq Groups
    BY <1>1, LogsAssumption
  <2>2. group = [g \in DOMAIN group |-> group[g]] /\ \A g \in DOMAIN group : group[g] = EmptyGroup
    BY <1>1
  <2> QED BY <1>1, <1>2, <2>1, <2>2 DEF LogsInv
<1>4. Shown = [g \in SystemGroups |-> <<>>]
  BY <1>1, <1>2 DEF Shown
<1> QED BY <1>1, <1>3, <1>4, LogsAssumption DEF Book!Init

(***************************************************************************)
(* The ring implements the bounded log: whatever growth, wrapping, pruning *)
(* and clearing did to a group's buffer, GetLogEvents reads the newest     *)
(* MaxEvents events written and not pruned, in the order of writing, and   *)
(* no event handed in for an existing group is lost by the call.           *)
(***************************************************************************)
THEOREM RingImplementsLog == LogsSpec => ImplementsLog
<1>1. LogsInit => LogsInv /\ Book!Init
  BY LogsStart
<1>2. LogsInv /\ [LogsNext]_logVars => LogsInv' /\ [Book!Next]_<<Shown, nlines>>
  BY LogsSteps
<1> QED BY <1>1, <1>2, PTL DEF LogsSpec, ImplementsLog, Book!Spec
=============================================================================
