------------------------------ MODULE Cognito ------------------------------
(***************************************************************************)
(* The users of one Cognito pool (src/internal/cognito): sign-up, sign-in    *)
(* with passwords, SRP and MFA, codes, sessions and the index of refresh     *)
(* tokens.  A call that runs a trigger or hashes a password gives up the     *)
(* service lock in between and is two actions; every other call is one.      *)
(*                                                                         *)
(* Passwords, hashes and signatures are left out: a check of one may succeed *)
(* or fail.  A code is pending or dead (expired, or five wrong attempts);    *)
(* time passes by an item expiring.  The pool, its only client and its       *)
(* optional MFA are fixed.                                                  *)
(***************************************************************************)
EXTENDS Integers, FiniteSets

CONSTANTS
    UserNames,      \* user names, after userKey
    SignInCallers,  \* concurrent sign-ups and sign-ins
    MaxUsers,       \* bound: users ever created
    MaxSessions,    \* bound: sessions ever started
    MaxChallenges,  \* bound: challenges pending at once
    MaxRequests     \* bound: calls

VARIABLES
    users,      \* pool.Users: name -> the user object, 0 if none
    objs,       \* the user objects
    nusers,     \* objects created so far
    sessions,   \* the objects' Sessions, as records with their owner
    nsessions,  \* sessions started so far
    refresh,    \* pool.refresh: session and user key of each refresh token
    challenges, \* Service.challenges
    signIns,    \* calls that gave up the lock
    nrequests

poolVars == <<users, objs, nusers, sessions, nsessions, refresh, challenges, signIns, nrequests>>

Purposes == {"signup", "reset", "invite", "verify", "mfa"}
NoCodes == [p \in Purposes |-> "none"]
Blank == [status |-> "CONFIRMED", enabled |-> TRUE, verified |-> FALSE, mfa |-> FALSE,
          codes |-> NoCodes]
Idle == [op |-> "idle", name |-> "", user |-> 0]
Ids == 1..MaxUsers

PoolInit ==
    /\ users = [n \in UserNames |-> 0]
    /\ objs = [i \in Ids |-> Blank]
    /\ nusers = 0 /\ nsessions = 0 /\ nrequests = 0
    /\ sessions = {} /\ refresh = {} /\ challenges = {}
    /\ signIns = [c \in SignInCallers |-> Idle]

Exists(n) == users[n] # 0
U(n) == objs[users[n]]
SessionsOf(i) == {s \in sessions : s.user = i}

Count == nrequests < MaxRequests /\ nrequests' = nrequests + 1
EndCall(c) == signIns' = [signIns EXCEPT ![c] = Idle]

(* One field of n's user changes.                                          *)
Set(n, field, value) == objs' = [objs EXCEPT ![users[n]][field] = value]
SetCode(n, p, state) == objs' = [objs EXCEPT ![users[n]].codes[p] = state]

(* authenticateAccess: an unexpired access token of a session that is still *)
(* there and not revoked, of an enabled user.                               *)
Access(n) == Exists(n) /\ U(n).enabled /\ \E s \in SessionsOf(users[n]) : ~s.revoked

(* recoveryAttribute finds a verified address.                             *)
Recoverable(n) == U(n).verified

Revoked(i) == {[s EXCEPT !.revoked = @ \/ s.user = i] : s \in sessions}

(***************************************************************************)
(* Sessions and challenges                                                 *)
(***************************************************************************)
(* startSession drops the user's expired sessions from both maps and adds   *)
(* the new one to both.                                                     *)
StartSession(i, n) ==
    LET old == {s \in SessionsOf(i) : s.expired}
        jti == nsessions + 1
    IN  /\ nsessions < MaxSessions
        /\ nsessions' = jti
        /\ sessions' = (sessions \ old)
                         \cup {[jti |-> jti, user |-> i, revoked |-> FALSE, expired |-> FALSE]}
        /\ refresh' = {r \in refresh : \A s \in old : r.jti # s.jti} \cup {[jti |-> jti, key |-> n]}

(* challenge: the expired ones go, a new one is stored.                    *)
Challenge(n, kind, consumed) ==
    LET kept == {ch \in challenges \ consumed : ~ch.expired}
        free == {k \in 1..MaxChallenges : \A ch \in kept : ch.id # k}
    IN  /\ free # {}
        /\ challenges' = kept \cup {[id |-> CHOOSE k \in free : \A l \in free : k <= l,
                                     kind |-> kind, key |-> n, expired |-> FALSE]}

NoSession == UNCHANGED <<sessions, nsessions, refresh>>

(* completeAuth for object i under name n, whose fields are o: refused,     *)
(* asked for a new password or a code, or signed in.                        *)
CompleteAuth(i, n, o, mfaDone, consumed) ==
    \/ /\ o.status \in {"UNCONFIRMED", "RESET_REQUIRED", "FORCE_CHANGE_PASSWORD"}
       /\ challenges' = challenges \ consumed
       /\ objs' = [objs EXCEPT ![i] = o] /\ NoSession
    \/ /\ o.status = "FORCE_CHANGE_PASSWORD"
       /\ Challenge(n, "NEW_PASSWORD_REQUIRED", consumed)
       /\ objs' = [objs EXCEPT ![i] = o] /\ NoSession
    \/ /\ o.status = "CONFIRMED" /\ o.mfa /\ ~mfaDone
       /\ Challenge(n, "MFA", consumed)
       /\ objs' = [objs EXCEPT ![i] = [o EXCEPT !.codes["mfa"] = "pending"]] /\ NoSession
    \/ /\ o.status = "CONFIRMED" /\ (mfaDone \/ ~o.mfa)
       /\ StartSession(i, n)
       /\ challenges' = challenges \ consumed
       /\ objs' = [objs EXCEPT ![i] = o]

(***************************************************************************)
(* Signing up                                                              *)
(***************************************************************************)
NewUser(n, o) ==
    /\ nusers < MaxUsers
    /\ nusers' = nusers + 1
    /\ users' = [users EXCEPT ![n] = nusers + 1]
    /\ objs' = [objs EXCEPT ![nusers + 1] = o]

(* SignUp checks the request, runs the PreSignUp trigger and hashes the     *)
(* password without the lock.                                               *)
SignUpBegin(c, n) ==
    /\ signIns[c] = Idle /\ Count
    /\ signIns' = [signIns EXCEPT ![c] = [op |-> "signup", name |-> n, user |-> 0]]
    /\ UNCHANGED <<users, objs, nusers, sessions, nsessions, refresh, challenges>>

(* Then it takes the name if it is still free; the trigger may confirm.     *)
SignUpEnd(c) ==
    /\ signIns[c].op = "signup" /\ ~Exists(signIns[c].name)
    /\ \E confirm, verify \in BOOLEAN :
         NewUser(signIns[c].name,
                 [Blank EXCEPT !.status = IF confirm THEN "CONFIRMED" ELSE "UNCONFIRMED",
                               !.verified = verify,
                               !.codes["signup"] = IF confirm THEN "none" ELSE "pending"])
    /\ EndCall(c)
    /\ UNCHANGED <<sessions, nsessions, refresh, challenges, nrequests>>

(* AdminCreateUser, with an invitation unless it is suppressed; RESEND       *)
(* renews the invitation.                                                   *)
AdminCreateUser(n) ==
    /\ Count
    /\ \/ /\ ~Exists(n)
          /\ \E invite \in {"none", "pending"} :
               NewUser(n, [Blank EXCEPT !.status = "FORCE_CHANGE_PASSWORD", !.codes["invite"] = invite])
       \/ /\ Exists(n) /\ U(n).status = "FORCE_CHANGE_PASSWORD"
          /\ SetCode(n, "invite", "pending") /\ UNCHANGED <<users, nusers>>
    /\ UNCHANGED <<sessions, nsessions, refresh, challenges, signIns>>

(* Calls that only change the user's own fields.                            *)
OnlyUser == UNCHANGED <<users, nusers, sessions, nsessions, refresh, challenges, signIns>>

(* consumeCode removes the right code.  Another user's verified alias can   *)
(* still refuse the confirmation, and the code is gone then too.            *)
ConfirmSignUp(n) ==
    /\ Exists(n) /\ U(n).status = "UNCONFIRMED" /\ U(n).codes["signup"] = "pending" /\ Count
    /\ \E claimed \in BOOLEAN :
         objs' = [objs EXCEPT ![users[n]].codes["signup"] = "none",
                              ![users[n]].verified = @ \/ claimed,
                              ![users[n]].status = IF claimed THEN "CONFIRMED" ELSE @]
    /\ OnlyUser

AdminConfirmSignUp(n) ==
    /\ Exists(n) /\ U(n).status = "UNCONFIRMED" /\ Count
    /\ objs' = [objs EXCEPT ![users[n]].codes["signup"] = "none", ![users[n]].status = "CONFIRMED"]
    /\ OnlyUser

ResendConfirmationCode(n) ==
    /\ Exists(n) /\ U(n).status = "UNCONFIRMED" /\ Count
    /\ SetCode(n, "signup", "pending") /\ OnlyUser

(***************************************************************************)
(* Passwords, addresses and preferences                                    *)
(***************************************************************************)
ForgotPassword(n) ==
    /\ Exists(n) /\ U(n).enabled /\ Recoverable(n) /\ Count
    /\ SetCode(n, "reset", "pending") /\ OnlyUser

ConfirmForgotPassword(n) ==
    /\ Exists(n) /\ U(n).codes["reset"] = "pending" /\ Count
    /\ objs' = [objs EXCEPT ![users[n]].codes["reset"] = "none",
                            ![users[n]].status =
                               IF @ \in {"RESET_REQUIRED", "FORCE_CHANGE_PASSWORD"} THEN "CONFIRMED" ELSE @]
    /\ OnlyUser

AdminSetUserPassword(n) ==
    /\ Exists(n) /\ Count
    /\ \E status \in {"CONFIRMED", "FORCE_CHANGE_PASSWORD"} :
         objs' = [objs EXCEPT ![users[n]].status = status, ![users[n]].codes["invite"] = "none"]
    /\ OnlyUser

(* UpdateUserAttributes with a new address, and its administrator's form,   *)
(* which may declare the address verified.                                  *)
UpdateUserAttributes(n) ==
    /\ Count
    /\ \/ /\ Access(n)
          /\ objs' = [objs EXCEPT ![users[n]].verified = FALSE, ![users[n]].codes["verify"] = "pending"]
       \/ /\ Exists(n)
          /\ \E verified \in BOOLEAN : Set(n, "verified", verified)
    /\ OnlyUser

GetUserAttributeVerificationCode(n) ==
    /\ Access(n) /\ Count
    /\ SetCode(n, "verify", "pending") /\ OnlyUser

VerifyUserAttribute(n) ==
    /\ Access(n) /\ U(n).codes["verify"] = "pending" /\ Count
    /\ \E claimed \in BOOLEAN :
         objs' = [objs EXCEPT ![users[n]].codes["verify"] = "none",
                              ![users[n]].verified = @ \/ claimed]
    /\ OnlyUser

SetUserMFAPreference(n) ==
    /\ Exists(n) /\ Count
    /\ \E on \in BOOLEAN : Set(n, "mfa", on)
    /\ OnlyUser

(* A wrong code: the fifth kills it.                                        *)
WrongCode(n, p) ==
    /\ Exists(n) /\ U(n).codes[p] = "pending" /\ Count
    /\ SetCode(n, p, "dead") /\ OnlyUser

(***************************************************************************)
(* Disabling, signing out, deleting                                        *)
(***************************************************************************)
OnlySessions == UNCHANGED <<users, nusers, nsessions, refresh, challenges, signIns>>

SetEnabled(n) ==
    /\ Exists(n) /\ Count
    /\ \E enabled \in BOOLEAN :
         /\ Set(n, "enabled", enabled)
         /\ sessions' = IF enabled THEN sessions ELSE Revoked(users[n])
    /\ OnlySessions

AdminResetUserPassword(n) ==
    /\ Exists(n) /\ Recoverable(n) /\ Count
    /\ objs' = [objs EXCEPT ![users[n]].status = "RESET_REQUIRED", ![users[n]].codes["reset"] = "pending"]
    /\ sessions' = Revoked(users[n])
    /\ OnlySessions

GlobalSignOut(n) ==
    /\ Exists(n) /\ Count
    /\ sessions' = Revoked(users[n])
    /\ UNCHANGED objs /\ OnlySessions

(* RevokeToken finds the session through the index.                        *)
RevokeToken(r) ==
    /\ Exists(r.key) /\ Count
    /\ sessions' = {[s EXCEPT !.revoked = @ \/ (s.user = users[r.key] /\ s.jti = r.jti)] : s \in sessions}
    /\ UNCHANGED objs /\ OnlySessions

(* Mutant: the index is left alone.                                        *)
KeptTokens(i) == refresh

(* The index without the refresh tokens of i's sessions.                   *)
DroppedTokens(i) == {r \in refresh : \A s \in SessionsOf(i) : r.jti # s.jti}

(* deleteUser; the object is garbage once nobody reaches it.               *)
DeleteUser(n) ==
    /\ Exists(n) /\ Count
    /\ refresh' = DroppedTokens(users[n])
    /\ users' = [users EXCEPT ![n] = 0]
    /\ sessions' = sessions \ SessionsOf(users[n])
    /\ objs' = [objs EXCEPT ![users[n]] = Blank]
    /\ UNCHANGED <<nusers, nsessions, challenges, signIns>>

(***************************************************************************)
(* Signing in                                                              *)
(***************************************************************************)
(* passwordAuth reads the user, unlocks, runs the PreAuthentication trigger *)
(* and compares the password; srpAuth runs the trigger.                     *)
SignInBegin(c, n, op) ==
    /\ signIns[c] = Idle /\ Exists(n) /\ Count
    /\ op = "password" => U(n).enabled
    /\ signIns' = [signIns EXCEPT ![c] = [op |-> op, name |-> n, user |-> users[n]]]
    /\ UNCHANGED <<users, objs, nusers, sessions, nsessions, refresh, challenges>>

(* Mutant: whoever has the name now is taken for the user.                  *)
AnyUser(c) == TRUE

(* The user read before is still the one in the map.                        *)
SameUser(c) == users[signIns[c].name] = signIns[c].user

PasswordEnd(c) ==
    /\ signIns[c].op = "password" /\ SameUser(c)
    /\ CompleteAuth(signIns[c].user, signIns[c].name, objs[signIns[c].user], FALSE, {})
    /\ EndCall(c)
    /\ UNCHANGED <<users, nusers, nrequests>>

SrpEnd(c) ==
    /\ signIns[c].op = "srp" /\ SameUser(c) /\ objs[signIns[c].user].enabled
    /\ Challenge(signIns[c].name, "PASSWORD_VERIFIER", {})
    /\ EndCall(c)
    /\ UNCHANGED <<users, objs, nusers, sessions, nsessions, refresh, nrequests>>

(* A trigger refuses, the password is wrong, the name is taken, the user is *)
(* gone or disabled: the call ends with an error.                           *)
CallFails(c) ==
    /\ signIns[c] # Idle
    /\ EndCall(c)
    /\ UNCHANGED <<users, objs, nusers, sessions, nsessions, refresh, challenges, nrequests>>

(* respondLocked consumes the challenge and goes on with whoever has the    *)
(* name now.  A wrong MFA code puts the challenge back (see WrongCode); a    *)
(* dead one does not.                                                       *)
Respond(ch) ==
    LET n == ch.key IN
    /\ ~ch.expired /\ Count
    /\ \/ /\ ch.kind = "MFA" /\ Exists(n) => U(n).codes["mfa"] = "dead"
          /\ challenges' = challenges \ {ch}
          /\ UNCHANGED objs /\ NoSession
       \/ /\ ch.kind = "PASSWORD_VERIFIER" /\ Exists(n)
          /\ CompleteAuth(users[n], n, U(n), FALSE, {ch})
       \/ /\ ch.kind = "MFA" /\ Exists(n) /\ U(n).codes["mfa"] = "pending"
          /\ CompleteAuth(users[n], n, [U(n) EXCEPT !.codes["mfa"] = "none"], TRUE, {ch})
       \/ /\ ch.kind = "NEW_PASSWORD_REQUIRED" /\ Exists(n)
          /\ CompleteAuth(users[n], n,
                          [U(n) EXCEPT !.status = "CONFIRMED", !.codes["invite"] = "none"], FALSE, {ch})
    /\ UNCHANGED <<users, nusers, signIns>>

(* MintTokens starts a session without a password.                         *)
MintTokens(n) ==
    /\ Exists(n) /\ U(n).enabled /\ Count
    /\ StartSession(users[n], n)
    /\ UNCHANGED <<users, objs, nusers, challenges, signIns>>

(***************************************************************************)
(* Time and restarts                                                       *)
(***************************************************************************)
Expire ==
    /\ \/ /\ \E s \in sessions : /\ ~s.expired
                                 /\ sessions' = (sessions \ {s}) \cup {[s EXCEPT !.expired = TRUE]}
          /\ UNCHANGED <<objs, challenges>>
       \/ /\ \E ch \in challenges : /\ ~ch.expired
                                    /\ challenges' = (challenges \ {ch}) \cup {[ch EXCEPT !.expired = TRUE]}
          /\ UNCHANGED <<objs, sessions>>
       \/ /\ \E n \in UserNames : /\ Exists(n)
                              /\ \E p \in Purposes : U(n).codes[p] = "pending" /\ SetCode(n, p, "dead")
          /\ UNCHANGED <<sessions, challenges>>
    /\ UNCHANGED <<users, nusers, nsessions, refresh, signIns, nrequests>>

(* The index a loaded pool starts from: every session of every user.       *)
RebuildRefreshIndex ==
    {r \in [jti : 1..nsessions, key : UserNames] : \E s \in SessionsOf(users[r.key]) : s.jti = r.jti}

(* A clean restart keeps users and sessions; challenges and calls are lost. *)
RestartPool ==
    /\ refresh' = RebuildRefreshIndex
    /\ challenges' = {}
    /\ signIns' = [c \in SignInCallers |-> Idle]
    /\ UNCHANGED <<users, objs, nusers, sessions, nsessions, nrequests>>

PoolNext ==
    \/ \E n \in UserNames :
         \/ AdminCreateUser(n) \/ ConfirmSignUp(n) \/ AdminConfirmSignUp(n) \/ ResendConfirmationCode(n)
         \/ ForgotPassword(n) \/ ConfirmForgotPassword(n) \/ AdminSetUserPassword(n)
         \/ UpdateUserAttributes(n) \/ GetUserAttributeVerificationCode(n) \/ VerifyUserAttribute(n)
         \/ SetUserMFAPreference(n) \/ SetEnabled(n) \/ AdminResetUserPassword(n)
         \/ GlobalSignOut(n) \/ DeleteUser(n) \/ MintTokens(n)
         \/ \E p \in Purposes : WrongCode(n, p)
         \/ \E c \in SignInCallers : SignUpBegin(c, n) \/ \E op \in {"password", "srp"} : SignInBegin(c, n, op)
    \/ \E c \in SignInCallers : SignUpEnd(c) \/ PasswordEnd(c) \/ SrpEnd(c) \/ CallFails(c)
    \/ \E ch \in challenges : Respond(ch)
    \/ \E r \in refresh : RevokeToken(r)
    \/ Expire \/ RestartPool

PoolSpec == PoolInit /\ [][PoolNext]_poolVars

(***************************************************************************)
(* Properties                                                              *)
(***************************************************************************)
(* The index of refresh tokens and the users' sessions are the same map: a   *)
(* token leads to a session of the user who has the name, and every session *)
(* can be refreshed and revoked by its token, whatever is deleted, signed up *)
(* again, pruned or restarted while a sign-in is under way.                  *)
RefreshIndexExact ==
    /\ \A r \in refresh : \E s \in sessions : s.jti = r.jti /\ Exists(r.key) /\ s.user = users[r.key]
    /\ \A n \in UserNames : \A s \in SessionsOf(users[n]) : [jti |-> s.jti, key |-> n] \in refresh
=============================================================================
