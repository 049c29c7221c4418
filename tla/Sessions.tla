------------------------------ MODULE Sessions ------------------------------
(* Accounts and their sessions: login, refresh, logout and password reset    *)
(* (src/auth/auth.service.ts), the guard on authenticated requests           *)
(* (src/auth/strategies/jwt.strategy.ts) and the writes of UsersService      *)
(* (src/users/users.service.ts) that sessions depend on.  A request is a     *)
(* sequence of awaited database calls; other requests run in between.  What  *)
(* the client sends is chosen where the handler first looks at it.           *)
(*                                                                           *)
(* The OTP of a password reset is what OneTimeCode promises; Otp implements  *)
(* it.  A request that is refused without having written anything changes    *)
(* nothing here and is not a step.  An expired token is refused by the JWT   *)
(* library in the same way.                                                  *)
EXTENDS Naturals, Sequences
LOCAL INSTANCE Functions

CONSTANTS
  Request, User, Email, Role, Password,
  Null,          \* null and undefined
  FirstEmail,    \* the e-mail address each user starts with
  FirstRole, FirstPassword,
  MaxSessions,   \* bound: token pairs issued
  MaxVersion,    \* bound: the sum of all tokenVersions
  MaxCodes       \* bound: OTPs issued

ASSUME SessionsAssumption ==
  /\ FirstEmail \in [User -> Email]
  /\ \A u, v \in User : FirstEmail[u] = FirstEmail[v] => u = v
  /\ FirstRole \in Role /\ FirstPassword \in Password
  /\ Null \notin User \cup Email \cup Role \cup Password
  /\ MaxSessions \in Nat /\ MaxVersion \in Nat /\ MaxCodes \in Nat

VARIABLES
  users,     \* the users collection
  sessions,  \* the token pairs signed so far, oldest first
  reqs,      \* the requests being served
  codes, live, asked   \* the OTP service, see OneTimeCode

vars == <<users, sessions, reqs, codes, live, asked>>
otp == <<codes, live, asked>>

ResetPassword == "resetPassword"

Otc == INSTANCE OneTimeCode WITH Purpose <- {ResetPassword}, File <- {}

----------------------------------------------------------------------------
(* Mutant: the refresh token is stored as it is.                             *)
MutHashNothing(x) == x

(* bcrypt applied to a refresh token: which token, and how many times.       *)
Plain(s) == [token |-> s, rounds |-> 0]
Hash(x) == [x EXCEPT !.rounds = @ + 1]
Compare(x, hash) == hash = Hash(x)

Stored == [token : Nat, rounds : 1 .. 2] \cup {Null}

Account == [exists : BOOLEAN, email : Email, role : Role, isActive : BOOLEAN,
            password : Password, tokenVersion : Nat, refreshToken : Stored]

(* A token pair: what the JWT says, whether its owner has received it, and   *)
(* (history) the account's state when the refresh token was stored.          *)
Session == [sub : User, email : Email, role : Role,
            tokenVersion : Nat \cup {Null}, delivered : BOOLEAN,
            under : [email : Email, role : Role, isActive : BOOLEAN,
                     password : Password]]

ReqState == [pc : {"idle", "loginBump", "loginReload", "issueTokens",
                   "respond", "mismatchBump", "mismatchRevoke", "changeFind",
                   "changeSave", "toggleSave", "sendOtp", "sendOtpCreate",
                   "verifyAsk", "verifyAnswer", "verified", "resetAsk",
                   "resetAnswer", "resetCheck", "resetSet", "resetBump",
                   "resetRevoke"},
             userId : User \cup {Null}, email : Email \cup {Null},
             role : Role \cup {Null}, tokenVersion : Nat \cup {Null},
             found : Password \cup {Null},  \* password as it was read
             shown : Password \cup {Null},  \* currentPassword of the request
             new : Password \cup {Null},    \* newPassword of the request
             session : Nat, active : BOOLEAN]

Idle == [pc |-> "idle", userId |-> Null, email |-> Null, role |-> Null,
         tokenVersion |-> Null, found |-> Null, shown |-> Null, new |-> Null,
         session |-> 0, active |-> FALSE]

TypeOK ==
  /\ users \in [User -> Account]
  /\ sessions \in Seq(Session)
  /\ reqs \in [Request -> ReqState]
  /\ Otc!OtcTypeOK

Init ==
  /\ users = [u \in User |->
       [exists |-> TRUE, email |-> FirstEmail[u], role |-> FirstRole,
        isActive |-> TRUE, password |-> FirstPassword, tokenVersion |-> 0,
        refreshToken |-> Null]]
  /\ sessions = <<>>
  /\ reqs = [r \in Request |-> Idle]
  /\ Otc!OtcInit

----------------------------------------------------------------------------
(* Reads and writes of a user document.                                      *)

Exists(u) == users[u].exists

ByEmail(e) == {u \in User : Exists(u) /\ users[u].email = e}

(* findAuthUserById selects '+password +refreshToken': tokenVersion is       *)
(* select: false in the schema and stays undefined.                          *)
AuthView(u) == [users[u] EXCEPT !.tokenVersion = Null]

(* Mutant: the write inserts a document that is not there (upsert: true).    *)
MutWriteUpserts(u, doc) ==
  users' = [users EXCEPT ![u] = [doc EXCEPT !.exists = TRUE]]

(* findByIdAndUpdate: nothing happens to a document that is not there.       *)
Write(u, doc) ==
  users' = IF Exists(u) THEN [users EXCEPT ![u] = doc] ELSE users

Bumped(doc) == [doc EXCEPT !.tokenVersion = @ + 1]
Revoked(doc) == [doc EXCEPT !.refreshToken = Null]

(* Bound: what all the accounts' tokenVersions add up to.                    *)
MayBump == SumFunction([u \in User |-> users[u].tokenVersion]) < MaxVersion

IncrementTokenVersion(u) ==
  /\ MayBump
  /\ Write(u, Bumped(users[u]))

RemoveRefreshToken(u) == Write(u, Revoked(users[u]))

(* (user.tokenVersion ?? 0) + 1 on a document read without tokenVersion.     *)
NextVersion(view) ==
  (IF view.tokenVersion = Null THEN 0 ELSE view.tokenVersion) + 1

At(r, pc) == reqs[r].pc = pc
Goto(r, pc) == reqs' = [reqs EXCEPT ![r].pc = pc]
Start(r, q) == reqs[r] = Idle /\ reqs' = [reqs EXCEPT ![r] = q]
Finish(r) == reqs' = [reqs EXCEPT ![r] = Idle]

----------------------------------------------------------------------------
(* login *)

(* findByEmail with the password, then bcrypt.compare.                       *)
LoginFind(r, e, password) ==
  /\ \E u \in ByEmail(e) :
       /\ users[u].password = password
       /\ users[u].isActive
       /\ Start(r, [Idle EXCEPT !.pc = "loginBump", !.userId = u])
  /\ UNCHANGED <<users, sessions, otp>>

LoginBump(r) ==
  /\ At(r, "loginBump")
  /\ IncrementTokenVersion(reqs[r].userId)
  /\ Goto(r, "loginReload")
  /\ UNCHANGED <<sessions, otp>>

(* The payload of the tokens comes from a second read of the user.           *)
LoginReload(r) ==
  LET view == AuthView(reqs[r].userId)
  IN /\ At(r, "loginReload")
     /\ reqs' = [reqs EXCEPT ![r] =
          IF view.exists
          THEN [@ EXCEPT !.pc = "issueTokens", !.email = view.email,
                         !.role = view.role,
                         !.tokenVersion = view.tokenVersion]
          ELSE Idle]
     /\ UNCHANGED <<users, sessions, otp>>

(* issueTokens hashes the refresh token, setRefreshToken hashes the hash.    *)
IssueTokens(r) ==
  LET u == reqs[r].userId
      s == Len(sessions) + 1
  IN /\ At(r, "issueTokens")
     /\ s <= MaxSessions
     /\ Write(u, [users[u] EXCEPT !.refreshToken = Hash(Hash(Plain(s)))])
     /\ sessions' = Append(sessions,
          [sub |-> u, email |-> reqs[r].email, role |-> reqs[r].role,
           tokenVersion |-> reqs[r].tokenVersion, delivered |-> FALSE,
           under |-> [email |-> users[u].email, role |-> users[u].role,
                      isActive |-> users[u].isActive,
                      password |-> users[u].password]])
     /\ reqs' = [reqs EXCEPT ![r] =
          [Idle EXCEPT !.pc = "respond", !.session = s]]
     /\ UNCHANGED otp

(* updateLastLogin, then the cookies reach the client.                       *)
Respond(r) ==
  /\ At(r, "respond")
  /\ sessions' = [sessions EXCEPT ![reqs[r].session].delivered = TRUE]
  /\ Finish(r)
  /\ UNCHANGED <<users, otp>>

----------------------------------------------------------------------------
(* refresh, logout, and the guard *)

Refresh(r, s) ==
  LET u == sessions[s].sub
      view == AuthView(u)
  IN /\ sessions[s].delivered
     /\ view.exists
     /\ view.refreshToken # Null
     /\ view.isActive
     /\ view.tokenVersion = sessions[s].tokenVersion
     /\ Start(r, IF Compare(Plain(s), view.refreshToken)
                 THEN [Idle EXCEPT !.pc = "issueTokens", !.userId = u,
                                   !.email = view.email, !.role = view.role,
                                   !.tokenVersion = view.tokenVersion]
                 ELSE [Idle EXCEPT !.pc = "mismatchBump", !.userId = u])
     /\ UNCHANGED <<users, sessions, otp>>

(* "Token mismatch can indicate token theft": revoke every session.          *)
MismatchBump(r) ==
  /\ At(r, "mismatchBump")
  /\ IncrementTokenVersion(reqs[r].userId)
  /\ Goto(r, "mismatchRevoke")
  /\ UNCHANGED <<sessions, otp>>

MismatchRevoke(r) ==
  /\ At(r, "mismatchRevoke")
  /\ RemoveRefreshToken(reqs[r].userId)
  /\ Finish(r)
  /\ UNCHANGED <<sessions, otp>>

(* Any token of the user logs the user out, an older session's too.          *)
Logout(s) ==
  /\ sessions[s].delivered
  /\ RemoveRefreshToken(sessions[s].sub)
  /\ UNCHANGED <<sessions, reqs, otp>>

(* JwtStrategy.validate: the access token of session s opens a request.      *)
Authenticated(s) ==
  LET view == AuthView(sessions[s].sub)
  IN /\ sessions[s].delivered
     /\ view.exists
     /\ view.isActive
     /\ view.tokenVersion = sessions[s].tokenVersion
     /\ view.email = sessions[s].email
     /\ view.role = sessions[s].role

----------------------------------------------------------------------------
(* changePassword: behind the guard, then read, compare, save.               *)

ChangeStart(r, s) ==
  /\ Authenticated(s)
  /\ Start(r, [Idle EXCEPT !.pc = "changeFind", !.userId = sessions[s].sub])
  /\ UNCHANGED <<users, sessions, otp>>

(* The request goes on to save, with what it has read and been shown.        *)
ReadToSave(r, current, new) ==
  reqs' = [reqs EXCEPT ![r].pc = "changeSave", ![r].new = new,
                       ![r].shown = current,
                       ![r].found = users[reqs[r].userId].password]

(* Mutant: bcrypt.compare is called without await, a promise is truthy.      *)
MutChangeFindNotAwaited(r, current, new) ==
  /\ At(r, "changeFind")
  /\ IF Exists(reqs[r].userId) /\ current # new
     THEN ReadToSave(r, current, new)
     ELSE Finish(r)
  /\ UNCHANGED <<users, sessions, otp>>

ChangeFind(r, current, new) ==
  /\ At(r, "changeFind")
  /\ IF /\ Exists(reqs[r].userId)
        /\ users[reqs[r].userId].password = current
        /\ current # new
     THEN ReadToSave(r, current, new)
     ELSE Finish(r)
  /\ UNCHANGED <<users, sessions, otp>>

ChangeSave(r) ==
  LET u == reqs[r].userId
  IN /\ At(r, "changeSave")
     /\ Write(u, [users[u] EXCEPT !.password = reqs[r].new,
                                  !.tokenVersion = NextVersion(AuthView(u)),
                                  !.refreshToken = Null])
     /\ Finish(r)
     /\ UNCHANGED <<sessions, otp>>

----------------------------------------------------------------------------
(* Administration.  Who may call these is the subject of the role guards.    *)

(* toggleActive: read, compare with the wanted state, save.                  *)
ToggleFind(r, u, active) ==
  /\ Exists(u)
  /\ users[u].isActive # active
  /\ Start(r, [Idle EXCEPT !.pc = "toggleSave", !.userId = u,
                           !.active = active])
  /\ UNCHANGED <<users, sessions, otp>>

(* Mutant: deactivation only sets isActive.                                  *)
MutToggleSaveKeepsToken(r) ==
  LET u == reqs[r].userId
  IN /\ At(r, "toggleSave")
     /\ Write(u, [users[u] EXCEPT !.isActive = reqs[r].active])
     /\ Finish(r)
     /\ UNCHANGED <<sessions, otp>>

ToggleSave(r) ==
  LET u == reqs[r].userId
  IN /\ At(r, "toggleSave")
     /\ Write(u, IF reqs[r].active
                 THEN [users[u] EXCEPT !.isActive = TRUE]
                 ELSE [users[u] EXCEPT
                         !.isActive = FALSE,
                         !.tokenVersion = NextVersion(AuthView(u)),
                         !.refreshToken = Null])
     /\ Finish(r)
     /\ UNCHANGED <<sessions, otp>>

(* update: a field that is Null is not in the dto.  A dto that names a role, *)
(* an e-mail address or isActive: false is sensitive, whatever it changes.   *)
(* The unique index refuses an e-mail address in use.                        *)
Update(u, email, role, active) ==
  LET Or(new, old) == IF new = Null THEN old ELSE new
      old == users[u]
      doc == [old EXCEPT !.email = Or(email, @), !.role = Or(role, @),
                         !.isActive = Or(active, @)]
      sensitive == email # Null \/ role # Null \/ active = FALSE
  IN /\ Exists(u)
     /\ email # Null => ByEmail(email) \subseteq {u}
     /\ MayBump
     /\ Write(u, IF sensitive THEN Revoked(Bumped(doc)) ELSE doc)
     /\ UNCHANGED <<sessions, reqs, otp>>

DeleteUser(u) ==
  /\ Exists(u)
  /\ users' = [users EXCEPT ![u].exists = FALSE, ![u].refreshToken = Null]
  /\ UNCHANGED <<sessions, reqs, otp>>

----------------------------------------------------------------------------
(* forgotPassword and resetPassword *)

LiveOf(u) == {i \in live : Otc!SameKey(codes[i], u, ResetPassword)}

StartSendOtp(r, u) ==
  /\ Start(r, [Idle EXCEPT !.pc = "sendOtp", !.userId = u])
  /\ UNCHANGED <<users, sessions, otp>>

(* forgotPassword wants an active user, the resend-otp handler any user.     *)
ForgotPassword(r, e) ==
  \E u \in ByEmail(e) : users[u].isActive /\ StartSendOtp(r, u)
ResendOtp(r, e) == \E u \in ByEmail(e) : StartSendOtp(r, u)

(* sendOtp's updateMany.                                                     *)
SendOtp(r) ==
  /\ At(r, "sendOtp")
  /\ Otc!Revoke(LiveOf(reqs[r].userId))
  /\ Goto(r, "sendOtpCreate")
  /\ UNCHANGED <<users, sessions>>

(* sendOtp's create; another request's code in the way makes it fail.        *)
SendOtpCreate(r) ==
  /\ At(r, "sendOtpCreate")
  /\ IF LiveOf(reqs[r].userId) = {}
     THEN /\ Len(codes) < MaxCodes
          /\ Otc!Issue(reqs[r].userId, ResetPassword, Null)
     ELSE UNCHANGED otp
  /\ Finish(r)
  /\ UNCHANGED <<users, sessions>>

ResetFind(r, e) ==
  /\ \E u \in ByEmail(e) :
       Start(r, [Idle EXCEPT !.pc = "resetAsk", !.userId = u,
                             !.found = users[u].password])
  /\ UNCHANGED <<users, sessions, otp>>

(* verifyOtp of the OTP service: no live code, or else one to be compared.    *)
AskOtp(r, answer) ==
  \/ Otc!Ask(r, reqs[r].userId, ResetPassword, Null) /\ Goto(r, answer)
  \/ Finish(r) /\ UNCHANGED otp

(* The code is used up before the new password is looked at.                 *)
ResetAsk(r) ==
  /\ At(r, "resetAsk")
  /\ AskOtp(r, "resetAnswer")
  /\ UNCHANGED <<users, sessions>>

ResetAnswer(r) ==
  /\ At(r, "resetAnswer")
  /\ Otc!Accept(r) \/ Otc!Refuse(r)
  /\ Goto(r, "resetCheck")
  /\ UNCHANGED <<users, sessions>>

GotoResetSet(r, new) ==
  reqs' = [reqs EXCEPT ![r].pc = "resetSet", ![r].new = new, ![r].found = Null]

(* Mutant: verifyOtp is called without await, so its exception is lost.      *)
MutResetCheckNotAwaited(r, new) ==
  /\ At(r, "resetCheck")
  /\ IF new # reqs[r].found
     THEN GotoResetSet(r, new) /\ UNCHANGED otp
     ELSE Finish(r) /\ Otc!Release(r)
  /\ UNCHANGED <<users, sessions>>

(* Refused: the password the user had when the request came in.  (A weak one *)
(* never gets here: the DTO's pattern is stricter than isStrongPassword.)    *)
ResetCheck(r, new) ==
  /\ At(r, "resetCheck")
  /\ IF asked[r].state = "accepted" /\ new # reqs[r].found
     THEN GotoResetSet(r, new) /\ UNCHANGED otp
     ELSE Finish(r) /\ Otc!Release(r)
  /\ UNCHANGED <<users, sessions>>

(* forceSetPassword: one update.                                             *)
ResetSet(r) ==
  LET u == reqs[r].userId
  IN /\ At(r, "resetSet")
     /\ MayBump
     /\ Write(u, Revoked(Bumped([users[u] EXCEPT !.password = reqs[r].new])))
     /\ Otc!Release(r)
     /\ reqs' = [reqs EXCEPT ![r] =
          [Idle EXCEPT !.pc = "resetBump", !.userId = u]]
     /\ UNCHANGED sessions

(* "call them again for safety"                                              *)
ResetBump(r) ==
  /\ At(r, "resetBump")
  /\ IncrementTokenVersion(reqs[r].userId)
  /\ Goto(r, "resetRevoke")
  /\ UNCHANGED <<sessions, otp>>

ResetRevoke(r) ==
  /\ At(r, "resetRevoke")
  /\ RemoveRefreshToken(reqs[r].userId)
  /\ Finish(r)
  /\ UNCHANGED <<sessions, otp>>

----------------------------------------------------------------------------
(* verifyOtp: anybody who knows the e-mail address may try a code, which is  *)
(* used up if it is the right one.                                           *)

VerifyFind(r, e) ==
  /\ \E u \in ByEmail(e) :
       Start(r, [Idle EXCEPT !.pc = "verifyAsk", !.userId = u])
  /\ UNCHANGED <<users, sessions, otp>>

VerifyAsk(r) ==
  /\ At(r, "verifyAsk")
  /\ AskOtp(r, "verifyAnswer")
  /\ UNCHANGED <<users, sessions>>

VerifyAnswer(r) ==
  /\ At(r, "verifyAnswer")
  /\ Otc!Accept(r) \/ Otc!Refuse(r)
  /\ Goto(r, "verified")
  /\ UNCHANGED <<users, sessions>>

Verified(r) ==
  /\ At(r, "verified")
  /\ Otc!Release(r)
  /\ Finish(r)
  /\ UNCHANGED <<users, sessions>>

----------------------------------------------------------------------------
(* An OTP expires.                                                           *)
OtpExpires(i) ==
  /\ Otc!Revoke({i})
  /\ UNCHANGED <<users, sessions, reqs>>

(* The server restarts: requests in flight stop where they are.              *)
Restart ==
  /\ \E r \in Request : reqs[r] # Idle
  /\ reqs' = [r \in Request |-> Idle]
  /\ Otc!Forget
  /\ UNCHANGED <<users, sessions>>

Step(r) ==
  \/ LoginBump(r) \/ LoginReload(r) \/ IssueTokens(r) \/ Respond(r)
  \/ MismatchBump(r) \/ MismatchRevoke(r)
  \/ \E new \in Password :
       \/ \E current \in Password : ChangeFind(r, current, new)
       \/ ResetCheck(r, new)
  \/ ChangeSave(r) \/ ToggleSave(r)
  \/ SendOtp(r) \/ SendOtpCreate(r)
  \/ ResetAsk(r) \/ ResetAnswer(r) \/ ResetSet(r)
  \/ ResetBump(r) \/ ResetRevoke(r)
  \/ VerifyAsk(r) \/ VerifyAnswer(r) \/ Verified(r)

Arrive(r) ==
  \/ \E e \in Email :
       \/ ForgotPassword(r, e)
       \/ ResendOtp(r, e)
       \/ VerifyFind(r, e)
       \/ ResetFind(r, e)
       \/ \E p \in Password : LoginFind(r, e, p)
  \/ \E s \in DOMAIN sessions : Refresh(r, s) \/ ChangeStart(r, s)
  \/ \E u \in User, active \in BOOLEAN : ToggleFind(r, u, active)

Next ==
  \/ \E r \in Request : Arrive(r) \/ Step(r)
  \/ \E s \in DOMAIN sessions : Logout(s)
  \/ \E u \in User, e \in Email \cup {Null}, role \in Role \cup {Null},
        active \in BOOLEAN \cup {Null} : Update(u, e, role, active)
  \/ \E u \in User : DeleteUser(u)
  \/ \E i \in live : OtpExpires(i)
  \/ Restart

Spec == Init /\ [][Next]_vars

----------------------------------------------------------------------------
(* Properties *)

(* Whatever changes a password, a role, an e-mail address or deactivates an  *)
(* account also takes its refresh token away in the same write: a stored     *)
(* token was stored under the account as it is now, though it may have been  *)
(* activated since.  Concurrent saves of stale reads must not break this.    *)
StoredTokenMatchesAccount ==
  \A u \in User :
    users[u].refreshToken # Null =>
      LET under == sessions[users[u].refreshToken.token].under
      IN /\ sessions[users[u].refreshToken.token].sub = u
         /\ under.password = users[u].password
         /\ under.email = users[u].email
         /\ under.role = users[u].role
         /\ under.isActive => users[u].isActive

(* users.service.ts:321 "Current password incorrect", auth.service.ts:258:   *)
(* the request that writes a new password is about that account and is a     *)
(* changePassword that was shown the password it had read there, or a        *)
(* resetPassword whose own verification accepted a code issued for this user *)
(* and for this purpose; whatever is issued, used up, changed or restarted   *)
(* between the proof and the write, for this user or another.                *)
PasswordChangeIsProven ==
  [][\A u \in User :
       users'[u].password # users[u].password =>
         \E r \in Request :
           /\ reqs[r].userId = u
           /\ users'[u].password = reqs[r].new
           /\ \/ ChangeSave(r) /\ reqs[r].shown = reqs[r].found
              \/ /\ ResetSet(r)
                 /\ asked[r].state = "accepted"
                 /\ codes[asked[r].code].userId = u
                 /\ codes[asked[r].code].purpose = ResetPassword]_vars

(* The collection as others see it.                                          *)
Registry == [u \in User |->
  IF Exists(u)
  THEN [status |-> "stored", email |-> users[u].email, role |-> users[u].role]
  ELSE [status |-> "deleted", email |-> Null, role |-> Null]]

Acc == INSTANCE Accounts WITH accounts <- Registry, Root <- Null

(* Requests that read an account, await something and write to it later do   *)
(* to the collection only what Accounts allows: none brings a deleted        *)
(* account back or takes an address that somebody has.                       *)
ImplementsAccounts == Acc!AccountsSpec

(* auth.service.ts:85 "Invalidate previous sessions (single-session policy)":*)
(* once a login has answered, the access tokens of earlier sessions are      *)
(* refused.  Refuted: tokenVersion is never read back.                       *)
SingleSession ==
  \A s, t \in DOMAIN sessions :
    (s < t /\ sessions[t].delivered /\ sessions[s].sub = sessions[t].sub)
      => ~Authenticated(s)

(* auth.service.ts:159 "Token mismatch can indicate token theft": the very  *)
(* token that was stored last is not a mismatch.  Refuted: it is hashed      *)
(* twice when stored and once when compared, so no refresh ever succeeds.    *)
StoredTokenIsNoMismatch ==
  [][\A r \in Request, s \in DOMAIN sessions :
       (/\ Refresh(r, s)
        /\ users[sessions[s].sub].refreshToken.token = s)
          => At(r, "issueTokens")']_vars
=============================================================================
