--------------------------- MODULE SessionsProofs ---------------------------
(* Theorems about Sessions, for any number of requests, users, sessions and  *)
(* codes.                                                                    *)
(*                                                                           *)
(* A request writes an account one to six calls after it has looked.  What   *)
(* it still knows then is RequestOK: who it is about, that it was shown the  *)
(* password it read, or a code of this very user.  Codes are never changed,  *)
(* an account is only written by id, and whatever changes what a refresh     *)
(* token was stored under takes the token away in the same write (TokenOK).  *)
EXTENDS Sessions, TLAPS

(* The token of doc was signed for u, and stored under what doc says now.    *)
Fits(signed, u, doc) ==
  LET s == doc.refreshToken.token
  IN /\ s \in DOMAIN signed
     /\ signed[s].sub = u
     /\ signed[s].under.password = doc.password
     /\ signed[s].under.email = doc.email
     /\ signed[s].under.role = doc.role
     /\ signed[s].under.isActive => doc.isActive

TokenOK(u) == users[u].refreshToken # Null => Fits(sessions, u, users[u])

EmailsDiffer ==
  \A u, v \in User :
    (Exists(u) /\ Exists(v) /\ users[u].email = users[v].email) => u = v

(* What was asked for, and what was accepted, was issued.                    *)
AnswerOK(r) ==
  asked[r].state \in {"asking", "accepted"} => asked[r].code \in DOMAIN codes

(* The code a request has asked for was sent to the user it is about.        *)
CodeOK(r) == codes[asked[r].code].userId = reqs[r].userId

RequestOK(r) ==
  /\ reqs[r].pc \notin {"idle", "respond"} => reqs[r].userId \in User
  /\ reqs[r].pc = "issueTokens" =>
       reqs[r].email \in Email /\ reqs[r].role \in Role
  /\ reqs[r].pc = "respond" => reqs[r].session \in DOMAIN sessions
  /\ reqs[r].pc \in {"changeSave", "resetSet"} => reqs[r].new \in Password
  /\ reqs[r].pc = "changeSave" => reqs[r].shown = reqs[r].found
  /\ reqs[r].pc = "resetAnswer" => asked[r].state = "asking" /\ CodeOK(r)
  /\ (reqs[r].pc = "resetCheck" /\ asked[r].state = "accepted") => CodeOK(r)
  /\ reqs[r].pc = "resetSet" => asked[r].state = "accepted" /\ CodeOK(r)

SessionsInv ==
  /\ TypeOK
  /\ \A u \in User : TokenOK(u)
  /\ EmailsDiffer
  /\ \A r \in Request : AnswerOK(r) /\ RequestOK(r)

----------------------------------------------------------------------------
(* The shape of documents and requests.                                      *)

LEMMA IdleIsRequest == Idle \in ReqState
BY DEF Idle, ReqState

LEMMA HashedIsStored ==
  ASSUME NEW s \in Nat
  PROVE  /\ Hash(Hash(Plain(s))) \in Stored
         /\ Hash(Hash(Plain(s))).token = s
<1>1. Hash(Plain(s)) = [token |-> s, rounds |-> 1]
  BY DEF Hash, Plain
<1>2. Hash([token |-> s, rounds |-> 1]) = [token |-> s, rounds |-> 2]
  BY DEF Hash
<1> QED
  BY <1>1, <1>2 DEF Stored

LEMMA BumpedIsAccount ==
  ASSUME NEW doc \in Account
  PROVE  Bumped(doc) \in Account
BY DEF Bumped, Account

LEMMA RevokedIsAccount ==
  ASSUME NEW doc \in Account
  PROVE  Revoked(doc) \in Account
BY DEF Revoked, Account, Stored

(* Read without its tokenVersion, every document is taken for a first one.   *)
LEMMA NextVersionIsOne ==
  ASSUME SessionsInv, NEW u \in User
  PROVE  NextVersion(AuthView(u)) = 1
<1>1. AuthView(u).tokenVersion = Null
  BY DEF AuthView, SessionsInv, TypeOK, Account
<1> QED
  BY <1>1 DEF NextVersion

----------------------------------------------------------------------------
(* What a step does to the sessions.                                         *)

(* What a token says and what it was stored under is never rewritten.        *)
SessionsStep ==
  /\ sessions' \in Seq(Session)
  /\ DOMAIN sessions \subseteq DOMAIN sessions'
  /\ \A s \in DOMAIN sessions :
       /\ sessions'[s].sub = sessions[s].sub
       /\ sessions'[s].under = sessions[s].under

LEMMA IssueTokensSessions ==
  ASSUME SessionsInv, NEW r \in Request, IssueTokens(r)
  PROVE  /\ SessionsStep
         /\ Len(sessions) + 1 \in DOMAIN sessions'
         /\ reqs[r].userId \in User
         /\ sessions'[Len(sessions) + 1].sub = reqs[r].userId
         /\ sessions'[Len(sessions) + 1].under =
              LET doc == users[reqs[r].userId]
              IN  [email |-> doc.email, role |-> doc.role,
                   isActive |-> doc.isActive, password |-> doc.password]
<1> DEFINE u == reqs[r].userId
           under == [email |-> users[u].email, role |-> users[u].role,
                     isActive |-> users[u].isActive,
                     password |-> users[u].password]
           new == [sub |-> u, email |-> reqs[r].email, role |-> reqs[r].role,
                   tokenVersion |-> reqs[r].tokenVersion, delivered |-> FALSE,
                   under |-> under]
<1>1. /\ u \in User /\ reqs[r].email \in Email /\ reqs[r].role \in Role
      /\ reqs[r] \in ReqState
  BY DEF IssueTokens, At, SessionsInv, TypeOK, RequestOK
<1>2. users[u] \in Account
  BY <1>1 DEF SessionsInv, TypeOK
<1>3. under \in [email : Email, role : Role, isActive : BOOLEAN,
                 password : Password]
  BY <1>2 DEF Account
<1>4. reqs[r].tokenVersion \in Nat \cup {Null}
  BY <1>1 DEF ReqState
<1> HIDE DEF under
<1>5. new \in Session /\ new.sub = u /\ new.under = under
  BY <1>1, <1>3, <1>4 DEF Session
<1>6. sessions' = Append(sessions, new)
  BY DEF IssueTokens, under
<1> HIDE DEF new, u
<1>7. sessions \in Seq(Session)
  BY DEF SessionsInv, TypeOK
<1>8. /\ sessions' \in Seq(Session) /\ Len(sessions) \in Nat
      /\ Len(sessions') = Len(sessions) + 1
      /\ sessions'[Len(sessions) + 1] = new
      /\ \A s \in 1 .. Len(sessions) : sessions'[s] = sessions[s]
  BY <1>5, <1>6, <1>7
<1>9. /\ DOMAIN sessions = 1 .. Len(sessions)
      /\ DOMAIN sessions' = 1 .. Len(sessions')
  BY <1>7, <1>8
<1>10. SessionsStep /\ Len(sessions) + 1 \in DOMAIN sessions'
  BY <1>8, <1>9 DEF SessionsStep
<1>11. u \in User /\ sessions'[Len(sessions) + 1].sub = u
  BY <1>1, <1>5, <1>8
<1>12. sessions'[Len(sessions) + 1].under = under
  BY <1>5, <1>8
<1> QED
  BY <1>10, <1>11, <1>12 DEF u, under

LEMMA RespondSessions ==
  ASSUME SessionsInv, NEW r \in Request, Respond(r)
  PROVE  SessionsStep
<1> DEFINE s == reqs[r].session
           new == [sessions[s] EXCEPT !.delivered = TRUE]
<1>1. sessions \in Seq(Session) /\ s \in DOMAIN sessions
  BY DEF Respond, At, SessionsInv, TypeOK, RequestOK
<1>2. sessions[s] \in Session
  BY <1>1
<1>3. /\ new \in Session /\ new.sub = sessions[s].sub
      /\ new.under = sessions[s].under
  BY <1>2 DEF Session
<1>4. sessions' = [sessions EXCEPT ![s] = new]
  BY <1>1 DEF Respond
<1> HIDE DEF s, new
<1> QED
  BY <1>1, <1>3, <1>4 DEF SessionsStep

LEMMA NextSessionsStep == SessionsInv /\ [Next]_vars => SessionsStep
<1> SUFFICES ASSUME SessionsInv, [Next]_vars PROVE SessionsStep
  OBVIOUS
<1>1. CASE UNCHANGED sessions
  BY <1>1 DEF SessionsStep, SessionsInv, TypeOK
<1>2. ASSUME NEW r \in Request, Step(r), ~UNCHANGED sessions
      PROVE  SessionsStep
  BY <1>2, IssueTokensSessions, RespondSessions
     DEF Step, LoginBump, LoginReload, MismatchBump, MismatchRevoke,
         ChangeFind, ChangeSave, ToggleSave, SendOtp, SendOtpCreate, ResetAsk,
         ResetAnswer, ResetCheck, ResetSet, ResetBump, ResetRevoke,
         VerifyAsk, VerifyAnswer, Verified
<1>3. ASSUME NEW r \in Request, Arrive(r) PROVE UNCHANGED sessions
  BY <1>3 DEF Arrive, ForgotPassword, ResendOtp, StartSendOtp, VerifyFind,
              LoginFind, ResetFind, Refresh, ChangeStart, ToggleFind
<1>4. CASE Restart \/ UNCHANGED vars
  BY <1>1, <1>4 DEF Restart, vars
<1>5. ASSUME NEW s \in DOMAIN sessions, Logout(s) PROVE UNCHANGED sessions
  BY <1>5 DEF Logout
<1>6. ASSUME NEW i \in live, OtpExpires(i) PROVE UNCHANGED sessions
  BY <1>6 DEF OtpExpires
<1>7. ASSUME NEW u \in User, NEW e \in Email \cup {Null},
             NEW role \in Role \cup {Null}, NEW active \in BOOLEAN \cup {Null},
             Update(u, e, role, active) \/ DeleteUser(u)
      PROVE  UNCHANGED sessions
  BY <1>7 DEF Update, DeleteUser
<1> QED
  BY <1>1, <1>2, <1>3, <1>4, <1>5, <1>6, <1>7 DEF Next

----------------------------------------------------------------------------
(* What a step does to the accounts.                                         *)

(* What PasswordChangeIsProven asks for.                                     *)
Proven(u, password) ==
  \E r \in Request :
    /\ reqs[r].userId = u
    /\ password = reqs[r].new
    /\ \/ ChangeSave(r) /\ reqs[r].shown = reqs[r].found
       \/ /\ ResetSet(r)
          /\ asked[r].state = "accepted"
          /\ codes[asked[r].code].userId = u
          /\ codes[asked[r].code].purpose = ResetPassword

(* A write keeps addresses apart, changes a password only after a proof, and *)
(* leaves a token only if it fits.                                           *)
Allowed(u, doc) ==
  /\ doc.exists =>
       \A v \in User \ {u} : Exists(v) => users[v].email # doc.email
  /\ doc.password # users[u].password => Proven(u, doc.password)
  /\ doc.refreshToken # Null => Fits(sessions', u, doc)

Saved(u, doc) ==
  /\ Exists(u)
  /\ users' = [users EXCEPT ![u] = doc]
  /\ Allowed(u, doc)

UsersStep ==
  UNCHANGED users \/ \E u \in User : \E doc \in Account : Saved(u, doc)

LEMMA WriteStep ==
  ASSUME SessionsInv, NEW u \in User, NEW doc \in Account, Write(u, doc),
         Exists(u) => Allowed(u, doc)
  PROVE  UsersStep
BY DEF Write, Saved, UsersStep

(* Nobody else has an address that is not changed.                           *)
LEMMA OwnAddress ==
  ASSUME SessionsInv, NEW u \in User, Exists(u)
  PROVE  \A v \in User \ {u} : Exists(v) => users[v].email # users[u].email
BY DEF SessionsInv, EmailsDiffer

(* A token that is left where it is fits if what it was stored under stays.  *)
LEMMA KeptTokenFits ==
  ASSUME SessionsInv, SessionsStep, NEW u \in User, NEW doc,
         doc.refreshToken = users[u].refreshToken, doc.refreshToken # Null,
         doc.password = users[u].password, doc.email = users[u].email,
         doc.role = users[u].role, users[u].isActive => doc.isActive
  PROVE  Fits(sessions', u, doc)
BY DEF SessionsInv, SessionsStep, TokenOK, Fits

LEMMA BumpStep ==
  ASSUME SessionsInv, SessionsStep, NEW u \in User, IncrementTokenVersion(u)
  PROVE  UsersStep
<1> DEFINE doc == Bumped(users[u])
<1>1. users[u] \in Account
  BY DEF SessionsInv, TypeOK
<1>2. /\ doc.email = users[u].email /\ doc.password = users[u].password
      /\ doc.role = users[u].role /\ doc.isActive = users[u].isActive
      /\ doc.refreshToken = users[u].refreshToken
  BY <1>1 DEF Bumped, Account
<1>3. doc \in Account /\ Write(u, doc)
  BY <1>1, BumpedIsAccount DEF IncrementTokenVersion
<1> HIDE DEF doc
<1>4. Exists(u) => Allowed(u, doc)
  BY <1>2, OwnAddress, KeptTokenFits DEF Allowed
<1> QED
  BY <1>3, <1>4, WriteStep

LEMMA RevokeStep ==
  ASSUME SessionsInv, NEW u \in User, RemoveRefreshToken(u)
  PROVE  UsersStep
<1> DEFINE doc == Revoked(users[u])
<1>1. users[u] \in Account
  BY DEF SessionsInv, TypeOK
<1>2. /\ doc.email = users[u].email /\ doc.password = users[u].password
      /\ doc.refreshToken = Null
  BY <1>1 DEF Revoked, Account
<1>3. doc \in Account /\ Write(u, doc)
  BY <1>1, RevokedIsAccount DEF RemoveRefreshToken
<1> HIDE DEF doc
<1>4. Exists(u) => Allowed(u, doc)
  BY <1>2, OwnAddress DEF Allowed
<1> QED
  BY <1>3, <1>4, WriteStep

LEMMA IssueTokensStep ==
  ASSUME SessionsInv, NEW r \in Request, IssueTokens(r)
  PROVE  UsersStep
<1> DEFINE u == reqs[r].userId
           s == Len(sessions) + 1
           hash == Hash(Hash(Plain(s)))
           doc == [users[u] EXCEPT !.refreshToken = hash]
<1>1. u \in User /\ users[u] \in Account /\ s \in Nat
  <2>1. u \in User
    BY IssueTokensSessions
  <2>2. users[u] \in Account /\ sessions \in Seq(Session)
    BY <2>1 DEF SessionsInv, TypeOK
  <2> QED
    BY <2>1, <2>2
<1>2. hash \in Stored /\ hash.token = s
  BY <1>1, HashedIsStored
<1>3. Write(u, doc)
  BY DEF IssueTokens
<1> HIDE DEF hash
<1>4. /\ doc \in Account /\ doc.refreshToken = hash
      /\ doc.email = users[u].email /\ doc.password = users[u].password
      /\ doc.role = users[u].role /\ doc.isActive = users[u].isActive
  BY <1>1, <1>2 DEF Account
<1>5. /\ s \in DOMAIN sessions' /\ sessions'[s].sub = u
      /\ sessions'[s].under =
           [email |-> users[u].email, role |-> users[u].role,
            isActive |-> users[u].isActive, password |-> users[u].password]
  BY IssueTokensSessions
<1> HIDE DEF doc, u, s
<1>6. Fits(sessions', u, doc)
  BY <1>2, <1>4, <1>5 DEF Fits
<1>7. Exists(u) => Allowed(u, doc)
  BY <1>1, <1>4, <1>6, OwnAddress DEF Allowed
<1> QED
  BY <1>1, <1>3, <1>4, <1>7, WriteStep

LEMMA ChangeSaveStep ==
  ASSUME SessionsInv, NEW r \in Request, ChangeSave(r)
  PROVE  UsersStep
<1> DEFINE u == reqs[r].userId
           new == reqs[r].new
           version == NextVersion(AuthView(u))
           doc == [users[u] EXCEPT !.password = new, !.tokenVersion = version,
                                   !.refreshToken = Null]
<1>1. /\ u \in User /\ new \in Password /\ reqs[r].shown = reqs[r].found
      /\ users[u] \in Account
  BY DEF ChangeSave, At, SessionsInv, TypeOK, RequestOK
<1>2. version \in Nat
  BY <1>1, NextVersionIsOne
<1>3. Write(u, doc)
  BY DEF ChangeSave
<1>4. Proven(u, new)
  BY <1>1 DEF Proven
<1> HIDE DEF version, new
<1>5. /\ doc \in Account /\ doc.email = users[u].email
      /\ doc.refreshToken = Null /\ doc.password = new
  BY <1>1, <1>2 DEF Account, Stored
<1> HIDE DEF doc, u
<1>6. Exists(u) => Allowed(u, doc)
  BY <1>1, <1>4, <1>5, OwnAddress DEF Allowed
<1> QED
  BY <1>1, <1>3, <1>5, <1>6, WriteStep

LEMMA ToggleSaveStep ==
  ASSUME SessionsInv, SessionsStep, NEW r \in Request, ToggleSave(r)
  PROVE  UsersStep
<1> DEFINE u == reqs[r].userId
           version == NextVersion(AuthView(u))
           activated == [users[u] EXCEPT !.isActive = TRUE]
           deactivated == [users[u] EXCEPT !.isActive = FALSE,
                                           !.tokenVersion = version,
                                           !.refreshToken = Null]
<1>1. u \in User /\ users[u] \in Account
  BY DEF ToggleSave, At, SessionsInv, TypeOK, RequestOK
<1>2. version \in Nat
  BY <1>1, NextVersionIsOne
<1>3. Write(u, activated) \/ Write(u, deactivated)
  BY DEF ToggleSave
<1> HIDE DEF version
<1>4. /\ activated \in Account /\ activated.isActive
      /\ activated.email = users[u].email
      /\ activated.password = users[u].password
      /\ activated.role = users[u].role
      /\ activated.refreshToken = users[u].refreshToken
  BY <1>1 DEF Account
<1>5. /\ deactivated \in Account /\ deactivated.refreshToken = Null
      /\ deactivated.email = users[u].email
      /\ deactivated.password = users[u].password
  BY <1>1, <1>2 DEF Account, Stored
<1> HIDE DEF activated, deactivated, u
<1>6. Exists(u) => Allowed(u, activated)
  BY <1>1, <1>4, OwnAddress, KeptTokenFits DEF Allowed
<1>7. Exists(u) => Allowed(u, deactivated)
  BY <1>1, <1>5, OwnAddress DEF Allowed
<1> QED
  BY <1>1, <1>3, <1>4, <1>5, <1>6, <1>7, WriteStep

LEMMA ResetSetStep ==
  ASSUME SessionsInv, NEW r \in Request, ResetSet(r)
  PROVE  UsersStep
<1> DEFINE u == reqs[r].userId
           new == reqs[r].new
           reset == [users[u] EXCEPT !.password = new]
           doc == Revoked(Bumped(reset))
<1>1. /\ u \in User /\ new \in Password /\ asked[r].state = "accepted"
      /\ CodeOK(r) /\ users[u] \in Account
  BY DEF ResetSet, At, SessionsInv, TypeOK, RequestOK
<1>2. Proven(u, new)
  <2>1. codes \in Seq(Otc!IssuedCode) /\ asked[r].code \in DOMAIN codes
    BY <1>1 DEF SessionsInv, TypeOK, AnswerOK, Otc!OtcTypeOK
  <2>2. codes[asked[r].code] \in Otc!IssuedCode
    BY <2>1
  <2>3. codes[asked[r].code].purpose = ResetPassword
    BY <2>2 DEF Otc!IssuedCode
  <2> QED
    BY <1>1, <2>3 DEF Proven, CodeOK
<1>3. Write(u, doc)
  BY DEF ResetSet
<1> HIDE DEF new
<1>4. /\ reset \in Account /\ reset.email = users[u].email
      /\ reset.password = new
  BY <1>1 DEF Account
<1> HIDE DEF reset
<1>5. /\ doc \in Account /\ doc.email = reset.email
      /\ doc.refreshToken = Null /\ doc.password = reset.password
  <2>1. /\ Bumped(reset) \in Account /\ Bumped(reset).email = reset.email
        /\ Bumped(reset).password = reset.password
    BY <1>4, BumpedIsAccount DEF Bumped, Account
  <2> QED
    BY <2>1, RevokedIsAccount DEF Revoked, Account
<1> HIDE DEF doc, u
<1>6. Exists(u) => Allowed(u, doc)
  BY <1>1, <1>2, <1>4, <1>5, OwnAddress DEF Allowed
<1> QED
  BY <1>1, <1>3, <1>5, <1>6, WriteStep

(* What is in the way of an address is looked at as the address is written.  *)
LEMMA UpdateStep ==
  ASSUME SessionsInv, SessionsStep, NEW u \in User,
         NEW email \in Email \cup {Null}, NEW role \in Role \cup {Null},
         NEW active \in BOOLEAN \cup {Null}, Update(u, email, role, active)
  PROVE  UsersStep
<1> DEFINE e == IF email = Null THEN users[u].email ELSE email
           l == IF role = Null THEN users[u].role ELSE role
           a == IF active = Null THEN users[u].isActive ELSE active
           doc == [users[u] EXCEPT !.email = e, !.role = l, !.isActive = a]
           sensitive == email # Null \/ role # Null \/ active = FALSE
           final == Revoked(Bumped(doc))
<1>1. users[u] \in Account /\ Exists(u)
  BY DEF Update, SessionsInv, TypeOK
<1>2. e \in Email /\ l \in Role /\ a \in BOOLEAN
  BY <1>1 DEF Account
<1>3. \A v \in User \ {u} : Exists(v) => users[v].email # e
  BY <1>1, OwnAddress DEF Update, ByEmail
<1>4. Write(u, IF sensitive THEN final ELSE doc)
  BY DEF Update
<1>5. ~sensitive => /\ e = users[u].email /\ l = users[u].role
                    /\ users[u].isActive => a
  BY <1>1 DEF Account
<1> HIDE DEF e, l, a
<1>6. /\ doc \in Account /\ doc.email = e /\ doc.role = l
      /\ doc.isActive = a /\ doc.password = users[u].password
      /\ doc.refreshToken = users[u].refreshToken
  BY <1>1, <1>2 DEF Account
<1> HIDE DEF doc
<1>7. /\ final \in Account /\ final.email = e
      /\ final.password = users[u].password /\ final.refreshToken = Null
  <2>1. /\ Bumped(doc) \in Account /\ Bumped(doc).email = doc.email
        /\ Bumped(doc).password = doc.password
    BY <1>6, BumpedIsAccount DEF Bumped, Account
  <2> QED
    BY <1>6, <2>1, RevokedIsAccount DEF Revoked, Account
<1> HIDE DEF final
<1>8. Allowed(u, final)
  BY <1>3, <1>7 DEF Allowed
<1>9. ~sensitive => Allowed(u, doc)
  BY <1>3, <1>5, <1>6, KeptTokenFits DEF Allowed
<1> HIDE DEF sensitive
<1> QED
  BY <1>4, <1>6, <1>7, <1>8, <1>9, WriteStep

LEMMA DeleteUserStep ==
  ASSUME SessionsInv, NEW u \in User, DeleteUser(u)
  PROVE  UsersStep
<1> DEFINE doc == [users[u] EXCEPT !.exists = FALSE, !.refreshToken = Null]
<1>1. users[u] \in Account /\ users \in [User -> Account]
  BY DEF SessionsInv, TypeOK
<1>2. Exists(u) /\ users' = [users EXCEPT ![u] = doc]
  BY <1>1 DEF DeleteUser
<1>3. /\ doc \in Account /\ ~doc.exists /\ doc.refreshToken = Null
      /\ doc.password = users[u].password
  BY <1>1 DEF Account, Stored
<1> HIDE DEF doc
<1> QED
  BY <1>2, <1>3 DEF UsersStep, Saved, Allowed

LEMMA NextUsersStep == SessionsInv /\ [Next]_vars => UsersStep
<1> SUFFICES ASSUME SessionsInv, [Next]_vars PROVE UsersStep
  OBVIOUS
<1>1. SessionsStep
  BY NextSessionsStep
<1>2. CASE UNCHANGED users
  BY <1>2 DEF UsersStep
<1>3. ASSUME NEW r \in Request, Step(r) PROVE UsersStep
  <2>1. CASE LoginBump(r) \/ MismatchBump(r) \/ ResetBump(r)
    <3>1. reqs[r].userId \in User /\ IncrementTokenVersion(reqs[r].userId)
      BY <2>1 DEF LoginBump, MismatchBump, ResetBump, At, SessionsInv,
                  RequestOK
    <3> QED
      BY <1>1, <3>1, BumpStep
  <2>2. CASE MismatchRevoke(r) \/ ResetRevoke(r)
    <3>1. reqs[r].userId \in User /\ RemoveRefreshToken(reqs[r].userId)
      BY <2>2 DEF MismatchRevoke, ResetRevoke, At, SessionsInv, RequestOK
    <3> QED
      BY <3>1, RevokeStep
  <2> QED
    BY <1>1, <1>2, <1>3, <2>1, <2>2, IssueTokensStep, ChangeSaveStep,
       ToggleSaveStep, ResetSetStep
       DEF Step, LoginReload, Respond, ChangeFind, SendOtp, SendOtpCreate,
           ResetAsk, ResetAnswer, ResetCheck, VerifyAsk, VerifyAnswer, Verified
<1>4. ASSUME NEW r \in Request, Arrive(r) PROVE UNCHANGED users
  BY <1>4 DEF Arrive, ForgotPassword, ResendOtp, StartSendOtp, VerifyFind,
              LoginFind, ResetFind, Refresh, ChangeStart, ToggleFind
<1>5. ASSUME NEW s \in DOMAIN sessions, Logout(s) PROVE UsersStep
  <2>1. sessions[s] \in Session
    BY DEF SessionsInv, TypeOK
  <2>2. sessions[s].sub \in User
    BY <2>1 DEF Session
  <2> QED
    BY <1>5, <2>2, RevokeStep DEF Logout
<1> QED
  BY <1>1, <1>2, <1>3, <1>4, <1>5, UpdateStep, DeleteUserStep
     DEF Next, vars, OtpExpires, Restart

----------------------------------------------------------------------------
(* What a step does to the OTP service.                                      *)

(* Codes are only added.                                                     *)
CodesStep ==
  /\ Otc!OtcTypeOK'
  /\ DOMAIN codes \subseteq DOMAIN codes'
  /\ \A i \in DOMAIN codes : codes'[i] = codes[i]

LEMMA LiveEndsStep ==
  ASSUME SessionsInv, live' \subseteq live, UNCHANGED <<codes, asked>>
  PROVE  CodesStep
BY DEF SessionsInv, TypeOK, CodesStep, Otc!OtcTypeOK

LEMMA IssueStep ==
  ASSUME SessionsInv, NEW u \in User, Otc!Issue(u, ResetPassword, Null)
  PROVE  CodesStep
<1> DEFINE c == [userId |-> u, purpose |-> ResetPassword, fileId |-> Null]
<1>1. c \in Otc!IssuedCode /\ codes \in Seq(Otc!IssuedCode)
  BY DEF SessionsInv, TypeOK, Otc!OtcTypeOK, Otc!IssuedCode
<1>2. codes' = Append(codes, c) /\ live' = live \cup {Len(codes) + 1}
  BY DEF Otc!Issue
<1> HIDE DEF c
<1>3. /\ codes' \in Seq(Otc!IssuedCode)
      /\ Len(codes') = Len(codes) + 1 /\ Len(codes) \in Nat
      /\ \A i \in 1 .. Len(codes) : codes'[i] = codes[i]
  BY <1>1, <1>2
<1>4. DOMAIN codes = 1 .. Len(codes) /\ DOMAIN codes' = 1 .. Len(codes')
  BY <1>1, <1>3
<1>5. live' \subseteq DOMAIN codes'
  BY <1>2, <1>3, <1>4 DEF SessionsInv, TypeOK, Otc!OtcTypeOK
<1>6. asked' \in [Request -> Otc!Answer]
  BY DEF Otc!Issue, SessionsInv, TypeOK, Otc!OtcTypeOK
<1> QED
  BY <1>3, <1>4, <1>5, <1>6 DEF CodesStep, Otc!OtcTypeOK

(* Steps that change what one request has asked and been told.               *)
LEMMA AnswerStep ==
  ASSUME SessionsInv, NEW r \in Request, NEW a \in Otc!Answer,
         asked' = [asked EXCEPT ![r] = a], live' \subseteq live,
         UNCHANGED codes
  PROVE  CodesStep
BY DEF SessionsInv, TypeOK, CodesStep, Otc!OtcTypeOK

LEMMA FreeIsAnswer == Otc!Free \in Otc!Answer /\ Otc!Free.state = "free"
BY DEF Otc!Free, Otc!Told, Otc!Answer

LEMMA ToldIsAnswer ==
  ASSUME NEW out \in {"accepted", "refused"}, NEW i \in Nat
  PROVE  /\ Otc!Told(out, i) \in Otc!Answer
         /\ Otc!Told(out, i).state = out /\ Otc!Told(out, i).code = i
BY DEF Otc!Told, Otc!Answer

(* What a step does to the answer of the request that takes it.              *)
LEMMA AskEffect ==
  ASSUME SessionsInv, NEW r \in Request, NEW u \in User,
         Otc!Ask(r, u, ResetPassword, Null)
  PROVE  /\ CodesStep
         /\ \A s \in Request \ {r} : asked'[s] = asked[s]
         /\ asked'[r].state = "asking" /\ asked'[r].code \in live
         /\ codes[asked'[r].code].userId = u
         /\ UNCHANGED <<codes, live>>
<1> DEFINE about == [userId |-> u, purpose |-> ResetPassword,
                     fileId |-> Null]
           a(i) == [state |-> "asking", code |-> i, about |-> about]
<1>1. PICK i \in live : /\ asked' = [asked EXCEPT ![r] = a(i)]
                        /\ Otc!SameKey(codes[i], u, ResetPassword)
  BY DEF Otc!Ask
<1>2. i \in Nat /\ asked \in [Request -> Otc!Answer]
  BY DEF SessionsInv, TypeOK, Otc!OtcTypeOK
<1>3. about \in Otc!IssuedCode
  BY DEF Otc!IssuedCode
<1> HIDE DEF about
<1>4. a(i) \in Otc!Answer /\ a(i).state = "asking" /\ a(i).code = i
  BY <1>2, <1>3 DEF Otc!Answer
<1>5. UNCHANGED <<codes, live>>
  BY DEF Otc!Ask
<1> HIDE DEF a
<1>6. CodesStep
  BY <1>1, <1>4, <1>5, AnswerStep
<1>7. asked'[r] = a(i) /\ \A s \in Request \ {r} : asked'[s] = asked[s]
  BY <1>1, <1>2
<1> QED
  BY <1>1, <1>4, <1>5, <1>6, <1>7 DEF Otc!SameKey

LEMMA AnswerEffect ==
  ASSUME SessionsInv, NEW r \in Request, Otc!Accept(r) \/ Otc!Refuse(r)
  PROVE  /\ CodesStep
         /\ \A s \in Request \ {r} : asked'[s] = asked[s]
         /\ asked'[r].code = asked[r].code
         /\ \/ asked'[r].state = "refused"
            \/ asked[r].state = "asking" /\ asked'[r].state = "accepted"
<1> DEFINE out == IF Otc!Accept(r) THEN "accepted" ELSE "refused"
           a == Otc!Told(out, asked[r].code)
<1>1. asked \in [Request -> Otc!Answer] /\ asked[r].code \in Nat
  BY DEF SessionsInv, TypeOK, Otc!OtcTypeOK, Otc!Answer
<1>2. /\ asked' = [asked EXCEPT ![r] = a] /\ asked[r].state = "asking"
      /\ live' \subseteq live /\ UNCHANGED codes
  BY DEF Otc!Accept, Otc!Refuse
<1> HIDE DEF out
<1>3. out \in {"accepted", "refused"}
  BY DEF out
<1>4. a \in Otc!Answer /\ a.state = out /\ a.code = asked[r].code
  BY <1>1, <1>3, ToldIsAnswer
<1> HIDE DEF a
<1>5. asked'[r] = a /\ \A s \in Request \ {r} : asked'[s] = asked[s]
  BY <1>1, <1>2
<1>6. CodesStep
  BY <1>2, <1>4, AnswerStep
<1> QED
  BY <1>2, <1>3, <1>4, <1>5, <1>6

LEMMA ReleaseEffect ==
  ASSUME SessionsInv, NEW r \in Request, Otc!Release(r)
  PROVE  /\ CodesStep
         /\ \A s \in Request \ {r} : asked'[s] = asked[s]
         /\ asked'[r].state = "free"
<1>1. asked \in [Request -> Otc!Answer]
  BY DEF SessionsInv, TypeOK, Otc!OtcTypeOK
<1>2. asked' = [asked EXCEPT ![r] = Otc!Free] /\ UNCHANGED <<codes, live>>
  BY DEF Otc!Release
<1>3. CodesStep
  BY <1>2, FreeIsAnswer, AnswerStep
<1>4. asked'[r] = Otc!Free /\ \A s \in Request \ {r} : asked'[s] = asked[s]
  BY <1>1, <1>2
<1> QED
  BY <1>3, <1>4, FreeIsAnswer

LEMMA SendOtpEffect ==
  ASSUME SessionsInv, NEW r \in Request, SendOtp(r)
  PROVE  CodesStep /\ UNCHANGED asked
BY LiveEndsStep DEF SendOtp, Otc!Revoke

LEMMA SendOtpCreateEffect ==
  ASSUME SessionsInv, NEW r \in Request, SendOtpCreate(r)
  PROVE  CodesStep /\ UNCHANGED asked
<1>1. reqs[r].userId \in User
  BY DEF SendOtpCreate, At, SessionsInv, RequestOK
<1>2. CASE UNCHANGED otp
  BY <1>2, LiveEndsStep DEF otp
<1>3. CASE Otc!Issue(reqs[r].userId, ResetPassword, Null)
  BY <1>1, <1>3, IssueStep DEF Otc!Issue
<1> QED
  BY <1>2, <1>3 DEF SendOtpCreate

LEMMA NextCodesStep == SessionsInv /\ [Next]_vars => CodesStep
<1> SUFFICES ASSUME SessionsInv, [Next]_vars PROVE CodesStep
  OBVIOUS
<1>1. CASE UNCHANGED otp
  BY <1>1, LiveEndsStep DEF otp
<1>2. CASE live' \subseteq live /\ UNCHANGED <<codes, asked>>
  BY <1>2, LiveEndsStep
<1>3. ASSUME NEW r \in Request, Arrive(r) PROVE CodesStep
  BY <1>1, <1>3
     DEF Arrive, ForgotPassword, ResendOtp, StartSendOtp, VerifyFind,
         LoginFind, ResetFind, Refresh, ChangeStart, ToggleFind
<1>4. ASSUME NEW r \in Request, Step(r) PROVE CodesStep
  <2>1. CASE ResetAsk(r) \/ VerifyAsk(r)
    <3>1. reqs[r].userId \in User
      BY <2>1 DEF ResetAsk, VerifyAsk, At, SessionsInv, RequestOK
    <3> QED
      BY <1>1, <2>1, <3>1, AskEffect DEF ResetAsk, VerifyAsk, AskOtp
  <2>2. CASE ResetAnswer(r) \/ VerifyAnswer(r)
    BY <2>2, AnswerEffect DEF ResetAnswer, VerifyAnswer
  <2>3. CASE \/ \E new \in Password : ResetCheck(r, new)
             \/ ResetSet(r) \/ Verified(r)
    BY <1>1, <2>3, ReleaseEffect
       DEF ResetCheck, ResetSet, Verified, GotoResetSet
  <2> QED
    BY <1>1, <1>4, <2>1, <2>2, <2>3, SendOtpEffect, SendOtpCreateEffect
       DEF Step, LoginBump, LoginReload, IssueTokens, Respond, MismatchBump,
           MismatchRevoke, ChangeFind, ChangeSave, ToggleSave, ResetBump,
           ResetRevoke
<1>5. CASE Restart
  BY <1>5, FreeIsAnswer
     DEF Restart, Otc!Forget, CodesStep, SessionsInv, TypeOK, Otc!OtcTypeOK
<1>6. ASSUME NEW s \in DOMAIN sessions, Logout(s) PROVE CodesStep
  BY <1>1, <1>6 DEF Logout
<1>7. ASSUME NEW i \in live, OtpExpires(i) PROVE CodesStep
  BY <1>2, <1>7 DEF OtpExpires, Otc!Revoke
<1>8. ASSUME NEW u \in User, NEW e \in Email \cup {Null},
             NEW role \in Role \cup {Null}, NEW active \in BOOLEAN \cup {Null},
             Update(u, e, role, active)
      PROVE  CodesStep
  BY <1>1, <1>8 DEF Update
<1>9. ASSUME NEW u \in User, DeleteUser(u) PROVE CodesStep
  BY <1>1, <1>9 DEF DeleteUser
<1>10. CASE UNCHANGED vars
  BY <1>1, <1>10 DEF vars, otp
<1> QED
  BY <1>3, <1>4, <1>5, <1>6, <1>7, <1>8, <1>9, <1>10 DEF Next

----------------------------------------------------------------------------
(* Requests.                                                                 *)

RequestsOK ==
  /\ reqs \in [Request -> ReqState]
  /\ \A r \in Request : AnswerOK(r) /\ RequestOK(r)

LEMMA AnswerStays ==
  ASSUME SessionsInv, CodesStep, NEW s \in Request, asked'[s] = asked[s]
  PROVE  AnswerOK(s)'
BY DEF SessionsInv, AnswerOK, CodesStep

(* What other requests do does not disturb a request.                        *)
LEMMA RequestStays ==
  ASSUME SessionsInv, CodesStep, SessionsStep, NEW s \in Request,
         reqs'[s] = reqs[s], asked'[s] = asked[s]
  PROVE  RequestOK(s)'
<1>1. RequestOK(s) /\ AnswerOK(s)
  BY DEF SessionsInv
<1>2. asked[s].state \in {"asking", "accepted"} => (CodeOK(s) => CodeOK(s)')
  BY <1>1 DEF AnswerOK, CodeOK, CodesStep
<1>3. \A i \in DOMAIN sessions : i \in DOMAIN sessions'
  BY DEF SessionsStep
<1> QED
  BY <1>1, <1>2, <1>3 DEF RequestOK

LEMMA RequestMoves ==
  ASSUME SessionsInv, CodesStep, SessionsStep, NEW r \in Request,
         NEW q \in ReqState, reqs' = [reqs EXCEPT ![r] = q],
         AnswerOK(r)', RequestOK(r)',
         \A s \in Request \ {r} : asked'[s] = asked[s]
  PROVE  RequestsOK'
<1>1. reqs' \in [Request -> ReqState]
  BY DEF SessionsInv, TypeOK
<1>2. ASSUME NEW s \in Request \ {r} PROVE AnswerOK(s)' /\ RequestOK(s)'
  BY <1>2, AnswerStays, RequestStays DEF SessionsInv, TypeOK
<1> QED
  BY <1>1, <1>2 DEF RequestsOK

LEMMA RequestEnds ==
  ASSUME SessionsInv, CodesStep, SessionsStep, NEW r \in Request, Finish(r),
         AnswerOK(r)', \A s \in Request \ {r} : asked'[s] = asked[s]
  PROVE  RequestsOK'
<1>1. reqs' = [reqs EXCEPT ![r] = Idle] /\ reqs'[r] = Idle
  BY DEF SessionsInv, TypeOK, Finish
<1>2. RequestOK(r)'
  BY <1>1 DEF RequestOK, Idle
<1> QED
  BY <1>1, <1>2, IdleIsRequest, RequestMoves

(* A request arrives; what it has looked up is an account.                   *)
Checked(q) ==
  /\ q \in ReqState
  /\ q.userId \in User
  /\ q.pc \in {"loginBump", "issueTokens", "mismatchBump", "changeFind",
               "toggleSave", "sendOtp", "resetAsk", "verifyAsk"}
  /\ q.pc = "issueTokens" => q.email \in Email /\ q.role \in Role

(* A request keeps its type when one of these fields is given a value.       *)
LEMMA FieldsKeepType ==
  ASSUME NEW q \in ReqState
  PROVE  /\ \A pc \in {"loginBump", "mismatchBump", "changeFind", "sendOtp",
                       "verifyAsk", "toggleSave", "respond"} :
              [q EXCEPT !.pc = pc] \in ReqState
         /\ \A u \in User : [q EXCEPT !.userId = u] \in ReqState
         /\ \A b \in BOOLEAN : [q EXCEPT !.active = b] \in ReqState
         /\ \A s \in Nat : [q EXCEPT !.session = s] \in ReqState
<1>1. ASSUME NEW pc \in {"loginBump", "mismatchBump", "changeFind", "sendOtp",
                        "verifyAsk", "toggleSave", "respond"}
      PROVE  [q EXCEPT !.pc = pc] \in ReqState
  BY DEF ReqState
<1>2. ASSUME NEW u \in User PROVE [q EXCEPT !.userId = u] \in ReqState
  BY DEF ReqState
<1>3. ASSUME NEW b \in BOOLEAN PROVE [q EXCEPT !.active = b] \in ReqState
  BY DEF ReqState
<1>4. ASSUME NEW s \in Nat PROVE [q EXCEPT !.session = s] \in ReqState
  BY DEF ReqState
<1> QED
  BY <1>1, <1>2, <1>3, <1>4

LEMMA LookedUp ==
  ASSUME NEW u \in User,
         NEW pc \in {"loginBump", "mismatchBump", "changeFind", "sendOtp",
                     "verifyAsk"}
  PROVE  Checked([Idle EXCEPT !.pc = pc, !.userId = u])
<1> DEFINE q == [Idle EXCEPT !.pc = pc, !.userId = u]
<1>1. q \in ReqState
  BY IdleIsRequest, FieldsKeepType
<1>2. q.pc = pc /\ q.userId = u
  BY DEF Idle
<1> HIDE DEF q
<1> QED
  BY <1>1, <1>2 DEF Checked, q

LEMMA RequestArrives ==
  ASSUME SessionsInv, CodesStep, SessionsStep, NEW r \in Request, NEW q,
         Checked(q), Start(r, q), UNCHANGED asked
  PROVE  RequestsOK'
<1>1. reqs' = [reqs EXCEPT ![r] = q] /\ reqs'[r] = q /\ q \in ReqState
  BY DEF Start, SessionsInv, TypeOK, Checked
<1>2. RequestOK(r)'
  BY <1>1 DEF Checked, RequestOK
<1> QED
  BY <1>1, <1>2, AnswerStays, RequestMoves

LEMMA ArriveOK ==
  ASSUME SessionsInv, CodesStep, SessionsStep, NEW r \in Request, Arrive(r)
  PROVE  RequestsOK'
<1> USE IdleIsRequest
<1>1. ASSUME NEW u \in User, StartSendOtp(r, u) PROVE RequestsOK'
  <2> DEFINE q == [Idle EXCEPT !.pc = "sendOtp", !.userId = u]
  <2>1. Checked(q)
    BY LookedUp
  <2>2. Start(r, q) /\ UNCHANGED asked
    BY <1>1 DEF StartSendOtp, otp
  <2> HIDE DEF q
  <2> QED
    BY <2>1, <2>2, RequestArrives
<1>2. ASSUME NEW e \in Email, VerifyFind(r, e) PROVE RequestsOK'
  <2>1. PICK u \in User :
          Start(r, [Idle EXCEPT !.pc = "verifyAsk", !.userId = u])
    BY <1>2 DEF VerifyFind, ByEmail
  <2> DEFINE q == [Idle EXCEPT !.pc = "verifyAsk", !.userId = u]
  <2>2. Checked(q)
    BY LookedUp
  <2>3. Start(r, q) /\ UNCHANGED asked
    BY <1>2, <2>1 DEF VerifyFind, otp
  <2> HIDE DEF q
  <2> QED
    BY <2>2, <2>3, RequestArrives
<1>3. ASSUME NEW e \in Email, NEW p \in Password, LoginFind(r, e, p)
      PROVE  RequestsOK'
  <2>1. PICK u \in User :
          Start(r, [Idle EXCEPT !.pc = "loginBump", !.userId = u])
    BY <1>3 DEF LoginFind, ByEmail
  <2> DEFINE q == [Idle EXCEPT !.pc = "loginBump", !.userId = u]
  <2>2. Start(r, q) /\ UNCHANGED asked
    BY <1>3, <2>1 DEF LoginFind, otp
  <2>3. Checked(q)
    BY LookedUp
  <2> HIDE DEF q
  <2> QED
    BY <2>2, <2>3, RequestArrives
<1>4. ASSUME NEW e \in Email, ResetFind(r, e) PROVE RequestsOK'
  <2>1. PICK u \in User :
          Start(r, [Idle EXCEPT !.pc = "resetAsk", !.userId = u,
                                !.found = users[u].password])
    BY <1>4 DEF ResetFind, ByEmail
  <2> DEFINE old == users[u].password
             q == [Idle EXCEPT !.pc = "resetAsk", !.userId = u, !.found = old]
  <2>2. old \in Password
    BY DEF SessionsInv, TypeOK, Account
  <2>3. Start(r, q) /\ UNCHANGED asked
    BY <1>4, <2>1 DEF ResetFind, otp
  <2> HIDE DEF old
  <2>4. q \in ReqState /\ q.pc = "resetAsk" /\ q.userId = u
    BY <2>2 DEF ReqState
  <2> HIDE DEF q
  <2>5. Checked(q)
    BY <2>4 DEF Checked
  <2> QED
    BY <2>3, <2>5, RequestArrives
<1>5. ASSUME NEW s \in DOMAIN sessions, Refresh(r, s) PROVE RequestsOK'
  <2> DEFINE u == sessions[s].sub
             view == AuthView(u)
             email == view.email
             role == view.role
             version == view.tokenVersion
             p == [Idle EXCEPT !.pc = "mismatchBump", !.userId = u]
             q == [Idle EXCEPT !.pc = "issueTokens", !.userId = u,
                               !.email = email, !.role = role,
                               !.tokenVersion = version]
  <2>1. sessions[s] \in Session
    <3>1. sessions \in Seq(Session)
      BY DEF SessionsInv, TypeOK
    <3> QED
      BY <3>1
  <2>2. u \in User
    BY <2>1 DEF Session
  <2>3. users[u] \in Account
    BY <2>2 DEF SessionsInv, TypeOK
  <2>4. email \in Email /\ role \in Role /\ version = Null
    BY <2>3 DEF AuthView, Account
  <2>5. (Start(r, p) \/ Start(r, q)) /\ UNCHANGED asked
    BY <1>5 DEF Refresh, otp
  <2> HIDE DEF u, view, email, role, version
  <2>6. Checked(p)
    BY <2>2, LookedUp
  <2>7. Checked(q)
    BY <2>2, <2>4 DEF Checked, ReqState
  <2> HIDE DEF p, q
  <2> QED
    BY <2>5, <2>6, <2>7, RequestArrives
<1>6. ASSUME NEW s \in DOMAIN sessions, ChangeStart(r, s) PROVE RequestsOK'
  <2> DEFINE u == sessions[s].sub
             q == [Idle EXCEPT !.pc = "changeFind", !.userId = u]
  <2>1. sessions[s] \in Session
    BY DEF SessionsInv, TypeOK
  <2>2. u \in User
    BY <2>1 DEF Session
  <2>3. Start(r, q) /\ UNCHANGED asked
    BY <1>6 DEF ChangeStart, otp
  <2> HIDE DEF u
  <2>4. Checked(q)
    BY <2>2, LookedUp
  <2> HIDE DEF q
  <2> QED
    BY <2>3, <2>4, RequestArrives
<1>7. ASSUME NEW u \in User, NEW active \in BOOLEAN, ToggleFind(r, u, active)
      PROVE  RequestsOK'
  <2> DEFINE q == [Idle EXCEPT !.pc = "toggleSave", !.userId = u,
                               !.active = active]
  <2>1. q \in ReqState
    BY FieldsKeepType
  <2>2. q.pc = "toggleSave" /\ q.userId = u
    BY DEF Idle
  <2>3. Start(r, q) /\ UNCHANGED asked
    BY <1>7 DEF ToggleFind, otp
  <2> HIDE DEF q
  <2>4. Checked(q)
    BY <2>1, <2>2 DEF Checked
  <2> QED
    BY <2>3, <2>4, RequestArrives
<1> QED
  BY <1>1, <1>2, <1>3, <1>4, <1>5, <1>6, <1>7
     DEF Arrive, ForgotPassword, ResendOtp, ByEmail

(* A request in progress goes on to pc.                                      *)
LEMMA RequestGoesOn ==
  ASSUME SessionsInv, CodesStep, SessionsStep, NEW r \in Request,
         NEW pc \in {"loginReload", "mismatchRevoke", "sendOtpCreate",
                     "resetAnswer", "resetCheck", "resetRevoke",
                     "verifyAnswer", "verified"},
         Goto(r, pc), reqs[r].pc \notin {"idle", "respond"}, AnswerOK(r)',
         \A s \in Request \ {r} : asked'[s] = asked[s],
         pc = "resetAnswer" => asked'[r].state = "asking" /\ CodeOK(r)',
         (pc = "resetCheck" /\ asked'[r].state = "accepted") => CodeOK(r)'
  PROVE  RequestsOK'
<1> DEFINE q == [reqs[r] EXCEPT !.pc = pc]
<1>1. reqs[r] \in ReqState /\ RequestOK(r) /\ reqs \in [Request -> ReqState]
  BY DEF SessionsInv, TypeOK
<1>2. /\ q \in ReqState /\ q.pc = pc
      /\ q.userId = reqs[r].userId
  BY <1>1 DEF ReqState
<1>3. reqs' = [reqs EXCEPT ![r] = q]
  BY DEF Goto
<1> HIDE DEF q
<1>4. reqs'[r] = q
  BY <1>1, <1>3
<1>5. RequestOK(r)'
  BY <1>1, <1>2, <1>4 DEF RequestOK
<1> QED
  BY <1>2, <1>3, <1>5, RequestMoves

LEMMA LoginReloadOK ==
  ASSUME SessionsInv, CodesStep, SessionsStep, NEW r \in Request,
         LoginReload(r)
  PROVE  RequestsOK'
<1> DEFINE u == reqs[r].userId
           email == AuthView(u).email
           role == AuthView(u).role
           version == AuthView(u).tokenVersion
           q == [reqs[r] EXCEPT !.pc = "issueTokens", !.email = email,
                                !.role = role, !.tokenVersion = version]
<1>1. /\ u \in User /\ reqs[r] \in ReqState /\ users[u] \in Account
      /\ reqs \in [Request -> ReqState]
  BY DEF LoginReload, At, SessionsInv, TypeOK, RequestOK
<1>2. email \in Email /\ role \in Role /\ version = Null
  BY <1>1 DEF AuthView, Account
<1>3. Finish(r) \/ reqs' = [reqs EXCEPT ![r] = q]
  BY <1>1 DEF LoginReload, Finish
<1>4. UNCHANGED asked /\ AnswerOK(r)'
  BY AnswerStays DEF LoginReload, otp
<1> HIDE DEF email, role, version
<1>5. /\ q \in ReqState /\ q.pc = "issueTokens" /\ q.userId = u
      /\ q.email = email /\ q.role = role
  BY <1>1, <1>2 DEF ReqState
<1> HIDE DEF q
<1>6. CASE reqs' = [reqs EXCEPT ![r] = q]
  <2>1. reqs'[r] = q
    BY <1>1, <1>6
  <2>2. RequestOK(r)'
    BY <1>1, <1>2, <1>5, <2>1 DEF RequestOK
  <2> QED
    BY <1>4, <1>5, <1>6, <2>2, RequestMoves
<1> QED
  BY <1>3, <1>4, <1>6, RequestEnds

LEMMA IssueTokensOK ==
  ASSUME SessionsInv, CodesStep, NEW r \in Request, IssueTokens(r)
  PROVE  RequestsOK'
<1> DEFINE s == Len(sessions) + 1
           q == [Idle EXCEPT !.pc = "respond", !.session = s]
<1>1. SessionsStep /\ s \in DOMAIN sessions'
  BY IssueTokensSessions
<1>2. s \in Nat
  <2>1. sessions \in Seq(Session)
    BY DEF SessionsInv, TypeOK
  <2> QED
    BY <2>1
<1>3. reqs' = [reqs EXCEPT ![r] = q] /\ UNCHANGED asked
  BY DEF IssueTokens, otp
<1> HIDE DEF s
<1>4. q \in ReqState
  BY <1>2, IdleIsRequest, FieldsKeepType
<1>5. q.pc = "respond" /\ q.session = s
  BY DEF Idle
<1> HIDE DEF q
<1>6. reqs'[r] = q
  BY <1>3 DEF SessionsInv, TypeOK
<1>7. RequestOK(r)'
  BY <1>1, <1>5, <1>6 DEF RequestOK
<1> QED
  BY <1>1, <1>3, <1>4, <1>7, AnswerStays, RequestMoves

LEMMA ChangeFindOK ==
  ASSUME SessionsInv, CodesStep, SessionsStep, NEW r \in Request,
         NEW current \in Password, NEW new \in Password,
         ChangeFind(r, current, new)
  PROVE  RequestsOK'
<1> DEFINE old == users[reqs[r].userId].password
           q == [reqs[r] EXCEPT !.pc = "changeSave", !.new = new,
                                !.shown = current, !.found = old]
<1>1. /\ reqs[r].userId \in User /\ reqs[r] \in ReqState
      /\ reqs \in [Request -> ReqState] /\ users \in [User -> Account]
  BY DEF ChangeFind, At, SessionsInv, TypeOK, RequestOK
<1>2. Finish(r) \/ (reqs' = [reqs EXCEPT ![r] = q] /\ old = current)
  BY <1>1 DEF ChangeFind, ReadToSave
<1> HIDE DEF old
<1>3. UNCHANGED asked /\ AnswerOK(r)'
  BY AnswerStays DEF ChangeFind, otp
<1>4. ASSUME old = current
      PROVE  /\ q \in ReqState /\ q.pc = "changeSave"
             /\ q.userId = reqs[r].userId
             /\ q.new = new /\ q.found = current /\ q.shown = current
  BY <1>1, <1>4 DEF ReqState
<1> HIDE DEF q
<1>5. CASE reqs' = [reqs EXCEPT ![r] = q] /\ old = current
  <2>1. reqs'[r] = q
    BY <1>1, <1>5
  <2>2. RequestOK(r)'
    BY <1>1, <1>4, <1>5, <2>1 DEF RequestOK
  <2> QED
    BY <1>3, <1>4, <1>5, <2>2, RequestMoves
<1> QED
  BY <1>2, <1>3, <1>5, RequestEnds

(* A code that is asked for was sent to the user of the request.             *)
LEMMA AskOtpOK ==
  ASSUME SessionsInv, CodesStep, SessionsStep, NEW r \in Request,
         NEW answer \in {"resetAnswer", "verifyAnswer"}, AskOtp(r, answer),
         reqs[r].pc \notin {"idle", "respond"}
  PROVE  RequestsOK'
<1>1. CASE Finish(r) /\ UNCHANGED otp
  BY <1>1, AnswerStays, RequestEnds DEF otp
<1>2. CASE /\ Otc!Ask(r, reqs[r].userId, ResetPassword, Null)
           /\ Goto(r, answer)
  <2>1. reqs[r].userId \in User
    BY DEF SessionsInv, RequestOK
  <2>2. /\ \A s \in Request \ {r} : asked'[s] = asked[s]
        /\ asked'[r].state = "asking" /\ asked'[r].code \in live
        /\ codes[asked'[r].code].userId = reqs[r].userId
        /\ UNCHANGED <<codes, live>>
    BY <1>2, <2>1, AskEffect
  <2>3. AnswerOK(r)'
    BY <2>2 DEF AnswerOK, SessionsInv, TypeOK, Otc!OtcTypeOK
  <2>4. reqs'[r].userId = reqs[r].userId
    BY <1>2 DEF Goto, SessionsInv, TypeOK, ReqState
  <2>5. CodeOK(r)'
    BY <2>2, <2>4 DEF CodeOK
  <2> QED
    BY <1>2, <2>2, <2>3, <2>5, RequestGoesOn
<1> QED
  BY <1>1, <1>2 DEF AskOtp

LEMMA AnswerMoves ==
  ASSUME SessionsInv, NEW r \in Request, NEW pc, Goto(r, pc),
         Otc!Accept(r) \/ Otc!Refuse(r)
  PROVE  /\ AnswerOK(r)'
         /\ \A s \in Request \ {r} : asked'[s] = asked[s]
         /\ (asked'[r].state = "accepted" /\ CodeOK(r)) => CodeOK(r)'
<1>1. /\ CodesStep
      /\ \A s \in Request \ {r} : asked'[s] = asked[s]
      /\ asked'[r].code = asked[r].code
      /\ \/ asked'[r].state = "refused"
         \/ asked[r].state = "asking" /\ asked'[r].state = "accepted"
  BY AnswerEffect
<1>2. AnswerOK(r)
  BY DEF SessionsInv
<1>3. AnswerOK(r)'
  BY <1>1, <1>2 DEF AnswerOK, CodesStep
<1>4. reqs'[r].userId = reqs[r].userId
  BY DEF Goto, SessionsInv, TypeOK, ReqState
<1>5. (asked'[r].state = "accepted" /\ CodeOK(r)) => CodeOK(r)'
  BY <1>1, <1>2, <1>4 DEF AnswerOK, CodeOK, CodesStep
<1> QED
  BY <1>1, <1>3, <1>5

(* The new password is taken only when the code was accepted.                *)
LEMMA ResetCheckOK ==
  ASSUME SessionsInv, CodesStep, SessionsStep, NEW r \in Request,
         NEW new \in Password, ResetCheck(r, new)
  PROVE  RequestsOK'
<1> DEFINE q == [reqs[r] EXCEPT !.pc = "resetSet", !.new = new,
                                !.found = Null]
<1>1. /\ At(r, "resetCheck") /\ reqs[r] \in ReqState
      /\ reqs[r].userId \in User /\ reqs \in [Request -> ReqState]
  BY DEF ResetCheck, At, SessionsInv, TypeOK, RequestOK
<1>2. CASE Finish(r) /\ Otc!Release(r)
  <2>1. AnswerOK(r)' /\ \A s \in Request \ {r} : asked'[s] = asked[s]
    BY <1>2, ReleaseEffect DEF AnswerOK
  <2> QED
    BY <1>2, <2>1, RequestEnds
<1>3. CASE /\ asked[r].state = "accepted" /\ UNCHANGED otp
           /\ reqs' = [reqs EXCEPT ![r] = q]
  <2>1. /\ q \in ReqState /\ q.pc = "resetSet"
        /\ q.userId = reqs[r].userId /\ q.new = new
    BY <1>1 DEF ReqState
  <2> HIDE DEF q
  <2>2. reqs'[r] = q /\ UNCHANGED <<codes, asked>>
    BY <1>1, <1>3 DEF otp
  <2>3. CodeOK(r)
    BY <1>1, <1>3 DEF At, SessionsInv, RequestOK
  <2>4. CodeOK(r)' /\ asked'[r].state = "accepted"
    BY <1>3, <2>1, <2>2, <2>3 DEF CodeOK
  <2>5. RequestOK(r)'
    BY <1>1, <2>1, <2>2, <2>4 DEF RequestOK
  <2> QED
    BY <1>3, <2>1, <2>2, <2>5, AnswerStays, RequestMoves
<1> QED
  BY <1>2, <1>3 DEF ResetCheck, GotoResetSet

(* Once the password is written, only the user of the request matters.       *)
LEMMA ResetSetOK ==
  ASSUME SessionsInv, CodesStep, SessionsStep, NEW r \in Request, ResetSet(r)
  PROVE  RequestsOK'
<1> DEFINE u == reqs[r].userId
           q == [Idle EXCEPT !.pc = "resetBump", !.userId = u]
<1>1. u \in User /\ reqs \in [Request -> ReqState]
  BY DEF ResetSet, At, SessionsInv, TypeOK, RequestOK
<1>2. reqs' = [reqs EXCEPT ![r] = q]
  BY DEF ResetSet
<1> HIDE DEF u
<1>3. q \in ReqState /\ q.pc = "resetBump" /\ q.userId = u
  BY <1>1, IdleIsRequest DEF ReqState
<1> HIDE DEF q
<1>4. RequestOK(r)'
  BY <1>1, <1>2, <1>3 DEF RequestOK
<1>5. AnswerOK(r)' /\ \A s \in Request \ {r} : asked'[s] = asked[s]
  BY ReleaseEffect DEF ResetSet, AnswerOK
<1> QED
  BY <1>2, <1>3, <1>4, <1>5, RequestMoves

LEMMA StepOK ==
  ASSUME SessionsInv, CodesStep, SessionsStep, NEW r \in Request, Step(r)
  PROVE  RequestsOK'
<1>1. RequestOK(r) /\ asked \in [Request -> Otc!Answer]
  BY DEF SessionsInv, TypeOK, Otc!OtcTypeOK
<1>2. CASE Finish(r) /\ UNCHANGED asked
  BY <1>2, AnswerStays, RequestEnds
<1>3. CASE Finish(r) /\ Otc!Release(r)
  <2>1. AnswerOK(r)' /\ \A s \in Request \ {r} : asked'[s] = asked[s]
    BY <1>3, ReleaseEffect DEF AnswerOK
  <2> QED
    BY <1>3, <2>1, RequestEnds
<1>4. CASE LoginBump(r) \/ MismatchBump(r) \/ ResetBump(r) \/ SendOtp(r)
  <2>1. PICK pc \in {"loginReload", "mismatchRevoke", "resetRevoke",
                     "sendOtpCreate"} :
          Goto(r, pc) /\ UNCHANGED asked
    BY <1>4, SendOtpEffect DEF LoginBump, MismatchBump, ResetBump, SendOtp, otp
  <2>2. reqs[r].pc \notin {"idle", "respond"}
    BY <1>4 DEF LoginBump, MismatchBump, ResetBump, SendOtp, At
  <2> QED
    BY <2>1, <2>2, AnswerStays, RequestGoesOn
<1>5. CASE ResetAsk(r) \/ VerifyAsk(r)
  <2>1. CASE ResetAsk(r)
    BY <2>1, AskOtpOK DEF ResetAsk, At
  <2>2. CASE VerifyAsk(r)
    BY <2>2, AskOtpOK DEF VerifyAsk, At
  <2> QED
    BY <1>5, <2>1, <2>2
<1>6. CASE ResetAnswer(r)
  <2>1. /\ reqs[r].pc = "resetAnswer" /\ Goto(r, "resetCheck")
        /\ Otc!Accept(r) \/ Otc!Refuse(r)
    BY <1>6 DEF ResetAnswer, At
  <2>2. CodeOK(r)
    BY <1>1, <2>1 DEF RequestOK
  <2>3. /\ AnswerOK(r)'
        /\ \A s \in Request \ {r} : asked'[s] = asked[s]
        /\ asked'[r].state = "accepted" => CodeOK(r)'
    BY <2>1, <2>2, AnswerMoves
  <2> QED
    BY <2>1, <2>2, <2>3, RequestGoesOn
<1>7. CASE VerifyAnswer(r)
  <2>1. /\ reqs[r].pc = "verifyAnswer" /\ Goto(r, "verified")
        /\ Otc!Accept(r) \/ Otc!Refuse(r)
    BY <1>7 DEF VerifyAnswer, At
  <2>2. AnswerOK(r)' /\ \A s \in Request \ {r} : asked'[s] = asked[s]
    BY <2>1, AnswerMoves
  <2> QED
    BY <2>1, <2>2, RequestGoesOn
<1>8. CASE SendOtpCreate(r)
  BY <1>2, <1>8, SendOtpCreateEffect DEF SendOtpCreate
<1> QED
  BY <1>2, <1>3, <1>4, <1>5, <1>6, <1>7, <1>8, LoginReloadOK, IssueTokensOK,
     ChangeFindOK, ResetCheckOK, ResetSetOK
     DEF Step, Respond, MismatchRevoke, ChangeSave, ToggleSave, ResetRevoke,
         Verified, otp

LEMMA NextRequestsOK == SessionsInv /\ [Next]_vars => RequestsOK'
<1> SUFFICES ASSUME SessionsInv, [Next]_vars PROVE RequestsOK'
  OBVIOUS
<1>1. CodesStep /\ SessionsStep
  BY NextCodesStep, NextSessionsStep
<1>2. CASE UNCHANGED <<reqs, asked>>
  BY <1>1, <1>2, AnswerStays, RequestStays DEF RequestsOK, SessionsInv, TypeOK
<1>3. CASE Restart
  <2>1. reqs' = [r \in Request |-> Idle]
    BY <1>3 DEF Restart
  <2>2. ASSUME NEW r \in Request PROVE AnswerOK(r)' /\ RequestOK(r)'
    <3>1. asked'[r] = Otc!Free
      BY <1>3 DEF Restart, Otc!Forget
    <3> QED
      BY <2>1, <2>2, <3>1, FreeIsAnswer DEF AnswerOK, RequestOK, Idle
  <2> QED
    BY <2>1, <2>2, IdleIsRequest DEF RequestsOK
<1>4. ASSUME NEW s \in DOMAIN sessions, Logout(s) PROVE RequestsOK'
  BY <1>2, <1>4 DEF otp, Logout
<1>5. ASSUME NEW i \in live, OtpExpires(i) PROVE RequestsOK'
  BY <1>2, <1>5 DEF OtpExpires, Otc!Revoke
<1>6. ASSUME NEW u \in User, NEW e \in Email \cup {Null},
             NEW role \in Role \cup {Null}, NEW active \in BOOLEAN \cup {Null},
             Update(u, e, role, active)
      PROVE  RequestsOK'
  BY <1>2, <1>6 DEF otp, Update
<1>7. ASSUME NEW u \in User, DeleteUser(u) PROVE RequestsOK'
  BY <1>2, <1>7 DEF otp, DeleteUser
<1>8. CASE UNCHANGED vars
  BY <1>2, <1>8 DEF vars, otp
<1>9. ASSUME NEW r \in Request, Arrive(r) \/ Step(r) PROVE RequestsOK'
  BY <1>1, <1>9, ArriveOK, StepOK
<1> QED
  BY <1>3, <1>4, <1>5, <1>6, <1>7, <1>8, <1>9 DEF Next

----------------------------------------------------------------------------
(* The invariant.                                                            *)

LEMMA InitInv == Init => SessionsInv
<1> SUFFICES ASSUME Init PROVE SessionsInv
  OBVIOUS
<1>1. users \in [User -> Account]
  BY SessionsAssumption DEF Init, Account, Stored
<1>2. sessions \in Seq(Session)
  BY DEF Init
<1>3. reqs \in [Request -> ReqState]
  BY IdleIsRequest DEF Init
<1>4. Otc!OtcTypeOK
  BY FreeIsAnswer DEF Init, Otc!OtcInit, Otc!OtcTypeOK
<1>5. ASSUME NEW u \in User PROVE TokenOK(u)
  BY DEF Init, TokenOK
<1>6. EmailsDiffer
  BY SessionsAssumption DEF Init, EmailsDiffer
<1>7. ASSUME NEW r \in Request PROVE AnswerOK(r) /\ RequestOK(r)
  <2>1. asked[r].state = "free"
    BY FreeIsAnswer DEF Init, Otc!OtcInit
  <2> QED
    BY <2>1 DEF Init, Idle, AnswerOK, RequestOK
<1> QED
  BY <1>1, <1>2, <1>3, <1>4, <1>5, <1>6, <1>7 DEF SessionsInv, TypeOK

LEMMA NextInv == SessionsInv /\ [Next]_vars => SessionsInv'
<1> SUFFICES ASSUME SessionsInv, [Next]_vars PROVE SessionsInv'
  OBVIOUS
<1>1. SessionsStep /\ UsersStep /\ CodesStep /\ RequestsOK'
  BY NextSessionsStep, NextUsersStep, NextCodesStep, NextRequestsOK
<1>2. users \in [User -> Account]
  BY DEF SessionsInv, TypeOK
<1>3. CASE UNCHANGED users
  <2>1. ASSUME NEW u \in User PROVE TokenOK(u)'
    <3>1. users[u].refreshToken # Null => Fits(sessions', u, users[u])
      BY <1>1, KeptTokenFits
    <3> QED
      BY <1>3, <3>1 DEF TokenOK
  <2>2. EmailsDiffer'
    BY <1>3 DEF SessionsInv, EmailsDiffer, Exists
  <2> QED
    BY <1>1, <1>2, <1>3, <2>1, <2>2
       DEF SessionsInv, TypeOK, RequestsOK, SessionsStep, CodesStep
<1>4. ASSUME NEW u \in User, NEW doc \in Account, Saved(u, doc)
      PROVE  SessionsInv'
  <2>1. /\ users' \in [User -> Account] /\ users'[u] = doc
        /\ \A v \in User \ {u} : users'[v] = users[v]
    BY <1>2, <1>4 DEF Saved
  <2>2. TokenOK(u)'
    BY <1>4, <2>1 DEF TokenOK, Saved, Allowed
  <2>3. ASSUME NEW v \in User \ {u} PROVE TokenOK(v)'
    <3>1. users[v].refreshToken # Null => Fits(sessions', v, users[v])
      BY <1>1, KeptTokenFits
    <3> QED
      BY <2>1, <3>1 DEF TokenOK
  <2>4. EmailsDiffer'
    BY <1>4, <2>1 DEF SessionsInv, EmailsDiffer, Exists, Saved, Allowed
  <2> QED
    BY <1>1, <2>1, <2>2, <2>3, <2>4
       DEF SessionsInv, TypeOK, RequestsOK, SessionsStep, CodesStep
<1> QED
  BY <1>1, <1>3, <1>4 DEF UsersStep

LEMMA Invariance == Spec => []SessionsInv
BY InitInv, NextInv, PTL DEF Spec

----------------------------------------------------------------------------
(* Theorems.                                                                 *)

(* What is stored stays what UsersService, the JWTs and the handlers take it *)
(* for, whatever else writes between two of their calls.                     *)
THEOREM TypeCorrect == Spec => []TypeOK
BY Invariance, PTL DEF SessionsInv

(* The refresh token of an account was stored under its present password,    *)
(* address and role: every write of one of them takes it away, and a write   *)
(* of a stale read only writes what it is about.                             *)
THEOREM StoredTokenMatches == Spec => []StoredTokenMatchesAccount
<1>1. SessionsInv => StoredTokenMatchesAccount
  BY DEF SessionsInv, TokenOK, Fits, StoredTokenMatchesAccount
<1> QED
  BY <1>1, Invariance, PTL

(* changePassword and resetPassword write a password one to three calls      *)
(* after the proof, the current password or a code of this user; no other    *)
(* handler writes it.                                                        *)
THEOREM PasswordChangeProven == Spec => PasswordChangeIsProven
<1>1. ASSUME SessionsInv, [Next]_vars,
             NEW u \in User, users'[u].password # users[u].password
      PROVE  Proven(u, users'[u].password)
  <2>1. UsersStep /\ users \in [User -> Account]
    BY <1>1, NextUsersStep DEF SessionsInv, TypeOK
  <2>2. PICK v \in User : \E doc \in Account : Saved(v, doc)
    BY <1>1, <2>1 DEF UsersStep
  <2>3. PICK doc \in Account : Saved(v, doc)
    BY <2>2
  <2> QED
    BY <1>1, <2>1, <2>3 DEF Saved, Allowed
<1>2. SessionsInv /\ [Next]_vars =>
        [\A u \in User :
           users'[u].password # users[u].password =>
             \E r \in Request :
               /\ reqs[r].userId = u
               /\ users'[u].password = reqs[r].new
               /\ \/ ChangeSave(r) /\ reqs[r].shown = reqs[r].found
                  \/ /\ ResetSet(r)
                     /\ asked[r].state = "accepted"
                     /\ codes[asked[r].code].userId = u
                     /\ codes[asked[r].code].purpose = ResetPassword]_vars
  BY <1>1 DEF Proven
<1> QED
  BY <1>2, Invariance, PTL DEF Spec, PasswordChangeIsProven

----------------------------------------------------------------------------
(* Refinement.                                                               *)

Seen(doc) ==
  IF doc.exists
  THEN [status |-> "stored", email |-> doc.email, role |-> doc.role]
  ELSE [status |-> "deleted", email |-> Null, role |-> Null]

LEMMA RegistryStep ==
  ASSUME SessionsInv, NEW u \in User, NEW doc \in Account, Saved(u, doc)
  PROVE  Registry' = [Registry EXCEPT ![u] = Seen(doc)]
<1>1. Registry = [v \in User |-> Seen(users[v])]
  BY DEF Registry, Exists, Seen
<1>2. Registry' = [v \in User |-> Seen(users'[v])]
  BY DEF Registry, Exists, Seen
<1>3. /\ users'[u] = doc
      /\ \A v \in User \ {u} : users'[v] = users[v]
  BY DEF Saved, SessionsInv, TypeOK
<1> QED
  BY <1>1, <1>2, <1>3

(* A write of an account is a change of it or its deletion.                  *)
LEMMA SavedRefines ==
  ASSUME SessionsInv, NEW u \in User, NEW doc \in Account, Saved(u, doc)
  PROVE  Acc!AccountsNext
<1>1. /\ Exists(u) /\ users[u] \in Account /\ doc.role \in Role
      /\ doc.email \in Email /\ Null \notin Role
  BY SessionsAssumption DEF Saved, SessionsInv, TypeOK, Account
<1>2. Acc!Stored(u) /\ Registry[u].role # Null
  BY <1>1 DEF Acc!Stored, Registry, Account
<1>3. CASE doc.exists
  <2>1. ~Acc!Taken(doc.email, {u})
    BY <1>3 DEF Acc!Taken, Acc!Stored, Registry, Saved, Allowed
  <2>2. Acc!Put(u, doc.email, doc.role)
    BY <1>3, RegistryStep DEF Acc!Put, Seen
  <2>3. Acc!Change(u, doc.email, doc.role)
    BY <1>1, <1>2, <2>1, <2>2 DEF Acc!Change
  <2> QED
    BY <1>1, <2>3 DEF Acc!AccountsNext
<1>4. CASE ~doc.exists
  <2>1. Registry' = [Registry EXCEPT ![u] = Acc!Gone]
    BY <1>4, RegistryStep DEF Acc!Gone, Seen
  <2>2. Acc!Delete(u)
    BY <1>2, <2>1 DEF Acc!Delete
  <2> QED
    BY <2>2 DEF Acc!AccountsNext
<1> QED
  BY <1>3, <1>4

LEMMA InitRefines == Init => Acc!AccountsInit
<1> SUFFICES ASSUME Init PROVE Acc!AccountsInit
  OBVIOUS
<1>1. SessionsInv
  BY InitInv
<1>2. ASSUME NEW u \in User
      PROVE  /\ Registry[u].status = "stored"
             /\ Registry[u].email = FirstEmail[u]
             /\ Registry[u].role = FirstRole
             /\ Registry[u] \in Acc!Entry
  BY <1>1, SessionsAssumption DEF Init, Registry, Exists, Acc!Entry
<1>3. Registry \in [User -> Acc!Entry]
  BY <1>2 DEF Registry
<1>4. ASSUME NEW u \in User PROVE ~Acc!Taken(Registry[u].email, {u})
  BY <1>2, SessionsAssumption DEF Acc!Taken
<1>5. ASSUME NEW u \in User PROVE Registry[u].role # Null
  BY <1>2, SessionsAssumption
<1> QED
  BY <1>3, <1>4, <1>5 DEF Acc!AccountsInit

(* The requests that read an account and write it later are, to everybody    *)
(* who looks accounts up, single changes and deletions: none brings a        *)
(* deleted account back or gives an address to a second one.                 *)
THEOREM Refinement == Spec => ImplementsAccounts
<1>1. SessionsInv /\ [Next]_vars => [Acc!AccountsNext]_Registry
  <2> SUFFICES ASSUME SessionsInv, [Next]_vars
               PROVE  [Acc!AccountsNext]_Registry
    OBVIOUS
  <2>1. CASE UNCHANGED users
    BY <2>1 DEF Registry, Exists
  <2>2. ASSUME NEW u \in User, NEW doc \in Account, Saved(u, doc)
        PROVE  Acc!AccountsNext
    BY <2>2, SavedRefines
  <2> QED
    BY <2>1, <2>2, NextUsersStep DEF UsersStep
<1> QED
  BY <1>1, InitRefines, Invariance, PTL
     DEF Spec, ImplementsAccounts, Acc!AccountsSpec

----------------------------------------------------------------------------
(* OneTimeCode, as Sessions uses it.                                         *)

LEMMA NextUsesOneTimeCode ==
  ASSUME SessionsInv, [Next]_vars
  PROVE  [Otc!OtcNext]_(Otc!otcVars)
<1>1. CASE UNCHANGED otp
  BY <1>1 DEF otp, Otc!otcVars
<1>2. ASSUME NEW S \in SUBSET live, Otc!Revoke(S) PROVE Otc!OtcNext
  BY <1>2 DEF Otc!OtcNext
<1>3. ASSUME NEW r \in Request, SendOtp(r) PROVE Otc!OtcNext
  BY <1>2, <1>3 DEF SendOtp, LiveOf
<1>4. ASSUME NEW r \in Request, Arrive(r) PROVE UNCHANGED otp
  BY <1>4
     DEF Arrive, ForgotPassword, ResendOtp, StartSendOtp, VerifyFind, LoginFind,
         ResetFind, Refresh, ChangeStart, ToggleFind
<1>5. ASSUME NEW r \in Request, Step(r), ~UNCHANGED otp PROVE Otc!OtcNext
  <2>1. reqs[r].pc \notin {"idle", "respond"} => reqs[r].userId \in User
    BY DEF SessionsInv, RequestOK
  <2>2. ResetPassword \in {ResetPassword} /\ Null \in {} \cup {Null}
    OBVIOUS
  <2>3. CASE SendOtpCreate(r)
    <3>1. Otc!Issue(reqs[r].userId, ResetPassword, Null)
      BY <1>5, <2>3 DEF SendOtpCreate
    <3>2. reqs[r].userId \in User
      BY <2>1, <2>3 DEF SendOtpCreate, At
    <3> QED
      BY <2>2, <3>1, <3>2 DEF Otc!OtcNext
  <2>4. CASE ResetAsk(r) \/ VerifyAsk(r)
    <3>1. Otc!Ask(r, reqs[r].userId, ResetPassword, Null)
      BY <1>5, <2>4 DEF ResetAsk, VerifyAsk, AskOtp
    <3>2. reqs[r].userId \in User
      BY <2>1, <2>4 DEF ResetAsk, VerifyAsk, At
    <3> QED
      BY <2>2, <3>1, <3>2 DEF Otc!OtcNext
  <2>5. CASE \/ ResetAnswer(r) \/ ResetSet(r) \/ VerifyAnswer(r) \/ Verified(r)
             \/ \E new \in Password : ResetCheck(r, new)
    <3>1. Otc!Accept(r) \/ Otc!Refuse(r) \/ Otc!Release(r)
      BY <1>5, <2>5
         DEF ResetAnswer, ResetCheck, ResetSet, VerifyAnswer, Verified
    <3> QED
      BY <3>1 DEF Otc!OtcNext
  <2> QED
    BY <1>3, <1>5, <2>3, <2>4, <2>5
       DEF Step, LoginBump, LoginReload, IssueTokens, Respond, MismatchBump,
           MismatchRevoke, ChangeFind, ChangeSave, ToggleSave, ResetBump,
           ResetRevoke
<1>6. ASSUME NEW i \in live, OtpExpires(i) PROVE Otc!OtcNext
  BY <1>2, <1>6 DEF OtpExpires
<1>7. CASE Restart
  BY <1>7 DEF Restart, Otc!OtcNext
<1>8. CASE ~UNCHANGED otp /\ Next
  <2>1. /\ ~\E s \in DOMAIN sessions : Logout(s)
        /\ ~\E u \in User, e \in Email \cup {Null}, role \in Role \cup {Null},
              active \in BOOLEAN \cup {Null} : Update(u, e, role, active)
        /\ ~\E u \in User : DeleteUser(u)
    BY <1>8 DEF Logout, Update, DeleteUser
  <2> QED
    BY <1>4, <1>5, <1>6, <1>7, <1>8, <2>1 DEF Next
<1> QED
  BY <1>1, <1>8 DEF vars, otp

(* Every step of the authentication handlers does to the codes what          *)
(* OneTimeCode allows or nothing, and Otp implements OneTimeCode: no handler *)
(* asks for more than the OTP service as it is keeps (auth.service.ts:220,   *)
(* :237, :260).                                                              *)
THEOREM UsesOneTimeCode == Spec => Otc!OtcSpec
<1>1. Init => Otc!OtcInit
  BY DEF Init
<1>2. SessionsInv /\ [Next]_vars => [Otc!OtcNext]_(Otc!otcVars)
  BY NextUsesOneTimeCode
<1> QED
  BY <1>1, <1>2, Invariance, PTL DEF Spec, Otc!OtcSpec
=============================================================================
