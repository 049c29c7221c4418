-------------------------------- MODULE Otp --------------------------------
(* The OTP service (src/otp/otp.service.ts) and its MongoDB collection       *)
(* (src/otp/schemas/otp.schema.ts): requests that send a code and requests   *)
(* that verify one, each a sequence of awaited database or e-mail calls that *)
(* other requests interleave with, the partial unique index, the TTL index   *)
(* that deletes expired codes, e-mail failures and a restart of the server.  *)
EXTENDS Naturals, Sequences

CONSTANTS
  Request,       \* HTTP requests being served
  User, Purpose, File,
  Null,          \* fileId: null, and a local variable without a value
  Code,          \* six-digit codes
  Expiry,        \* otp.expiryMinutes, in clock ticks
  MaxAttempts,   \* maxAttempts: 5
  MaxTime,       \* bound: the clock stops here
  MaxOtp         \* bound: codes issued

ASSUME OtpAssumption ==
  /\ Expiry \in Nat \ {0}
  /\ MaxAttempts \in Nat \ {0}
  /\ MaxTime \in Nat
  /\ MaxOtp \in Nat
  /\ Null \notin User \cup Purpose \cup File \cup Code

VARIABLES
  now,    \* the clock
  otps,   \* every document ever inserted in the collection, oldest first
  reqs    \* the requests

vars == <<now, otps, reqs>>

OptFile == File \cup {Null}

(* A document; stored is FALSE once the TTL monitor has deleted it.  codeHash*)
(* is represented by the code it is a hash of: bcrypt.compare(c, codeHash)   *)
(* answers whether c is that code.                                           *)
Document == [userId : User, purpose : Purpose, codeHash : Code,
             fileId : OptFile, expiresAt : Nat, isUsed : BOOLEAN,
             attempts : 0 .. MaxAttempts, stored : BOOLEAN]

(* A request: its arguments and its local variables.                         *)
(*   expiresAt  computed before the first await of sendOtp                   *)
(*   mark       how many documents existed when its updateMany ran (history) *)
(*   otp        index of the document findOne returned, 0 before that        *)
(*   attempts   otp.attempts as findOne read it                              *)
ReqState == [pc : {"idle",
                   "sendInvalidate", "sendCreate", "sendEmail", "sent",
                   "sendFailed", "verifySave", "accepted", "rejected"},
             userId : User \cup {Null}, purpose : Purpose \cup {Null},
             fileId : OptFile, code : Code \cup {Null},
             expiresAt : Nat, mark : Nat, otp : Nat,
             attempts : 0 .. MaxAttempts]

Idle == [pc |-> "idle",
         userId |-> Null, purpose |-> Null, fileId |-> Null, code |-> Null,
         expiresAt |-> 0, mark |-> 0, otp |-> 0, attempts |-> 0]

(* A request that has its result: only the document it read matters still.   *)
Result(out, i) == [Idle EXCEPT !.pc = out, !.otp = i]

TypeOK ==
  /\ now \in 0 .. MaxTime
  /\ otps \in Seq(Document)
  /\ reqs \in [Request -> ReqState]

Init ==
  /\ now = 0
  /\ otps = <<>>
  /\ reqs = [r \in Request |-> Idle]

----------------------------------------------------------------------------
(* Queries of the collection.                                                *)

(* Covered by the partial filter of the unique index: isUsed false.          *)
Active(i) == otps[i].stored /\ ~otps[i].isUsed

HasKey(i, u, p) == otps[i].userId = u /\ otps[i].purpose = p

ActiveOf(u, p) == {i \in DOMAIN otps : Active(i) /\ HasKey(i, u, p)}

(* Mutant: the index is declared without unique: true.                       *)
MutNoUniqueIndex(u, p) == FALSE

(* The insert of a document with isUsed false violates the unique index.     *)
DuplicateKey(u, p) == ActiveOf(u, p) # {}

----------------------------------------------------------------------------
(* sendOtp *)

(* expiresAt is fixed before the first await.                                *)
SendOtp(r, u, p, f) ==
  /\ reqs[r].pc = "idle"
  /\ reqs' = [reqs EXCEPT ![r] =
       [Idle EXCEPT !.pc = "sendInvalidate", !.userId = u, !.purpose = p,
                    !.fileId = f, !.expiresAt = now + Expiry]]
  /\ UNCHANGED <<now, otps>>

(* Mutant: updateMany skips expired codes, as verifyOtp's findOne does.      *)
MutSendInvalidateUnexpired(r) ==
  /\ reqs[r].pc = "sendInvalidate"
  /\ otps' = [i \in DOMAIN otps |->
       IF /\ i \in ActiveOf(reqs[r].userId, reqs[r].purpose)
          /\ otps[i].expiresAt > now
       THEN [otps[i] EXCEPT !.isUsed = TRUE] ELSE otps[i]]
  /\ reqs' = [reqs EXCEPT ![r].pc = "sendCreate", ![r].mark = Len(otps)]
  /\ UNCHANGED now

(* updateMany: every unused code of the user and purpose, expired or not.    *)
SendInvalidate(r) ==
  /\ reqs[r].pc = "sendInvalidate"
  /\ otps' = [i \in DOMAIN otps |->
       IF i \in ActiveOf(reqs[r].userId, reqs[r].purpose)
       THEN [otps[i] EXCEPT !.isUsed = TRUE] ELSE otps[i]]
  /\ reqs' = [reqs EXCEPT ![r].pc = "sendCreate", ![r].mark = Len(otps)]
  /\ UNCHANGED now

(* Draw a code, hash it, insert the document.                                *)
SendCreate(r) ==
  /\ reqs[r].pc = "sendCreate"
  /\ ~DuplicateKey(reqs[r].userId, reqs[r].purpose)
  /\ Len(otps) < MaxOtp
  /\ \E c \in Code :
       otps' = Append(otps,
         [userId |-> reqs[r].userId, purpose |-> reqs[r].purpose,
          codeHash |-> c, fileId |-> reqs[r].fileId,
          expiresAt |-> reqs[r].expiresAt, isUsed |-> FALSE,
          attempts |-> 0, stored |-> TRUE])
  /\ reqs' = [reqs EXCEPT ![r].pc = "sendEmail"]
  /\ UNCHANGED now

(* Another sendOtp inserted its code in between: create throws E11000.       *)
SendCreateDuplicate(r) ==
  /\ reqs[r].pc = "sendCreate"
  /\ DuplicateKey(reqs[r].userId, reqs[r].purpose)
  /\ reqs' = [reqs EXCEPT ![r] = Result("sendFailed", 0)]
  /\ UNCHANGED <<now, otps>>

(* sendOtpEmail returns, or throws and leaves the document behind.           *)
SendEmail(r) ==
  /\ reqs[r].pc = "sendEmail"
  /\ \E out \in {"sent", "sendFailed"} :
       reqs' = [reqs EXCEPT ![r] = Result(out, 0)]
  /\ UNCHANGED <<now, otps>>

----------------------------------------------------------------------------
(* verifyOtp *)

(* findOne: an unused code of the user and purpose that has not expired.     *)
Findable(u, p) == {i \in ActiveOf(u, p) : otps[i].expiresAt > now}

(* Mutant: the fileId of the request is never compared.                      *)
MutFileIgnored(i, f) == FALSE

FileMismatch(i, f) ==
  /\ f # Null
  /\ otps[i].fileId # Null
  /\ otps[i].fileId # f

(* Mutant: the lock is off.                                                  *)
MutVerifyFindUnlocked(r, u, p, f, c) ==
  /\ reqs[r].pc = "idle"
  /\ \E i \in Findable(u, p) :
       /\ ~FileMismatch(i, f)
       /\ reqs' = [reqs EXCEPT ![r] =
            [Idle EXCEPT !.pc = "verifySave", !.userId = u, !.purpose = p,
                         !.fileId = f, !.code = c, !.otp = i,
                         !.attempts = otps[i].attempts]]
  /\ UNCHANGED <<now, otps>>

VerifyFind(r, u, p, f, c) ==
  /\ reqs[r].pc = "idle"
  /\ \E i \in Findable(u, p) :
       /\ otps[i].attempts < MaxAttempts
       /\ ~FileMismatch(i, f)
       /\ reqs' = [reqs EXCEPT ![r] =
            [Idle EXCEPT !.pc = "verifySave", !.userId = u, !.purpose = p,
                         !.fileId = f, !.code = c, !.otp = i,
                         !.attempts = otps[i].attempts]]
  /\ UNCHANGED <<now, otps>>

(* No code, a locked one, or one requested for another file.                 *)
VerifyReject(r, u, p, f) ==
  /\ reqs[r].pc = "idle"
  /\ \A i \in Findable(u, p) :
       otps[i].attempts >= MaxAttempts \/ FileMismatch(i, f)
  /\ reqs' = [reqs EXCEPT ![r] = Result("rejected", 0)]
  /\ UNCHANGED <<now, otps>>

(* After bcrypt.compare, save() writes the modified paths of the document as *)
(* it was read: attempts (an absolute value) and, for the right code, isUsed.*)
VerifySave(r) ==
  LET i == reqs[r].otp
      isValid == reqs[r].code = otps[i].codeHash
  IN /\ reqs[r].pc = "verifySave"
     /\ otps[i].stored
     /\ otps' = [otps EXCEPT ![i].attempts = reqs[r].attempts + 1,
                             ![i].isUsed = @ \/ isValid]
     /\ reqs' = [reqs EXCEPT ![r] =
          Result(IF isValid THEN "accepted" ELSE "rejected", i)]
     /\ UNCHANGED now

(* The TTL monitor deleted the document: save() throws, right code or wrong. *)
VerifySaveMissing(r) ==
  /\ reqs[r].pc = "verifySave"
  /\ ~otps[reqs[r].otp].stored
  /\ reqs' = [reqs EXCEPT ![r] = Result("rejected", reqs[r].otp)]
  /\ UNCHANGED <<now, otps>>

----------------------------------------------------------------------------
(* The caller has the answer.                                                *)
Respond(r) ==
  /\ reqs[r].pc \in {"sent", "sendFailed", "accepted", "rejected"}
  /\ reqs' = [reqs EXCEPT ![r] = Idle]
  /\ UNCHANGED <<now, otps>>

(* The server restarts: requests in flight are gone, the collection stays.   *)
Restart ==
  /\ \E r \in Request : reqs[r].pc # "idle"
  /\ reqs' = [r \in Request |-> Idle]
  /\ UNCHANGED <<now, otps>>

Tick ==
  /\ now < MaxTime
  /\ now' = now + 1
  /\ UNCHANGED <<otps, reqs>>

(* Mutant: the TTL index spares the codes that were never tried.             *)
MutTtlDeleteTried(i) ==
  /\ otps[i].stored
  /\ otps[i].expiresAt <= now
  /\ otps[i].attempts > 0
  /\ otps' = [otps EXCEPT ![i].stored = FALSE]
  /\ UNCHANGED <<now, reqs>>

(* The TTL index on expiresAt, expireAfterSeconds 0.                         *)
TtlDelete(i) ==
  /\ otps[i].stored
  /\ otps[i].expiresAt <= now
  /\ otps' = [otps EXCEPT ![i].stored = FALSE]
  /\ UNCHANGED <<now, reqs>>

SendStep(r) ==
  \/ SendInvalidate(r)
  \/ SendCreate(r)
  \/ SendCreateDuplicate(r)
  \/ SendEmail(r)

VerifyStep(r) == VerifySave(r) \/ VerifySaveMissing(r)

Next ==
  \/ \E r \in Request, u \in User, p \in Purpose, f \in OptFile :
       \/ SendOtp(r, u, p, f)
       \/ VerifyReject(r, u, p, f)
       \/ \E c \in Code : VerifyFind(r, u, p, f, c)
  \/ \E r \in Request : SendStep(r) \/ VerifyStep(r) \/ Respond(r)
  \/ Restart
  \/ Tick
  \/ \E i \in DOMAIN otps : TtlDelete(i)

Spec == Init /\ [][Next]_vars

(* Time passes and MongoDB's TTL monitor wakes up every minute.  Nothing     *)
(* obliges a request to arrive, or one in flight to survive a restart.       *)
Fairness == WF_vars(Tick) /\ WF_vars(\E i \in DOMAIN otps : TtlDelete(i))

FairSpec == Spec /\ Fairness

----------------------------------------------------------------------------
(* Properties *)

(* otp.schema.ts:92 "Prevent multiple active OTPs per user + purpose": an    *)
(* unused code is the newest one inserted for its user and purpose, however  *)
(* the updateMany and create of concurrent sendOtp calls interleave; so the  *)
(* code that verifyOtp's findOne returns is the last one the user was sent.  *)
ActiveIsNewest ==
  \A i, j \in DOMAIN otps :
    (Active(i) /\ HasKey(j, otps[i].userId, otps[i].purpose)) => j <= i

(* sendOtp fails with a duplicate key only if another sendOtp for the same   *)
(* user and purpose inserted its code after this one's updateMany: a code    *)
(* left behind by a failed e-mail, a lock, an expiry or a restart never      *)
(* stands in the way of the next one.                                        *)
DuplicateOnlyUnderRace ==
  \A r \in Request :
    reqs[r].pc = "sendCreate" =>
      \A i \in ActiveOf(reqs[r].userId, reqs[r].purpose) : i > reqs[r].mark

InFlight(i) == {r \in Request : reqs[r].pc = "verifySave" /\ reqs[r].otp = i}

Locked(i) == otps[i].attempts >= MaxAttempts

(* Once a code is locked and the verifications that read it before that have *)
(* finished, it stays locked and is never used: no later verifyOtp reads it. *)
SettledLockHolds ==
  [][\A i \in DOMAIN otps :
       (Locked(i) /\ InFlight(i) = {}) =>
         otps'[i].attempts = otps[i].attempts /\ InFlight(i)' = {}]_vars

(* No unused code, locked or not, is in the way for ever: the TTL index      *)
(* removes it at the latest, whatever requests failed half-way.              *)
EveryCodeRetires ==
  LET InTheWay(i) == i \in DOMAIN otps /\ Active(i)
  IN \A i \in 1 .. MaxOtp :
       (InTheWay(i) /\ otps[i].expiresAt <= MaxTime) ~> ~InTheWay(i)

----------------------------------------------------------------------------
(* The service implements OneTimeCode.                                       *)

IssuedCodes ==
  [i \in DOMAIN otps |-> [userId |-> otps[i].userId,
                          purpose |-> otps[i].purpose,
                          fileId |-> otps[i].fileId]]

LiveCodes == {i \in DOMAIN otps : Active(i)}

AnswerOf(q) ==
  CASE q.pc = "verifySave" ->
         [state |-> "asking", code |-> q.otp,
          about |-> [userId |-> q.userId, purpose |-> q.purpose,
                     fileId |-> q.fileId]]
    [] q.pc = "accepted" ->
         [state |-> "accepted", code |-> q.otp, about |-> Null]
    [] q.pc = "rejected" ->
         [state |-> "refused", code |-> q.otp, about |-> Null]
    [] OTHER -> [state |-> "free", code |-> 0, about |-> Null]

Abstract ==
  INSTANCE OneTimeCode WITH
    codes <- IssuedCodes,
    live  <- LiveCodes,
    asked <- [r \in Request |-> AnswerOf(reqs[r])]

(* Every step of the service is a step of OneTimeCode or invisible to it: an *)
(* accepted code was live when its request asked, was issued to its user for *)
(* its purpose and for no other file than the one it names, and is           *)
(* never live afterwards, though another request saves the same document.    *)
ImplementsOneTimeCode == Abstract!OtcSpec
=============================================================================
