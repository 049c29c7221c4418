----------------------------- MODULE OtpProofs -----------------------------
(* Theorems about Otp for any requests, users, purposes, files and codes and *)
(* any bounds: the type invariant, the uniqueness of the active code, what   *)
(* may make sendOtp fail, the lock, and that Otp implements OneTimeCode.     *)
EXTENDS Otp, SequenceTheorems, TLAPS

(* What a request knows at each step of its handler.                         *)
RequestOK(r) ==
  /\ reqs[r].pc \in {"sendInvalidate", "sendCreate"} =>
       reqs[r].userId \in User /\ reqs[r].purpose \in Purpose
  /\ reqs[r].pc \in {"verifySave", "accepted"} => reqs[r].otp \in DOMAIN otps
  /\ reqs[r].pc = "verifySave" => reqs[r].attempts < MaxAttempts
  /\ reqs[r].pc = "sendCreate" => reqs[r].mark <= Len(otps)

RequestsOK == \A r \in Request : RequestOK(r)

OtpInv ==
  /\ TypeOK
  /\ RequestsOK
  /\ ActiveIsNewest
  /\ DuplicateOnlyUnderRace

----------------------------------------------------------------------------
(* The type invariant, one action at a time.                                 *)

(* A new document starts with an attempt count that is in bounds.            *)
LEMMA ZeroAttempts == 0 \in 0 .. MaxAttempts
BY OtpAssumption

(* A request that is not being served has the type of a request.             *)
LEMMA IdleType == Idle \in ReqState
BY ZeroAttempts DEF Idle, ReqState, OptFile

(* A sequence of documents is a function on 1 .. Len.                         *)
LEMMA DocumentsType ==
  ASSUME TypeOK
  PROVE  /\ Len(otps) \in Nat
         /\ DOMAIN otps = 1 .. Len(otps)
         /\ otps \in [1 .. Len(otps) -> Document]
         /\ \A i \in DOMAIN otps :
              /\ i \in Nat /\ otps[i] \in Document
              /\ otps[i].attempts \in 0 .. MaxAttempts
<1>1. otps \in Seq(Document)
  BY DEF TypeOK
<1>2. /\ Len(otps) \in Nat
      /\ DOMAIN otps = 1 .. Len(otps)
      /\ otps \in [1 .. Len(otps) -> Document]
  BY <1>1, LenProperties
<1>3. \A i \in DOMAIN otps : i \in Nat /\ otps[i] \in Document
  BY <1>2
<1> QED
  BY <1>2, <1>3 DEF Document

(* A function on 1 .. n is a sequence of length n.                           *)
LEMMA FunctionIsSeq ==
  ASSUME NEW n \in Nat, NEW S, NEW s \in [1 .. n -> S]
  PROVE  s \in Seq(S) /\ Len(s) = n
<1>1. s \in Seq(S)
  BY SeqDef
<1>2. DOMAIN s = 1 .. Len(s) /\ Len(s) \in Nat
  BY <1>1, LenProperties
<1> QED
  BY <1>1, <1>2

(* What a handler answers has the type of a request.                         *)
LEMMA ResultType ==
  ASSUME NEW out \in {"sent", "sendFailed", "accepted", "rejected"},
         NEW i \in Nat
  PROVE  Result(out, i) \in ReqState
BY ZeroAttempts DEF Result, Idle, ReqState, OptFile

(* The empty collection is type-correct.                                     *)
LEMMA InitType == Init => TypeOK
BY IdleType, OtpAssumption DEF Init, TypeOK

----------------------------------------------------------------------------
(* What a step does to the collection.                                       *)

(* No document is inserted, none becomes active again, and what was inserted *)
(* is not rewritten.                                                         *)
Shrinks ==
  /\ otps' \in Seq(Document)
  /\ Len(otps') = Len(otps)
  /\ DOMAIN otps' = DOMAIN otps
  /\ \A i \in DOMAIN otps :
       /\ otps'[i].userId = otps[i].userId
       /\ otps'[i].purpose = otps[i].purpose
       /\ otps'[i].fileId = otps[i].fileId
       /\ Active(i)' => Active(i)

(* One document is appended, of a user and purpose with no active one.       *)
Inserts(d) ==
  /\ otps' \in Seq(Document)
  /\ otps' = Append(otps, d)
  /\ Len(otps') = Len(otps) + 1
  /\ \A i \in DOMAIN otps : otps'[i] = otps[i]
  /\ otps'[Len(otps) + 1] = d
  /\ ActiveOf(d.userId, d.purpose) = {}

(* A step that leaves the collection alone shrinks it, trivially.            *)
LEMMA UnchangedShrinks == TypeOK /\ UNCHANGED otps => Shrinks
BY DEF Shrinks, TypeOK, Active

(* sendOtp's updateMany uses up every unused code of the key it found.       *)
LEMMA InvalidateShrinks ==
  ASSUME TypeOK, NEW r \in Request, SendInvalidate(r)
  PROVE  /\ Shrinks
         /\ ActiveOf(reqs[r].userId, reqs[r].purpose)' \cap
              ActiveOf(reqs[r].userId, reqs[r].purpose) = {}
<1> DEFINE K == ActiveOf(reqs[r].userId, reqs[r].purpose)
<1>1. otps' = [i \in DOMAIN otps |->
        IF i \in K THEN [otps[i] EXCEPT !.isUsed = TRUE] ELSE otps[i]]
  BY DEF SendInvalidate
<1>2. \A i \in DOMAIN otps : otps[i] \in Document
  BY DocumentsType
<1>3. \A i \in DOMAIN otps :
        [otps[i] EXCEPT !.isUsed = TRUE] \in Document
  BY <1>2 DEF Document
<1>4. otps' \in [1 .. Len(otps) -> Document]
  <2> HIDE DEF K
  <2> QED BY <1>1, <1>2, <1>3, DocumentsType
<1>5. otps' \in Seq(Document) /\ Len(otps') = Len(otps)
  BY <1>4, DocumentsType, FunctionIsSeq
<1> QED
  BY <1>1, <1>2, <1>5 DEF Shrinks, Active, ActiveOf, HasKey, Document

(* verifyOtp's save writes the document it has read and no other.            *)
LEMMA SaveShrinks ==
  ASSUME TypeOK, RequestsOK, NEW r \in Request, VerifySave(r)
  PROVE  /\ Shrinks
         /\ \A i \in DOMAIN otps :
              i # reqs[r].otp => otps'[i] = otps[i]
<1> DEFINE k == reqs[r].otp
           valid == reqs[r].code = otps[k].codeHash
           d == [otps[k] EXCEPT !.attempts = reqs[r].attempts + 1,
                                !.isUsed = @ \/ valid]
<1>1. k \in DOMAIN otps /\ reqs[r].attempts + 1 \in 0 .. MaxAttempts
  BY OtpAssumption DEF VerifySave, RequestsOK, RequestOK, TypeOK, ReqState
<1>2. otps[k] \in Document /\ valid \in BOOLEAN
  BY <1>1, DocumentsType
<1>3. otps' = [otps EXCEPT ![k] = d]
  BY <1>1, <1>2 DEF VerifySave, Document
<1>4. /\ d \in Document /\ d.userId = otps[k].userId
      /\ d.purpose = otps[k].purpose /\ d.fileId = otps[k].fileId
      /\ d.stored = otps[k].stored /\ (otps[k].isUsed => d.isUsed)
  BY <1>1, <1>2 DEF Document
<1> HIDE DEF d, k
<1>5. otps' \in [1 .. Len(otps) -> Document]
  BY <1>1, <1>3, <1>4, DocumentsType
<1>6. otps' \in Seq(Document) /\ Len(otps') = Len(otps)
  BY <1>5, DocumentsType, FunctionIsSeq
<1> QED
  BY <1>1, <1>3, <1>4, <1>6, DocumentsType DEF Shrinks, Active, k

(* The TTL monitor removes an expired document for good.                     *)
LEMMA TtlShrinks ==
  ASSUME TypeOK, NEW k \in DOMAIN otps, TtlDelete(k)
  PROVE  Shrinks /\ ~Active(k)'
<1> DEFINE d == [otps[k] EXCEPT !.stored = FALSE]
<1>1. otps' = [otps EXCEPT ![k] = d]
  BY DEF TtlDelete
<1>2. /\ d \in Document /\ d.userId = otps[k].userId
      /\ d.purpose = otps[k].purpose /\ d.fileId = otps[k].fileId
      /\ d.stored = FALSE
  BY DocumentsType DEF Document
<1> HIDE DEF d
<1>3. otps' \in [1 .. Len(otps) -> Document]
  BY <1>1, <1>2, DocumentsType
<1>4. otps' \in Seq(Document) /\ Len(otps') = Len(otps)
  BY <1>3, DocumentsType, FunctionIsSeq
<1> QED
  BY <1>1, <1>2, <1>4, DocumentsType DEF Shrinks, Active

(* sendOtp's create appends one unused code, and the unique index has made   *)
(* sure that there was none of its key.                                      *)
LEMMA CreateInserts ==
  ASSUME TypeOK, RequestsOK, NEW r \in Request, SendCreate(r)
  PROVE  \E d \in Document :
           /\ Inserts(d)
           /\ d.userId = reqs[r].userId /\ d.purpose = reqs[r].purpose
           /\ d.fileId = reqs[r].fileId /\ d.stored /\ ~d.isUsed
<1>1. PICK c \in Code :
        otps' = Append(otps,
          [userId |-> reqs[r].userId, purpose |-> reqs[r].purpose,
           codeHash |-> c, fileId |-> reqs[r].fileId,
           expiresAt |-> reqs[r].expiresAt, isUsed |-> FALSE,
           attempts |-> 0, stored |-> TRUE])
  BY DEF SendCreate
<1> DEFINE d == [userId |-> reqs[r].userId, purpose |-> reqs[r].purpose,
                 codeHash |-> c, fileId |-> reqs[r].fileId,
                 expiresAt |-> reqs[r].expiresAt, isUsed |-> FALSE,
                 attempts |-> 0, stored |-> TRUE]
<1>2. /\ reqs[r].userId \in User /\ reqs[r].purpose \in Purpose
      /\ reqs[r].fileId \in OptFile /\ reqs[r].expiresAt \in Nat
  BY DEF SendCreate, RequestsOK, RequestOK, TypeOK, ReqState
<1>3. /\ d \in Document /\ d.userId = reqs[r].userId
      /\ d.purpose = reqs[r].purpose /\ d.fileId = reqs[r].fileId
      /\ d.stored = TRUE /\ d.isUsed = FALSE
  BY <1>2, ZeroAttempts DEF Document
<1>4. otps' = Append(otps, d)
  BY <1>1
<1> HIDE DEF d
<1>5. /\ otps' \in Seq(Document) /\ Len(otps') = Len(otps) + 1
      /\ \A i \in 1 .. Len(otps) : otps'[i] = otps[i]
      /\ otps'[Len(otps) + 1] = d
  BY <1>3, <1>4, AppendProperties DEF TypeOK
<1>6. ActiveOf(d.userId, d.purpose) = {}
  BY <1>3 DEF SendCreate, DuplicateKey
<1>7. Inserts(d)
  BY <1>4, <1>5, <1>6, DocumentsType DEF Inserts
<1> QED BY <1>3, <1>7

(* Every step does one or the other, or touches no document.                 *)
LEMMA CollectionStep ==
  ASSUME TypeOK, RequestsOK, [Next]_vars
  PROVE  \/ Shrinks
         \/ \E r \in Request, d \in Document :
              SendCreate(r) /\ Inserts(d)
              /\ d.userId = reqs[r].userId /\ d.purpose = reqs[r].purpose
<1>1. CASE UNCHANGED otps
  BY <1>1, UnchangedShrinks
<1>2. ASSUME NEW r \in Request, SendInvalidate(r) PROVE Shrinks
  BY <1>2, InvalidateShrinks
<1>3. ASSUME NEW r \in Request, VerifySave(r) PROVE Shrinks
  BY <1>3, SaveShrinks
<1>4. ASSUME NEW k \in DOMAIN otps, TtlDelete(k) PROVE Shrinks
  BY <1>4, TtlShrinks
<1>5. ASSUME NEW r \in Request, SendCreate(r)
      PROVE  \E d \in Document :
               Inserts(d) /\ d.userId = reqs[r].userId
               /\ d.purpose = reqs[r].purpose
  BY <1>5, CreateInserts
<1> QED
  BY <1>1, <1>2, <1>3, <1>4, <1>5
  DEF Next, vars, SendStep, VerifyStep, SendOtp, VerifyReject, VerifyFind,
      SendCreateDuplicate, SendEmail, VerifySaveMissing, Respond, Restart,
      Tick

----------------------------------------------------------------------------
(* Every step keeps the types; the bound on attempts needs RequestsOK.       *)
LEMMA NextType == TypeOK /\ RequestsOK /\ [Next]_vars => TypeOK'
<1> SUFFICES ASSUME TypeOK, RequestsOK, [Next]_vars PROVE TypeOK'
  OBVIOUS
<1> USE OtpAssumption
<1>a. otps' \in Seq(Document)
  BY CollectionStep DEF Shrinks, Inserts
<1>b. now' \in 0 .. MaxTime
  <2>1. CASE Tick
    BY <2>1 DEF Tick, TypeOK
  <2>2. CASE now' = now
    BY <2>2 DEF TypeOK
  <2> QED
    BY <2>1, <2>2
    DEF Next, vars, SendStep, VerifyStep, SendOtp, VerifyReject, VerifyFind,
        SendInvalidate, SendCreate, SendCreateDuplicate, SendEmail,
        VerifySave, VerifySaveMissing, Respond, Restart, TtlDelete
<1>c. reqs \in [Request -> ReqState]
  BY DEF TypeOK
<1>1. ASSUME NEW r \in Request, NEW u \in User, NEW p \in Purpose,
             NEW f \in OptFile, SendOtp(r, u, p, f)
      PROVE  reqs' \in [Request -> ReqState]
  <2>1. now + Expiry \in Nat
    BY DEF TypeOK
  <2>2. [Idle EXCEPT !.pc = "sendInvalidate", !.userId = u, !.purpose = p,
                     !.fileId = f, !.expiresAt = now + Expiry] \in ReqState
    BY <2>1, ZeroAttempts DEF ReqState, Idle
  <2> QED BY <1>1, <1>c, <2>2 DEF SendOtp
<1>2. ASSUME NEW r \in Request, NEW u \in User, NEW p \in Purpose,
             NEW f \in OptFile, VerifyReject(r, u, p, f)
      PROVE  reqs' \in [Request -> ReqState]
  BY <1>2, <1>c, ResultType DEF VerifyReject
<1>3. ASSUME NEW r \in Request, NEW u \in User, NEW p \in Purpose,
             NEW f \in OptFile, NEW c \in Code, VerifyFind(r, u, p, f, c)
      PROVE  reqs' \in [Request -> ReqState]
  <2>1. PICK i \in DOMAIN otps :
          reqs' = [reqs EXCEPT ![r] =
            [Idle EXCEPT !.pc = "verifySave", !.userId = u, !.purpose = p,
                         !.fileId = f, !.code = c, !.otp = i,
                         !.attempts = otps[i].attempts]]
    BY <1>3 DEF VerifyFind, Findable, ActiveOf
  <2>2. i \in Nat /\ otps[i].attempts \in 0 .. MaxAttempts
    BY DocumentsType
  <2> DEFINE n == otps[i].attempts
  <2>3. n \in 0 .. MaxAttempts
    BY <2>2
  <2> HIDE DEF n
  <2>4. [Idle EXCEPT !.pc = "verifySave", !.userId = u, !.purpose = p,
                     !.fileId = f, !.code = c, !.otp = i,
                     !.attempts = n] \in ReqState
    BY <2>2, <2>3 DEF ReqState, Idle
  <2> QED BY <2>1, <2>4, <1>c DEF n
<1>4. ASSUME NEW r \in Request, SendInvalidate(r)
      PROVE  reqs' \in [Request -> ReqState]
  <2>1. [reqs[r] EXCEPT !.pc = "sendCreate", !.mark = Len(otps)] \in ReqState
    BY <1>c, DocumentsType DEF ReqState
  <2>2. reqs' = [reqs EXCEPT ![r] =
          [reqs[r] EXCEPT !.pc = "sendCreate", !.mark = Len(otps)]]
    BY <1>4, <1>c DEF SendInvalidate, ReqState
  <2> QED BY <1>c, <2>1, <2>2
<1>5. ASSUME NEW r \in Request, SendCreate(r)
      PROVE  reqs' \in [Request -> ReqState]
  <2>1. [reqs[r] EXCEPT !.pc = "sendEmail"] \in ReqState
    BY <1>c DEF ReqState
  <2> QED BY <1>5, <1>c, <2>1 DEF SendCreate
<1>6. ASSUME NEW r \in Request, SendCreateDuplicate(r) \/ SendEmail(r)
      PROVE  reqs' \in [Request -> ReqState]
  BY <1>6, <1>c, ResultType DEF SendCreateDuplicate, SendEmail
<1>7. ASSUME NEW r \in Request, VerifyStep(r)
      PROVE  reqs' \in [Request -> ReqState]
  <2>1. reqs[r].otp \in Nat
    BY <1>c DEF ReqState
  <2> QED
    BY <1>7, <1>c, <2>1, ResultType DEF VerifyStep, VerifySave, VerifySaveMissing
<1>8. ASSUME NEW r \in Request, Respond(r)
      PROVE  reqs' \in [Request -> ReqState]
  BY <1>8, <1>c, IdleType DEF Respond
<1>9. CASE Restart
  BY <1>9, <1>a, <1>b, IdleType DEF Restart, TypeOK
<1>10. CASE UNCHANGED reqs
  BY <1>10, <1>a, <1>b DEF TypeOK
<1> QED
  BY <1>a, <1>b, <1>1, <1>2, <1>3, <1>4, <1>5, <1>6, <1>7, <1>8, <1>9, <1>10
  DEF Next, SendStep, TypeOK, Tick, TtlDelete, vars
----------------------------------------------------------------------------
(* The rest of the inductive invariant.                                      *)

(* Every step keeps what the requests know.                                  *)
LEMMA NextRequests == TypeOK /\ RequestsOK /\ [Next]_vars => RequestsOK'
<1> SUFFICES ASSUME TypeOK, RequestsOK, [Next]_vars, NEW q \in Request
             PROVE  RequestOK(q)'
  BY DEF RequestsOK
<1>a. RequestOK(q) /\ reqs \in [Request -> ReqState]
  BY DEF RequestsOK, TypeOK
<1>b. /\ DOMAIN otps \subseteq DOMAIN otps'
      /\ Len(otps) \in Nat /\ Len(otps') \in Nat
      /\ Len(otps) <= Len(otps')
  <2>1. Len(otps) \in Nat /\ DOMAIN otps = 1 .. Len(otps)
    BY DocumentsType
  <2>2. otps' \in Seq(Document)
        /\ (Len(otps') = Len(otps) \/ Len(otps') = Len(otps) + 1)
    BY CollectionStep DEF Shrinks, Inserts
  <2>3. DOMAIN otps' = 1 .. Len(otps')
    BY <2>2, LenProperties
  <2>4. Len(otps') \in Nat /\ Len(otps) <= Len(otps')
    BY <2>1, <2>2
  <2> QED BY <2>1, <2>3, <2>4
<1>1. CASE reqs'[q] = reqs[q]
  BY <1>1, <1>a, <1>b DEF RequestOK, ReqState
<1>2. ASSUME NEW u \in User, NEW p \in Purpose, NEW f \in OptFile,
             SendOtp(q, u, p, f)
      PROVE  RequestOK(q)'
  BY <1>2, <1>a DEF SendOtp, RequestOK, Idle
<1>3. ASSUME NEW u \in User, NEW p \in Purpose, NEW f \in OptFile,
             VerifyReject(q, u, p, f)
      PROVE  RequestOK(q)'
  BY <1>3, <1>a DEF VerifyReject, RequestOK, Result, Idle
<1>4. ASSUME NEW u \in User, NEW p \in Purpose, NEW f \in OptFile,
             NEW c \in Code, VerifyFind(q, u, p, f, c)
      PROVE  RequestOK(q)'
  <2>1. /\ reqs'[q].pc = "verifySave" /\ reqs'[q].otp \in DOMAIN otps
        /\ reqs'[q].attempts < MaxAttempts
    BY <1>4, <1>a DEF VerifyFind, Findable, ActiveOf, Idle
  <2> QED BY <2>1, <1>b DEF RequestOK
<1>5. CASE SendInvalidate(q)
  <2>1. /\ reqs'[q].pc = "sendCreate" /\ reqs'[q].mark = Len(otps)
        /\ reqs'[q].userId = reqs[q].userId
        /\ reqs'[q].purpose = reqs[q].purpose
    BY <1>5, <1>a DEF SendInvalidate, ReqState
  <2> QED BY <1>5, <1>a, <1>b, <2>1 DEF SendInvalidate, RequestOK
<1>6. CASE SendCreate(q)
  <2>1. reqs'[q].pc = "sendEmail"
    BY <1>6, <1>a DEF SendCreate, ReqState
  <2> QED BY <2>1 DEF RequestOK
<1>7. CASE SendCreateDuplicate(q) \/ SendEmail(q)
  BY <1>7, <1>a DEF SendCreateDuplicate, SendEmail, RequestOK, Result, Idle
<1>8. CASE VerifyStep(q)
  <2>1. /\ reqs'[q].pc \in {"accepted", "rejected"}
        /\ reqs'[q].otp = reqs[q].otp
        /\ reqs[q].otp \in DOMAIN otps
    <3>1. reqs[q].pc = "verifySave" /\ reqs[q].otp \in DOMAIN otps
      BY <1>8, <1>a DEF VerifyStep, VerifySave, VerifySaveMissing, RequestOK
    <3>2. \E out \in {"accepted", "rejected"} :
            reqs' = [reqs EXCEPT ![q] = Result(out, reqs[q].otp)]
      BY <1>8 DEF VerifyStep, VerifySave, VerifySaveMissing
    <3> QED BY <3>1, <3>2, <1>a DEF Result, Idle
  <2> QED BY <2>1, <1>b DEF RequestOK
<1>9. CASE Respond(q) \/ Restart
  BY <1>9, <1>a DEF Respond, Restart, RequestOK, Idle
<1>10. ASSUME NEW r \in Request, r # q,
              reqs'[q] # reqs[q],
              \/ SendStep(r) \/ VerifyStep(r) \/ Respond(r)
              \/ \E u \in User, p \in Purpose, f \in OptFile :
                   \/ SendOtp(r, u, p, f)
                   \/ VerifyReject(r, u, p, f)
                   \/ \E c \in Code : VerifyFind(r, u, p, f, c)
       PROVE  FALSE
  BY <1>10, <1>a
  DEF SendStep, VerifyStep, SendOtp, VerifyReject, VerifyFind, SendInvalidate,
      SendCreate, SendCreateDuplicate, SendEmail, VerifySave,
      VerifySaveMissing, Respond
<1> QED
  BY <1>1, <1>2, <1>3, <1>4, <1>5, <1>6, <1>7, <1>8, <1>9, <1>10
  DEF Next, SendStep, Tick, TtlDelete, vars

(* Every step keeps the unused code of a key the newest one.                 *)
LEMMA NextNewest ==
  ASSUME TypeOK, RequestsOK, ActiveIsNewest, [Next]_vars
  PROVE  ActiveIsNewest'
<1>1. CASE Shrinks
  BY <1>1 DEF Shrinks, ActiveIsNewest, HasKey
<1>2. ASSUME NEW d \in Document, Inserts(d) PROVE ActiveIsNewest'
  <2> SUFFICES ASSUME NEW i \in DOMAIN otps', NEW j \in DOMAIN otps',
                      Active(i)',
                      HasKey(j, otps[i].userId, otps[i].purpose)'
               PROVE  j <= i
    BY DEF ActiveIsNewest
  <2> DEFINE n == Len(otps)
  <2>1. /\ n \in Nat /\ DOMAIN otps = 1 .. n /\ DOMAIN otps' = 1 .. n + 1
        /\ i \in 1 .. n + 1 /\ j \in 1 .. n + 1
    BY <1>2, DocumentsType, LenProperties DEF Inserts
  <2>2. CASE i = n + 1
    BY <2>1, <2>2
  <2>3. CASE i # n + 1 /\ j # n + 1
    <3>1. i \in DOMAIN otps /\ j \in DOMAIN otps
      BY <2>1, <2>3
    <3>2. otps'[i] = otps[i] /\ otps'[j] = otps[j]
      BY <3>1, <1>2 DEF Inserts
    <3> QED BY <3>1, <3>2 DEF ActiveIsNewest, Active, HasKey
  <2>4. CASE i # n + 1 /\ j = n + 1
    <3>1. i \in DOMAIN otps
      BY <2>1, <2>4
    <3>2. otps'[i] = otps[i] /\ otps'[j] = d
      BY <3>1, <2>4, <1>2 DEF Inserts
    <3>3. i \in ActiveOf(d.userId, d.purpose)
      BY <3>1, <3>2 DEF ActiveOf, Active, HasKey
    <3> QED BY <3>3, <1>2 DEF Inserts
  <2> QED BY <2>2, <2>3, <2>4
<1> QED BY <1>1, <1>2, CollectionStep

(* A request is about to insert only after its own updateMany.               *)
LEMMA OnlyInvalidateReachesCreate ==
  ASSUME TypeOK, [Next]_vars, NEW q \in Request,
         reqs'[q].pc = "sendCreate", ~SendInvalidate(q)
  PROVE  reqs'[q] = reqs[q]
<1>a. reqs \in [Request -> ReqState]
  BY DEF TypeOK
<1>1. ASSUME NEW r \in Request, NEW u \in User, NEW p \in Purpose,
             NEW f \in OptFile, SendOtp(r, u, p, f)
      PROVE  reqs'[q] = reqs[q]
  BY <1>1, <1>a DEF SendOtp, Idle
<1>2. ASSUME NEW r \in Request, NEW u \in User, NEW p \in Purpose,
             NEW f \in OptFile, VerifyReject(r, u, p, f)
      PROVE  reqs'[q] = reqs[q]
  BY <1>2, <1>a DEF VerifyReject, Result, Idle
<1>3. ASSUME NEW r \in Request, NEW u \in User, NEW p \in Purpose,
             NEW f \in OptFile, NEW c \in Code, VerifyFind(r, u, p, f, c)
      PROVE  reqs'[q] = reqs[q]
  BY <1>3, <1>a DEF VerifyFind, Idle
<1>4. ASSUME NEW r \in Request, SendInvalidate(r) PROVE reqs'[q] = reqs[q]
  BY <1>4, <1>a DEF SendInvalidate
<1>5. ASSUME NEW r \in Request,
             SendCreate(r) \/ SendCreateDuplicate(r) \/ SendEmail(r)
      PROVE  reqs'[q] = reqs[q]
  <2>1. CASE SendCreate(r)
    BY <2>1, <1>a DEF SendCreate, ReqState
  <2>2. CASE SendCreateDuplicate(r)
    BY <2>2, <1>a DEF SendCreateDuplicate, Result, Idle
  <2>3. CASE SendEmail(r)
    BY <2>3, <1>a DEF SendEmail, Result, Idle
  <2> QED
    BY <1>5, <2>1, <2>2, <2>3
<1>6. ASSUME NEW r \in Request, VerifyStep(r) PROVE reqs'[q] = reqs[q]
  <2>1. \E out \in {"accepted", "rejected"} :
          reqs' = [reqs EXCEPT ![r] = Result(out, reqs[r].otp)]
    BY <1>6 DEF VerifyStep, VerifySave, VerifySaveMissing
  <2> QED BY <2>1, <1>a DEF Result, Idle
<1>7. ASSUME NEW r \in Request, Respond(r) PROVE reqs'[q] = reqs[q]
  BY <1>7, <1>a DEF Respond, Idle
<1>8. ASSUME Restart PROVE reqs'[q] = reqs[q]
  BY <1>8 DEF Restart, Idle
<1>9. CASE UNCHANGED reqs
  BY <1>9
<1> QED
  BY <1>1, <1>2, <1>3, <1>4, <1>5, <1>6, <1>7, <1>8, <1>9
  DEF Next, SendStep, Tick, TtlDelete, vars

(* Every step keeps it that only a later insert is in the way of one.        *)
LEMMA NextDuplicate ==
  ASSUME TypeOK, RequestsOK, DuplicateOnlyUnderRace, [Next]_vars
  PROVE  DuplicateOnlyUnderRace'
<1> SUFFICES ASSUME NEW q \in Request, reqs'[q].pc = "sendCreate",
                    NEW i \in ActiveOf(reqs[q].userId, reqs[q].purpose)'
             PROVE  i > reqs'[q].mark
  BY DEF DuplicateOnlyUnderRace
<1>a. reqs \in [Request -> ReqState]
  BY DEF TypeOK
<1>1. CASE SendInvalidate(q)
  <2>1. /\ reqs'[q].userId = reqs[q].userId
        /\ reqs'[q].purpose = reqs[q].purpose
    BY <1>1, <1>a DEF SendInvalidate, ReqState
  <2>2. i \in ActiveOf(reqs[q].userId, reqs[q].purpose)
    BY <1>1, <2>1, InvalidateShrinks DEF Shrinks, ActiveOf, HasKey
  <2>3. i \in ActiveOf(reqs[q].userId, reqs[q].purpose)'
                 \cap ActiveOf(reqs[q].userId, reqs[q].purpose)
    BY <2>2
  <2> QED BY <1>1, <2>3, InvalidateShrinks
<1>2. CASE ~SendInvalidate(q)
  <2>1. reqs'[q] = reqs[q]
    BY <1>2, OnlyInvalidateReachesCreate
  <2>2. CASE Shrinks
    <3>1. i \in ActiveOf(reqs[q].userId, reqs[q].purpose)
      BY <2>1, <2>2 DEF Shrinks, ActiveOf, HasKey
    <3> QED BY <2>1, <3>1 DEF DuplicateOnlyUnderRace
  <2>3. ASSUME NEW d \in Document, Inserts(d) PROVE i > reqs'[q].mark
    <3>1. /\ i \in 1 .. Len(otps) + 1 /\ Len(otps) \in Nat
          /\ DOMAIN otps = 1 .. Len(otps)
      BY <2>3, DocumentsType, LenProperties DEF Inserts, ActiveOf
    <3>2. CASE i = Len(otps) + 1
      <4>1. reqs[q].mark <= Len(otps) /\ reqs[q].mark \in Nat
        BY <2>1, <1>a DEF RequestsOK, RequestOK, ReqState
      <4> QED BY <3>1, <3>2, <4>1, <2>1
    <3>3. CASE i # Len(otps) + 1
      <4>1. i \in DOMAIN otps /\ otps'[i] = otps[i]
        BY <3>1, <3>3, <2>3 DEF Inserts
      <4>2. i \in ActiveOf(reqs[q].userId, reqs[q].purpose)
        BY <4>1, <2>1 DEF ActiveOf, Active, HasKey
      <4> QED BY <4>2, <2>1 DEF DuplicateOnlyUnderRace
    <3> QED BY <3>2, <3>3
  <2> QED BY <2>2, <2>3, CollectionStep
<1> QED BY <1>1, <1>2

----------------------------------------------------------------------------
(* The inductive invariant holds initially.                                  *)
LEMMA OtpInvInit == Init => OtpInv
BY InitType DEF Init, OtpInv, RequestsOK, RequestOK, ActiveIsNewest,
   DuplicateOnlyUnderRace, Idle

(* The inductive invariant is kept by every step.                            *)
LEMMA OtpInvNext == OtpInv /\ [Next]_vars => OtpInv'
BY NextType, NextRequests, NextNewest, NextDuplicate DEF OtpInv

(* OtpInv holds in every reachable state.                                    *)
THEOREM OtpInvariant == Spec => []OtpInv
BY OtpInvInit, OtpInvNext, PTL DEF Spec

(* Every variable of the service stays in its type.                          *)
THEOREM TypeCorrect == Spec => []TypeOK
BY OtpInvariant, PTL DEF OtpInv

(* otp.schema.ts:92: one active code per user and purpose, and it is the     *)
(* newest, for any number of concurrent requests.                            *)
THEOREM ActiveCodeIsNewest == Spec => []ActiveIsNewest
BY OtpInvariant, PTL DEF OtpInv

(* otp.service.ts:57-80: only a sendOtp that ran in between makes the insert *)
(* of another one fail.                                                      *)
THEOREM DuplicateNeedsRace == Spec => []DuplicateOnlyUnderRace
BY OtpInvariant, PTL DEF OtpInv

----------------------------------------------------------------------------
(* The lock.                                                                 *)

(* Only a verification that has read a code changes its attempt count.       *)
LEMMA AttemptsKept ==
  ASSUME TypeOK, RequestsOK, [Next]_vars, NEW i \in DOMAIN otps,
         InFlight(i) = {}
  PROVE  otps'[i].attempts = otps[i].attempts
<1>0. otps[i] \in Document
  BY DocumentsType
<1>1. ASSUME NEW r \in Request, SendInvalidate(r)
      PROVE  otps'[i].attempts = otps[i].attempts
  BY <1>0, <1>1 DEF SendInvalidate, Document
<1>2. ASSUME NEW r \in Request, SendCreate(r)
      PROVE  otps'[i].attempts = otps[i].attempts
  BY <1>2, CreateInserts DEF Inserts
<1>3. ASSUME NEW r \in Request, VerifySave(r)
      PROVE  otps'[i].attempts = otps[i].attempts
  <2>1. reqs[r].otp # i
    BY <1>3 DEF InFlight, VerifySave
  <2> QED BY <1>3, <2>1, SaveShrinks
<1>4. ASSUME NEW k \in DOMAIN otps, TtlDelete(k)
      PROVE  otps'[i].attempts = otps[i].attempts
  BY <1>0, <1>4, DocumentsType DEF TtlDelete, Document
<1>5. CASE UNCHANGED otps
  BY <1>5
<1> QED
  BY <1>1, <1>2, <1>3, <1>4, <1>5
  DEF Next, vars, SendStep, VerifyStep, SendOtp, VerifyReject, VerifyFind,
      SendCreateDuplicate, SendEmail, VerifySaveMissing, Respond, Restart,
      Tick

(* Once nobody is verifying a locked code, nobody begins to.                 *)
LEMMA LockedNotRead ==
  ASSUME TypeOK, [Next]_vars, NEW i \in DOMAIN otps, Locked(i),
         InFlight(i) = {}
  PROVE  InFlight(i)' = {}
<1> SUFFICES ASSUME NEW q \in Request,
                    reqs'[q].pc = "verifySave", reqs'[q].otp = i
             PROVE  FALSE
  BY DEF InFlight
<1>a. reqs \in [Request -> ReqState]
  BY DEF TypeOK
<1>b. otps[i].attempts \in Nat /\ ~(otps[i].attempts < MaxAttempts)
  BY DocumentsType, OtpAssumption DEF Locked
<1>c. reqs'[q] # reqs[q]
  BY DEF InFlight
<1>1. ASSUME NEW r \in Request, NEW u \in User, NEW p \in Purpose,
             NEW f \in OptFile, SendOtp(r, u, p, f)
      PROVE  FALSE
  BY <1>1, <1>a, <1>c DEF SendOtp, Idle
<1>2. ASSUME NEW r \in Request, NEW u \in User, NEW p \in Purpose,
             NEW f \in OptFile, VerifyReject(r, u, p, f)
      PROVE  FALSE
  BY <1>2, <1>a, <1>c DEF VerifyReject, Result, Idle
<1>3. ASSUME NEW r \in Request, NEW u \in User, NEW p \in Purpose,
             NEW f \in OptFile, NEW c \in Code, VerifyFind(r, u, p, f, c)
      PROVE  FALSE
  <2>1. PICK k \in DOMAIN otps :
          /\ otps[k].attempts < MaxAttempts
          /\ reqs' = [reqs EXCEPT ![r] =
               [Idle EXCEPT !.pc = "verifySave", !.userId = u,
                            !.purpose = p, !.fileId = f, !.code = c,
                            !.otp = k, !.attempts = otps[k].attempts]]
    BY <1>3 DEF VerifyFind, Findable, ActiveOf
  <2>2. r = q
    BY <2>1, <1>a, <1>c
  <2>3. k = i
    BY <2>1, <2>2, <1>a DEF Idle
  <2> QED BY <2>1, <2>3, <1>b
<1>4. ASSUME NEW r \in Request, SendInvalidate(r) PROVE FALSE
  BY <1>4, <1>a, <1>c DEF SendInvalidate, ReqState
<1>5. ASSUME NEW r \in Request,
             SendCreate(r) \/ SendCreateDuplicate(r) \/ SendEmail(r)
      PROVE  FALSE
  <2>1. CASE SendCreate(r)
    BY <2>1, <1>a, <1>c DEF SendCreate, ReqState
  <2>2. CASE SendCreateDuplicate(r)
    BY <2>2, <1>a, <1>c DEF SendCreateDuplicate, Result, Idle
  <2>3. CASE SendEmail(r)
    BY <2>3, <1>a, <1>c DEF SendEmail, Result, Idle
  <2> QED
    BY <1>5, <2>1, <2>2, <2>3
<1>6. ASSUME NEW r \in Request, VerifyStep(r) PROVE FALSE
  <2>1. \E out \in {"accepted", "rejected"} :
          reqs' = [reqs EXCEPT ![r] = Result(out, reqs[r].otp)]
    BY <1>6 DEF VerifyStep, VerifySave, VerifySaveMissing
  <2> QED BY <2>1, <1>a, <1>c DEF Result, Idle
<1>7. ASSUME NEW r \in Request, Respond(r) PROVE FALSE
  BY <1>7, <1>a, <1>c DEF Respond, Idle
<1>8. CASE Restart
  BY <1>8 DEF Restart, Idle
<1>9. CASE UNCHANGED reqs
  BY <1>9, <1>c
<1>10. ASSUME NEW r \in Request, SendStep(r) PROVE FALSE
  BY <1>4, <1>5, <1>10 DEF SendStep
<1>11. CASE Tick \/ \E j \in DOMAIN otps : TtlDelete(j)
  BY <1>9, <1>11 DEF Tick, TtlDelete
<1>12. CASE UNCHANGED vars
  BY <1>9, <1>12 DEF vars
<1> QED
  BY <1>1, <1>2, <1>3, <1>6, <1>7, <1>8, <1>10, <1>11, <1>12 DEF Next

(* otp.service.ts:111-113: once no verification that read the code earlier is*)
(* still in flight, a locked code is never compared again.                   *)
THEOREM LockHolds == Spec => SettledLockHolds
<1>1. OtpInv /\ [Next]_vars =>
        [\A i \in DOMAIN otps :
           (Locked(i) /\ InFlight(i) = {}) =>
             otps'[i].attempts = otps[i].attempts /\ InFlight(i)' = {}]_vars
  BY AttemptsKept, LockedNotRead DEF OtpInv
<1> QED
  BY <1>1, OtpInvariant, PTL DEF Spec, SettledLockHolds

----------------------------------------------------------------------------
(* The refinement.                                                           *)

(* An empty collection is one from which no code was issued.                 *)
LEMMA AbstractInit == Init => Abstract!OtcInit
<1> SUFFICES ASSUME Init PROVE Abstract!OtcInit
  OBVIOUS
<1>1. IssuedCodes = <<>> /\ LiveCodes = {}
  BY DEF Init, IssuedCodes, LiveCodes
<1>2. [r \in Request |-> AnswerOf(reqs[r])] =
        [r \in Request |-> Abstract!Free]
  BY DEF Init, AnswerOf, Idle, Abstract!Free, Abstract!Told
<1> QED BY <1>1, <1>2 DEF Abstract!OtcInit

(* What a caller of OneTimeCode is told follows from the handler's result.   *)
LEMMA AnswerOfResult ==
  \A i : /\ AnswerOf(Idle) = Abstract!Free
         /\ \A out \in {"sent", "sendFailed"} :
              AnswerOf(Result(out, i)) = Abstract!Free
         /\ AnswerOf(Result("accepted", i)) = Abstract!Told("accepted", i)
         /\ AnswerOf(Result("rejected", i)) = Abstract!Told("refused", i)
BY DEF AnswerOf, Idle, Result, Abstract!Free, Abstract!Told

(* The abstract answer of a request that is where pc says.                   *)
LEMMA AnswerOfPc ==
  ASSUME NEW q
  PROVE  /\ q.pc = "verifySave" =>
              AnswerOf(q) =
                [state |-> "asking", code |-> q.otp,
                 about |-> [userId |-> q.userId, purpose |-> q.purpose,
                            fileId |-> q.fileId]]
         /\ q.pc \in {"idle", "sendInvalidate", "sendCreate", "sendEmail",
                      "sent", "sendFailed"} => AnswerOf(q) = Abstract!Free
BY DEF AnswerOf, Abstract!Free, Abstract!Told

(* Only the answer of the request that takes the step changes.               *)
LEMMA AskedUpdate ==
  ASSUME NEW r \in Request, NEW q, reqs \in [Request -> ReqState],
         reqs' = [reqs EXCEPT ![r] = q]
  PROVE  [x \in Request |-> AnswerOf(reqs[x])]' =
           [[x \in Request |-> AnswerOf(reqs[x])] EXCEPT ![r] = AnswerOf(q)]
OBVIOUS

(* The abstract codes are the documents, without their hashes and dates.     *)
LEMMA IssuedCodesFacts ==
  ASSUME TypeOK
  PROVE  /\ IssuedCodes \in Seq(Abstract!IssuedCode)
         /\ Len(IssuedCodes) = Len(otps)
         /\ DOMAIN IssuedCodes = DOMAIN otps
         /\ \A i \in DOMAIN otps :
              IssuedCodes[i] = [userId |-> otps[i].userId,
                                purpose |-> otps[i].purpose,
                                fileId |-> otps[i].fileId]
<1>1. \A i \in DOMAIN otps :
        [userId |-> otps[i].userId, purpose |-> otps[i].purpose,
         fileId |-> otps[i].fileId] \in Abstract!IssuedCode
  BY DocumentsType DEF Document, Abstract!IssuedCode, OptFile
<1>2. IssuedCodes \in [1 .. Len(otps) -> Abstract!IssuedCode]
  BY <1>1, DocumentsType DEF IssuedCodes
<1> QED
  BY <1>2, DocumentsType, FunctionIsSeq DEF IssuedCodes

(* A step that shrinks the collection issues nothing and makes nothing live. *)
LEMMA ShrinksAbstract ==
  ASSUME Shrinks
  PROVE  IssuedCodes' = IssuedCodes /\ LiveCodes' \subseteq LiveCodes
BY DEF Shrinks, IssuedCodes, LiveCodes

(* An insert issues one code and makes it live.                              *)
LEMMA InsertsAbstract ==
  ASSUME TypeOK, NEW d \in Document, Inserts(d), d.stored, ~d.isUsed
  PROVE  /\ IssuedCodes' = Append(IssuedCodes,
              [userId |-> d.userId, purpose |-> d.purpose,
               fileId |-> d.fileId])
         /\ LiveCodes' = LiveCodes \cup {Len(IssuedCodes) + 1}
         /\ \A i \in LiveCodes :
              ~Abstract!SameKey(IssuedCodes[i], d.userId, d.purpose)
<1> DEFINE n == Len(otps)
           c == [userId |-> d.userId, purpose |-> d.purpose,
                 fileId |-> d.fileId]
<1>1. /\ n \in Nat /\ DOMAIN otps = 1 .. n /\ DOMAIN otps' = 1 .. n + 1
      /\ Len(IssuedCodes) = n
  BY DocumentsType, LenProperties, IssuedCodesFacts DEF Inserts
<1>2. \A i \in 1 .. n : otps'[i] = otps[i]
  BY <1>1 DEF Inserts
<1>3. otps'[n + 1] = d
  BY DEF Inserts
<1>4. IssuedCodes' = Append(IssuedCodes, c)
  <2>1. c \in Abstract!IssuedCode
    BY DEF Document, Abstract!IssuedCode, OptFile
  <2>2. /\ Append(IssuedCodes, c) \in Seq(Abstract!IssuedCode)
        /\ Len(Append(IssuedCodes, c)) = n + 1
        /\ Append(IssuedCodes, c)[n + 1] = c
        /\ \A i \in 1 .. n : Append(IssuedCodes, c)[i] = IssuedCodes[i]
    <3> HIDE DEF c
    <3> QED BY <1>1, <2>1, IssuedCodesFacts, AppendProperties
  <2>3. Append(IssuedCodes, c) \in [1 .. n + 1 -> Abstract!IssuedCode]
    <3> HIDE DEF c
    <3> QED BY <2>2, LenProperties
  <2>4. IssuedCodes' = [i \in 1 .. n + 1 |->
           [userId |-> otps'[i].userId, purpose |-> otps'[i].purpose,
            fileId |-> otps'[i].fileId]]
    BY <1>1 DEF IssuedCodes
  <2>5. \A i \in 1 .. n + 1 : IssuedCodes'[i] = Append(IssuedCodes, c)[i]
    <3> SUFFICES ASSUME NEW i \in 1 .. n + 1
                 PROVE  IssuedCodes'[i] = Append(IssuedCodes, c)[i]
      OBVIOUS
    <3>1. CASE i = n + 1
      BY <3>1, <1>3, <2>2, <2>4
    <3>2. CASE i \in 1 .. n
      BY <3>2, <1>1, <1>2, <2>2, <2>4, IssuedCodesFacts
    <3> QED BY <3>1, <3>2, <1>1
  <2> QED BY <2>3, <2>4, <2>5
<1>5. LiveCodes' = LiveCodes \cup {n + 1}
  BY <1>1, <1>2, <1>3 DEF LiveCodes, Active
<1>6. \A i \in LiveCodes :
        ~Abstract!SameKey(IssuedCodes[i], d.userId, d.purpose)
  BY IssuedCodesFacts
  DEF Inserts, LiveCodes, ActiveOf, HasKey, Abstract!SameKey
<1> QED BY <1>1, <1>4, <1>5, <1>6

(* Every step of the service is one of OneTimeCode, or a stutter.            *)
LEMMA AbstractNext ==
  ASSUME OtpInv, [Next]_vars
  PROVE  [Abstract!OtcNext]_Abstract!otcVars
<1> USE DEF OtpInv
<1>a. reqs \in [Request -> ReqState]
  BY DEF TypeOK
<1> DEFINE A == [r \in Request |-> AnswerOf(reqs[r])]
<1>u. ASSUME UNCHANGED IssuedCodes, UNCHANGED LiveCodes, A' = A
      PROVE  UNCHANGED Abstract!otcVars
  BY <1>u DEF Abstract!otcVars
<1>k. UNCHANGED otps => UNCHANGED IssuedCodes /\ UNCHANGED LiveCodes
  BY DEF IssuedCodes, LiveCodes, Active
<1>1. ASSUME NEW r \in Request, NEW u \in User, NEW p \in Purpose,
             NEW f \in OptFile, SendOtp(r, u, p, f)
      PROVE  UNCHANGED Abstract!otcVars
  <2>1. A' = A
    BY <1>1, <1>a DEF SendOtp, AnswerOf, Idle
  <2> QED BY <1>1, <1>u, <1>k, <2>1 DEF SendOtp
<1>2. ASSUME NEW r \in Request, NEW u \in User, NEW p \in Purpose,
             NEW f \in OptFile, VerifyReject(r, u, p, f)
      PROVE  Abstract!Deny(r)
  <2>1. A[r] = Abstract!Free
    BY <1>2, AnswerOfPc DEF VerifyReject
  <2>2. A' = [A EXCEPT ![r] = Abstract!Told("refused", 0)]
    BY <1>2, <1>a, AskedUpdate, AnswerOfResult DEF VerifyReject
  <2> QED BY <1>2, <1>k, <2>1, <2>2 DEF VerifyReject, Abstract!Deny
<1>3. ASSUME NEW r \in Request, NEW u \in User, NEW p \in Purpose,
             NEW f \in OptFile, NEW c \in Code, VerifyFind(r, u, p, f, c)
      PROVE  Abstract!Ask(r, u, p, f)
  <2>1. PICK i \in Findable(u, p) :
          /\ ~FileMismatch(i, f)
          /\ reqs' = [reqs EXCEPT ![r] =
               [Idle EXCEPT !.pc = "verifySave", !.userId = u,
                            !.purpose = p, !.fileId = f, !.code = c,
                            !.otp = i, !.attempts = otps[i].attempts]]
    BY <1>3 DEF VerifyFind
  <2>2. /\ i \in LiveCodes /\ Abstract!SameKey(IssuedCodes[i], u, p)
        /\ Abstract!FileMatches(IssuedCodes[i].fileId, f)
    BY <2>1, IssuedCodesFacts
    DEF Findable, ActiveOf, LiveCodes, HasKey, FileMismatch,
        Abstract!SameKey, Abstract!FileMatches
  <2>3. A[r] = Abstract!Free
    BY <1>3, AnswerOfPc DEF VerifyFind
  <2>4. A' = [A EXCEPT ![r] =
                [state |-> "asking", code |-> i,
                 about |-> [userId |-> u, purpose |-> p, fileId |-> f]]]
    BY <2>1, <1>a DEF AnswerOf, Idle
  <2> QED
    BY <1>3, <1>k, <2>2, <2>3, <2>4 DEF VerifyFind, Abstract!Ask
<1>4. ASSUME NEW r \in Request, SendInvalidate(r)
      PROVE  Abstract!Revoke(LiveCodes \ LiveCodes')
  <2>1. A' = A
    BY <1>4, <1>a DEF SendInvalidate, AnswerOf, ReqState
  <2>2. IssuedCodes' = IssuedCodes /\ LiveCodes' \subseteq LiveCodes
    BY <1>4, InvalidateShrinks, ShrinksAbstract
  <2> QED BY <2>1, <2>2 DEF Abstract!Revoke
<1>5. ASSUME NEW r \in Request, SendCreate(r)
      PROVE  \E u \in User, p \in Purpose, f \in OptFile :
               Abstract!Issue(u, p, f)
  <2>1. A' = A
    BY <1>5, <1>a DEF SendCreate, AnswerOf, ReqState
  <2>2. PICK d \in Document : Inserts(d) /\ d.stored /\ ~d.isUsed
    BY <1>5, CreateInserts
  <2>3. d.userId \in User /\ d.purpose \in Purpose /\ d.fileId \in OptFile
    BY DEF Document
  <2>4. Abstract!Issue(d.userId, d.purpose, d.fileId)
    BY <2>1, <2>2, InsertsAbstract DEF Abstract!Issue
  <2> QED BY <2>3, <2>4
<1>6. ASSUME NEW r \in Request, SendCreateDuplicate(r) \/ SendEmail(r)
      PROVE  UNCHANGED Abstract!otcVars
  <2>1. A' = A
    <3>1. PICK out \in {"sent", "sendFailed"} :
            /\ reqs[r].pc \in {"sendCreate", "sendEmail"}
            /\ reqs' = [reqs EXCEPT ![r] = Result(out, 0)]
      BY <1>6 DEF SendCreateDuplicate, SendEmail
    <3>2. A' = [A EXCEPT ![r] = Abstract!Free]
      <4>1. AnswerOf(Result(out, 0)) = Abstract!Free
        BY AnswerOfResult
      <4> QED BY <3>1, <4>1, <1>a, AskedUpdate
    <3>3. A[r] = Abstract!Free
      BY <3>1, AnswerOfPc
    <3> QED BY <3>2, <3>3
  <2> QED BY <1>6, <1>u, <1>k, <2>1 DEF SendCreateDuplicate, SendEmail
<1>7. ASSUME NEW r \in Request, VerifySave(r)
      PROVE  Abstract!Accept(r) \/ Abstract!Refuse(r)
  <2>1. PICK i \in DOMAIN otps : i = reqs[r].otp
    BY <1>7 DEF VerifySave, RequestsOK, RequestOK
  <2>2. A[r].state = "asking" /\ A[r].code = i
    BY <1>7, <2>1, AnswerOfPc DEF VerifySave
  <2>3. IssuedCodes' = IssuedCodes /\ LiveCodes' \subseteq LiveCodes
    BY <1>7, SaveShrinks, ShrinksAbstract
  <2>4. /\ DOMAIN otps' = DOMAIN otps
        /\ \A j \in DOMAIN otps : j # i => otps'[j] = otps[j]
    BY <1>7, <2>1, SaveShrinks DEF Shrinks
  <2>5. /\ otps'[i].stored = otps[i].stored
        /\ otps'[i].isUsed =
             (otps[i].isUsed \/ reqs[r].code = otps[i].codeHash)
    BY <1>7, <2>1, DocumentsType DEF VerifySave, Document
  <2>6. CASE reqs[r].code = otps[i].codeHash
    <3>1. reqs' = [reqs EXCEPT ![r] = Result("accepted", i)]
      BY <1>7, <2>1, <2>6 DEF VerifySave
    <3>2. A' = [A EXCEPT ![r] = Abstract!Told("accepted", A[r].code)]
      BY <3>1, <2>2, <1>a, AskedUpdate, AnswerOfResult
    <3>3. LiveCodes' = LiveCodes \ {A[r].code}
      BY <2>2, <2>4, <2>5, <2>6 DEF LiveCodes, Active
    <3> QED BY <2>2, <2>3, <3>2, <3>3 DEF Abstract!Accept
  <2>7. CASE reqs[r].code # otps[i].codeHash
    <3>1. reqs' = [reqs EXCEPT ![r] = Result("rejected", i)]
      BY <1>7, <2>1, <2>7 DEF VerifySave
    <3>2. A' = [A EXCEPT ![r] = Abstract!Told("refused", A[r].code)]
      BY <3>1, <2>2, <1>a, AskedUpdate, AnswerOfResult
    <3>3. otps'[i].isUsed = otps[i].isUsed
      BY <2>5, <2>7, DocumentsType DEF Document
    <3>4. LiveCodes' = LiveCodes
      BY <2>4, <2>5, <3>3 DEF LiveCodes, Active
    <3> QED BY <2>2, <2>3, <3>2, <3>4 DEF Abstract!Refuse
  <2> QED BY <2>6, <2>7
<1>8. ASSUME NEW r \in Request, VerifySaveMissing(r) PROVE Abstract!Refuse(r)
  <2>1. A[r].state = "asking" /\ A[r].code = reqs[r].otp
    BY <1>8, AnswerOfPc DEF VerifySaveMissing
  <2>2. A' = [A EXCEPT ![r] = Abstract!Told("refused", A[r].code)]
    BY <1>8, <2>1, <1>a, AskedUpdate, AnswerOfResult DEF VerifySaveMissing
  <2> QED
    BY <1>8, <1>k, <2>1, <2>2 DEF VerifySaveMissing, Abstract!Refuse
<1>9. ASSUME NEW r \in Request, Respond(r)
      PROVE  Abstract!Release(r) \/ UNCHANGED Abstract!otcVars
  <2>1. A' = [A EXCEPT ![r] = Abstract!Free]
    BY <1>9, <1>a, AnswerOfResult DEF Respond
  <2>2. CASE reqs[r].pc \in {"accepted", "rejected"}
    <3>1. A[r].state \in {"accepted", "refused"}
      BY <2>2, <1>a DEF AnswerOf
    <3> QED BY <1>9, <1>k, <2>1, <3>1 DEF Respond, Abstract!Release
  <2>3. CASE reqs[r].pc \in {"sent", "sendFailed"}
    <3>1. A[r] = Abstract!Free
      BY <2>3, AnswerOfPc
    <3>2. A' = A
      BY <2>1, <3>1
    <3> QED BY <1>9, <1>u, <1>k, <3>2 DEF Respond
  <2> QED BY <1>9, <2>2, <2>3 DEF Respond
<1>10. CASE Restart
  <2>1. A' = [r \in Request |-> Abstract!Free]
    BY <1>10, AnswerOfResult DEF Restart
  <2>2. Abstract!Forget
    BY <1>10, <1>k, <2>1 DEF Restart, Abstract!Forget
  <2> QED BY <2>2 DEF Abstract!OtcNext
<1>11. ASSUME NEW i \in DOMAIN otps, TtlDelete(i)
       PROVE  Abstract!Revoke(LiveCodes \ LiveCodes')
  <2>1. A' = A
    BY <1>11 DEF TtlDelete
  <2>2. IssuedCodes' = IssuedCodes /\ LiveCodes' \subseteq LiveCodes
    BY <1>11, TtlShrinks, ShrinksAbstract
  <2> QED BY <2>1, <2>2 DEF Abstract!Revoke
<1>12. CASE UNCHANGED <<otps, reqs>>
  BY <1>12, <1>u, <1>k
<1>r. \A S : Abstract!Revoke(S) => Abstract!OtcNext
  BY DEF Abstract!Revoke, Abstract!OtcNext
<1> HIDE DEF A
<1> QED
  BY <1>1, <1>2, <1>3, <1>4, <1>5, <1>6, <1>7, <1>8, <1>9, <1>10, <1>11,
     <1>12, <1>r
  DEF Next, SendStep, VerifyStep, Tick, vars, Abstract!OtcNext, OptFile

(* The OTP service, with its awaits, races, retries, expiry and restarts,    *)
(* keeps the promise of OneTimeCode.                                         *)
THEOREM Refinement == Spec => ImplementsOneTimeCode
<1>1. OtpInv /\ [Next]_vars => [Abstract!OtcNext]_Abstract!otcVars
  BY AbstractNext
<1> QED
  BY <1>1, AbstractInit, OtpInvariant, PTL
  DEF Spec, ImplementsOneTimeCode, Abstract!OtcSpec
=============================================================================
