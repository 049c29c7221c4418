---------------------------- MODULE OneTimeCode ----------------------------
(* What the OTP service promises its callers, with no storage, attempt       *)
(* counting, clock or e-mail in it.  A code is issued to one user for one    *)
(* purpose, possibly bound to one file.  At most one code per user and       *)
(* purpose is live.  A verification first asks for the live code, later it   *)
(* is accepted or refused; an accepted code is never live again.             *)
(*                                                                           *)
(* Two verifications that both asked while the code was live may both be     *)
(* accepted: the code reads the OTP and writes it back in two steps          *)
(* (otp.service.ts:100 and :129), so this is all it can promise.             *)
EXTENDS Naturals, Sequences

CONSTANTS
  Request,   \* requests that call the OTP service
  User, Purpose, File,
  Null       \* an OTP not bound to a file (fileId: null)

VARIABLES
  codes,     \* every code issued so far, oldest first
  live,      \* indices of the codes that can still be asked for
  asked      \* what each request has asked and been told

otcVars == <<codes, live, asked>>

IssuedCode == [userId : User, purpose : Purpose, fileId : File \cup {Null}]

(* What a request has been told; while it waits, also what it asked for.     *)
Answer == [state : {"free", "asking", "accepted", "refused"}, code : Nat,
           about : IssuedCode \cup {Null}]
Told(out, i) == [state |-> out, code |-> i, about |-> Null]
Free == Told("free", 0)

OtcTypeOK ==
  /\ codes \in Seq(IssuedCode)
  /\ live \subseteq DOMAIN codes
  /\ asked \in [Request -> Answer]

OtcInit ==
  /\ codes = <<>>
  /\ live = {}
  /\ asked = [r \in Request |-> Free]

SameKey(c, u, p) == c.userId = u /\ c.purpose = p

(* Mutant: the file a code is bound to is not looked at.                     *)
MutFileMatchesAny(bound, f) == TRUE

(* A request that names a file accepts a code bound to that file or to none. *)
FileMatches(bound, f) == f = Null \/ bound = Null \/ bound = f

(* Codes stop being live: superseded by a new request, or expired.           *)
Revoke(S) ==
  /\ S \subseteq live
  /\ live' = live \ S
  /\ UNCHANGED <<codes, asked>>

Issue(u, p, f) ==
  /\ \A i \in live : ~SameKey(codes[i], u, p)
  /\ codes' = Append(codes, [userId |-> u, purpose |-> p, fileId |-> f])
  /\ live' = live \cup {Len(codes) + 1}
  /\ UNCHANGED asked

Ask(r, u, p, f) ==
  /\ asked[r] = Free
  /\ \E i \in live :
       /\ SameKey(codes[i], u, p)
       /\ FileMatches(codes[i].fileId, f)
       /\ asked' = [asked EXCEPT ![r] =
            [state |-> "asking", code |-> i,
             about |-> [userId |-> u, purpose |-> p, fileId |-> f]]]
  /\ UNCHANGED <<codes, live>>

(* No live code, a code locked by failed attempts, or one for another file.  *)
Deny(r) ==
  /\ asked[r] = Free
  /\ asked' = [asked EXCEPT ![r] = Told("refused", 0)]
  /\ UNCHANGED <<codes, live>>

Accept(r) ==
  /\ asked[r].state = "asking"
  /\ asked' = [asked EXCEPT ![r] = Told("accepted", @.code)]
  /\ live' = live \ {asked[r].code}
  /\ UNCHANGED codes

Refuse(r) ==
  /\ asked[r].state = "asking"
  /\ asked' = [asked EXCEPT ![r] = Told("refused", @.code)]
  /\ UNCHANGED <<codes, live>>

(* The caller has taken the answer.                                          *)
Release(r) ==
  /\ asked[r].state \in {"accepted", "refused"}
  /\ asked' = [asked EXCEPT ![r] = Free]
  /\ UNCHANGED <<codes, live>>

(* The server restarts: every question in progress is forgotten.             *)
Forget ==
  /\ asked' = [r \in Request |-> Free]
  /\ UNCHANGED <<codes, live>>

OtcNext ==
  \/ \E S \in SUBSET live : Revoke(S)
  \/ \E u \in User, p \in Purpose, f \in File \cup {Null} : Issue(u, p, f)
  \/ \E r \in Request, u \in User, p \in Purpose, f \in File \cup {Null} :
       Ask(r, u, p, f)
  \/ \E r \in Request : Deny(r) \/ Accept(r) \/ Refuse(r) \/ Release(r)
  \/ Forget

OtcSpec == OtcInit /\ [][OtcNext]_otcVars
=============================================================================
