----------------------------- MODULE MCSessions -----------------------------
(* Instances of Sessions for TLC.  Two requests at a time are enough for     *)
(* every race of a stale read with one other write; what they do one after   *)
(* the other is bounded by MaxSessions and MaxVersion.                       *)
EXTENDS Sessions, TLC

RequestSymmetry == Permutations(Request)

(* Each user starts with an address of its own.                              *)
CONSTANTS u1, u2, e1, e2
OneUser == u1 :> e1
TwoUsers == u1 :> e1 @@ u2 :> e2

(* Two users are interchangeable together with their first addresses.        *)
Exchange(a, b) == a :> b @@ b :> a
UserSymmetry ==
  RequestSymmetry
    \cup {p @@ Exchange(u1, u2) @@ Exchange(e1, e2) : p \in RequestSymmetry}

(* A view without dead history: what a token was stored under is looked at   *)
(* only while it is stored.                                                  *)
Holds(u, s) == users[u].refreshToken # Null /\ users[u].refreshToken.token = s
Future ==
  <<users,
    [s \in DOMAIN sessions |->
       IF \E u \in User : Holds(u, s) THEN sessions[s]
                                      ELSE [sessions[s] EXCEPT !.under = Null]],
    reqs, otp>>
=============================================================================
