------------------------------- MODULE MCOtp -------------------------------
(* Instances of Otp for TLC.  Requests are interchangeable, and so are codes *)
(* and files: no definition of Otp picks one of them by CHOOSE or by order.   *)
EXTENDS Otp, TLC

OtpSymmetry ==
  Permutations(Request) \cup Permutations(Code) \cup Permutations(File)
=============================================================================
