------------------------------ MODULE MCFiles ------------------------------
(* Instances of Files for TLC.                                               *)
EXTENDS Files, TLC

BucketSymmetry == Permutations(Request) \cup Permutations(Key)

(* The runs of the nightly job start where uploads and deletions have led:   *)
(* every file uploaded by one user and in the trash since day 0.  (No        *)
(* symmetry in these runs.)                                                  *)
FileKey == CHOOSE k \in [File -> Key] :
             \A f, g \in File : k[f] = k[g] => f = g

Owner == CHOOSE u \in User : TRUE

InitInTrash ==
  /\ now = 0
  /\ files = [f \in File |->
       [status |-> "stored", key |-> FileKey[f], uploadedBy |-> Owner,
        isDeleted |-> TRUE, deletedAt |-> 0, deletedBy |-> Owner,
        sharedWith |-> {}]]
  /\ urls = [k \in Key |-> "expired"]
  /\ objects = [k \in Key |-> "present"]
  /\ reqs = [r \in Request |-> Idle]
  /\ cron = CronIdle
  /\ restarts = 0
  /\ Otc!OtcInit

CronSpec == InitInTrash /\ [][Next]_vars /\ Fairness
=============================================================================
