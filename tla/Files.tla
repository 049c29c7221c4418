------------------------------- MODULE Files -------------------------------
(* Uploaded files (src/files/files.service.ts): the metadata in MongoDB, the *)
(* objects in R2 (src/r2/r2.service.ts), the trash, and the nightly job that *)
(* empties it (src/files/files.cron.service.ts).  A request is a sequence of *)
(* awaited calls to MongoDB, R2 and the OTP service; other requests and the  *)
(* nightly job run in between, calls fail, and the server may restart.       *)
(*                                                                           *)
(* The OTP of a deletion is what OneTimeCode promises.  A request refused    *)
(* before it wrote anything is not a step.  Roles do not change here.  The   *)
(* lists, download, rename and bulkMove write nothing that is modelled here. *)
EXTENDS Naturals, Sequences

CONSTANTS
  Request, User,
  Admin,        \* the users whose role is ADMIN or SUPERADMIN
  File,         \* ids of the files collection
  Key,          \* R2 object keys
  Null,
  Healthy,      \* files whose deletions succeed again and again
  Retention,    \* retentionDays
  MaxTime,      \* bound: the last day
  MaxCodes,     \* bound: OTPs issued
  MaxRestarts   \* bound: restarts of the server

ASSUME FilesAssumption ==
  /\ Admin \subseteq User
  /\ Healthy \subseteq File
  /\ Null \notin User \cup File \cup Key
  /\ Retention \in Nat /\ MaxTime \in Nat
  /\ MaxCodes \in Nat /\ MaxRestarts \in Nat

VARIABLES
  now,      \* the day
  files,    \* the files collection
  urls,     \* the presigned upload URL of each key, or its multipart upload
  objects,  \* the R2 bucket
  reqs,     \* the requests being served
  cron,     \* the nightly job
  restarts, \* how often the server has restarted
  codes, live, asked   \* the OTP service, see OneTimeCode

otp == <<codes, live, asked>>
vars == <<now, files, urls, objects, reqs, cron, restarts, otp>>

DeleteFile == "deleteFile"

Otc == INSTANCE OneTimeCode WITH Purpose <- {DeleteFile}

----------------------------------------------------------------------------

(* A document of the collection, not yet inserted, stored or removed.        *)
Document == [status : {"none", "stored", "removed"}, key : Key \cup {Null},
             uploadedBy : User \cup {Null}, isDeleted : BOOLEAN,
             deletedAt : (0 .. MaxTime) \cup {Null},
             deletedBy : User \cup {Null}, sharedWith : SUBSET User]

NoFile == [status |-> "none", key |-> Null, uploadedBy |-> Null,
           isDeleted |-> FALSE, deletedAt |-> Null, deletedBy |-> Null,
           sharedWith |-> {}]

(* What a bucket holds under a key, and (history) what was deleted from it:  *)
(* an object, or nothing when none had been uploaded ("void").  "rewritten": *)
(* uploaded after a deletion, through an upload URL that was still valid.    *)
Object == {"absent", "present", "deleted", "void", "rewritten"}

(* A request: the route's file, or the fileIds of a bulk route.              *)
ReqState == [pc : {"idle", "sendOtp", "verifyOtp", "otpAnswer", "refused",
                   "trash", "restore", "deleteObject", "deleteRecord",
                   "share", "unshare"},
             user : User \cup {Null}, file : File \cup {Null},
             fileIds : SUBSET File, userIds : SUBSET User]

Idle == [pc |-> "idle", user |-> Null, file |-> Null, fileIds |-> {},
         userIds |-> {}]

(* The nightly job: the file it is at, and the expiredFiles after it, as of  *)
(* day at.                                                                   *)
CronState == [pc : {"idle", "object", "record"}, at : Nat,
              expiredFiles : SUBSET File, file : File \cup {Null}]

CronIdle == [pc |-> "idle", at |-> 0, expiredFiles |-> {}, file |-> Null]

TypeOK ==
  /\ now \in 0 .. MaxTime
  /\ files \in [File -> Document]
  /\ urls \in [Key -> {"unsigned", "valid", "expired", "multipart"}]
  /\ objects \in [Key -> Object]
  /\ reqs \in [Request -> ReqState]
  /\ cron \in CronState
  /\ restarts \in 0 .. MaxRestarts
  /\ Otc!OtcTypeOK

Init ==
  /\ now = 0
  /\ files = [f \in File |-> NoFile]
  /\ urls = [k \in Key |-> "unsigned"]
  /\ objects = [k \in Key |-> "absent"]
  /\ reqs = [r \in Request |-> Idle]
  /\ cron = CronIdle
  /\ restarts = 0
  /\ Otc!OtcInit

----------------------------------------------------------------------------
(* Documents *)

Stored(f) == files[f].status = "stored"
InTrash(f) == Stored(f) /\ files[f].isDeleted
Live(f) == Stored(f) /\ ~files[f].isDeleted

(* Mutant: the stamp says when the file is due, not when it was deleted.     *)
MutTrashedDue(doc, u) ==
  [doc EXCEPT !.isDeleted = TRUE, !.deletedAt = now + Retention,
              !.deletedBy = u]

Trashed(doc, u) ==
  [doc EXCEPT !.isDeleted = TRUE, !.deletedAt = now, !.deletedBy = u]

Restored(doc) ==
  [doc EXCEPT !.isDeleted = FALSE, !.deletedAt = Null, !.deletedBy = Null]

Removed(doc) == [NoFile EXCEPT !.status = "removed", !.key = doc.key]

(* An update by id: nothing happens to a document that is not there.         *)
Update(F, doc) ==
  files' = [f \in File |-> IF f \in F /\ Stored(f) THEN doc[f] ELSE files[f]]

(* verifyOwnerOrAdmin *)
OwnerOrAdmin(u, f) == u = files[f].uploadedBy \/ u \in Admin

(* findOneAndVerifyAccess *)
Accessible(u, f) ==
  Live(f) /\ (OwnerOrAdmin(u, f) \/ u \in files[f].sharedWith)

OwnedBy(u, F) == {f \in F : files[f].uploadedBy = u}

At(r, pc) == reqs[r].pc = pc
Goto(r, pc) == reqs' = [reqs EXCEPT ![r].pc = pc]
Start(r, q) == reqs' = [reqs EXCEPT ![r] = q]
Finish(r) == reqs' = [reqs EXCEPT ![r] = Idle]

----------------------------------------------------------------------------
(* Upload *)

(* generatePresignedUrl: a key of its own for every upload.                  *)
Presign(k) ==
  /\ urls[k] = "unsigned"
  /\ urls' = [urls EXCEPT ![k] = "valid"]
  /\ UNCHANGED <<now, files, objects, reqs, cron, restarts, otp>>

(* initiateMultipartUpload: an upload in parts is open under a key of its    *)
(* own.  No URL is ever signed for a part, so a client has none to complete  *)
(* it with (R2 refuses a part it has not got), and nobody aborts it.         *)
Initiate(k) ==
  /\ urls[k] = "unsigned"
  /\ urls' = [urls EXCEPT ![k] = "multipart"]
  /\ UNCHANGED <<now, files, objects, reqs, cron, restarts, otp>>

(* The client uploads, and may do so again, until the URL expires.           *)
Put(k) ==
  /\ urls[k] = "valid"
  /\ objects' = [objects EXCEPT ![k] =
       IF @ \in {"absent", "present"} THEN "present" ELSE "rewritten"]
  /\ UNCHANGED <<now, files, urls, reqs, cron, restarts, otp>>

UrlExpires(k) ==
  /\ urls[k] = "valid"
  /\ urls' = [urls EXCEPT ![k] = "expired"]
  /\ UNCHANGED <<now, files, objects, reqs, cron, restarts, otp>>

(* saveMetadata believes the client's key; the unique index on key refuses   *)
(* one that a stored document has.                                           *)
SaveMetadata(u, f, k) ==
  /\ files[f].status = "none"
  /\ \A g \in File : Stored(g) => files[g].key # k
  /\ files' = [files EXCEPT ![f] =
       [NoFile EXCEPT !.status = "stored", !.key = k, !.uploadedBy = u]]
  /\ UNCHANGED <<now, urls, objects, reqs, cron, restarts, otp>>

----------------------------------------------------------------------------
(* Share, unshare: read and check, then update.                              *)

Share(r, u, f, userIds) ==
  /\ Accessible(u, f)
  /\ Start(r, [Idle EXCEPT !.pc = "share", !.user = u, !.file = f,
                           !.userIds = userIds])
  /\ UNCHANGED <<now, files, urls, objects, cron, restarts, otp>>

ShareSave(r) ==
  LET with == [f \in File |->
                 [files[f] EXCEPT !.sharedWith = @ \cup reqs[r].userIds]]
  IN /\ At(r, "share")
     /\ Update({reqs[r].file}, with)
     /\ Finish(r)
     /\ UNCHANGED <<now, urls, objects, cron, restarts, otp>>

Unshare(r, u, f) ==
  /\ Accessible(u, f)
  /\ Start(r, [Idle EXCEPT !.pc = "unshare", !.user = u, !.file = f])
  /\ UNCHANGED <<now, files, urls, objects, cron, restarts, otp>>

UnshareSave(r) ==
  LET without == [f \in File |-> [files[f] EXCEPT !.sharedWith = {}]]
  IN /\ At(r, "unshare")
     /\ Update({reqs[r].file}, without)
     /\ Finish(r)
     /\ UNCHANGED <<now, urls, objects, cron, restarts, otp>>

----------------------------------------------------------------------------
(* OTP-gated deletion *)

LiveOf(u) == {i \in live : Otc!SameKey(codes[i], u, DeleteFile)}

(* The request-otp handler: sendOtp's updateMany, then its create, which     *)
(* fails if another request's code is in the way.                            *)
RequestOtp(r, u, f) ==
  /\ Start(r, [Idle EXCEPT !.pc = "sendOtp", !.user = u, !.file = f])
  /\ Otc!Revoke(LiveOf(u))
  /\ UNCHANGED <<now, files, urls, objects, cron, restarts>>

SendOtpCreate(r) ==
  /\ At(r, "sendOtp")
  /\ IF LiveOf(reqs[r].user) = {}
     THEN /\ Len(codes) < MaxCodes
          /\ Otc!Issue(reqs[r].user, DeleteFile, reqs[r].file)
     ELSE UNCHANGED otp
  /\ Finish(r)
  /\ UNCHANGED <<now, files, urls, objects, cron, restarts>>

(* softDelete reads the file before it asks about the code, bulkDelete does  *)
(* not.                                                                      *)
SoftDelete(r, u, f) ==
  /\ Accessible(u, f)
  /\ Start(r, [Idle EXCEPT !.pc = "verifyOtp", !.user = u, !.file = f])
  /\ UNCHANGED <<now, files, urls, objects, cron, restarts, otp>>

BulkDelete(r, u, fileIds) ==
  /\ fileIds # {}
  /\ Start(r, [Idle EXCEPT !.pc = "verifyOtp", !.user = u,
                           !.fileIds = fileIds])
  /\ UNCHANGED <<now, files, urls, objects, cron, restarts, otp>>

(* verifyOtp, for the file of softDelete and for no file in bulkDelete.      *)
AskOtp(r) ==
  /\ At(r, "verifyOtp")
  /\ \/ /\ Otc!Ask(r, reqs[r].user, DeleteFile, reqs[r].file)
        /\ Goto(r, "otpAnswer")
     \/ Finish(r) /\ UNCHANGED otp
  /\ UNCHANGED <<now, files, urls, objects, cron, restarts>>

(* Mutant: verifyOtp is called without await, so its exception is lost.      *)
MutOtpAnswerNotAwaited(r) ==
  /\ At(r, "otpAnswer")
  /\ Otc!Accept(r) \/ Otc!Refuse(r)
  /\ Goto(r, "trash")
  /\ UNCHANGED <<now, files, urls, objects, cron, restarts>>

OtpAnswer(r) ==
  /\ At(r, "otpAnswer")
  /\ \/ Otc!Accept(r) /\ Goto(r, "trash")
     \/ Otc!Refuse(r) /\ Goto(r, "refused")
  /\ UNCHANGED <<now, files, urls, objects, cron, restarts>>

(* A refusal throws and ends the request.                                    *)
OtpRefused(r) ==
  /\ At(r, "refused")
  /\ Otc!Release(r)
  /\ Finish(r)
  /\ UNCHANGED <<now, files, urls, objects, cron, restarts>>

(* softDelete updates the file it has read, bulkDelete those of the user;    *)
(* neither looks again whether the file is in the trash already.             *)
Trash(r) ==
  LET u == reqs[r].user
      stamped == [f \in File |-> Trashed(files[f], u)]
  IN /\ At(r, "trash")
     /\ Update(IF reqs[r].file = Null THEN OwnedBy(u, reqs[r].fileIds)
                                      ELSE {reqs[r].file}, stamped)
     /\ Otc!Release(r)
     /\ Finish(r)
     /\ UNCHANGED <<now, urls, objects, cron, restarts>>

----------------------------------------------------------------------------
(* Restore *)

Restore(r, u, f) ==
  /\ InTrash(f)
  /\ OwnerOrAdmin(u, f)
  /\ Start(r, [Idle EXCEPT !.pc = "restore", !.user = u, !.file = f])
  /\ UNCHANGED <<now, files, urls, objects, cron, restarts, otp>>

(* Mutant: the update inserts a document that is not there (upsert: true).   *)
MutRestoreSaveUpserts(r) ==
  /\ At(r, "restore")
  /\ files' = [files EXCEPT ![reqs[r].file] =
                 [Restored(@) EXCEPT !.status = "stored"]]
  /\ Finish(r)
  /\ UNCHANGED <<now, urls, objects, cron, restarts, otp>>

RestoreSave(r) ==
  LET unstamped == [f \in File |-> Restored(files[f])]
  IN /\ At(r, "restore")
     /\ Update({reqs[r].file}, unstamped)
     /\ Finish(r)
     /\ UNCHANGED <<now, urls, objects, cron, restarts, otp>>

BulkRestore(u, fileIds) ==
  LET unstamped == [f \in File |-> Restored(files[f])]
  IN /\ Update(OwnedBy(u, fileIds), unstamped)
     /\ UNCHANGED <<now, urls, objects, reqs, cron, restarts, otp>>

----------------------------------------------------------------------------
(* Permanent deletion: of a file in the trash or not, the object first.      *)

(* deleteObject succeeds whether there is an object or not.                  *)
Delete(k) ==
  objects' = [objects EXCEPT ![k] =
    IF @ \in {"absent", "void"} THEN "void" ELSE "deleted"]

Remove(f) == files' = [files EXCEPT ![f] = IF Stored(f) THEN Removed(@) ELSE @]

(* Mutant: any user with access may delete permanently.                      *)
MutPermanentDeleteShared(r, u, f) ==
  /\ Stored(f)
  /\ OwnerOrAdmin(u, f) \/ u \in files[f].sharedWith
  /\ Start(r, [Idle EXCEPT !.pc = "deleteObject", !.user = u, !.file = f])
  /\ UNCHANGED <<now, files, urls, objects, cron, restarts, otp>>

PermanentDelete(r, u, f) ==
  /\ Stored(f)
  /\ OwnerOrAdmin(u, f)
  /\ Start(r, [Idle EXCEPT !.pc = "deleteObject", !.user = u, !.file = f])
  /\ UNCHANGED <<now, files, urls, objects, cron, restarts, otp>>

(* Mutant: the object is not waited for.                                     *)
MutDeleteObjectSkipped(r) ==
  /\ At(r, "deleteObject")
  /\ Goto(r, "deleteRecord")
  /\ UNCHANGED <<now, files, urls, objects, cron, restarts, otp>>

DeleteObject(r) ==
  /\ At(r, "deleteObject")
  /\ Delete(files[reqs[r].file].key)
  /\ Goto(r, "deleteRecord")
  /\ UNCHANGED <<now, files, urls, cron, restarts, otp>>

DeleteRecord(r) ==
  /\ At(r, "deleteRecord")
  /\ Remove(reqs[r].file)
  /\ Finish(r)
  /\ UNCHANGED <<now, urls, objects, cron, restarts, otp>>

(* R2 or MongoDB fails: what has been done stays done.                       *)
DeleteFails(r) ==
  /\ At(r, "deleteObject") \/ At(r, "deleteRecord")
  /\ Finish(r)
  /\ UNCHANGED <<now, files, urls, objects, cron, restarts, otp>>

----------------------------------------------------------------------------
(* The nightly job *)

Expired(f) == InTrash(f) /\ files[f].deletedAt + Retention <= now

(* On to the next expired file, in whatever order find() returned them, or   *)
(* done.                                                                     *)
CronNext(c, F) ==
  \/ F = {} /\ cron' = CronIdle
  \/ \E f \in F : cron' = [c EXCEPT !.pc = "object", !.file = f,
                                     !.expiredFiles = F \ {f}]

(* Mutant: the cutoff is one day too late.                                   *)
MutCronFindEarly ==
  LET F == {f \in File :
              InTrash(f) /\ files[f].deletedAt + Retention <= now + 1}
  IN /\ cron = CronIdle
     /\ F # {}
     /\ CronNext([CronIdle EXCEPT !.at = now], F)
     /\ UNCHANGED <<now, files, urls, objects, reqs, restarts, otp>>

CronFind ==
  LET F == {f \in File : Expired(f)}
  IN /\ cron = CronIdle
     /\ F # {}
     /\ CronNext([CronIdle EXCEPT !.at = now], F)
     /\ UNCHANGED <<now, files, urls, objects, reqs, restarts, otp>>

(* Mutant: the object is not waited for.                                     *)
MutCronObjectSkipped(f) ==
  /\ cron.pc = "object" /\ cron.file = f
  /\ cron' = [cron EXCEPT !.pc = "record"]
  /\ UNCHANGED <<now, files, urls, objects, reqs, restarts, otp>>

CronObject(f) ==
  /\ cron.pc = "object" /\ cron.file = f
  /\ Delete(files[f].key)
  /\ cron' = [cron EXCEPT !.pc = "record"]
  /\ UNCHANGED <<now, files, urls, reqs, restarts, otp>>

CronRecord(f) ==
  /\ cron.pc = "record" /\ cron.file = f
  /\ Remove(f)
  /\ CronNext(cron, cron.expiredFiles)
  /\ UNCHANGED <<now, urls, objects, reqs, restarts, otp>>

(* Mutant: the catch is outside the loop.                                    *)
MutCronFailsStops(f) ==
  /\ cron.file = f
  /\ cron' = CronIdle
  /\ UNCHANGED <<now, files, urls, objects, reqs, restarts, otp>>

(* R2 or MongoDB fails: the exception is caught, the file left as it is.     *)
CronFails(f) ==
  /\ cron.file = f
  /\ CronNext(cron, cron.expiredFiles)
  /\ UNCHANGED <<now, files, urls, objects, reqs, restarts, otp>>

----------------------------------------------------------------------------

OtpExpires(i) ==
  /\ Otc!Revoke({i})
  /\ UNCHANGED <<now, files, urls, objects, reqs, cron, restarts>>

Tick ==
  /\ now < MaxTime
  /\ now' = now + 1
  /\ UNCHANGED <<files, urls, objects, reqs, cron, restarts, otp>>

(* Requests in flight and the nightly job stop where they are.               *)
Restart ==
  /\ restarts < MaxRestarts
  /\ restarts' = restarts + 1
  /\ reqs' = [r \in Request |-> Idle]
  /\ cron' = CronIdle
  /\ Otc!Forget
  /\ UNCHANGED <<now, files, urls, objects>>

Arrive(r) ==
  /\ reqs[r] = Idle
  /\ \E u \in User :
       \/ \E f \in File \cup {Null} : RequestOtp(r, u, f)
       \/ \E f \in File :
            \/ SoftDelete(r, u, f)
            \/ Restore(r, u, f)
            \/ PermanentDelete(r, u, f)
            \/ Unshare(r, u, f)
            \/ \E userIds \in SUBSET User : Share(r, u, f, userIds)
       \/ \E fileIds \in SUBSET File : BulkDelete(r, u, fileIds)

Step(r) ==
  \/ SendOtpCreate(r) \/ AskOtp(r) \/ OtpAnswer(r) \/ OtpRefused(r)
  \/ Trash(r)
  \/ RestoreSave(r)
  \/ DeleteObject(r) \/ DeleteRecord(r) \/ DeleteFails(r)
  \/ ShareSave(r) \/ UnshareSave(r)

CronStep(f) == CronObject(f) \/ CronRecord(f) \/ CronFails(f)

Next ==
  \/ \E k \in Key :
       \/ Presign(k) \/ Initiate(k) \/ Put(k) \/ UrlExpires(k)
       \/ \E u \in User, f \in File : SaveMetadata(u, f, k)
  \/ \E r \in Request : Arrive(r) \/ Step(r)
  \/ \E u \in User, fileIds \in SUBSET File : BulkRestore(u, fileIds)
  \/ CronFind
  \/ \E f \in File : CronStep(f)
  \/ \E i \in live : OtpExpires(i)
  \/ Tick
  \/ Restart

Spec == Init /\ [][Next]_vars

(* Days pass, the job runs every night and its calls return.  The calls for  *)
(* a healthy file succeed if they are made again and again; those for        *)
(* another file may always fail.                                             *)
Fairness ==
  /\ WF_vars(Tick)
  /\ WF_vars(CronFind)
  /\ WF_vars(\E f \in File : CronStep(f))
  /\ \A f \in Healthy : SF_vars(CronObject(f)) /\ SF_vars(CronRecord(f))

FairSpec == Spec /\ Fairness

----------------------------------------------------------------------------
(* Properties *)

(* A document is removed only after R2 has confirmed the deletion of its     *)
(* object, whichever calls fail and whoever else deletes, restores or        *)
(* uploads meanwhile: what R2 still holds for it was uploaded later.         *)
ObjectGoesBeforeRecord ==
  \A f \in File :
    files[f].status = "removed" =>
      objects[files[f].key] \in {"deleted", "void", "rewritten"}

(* softDelete, restore, share and unshare update by id after an await: none  *)
(* of them brings back a document that was removed in between.               *)
RemovedIsFinal ==
  [][\A f \in File :
       files[f].status = "removed" => files'[f].status = "removed"]_vars

(* The write that puts a file in the trash belongs to a request whose own    *)
(* verification has accepted a delete code of its user, whom the file is     *)
(* stamped with.  softDelete was asked for this file and the code is bound   *)
(* to it or to none (files.service.ts:132); bulkDelete named the file among  *)
(* others and its user uploaded it, though the code may be bound to any file *)
(* of the user's (files.service.ts:255).  Nothing here says the user of a    *)
(* softDelete owns the file: one it is shared with may trash it too          *)
(* (files.service.ts:318).                                                   *)
TrashNeedsAcceptedCode ==
  [][\A f \in File :
       (Live(f) /\ InTrash(f)') =>
         \E r \in Request :
           LET code == codes[asked[r].code]
           IN /\ Trash(r)
              /\ asked[r].state = "accepted"
              /\ code.userId = reqs[r].user
              /\ files'[f].deletedBy = reqs[r].user
              /\ \/ reqs[r].file = f /\ code.fileId \in {f, Null}
                 \/ /\ reqs[r].file = Null /\ f \in reqs[r].fileIds
                    /\ files[f].uploadedBy = reqs[r].user]_vars

(* The request that takes a file out of the trash, destroys its object or    *)
(* removes its document belongs to its owner or to an admin, not to a user   *)
(* it was shared with, though the check is one or two calls earlier.         *)
OnlyOwnerOrAdminDisposes ==
  [][\A r \in Request, f \in File :
       (/\ RestoreSave(r) \/ DeleteObject(r) \/ DeleteRecord(r)
        /\ reqs[r].file = f /\ Stored(f)) =>
         OwnerOrAdmin(reqs[r].user, f)]_vars

(* The nightly job never destroys a file that was put in the trash less than *)
(* the retention time before it started: one that is in the trash when its   *)
(* object goes was put there early enough, or again after the job had read   *)
(* the list.                                                                 *)
RetentionRespected ==
  [][\A f \in File :
       (CronObject(f) /\ InTrash(f)) =>
         \/ files[f].deletedAt + Retention <= cron.at
         \/ files[f].deletedAt >= cron.at]_vars

(* A file left in the trash is removed, though the job is restarted half-way *)
(* and other files of the same night always fail.                            *)
ExpiredTrashIsRemoved ==
  \A f \in Healthy, t \in 0 .. MaxTime :
    LET LeftSince == InTrash(f) /\ files[f].deletedAt = t
    IN (LeftSince /\ t + Retention <= MaxTime) ~> ~LeftSince

(* files.cron.service.ts:17 "Deletes files soft-deleted for more than        *)
(* configured retention period".  Refuted: a file restored after the job has *)
(* read the list is deleted all the same.                                    *)
CronDeletesOnlyTrash ==
  [][\A f \in File : CronObject(f) => Expired(f) \/ ~Stored(f)]_vars
=============================================================================
