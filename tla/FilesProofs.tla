---------------------------- MODULE FilesProofs ----------------------------
(* Theorems about Files, for any number of requests, users, files and keys.  *)
(*                                                                           *)
(* The properties relate a write to what was true when its request or the    *)
(* nightly job looked, one to three calls earlier.  RequestOK and CronOK say *)
(* what is true in between: an object that R2 has confirmed to be gone stays *)
(* gone but for a later upload, the owner of a file does not change, and a   *)
(* code that has been asked for or accepted stays what it was.               *)
EXTENDS Files, TLAPS

(* R2 has confirmed the deletion of the object of f.                         *)
Gone(f) == objects[files[f].key] \in {"deleted", "void", "rewritten"}

(* Ids and keys that were used once stay used.                               *)
Known(f) == f \in File /\ files[f].status # "none"

DocOK(f) ==
  /\ Known(f) => files[f].key \in Key
  /\ files[f].status = "none" => ~files[f].isDeleted
  /\ files[f].status = "removed" => Gone(f)
  /\ files[f].isDeleted => files[f].deletedAt \in 0 .. now

(* The code a request has asked for, or that was accepted.                   *)
CodeOK(r) ==
  LET c == codes[asked[r].code]
  IN /\ asked[r].code \in DOMAIN codes
     /\ c.userId = reqs[r].user
     /\ Otc!FileMatches(c.fileId, reqs[r].file)

RequestOK(r) ==
  /\ reqs[r].pc # "idle" => reqs[r].user \in User
  /\ reqs[r].pc \in {"restore", "deleteObject", "deleteRecord", "share",
                     "unshare"} => Known(reqs[r].file)
  /\ (/\ reqs[r].pc \in {"restore", "deleteObject", "deleteRecord"}
      /\ Stored(reqs[r].file)) => OwnerOrAdmin(reqs[r].user, reqs[r].file)
  /\ reqs[r].pc = "deleteRecord" => Gone(reqs[r].file)
  /\ reqs[r].pc = "otpAnswer" => CodeOK(r)
  /\ reqs[r].pc = "trash" => asked[r].state = "accepted" /\ CodeOK(r)

(* What is on the list of the job was due when the job started, or has been  *)
(* put in the trash since.                                                   *)
Due(f) ==
  InTrash(f) => \/ files[f].deletedAt + Retention <= cron.at
                \/ files[f].deletedAt >= cron.at

CronOK ==
  /\ cron.at <= now
  /\ \A f \in cron.expiredFiles : Known(f) /\ Due(f)
  /\ cron.pc # "idle" => Known(cron.file) /\ Due(cron.file)
  /\ cron.pc = "record" => Gone(cron.file)
  /\ cron.pc = "idle" => cron = CronIdle

FilesInv ==
  /\ TypeOK
  /\ \A f \in File : DocOK(f)
  /\ \A r \in Request : RequestOK(r)
  /\ CronOK

----------------------------------------------------------------------------
(* What a step does to the files collection.                                 *)

Inserted(f) ==
  /\ files[f].status = "none"
  /\ \E u \in User, k \in Key :
       files'[f] = [NoFile EXCEPT !.status = "stored", !.key = k,
                                  !.uploadedBy = u]

(* A stored document may only be put in the trash as of today.               *)
Rewrites(f, doc) ==
  /\ doc \in Document
  /\ doc.status = "stored"
  /\ doc.key = files[f].key /\ doc.uploadedBy = files[f].uploadedBy
  /\ doc.isDeleted =>
       \/ files[f].isDeleted /\ doc.deletedAt = files[f].deletedAt
       \/ doc.deletedAt = now

Dropped(f) ==
  /\ Stored(f) /\ Gone(f)
  /\ files'[f] = Removed(files[f])
  /\ UNCHANGED objects

DocStep(f) ==
  \/ files'[f] = files[f]
  \/ Inserted(f)
  \/ Stored(f) /\ Rewrites(f, files'[f])
  \/ Dropped(f)

FilesStep ==
  /\ files' \in [File -> Document]
  /\ \A f \in File : DocStep(f)

LEMMA NoFileIsDocument == NoFile \in Document /\ ~NoFile.isDeleted
BY DEF NoFile, Document

LEMMA RemovedIsDocument ==
  ASSUME NEW doc \in Document
  PROVE  /\ Removed(doc) \in Document
         /\ Removed(doc).status = "removed" /\ Removed(doc).key = doc.key
         /\ ~Removed(doc).isDeleted
<1>1. doc.key \in Key \cup {Null}
  BY DEF Document
<1> QED
  BY <1>1, NoFileIsDocument DEF Removed, Document

LEMMA InsertedIsDocument ==
  ASSUME NEW u \in User, NEW k \in Key
  PROVE  LET doc == [NoFile EXCEPT !.status = "stored", !.key = k,
                                   !.uploadedBy = u]
         IN  /\ doc \in Document
             /\ doc.status = "stored" /\ doc.key = k /\ ~doc.isDeleted
BY NoFileIsDocument DEF Document

(* An update by id does nothing but to stored documents.                     *)
LEMMA UpdateStep ==
  ASSUME FilesInv, NEW F, NEW doc, Update(F, doc),
         \A f \in File : f \in F /\ Stored(f) => Rewrites(f, doc[f])
  PROVE  FilesStep
<1>1. files \in [File -> Document]
  BY DEF FilesInv, TypeOK
<1>2. ASSUME NEW f \in File
      PROVE  files'[f] \in Document /\ DocStep(f)
  BY <1>1, <1>2 DEF Update, DocStep, Rewrites
<1>3. files' = [f \in File |-> files'[f]]
  BY DEF Update
<1> QED
  BY <1>2, <1>3 DEF FilesStep

LEMMA ShareSaveStep ==
  ASSUME FilesInv, NEW r \in Request, ShareSave(r)
  PROVE  FilesStep
<1> DEFINE with == [f \in File |->
                      [files[f] EXCEPT !.sharedWith = @ \cup reqs[r].userIds]]
<1>1. reqs[r].userIds \subseteq User
  BY DEF FilesInv, TypeOK, ReqState
<1>2. ASSUME NEW f \in File, Stored(f) PROVE Rewrites(f, with[f])
  <2>1. files[f] \in Document /\ files[f].status = "stored"
    BY <1>2 DEF FilesInv, TypeOK, Stored
  <2>2. with[f] = [files[f] EXCEPT
                     !.sharedWith = files[f].sharedWith \cup reqs[r].userIds]
    BY <1>2
  <2> HIDE DEF with
  <2> QED
    BY <1>1, <2>1, <2>2 DEF Document, Rewrites
<1>3. Update({reqs[r].file}, with)
  BY DEF ShareSave
<1> HIDE DEF with
<1> QED
  BY <1>2, <1>3, UpdateStep

LEMMA UnshareSaveStep ==
  ASSUME FilesInv, NEW r \in Request, UnshareSave(r)
  PROVE  FilesStep
<1> DEFINE without == [f \in File |-> [files[f] EXCEPT !.sharedWith = {}]]
<1>1. ASSUME NEW f \in File, Stored(f) PROVE Rewrites(f, without[f])
  <2>1. files[f] \in Document /\ files[f].status = "stored"
    BY <1>1 DEF FilesInv, TypeOK, Stored
  <2>2. without[f] = [files[f] EXCEPT !.sharedWith = {}]
    BY <1>1
  <2> HIDE DEF without
  <2> QED
    BY <2>1, <2>2 DEF Document, Rewrites
<1>2. Update({reqs[r].file}, without)
  BY DEF UnshareSave
<1> HIDE DEF without
<1> QED
  BY <1>1, <1>2, UpdateStep

LEMMA TrashStep ==
  ASSUME FilesInv, NEW r \in Request, Trash(r)
  PROVE  FilesStep
<1> DEFINE u == reqs[r].user
           F == IF reqs[r].file = Null THEN OwnedBy(u, reqs[r].fileIds)
                                       ELSE {reqs[r].file}
           stamped == [f \in File |-> Trashed(files[f], u)]
<1>1. u \in User /\ now \in 0 .. MaxTime
  BY DEF FilesInv, TypeOK, RequestOK, Trash, At
<1>2. ASSUME NEW f \in File, Stored(f) PROVE Rewrites(f, stamped[f])
  <2>1. files[f] \in Document /\ files[f].status = "stored"
    BY <1>2 DEF FilesInv, TypeOK, Stored
  <2>2. stamped[f] = [files[f] EXCEPT !.isDeleted = TRUE, !.deletedAt = now,
                                      !.deletedBy = u]
    BY <1>2 DEF Trashed
  <2> HIDE DEF stamped
  <2> QED
    BY <1>1, <2>1, <2>2 DEF Document, Rewrites
<1>3. Update(F, stamped)
  BY DEF Trash
<1> HIDE DEF F, stamped
<1> QED
  BY <1>2, <1>3, UpdateStep

LEMMA RestoreStep ==
  ASSUME FilesInv, NEW F,
         Update(F, [f \in File |-> Restored(files[f])])
  PROVE  FilesStep
<1> DEFINE unstamped == [f \in File |-> Restored(files[f])]
<1>1. ASSUME NEW f \in File, Stored(f) PROVE Rewrites(f, unstamped[f])
  <2>1. files[f] \in Document /\ files[f].status = "stored"
    BY <1>1 DEF FilesInv, TypeOK, Stored
  <2>2. unstamped[f] = [files[f] EXCEPT !.isDeleted = FALSE,
                                        !.deletedAt = Null, !.deletedBy = Null]
    BY <1>1 DEF Restored
  <2> HIDE DEF unstamped
  <2> QED
    BY <2>1, <2>2 DEF Document, Rewrites
<1>2. Update(F, unstamped)
  OBVIOUS
<1> HIDE DEF unstamped
<1> QED
  BY <1>1, <1>2, UpdateStep

(* The object goes first.                                                    *)
LEMMA RemoveStep ==
  ASSUME FilesInv, NEW f \in File, Gone(f), Remove(f), UNCHANGED objects
  PROVE  FilesStep
<1>1. files \in [File -> Document] /\ files[f] \in Document
  BY DEF FilesInv, TypeOK
<1>2. Removed(files[f]) \in Document
  BY <1>1, RemovedIsDocument
<1>3. files' = [files EXCEPT ![f] = IF Stored(f) THEN Removed(files[f])
                                                 ELSE files[f]]
  BY DEF Remove
<1>4. files' \in [File -> Document]
  BY <1>1, <1>2, <1>3
<1>5. ASSUME NEW g \in File PROVE DocStep(g)
  BY <1>1, <1>3 DEF DocStep, Dropped
<1> QED
  BY <1>4, <1>5 DEF FilesStep

LEMMA SaveMetadataStep ==
  ASSUME FilesInv, NEW u \in User, NEW f \in File, NEW k \in Key,
         SaveMetadata(u, f, k)
  PROVE  FilesStep
<1> DEFINE doc == [NoFile EXCEPT !.status = "stored", !.key = k,
                                 !.uploadedBy = u]
<1>1. files \in [File -> Document]
  BY DEF FilesInv, TypeOK
<1>2. doc \in Document
  BY InsertedIsDocument
<1>3. files[f].status = "none" /\ files' = [files EXCEPT ![f] = doc]
  BY DEF SaveMetadata
<1>4. \A g \in File : files'[g] = IF g = f THEN doc ELSE files[g]
  BY <1>1, <1>3
<1>5. Inserted(f)
  BY <1>3, <1>4 DEF Inserted
<1> HIDE DEF doc
<1>6. files' \in [File -> Document]
  BY <1>1, <1>2, <1>3
<1>7. ASSUME NEW g \in File PROVE DocStep(g)
  BY <1>4, <1>5, <1>7 DEF DocStep
<1> QED
  BY <1>6, <1>7 DEF FilesStep

(* Only these write files; what is removed has lost its object.              *)
LEMMA ArriveFrame ==
  ASSUME NEW r \in Request, Arrive(r)
  PROVE  UNCHANGED <<files, objects, urls, cron, restarts>>
BY DEF Arrive, RequestOtp, SoftDelete, BulkDelete, Restore, PermanentDelete,
       Share, Unshare

LEMMA NextFilesStep == FilesInv /\ [Next]_vars => FilesStep
<1> SUFFICES ASSUME FilesInv, [Next]_vars PROVE FilesStep
  OBVIOUS
<1>1. CASE UNCHANGED files
  BY <1>1 DEF FilesStep, DocStep, FilesInv, TypeOK
<1>2. ASSUME NEW r \in Request, Step(r), files' # files PROVE FilesStep
  <2>1. CASE DeleteRecord(r)
    BY <2>1, RemoveStep
       DEF DeleteRecord, FilesInv, RequestOK, At, Known
  <2>2. CASE RestoreSave(r)
    BY <2>2, RestoreStep DEF RestoreSave
  <2> QED
    BY <1>2, <2>1, <2>2, ShareSaveStep, UnshareSaveStep, TrashStep
       DEF Step, SendOtpCreate, AskOtp, OtpAnswer, OtpRefused, DeleteObject,
           DeleteFails
<1>3. ASSUME NEW f \in File, CronRecord(f) PROVE FilesStep
  BY <1>3, RemoveStep DEF CronRecord, FilesInv, CronOK
<1>4. ASSUME NEW u \in User, NEW fileIds \in SUBSET File,
             BulkRestore(u, fileIds)
      PROVE  FilesStep
  BY <1>4, RestoreStep DEF BulkRestore
<1>5. ASSUME NEW r \in Request, Arrive(r) PROVE FilesStep
  BY <1>1, <1>5, ArriveFrame
<1>6. ASSUME NEW f \in File, CronStep(f) PROVE FilesStep
  BY <1>1, <1>3, <1>6 DEF CronStep, CronObject, CronFails
<1>7. ASSUME NEW k \in Key, Presign(k) \/ Initiate(k) \/ Put(k) \/ UrlExpires(k)
      PROVE  FilesStep
  BY <1>1, <1>7 DEF Presign, Initiate, Put, UrlExpires
<1>8. CASE CronFind \/ (\E i \in live : OtpExpires(i)) \/ Tick \/ Restart
  BY <1>1, <1>8 DEF CronFind, OtpExpires, Tick, Restart
<1> QED
  BY <1>1, <1>2, <1>4, <1>5, <1>6, <1>7, <1>8, SaveMetadataStep DEF Next, vars

----------------------------------------------------------------------------
(* What a step does to the bucket, the clock and the codes.                  *)

Vanished == {"deleted", "void", "rewritten"}

ObjectsStep ==
  /\ objects' \in [Key -> Object]
  /\ \A k \in Key : objects[k] \in Vanished => objects'[k] \in Vanished

LEMMA DeleteStep ==
  ASSUME FilesInv, NEW k \in Key, Delete(k)
  PROVE  ObjectsStep /\ objects'[k] \in Vanished
BY DEF FilesInv, TypeOK, Delete, ObjectsStep, Object, Vanished

LEMMA NextObjectsStep == FilesInv /\ [Next]_vars => ObjectsStep
<1> SUFFICES ASSUME FilesInv, [Next]_vars PROVE ObjectsStep
  OBVIOUS
<1>1. CASE UNCHANGED objects
  BY <1>1 DEF ObjectsStep, FilesInv, TypeOK
<1>2. ASSUME NEW k \in Key, Put(k) PROVE ObjectsStep
  BY <1>2 DEF Put, ObjectsStep, Object, Vanished, FilesInv, TypeOK
<1>3. ASSUME NEW r \in Request, DeleteObject(r) PROVE ObjectsStep
  <2>1. files[reqs[r].file].key \in Key
    BY <1>3 DEF DeleteObject, At, FilesInv, RequestOK, DocOK, Known
  <2> QED
    BY <1>3, <2>1, DeleteStep DEF DeleteObject
<1>4. ASSUME NEW f \in File, CronObject(f) PROVE ObjectsStep
  <2>1. files[f].key \in Key
    BY <1>4 DEF CronObject, FilesInv, CronOK, DocOK, Known
  <2> QED
    BY <1>4, <2>1, DeleteStep DEF CronObject
<1>5. ASSUME NEW r \in Request, Arrive(r) PROVE ObjectsStep
  BY <1>1, <1>5, ArriveFrame
<1>6. ASSUME NEW r \in Request, Step(r) PROVE ObjectsStep
  BY <1>1, <1>3, <1>6
     DEF Step, SendOtpCreate, AskOtp, OtpAnswer, OtpRefused,
         Trash, RestoreSave,
         DeleteRecord, DeleteFails, ShareSave, UnshareSave
<1>7. ASSUME NEW f \in File, CronStep(f) PROVE ObjectsStep
  BY <1>1, <1>4, <1>7 DEF CronStep, CronRecord, CronFails
<1>8. ASSUME NEW k \in Key,
             \/ Presign(k) \/ Initiate(k) \/ UrlExpires(k)
             \/ \E u \in User, f \in File : SaveMetadata(u, f, k)
      PROVE  ObjectsStep
  BY <1>1, <1>8 DEF Presign, Initiate, UrlExpires, SaveMetadata
<1>9. CASE \/ \E u \in User, fileIds \in SUBSET File : BulkRestore(u, fileIds)
           \/ CronFind \/ (\E i \in live : OtpExpires(i)) \/ Tick \/ Restart
  BY <1>1, <1>9 DEF BulkRestore, CronFind, OtpExpires, Tick, Restart
<1> QED
  BY <1>1, <1>2, <1>5, <1>6, <1>7, <1>8, <1>9 DEF Next, vars

(* Codes are only added.                                                     *)
CodesStep ==
  /\ Otc!OtcTypeOK'
  /\ DOMAIN codes \subseteq DOMAIN codes'
  /\ \A i \in DOMAIN codes : codes'[i] = codes[i]

LEMMA RevokeStep ==
  ASSUME FilesInv, NEW S, Otc!Revoke(S)
  PROVE  CodesStep
BY DEF FilesInv, TypeOK, CodesStep, Otc!OtcTypeOK, Otc!Revoke

LEMMA IssueStep ==
  ASSUME FilesInv, NEW u \in User, NEW f \in File \cup {Null},
         Otc!Issue(u, DeleteFile, f)
  PROVE  CodesStep
<1> DEFINE c == [userId |-> u, purpose |-> DeleteFile, fileId |-> f]
<1>1. c \in Otc!IssuedCode /\ codes \in Seq(Otc!IssuedCode)
  BY DEF FilesInv, TypeOK, Otc!OtcTypeOK, Otc!IssuedCode
<1>2. codes' = Append(codes, c) /\ live' = live \cup {Len(codes) + 1}
  BY DEF Otc!Issue
<1> HIDE DEF c
<1>3. /\ codes' \in Seq(Otc!IssuedCode)
      /\ Len(codes') = Len(codes) + 1 /\ Len(codes) \in Nat
      /\ \A i \in 1 .. Len(codes) : codes'[i] = codes[i]
  BY <1>1, <1>2
<1>4. DOMAIN codes = 1 .. Len(codes) /\ DOMAIN codes' = 1 .. Len(codes')
  BY <1>1, <1>3
<1>5. live' \subseteq DOMAIN codes'
  BY <1>2, <1>3, <1>4 DEF FilesInv, TypeOK, Otc!OtcTypeOK
<1>6. asked' \in [Request -> Otc!Answer]
  BY DEF Otc!Issue, FilesInv, TypeOK, Otc!OtcTypeOK
<1> QED
  BY <1>3, <1>4, <1>5, <1>6 DEF CodesStep, Otc!OtcTypeOK

(* Steps that change what one request has asked and been told.               *)
LEMMA AnswerStep ==
  ASSUME FilesInv, NEW r \in Request, NEW a \in Otc!Answer,
         asked' = [asked EXCEPT ![r] = a], live' \subseteq live,
         UNCHANGED codes
  PROVE  CodesStep
BY DEF FilesInv, TypeOK, CodesStep, Otc!OtcTypeOK

LEMMA FreeIsAnswer == Otc!Free \in Otc!Answer
BY DEF Otc!Free, Otc!Told, Otc!Answer

LEMMA AskStep ==
  ASSUME FilesInv, NEW r \in Request, NEW u \in User,
         NEW f \in File \cup {Null}, Otc!Ask(r, u, DeleteFile, f)
  PROVE  CodesStep
<1> DEFINE about == [userId |-> u, purpose |-> DeleteFile, fileId |-> f]
           a(i) == [state |-> "asking", code |-> i, about |-> about]
<1>1. PICK i \in live : asked' = [asked EXCEPT ![r] = a(i)]
  BY DEF Otc!Ask
<1>2. i \in Nat
  BY DEF FilesInv, TypeOK, Otc!OtcTypeOK
<1>3. about \in Otc!IssuedCode
  BY DEF Otc!IssuedCode
<1> HIDE DEF about
<1>4. a(i) \in Otc!Answer
  BY <1>2, <1>3 DEF Otc!Answer
<1>5. UNCHANGED <<codes, live>>
  BY DEF Otc!Ask
<1> HIDE DEF a
<1> QED
  BY <1>1, <1>4, <1>5, AnswerStep

LEMMA AcceptStep ==
  ASSUME FilesInv, NEW r \in Request, Otc!Accept(r)
  PROVE  CodesStep
<1> DEFINE a == [state |-> "accepted", code |-> asked[r].code, about |-> Null]
<1>1. asked[r].code \in Nat
  BY DEF FilesInv, TypeOK, Otc!OtcTypeOK, Otc!Answer
<1>2. a \in Otc!Answer
  BY <1>1 DEF Otc!Answer
<1>3. /\ asked' = [asked EXCEPT ![r] = a]
      /\ live' \subseteq live /\ UNCHANGED codes
  BY DEF Otc!Accept, Otc!Told
<1> HIDE DEF a
<1> QED
  BY <1>2, <1>3, AnswerStep

LEMMA RefuseStep ==
  ASSUME FilesInv, NEW r \in Request, Otc!Refuse(r)
  PROVE  CodesStep
<1> DEFINE a == [state |-> "refused", code |-> asked[r].code, about |-> Null]
<1>1. asked[r].code \in Nat
  BY DEF FilesInv, TypeOK, Otc!OtcTypeOK, Otc!Answer
<1>2. a \in Otc!Answer
  BY <1>1 DEF Otc!Answer
<1>3. asked' = [asked EXCEPT ![r] = a] /\ UNCHANGED <<codes, live>>
  BY DEF Otc!Refuse, Otc!Told
<1> HIDE DEF a
<1> QED
  BY <1>2, <1>3, AnswerStep

LEMMA NextCodesStep == FilesInv /\ [Next]_vars => CodesStep
<1> SUFFICES ASSUME FilesInv, [Next]_vars PROVE CodesStep
  OBVIOUS
<1>1. CASE UNCHANGED otp
  BY <1>1 DEF otp, CodesStep, FilesInv, TypeOK, Otc!OtcTypeOK
<1>2. ASSUME NEW r \in Request, NEW u \in User, NEW f \in File \cup {Null},
             RequestOtp(r, u, f)
      PROVE  CodesStep
  BY <1>2, RevokeStep DEF RequestOtp
<1>3. ASSUME NEW r \in Request, Step(r), ~UNCHANGED otp PROVE CodesStep
  <2>1. reqs[r] \in ReqState /\ RequestOK(r)
    BY DEF FilesInv, TypeOK
  <2>2. reqs[r].file \in File \cup {Null}
    BY <2>1 DEF ReqState
  <2>3. CASE SendOtpCreate(r)
    BY <1>3, <2>1, <2>2, <2>3, IssueStep DEF SendOtpCreate, RequestOK, At
  <2>4. CASE AskOtp(r)
    BY <1>3, <2>1, <2>2, <2>4, AskStep DEF AskOtp, RequestOK, At
  <2>5. CASE OtpAnswer(r)
    <3>1. CASE Otc!Accept(r)
      BY <3>1, AcceptStep
    <3>2. CASE Otc!Refuse(r)
      BY <3>2, RefuseStep
    <3> QED
      BY <2>5, <3>1, <3>2 DEF OtpAnswer
  <2>7. CASE OtpRefused(r)
    BY <2>7, FreeIsAnswer, AnswerStep DEF OtpRefused, Otc!Release
  <2>6. CASE Trash(r)
    BY <2>6, FreeIsAnswer, AnswerStep DEF Trash, Otc!Release
  <2> QED
    BY <1>3, <2>3, <2>4, <2>5, <2>6, <2>7
       DEF Step, RestoreSave, DeleteObject, DeleteRecord, DeleteFails,
           ShareSave, UnshareSave
<1>4. ASSUME NEW i \in live, OtpExpires(i) PROVE CodesStep
  BY <1>4, RevokeStep DEF OtpExpires
<1>5. CASE Restart
  BY <1>5, FreeIsAnswer
     DEF Restart, Otc!Forget, CodesStep, FilesInv, TypeOK, Otc!OtcTypeOK
<1> QED
  BY <1>1, <1>2, <1>3, <1>4, <1>5
     DEF Next, vars, Arrive, CronStep, Presign, Initiate, Put, UrlExpires,
         SaveMetadata, SoftDelete, BulkDelete, Restore, PermanentDelete,
         Share, Unshare, BulkRestore, CronFind, CronObject, CronRecord,
         CronFails, Tick

----------------------------------------------------------------------------
(* What a request or the job has seen stays true.                            *)

Onward ==
  /\ now' \in 0 .. MaxTime /\ now <= now'
  /\ \A f \in File : Known(f) =>
       /\ Known(f)' /\ files'[f].key = files[f].key
       /\ Gone(f) => Gone(f)'
       /\ Stored(f)' =>
            Stored(f) /\ files'[f].uploadedBy = files[f].uploadedBy
       /\ InTrash(f)' =>
            \/ InTrash(f) /\ files'[f].deletedAt = files[f].deletedAt
            \/ files'[f].deletedAt = now
  /\ CodesStep

LEMMA NextOnward == FilesInv /\ [Next]_vars => Onward
<1> SUFFICES ASSUME FilesInv, [Next]_vars PROVE Onward
  OBVIOUS
<1>1. now' \in 0 .. MaxTime /\ now <= now'
  <2>1. UNCHANGED now \/ Tick
    <3>1. ASSUME NEW r \in Request, Arrive(r) PROVE UNCHANGED now
      BY <3>1 DEF Arrive, RequestOtp, SoftDelete, BulkDelete, Restore,
                  PermanentDelete, Share, Unshare
    <3>2. ASSUME NEW r \in Request, Step(r) PROVE UNCHANGED now
      BY <3>2 DEF Step, SendOtpCreate, AskOtp, OtpAnswer, OtpRefused,
                  Trash, RestoreSave,
                  DeleteObject, DeleteRecord, DeleteFails, ShareSave,
                  UnshareSave
    <3>3. ASSUME NEW f \in File, CronStep(f) PROVE UNCHANGED now
      BY <3>3 DEF CronStep, CronObject, CronRecord, CronFails
    <3> QED
      BY <3>1, <3>2, <3>3
         DEF Next, vars, Presign, Initiate, Put, UrlExpires, SaveMetadata,
             BulkRestore, CronFind, OtpExpires, Restart
  <2>2. now \in 0 .. MaxTime /\ MaxTime \in Nat
    BY FilesAssumption DEF FilesInv, TypeOK
  <2> QED
    BY <2>1, <2>2 DEF Tick
<1>2. FilesStep /\ ObjectsStep
  BY NextFilesStep, NextObjectsStep
<1>3. ASSUME NEW f \in File, Known(f)
      PROVE  /\ Known(f)' /\ files'[f].key = files[f].key
             /\ Stored(f)' =>
                  Stored(f) /\ files'[f].uploadedBy = files[f].uploadedBy
             /\ InTrash(f)' =>
                  \/ InTrash(f) /\ files'[f].deletedAt = files[f].deletedAt
                  \/ files'[f].deletedAt = now
  <2>1. files[f] \in Document /\ files[f].status # "none" /\ DocStep(f)
    BY <1>2, <1>3 DEF FilesInv, TypeOK, FilesStep, Known
  <2>2. CASE files'[f] = files[f]
    BY <1>3, <2>2 DEF Known, Stored, InTrash
  <2>3. CASE Stored(f) /\ Rewrites(f, files'[f])
    BY <2>3 DEF Known, Stored, InTrash, Rewrites
  <2>4. CASE Dropped(f)
    BY <2>1, <2>4, RemovedIsDocument DEF Known, Stored, InTrash, Dropped
  <2> QED
    BY <2>1, <2>2, <2>3, <2>4 DEF DocStep, Inserted
<1>4. ASSUME NEW f \in File, Known(f), Gone(f) PROVE Gone(f)'
  <2>1. files[f].key \in Key
    BY <1>4 DEF FilesInv, DocOK
  <2> QED
    BY <1>2, <1>3, <1>4, <2>1 DEF Gone, ObjectsStep, Vanished
<1> QED
  BY <1>1, <1>3, <1>4, NextCodesStep DEF Onward

LEMMA NextDocOK ==
  ASSUME FilesInv, [Next]_vars, NEW f \in File
  PROVE  DocOK(f)'
<1>1. FilesStep /\ Onward
  BY NextFilesStep, NextOnward
<1>2. /\ files[f] \in Document /\ DocOK(f) /\ DocStep(f)
      /\ now \in Nat /\ now' \in Nat /\ now <= now'
  BY <1>1, FilesAssumption DEF FilesInv, TypeOK, FilesStep, Onward
<1>3. CASE files'[f] = files[f]
  <2>1. Known(f) /\ Gone(f) => Gone(f)'
    BY <1>1 DEF Onward
  <2> QED
    BY <1>2, <1>3, <2>1 DEF DocOK, Known
<1>4. CASE Inserted(f)
  <2>1. PICK u \in User, k \in Key :
          files'[f] = [NoFile EXCEPT !.status = "stored", !.key = k,
                                     !.uploadedBy = u]
    BY <1>4 DEF Inserted
  <2> DEFINE doc == [NoFile EXCEPT !.status = "stored", !.key = k,
                                   !.uploadedBy = u]
  <2>2. doc.status = "stored" /\ doc.key = k /\ ~doc.isDeleted
    BY InsertedIsDocument
  <2>3. files'[f] = doc
    BY <2>1
  <2> HIDE DEF doc
  <2> QED
    BY <2>2, <2>3 DEF DocOK, Known
<1>5. CASE Stored(f) /\ Rewrites(f, files'[f])
  BY <1>2, <1>5 DEF DocOK, Known, Stored, Rewrites
<1>6. CASE Dropped(f)
  BY <1>2, <1>6, RemovedIsDocument DEF DocOK, Known, Gone, Stored, Dropped
<1> QED
  BY <1>2, <1>3, <1>4, <1>5, <1>6 DEF DocStep

----------------------------------------------------------------------------
(* Requests.                                                                 *)

RequestsOK ==
  /\ reqs \in [Request -> ReqState]
  /\ \A r \in Request : RequestOK(r)

LEMMA IdleIsRequest == Idle \in ReqState
BY DEF Idle, ReqState

(* What other requests and the job do does not disturb a request.            *)
LEMMA RequestStays ==
  ASSUME FilesInv, Onward, NEW s \in Request,
         reqs'[s] = reqs[s], asked'[s] = asked[s]
  PROVE  RequestOK(s)'
<1>1. RequestOK(s)
  BY DEF FilesInv
<1>2. CodeOK(s) => CodeOK(s)'
  BY DEF CodeOK, Onward, CodesStep, Otc!FileMatches
<1>3. Known(reqs[s].file) =>
        /\ Known(reqs[s].file)'
        /\ Gone(reqs[s].file) => Gone(reqs[s].file)'
        /\ (Stored(reqs[s].file)' =>
              /\ Stored(reqs[s].file)
              /\ OwnerOrAdmin(reqs[s].user, reqs[s].file) =>
                   OwnerOrAdmin(reqs[s].user, reqs[s].file)')
  BY DEF Onward, Known, Gone, Stored, OwnerOrAdmin
<1> QED
  BY <1>1, <1>2, <1>3 DEF RequestOK

LEMMA RequestMoves ==
  ASSUME FilesInv, Onward, NEW r \in Request, NEW q \in ReqState,
         reqs' = [reqs EXCEPT ![r] = q], RequestOK(r)',
         \A s \in Request \ {r} : asked'[s] = asked[s]
  PROVE  RequestsOK'
<1>1. reqs' \in [Request -> ReqState]
  BY DEF FilesInv, TypeOK
<1>2. ASSUME NEW s \in Request \ {r} PROVE RequestOK(s)'
  BY <1>2, RequestStays DEF FilesInv, TypeOK
<1> QED
  BY <1>1, <1>2 DEF RequestsOK

LEMMA RequestEnds ==
  ASSUME FilesInv, Onward, NEW r \in Request, Finish(r),
         \A s \in Request \ {r} : asked'[s] = asked[s]
  PROVE  RequestsOK'
<1>1. reqs' = [reqs EXCEPT ![r] = Idle] /\ reqs'[r] = Idle
  BY DEF FilesInv, TypeOK, Finish
<1>2. RequestOK(r)'
  BY <1>1 DEF RequestOK, Idle
<1> QED
  BY <1>1, <1>2, IdleIsRequest, RequestMoves

(* A request arrives; what it has checked is true.                           *)
Checked(q) ==
  /\ q \in ReqState
  /\ q.user \in User
  /\ \/ q.pc \in {"sendOtp", "verifyOtp"}
     \/ q.pc \in {"share", "unshare"} /\ Known(q.file)
     \/ /\ q.pc \in {"restore", "deleteObject"} /\ Known(q.file)
        /\ OwnerOrAdmin(q.user, q.file)

LEMMA RequestArrives ==
  ASSUME FilesInv, Onward, NEW r \in Request, NEW q, Checked(q), Start(r, q),
         UNCHANGED files, UNCHANGED asked
  PROVE  RequestsOK'
<1>1. reqs' = [reqs EXCEPT ![r] = q] /\ reqs'[r] = q /\ q \in ReqState
  BY DEF Start, FilesInv, TypeOK, Checked
<1>2. RequestOK(r)'
  BY <1>1 DEF Checked, RequestOK, Known, Stored, OwnerOrAdmin
<1> QED
  BY <1>1, <1>2, RequestMoves

LEMMA ArriveOK ==
  ASSUME FilesInv, Onward, NEW r \in Request, Arrive(r)
  PROVE  RequestsOK'
<1> USE IdleIsRequest
<1>1. PICK u \in User :
        \/ \E f \in File \cup {Null} : RequestOtp(r, u, f)
        \/ \E f \in File :
             \/ SoftDelete(r, u, f)
             \/ Restore(r, u, f)
             \/ PermanentDelete(r, u, f)
             \/ Unshare(r, u, f)
             \/ \E userIds \in SUBSET User : Share(r, u, f, userIds)
        \/ \E fileIds \in SUBSET File : BulkDelete(r, u, fileIds)
  BY DEF Arrive
<1>2. ASSUME NEW f \in File \cup {Null}, RequestOtp(r, u, f)
      PROVE  RequestsOK'
  <2> DEFINE q == [Idle EXCEPT !.pc = "sendOtp", !.user = u, !.file = f]
  <2>1. Checked(q)
    BY DEF Checked, ReqState
  <2>2. Start(r, q) /\ UNCHANGED files /\ UNCHANGED asked
    BY <1>2 DEF RequestOtp, Otc!Revoke
  <2> HIDE DEF q
  <2> QED
    BY <2>1, <2>2, RequestArrives
<1>3. ASSUME NEW f \in File, SoftDelete(r, u, f) PROVE RequestsOK'
  <2> DEFINE q == [Idle EXCEPT !.pc = "verifyOtp", !.user = u, !.file = f]
  <2>1. Checked(q)
    BY DEF Checked, ReqState
  <2>2. Start(r, q) /\ UNCHANGED files /\ UNCHANGED asked
    BY <1>3 DEF SoftDelete, otp
  <2> HIDE DEF q
  <2> QED
    BY <2>1, <2>2, RequestArrives
<1>4. ASSUME NEW fileIds \in SUBSET File, BulkDelete(r, u, fileIds)
      PROVE  RequestsOK'
  <2> DEFINE q == [Idle EXCEPT !.pc = "verifyOtp", !.user = u,
                               !.fileIds = fileIds]
  <2>1. Checked(q)
    BY DEF Checked, ReqState
  <2>2. Start(r, q) /\ UNCHANGED files /\ UNCHANGED asked
    BY <1>4 DEF BulkDelete, otp
  <2> HIDE DEF q
  <2> QED
    BY <2>1, <2>2, RequestArrives
<1>5. ASSUME NEW f \in File, Restore(r, u, f) PROVE RequestsOK'
  <2> DEFINE q == [Idle EXCEPT !.pc = "restore", !.user = u, !.file = f]
  <2>1. Checked(q)
    BY <1>5 DEF Checked, ReqState, Restore, InTrash, Stored, Known
  <2>2. Start(r, q) /\ UNCHANGED files /\ UNCHANGED asked
    BY <1>5 DEF Restore, otp
  <2> HIDE DEF q
  <2> QED
    BY <2>1, <2>2, RequestArrives
<1>6. ASSUME NEW f \in File, PermanentDelete(r, u, f) PROVE RequestsOK'
  <2> DEFINE q == [Idle EXCEPT !.pc = "deleteObject", !.user = u, !.file = f]
  <2>1. Known(f) /\ OwnerOrAdmin(u, f)
    BY <1>6 DEF PermanentDelete, Stored, Known
  <2>2. q \in ReqState /\ q.user = u /\ q.file = f /\ q.pc = "deleteObject"
    BY DEF ReqState
  <2>3. Checked(q)
    BY <2>1, <2>2 DEF Checked
  <2>4. Start(r, q) /\ UNCHANGED files /\ UNCHANGED asked
    BY <1>6 DEF PermanentDelete, otp
  <2> HIDE DEF q
  <2> QED
    BY <2>3, <2>4, RequestArrives
<1>7. ASSUME NEW f \in File, Unshare(r, u, f) PROVE RequestsOK'
  <2> DEFINE q == [Idle EXCEPT !.pc = "unshare", !.user = u, !.file = f]
  <2>1. Checked(q)
    BY <1>7 DEF Checked, ReqState, Unshare, Accessible, Live, Stored, Known
  <2>2. Start(r, q) /\ UNCHANGED files /\ UNCHANGED asked
    BY <1>7 DEF Unshare, otp
  <2> HIDE DEF q
  <2> QED
    BY <2>1, <2>2, RequestArrives
<1>8. ASSUME NEW f \in File, NEW userIds \in SUBSET User,
             Share(r, u, f, userIds)
      PROVE  RequestsOK'
  <2> DEFINE q == [Idle EXCEPT !.pc = "share", !.user = u, !.file = f,
                               !.userIds = userIds]
  <2>1. Checked(q)
    BY <1>8 DEF Checked, ReqState, Share, Accessible, Live, Stored, Known
  <2>2. Start(r, q) /\ UNCHANGED files /\ UNCHANGED asked
    BY <1>8 DEF Share, otp
  <2> HIDE DEF q
  <2> QED
    BY <2>1, <2>2, RequestArrives
<1> QED
  BY <1>1, <1>2, <1>3, <1>4, <1>5, <1>6, <1>7, <1>8

(* A request in progress goes on to pc.                                      *)
LEMMA RequestGoesOn ==
  ASSUME FilesInv, Onward, NEW r \in Request,
         NEW pc \in {"otpAnswer", "refused", "trash", "deleteRecord"},
         Goto(r, pc),
         reqs[r].pc # "idle",
         \A s \in Request \ {r} : asked'[s] = asked[s],
         pc = "otpAnswer" => CodeOK(r)',
         pc = "trash" => asked'[r].state = "accepted" /\ CodeOK(r)',
         pc = "deleteRecord" => /\ reqs[r].pc = "deleteObject"
                                /\ Gone(reqs[r].file)'
  PROVE  RequestsOK'
<1> DEFINE q == [reqs[r] EXCEPT !.pc = pc]
<1>1. reqs[r] \in ReqState /\ RequestOK(r) /\ reqs \in [Request -> ReqState]
  BY DEF FilesInv, TypeOK
<1>2. /\ q \in ReqState /\ q.pc = pc
      /\ q.user = reqs[r].user /\ q.file = reqs[r].file
  BY <1>1 DEF ReqState
<1>3. reqs' = [reqs EXCEPT ![r] = q]
  BY DEF Goto
<1> HIDE DEF q
<1>4. reqs'[r] = q
  BY <1>1, <1>3
<1>5. CASE pc \in {"otpAnswer", "refused", "trash"}
  <2>1. RequestOK(r)'
    BY <1>1, <1>2, <1>4, <1>5 DEF RequestOK
  <2> QED
    BY <1>2, <1>3, <2>1, RequestMoves
<1>6. CASE pc = "deleteRecord"
  <2>1. /\ Known(reqs[r].file) /\ reqs[r].user \in User
        /\ Stored(reqs[r].file) => OwnerOrAdmin(reqs[r].user, reqs[r].file)
    BY <1>1, <1>6 DEF RequestOK
  <2>2. /\ Known(reqs[r].file)'
        /\ Stored(reqs[r].file)' => OwnerOrAdmin(reqs[r].user, reqs[r].file)'
    BY <2>1, <1>2, <1>4 DEF Onward, Known, Stored, OwnerOrAdmin
  <2>3. RequestOK(r)'
    BY <1>2, <1>4, <1>6, <2>1, <2>2 DEF RequestOK, Known
  <2> QED
    BY <1>2, <1>3, <2>3, RequestMoves
<1> QED
  BY <1>5, <1>6

LEMMA AskOtpOK ==
  ASSUME FilesInv, Onward, NEW r \in Request, AskOtp(r)
  PROVE  RequestsOK'
<1> DEFINE about == [userId |-> reqs[r].user, purpose |-> DeleteFile,
                     fileId |-> reqs[r].file]
<1>1. CASE Finish(r) /\ UNCHANGED otp
  BY <1>1, RequestEnds DEF otp
<1>2. CASE /\ Otc!Ask(r, reqs[r].user, DeleteFile, reqs[r].file)
           /\ Goto(r, "otpAnswer")
  <2>1. PICK i \in live :
          /\ Otc!SameKey(codes[i], reqs[r].user, DeleteFile)
          /\ Otc!FileMatches(codes[i].fileId, reqs[r].file)
          /\ asked' = [asked EXCEPT ![r] =
               [state |-> "asking", code |-> i, about |-> about]]
    BY <1>2 DEF Otc!Ask
  <2>2. /\ UNCHANGED codes /\ i \in DOMAIN codes
        /\ asked \in [Request -> Otc!Answer]
    BY <1>2 DEF Otc!Ask, FilesInv, TypeOK, Otc!OtcTypeOK
  <2>3. asked'[r].code = i /\ \A s \in Request \ {r} : asked'[s] = asked[s]
    BY <2>1, <2>2
  <2>4. reqs'[r].user = reqs[r].user /\ reqs'[r].file = reqs[r].file
    BY <1>2 DEF Goto, FilesInv, TypeOK, ReqState
  <2>5. CodeOK(r)'
    BY <2>1, <2>2, <2>3, <2>4 DEF CodeOK, Otc!SameKey, Otc!FileMatches
  <2>6. reqs[r].pc # "idle"
    BY DEF AskOtp, At
  <2> QED
    BY <1>2, <2>3, <2>5, <2>6, RequestGoesOn
<1> QED
  BY <1>1, <1>2 DEF AskOtp

LEMMA OtpAnswerOK ==
  ASSUME FilesInv, Onward, NEW r \in Request, OtpAnswer(r)
  PROVE  RequestsOK'
<1>1. asked \in [Request -> Otc!Answer] /\ reqs[r].pc = "otpAnswer"
  BY DEF OtpAnswer, At, FilesInv, TypeOK, Otc!OtcTypeOK
<1>2. CASE Otc!Refuse(r) /\ Goto(r, "refused")
  <2>1. \A s \in Request \ {r} : asked'[s] = asked[s]
    BY <1>1, <1>2 DEF Otc!Refuse
  <2> QED
    BY <1>1, <1>2, <2>1, RequestGoesOn
<1>3. CASE Otc!Accept(r) /\ Goto(r, "trash")
  <2>1. UNCHANGED codes
    BY <1>3 DEF Otc!Accept
  <2>2. /\ asked'[r].state = "accepted" /\ asked'[r].code = asked[r].code
        /\ \A s \in Request \ {r} : asked'[s] = asked[s]
    BY <1>1, <1>3 DEF Otc!Accept, Otc!Told
  <2>3. reqs'[r].user = reqs[r].user /\ reqs'[r].file = reqs[r].file
    BY <1>3 DEF Goto, FilesInv, TypeOK, ReqState
  <2>4. CodeOK(r)
    BY <1>1 DEF FilesInv, RequestOK
  <2>5. CodeOK(r)'
    BY <2>1, <2>2, <2>3, <2>4 DEF CodeOK, Otc!FileMatches
  <2> QED
    BY <1>1, <1>3, <2>2, <2>5, RequestGoesOn
<1> QED
  BY <1>2, <1>3 DEF OtpAnswer

LEMMA DeleteObjectOK ==
  ASSUME FilesInv, Onward, NEW r \in Request, DeleteObject(r)
  PROVE  RequestsOK'
<1>1. /\ reqs[r].pc = "deleteObject" /\ Known(reqs[r].file)
      /\ files[reqs[r].file].key \in Key /\ UNCHANGED <<files, asked>>
  BY DEF DeleteObject, At, otp, FilesInv, RequestOK, DocOK, Known
<1>2. Gone(reqs[r].file)'
  <2>1. objects'[files[reqs[r].file].key] \in Vanished
    BY <1>1, DeleteStep DEF DeleteObject
  <2>2. reqs'[r].file = reqs[r].file
    BY DEF DeleteObject, Goto, FilesInv, TypeOK, ReqState
  <2> QED
    BY <1>1, <2>1, <2>2 DEF Gone, Vanished
<1> QED
  BY <1>1, <1>2, RequestGoesOn DEF DeleteObject

LEMMA StepOK ==
  ASSUME FilesInv, Onward, NEW r \in Request, Step(r)
  PROVE  RequestsOK'
<1>1. CASE Finish(r) /\ \A s \in Request \ {r} : asked'[s] = asked[s]
  BY <1>1, RequestEnds
<1>2. CASE SendOtpCreate(r)
  BY <1>1, <1>2 DEF SendOtpCreate, Otc!Issue, otp
<1>3. CASE Trash(r) \/ OtpRefused(r)
  <2>1. asked \in [Request -> Otc!Answer]
    BY DEF FilesInv, TypeOK, Otc!OtcTypeOK
  <2> QED
    BY <1>1, <1>3, <2>1 DEF Trash, OtpRefused, Otc!Release
<1> QED
  BY <1>1, <1>2, <1>3, AskOtpOK, OtpAnswerOK, DeleteObjectOK
     DEF Step, RestoreSave, DeleteRecord, DeleteFails, ShareSave,
         UnshareSave, otp

LEMMA NextRequestsOK == FilesInv /\ [Next]_vars => RequestsOK'
<1> SUFFICES ASSUME FilesInv, [Next]_vars PROVE RequestsOK'
  OBVIOUS
<1>1. Onward
  BY NextOnward
<1>2. CASE UNCHANGED <<reqs, asked>>
  BY <1>1, <1>2, RequestStays DEF RequestsOK, FilesInv, TypeOK
<1>3. CASE Restart
  <2>1. reqs' = [r \in Request |-> Idle]
    BY <1>3 DEF Restart
  <2>2. ASSUME NEW r \in Request PROVE RequestOK(r)'
    BY <2>1, <2>2 DEF RequestOK, Idle
  <2> QED
    BY <2>1, <2>2, IdleIsRequest DEF RequestsOK
<1> QED
  BY <1>1, <1>2, <1>3, ArriveOK, StepOK
     DEF Next, vars, otp, CronStep, Presign, Initiate, Put, UrlExpires,
         SaveMetadata, BulkRestore, CronFind, CronObject, CronRecord,
         CronFails, OtpExpires, Tick, Otc!Revoke

----------------------------------------------------------------------------
(* The nightly job.                                                          *)

LEMMA CronStays ==
  ASSUME FilesInv, Onward, UNCHANGED cron
  PROVE  CronOK'
<1>1. CronOK /\ cron \in CronState
  BY DEF FilesInv, TypeOK
<1>2. cron.at \in Nat /\ now \in Nat /\ now' \in Nat /\ cron.at <= now'
  BY <1>1, FilesAssumption DEF CronOK, CronState, Onward, FilesInv, TypeOK
<1>3. ASSUME NEW f \in File, Known(f) /\ Due(f) PROVE Known(f)' /\ Due(f)'
  <2>1. /\ Known(f)'
        /\ InTrash(f)' =>
             \/ InTrash(f) /\ files'[f].deletedAt = files[f].deletedAt
             \/ files'[f].deletedAt = now
    BY <1>3 DEF Onward
  <2>2. cron' = cron /\ now >= cron.at
    BY <1>1, <1>2 DEF CronOK
  <2> QED
    BY <1>3, <2>1, <2>2 DEF Due
<1>4. ASSUME NEW f \in File, Known(f), Gone(f) PROVE Gone(f)'
  BY <1>4 DEF Onward
<1>5. \A f \in cron.expiredFiles : f \in File
  BY <1>1 DEF CronOK, Known
<1>6. cron.pc # "idle" => cron.file \in File
  BY <1>1 DEF CronOK, Known
<1> QED
  BY <1>1, <1>2, <1>3, <1>4, <1>5, <1>6 DEF CronOK

LEMMA CronIdleOK ==
  ASSUME FilesInv, Onward, cron' = CronIdle
  PROVE  cron' \in CronState /\ CronOK'
<1>1. now' \in Nat
  BY FilesAssumption DEF Onward
<1> QED
  BY <1>1 DEF CronIdle, CronState, CronOK

(* The job takes the next file of a list of files that were due at day at.   *)
LEMMA CronNextOK ==
  ASSUME FilesInv, Onward, NEW c \in CronState, NEW F \in SUBSET File,
         CronNext(c, F), c.at <= now,
         \A f \in F : /\ Known(f)'
                      /\ InTrash(f)' =>
                           \/ files'[f].deletedAt + Retention <= c.at
                           \/ files'[f].deletedAt >= c.at
  PROVE  cron' \in CronState /\ CronOK'
<1>1. CASE cron' = CronIdle
  BY <1>1, CronIdleOK
<1>2. ASSUME NEW f \in F,
             cron' = [c EXCEPT !.pc = "object", !.file = f,
                               !.expiredFiles = F \ {f}]
      PROVE  cron' \in CronState /\ CronOK'
  <2>1. /\ cron' \in CronState /\ cron'.at = c.at /\ cron'.pc = "object"
        /\ cron'.file = f /\ cron'.expiredFiles = F \ {f}
    BY <1>2 DEF CronState
  <2>2. c.at <= now'
    BY FilesAssumption DEF CronState, Onward, FilesInv, TypeOK
  <2>3. \A g \in F : Known(g)' /\ Due(g)'
    BY <2>1 DEF Due
  <2> QED
    BY <2>1, <2>2, <2>3 DEF CronOK
<1> QED
  BY <1>1, <1>2 DEF CronNext

LEMMA CronFindOK ==
  ASSUME FilesInv, Onward, CronFind
  PROVE  cron' \in CronState /\ CronOK'
<1> DEFINE F == {f \in File : Expired(f)}
           c == [CronIdle EXCEPT !.at = now]
<1>1. now \in Nat
  BY FilesAssumption DEF FilesInv, TypeOK
<1>2. c \in CronState /\ c.at = now
  BY <1>1 DEF CronIdle, CronState
<1>3. CronNext(c, F) /\ UNCHANGED files
  BY DEF CronFind
<1>4. ASSUME NEW f \in F
      PROVE  /\ Known(f)'
             /\ files'[f].deletedAt + Retention <= c.at
  BY <1>2, <1>3, <1>4 DEF Expired, InTrash, Stored, Known
<1> HIDE DEF c
<1> QED
  BY <1>1, <1>2, <1>3, <1>4, CronNextOK

LEMMA CronGoesOn ==
  ASSUME FilesInv, Onward, CronNext(cron, cron.expiredFiles)
  PROVE  cron' \in CronState /\ CronOK'
<1>1. cron \in CronState /\ CronOK /\ cron.expiredFiles \in SUBSET File
  BY DEF FilesInv, TypeOK, CronState
<1>2. cron.at \in Nat /\ now \in Nat /\ cron.at <= now
  BY <1>1, FilesAssumption DEF CronOK, CronState, FilesInv, TypeOK
<1>3. ASSUME NEW f \in cron.expiredFiles
      PROVE  /\ Known(f)'
             /\ InTrash(f)' =>
                  \/ files'[f].deletedAt + Retention <= cron.at
                  \/ files'[f].deletedAt >= cron.at
  <2>1. f \in File /\ Known(f) /\ Due(f)
    BY <1>1, <1>3 DEF CronOK
  <2> QED
    BY <1>2, <2>1 DEF Onward, Due
<1> QED
  BY <1>1, <1>2, <1>3, CronNextOK

LEMMA CronObjectOK ==
  ASSUME FilesInv, Onward, NEW f \in File, CronObject(f)
  PROVE  cron' \in CronState /\ CronOK'
<1>1. /\ cron \in CronState /\ CronOK /\ cron.file = f /\ cron.pc = "object"
      /\ Known(f) /\ Due(f) /\ UNCHANGED <<files, now>>
      /\ files[f].key \in Key
  BY DEF CronObject, FilesInv, TypeOK, CronOK, DocOK
<1>2. /\ cron' \in CronState /\ cron'.pc = "record" /\ cron'.at = cron.at
      /\ cron'.file = f /\ cron'.expiredFiles = cron.expiredFiles
  BY <1>1 DEF CronObject, CronState
<1>3. Gone(f)'
  <2>1. objects'[files[f].key] \in Vanished
    BY <1>1, DeleteStep DEF CronObject
  <2> QED
    BY <1>1, <2>1 DEF Gone, Vanished
<1>4. \A g \in File : (Known(g) => Known(g)') /\ (Due(g) => Due(g)')
  BY <1>1, <1>2 DEF Known, Due, InTrash, Stored
<1> QED
  BY <1>1, <1>2, <1>3, <1>4 DEF CronOK, Known

LEMMA NextCronOK ==
  FilesInv /\ [Next]_vars => cron' \in CronState /\ CronOK'
<1> SUFFICES ASSUME FilesInv, [Next]_vars PROVE cron' \in CronState /\ CronOK'
  OBVIOUS
<1>1. Onward
  BY NextOnward
<1>2. CASE UNCHANGED cron
  BY <1>1, <1>2, CronStays DEF FilesInv, TypeOK
<1>3. ASSUME NEW f \in File, CronStep(f) PROVE cron' \in CronState /\ CronOK'
  BY <1>1, <1>3, CronObjectOK, CronGoesOn DEF CronStep, CronRecord, CronFails
<1>4. CASE Restart
  BY <1>1, <1>4, CronIdleOK DEF Restart
<1>5. ASSUME NEW r \in Request, Arrive(r) \/ Step(r) PROVE UNCHANGED cron
  <2>1. CASE Arrive(r)
    BY <2>1, ArriveFrame
  <2>2. CASE Step(r)
    BY <2>2 DEF Step, SendOtpCreate, AskOtp, OtpAnswer, OtpRefused,
                Trash, RestoreSave,
                DeleteObject, DeleteRecord, DeleteFails, ShareSave, UnshareSave
  <2> QED
    BY <1>5, <2>1, <2>2
<1> QED
  BY <1>1, <1>2, <1>3, <1>4, <1>5, CronFindOK
     DEF Next, vars, Presign, Initiate, Put, UrlExpires, SaveMetadata,
         BulkRestore, OtpExpires, Tick

----------------------------------------------------------------------------
(* The invariant.                                                            *)

LEMMA InitInv == Init => FilesInv
<1> SUFFICES ASSUME Init PROVE FilesInv
  OBVIOUS
<1>1. CronIdle \in CronState /\ CronOK
  BY DEF Init, CronIdle, CronState, CronOK
<1>2. Otc!OtcTypeOK
  BY FreeIsAnswer DEF Init, Otc!OtcInit, Otc!OtcTypeOK
<1>3. TypeOK
  BY <1>1, <1>2, FilesAssumption, NoFileIsDocument, IdleIsRequest
     DEF Init, TypeOK, Object
<1>4. ASSUME NEW f \in File PROVE DocOK(f)
  BY <1>4 DEF Init, DocOK, Known, NoFile
<1>5. ASSUME NEW r \in Request PROVE RequestOK(r)
  BY <1>5 DEF Init, RequestOK, Idle
<1> QED
  BY <1>1, <1>3, <1>4, <1>5 DEF FilesInv

LEMMA NextUrls ==
  ASSUME FilesInv, [Next]_vars
  PROVE  /\ urls' \in [Key -> {"unsigned", "valid", "expired", "multipart"}]
         /\ restarts' \in 0 .. MaxRestarts
<1>1. /\ urls \in [Key -> {"unsigned", "valid", "expired", "multipart"}]
      /\ restarts \in 0 .. MaxRestarts /\ MaxRestarts \in Nat
  BY FilesAssumption DEF FilesInv, TypeOK
<1>2. ASSUME NEW r \in Request, Arrive(r) \/ Step(r)
      PROVE  UNCHANGED <<urls, restarts>>
  <2>1. CASE Arrive(r)
    BY <2>1, ArriveFrame
  <2>2. CASE Step(r)
    BY <2>2 DEF Step, SendOtpCreate, AskOtp, OtpAnswer, OtpRefused,
                Trash, RestoreSave,
                DeleteObject, DeleteRecord, DeleteFails, ShareSave, UnshareSave
  <2> QED
    BY <1>2, <2>1, <2>2
<1>3. ASSUME NEW f \in File, CronStep(f) PROVE UNCHANGED <<urls, restarts>>
  BY <1>3 DEF CronStep, CronObject, CronRecord, CronFails
<1>4. ASSUME NEW k \in Key, Presign(k) \/ Initiate(k) \/ UrlExpires(k)
      PROVE  /\ urls' \in [Key -> {"unsigned", "valid", "expired", "multipart"}]
             /\ UNCHANGED restarts
  BY <1>1, <1>4 DEF Presign, Initiate, UrlExpires
<1>5. CASE Restart
  BY <1>1, <1>5 DEF Restart
<1>6. CASE UNCHANGED <<urls, restarts>>
  BY <1>1, <1>6
<1> QED
  BY <1>1, <1>2, <1>3, <1>4, <1>5, <1>6
     DEF Next, vars, Put, SaveMetadata, BulkRestore, CronFind, OtpExpires,
         Tick

LEMMA NextInv == FilesInv /\ [Next]_vars => FilesInv'
<1> SUFFICES ASSUME FilesInv, [Next]_vars PROVE FilesInv'
  OBVIOUS
<1>1. FilesStep /\ ObjectsStep /\ Onward
  BY NextFilesStep, NextObjectsStep, NextOnward
<1>2. RequestsOK'
  BY NextRequestsOK
<1>3. cron' \in CronState /\ CronOK'
  BY NextCronOK
<1>4. TypeOK'
  BY <1>1, <1>2, <1>3, NextUrls
     DEF TypeOK, FilesStep, ObjectsStep, Onward, CodesStep, RequestsOK
<1> QED
  BY <1>2, <1>3, <1>4, NextDocOK DEF FilesInv, RequestsOK

LEMMA Invariance == Spec => []FilesInv
BY InitInv, NextInv, PTL DEF Spec

(* Documents, objects, requests, the nightly job and the codes have their    *)
(* types, whatever runs between two calls of a handler.                      *)
THEOREM TypeCorrect == Spec => []TypeOK
<1>1. FilesInv => TypeOK
  BY DEF FilesInv
<1> QED
  BY <1>1, Invariance, PTL

(* permanentDelete and the nightly job remove a document only after R2 has   *)
(* deleted its object (files.service.ts:161, :354), for any number of        *)
(* deletions, restores, uploads and failures at once.                        *)
THEOREM ObjectGoesFirst == Spec => []ObjectGoesBeforeRecord
<1>1. FilesInv => ObjectGoesBeforeRecord
  BY DEF FilesInv, DocOK, Gone, ObjectGoesBeforeRecord
<1> QED
  BY <1>1, Invariance, PTL

(* No update by id brings a removed document back.                           *)
THEOREM RemovedStays == Spec => RemovedIsFinal
<1>1. FilesInv /\ [Next]_vars =>
        [\A f \in File :
           files[f].status = "removed" => files'[f].status = "removed"]_vars
  <2> SUFFICES ASSUME FilesInv, [Next]_vars, NEW f \in File,
                      files[f].status = "removed"
               PROVE  files'[f].status = "removed"
    OBVIOUS
  <2>1. DocStep(f)
    BY NextFilesStep DEF FilesStep
  <2> QED
    BY <2>1 DEF DocStep, Inserted, Dropped, Stored
<1> QED
  BY <1>1, Invariance, PTL DEF Spec, RemovedIsFinal

(* Only Trash puts a live file in the trash.                                 *)
LEMMA OnlyTrashTrashes ==
  ASSUME FilesInv, [Next]_vars, NEW f \in File, Live(f), InTrash(f)'
  PROVE  \E r \in Request : Trash(r)
<1>1. files \in [File -> Document] /\ files' # files
  BY DEF FilesInv, TypeOK, Live, InTrash
<1>2. ASSUME NEW r \in Request, Step(r) PROVE Trash(r)
  <2>1. CASE ShareSave(r)
    BY <2>1 DEF ShareSave, Update, Live, InTrash, Stored
  <2>2. CASE UnshareSave(r)
    BY <2>2 DEF UnshareSave, Update, Live, InTrash, Stored
  <2>3. CASE RestoreSave(r)
    BY <1>1, <2>3
       DEF RestoreSave, Update, Restored, Live, InTrash, Stored, Document
  <2>4. CASE DeleteRecord(r)
    BY <1>1, <2>4, RemovedIsDocument
       DEF DeleteRecord, Remove, Live, InTrash, Stored
  <2> QED
    BY <1>1, <1>2, <2>1, <2>2, <2>3, <2>4
       DEF Step, SendOtpCreate, AskOtp, OtpAnswer, OtpRefused, DeleteObject,
           DeleteFails
<1>3. ASSUME NEW r \in Request, Arrive(r) PROVE FALSE
  BY <1>1, <1>3, ArriveFrame
<1>4. ASSUME NEW u \in User, NEW k \in Key, NEW g \in File,
             SaveMetadata(u, g, k)
      PROVE  FALSE
  BY <1>1, <1>4 DEF SaveMetadata, Live, InTrash, Stored
<1>5. ASSUME NEW u \in User, NEW fileIds \in SUBSET File,
             BulkRestore(u, fileIds)
      PROVE  FALSE
  BY <1>1, <1>5
     DEF BulkRestore, Update, Restored, Live, InTrash, Stored, Document
<1>6. ASSUME NEW g \in File, CronStep(g) PROVE FALSE
  BY <1>1, <1>6, RemovedIsDocument
     DEF CronStep, CronObject, CronRecord, CronFails, Remove, Live, InTrash,
         Stored
<1> QED
  BY <1>1, <1>2, <1>3, <1>4, <1>5, <1>6
     DEF Next, vars, Presign, Initiate, Put, UrlExpires, CronFind, OtpExpires,
         Tick, Restart

(* A file goes to the trash by the write of a softDelete of that file, after *)
(* a code of the same user's was accepted that is bound to it or to none     *)
(* (files.service.ts:132), or by a bulkDelete that names it, of its owner,   *)
(* after any delete code of his was accepted (:255); whatever else was asked *)
(* for, revoked or deleted between the answer and the write.                 *)
THEOREM TrashNeedsCode == Spec => TrashNeedsAcceptedCode
<1>1. ASSUME FilesInv, [Next]_vars, NEW f \in File, Live(f), InTrash(f)'
      PROVE  \E r \in Request :
               LET code == codes[asked[r].code]
               IN /\ Trash(r)
                  /\ asked[r].state = "accepted"
                  /\ code.userId = reqs[r].user
                  /\ files'[f].deletedBy = reqs[r].user
                  /\ \/ reqs[r].file = f /\ code.fileId \in {f, Null}
                     \/ /\ reqs[r].file = Null /\ f \in reqs[r].fileIds
                        /\ files[f].uploadedBy = reqs[r].user
  <2>1. PICK r \in Request : Trash(r)
    BY <1>1, OnlyTrashTrashes
  <2>2. asked[r].state = "accepted" /\ CodeOK(r)
    BY <1>1, <2>1 DEF Trash, At, FilesInv, RequestOK
  <2>3. files'[f].deletedBy = reqs[r].user
    BY <1>1, <2>1
       DEF Trash, Update, Trashed, Live, InTrash, Stored, FilesInv, TypeOK,
           Document
  <2>4. f \in IF reqs[r].file = Null THEN OwnedBy(reqs[r].user, reqs[r].fileIds)
                                     ELSE {reqs[r].file}
    BY <1>1, <2>1 DEF Trash, Update, Live, InTrash, Stored, FilesInv, TypeOK
  <2>5. f # Null
    BY FilesAssumption
  <2> QED
    BY <2>1, <2>2, <2>3, <2>4, <2>5 DEF CodeOK, Otc!FileMatches, OwnedBy
<1>2. FilesInv /\ [Next]_vars =>
        [\A f \in File :
           (Live(f) /\ InTrash(f)') =>
             \E r \in Request :
               LET code == codes[asked[r].code]
               IN /\ Trash(r)
                  /\ asked[r].state = "accepted"
                  /\ code.userId = reqs[r].user
                  /\ files'[f].deletedBy = reqs[r].user
                  /\ \/ reqs[r].file = f /\ code.fileId \in {f, Null}
                     \/ /\ reqs[r].file = Null /\ f \in reqs[r].fileIds
                        /\ files[f].uploadedBy = reqs[r].user]_vars
  BY <1>1
<1> QED
  BY <1>2, Invariance, PTL DEF Spec, TrashNeedsAcceptedCode

(* permanentDelete asks who owns the file one call before it destroys the    *)
(* object and two before it removes the document (files.service.ts:151), and *)
(* restore one before it writes (:170); the answer is still true then.       *)
THEOREM OwnerOrAdminDisposes == Spec => OnlyOwnerOrAdminDisposes
<1>1. FilesInv /\ [Next]_vars =>
        [\A r \in Request, f \in File :
           (/\ RestoreSave(r) \/ DeleteObject(r) \/ DeleteRecord(r)
            /\ reqs[r].file = f /\ Stored(f)) =>
             OwnerOrAdmin(reqs[r].user, f)]_vars
  BY DEF FilesInv, RequestOK, RestoreSave, DeleteObject, DeleteRecord, At
<1> QED
  BY <1>1, Invariance, PTL DEF Spec, OnlyOwnerOrAdminDisposes

(* What the nightly job destroys was in the trash for the retention time     *)
(* when the job started, or was put there again since; for any retention,    *)
(* and any restores and deletions while it works (files.service.ts:346).     *)
THEOREM RetentionKept == Spec => RetentionRespected
<1>1. FilesInv /\ [Next]_vars =>
        [\A f \in File :
           (CronObject(f) /\ InTrash(f)) =>
             \/ files[f].deletedAt + Retention <= cron.at
             \/ files[f].deletedAt >= cron.at]_vars
  BY DEF FilesInv, CronOK, CronObject, Due
<1> QED
  BY <1>1, Invariance, PTL DEF Spec, RetentionRespected

LEMMA NextUsesOneTimeCode ==
  ASSUME FilesInv, [Next]_vars
  PROVE  [Otc!OtcNext]_(Otc!otcVars)
<1>1. CASE UNCHANGED otp
  BY <1>1 DEF otp, Otc!otcVars
<1>2. ASSUME NEW S \in SUBSET live, Otc!Revoke(S) PROVE Otc!OtcNext
  BY <1>2 DEF Otc!OtcNext
<1>3. ASSUME NEW r \in Request, NEW u \in User, NEW f \in File \cup {Null},
             RequestOtp(r, u, f)
      PROVE  Otc!OtcNext
  BY <1>2, <1>3 DEF RequestOtp, LiveOf
<1>4. ASSUME NEW r \in Request, Step(r), ~UNCHANGED otp PROVE Otc!OtcNext
  <2>1. reqs[r] \in ReqState /\ RequestOK(r)
    BY DEF FilesInv, TypeOK
  <2>2. /\ reqs[r].file \in File \cup {Null}
        /\ reqs[r].pc # "idle" => reqs[r].user \in User
    BY <2>1 DEF ReqState, RequestOK
  <2>3. CASE SendOtpCreate(r)
    <3>1. Otc!Issue(reqs[r].user, DeleteFile, reqs[r].file)
      BY <1>4, <2>3 DEF SendOtpCreate
    <3>2. reqs[r].user \in User
      BY <2>2, <2>3 DEF SendOtpCreate, At
    <3> QED
      BY <2>2, <3>1, <3>2 DEF Otc!OtcNext
  <2>4. CASE AskOtp(r)
    <3>1. Otc!Ask(r, reqs[r].user, DeleteFile, reqs[r].file)
      BY <1>4, <2>4 DEF AskOtp
    <3>2. reqs[r].user \in User
      BY <2>2, <2>4 DEF AskOtp, At
    <3> QED
      BY <2>2, <3>1, <3>2 DEF Otc!OtcNext
  <2>5. CASE OtpAnswer(r) \/ OtpRefused(r) \/ Trash(r)
    <3>1. Otc!Accept(r) \/ Otc!Refuse(r) \/ Otc!Release(r)
      BY <2>5 DEF OtpAnswer, OtpRefused, Trash
    <3> QED
      BY <3>1 DEF Otc!OtcNext
  <2> QED
    BY <1>4, <2>3, <2>4, <2>5
       DEF Step, RestoreSave, DeleteObject, DeleteRecord, DeleteFails,
           ShareSave, UnshareSave
<1>5. ASSUME NEW i \in live, OtpExpires(i) PROVE Otc!OtcNext
  BY <1>2, <1>5 DEF OtpExpires
<1>6. CASE Restart
  BY <1>6 DEF Restart, Otc!OtcNext
<1> QED
  BY <1>1, <1>3, <1>4, <1>5, <1>6
     DEF Next, vars, Arrive, CronStep, Presign, Initiate, Put, UrlExpires,
         SaveMetadata, SoftDelete, BulkDelete, Restore, PermanentDelete,
         Share, Unshare, BulkRestore, CronFind, CronObject, CronRecord,
         CronFails, Tick

(* Every step of the file handlers does to the codes what OneTimeCode allows *)
(* or nothing, and Otp implements OneTimeCode: no handler asks for more than *)
(* the OTP service as it is keeps (files.service.ts:132, :255).              *)
THEOREM UsesOneTimeCode == Spec => Otc!OtcSpec
<1>1. Init => Otc!OtcInit
  BY DEF Init
<1>2. FilesInv /\ [Next]_vars => [Otc!OtcNext]_(Otc!otcVars)
  BY NextUsesOneTimeCode
<1> QED
  BY <1>1, <1>2, Invariance, PTL DEF Spec, Otc!OtcSpec
=============================================================================
