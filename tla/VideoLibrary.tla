--------------------------- MODULE VideoLibrary ---------------------------
(***************************************************************************)
(* Upload and download of videos (src/src/video): the video table, the     *)
(* files of video-storage, the VideoCreatedEvent and the download counter. *)
(* An upload is CreateVideoHandler.execute behind VideoController.upload,  *)
(* a download VideoService.download; each `await` ends a step.  The name   *)
(* of an upload doubles as the uuid of its row.  An operator placed just   *)
(* before another with the same parameters and used nowhere is a           *)
(* deliberately wrong variant of it, used to test the properties.          *)
(***************************************************************************)
EXTENDS Integers, Sequences, FiniteSets

CONSTANTS Uploads, Downloads,  \* the requests of each kind
          Names,     \* original file names, split at their dots
          Subtypes,  \* what follows the / in the mimetype of an upload
          Nothing,   \* no video
          Faulty     \* may statements and writes fail and the process exit?

Requests == Uploads \cup Downloads

ASSUME DisjointRequests == Uploads \cap Downloads = {}
ASSUME UploadsAreFinite == IsFiniteSet(Uploads) /\ IsFiniteSet(Downloads)
ASSUME NothingIsNoUpload == Nothing \notin Uploads
ASSUME NamesAreSequences == \A n \in Names : n \in Seq(STRING) /\ Len(n) > 0
ASSUME FaultyIsBoolean == Faulty \in BOOLEAN

VARIABLES clip,      \* clip[u]: name, subtype and validity of the uploaded file
          pc,        \* pc[r]: where the handler of r is
          videos,    \* ids of the committed rows of table video
          count,     \* count[v]: download_cnt of row v
          disk,      \* disk[u]: the file upload u writes
          published, \* ids whose VideoCreatedEvent was handled
          target,    \* target[d]: the id download d asks for
          seen       \* seen[d]: download_cnt in the row it read

vars == <<clip, pc, videos, count, disk, published, target, seen>>

Clip  == [name : Names, subtype : Subtypes, accepted : BOOLEAN]
File  == {"absent", "partial", "whole"}
UploadFlight   == {"insert", "open", "write", "commit", "publish", "rollback"}
DownloadFlight == {"increment", "stat", "stream"}
Final == {"ok", "unprocessable", "notFound", "error", "dropped"}

TypeOK ==
    /\ clip \in [Uploads -> Clip]
    /\ pc \in [Requests -> {"idle"} \cup UploadFlight \cup DownloadFlight \cup Final]
    /\ videos \subseteq Uploads
    /\ count \in [Uploads -> Nat]
    /\ disk \in [Uploads -> File]
    /\ published \subseteq Uploads
    /\ target \in [Downloads -> Uploads \cup {Nothing}]
    /\ seen \in [Downloads -> Nat]

Init ==
    /\ clip \in [Uploads -> Clip]
    /\ pc = [r \in Requests |-> "idle"]
    /\ videos = {}
    /\ count = [u \in Uploads |-> 0]
    /\ disk = [u \in Uploads |-> "absent"]
    /\ published = {}
    /\ target = [d \in Downloads |-> Nothing]
    /\ seen = [d \in Downloads |-> 0]

-----------------------------------------------------------------------------
Goto(r, label) == pc' = [pc EXCEPT ![r] = label]

(* originalname.split('.')[1]: the component after the first dot; a name   *)
(* without a dot gives undefined, which the path template prints.          *)
LastComponent(name) == name[Len(name)]
Extension(name) == IF Len(name) > 1 THEN name[2] ELSE "undefined"

(* mimetype.split('/')[1], the extension a download looks for.             *)
FoundOnDisk(v) == disk[v] # "absent" /\ Extension(clip[v].name) = clip[v].subtype

-----------------------------------------------------------------------------
(* UPLOAD.  The file pipe checks mimetype and size; the handler opens a    *)
(* transaction.                                                            *)
UploadReceive(u) ==
    /\ pc[u] = "idle"
    /\ Goto(u, IF clip[u].accepted THEN "insert" ELSE "unprocessable")
    /\ UNCHANGED <<clip, videos, count, disk, published, target, seen>>

(* The owner is read and the row inserted, visible to nobody before COMMIT.*)
UploadInsert(u) ==
    /\ pc[u] = "insert"
    /\ Goto(u, "open")
    /\ UNCHANGED <<clip, videos, count, disk, published, target, seen>>

(* writeFile creates the file, then fills it.                              *)
UploadOpen(u) ==
    /\ pc[u] = "open"
    /\ disk' = [disk EXCEPT ![u] = "partial"]
    /\ Goto(u, "write")
    /\ UNCHANGED <<clip, videos, count, published, target, seen>>

UploadNotAwaitingWrite(u) ==
    /\ pc[u] = "write"
    /\ Goto(u, "commit")
    /\ UNCHANGED <<clip, videos, count, disk, published, target, seen>>

UploadWrite(u) ==
    /\ pc[u] = "write"
    /\ disk' = [disk EXCEPT ![u] = "whole"]
    /\ Goto(u, "commit")
    /\ UNCHANGED <<clip, videos, count, published, target, seen>>

UploadNotAwaitingCommit(u) ==
    /\ pc[u] = "commit"
    /\ Goto(u, "publish")
    /\ UNCHANGED <<clip, videos, count, disk, published, target, seen>>

(* COMMIT takes effect; if its answer is lost the handler still goes to    *)
(* its catch block.                                                        *)
UploadCommit(u) ==
    /\ pc[u] = "commit"
    /\ videos' = videos \cup {u}
    /\ Goto(u, "publish") \/ (Faulty /\ Goto(u, "rollback"))
    /\ UNCHANGED <<clip, count, disk, published, target, seen>>

UploadForgetsEvent(u) ==
    /\ pc[u] = "publish"
    /\ Goto(u, "ok")
    /\ UNCHANGED <<clip, videos, count, disk, published, target, seen>>

(* The event reaches its handler in the same turn of the event loop; the   *)
(* connection is released and the request answered.                        *)
UploadPublish(u) ==
    /\ pc[u] = "publish"
    /\ published' = published \cup {u}
    /\ Goto(u, "ok")
    /\ UNCHANGED <<clip, videos, count, disk, target, seen>>

(* A statement or the write fails: the catch block rolls back, and leaves  *)
(* the file as it is.                                                      *)
UploadFails(u) ==
    /\ Faulty
    /\ pc[u] \in {"insert", "open", "write", "commit"}
    /\ Goto(u, "rollback")
    /\ UNCHANGED <<clip, videos, count, disk, published, target, seen>>

UploadStaysOpen(u) ==
    /\ pc[u] = "rollback" /\ u \notin videos
    /\ Goto(u, "error")
    /\ UNCHANGED <<clip, videos, count, disk, published, target, seen>>

UploadRollback(u) ==
    /\ pc[u] = "rollback"
    /\ Goto(u, "error")
    /\ UNCHANGED <<clip, videos, count, disk, published, target, seen>>

-----------------------------------------------------------------------------
(* DOWNLOAD.  The row is read whole, counter included.                     *)
DownloadFind(d) ==
    /\ pc[d] = "idle"
    /\ \E v \in Uploads :
          /\ target' = [target EXCEPT ![d] = v]
          /\ Goto(d, IF v \in videos THEN "increment" ELSE "notFound")
          /\ seen' = [seen EXCEPT ![d] = count[v]]
    /\ UNCHANGED <<clip, videos, count, disk, published>>

OneLess(d)         == count[target[d]] - 1
OneMoreThanSeen(d) == seen[d] + 1
OneMore(d)         == count[target[d]] + 1

(* UPDATE ... SET download_cnt = download_cnt + 1, evaluated by the        *)
(* database on the row as it then is.                                      *)
DownloadIncrement(d) ==
    /\ pc[d] = "increment"
    /\ count' = [count EXCEPT ![target[d]] = OneMore(d)]
    /\ Goto(d, "stat") \/ (Faulty /\ Goto(d, "error"))
    /\ UNCHANGED <<clip, videos, disk, published, target, seen>>

(* stat fails when no file has the name the mimetype suggests.             *)
DownloadStat(d) ==
    /\ pc[d] = "stat"
    /\ Goto(d, IF FoundOnDisk(target[d]) THEN "stream" ELSE "error")
    /\ UNCHANGED <<clip, videos, count, disk, published, target, seen>>

DownloadStream(d) ==
    /\ pc[d] = "stream"
    /\ Goto(d, "ok")
    /\ UNCHANGED <<clip, videos, count, disk, published, target, seen>>

(* The lookup, a statement, stat or the stream fails.                      *)
DownloadFails(d) ==
    /\ Faulty
    /\ pc[d] \in {"idle"} \cup DownloadFlight
    /\ Goto(d, "error")
    /\ UNCHANGED <<clip, videos, count, disk, published, target, seen>>

-----------------------------------------------------------------------------
(* The process exits and is started again.  Rows that were not committed   *)
(* are gone, files stay as they were.                                      *)
Crash ==
    /\ Faulty
    /\ pc' = [r \in Requests |-> IF pc[r] \in UploadFlight \cup DownloadFlight
                                 THEN "dropped" ELSE pc[r]]
    /\ UNCHANGED <<clip, videos, count, disk, published, target, seen>>

UploadStep(u) == UploadReceive(u) \/ UploadInsert(u) \/ UploadOpen(u) \/ UploadWrite(u)
                 \/ UploadCommit(u) \/ UploadPublish(u) \/ UploadRollback(u)
DownloadStep(d) == DownloadFind(d) \/ DownloadIncrement(d) \/ DownloadStat(d)
                   \/ DownloadStream(d)

Next ==
    \/ \E u \in Uploads : UploadStep(u) \/ UploadFails(u)
    \/ \E d \in Downloads : DownloadStep(d) \/ DownloadFails(d)
    \/ Crash

Spec == Init /\ [][Next]_vars

(* Statements and writes finish or fail, and the event loop resumes every  *)
(* handler that was started.                                               *)
Fairness ==
    /\ \A u \in Uploads : WF_vars(pc[u] # "idle" /\ UploadStep(u))
    /\ \A d \in Downloads : WF_vars(pc[d] # "idle" /\ DownloadStep(d))

FairSpec == Spec /\ Fairness

-----------------------------------------------------------------------------
(* PROPERTIES                                                              *)

(* A video that can be found has its whole file, whatever fails or crashes *)
(* between the INSERT, the write and COMMIT (create-video.handler.ts:48-54)*)
FoundVideosAreWhole == \A v \in videos : disk[v] = "whole"

(* No event and no successful answer for a video that a crash could still  *)
(* take back (create-video.handler.ts:54-59).                              *)
AnnouncedIsCommitted == \A u \in Uploads : u \in published \/ pc[u] = "ok" => u \in videos

(* Concurrent downloads lose no count and count nothing twice: the counter *)
(* is at least the number of downloads being served and at most that of    *)
(* the downloads past the UPDATE, the failed ones included                 *)
(* (video.service.ts:42-46).                                               *)
Of(v, places) == {d \in Downloads : target[d] = v /\ pc[d] \in places}
Served  == {"stat", "stream", "ok"}
Counted == Served \cup {"error", "dropped"}

CountCoversDownloads ==
    \A v \in Uploads : /\ Cardinality(Of(v, Served)) <= count[v]
                       /\ count[v] <= Cardinality(Of(v, Counted))

(* A committed video has its event, or the upload is about to publish it,  *)
(* or a fault kept its client from a success: what COMMIT made visible is  *)
(* never silently left without (create-video.handler.ts:54-57,             *)
(* video-created.handler.ts:20).                                           *)
EventUnderWay ==
    \A u \in videos :
        u \in published \/ pc[u] = "publish" \/ (Faulty /\ pc[u] \in {"rollback", "error", "dropped"})

(* Every upload and download that was started is answered, or dropped by a *)
(* crash (create-video.handler.ts:60-68).                                  *)
EveryRequestEnds == \A r \in Requests : pc[r] # "idle" ~> pc[r] \in Final

(* Table, directory and counter together implement Library                 *)
(* (create-video.handler.ts:48-54, video.service.ts:46).                   *)
Promise == INSTANCE Library WITH Ids <- Uploads, listed <- videos, views <- count,
                                 stored <- {u \in Uploads : disk[u] = "whole"}
ImplementsLibrary == Promise!Spec

(* What a guide says, and the code does not do.                            *)

(* The file is stored under the extension of its name, what follows the    *)
(* last dot (CODE_ANALYSIS_GUIDE.md:234), so that a clip whose name ends   *)
(* in the subtype of its mimetype can be downloaded.                       *)
NamedClipsAreServed ==
    \A d \in Downloads :
        ( /\ target[d] \in videos
          /\ LastComponent(clip[target[d]].name) = clip[target[d]].subtype ) => pc[d] # "error"
=============================================================================
