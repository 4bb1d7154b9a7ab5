------------------------- MODULE VideoLibraryProofs -------------------------
(***************************************************************************)
(* Theorems about VideoLibrary, for any sets of uploads, downloads and     *)
(* file names, with and without faults.                                    *)
(***************************************************************************)
EXTENDS VideoLibrary, FiniteSetTheorems, TLAPS

(* An upload has no file before it opens one, and its whole file when it   *)
(* sends COMMIT; one that is past COMMIT without a failure is committed; a *)
(* committed one is past it.                                               *)
UploadsInOrder ==
    \A u \in Uploads :
        /\ pc[u] \in {"idle", "insert", "open"} => disk[u] = "absent"
        /\ pc[u] = "commit" => disk[u] = "whole"
        /\ pc[u] = "publish" => u \in videos
        /\ u \in videos => pc[u] \in {"publish", "ok", "rollback", "error", "dropped"}

(* A download in flight asks for a committed video.                        *)
DownloadsFound == \A d \in Downloads : pc[d] \in DownloadFlight => target[d] \in videos

IInv == /\ TypeOK
        /\ FoundVideosAreWhole
        /\ AnnouncedIsCommitted
        /\ UploadsInOrder
        /\ DownloadsFound

USE DisjointRequests, NothingIsNoUpload DEF Requests

(* The initial states satisfy the invariant.                               *)
LEMMA Start == Init => IInv
BY DEF Init, IInv, TypeOK, FoundVideosAreWhole, AnnouncedIsCommitted, UploadsInOrder,
       DownloadsFound, File, DownloadFlight

(* Every step preserves the invariant: one step per action.                *)
LEMMA Step ==
  ASSUME IInv, [Next]_vars
  PROVE  IInv'
<1> USE DEF IInv, TypeOK, FoundVideosAreWhole, AnnouncedIsCommitted, UploadsInOrder,
            DownloadsFound, Goto, File, UploadFlight, DownloadFlight, Final
<1>1. ASSUME NEW u \in Uploads, UploadReceive(u) PROVE IInv'
  BY <1>1 DEF UploadReceive
<1>2. ASSUME NEW u \in Uploads, UploadInsert(u) PROVE IInv'
  BY <1>2 DEF UploadInsert
<1>3. ASSUME NEW u \in Uploads, UploadOpen(u) PROVE IInv'
  BY <1>3 DEF UploadOpen
<1>4. ASSUME NEW u \in Uploads, UploadWrite(u) PROVE IInv'
  BY <1>4 DEF UploadWrite
<1>5. ASSUME NEW u \in Uploads, UploadCommit(u) PROVE IInv'
  BY <1>5 DEF UploadCommit
<1>6. ASSUME NEW u \in Uploads, UploadPublish(u) PROVE IInv'
  BY <1>6 DEF UploadPublish
<1>7. ASSUME NEW u \in Uploads, UploadRollback(u) PROVE IInv'
  BY <1>7 DEF UploadRollback
<1>8. ASSUME NEW u \in Uploads, UploadFails(u) PROVE IInv'
  BY <1>8 DEF UploadFails
<1>9. ASSUME NEW d \in Downloads, DownloadFind(d) PROVE IInv'
  BY <1>9 DEF DownloadFind
<1>10. ASSUME NEW d \in Downloads, DownloadIncrement(d) PROVE IInv'
  BY <1>10 DEF DownloadIncrement, OneMore
<1>11. ASSUME NEW d \in Downloads, DownloadStat(d) PROVE IInv'
  BY <1>11 DEF DownloadStat
<1>12. ASSUME NEW d \in Downloads, DownloadStream(d) \/ DownloadFails(d) PROVE IInv'
  BY <1>12 DEF DownloadStream, DownloadFails
<1>13. CASE Crash
  BY <1>13 DEF Crash
<1>14. CASE UNCHANGED vars
  BY <1>14 DEF vars
<1>. QED
  BY <1>1, <1>2, <1>3, <1>4, <1>5, <1>6, <1>7, <1>8, <1>9, <1>10, <1>11, <1>12, <1>13, <1>14
  DEF Next, UploadStep, DownloadStep

(* The inductive invariant, from which the theorems below follow.          *)
THEOREM Invariance == Spec => []IInv
<1>1. IInv /\ [Next]_vars => IInv'
  BY Step
<1>. QED BY Start, <1>1, PTL DEF Spec

(* A video that can be found has its whole file, under every failure and   *)
(* crash (create-video.handler.ts:44-68).                                  *)
THEOREM VideosAreWhole == Spec => []FoundVideosAreWhole
<1>1. IInv => FoundVideosAreWhole
  BY DEF IInv
<1>. QED BY Invariance, <1>1, PTL

(* Nothing is announced before it is committed                             *)
(* (create-video.handler.ts:51-59).                                        *)
THEOREM AnnouncementsAreTrue == Spec => []AnnouncedIsCommitted
<1>1. IInv => AnnouncedIsCommitted
  BY DEF IInv
<1>. QED BY Invariance, <1>1, PTL

(* Uploads, downloads, files and rows keep their types                     *)
(* (create-video.handler.ts:28-69, video.service.ts:47-53).                *)
THEOREM LibraryTypes == Spec => []TypeOK
<1>1. IInv => TypeOK
  BY DEF IInv
<1>. QED BY Invariance, <1>1, PTL

(* Whichever way an upload fails after its COMMIT, its client is told so,  *)
(* or cut off, and without faults every committed video gets its event     *)
(* (create-video.handler.ts:54-57).                                        *)
THEOREM EventsAreUnderWay == Spec => []EventUnderWay
<1>1. Init => EventUnderWay
  BY DEF Init, EventUnderWay
<1>2. IInv /\ EventUnderWay /\ [Next]_vars => EventUnderWay'
  <2> SUFFICES ASSUME IInv, EventUnderWay, [Next]_vars PROVE EventUnderWay'
    OBVIOUS
  <2> USE DEF EventUnderWay, IInv, TypeOK, Goto, UploadsInOrder
  <2>1. ASSUME NEW u \in Uploads, UploadReceive(u) \/ UploadInsert(u) \/ UploadOpen(u) \/ UploadWrite(u)
        PROVE  EventUnderWay'
    BY <2>1 DEF UploadReceive, UploadInsert, UploadOpen, UploadWrite
  <2>2. ASSUME NEW u \in Uploads, UploadCommit(u) \/ UploadPublish(u) PROVE EventUnderWay'
    BY <2>2 DEF UploadCommit, UploadPublish
  <2>3. ASSUME NEW u \in Uploads, UploadRollback(u) \/ UploadFails(u) PROVE EventUnderWay'
    BY <2>3 DEF UploadRollback, UploadFails
  <2>4. ASSUME NEW d \in Downloads, DownloadStep(d) \/ DownloadFails(d)
        PROVE  UNCHANGED <<videos, published>> /\ \A u \in Uploads : pc'[u] = pc[u]
    BY <2>4 DEF DownloadStep, DownloadFind, DownloadIncrement, DownloadStat, DownloadStream, DownloadFails
  <2>5. CASE Crash
    BY <2>5 DEF Crash, UploadFlight, DownloadFlight
  <2>6. CASE UNCHANGED vars
    BY <2>6 DEF vars
  <2>. QED BY <2>1, <2>2, <2>3, <2>4, <2>5, <2>6 DEF Next, UploadStep
<1>. QED BY Invariance, <1>1, <1>2, PTL DEF Spec

-----------------------------------------------------------------------------
(* The counter.                                                            *)

(* The sets of downloads are finite and their cardinalities monotone.      *)
LEMMA OfIsFinite ==
    \A v, P : IsFiniteSet(Of(v, P)) /\ Cardinality(Of(v, P)) \in Nat
BY UploadsAreFinite, FS_Subset, FS_CardinalityType DEF Of

(* Whatever serves no more and counts no less keeps the counter in bounds. *)
LEMMA CountKept ==
  ASSUME TypeOK, CountCoversDownloads, count' = count,
         \A v \in Uploads : /\ Of(v, Served)' \subseteq Of(v, Served)
                            /\ Of(v, Counted) \subseteq Of(v, Counted)'
  PROVE  CountCoversDownloads'
<1> SUFFICES ASSUME NEW v \in Uploads
             PROVE  /\ Cardinality(Of(v, Served)') <= count[v]
                    /\ count[v] <= Cardinality(Of(v, Counted)')
  BY DEF CountCoversDownloads
<1>1. IsFiniteSet(Of(v, Counted)') /\ Cardinality(Of(v, Counted)') \in Nat
  <2>1. Of(v, Counted)' \subseteq Downloads
    BY DEF Of
  <2>. QED BY <2>1, UploadsAreFinite, FS_Subset, FS_CardinalityType
<1>2. Cardinality(Of(v, Served)') <= Cardinality(Of(v, Served))
  BY OfIsFinite, FS_Subset
<1>3. Cardinality(Of(v, Served)') \in Nat
  BY OfIsFinite, FS_Subset, FS_CardinalityType
<1>4. Cardinality(Of(v, Counted)) <= Cardinality(Of(v, Counted)')
  BY <1>1, FS_Subset
<1>5. Cardinality(Of(v, Served)) <= count[v] /\ count[v] <= Cardinality(Of(v, Counted))
  BY DEF CountCoversDownloads
<1>6. count[v] \in Nat /\ Cardinality(Of(v, Served)) \in Nat /\ Cardinality(Of(v, Counted)) \in Nat
  BY OfIsFinite DEF TypeOK
<1>. QED BY <1>1, <1>2, <1>3, <1>4, <1>5, <1>6

(* The UPDATE counts exactly the download that sent it.                    *)
LEMMA CountIncremented ==
  ASSUME IInv, CountCoversDownloads, NEW d \in Downloads, DownloadIncrement(d)
  PROVE  CountCoversDownloads'
<1>0. PICK t \in Uploads : t = target[d] /\ pc[d] = "increment" /\ target' = target
  BY DEF IInv, DownloadsFound, DownloadFlight, DownloadIncrement, TypeOK
<1>1. /\ Of(t, Served)' \subseteq Of(t, Served) \cup {d}
      /\ Of(t, Counted)' = Of(t, Counted) \cup {d}
      /\ d \notin Of(t, Counted)
  BY <1>0 DEF DownloadIncrement, Goto, Of, Served, Counted, IInv, TypeOK
<1>2. \A v \in Uploads : v # t => /\ Of(v, Served)' = Of(v, Served)
                                  /\ Of(v, Counted)' = Of(v, Counted)
  BY <1>0 DEF DownloadIncrement, Goto, Of, Served, Counted, IInv, TypeOK
<1>3. count' = [count EXCEPT ![t] = count[t] + 1]
  BY <1>0 DEF DownloadIncrement, OneMore
<1>4. Cardinality(Of(t, Counted)') = Cardinality(Of(t, Counted)) + 1
  BY <1>1, OfIsFinite, FS_AddElement
<1>5. Cardinality(Of(t, Served)') <= Cardinality(Of(t, Served)) + 1
  <2>1. /\ IsFiniteSet(Of(t, Served) \cup {d})
        /\ Cardinality(Of(t, Served) \cup {d}) <= Cardinality(Of(t, Served)) + 1
        /\ Cardinality(Of(t, Served) \cup {d}) \in Nat
    <3>1. IsFiniteSet(Of(t, Served)) /\ Cardinality(Of(t, Served)) \in Nat
      BY OfIsFinite
    <3>2. /\ IsFiniteSet(Of(t, Served) \cup {d})
          /\ \/ Cardinality(Of(t, Served) \cup {d}) = Cardinality(Of(t, Served))
             \/ Cardinality(Of(t, Served) \cup {d}) = Cardinality(Of(t, Served)) + 1
      BY <3>1, FS_AddElement
    <3>. QED BY <3>1, <3>2
  <2>2. Cardinality(Of(t, Served)') <= Cardinality(Of(t, Served) \cup {d})
    BY <1>1, <2>1, FS_Subset
  <2>3. Cardinality(Of(t, Served)') \in Nat
    BY <1>1, <2>1, FS_Subset, FS_CardinalityType
  <2>. QED BY <2>1, <2>2, <2>3, OfIsFinite
<1>6. \A v \in Uploads : /\ count[v] \in Nat
                         /\ Cardinality(Of(v, Served)) \in Nat /\ Cardinality(Of(v, Counted)) \in Nat
  BY OfIsFinite DEF IInv, TypeOK
<1>7. Cardinality(Of(t, Served)') \in Nat
  <2>1. IsFiniteSet(Of(t, Served) \cup {d})
    BY OfIsFinite, FS_AddElement
  <2>. QED BY <1>1, <2>1, FS_Subset, FS_CardinalityType
<1>8. /\ Cardinality(Of(t, Served)') <= count[t] + 1
      /\ count[t] + 1 <= Cardinality(Of(t, Counted)')
  BY <1>0, <1>4, <1>5, <1>6, <1>7 DEF CountCoversDownloads
<1>9. \A v \in Uploads : /\ Cardinality(Of(v, Served)') <= count'[v]
                         /\ count'[v] <= Cardinality(Of(v, Counted)')
  <2>1. count'[t] = count[t] + 1 /\ \A v \in Uploads : v # t => count'[v] = count[v]
    BY <1>0, <1>3 DEF IInv, TypeOK
  <2>2. ASSUME NEW v \in Uploads, v # t
        PROVE  Cardinality(Of(v, Served)') <= count'[v] /\ count'[v] <= Cardinality(Of(v, Counted)')
    <3>1. Of(v, Served)' = Of(v, Served) /\ Of(v, Counted)' = Of(v, Counted) /\ count'[v] = count[v]
      BY <1>2, <2>1, <2>2
    <3>. QED BY <3>1 DEF CountCoversDownloads
  <2>3. Cardinality(Of(t, Served)') <= count'[t] /\ count'[t] <= Cardinality(Of(t, Counted)')
    BY <1>8, <2>1
  <2> SUFFICES ASSUME NEW v \in Uploads
               PROVE  /\ Cardinality(Of(v, Served)') <= count'[v]
                      /\ count'[v] <= Cardinality(Of(v, Counted)')
    OBVIOUS
  <2>4. CASE v = t
    BY <2>3, <2>4
  <2>. QED BY <2>2, <2>4
<1>. QED BY <1>9 DEF CountCoversDownloads

(* No step but the UPDATE serves or counts another download.               *)
LEMMA CountStep ==
  ASSUME IInv, CountCoversDownloads, [Next]_vars
  PROVE  CountCoversDownloads'
<1>1. ASSUME NEW d \in Downloads, DownloadIncrement(d) PROVE CountCoversDownloads'
  BY <1>1, CountIncremented
<1> USE DEF Of, Served, Counted, Goto, IInv, TypeOK, UploadFlight, DownloadFlight
<1>2. ASSUME NEW u \in Uploads, UploadStep(u) \/ UploadFails(u)
      PROVE  /\ count' = count
             /\ \A d \in Downloads : pc'[d] = pc[d] /\ target'[d] = target[d]
  BY <1>2 DEF UploadStep, UploadReceive, UploadInsert, UploadOpen, UploadWrite, UploadCommit,
              UploadPublish, UploadRollback, UploadFails
<1>3. ASSUME NEW u \in Uploads, UploadStep(u) \/ UploadFails(u) PROVE CountCoversDownloads'
  BY <1>2, <1>3, CountKept
<1>4. ASSUME NEW d \in Downloads,
             DownloadFind(d) \/ DownloadStat(d) \/ DownloadStream(d) \/ DownloadFails(d)
      PROVE  CountCoversDownloads'
  <2>1. /\ count' = count
        /\ \A v \in Uploads : /\ Of(v, Served)' \subseteq Of(v, Served)
                              /\ Of(v, Counted) \subseteq Of(v, Counted)'
    BY <1>4 DEF DownloadFind, DownloadStat, DownloadStream, DownloadFails
  <2>. QED BY <2>1, CountKept
<1>5. CASE Crash
  <2>1. /\ count' = count
        /\ \A v \in Uploads : /\ Of(v, Served)' \subseteq Of(v, Served)
                              /\ Of(v, Counted) \subseteq Of(v, Counted)'
    BY <1>5 DEF Crash
  <2>. QED BY <2>1, CountKept
<1>6. CASE UNCHANGED vars
  <2>1. /\ count' = count
        /\ \A v \in Uploads : /\ Of(v, Served)' \subseteq Of(v, Served)
                              /\ Of(v, Counted) \subseteq Of(v, Counted)'
    BY <1>6 DEF vars
  <2>. QED BY <2>1, CountKept
<1>. QED BY <1>1, <1>3, <1>4, <1>5, <1>6 DEF Next, DownloadStep

(* However many downloads of however many videos interleave, fail or are   *)
(* cut off, the counter covers those served and only those counted         *)
(* (video.service.ts:42-46).                                               *)
THEOREM CountsAreExact == Spec => []CountCoversDownloads
<1>1. Init => CountCoversDownloads
  <2> SUFFICES ASSUME Init, NEW v \in Uploads
               PROVE  Cardinality(Of(v, Served)) <= count[v] /\ count[v] <= Cardinality(Of(v, Counted))
    BY DEF CountCoversDownloads
  <2>1. Of(v, Served) = {} /\ Of(v, Counted) = {}
    BY DEF Init, Of, Served, Counted
  <2>2. count[v] = 0
    BY DEF Init
  <2>. QED BY <2>1, <2>2, FS_EmptySet
<1>2. IInv /\ CountCoversDownloads /\ [Next]_vars => CountCoversDownloads'
  BY CountStep
<1>. QED BY Invariance, <1>1, <1>2, PTL DEF Spec

-----------------------------------------------------------------------------
(* VideoLibrary implements Library.                                        *)

(* Every step is a step of Library or leaves its variables alone.          *)
LEMMA Simulation ==
  ASSUME IInv, IInv', [Next]_vars
  PROVE  [Promise!Next]_(Promise!vars)
<1> USE DEF IInv, TypeOK, Goto
<1>1. ASSUME disk' = disk, videos' = videos, count' = count PROVE UNCHANGED Promise!vars
  BY <1>1 DEF Promise!vars
<1>2. ASSUME NEW u \in Uploads, UploadOpen(u) PROVE UNCHANGED Promise!vars
  <2>1. disk[u] # "whole"
    BY <1>2 DEF UploadOpen, UploadsInOrder
  <2>. QED BY <1>2, <2>1 DEF UploadOpen, Promise!vars
<1>3. ASSUME NEW u \in Uploads, UploadWrite(u) PROVE Promise!Store(u)
  BY <1>3 DEF UploadWrite, Promise!Store
<1>4. ASSUME NEW u \in Uploads, UploadCommit(u) PROVE Promise!List(u)
  BY <1>4 DEF UploadCommit, Promise!List, UploadsInOrder
<1>5. ASSUME NEW d \in Downloads, DownloadIncrement(d) PROVE Promise!View(target[d])
  BY <1>5 DEF DownloadIncrement, OneMore, Promise!View, DownloadsFound, DownloadFlight
<1>6. ASSUME NEW d \in Downloads, DownloadIncrement(d) PROVE target[d] \in Uploads
  BY <1>6 DEF DownloadIncrement, DownloadsFound, DownloadFlight
<1>7. CASE \/ \E u \in Uploads : UploadReceive(u) \/ UploadInsert(u) \/ UploadPublish(u)
                                 \/ UploadRollback(u) \/ UploadFails(u)
           \/ \E d \in Downloads : DownloadFind(d) \/ DownloadStat(d) \/ DownloadStream(d)
                                   \/ DownloadFails(d)
           \/ Crash \/ UNCHANGED vars
  <2>1. disk' = disk /\ videos' = videos /\ count' = count
    BY <1>7 DEF UploadReceive, UploadInsert, UploadPublish, UploadRollback, UploadFails,
                DownloadFind, DownloadStat, DownloadStream, DownloadFails, Crash, vars
  <2>. QED BY <1>1, <2>1
<1>. QED
  BY <1>2, <1>3, <1>4, <1>5, <1>6, <1>7 DEF Next, UploadStep, DownloadStep, Promise!Next

(* A video is listed once its file is complete, stays listed and complete, *)
(* and its views grow one at a time (create-video.handler.ts:48-54,        *)
(* video.service.ts:46).                                                   *)
THEOREM Refinement == Spec => ImplementsLibrary
<1>1. Init => Promise!Init
  BY DEF Init, Promise!Init
<1>2. IInv /\ IInv' /\ [Next]_vars => [Promise!Next]_(Promise!vars)
  BY Simulation
<1>. QED BY Invariance, <1>1, <1>2, PTL DEF Spec, ImplementsLibrary, Promise!Spec

-----------------------------------------------------------------------------
(* A download fails only for a clip that is stored under an extension      *)
(* which is not its subtype.                                               *)
FailedForItsName ==
    \A d \in Downloads : pc[d] = "error" =>
        /\ target[d] \in Uploads
        /\ Extension(clip[target[d]].name) # clip[target[d]].subtype

(* Without faults nothing but that name makes a download fail: the file of *)
(* every video it can find is there and whole (create-video.handler.ts:51, *)
(* video.service.ts:46-53).                                                *)
THEOREM OnlyNamesFail ==
  ASSUME ~Faulty
  PROVE  Spec => []FailedForItsName
<1>1. Init => FailedForItsName
  BY DEF Init, FailedForItsName
<1>2. IInv /\ FailedForItsName /\ [Next]_vars => FailedForItsName'
  <2> SUFFICES ASSUME IInv, FailedForItsName, [Next]_vars PROVE FailedForItsName'
    OBVIOUS
  <2> USE DEF FailedForItsName, IInv, TypeOK, Goto
  <2>1. ASSUME NEW u \in Uploads, UploadStep(u) \/ UploadFails(u) PROVE FailedForItsName'
    BY <2>1 DEF UploadStep, UploadReceive, UploadInsert, UploadOpen, UploadWrite, UploadCommit,
                UploadPublish, UploadRollback, UploadFails
  <2>2. ASSUME NEW d \in Downloads, DownloadFind(d) PROVE FailedForItsName'
    BY <2>2 DEF DownloadFind
  <2>3. ASSUME NEW d \in Downloads, DownloadStat(d) PROVE FailedForItsName'
    <3>1. target[d] \in Uploads /\ disk[target[d]] = "whole"
      BY <2>3 DEF DownloadStat, DownloadsFound, DownloadFlight, FoundVideosAreWhole
    <3>. QED BY <2>3, <3>1 DEF DownloadStat, FoundOnDisk
  <2>4. ASSUME NEW d \in Downloads, DownloadIncrement(d) \/ DownloadStream(d) \/ DownloadFails(d)
        PROVE  FailedForItsName'
    BY <2>4 DEF DownloadIncrement, DownloadStream, DownloadFails
  <2>5. CASE Crash \/ UNCHANGED vars
    BY <2>5 DEF Crash, vars
  <2>. QED BY <2>1, <2>2, <2>3, <2>4, <2>5 DEF Next, DownloadStep
<1>. QED BY Invariance, <1>1, <1>2, PTL DEF Spec

(* So the guide is right about names with exactly one dot: there the first *)
(* extension is the last (video.controller.ts:291,                         *)
(* CODE_ANALYSIS_GUIDE.md:234).                                            *)
THEOREM OneDotIsServed ==
  ASSUME ~Faulty, \A name \in Names : Len(name) = 2
  PROVE  Spec => []NamedClipsAreServed
<1>1. IInv /\ FailedForItsName => NamedClipsAreServed
  <2> SUFFICES ASSUME IInv, FailedForItsName, NEW d \in Downloads, pc[d] = "error",
                      NEW name, name = clip[target[d]].name
               PROVE  LastComponent(name) # clip[target[d]].subtype
    BY DEF NamedClipsAreServed
  <2>1. name \in Names
    BY DEF FailedForItsName, IInv, TypeOK, Clip
  <2>2. LastComponent(name) = Extension(name)
    BY <2>1 DEF LastComponent, Extension
  <2>. QED BY <2>2 DEF FailedForItsName
<1>. QED BY Invariance, OnlyNamesFail, <1>1, PTL
=============================================================================
