----------------------------- MODULE Catalogue -----------------------------
(***************************************************************************)
(* What reads the video table while uploads and downloads change it: the   *)
(* paged list (FindVideosQueryHandler behind VideoController.findAll) and  *)
(* the daily report of the most downloaded videos (AnalyticsService).      *)
(* Both find() calls join the owner and limit the rows, and TypeORM turns  *)
(* each into two statements: the ids of the page, then their rows.  No     *)
(* code deletes a video.  An operator placed before another with the same  *)
(* parameters and used nowhere is a deliberately wrong variant of it, used *)
(* to test the properties.                                                 *)
(***************************************************************************)
EXTENDS Integers, FiniteSets

CONSTANTS Ids,        \* uuids, as numbers: only their order matters
          FirstPages, \* where clients begin: the first page, or before it
          Sizes,      \* sizes they ask for; @IsInt is all the DTO demands
          Top,        \* the 5 of findTop5Download
          MaxViews    \* bound on each download counter

ASSUME IdsAreOrdered  == Ids \subseteq Nat /\ IsFiniteSet(Ids)
ASSUME WalksBeginInFront == FirstPages \subseteq Int /\ \A page \in FirstPages : page <= 1
ASSUME SizesAreNumbers == Sizes \subseteq Int
ASSUME TopIsPositive  == Top \in Nat \ {0}
ASSUME MaxViewsIsNumber == MaxViews \in Nat

VARIABLES videos,   \* ids of the committed rows
          count,    \* count[v]: download_cnt
          walk,     \* a client that asks for page after page
          report,   \* the handler of the daily job
          settings  \* email.enabled, and is NODE_ENV production?

vars == <<videos, count, walk, report, settings>>

Walk == [pc : {"idle", "ask", "rows", "done", "failed"}, page : Int, size : Int,
         ids : SUBSET Ids,        \* result of the first statement
         got : SUBSET Ids,        \* videos the client has seen so far
         delivered : Nat,         \* items it was sent, repeats included
         start : SUBSET Ids]      \* the videos when it began (history)

Report == [pc : {"idle", "rows", "send", "done", "failed"},
           ids : SUBSET Ids,      \* result of the first statement
           printed : [Ids -> Nat], \* counter each id of ids is printed with
           mailed : BOOLEAN,      \* did the mail server take the message?
           asked : SUBSET Ids,    \* videos and counters when the first
           before : [Ids -> Nat]] \*   statement was answered (history)

TypeOK ==
    /\ videos \subseteq Ids
    /\ count \in [Ids -> Nat]
    /\ walk \in Walk
    /\ report \in Report
    /\ settings \in [enabled : BOOLEAN, production : BOOLEAN]

Zero == [v \in Ids |-> 0]

Init ==
    /\ videos \in SUBSET Ids
    /\ count = Zero
    /\ walk = [pc |-> "idle", page |-> 1, size |-> 20, ids |-> {}, got |-> {},
               delivered |-> 0, start |-> {}]
    /\ report = [pc |-> "idle", ids |-> {}, printed |-> Zero, mailed |-> FALSE,
                 asked |-> {}, before |-> Zero]
    /\ settings \in [enabled : BOOLEAN, production : BOOLEAN]

-----------------------------------------------------------------------------
(* UPLOADS AND DOWNLOADS, as far as readers notice them: VideoLibrary has  *)
(* their steps.                                                            *)
Insert(v) ==
    /\ v \notin videos
    /\ videos' = videos \cup {v}
    /\ UNCHANGED <<count, walk, report, settings>>

OneLess(v) == count[v] - 1
OneMore(v) == count[v] + 1

View(v) ==
    /\ v \in videos
    /\ count[v] < MaxViews
    /\ count' = [count EXCEPT ![v] = OneMore(v)]
    /\ UNCHANGED <<videos, walk, report, settings>>

-----------------------------------------------------------------------------
(* THE LIST.  The first statement numbers the rows by id.                  *)
SkipFromZero(page, size)     == page * size
SkipOverlapping(page, size)  == (page - 1) * (size - 1)
Skip(page, size)             == (page - 1) * size

Rank(v) == Cardinality({w \in videos : w < v})

(* A size of zero is no limit, since TypeORM asks whether take is truthy;  *)
(* the database refuses a negative OFFSET or LIMIT.                        *)
Refused(page, size) == Skip(page, size) < 0 \/ size < 0

PageIds(page, size) ==
    IF size = 0 THEN videos
    ELSE {v \in videos : Skip(page, size) <= Rank(v) /\ Rank(v) < Skip(page, size) + size}

WalkBegin(page, size) ==
    /\ walk.pc = "idle"
    /\ walk' = [walk EXCEPT !.pc = "ask", !.page = page, !.size = size, !.start = videos]
    /\ UNCHANGED <<videos, count, report, settings>>

WalkAsk ==
    /\ walk.pc = "ask"
    /\ walk' = IF Refused(walk.page, walk.size)
               THEN [walk EXCEPT !.pc = "failed"]
               ELSE [walk EXCEPT !.pc = "rows", !.ids = PageIds(walk.page, walk.size)]
    /\ UNCHANGED <<videos, count, report, settings>>

(* The rows arrive and are answered; the client asks for the next page     *)
(* until one is short.                                                     *)
WalkRows ==
    /\ walk.pc = "rows"
    /\ LET last == walk.size = 0 \/ Cardinality(walk.ids) < walk.size
       IN walk' = [walk EXCEPT !.pc = IF last THEN "done" ELSE "ask",
                               !.page = IF last THEN @ ELSE @ + 1,
                               !.got = @ \cup walk.ids,
                               !.delivered = @ + Cardinality(walk.ids)]
    /\ UNCHANGED <<videos, count, report, settings>>

-----------------------------------------------------------------------------
(* THE DAILY REPORT.  ORDER BY download_cnt DESC, then by id.              *)
FewerDownloads(v, w) == count[v] < count[w] \/ (count[v] = count[w] /\ v < w)
Precedes(v, w)       == count[v] > count[w] \/ (count[v] = count[w] /\ v < w)

TopIds == {v \in videos : Cardinality({w \in videos : Precedes(w, v)}) < Top}

(* The job starts again every day.                                         *)
ReportAsk ==
    /\ report.pc \in {"idle", "done", "failed"}
    /\ report' = [pc |-> "rows", ids |-> TopIds, printed |-> Zero, mailed |-> FALSE,
                  asked |-> videos, before |-> count]
    /\ UNCHANGED <<videos, count, walk, settings>>

(* The rows carry the counters of the second statement.                    *)
ReportRows ==
    /\ report.pc = "rows"
    /\ report' = [report EXCEPT !.pc = "send",
                                !.printed = [v \in Ids |-> IF v \in report.ids THEN count[v] ELSE 0]]
    /\ UNCHANGED <<videos, count, walk, settings>>

ErrorStaysInService(production) == FALSE
ErrorReachesJob(production) == production

(* With e-mail disabled the list is only logged.  A mail server that       *)
(* refuses makes the job fail in production and nowhere else; "done" is    *)
(* the job's own line that the report was sent.                            *)
ReportSend ==
    /\ report.pc = "send"
    /\ \/ /\ ~settings.enabled
          /\ report' = [report EXCEPT !.pc = "done"]
       \/ /\ settings.enabled
          /\ report' = [report EXCEPT !.pc = "done", !.mailed = TRUE]
       \/ /\ settings.enabled
          /\ report' = [report EXCEPT !.pc = IF ErrorReachesJob(settings.production)
                                             THEN "failed" ELSE "done"]
    /\ UNCHANGED <<videos, count, walk, settings>>

(* A statement fails; the job logs the error.                              *)
ReportFails ==
    /\ report.pc = "rows"
    /\ report' = [report EXCEPT !.pc = "failed"]
    /\ UNCHANGED <<videos, count, walk, settings>>

-----------------------------------------------------------------------------
Next ==
    \/ \E v \in Ids : Insert(v) \/ View(v)
    \/ \E page \in FirstPages, size \in Sizes : WalkBegin(page, size)
    \/ WalkAsk \/ WalkRows
    \/ ReportAsk \/ ReportRows \/ ReportSend \/ ReportFails

Spec == Init /\ [][Next]_vars

-----------------------------------------------------------------------------
(* PROPERTIES                                                              *)

(* A client that walked from the first page to a short one has seen every  *)
(* video that existed when it began, whatever was uploaded between two     *)
(* pages or between the two statements of one (find-videos.handler.ts:28). *)
WalkMissesNothing == walk.pc = "done" => walk.start \subseteq walk.got

(* A video is sent twice only because an upload moved it to a later page:  *)
(* there are at most as many repeats as uploads since the walk began       *)
(* (find-videos.handler.ts:30-31).                                         *)
RepeatsAreInserts ==
    walk.delivered - Cardinality(walk.got) <= Cardinality(videos \ walk.start)

(* Though downloads go on between the two statements of the report, no     *)
(* video it leaves out had more downloads, when it was asked for, than one *)
(* it prints is printed with (video.service.ts:70-77).                     *)
NoneBetterLeftOut ==
    report.pc \in {"send", "done"} =>
        \A v \in report.ids, w \in report.asked \ report.ids :
            report.before[w] <= report.printed[v]

(* In production, and with e-mail enabled, the job logs the report as sent *)
(* only if the mail server took it (email.service.ts:149,                  *)
(* analytics.service.ts:35-39).                                            *)
SentInProductionIsMailed ==
    settings.enabled /\ settings.production /\ report.pc = "done" => report.mailed
=============================================================================
