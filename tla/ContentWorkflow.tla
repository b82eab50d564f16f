--------------------------- MODULE ContentWorkflow ---------------------------
(***************************************************************************)
(* The life of lesson versions: editing under an optimistic lock, attaching *)
(* media, submission, review, scheduling, publication, withdrawal and       *)
(* revision.  Every handler reads the version, checks its status and the    *)
(* caller's permission, and writes later without looking at the status      *)
(* again; reading and writing are therefore separate actions, and staff     *)
(* members act concurrently.                                                *)
(*                                                                          *)
(* Source: apps/api/src/content-workflow/content-workflow.service.ts,       *)
(* STATUS_ALLOWS of packages/auth and addLesson of courses.service.ts.      *)
(***************************************************************************)
EXTENDS Naturals, FiniteSets

CONSTANTS
  Staff, Versions, Lessons, Edits,
  LessonOf,    \* the lesson a version belongs to
  First,       \* the version a lesson is created with
  Author,      \* the member of staff who created the lesson
  Can,         \* permissions of a member of staff whose scope covers the lessons
  NeedsMedia,  \* lessons of a type that needs an asset
  Budget,      \* bound: edit forms, comments and requests that overlap another, in all
  None         \* SQL NULL

Permissions == {"content.edit_own", "content.edit_all", "content.submit_review",
  "content.review", "content.approve", "content.publish", "content.unpublish",
  "content.archive"}

ASSUME ContentWorkflowAssumption ==
  /\ LessonOf \in [Versions -> Lessons]
  /\ First \in [Lessons -> Versions]
  /\ \A l \in Lessons : LessonOf[First[l]] = l
  /\ Author \in [Lessons -> Staff]
  /\ Can \in [Staff -> SUBSET Permissions]
  /\ NeedsMedia \subseteq Lessons
  /\ Budget \in Nat
  /\ None \notin Versions \cup Staff

VARIABLES
  versions,   \* the lesson_versions rows, with the media attached to them
  current,    \* lessons.currentVersionId
  timeline,   \* the actions of a version's review comments
  job,        \* what every member of staff is doing
  accepted,   \* history: the edits of a version that were answered with success
  approved,   \* history: the text of a version when it was last approved
  raced,      \* history: lessons on which two requests have overlapped
  budget      \* what is left of Budget

vars == <<versions, current, timeline, job, accepted, approved, raced, budget>>

Statuses == {"NONE", "DRAFT", "SUBMITTED", "UNDER_REVIEW", "CORRECTION_REQUIRED",
  "APPROVED", "REJECTED", "READY_TO_PUBLISH", "SCHEDULED", "PUBLISHED",
  "UNPUBLISHED", "ARCHIVED", "SUPERSEDED"}
Actions == {"SUBMITTED", "RESUBMITTED", "REVIEW_STARTED", "COMMENT",
  "CORRECTION_REQUESTED", "APPROVED", "REJECTED", "SCHEDULED", "PUBLISHED",
  "UNPUBLISHED", "ARCHIVED"}
Ops == {"submit", "resubmit", "startReview", "requestCorrection", "approve", "reject",
  "schedule", "publish", "unpublish", "archive"}

Text == SUBSET Edits   \* a text is the set of the edits it contains
Version == [status : Statuses, number : Nat, rowVersion : Nat, text : Text,
            media : BOOLEAN, owner : Staff \cup {None}]
Pcs == {"idle", "form", "row", "edit", "attach", "media", "transition",
  "supersede", "publish", "revise"}
Job == [pc : Pcs, version : Versions \cup {None}, op : Ops \cup {None},
        row : Nat, text : Text, old : SUBSET Versions]

NoVersion == [status |-> "NONE", number |-> 0, rowVersion |-> 0, text |-> {},
              media |-> FALSE, owner |-> None]
Draft(number, text, owner) ==
  [status |-> "DRAFT", number |-> number, rowVersion |-> 1, text |-> text,
   media |-> FALSE, owner |-> owner]
Request(pc, v, op, row, text) ==
  [pc |-> pc, version |-> v, op |-> op, row |-> row, text |-> text, old |-> {}]
Idle == Request("idle", None, None, 0, {})

TypeOK ==
  /\ versions \in [Versions -> Version]
  /\ current \in [Lessons -> Versions]
  /\ timeline \in [Versions -> SUBSET Actions]
  /\ job \in [Staff -> Job]
  /\ accepted \in [Versions -> Text]
  /\ approved \in [Versions -> Text]
  /\ raced \subseteq Lessons
  /\ budget \in Nat

\* addLesson: a lesson is created with a DRAFT, its current version.
Init ==
  /\ versions = [v \in Versions |->
       IF v = First[LessonOf[v]] THEN Draft(1, {}, Author[LessonOf[v]]) ELSE NoVersion]
  /\ current = First
  /\ timeline = [v \in Versions |-> {}]
  /\ job = [s \in Staff |-> Idle]
  /\ accepted = [v \in Versions |-> {}]
  /\ approved = [v \in Versions |-> {}]
  /\ raced = {}
  /\ budget = Budget

-----------------------------------------------------------------------------
At(s, p) == job[s].pc = p
End(s) == job' = [job EXCEPT ![s] = Idle]
Status(v) == versions[v].status

Goto(s, p) == job' = [job EXCEPT ![s].pc = p]
Spend == budget > 0 /\ budget' = budget - 1
Siblings(v) == {u \in Versions : LessonOf[u] = LessonOf[v] /\ Status(u) # "NONE"}

\* The lessons other requests are being handled for; an open form is no request.
Busy(s) == {LessonOf[job[t].version] : t \in {t \in Staff \ {s} : job[t].pc \notin {"idle", "form"}}}
Begin(s, request) ==
  LET l == LessonOf[request.version] IN
  /\ job' = [job EXCEPT ![s] = request]
  /\ \/ l \notin Busy(s) /\ UNCHANGED <<raced, budget>>
     \/ l \in Busy(s) /\ raced' = raced \cup {l} /\ Spend

(* Mutated forms: bugs this code could have had, each caught by a property. *)
PublishReviewed(op, status) ==
  \/ op = "submit" /\ status = "DRAFT"
  \/ op = "startReview" /\ status = "SUBMITTED"
  \/ op = "publish" /\ status \in {"UNDER_REVIEW", "APPROVED"}
ReviseRejected(op, status) ==
  \/ op = "submit" /\ status \in {"DRAFT", "REJECTED"}
  \/ op = "startReview" /\ status = "SUBMITTED"
  \/ op = "reject" /\ status = "UNDER_REVIEW"
EditApproved(s, v) ==
  {"content.edit_own", "content.edit_all"} \subseteq Can[s] /\
  Status(v) \in {"DRAFT", "CORRECTION_REQUIRED", "SUBMITTED", "UNDER_REVIEW", "APPROVED"}
RowUnchecked(s) == TRUE

-----------------------------------------------------------------------------
\* STATUS_ALLOWS: the statuses in which a permission may be used.
StatusAllows(p) ==
  CASE p = "content.edit_own" -> {"DRAFT", "CORRECTION_REQUIRED"}
    [] p = "content.edit_all" -> {"DRAFT", "CORRECTION_REQUIRED", "SUBMITTED", "UNDER_REVIEW"}
    [] p = "content.submit_review" -> {"DRAFT", "CORRECTION_REQUIRED"}
    [] p = "content.review" -> {"SUBMITTED", "UNDER_REVIEW"}
    [] p = "content.approve" -> {"UNDER_REVIEW"}
    [] p = "content.publish" -> {"APPROVED", "READY_TO_PUBLISH", "SCHEDULED"}
    [] p = "content.unpublish" -> {"PUBLISHED"}
    [] p = "content.archive" -> {"DRAFT", "REJECTED", "UNPUBLISHED", "APPROVED", "PUBLISHED"}

Permission(op) ==
  CASE op \in {"submit", "resubmit"} -> "content.submit_review"
    [] op \in {"startReview", "requestCorrection"} -> "content.review"
    [] op \in {"approve", "reject"} -> "content.approve"
    [] op \in {"schedule", "publish"} -> "content.publish"
    [] op = "unpublish" -> "content.unpublish"
    [] op = "archive" -> "content.archive"

\* The source statuses each handler asserts; archive asserts none.
From(op) ==
  CASE op = "submit" -> {"DRAFT"}
    [] op = "resubmit" -> {"CORRECTION_REQUIRED"}
    [] op = "startReview" -> {"SUBMITTED"}
    [] op \in {"requestCorrection", "approve", "reject"} -> {"UNDER_REVIEW"}
    [] op = "schedule" -> {"APPROVED", "READY_TO_PUBLISH"}
    [] op = "publish" -> {"APPROVED", "READY_TO_PUBLISH", "SCHEDULED"}
    [] op = "unpublish" -> {"PUBLISHED"}
    [] op = "archive" -> Statuses

\* The status each transition writes, and the comment it leaves.
To(op) ==
  CASE op \in {"submit", "resubmit"} -> "SUBMITTED"
    [] op = "startReview" -> "UNDER_REVIEW"
    [] op = "requestCorrection" -> "CORRECTION_REQUIRED"
    [] op = "approve" -> "APPROVED"
    [] op = "reject" -> "REJECTED"
    [] op = "schedule" -> "SCHEDULED"
    [] op = "publish" -> "PUBLISHED"
    [] op = "unpublish" -> "UNPUBLISHED"
    [] op = "archive" -> "ARCHIVED"
Comment(op) ==
  CASE op = "resubmit" -> "RESUBMITTED"
    [] op = "startReview" -> "REVIEW_STARTED"
    [] op = "requestCorrection" -> "CORRECTION_REQUESTED"
    [] OTHER -> To(op)

\* assertFrom and the status gate of the policy engine.
Allowed(op, status) == status \in From(op) \cap StatusAllows(Permission(op))

\* assertMediaAttached.
HasMedia(v) == LessonOf[v] \in NeedsMedia => versions[v].media

\* The controller's permission, then editPermission and its status gate.
MayEdit(s, v) ==
  /\ "content.edit_own" \in Can[s]
  /\ IF "content.edit_all" \in Can[s]
       THEN Status(v) \in StatusAllows("content.edit_all")
       ELSE versions[v].owner = s /\ Status(v) \in StatusAllows("content.edit_own")

\* editVersion: the optimistic lock.
RowMatches(s) == versions[job[s].version].rowVersion = job[s].row

\* publish: the versions it supersedes.
PublishedSiblings(v) == {u \in Siblings(v) \ {v} : Status(u) = "PUBLISHED"}

-----------------------------------------------------------------------------
(* Editing. *)

\* myContent, or the answer to an earlier write, shows a version and its
\* rowVersion; what the form will send is that text with the edit.
OpenForm(s, v, e) ==
  /\ At(s, "idle") /\ Status(v) # "NONE" /\ Spend
  /\ \A u \in Versions : e \notin accepted[u]
  /\ \A t \in Staff : e \notin job[t].text
  /\ job' = [job EXCEPT ![s] =
       Request("form", v, None, versions[v].rowVersion, versions[v].text \cup {e})]
  /\ UNCHANGED <<versions, current, timeline, accepted, approved, raced>>

\* editVersion: the version is read and the caller authorized.
EditVersion(s) ==
  /\ At(s, "form") /\ MayEdit(s, job[s].version)
  /\ Begin(s, [job[s] EXCEPT !.pc = "row"])
  /\ UNCHANGED <<versions, current, timeline, accepted, approved>>

\* editVersion: the row is read again and its rowVersion compared.
CheckRow(s) ==
  /\ At(s, "row")
  /\ IF RowMatches(s) THEN Goto(s, "edit") ELSE End(s)
  /\ UNCHANGED <<versions, current, timeline, accepted, approved, raced, budget>>

\* editVersion: the write, and the success the editor sees.
EditWrite(s) ==
  LET v == job[s].version IN
  /\ At(s, "edit") /\ End(s)
  /\ versions' = [versions EXCEPT ![v].text = job[s].text, ![v].rowVersion = @ + 1]
  /\ accepted' = [accepted EXCEPT ![v] = @ \cup job[s].text]
  /\ UNCHANGED <<current, timeline, approved, raced, budget>>

\* attachAsset: the version is read, the asset is READY and of the right type.
AttachAsset(s, v) ==
  /\ At(s, "idle") /\ MayEdit(s, v)
  /\ Begin(s, Request("attach", v, None, 0, {}))
  /\ UNCHANGED <<versions, current, timeline, accepted, approved>>

AttachWrite(s) ==
  /\ At(s, "attach") /\ End(s)
  /\ versions' = [versions EXCEPT ![job[s].version].media = TRUE]
  /\ UNCHANGED <<current, timeline, accepted, approved, raced, budget>>

\* createNewVersion: the latest version is read; a revision ignores its status.
CreateNewVersion(s, v) ==
  /\ At(s, "idle") /\ Status(v) # "NONE"
  /\ \A u \in Siblings(v) : versions[u].number <= versions[v].number
  /\ "content.edit_own" \in Can[s]
  /\ "content.edit_all" \in Can[s] \/ versions[v].owner = s
  /\ Begin(s, Request("revise", v, None, versions[v].number, versions[v].text))
  /\ UNCHANGED <<versions, current, timeline, accepted, approved>>

\* createNewVersion: the insert; a number taken meanwhile is refused by its index.
\* The new version has no media: assets are not copied.
ReviseWrite(s) ==
  LET v == job[s].version IN
  /\ At(s, "revise") /\ End(s)
  /\ \/ /\ \E u \in Siblings(v) : versions[u].number = job[s].row + 1
        /\ UNCHANGED <<versions, accepted>>
     \/ /\ \A u \in Siblings(v) : versions[u].number # job[s].row + 1
        /\ \E n \in Versions :
             /\ LessonOf[n] = LessonOf[v] /\ Status(n) = "NONE"
             /\ versions' = [versions EXCEPT ![n] = Draft(job[s].row + 1, job[s].text, s)]
             /\ accepted' = [accepted EXCEPT ![n] = job[s].text]
  /\ UNCHANGED <<current, timeline, approved, raced, budget>>

-----------------------------------------------------------------------------
(* Review and publication. *)

\* submit ... archive: the version is read, its status and the caller checked.
Ask(s, op, v) ==
  /\ At(s, "idle") /\ Permission(op) \in Can[s] /\ Allowed(op, Status(v))
  /\ Begin(s, Request(IF op \in {"submit", "resubmit", "publish"} THEN "media" ELSE "transition",
                      v, op, 0, {}))
  /\ UNCHANGED <<versions, current, timeline, accepted, approved>>

\* submit, publish: the media are looked for after the status.
CheckMedia(s) ==
  /\ At(s, "media")
  /\ IF HasMedia(job[s].version)
       THEN Goto(s, IF job[s].op = "publish" THEN "supersede" ELSE "transition")
       ELSE End(s)
  /\ UNCHANGED <<versions, current, timeline, accepted, approved, raced, budget>>

\* transition: status and review comment in one transaction, unconditionally.
Transition(s) ==
  LET v == job[s].version  op == job[s].op IN
  /\ At(s, "transition") /\ End(s)
  /\ versions' = [versions EXCEPT ![v].status = To(op)]
  /\ timeline' = [timeline EXCEPT ![v] = @ \cup {Comment(op)}]
  /\ approved' = IF op = "approve" THEN [approved EXCEPT ![v] = versions[v].text] ELSE approved
  /\ UNCHANGED <<current, accepted, raced, budget>>

\* publish, first statement of the transaction: what it sees published.
Supersede(s) ==
  /\ At(s, "supersede")
  /\ job' = [job EXCEPT ![s].pc = "publish", ![s].old = PublishedSiblings(job[s].version)]
  /\ UNCHANGED <<versions, current, timeline, accepted, approved, raced, budget>>

\* publish, commit.
PublishTx(s) ==
  LET v == job[s].version IN
  /\ At(s, "publish") /\ End(s)
  /\ versions' = [u \in Versions |->
       IF u = v THEN [versions[u] EXCEPT !.status = "PUBLISHED"]
       ELSE IF u \in job[s].old /\ Status(u) = "PUBLISHED"
         THEN [versions[u] EXCEPT !.status = "SUPERSEDED"]
       ELSE versions[u]]
  /\ current' = [current EXCEPT ![LessonOf[v]] = v]
  /\ timeline' = [timeline EXCEPT ![v] = @ \cup {"PUBLISHED"}]
  /\ UNCHANGED <<accepted, approved, raced, budget>>

\* comment.
AddComment(s, v) ==
  /\ At(s, "idle") /\ "content.review" \in Can[s] /\ Status(v) \in StatusAllows("content.review")
  /\ Spend
  /\ timeline' = [timeline EXCEPT ![v] = @ \cup {"COMMENT"}]
  /\ UNCHANGED <<versions, current, job, accepted, approved, raced>>

-----------------------------------------------------------------------------
\* A form is closed, or a request dies before its write.
Abort(s) ==
  /\ ~At(s, "idle") /\ End(s)
  /\ UNCHANGED <<versions, current, timeline, accepted, approved, raced, budget>>

Step(s) ==
  \/ EditVersion(s) \/ CheckRow(s) \/ EditWrite(s) \/ AttachWrite(s) \/ ReviseWrite(s)
  \/ CheckMedia(s) \/ Transition(s) \/ Supersede(s) \/ PublishTx(s)

Next ==
  \E s \in Staff :
    \/ Step(s) \/ Abort(s)
    \/ \E v \in Versions :
         \/ AttachAsset(s, v) \/ CreateNewVersion(s, v) \/ AddComment(s, v)
         \/ \E e \in Edits : OpenForm(s, v, e)
         \/ \E op \in Ops : Ask(s, op, v)

Spec == Init /\ [][Next]_vars
-----------------------------------------------------------------------------
(* Properties. *)

Published(l) == {v \in Versions : LessonOf[v] = l /\ Status(v) = "PUBLISHED"}

\* Whatever the interleaving, no step of the review is skipped: a version on the
\* way to students carries the comments of every step that leads there.
ReviewTrail ==
  \A v \in Versions :
    LET t == timeline[v] IN
    /\ Status(v) \in {"PUBLISHED", "SUPERSEDED", "UNPUBLISHED"} => "PUBLISHED" \in t
    /\ {"PUBLISHED", "SCHEDULED"} \cap t # {} => "APPROVED" \in t
    /\ {"APPROVED", "REJECTED", "CORRECTION_REQUESTED"} \cap t # {} => "REVIEW_STARTED" \in t
    /\ "REVIEW_STARTED" \in t => {"SUBMITTED", "RESUBMITTED"} \cap t # {}
    /\ "RESUBMITTED" \in t => "CORRECTION_REQUESTED" \in t

\* Students never get a published lesson whose media are missing.
PublishedHasMedia ==
  \A v \in Versions :
    Status(v) = "PUBLISHED" /\ LessonOf[v] \in NeedsMedia => versions[v].media

\* Unless requests on the lesson have overlapped, the published version is the
\* current one, which is what students are shown.
PublishedIsCurrent ==
  \A l \in Lessons \ raced : Published(l) \subseteq {current[l]}

\* Unless requests have overlapped, what is published is the text the reviewer
\* approved.
ApprovedTextPublished ==
  \A v \in Versions :
    Status(v) \in {"APPROVED", "SCHEDULED", "PUBLISHED"} /\ LessonOf[v] \notin raced
      => versions[v].text = approved[v]

\* Unless requests have overlapped, an edit that was answered with success is
\* not overwritten by an editor who had not seen it.
EditsKept ==
  \A v \in Versions : LessonOf[v] \notin raced => accepted[v] \subseteq versions[v].text

\* Unless requests have overlapped, a version that was rejected, replaced or
\* withdrawn never comes back; it can only be archived.
RetiredStaysRetired ==
  [][\A v \in Versions :
       /\ Status(v) \in {"REJECTED", "SUPERSEDED", "UNPUBLISHED", "ARCHIVED"}
       /\ LessonOf[v] \notin raced
       => versions'[v].status \in {Status(v), "ARCHIVED"}]_vars

\* What students see was approved as it is, has its media and is what the lesson
\* points to; the first and the last unless requests on the lesson have overlapped.
PublishedIsSound == ApprovedTextPublished /\ PublishedHasMedia /\ PublishedIsCurrent
=============================================================================
