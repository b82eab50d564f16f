------------------------ MODULE ContentWorkflowProofs ------------------------
(* Theorems about ContentWorkflow, for every value of its constants. *)
EXTENDS ContentWorkflow, TLAPS

Media(op) == op \in {"submit", "resubmit", "publish"}
InFlight(j) == j.pc \notin {"idle", "form"}
Editing(j) == j.pc \in {"form", "row", "edit"}
Reviewing(j) == j.pc \in {"media", "transition", "supersede", "publish"}
Editable == {"DRAFT", "CORRECTION_REQUIRED", "SUBMITTED", "UNDER_REVIEW"}
Released == {"APPROVED", "READY_TO_PUBLISH", "SCHEDULED", "PUBLISHED"}

\* The comment that shows a version has come as far as its status says.
StatusGrounds(status, t) ==
  /\ status = "SUBMITTED" => {"SUBMITTED", "RESUBMITTED"} \cap t # {}
  /\ status = "UNDER_REVIEW" => "REVIEW_STARTED" \in t
  /\ status = "CORRECTION_REQUIRED" => "CORRECTION_REQUESTED" \in t
  /\ status \in Released => "APPROVED" \in t
  /\ status \in {"PUBLISHED", "SUPERSEDED", "UNPUBLISHED"} => "PUBLISHED" \in t

\* The comment a pending operation rests on; comments are never deleted.
Grounds(op, t) ==
  /\ op = "resubmit" => "CORRECTION_REQUESTED" \in t
  /\ op = "startReview" => {"SUBMITTED", "RESUBMITTED"} \cap t # {}
  /\ op \in {"requestCorrection", "approve", "reject"} => "REVIEW_STARTED" \in t
  /\ op \in {"schedule", "publish"} => "APPROVED" \in t
  /\ op = "unpublish" => "PUBLISHED" \in t

Trail(t) ==
  /\ {"PUBLISHED", "SCHEDULED"} \cap t # {} => "APPROVED" \in t
  /\ {"APPROVED", "REJECTED", "CORRECTION_REQUESTED"} \cap t # {} => "REVIEW_STARTED" \in t
  /\ "REVIEW_STARTED" \in t => {"SUBMITTED", "RESUBMITTED"} \cap t # {}
  /\ "RESUBMITTED" \in t => "CORRECTION_REQUESTED" \in t

\* What a handler has checked still holds when nobody else works on the lesson.
Fresh(j) ==
  /\ j.pc \in {"row", "edit", "attach"} => Status(j.version) \in Editable
  /\ j.pc = "edit" => j.row = versions[j.version].rowVersion
  /\ Reviewing(j) => Allowed(j.op, Status(j.version))
  /\ j.pc = "publish" => PublishedSiblings(j.version) \subseteq j.old

\* A request, r being the lessons on which requests have overlapped.
Good(j, r) ==
  /\ j \in Job
  /\ j.pc # "idle" => j.version \in Versions /\ Status(j.version) # "NONE"
  /\ Reviewing(j) =>
       /\ j.op \in Ops /\ Grounds(j.op, timeline[j.version])
       /\ j.pc = "media" => Media(j.op)
       /\ j.pc = "transition" => j.op # "publish"
       /\ j.pc \in {"supersede", "publish"} => j.op = "publish" /\ HasMedia(j.version)
       /\ j.pc = "publish" => \A u \in j.old : LessonOf[u] = LessonOf[j.version]
  /\ Editing(j) =>
       /\ j.row <= versions[j.version].rowVersion
       /\ j.row = versions[j.version].rowVersion => versions[j.version].text \subseteq j.text
  /\ InFlight(j) /\ LessonOf[j.version] \notin r => Fresh(j)

JobsOK == job \in [Staff -> Job] /\ \A s \in Staff : Good(job[s], raced)

\* Two requests on one lesson have overlapped.
Solo ==
  \A s, t \in Staff :
    s # t /\ InFlight(job[s]) /\ InFlight(job[t])
      /\ LessonOf[job[s].version] = LessonOf[job[t].version]
    => LessonOf[job[s].version] \in raced

DataOK ==
  /\ versions \in [Versions -> Version]
  /\ current \in [Lessons -> Versions]
  /\ timeline \in [Versions -> SUBSET Actions]
  /\ accepted \in [Versions -> Text]
  /\ approved \in [Versions -> Text]

RestOK == raced \subseteq Lessons /\ budget \in Nat

TrailOK == \A v \in Versions : StatusGrounds(Status(v), timeline[v]) /\ Trail(timeline[v])
MediaOK == \A v \in Versions : Status(v) = "PUBLISHED" => HasMedia(v)
QuietOK(r) ==
  \A v \in Versions : LessonOf[v] \notin r =>
    /\ Status(v) = "PUBLISHED" => current[LessonOf[v]] = v
    /\ Status(v) \in Released => versions[v].text = approved[v]
    /\ accepted[v] \subseteq versions[v].text

RowsOK == DataOK /\ TrailOK /\ MediaOK /\ QuietOK(raced)
IInv == RowsOK /\ RestOK /\ JobsOK /\ Solo

LEMMA IInvImpliesTypeOK == IInv => TypeOK
  BY DEF IInv, RowsOK, DataOK, RestOK, JobsOK, TypeOK

LEMMA IInvImpliesReviewTrail == IInv => ReviewTrail
  BY DEF IInv, RowsOK, TrailOK, StatusGrounds, Trail, ReviewTrail

LEMMA IInvImpliesPublishedHasMedia == IInv => PublishedHasMedia
  BY DEF IInv, RowsOK, MediaOK, HasMedia, PublishedHasMedia

LEMMA IInvImpliesPublishedIsCurrent == IInv => PublishedIsCurrent
  BY ContentWorkflowAssumption DEF IInv, RowsOK, QuietOK, Published, PublishedIsCurrent

LEMMA IInvImpliesApprovedTextPublished == IInv => ApprovedTextPublished
  BY DEF IInv, RowsOK, QuietOK, Released, ApprovedTextPublished

LEMMA IInvImpliesEditsKept == IInv => EditsKept
  BY DEF IInv, RowsOK, QuietOK, EditsKept

-----------------------------------------------------------------------------
LEMMA IdleGood ==
  ASSUME NEW r PROVE Good(Idle, r) /\ ~InFlight(Idle)
  BY DEF Good, Idle, Request, Job, Pcs, Text, Reviewing, Editing, InFlight

LEMMA InitIInv == Init => IInv
<1> SUFFICES ASSUME Init PROVE IInv
  OBVIOUS
<1>1. DataOK
  BY ContentWorkflowAssumption DEF Init, DataOK, Version, Statuses, Text, Draft, NoVersion
<1>2. \A v \in Versions : Status(v) \in {"NONE", "DRAFT"} /\ timeline[v] = {} /\ accepted[v] = {}
  BY DEF Init, Status, Draft, NoVersion
<1>3. TrailOK /\ MediaOK /\ QuietOK(raced)
  BY <1>2 DEF TrailOK, StatusGrounds, Trail, MediaOK, QuietOK, Released
<1>4. RestOK /\ JobsOK /\ Solo
  BY IdleGood, ContentWorkflowAssumption DEF Init, RestOK, JobsOK, Solo, Good
<1> QED
  BY <1>1, <1>3, <1>4 DEF IInv, RowsOK

-----------------------------------------------------------------------------
(* Steps that move one request and touch no row. *)

rows == <<versions, current, timeline, accepted, approved>>

\* The other requests only stand to lose: more lessons count as raced.
LEMMA MoveIInv ==
  ASSUME IInv, UNCHANGED rows, raced \subseteq raced', raced' \subseteq Lessons, budget' \in Nat,
         NEW s \in Staff, NEW j, Good(j, raced'), job' = [job EXCEPT ![s] = j], Solo'
  PROVE  IInv'
<1>1. RowsOK'
  BY DEF IInv, RowsOK, rows, DataOK, TrailOK, MediaOK, QuietOK, Status, HasMedia
<1>2. job' \in [Staff -> Job]
  BY DEF IInv, JobsOK, Good
<1>3. ASSUME NEW t \in Staff PROVE Good(job[t], raced)'
  <2>1. Good(job'[t], raced')
    BY DEF IInv, JobsOK, Good
  <2> QED
    BY <2>1 DEF rows, Good, Fresh, Reviewing, Editing, InFlight, Status, HasMedia, PublishedSiblings, Siblings
<1> QED
  BY <1>1, <1>2, <1>3 DEF IInv, JobsOK, RestOK

\* A request that goes on, or ends, overlaps nobody new.
LEMMA AdvanceSolo ==
  ASSUME IInv, NEW s \in Staff, NEW j, job' = [job EXCEPT ![s] = j], UNCHANGED raced,
         InFlight(j) => InFlight(job[s]) /\ j.version = job[s].version
  PROVE  Solo'
  BY DEF IInv, JobsOK, Solo, InFlight

\* A request that begins marks its lesson when another one is in flight on it.
LEMMA BeginSolo ==
  ASSUME IInv, NEW s \in Staff, NEW j, j.version \in Versions, Begin(s, j)
  PROVE  /\ Solo'
         /\ raced \subseteq raced' /\ raced' \subseteq Lessons /\ budget' \in Nat
         /\ job' = [job EXCEPT ![s] = j]
<1>1. LessonOf[j.version] \in Lessons
  BY ContentWorkflowAssumption
<1>2. raced \subseteq raced' /\ raced' \subseteq Lessons /\ budget' \in Nat
  BY <1>1 DEF Begin, Spend, IInv, RestOK
<1>3. LessonOf[j.version] \in Busy(s) => LessonOf[j.version] \in raced'
  BY DEF Begin
<1>4. job' = [job EXCEPT ![s] = j]
  BY DEF Begin
<1>5. ASSUME NEW t \in Staff, t # s, InFlight(job[t]), LessonOf[job[t].version] = LessonOf[j.version]
      PROVE  LessonOf[j.version] \in Busy(s)
  BY <1>5 DEF Busy, InFlight
<1>6. ASSUME NEW t \in Staff, NEW u \in Staff, t # u, InFlight(job'[t]), InFlight(job'[u]),
             LessonOf[job'[t].version] = LessonOf[job'[u].version]
      PROVE  LessonOf[job'[t].version] \in raced'
  <2>1. \A q \in Staff : job'[q] = IF q = s THEN j ELSE job[q]
    BY <1>4 DEF IInv, JobsOK
  <2>2. CASE t = s
    BY <1>3, <1>5, <1>6, <2>1, <2>2
  <2>3. CASE u = s
    BY <1>3, <1>5, <1>6, <2>1, <2>3
  <2>4. CASE t # s /\ u # s
    BY <1>2, <1>6, <2>1, <2>4 DEF IInv, Solo
  <2> QED
    BY <2>2, <2>3, <2>4
<1>7. Solo'
  BY <1>6 DEF Solo, InFlight
<1> QED
  BY <1>2, <1>4, <1>7

LEMMA AdvanceIInv ==
  ASSUME IInv, UNCHANGED rows, UNCHANGED <<raced, budget>>, NEW s \in Staff, NEW j, Good(j, raced),
         job' = [job EXCEPT ![s] = j], InFlight(j) => InFlight(job[s]) /\ j.version = job[s].version
  PROVE  IInv'
<1>1. Solo'
  BY AdvanceSolo
<1>2. raced' = raced /\ raced \subseteq raced' /\ raced' \subseteq Lessons /\ budget' \in Nat
  BY DEF IInv, RestOK
<1> QED
  BY <1>1, <1>2, MoveIInv

LEMMA BeginIInv ==
  ASSUME IInv, UNCHANGED rows, NEW s \in Staff, NEW j, Good(j, {}), j.version \in Versions,
         Begin(s, j)
  PROVE  IInv'
<1>1. Good(j, raced')
  BY DEF Good
<1> QED
  BY <1>1, BeginSolo, MoveIInv

LEMMA GoodJob ==
  ASSUME IInv, NEW s \in Staff
  PROVE  Good(job[s], raced) /\ job[s] \in Job
  BY DEF IInv, JobsOK, Good

LEMMA AbortIInv ==
  ASSUME IInv, NEW s \in Staff, Abort(s)
  PROVE  IInv'
  BY IdleGood, AdvanceIInv DEF Abort, End, rows

LEMMA OpenFormIInv ==
  ASSUME IInv, NEW s \in Staff, NEW v \in Versions, NEW e \in Edits, OpenForm(s, v, e)
  PROVE  IInv'
<1> DEFINE j == Request("form", v, None, versions[v].rowVersion, versions[v].text \cup {e})
<1>1. j \in Job
  BY DEF IInv, RowsOK, DataOK, Version, Job, Pcs, Text, Request
<1>2. Good(j, raced) /\ ~InFlight(j)
  BY <1>1 DEF Good, OpenForm, Request, Reviewing, Editing, InFlight, IInv, RowsOK, DataOK, Version
<1>3. \A d : d = j => Solo' /\ Good(d, raced')
  BY <1>2, AdvanceSolo DEF OpenForm
<1>4. budget' \in Nat /\ raced \subseteq raced' /\ raced' \subseteq Lessons /\ UNCHANGED rows
  BY DEF OpenForm, Spend, IInv, RestOK, rows
<1> QED
  BY <1>3, <1>4, MoveIInv DEF OpenForm

LEMMA EditVersionIInv ==
  ASSUME IInv, NEW s \in Staff, EditVersion(s)
  PROVE  IInv'
<1> DEFINE j == [job[s] EXCEPT !.pc = "row"]
<1>1. Good(job[s], raced) /\ job[s] \in Job /\ job[s].pc = "form"
  BY GoodJob DEF EditVersion, At
<1>2. j \in Job /\ j.pc = "row" /\ j.version = job[s].version /\ j.row = job[s].row
      /\ j.text = job[s].text
  BY <1>1 DEF Job, Pcs
<1>3. Status(j.version) \in Editable
  BY <1>2 DEF EditVersion, MayEdit, StatusAllows, Editable
<1>4. Good(j, {}) /\ j.version \in Versions
  <2> HIDE DEF j
  <2> QED
    BY <1>1, <1>2, <1>3 DEF Good, Fresh, Reviewing, Editing, InFlight
<1> QED
  BY <1>4, BeginIInv DEF EditVersion, rows

LEMMA CheckRowIInv ==
  ASSUME IInv, NEW s \in Staff, CheckRow(s)
  PROVE  IInv'
<1>1. Good(job[s], raced) /\ job[s] \in Job /\ job[s].pc = "row"
  BY GoodJob DEF CheckRow, At
<1>2. CASE RowMatches(s)
  <2> DEFINE j == [job[s] EXCEPT !.pc = "edit"]
  <2>1. j \in Job /\ j.pc = "edit" /\ j.version = job[s].version /\ j.row = job[s].row
        /\ j.text = job[s].text
    BY <1>1 DEF Job, Pcs
  <2>2. Good(j, raced) /\ InFlight(job[s])
    <3> HIDE DEF j
    <3> QED
      BY <1>1, <1>2, <2>1 DEF RowMatches, Good, Fresh, Reviewing, Editing, InFlight
  <2>3. job' = [job EXCEPT ![s] = j]
    BY <1>2 DEF CheckRow, Goto
  <2> QED
    BY <2>1, <2>2, <2>3, AdvanceIInv DEF CheckRow, rows
<1>3. CASE ~RowMatches(s)
  BY <1>3, IdleGood, AdvanceIInv DEF CheckRow, End, rows
<1> QED
  BY <1>2, <1>3

LEMMA AttachAssetIInv ==
  ASSUME IInv, NEW s \in Staff, NEW v \in Versions, AttachAsset(s, v)
  PROVE  IInv'
<1> DEFINE j == Request("attach", v, None, 0, {})
<1>1. Status(v) \in Editable
  BY DEF AttachAsset, MayEdit, StatusAllows, Editable
<1>2. Good(j, {}) /\ j.version = v
  BY <1>1 DEF Good, Fresh, Reviewing, Editing, InFlight, Request, Job, Pcs, Text, Editable
<1> QED
  BY <1>2, BeginIInv DEF AttachAsset, rows

LEMMA CreateNewVersionIInv ==
  ASSUME IInv, NEW s \in Staff, NEW v \in Versions, CreateNewVersion(s, v)
  PROVE  IInv'
<1> DEFINE j == Request("revise", v, None, versions[v].number, versions[v].text)
<1>1. j \in Job /\ Status(v) # "NONE"
  BY DEF CreateNewVersion, IInv, RowsOK, DataOK, Version, Job, Pcs, Text, Request
<1>2. Good(j, {}) /\ j.version = v
  BY <1>1 DEF Good, Fresh, Reviewing, Editing, InFlight, Request
<1> QED
  BY <1>2, BeginIInv DEF CreateNewVersion, rows

-----------------------------------------------------------------------------
(* Review steps. *)

\* The status a transition leaves implies the comments it rests on.
LEMMA AllowedGrounds ==
  ASSUME NEW op \in Ops, NEW status, NEW t, Allowed(op, status), StatusGrounds(status, t)
  PROVE  Grounds(op, t) /\ status # "NONE"
<1>1. CASE op \in {"submit", "resubmit"}
  BY <1>1 DEF Allowed, From, Permission, StatusAllows, StatusGrounds, Grounds
<1>2. CASE op \in {"startReview", "requestCorrection", "approve", "reject"}
  BY <1>2 DEF Allowed, From, Permission, StatusAllows, StatusGrounds, Grounds
<1>3. CASE op \in {"schedule", "publish", "unpublish"}
  BY <1>3 DEF Allowed, From, Permission, StatusAllows, StatusGrounds, Grounds, Released
<1>4. CASE op = "archive"
  BY <1>4 DEF Allowed, From, Permission, StatusAllows, StatusGrounds, Grounds
<1> QED
  BY <1>1, <1>2, <1>3, <1>4 DEF Ops

LEMMA AskIInv ==
  ASSUME IInv, NEW s \in Staff, NEW op \in Ops, NEW v \in Versions, Ask(s, op, v)
  PROVE  IInv'
<1> DEFINE j == Request(IF op \in {"submit", "resubmit", "publish"} THEN "media" ELSE "transition",
                        v, op, 0, {})
<1>1. Allowed(op, Status(v))
  BY DEF Ask
<1>2. Grounds(op, timeline[v]) /\ Status(v) # "NONE"
  BY <1>1, AllowedGrounds DEF IInv, RowsOK, TrailOK
<1>3. j \in Job /\ j.version = v /\ j.op = op /\ j.pc = IF Media(op) THEN "media" ELSE "transition"
  BY DEF Request, Job, Pcs, Text, Media
<1>4. Good(j, {})
  <2> HIDE DEF j
  <2> QED
    BY <1>1, <1>2, <1>3 DEF Good, Fresh, Reviewing, Editing, InFlight, Media
<1> QED
  BY <1>3, <1>4, BeginIInv DEF Ask, rows

LEMMA CheckMediaIInv ==
  ASSUME IInv, NEW s \in Staff, CheckMedia(s)
  PROVE  IInv'
<1>1. Good(job[s], raced) /\ job[s] \in Job /\ job[s].pc = "media"
  BY GoodJob DEF CheckMedia, At
<1>2. CASE HasMedia(job[s].version)
  <2> DEFINE p == IF job[s].op = "publish" THEN "supersede" ELSE "transition"
             j == [job[s] EXCEPT !.pc = p]
  <2>1. j \in Job /\ j.pc = p /\ j.version = job[s].version /\ j.op = job[s].op
    BY <1>1 DEF Job, Pcs
  <2>2. Good(j, raced) /\ InFlight(job[s])
    <3> HIDE DEF j
    <3> QED
      BY <1>1, <1>2, <2>1 DEF Good, Fresh, Reviewing, Editing, InFlight, Media
  <2>3. job' = [job EXCEPT ![s] = j]
    BY <1>2 DEF CheckMedia, Goto
  <2> QED
    BY <2>1, <2>2, <2>3, AdvanceIInv DEF CheckMedia, rows
<1>3. CASE ~HasMedia(job[s].version)
  BY <1>3, IdleGood, AdvanceIInv DEF CheckMedia, End, rows
<1> QED
  BY <1>2, <1>3

LEMMA SupersedeIInv ==
  ASSUME IInv, NEW s \in Staff, Supersede(s)
  PROVE  IInv'
<1> DEFINE siblings == PublishedSiblings(job[s].version)
           j == [job[s] EXCEPT !.pc = "publish", !.old = siblings]
<1>1. Good(job[s], raced) /\ job[s] \in Job /\ job[s].pc = "supersede"
  BY GoodJob DEF Supersede, At
<1>2. siblings \subseteq Versions /\ \A u \in siblings : LessonOf[u] = LessonOf[job[s].version]
  BY DEF PublishedSiblings, Siblings
<1>3. j \in Job /\ j.pc = "publish" /\ j.version = job[s].version /\ j.op = job[s].op /\ j.old = siblings
  BY <1>1, <1>2 DEF Job, Pcs
<1>4. Good(j, raced) /\ InFlight(job[s])
  <2> HIDE DEF j
  <2> QED
    BY <1>1, <1>2, <1>3 DEF Good, Fresh, Reviewing, Editing, InFlight
<1>5. job' = [job EXCEPT ![s] = j]
  BY <1>1 DEF Supersede, Job
<1> QED
  BY <1>3, <1>4, <1>5, AdvanceIInv DEF Supersede, rows

LEMMA AddCommentIInv ==
  ASSUME IInv, NEW s \in Staff, NEW v \in Versions, AddComment(s, v)
  PROVE  IInv'
<1>1. DataOK'
  BY DEF IInv, RowsOK, DataOK, AddComment, Actions
<1>2. \A u \in Versions : timeline'[u] = timeline[u] \/ timeline'[u] = timeline[u] \cup {"COMMENT"}
  BY DEF IInv, RowsOK, DataOK, AddComment
<1>3. TrailOK'
  BY <1>2 DEF IInv, RowsOK, TrailOK, StatusGrounds, Trail, AddComment, Status
<1>4. MediaOK' /\ QuietOK(raced)' /\ RestOK' /\ Solo'
  BY DEF IInv, RowsOK, MediaOK, QuietOK, RestOK, Solo, InFlight, AddComment, Spend, Status, HasMedia
<1>5. \A u \in Versions : timeline[u] \subseteq timeline'[u]
  BY <1>2
<1>6. JobsOK'
  <2> SUFFICES ASSUME NEW t \in Staff PROVE Good(job[t], raced)'
    BY DEF IInv, JobsOK, AddComment
  <2>1. Good(job[t], raced) /\ job' = job /\ versions' = versions /\ raced' = raced
    BY DEF IInv, JobsOK, AddComment
  <2>2. Reviewing(job[t]) => Grounds(job[t].op, timeline'[job[t].version])
    BY <1>5, <2>1 DEF Good, Grounds, Reviewing
  <2> QED
    BY <2>1, <2>2 DEF Good, Fresh, Reviewing, Editing, InFlight, Status, HasMedia,
       PublishedSiblings, Siblings
<1> QED
  BY <1>1, <1>3, <1>4, <1>6 DEF IInv, RowsOK

-----------------------------------------------------------------------------
(* Steps that write rows. *)

\* Outside lesson l nothing changes; inside, comments and media stay, and a new
\* text has a new rowVersion.
Forward(l) ==
  /\ \A u \in Versions : LessonOf[u] # l =>
       versions'[u] = versions[u] /\ timeline'[u] = timeline[u]
  /\ \A u \in Versions : timeline[u] \subseteq timeline'[u]
  /\ \A u \in Versions : Status(u) # "NONE" =>
       /\ versions'[u].status # "NONE"
       /\ versions[u].media => versions'[u].media
       /\ \/ versions'[u].rowVersion > versions[u].rowVersion
          \/ versions'[u].rowVersion = versions[u].rowVersion /\ versions'[u].text = versions[u].text

\* A write leaves every other request good: one on the same lesson has overlapped.
LEMMA WriteJobs ==
  ASSUME IInv, NEW s \in Staff, InFlight(job[s]), End(s), UNCHANGED raced, DataOK',
         Forward(LessonOf[job[s].version])
  PROVE  JobsOK' /\ Solo'
<1>1. Solo'
  BY IdleGood, AdvanceSolo DEF End
<1>2. \A t \in Staff : job'[t] = IF t = s THEN Idle ELSE job[t]
  BY DEF End, IInv, JobsOK
<1>3. job' \in [Staff -> Job]
  BY IdleGood DEF End, IInv, JobsOK, Good
<1>4. ASSUME NEW t \in Staff PROVE Good(job[t], raced)'
  <2>1. CASE t = s
    BY <1>2, <2>1, IdleGood DEF Good, Idle, Request, Reviewing, Editing, InFlight
  <2>2. CASE t # s /\ job[t].pc = "idle"
    BY <1>2, <2>2, GoodJob DEF Good, Reviewing, Editing, InFlight
  <2>3. CASE t # s /\ job[t].pc # "idle"
    <3> DEFINE v == job[t].version
    <3>1. Good(job[t], raced) /\ job'[t] = job[t] /\ v \in Versions /\ Status(v) # "NONE"
          /\ job[t] \in Job
      BY <1>2, <2>3, GoodJob DEF Good
    <3>2. versions'[v].status # "NONE"
      BY <3>1 DEF Forward
    <3>3. Reviewing(job[t]) =>
            /\ job[t].op \in Ops /\ Grounds(job[t].op, timeline'[v])
            /\ job[t].pc = "media" => Media(job[t].op)
            /\ job[t].pc = "transition" => job[t].op # "publish"
            /\ job[t].pc \in {"supersede", "publish"} =>
                 job[t].op = "publish" /\ (LessonOf[v] \in NeedsMedia => versions'[v].media)
            /\ job[t].pc = "publish" => \A u \in job[t].old : LessonOf[u] = LessonOf[v]
      <4>1. timeline[v] \subseteq timeline'[v] /\ (versions[v].media => versions'[v].media)
        BY <3>1 DEF Forward
      <4> QED
        BY <3>1, <4>1 DEF Good, Reviewing, Grounds, HasMedia
    <3>4. Editing(job[t]) =>
            /\ job[t].row <= versions'[v].rowVersion
            /\ job[t].row = versions'[v].rowVersion => versions'[v].text \subseteq job[t].text
      <4>1. job[t].row \in Nat /\ versions[v].rowVersion \in Nat /\ versions'[v].rowVersion \in Nat
        BY <3>1 DEF Job, DataOK, Version, IInv, RowsOK
      <4>2. \/ versions'[v].rowVersion > versions[v].rowVersion
            \/ versions'[v].rowVersion = versions[v].rowVersion /\ versions'[v].text = versions[v].text
        BY <3>1 DEF Forward
      <4> QED
        BY <3>1, <4>1, <4>2 DEF Good
    <3>5. ASSUME InFlight(job[t]), LessonOf[v] \notin raced
          PROVE  /\ job[t].pc \in {"row", "edit", "attach"} => versions'[v].status \in Editable
                 /\ job[t].pc = "edit" => job[t].row = versions'[v].rowVersion
                 /\ Reviewing(job[t]) => Allowed(job[t].op, versions'[v].status)
                 /\ job[t].pc = "publish" => PublishedSiblings(v)' \subseteq job[t].old
      <4>1. LessonOf[v] # LessonOf[job[s].version]
        BY <2>3, <3>5 DEF IInv, Solo
      <4>2. versions'[v] = versions[v]
        BY <3>1, <4>1 DEF Forward
      <4>3. PublishedSiblings(job[t].version)' = PublishedSiblings(v)
        BY <3>1, <4>1 DEF Forward, PublishedSiblings, Siblings, Status
      <4> QED
        BY <3>1, <3>5, <4>2, <4>3 DEF Good, Fresh, Status
    <3> QED
      BY <3>1, <3>2, <3>3, <3>4, <3>5
         DEF Good, Fresh, Reviewing, Editing, InFlight, Status, HasMedia
  <2> QED
    BY <2>1, <2>2, <2>3
<1> QED
  BY <1>1, <1>3, <1>4 DEF JobsOK

LEMMA WriteIInv ==
  ASSUME IInv, NEW s \in Staff, InFlight(job[s]), End(s), UNCHANGED <<raced, budget>>,
         Forward(LessonOf[job[s].version]), DataOK', TrailOK', MediaOK', QuietOK(raced)'
  PROVE  IInv'
<1>1. JobsOK' /\ Solo'
  BY WriteJobs
<1> QED
  BY <1>1 DEF IInv, RowsOK, RestOK

LEMMA EditWriteIInv ==
  ASSUME IInv, NEW s \in Staff, EditWrite(s)
  PROVE  IInv'
<1> DEFINE v == job[s].version
           text == job[s].text
<1>1. Good(job[s], raced) /\ job[s].pc = "edit" /\ InFlight(job[s]) /\ v \in Versions
      /\ text \in Text
  BY GoodJob DEF EditWrite, At, Good, InFlight, Job
<1>2. \A u \in Versions :
        /\ versions'[u].status = versions[u].status /\ versions'[u].media = versions[u].media
        /\ u # v => versions'[u] = versions[u]
  BY <1>1 DEF EditWrite, IInv, RowsOK, DataOK, Version
<1>3. versions'[v].text = text /\ versions'[v].rowVersion = versions[v].rowVersion + 1
      /\ versions[v].rowVersion \in Nat
  BY <1>1 DEF EditWrite, IInv, RowsOK, DataOK, Version
<1>4. \A u \in Versions : accepted'[u] = IF u = v THEN accepted[u] \cup text ELSE accepted[u]
  BY <1>1 DEF EditWrite, IInv, RowsOK, DataOK
<1>5. DataOK'
  BY <1>1 DEF EditWrite, IInv, RowsOK, DataOK, Text, Version
<1>6. TrailOK' /\ MediaOK'
  BY <1>2 DEF EditWrite, IInv, RowsOK, TrailOK, MediaOK, Status, HasMedia
<1>7. Forward(LessonOf[v])
  <2>1. \A u \in Versions : u # v \/ versions'[u].rowVersion > versions[u].rowVersion
    BY <1>3
  <2> QED
    BY <1>2, <2>1 DEF EditWrite, Forward, Status
<1>8. ASSUME LessonOf[v] \notin raced
      PROVE  versions[v].status \notin Released /\ accepted[v] \subseteq text
  <2>1. Status(v) \in Editable /\ job[s].row = versions[v].rowVersion
    BY <1>1, <1>8 DEF Good, Fresh
  <2>2. accepted[v] \subseteq versions[v].text /\ versions[v].text \subseteq text
    BY <1>1, <1>8, <2>1 DEF IInv, RowsOK, QuietOK, Good, Editing
  <2> QED
    BY <2>1, <2>2 DEF Editable, Released, Status
<1>9. QuietOK(raced)'
  <2> SUFFICES ASSUME NEW u \in Versions, LessonOf[u] \notin raced
               PROVE  /\ versions'[u].status = "PUBLISHED" => current[LessonOf[u]] = u
                      /\ versions'[u].status \in Released => versions'[u].text = approved[u]
                      /\ accepted'[u] \subseteq versions'[u].text
    BY DEF EditWrite, QuietOK, Status
  <2>1. CASE u # v
    BY <1>2, <1>4, <2>1 DEF IInv, RowsOK, QuietOK, Status
  <2>2. CASE u = v
    <3>1. accepted'[u] \subseteq versions'[u].text
      BY <1>3, <1>4, <1>8, <2>2
    <3>2. versions'[u].status \notin Released
      BY <1>2, <1>8, <2>2
    <3> QED
      BY <3>1, <3>2 DEF Released
  <2> QED
    BY <2>1, <2>2
<1> QED
  BY <1>1, <1>5, <1>6, <1>7, <1>9, WriteIInv DEF EditWrite

LEMMA AttachWriteIInv ==
  ASSUME IInv, NEW s \in Staff, AttachWrite(s)
  PROVE  IInv'
<1> DEFINE v == job[s].version
<1>1. InFlight(job[s]) /\ v \in Versions
  BY GoodJob DEF AttachWrite, At, Good, InFlight
<1>2. \A u \in Versions :
        /\ versions'[u].status = versions[u].status /\ versions'[u].text = versions[u].text
        /\ versions'[u].rowVersion = versions[u].rowVersion
        /\ versions[u].media => versions'[u].media
        /\ u # v => versions'[u] = versions[u]
  BY <1>1 DEF AttachWrite, IInv, RowsOK, DataOK, Version
<1>3. DataOK'
  BY <1>1 DEF AttachWrite, IInv, RowsOK, DataOK, Version
<1>4. TrailOK' /\ MediaOK' /\ QuietOK(raced)'
  BY <1>2 DEF AttachWrite, IInv, RowsOK, TrailOK, MediaOK, QuietOK, Status, HasMedia
<1>5. Forward(LessonOf[v])
  BY <1>2 DEF AttachWrite, Forward, Status
<1> QED
  BY <1>1, <1>3, <1>4, <1>5, WriteIInv DEF AttachWrite

LEMMA ReviseWriteIInv ==
  ASSUME IInv, NEW s \in Staff, ReviseWrite(s)
  PROVE  IInv'
<1> DEFINE v == job[s].version
           new == Draft(job[s].row + 1, job[s].text, s)
<1>1. job[s] \in Job /\ InFlight(job[s]) /\ v \in Versions
  BY GoodJob DEF ReviseWrite, At, Good, InFlight
<1>2. CASE UNCHANGED <<versions, accepted>>
  <2>1. DataOK' /\ TrailOK' /\ MediaOK' /\ QuietOK(raced)'
    BY <1>2 DEF ReviseWrite, IInv, RowsOK, DataOK, TrailOK, MediaOK, QuietOK, Status, HasMedia
  <2>2. Forward(LessonOf[v])
    BY <1>2 DEF ReviseWrite, Forward, Status
  <2> QED
    BY <1>1, <2>1, <2>2, WriteIInv DEF ReviseWrite
<1>3. ASSUME NEW n \in Versions, LessonOf[n] = LessonOf[v], Status(n) = "NONE",
             versions' = [versions EXCEPT ![n] = new],
             accepted' = [accepted EXCEPT ![n] = job[s].text]
      PROVE  IInv'
  <2>1. new \in Version /\ new.status = "DRAFT" /\ new.text = job[s].text /\ job[s].text \in Text
    BY <1>1 DEF Draft, Version, Statuses, Job
  <2>2. \A u \in Versions : versions'[u] = IF u = n THEN new ELSE versions[u]
    BY <1>3 DEF IInv, RowsOK, DataOK
  <2>3. \A u \in Versions : accepted'[u] = IF u = n THEN job[s].text ELSE accepted[u]
    BY <1>3 DEF IInv, RowsOK, DataOK
  <2> HIDE DEF new
  <2>4. DataOK'
    BY <1>3, <2>1 DEF ReviseWrite, IInv, RowsOK, DataOK
  <2>5. TrailOK' /\ MediaOK'
    BY <2>1, <2>2
       DEF ReviseWrite, IInv, RowsOK, TrailOK, StatusGrounds, MediaOK, Status, HasMedia, Released
  <2>6. QuietOK(raced)'
    BY <2>1, <2>2, <2>3 DEF ReviseWrite, IInv, RowsOK, QuietOK, Status, Released
  <2>7. Forward(LessonOf[v])
    BY <1>3, <2>2 DEF ReviseWrite, Forward, Status
  <2> QED
    BY <1>1, <2>4, <2>5, <2>6, <2>7, WriteIInv DEF ReviseWrite
<1> QED
  BY <1>2, <1>3 DEF ReviseWrite

\* What a transition's own status and comment rest on.
LEMMA ToGrounds ==
  ASSUME NEW op \in Ops, op # "publish", NEW t, Grounds(op, t), Trail(t)
  PROVE  /\ StatusGrounds(To(op), t \cup {Comment(op)}) /\ Trail(t \cup {Comment(op)})
         /\ To(op) \in Statuses \ {"NONE", "PUBLISHED"} /\ Comment(op) \in Actions
<1>1. CASE op \in {"submit", "resubmit"}
  BY <1>1 DEF To, Comment, Grounds, Trail, StatusGrounds, Statuses, Actions, Released
<1>2. CASE op \in {"startReview", "requestCorrection"}
  BY <1>2 DEF To, Comment, Grounds, Trail, StatusGrounds, Statuses, Actions, Released
<1>3. CASE op \in {"approve", "reject"}
  BY <1>3 DEF To, Comment, Grounds, Trail, StatusGrounds, Statuses, Actions, Released
<1>4. CASE op \in {"schedule", "unpublish", "archive"}
  BY <1>4 DEF To, Comment, Grounds, Trail, StatusGrounds, Statuses, Actions, Released
<1> QED
  BY <1>1, <1>2, <1>3, <1>4 DEF Ops

\* A transition to a released status is an approval, or starts from one.
LEMMA ReleasedFrom ==
  ASSUME NEW op \in Ops, op # "publish", NEW status, Allowed(op, status), To(op) \in Released,
         op # "approve"
  PROVE  status \in Released
<1>1. op = "schedule"
  BY DEF Ops, To, Released
<1> QED
  BY <1>1 DEF Allowed, From, Permission, StatusAllows, Released

LEMMA TransitionIInv ==
  ASSUME IInv, NEW s \in Staff, Transition(s)
  PROVE  IInv'
<1> DEFINE v == job[s].version
           op == job[s].op
<1>1. /\ Good(job[s], raced) /\ InFlight(job[s]) /\ v \in Versions
      /\ op \in Ops /\ op # "publish" /\ Grounds(op, timeline[v])
  BY GoodJob DEF Transition, At, Good, InFlight, Reviewing
<1>2. /\ StatusGrounds(To(op), timeline[v] \cup {Comment(op)})
      /\ Trail(timeline[v] \cup {Comment(op)})
      /\ To(op) \in Statuses \ {"NONE", "PUBLISHED"} /\ Comment(op) \in Actions
  BY <1>1, ToGrounds DEF IInv, RowsOK, TrailOK
<1>3. \A u \in Versions :
        /\ versions'[u].status = IF u = v THEN To(op) ELSE versions[u].status
        /\ versions'[u].media = versions[u].media /\ versions'[u].text = versions[u].text
        /\ versions'[u].rowVersion = versions[u].rowVersion
        /\ u # v => versions'[u] = versions[u]
  BY <1>1 DEF Transition, IInv, RowsOK, DataOK, Version
<1>4. \A u \in Versions :
        timeline'[u] = IF u = v THEN timeline[v] \cup {Comment(op)} ELSE timeline[u]
  BY <1>1 DEF Transition, IInv, RowsOK, DataOK
<1>5. \A u \in Versions :
        /\ op = "approve" => approved'[v] = versions[v].text
        /\ u # v \/ op # "approve" => approved'[u] = approved[u]
  BY <1>1 DEF Transition, IInv, RowsOK, DataOK
<1>6. DataOK'
  BY <1>1, <1>2 DEF Transition, IInv, RowsOK, DataOK, Version
<1>7. TrailOK' /\ MediaOK'
  BY <1>2, <1>3, <1>4 DEF IInv, RowsOK, TrailOK, MediaOK, Status, HasMedia
<1>8. QuietOK(raced)'
  <2>1. LessonOf[v] \notin raced => Allowed(op, Status(v))
    BY <1>1 DEF Good, Fresh, Reviewing, Transition, At
  <2>2. LessonOf[v] \notin raced /\ To(op) \in Released /\ op # "approve" => Status(v) \in Released
    BY <1>1, <2>1, ReleasedFrom
  <2> QED
    BY <1>1, <1>2, <1>3, <1>5, <2>2 DEF Transition, IInv, RowsOK, QuietOK, Status
<1>9. Forward(LessonOf[v])
  BY <1>1, <1>2, <1>3, <1>4 DEF Forward, Status
<1> QED
  BY <1>1, <1>6, <1>7, <1>8, <1>9, WriteIInv DEF Transition

LEMMA PublishTxIInv ==
  ASSUME IInv, NEW s \in Staff, PublishTx(s)
  PROVE  IInv'
<1> DEFINE v == job[s].version
           old == job[s].old
<1>1. /\ Good(job[s], raced) /\ InFlight(job[s]) /\ v \in Versions /\ job[s].pc = "publish"
      /\ HasMedia(v) /\ "APPROVED" \in timeline[v]
      /\ \A u \in old : LessonOf[u] = LessonOf[v]
  BY GoodJob DEF PublishTx, At, Good, InFlight, Reviewing, Grounds
<1>2. LessonOf[v] \in Lessons
  BY <1>1, ContentWorkflowAssumption
<1>3. \A u \in Versions :
        /\ versions'[u].status = IF u = v THEN "PUBLISHED"
                                 ELSE IF u \in old /\ Status(u) = "PUBLISHED" THEN "SUPERSEDED"
                                 ELSE versions[u].status
        /\ versions'[u].media = versions[u].media /\ versions'[u].text = versions[u].text
        /\ versions'[u].rowVersion = versions[u].rowVersion
        /\ LessonOf[u] # LessonOf[v] => versions'[u] = versions[u]
  BY <1>1 DEF PublishTx, IInv, RowsOK, DataOK, Version
<1>4. \A u \in Versions :
        timeline'[u] = IF u = v THEN timeline[v] \cup {"PUBLISHED"} ELSE timeline[u]
  BY <1>1 DEF PublishTx, IInv, RowsOK, DataOK
<1>5. \A l \in Lessons : current'[l] = IF l = LessonOf[v] THEN v ELSE current[l]
  BY <1>1 DEF PublishTx, IInv, RowsOK, DataOK
<1>6. DataOK'
  BY <1>1, <1>2 DEF PublishTx, IInv, RowsOK, DataOK, Version, Statuses, Actions
<1>7. TrailOK'
  BY <1>1, <1>3, <1>4 DEF IInv, RowsOK, TrailOK, StatusGrounds, Trail, Status, Released
<1>8. MediaOK'
  BY <1>1, <1>3 DEF IInv, RowsOK, MediaOK, Status, HasMedia
<1>9. Forward(LessonOf[v])
  BY <1>1, <1>3, <1>4 DEF Forward, Status
<1>10. QuietOK(raced)'
  <2> SUFFICES ASSUME NEW u \in Versions, LessonOf[u] \notin raced
               PROVE  /\ Status(u)' = "PUBLISHED" => current'[LessonOf[u]] = u
                      /\ Status(u)' \in Released => versions'[u].text = approved'[u]
                      /\ accepted'[u] \subseteq versions'[u].text
    BY DEF PublishTx, QuietOK
  <2>1. accepted'[u] \subseteq versions'[u].text
    BY <1>3 DEF PublishTx, IInv, RowsOK, QuietOK
  <2>2. CASE u = v
    <3>1. Status(v) \in Released
      BY <1>1, <2>2 DEF Good, Fresh, Reviewing, Allowed, From, Released, InFlight
    <3> QED
      BY <1>2, <1>3, <1>5, <2>1, <2>2, <3>1 DEF PublishTx, IInv, RowsOK, QuietOK
  <2>3. CASE u # v
    <3>1. Status(u)' \in {Status(u), "SUPERSEDED"}
      BY <1>3, <2>3 DEF Status
    <3>2. LessonOf[u] = LessonOf[v] => Status(u)' # "PUBLISHED"
      BY <1>1, <1>3, <2>3
         DEF Good, Fresh, Reviewing, InFlight, PublishedSiblings, Siblings, Status
    <3>3. LessonOf[u] \in Lessons
      BY ContentWorkflowAssumption
    <3> QED
      BY <1>3, <1>5, <2>1, <3>1, <3>2, <3>3 DEF PublishTx, IInv, RowsOK, QuietOK, Released
  <2> QED
    BY <2>2, <2>3
<1> QED
  BY <1>1, <1>6, <1>7, <1>8, <1>9, <1>10, WriteIInv DEF PublishTx

-----------------------------------------------------------------------------
LEMMA NextIInv == IInv /\ [Next]_vars => IInv'
<1> SUFFICES ASSUME IInv, [Next]_vars PROVE IInv'
  OBVIOUS
<1>1. ASSUME NEW s \in Staff, Step(s) PROVE IInv'
  BY <1>1, EditVersionIInv, CheckRowIInv, EditWriteIInv, AttachWriteIInv, ReviseWriteIInv,
     CheckMediaIInv, TransitionIInv, SupersedeIInv, PublishTxIInv DEF Step
<1>2. ASSUME NEW s \in Staff, NEW v \in Versions,
             \/ AttachAsset(s, v) \/ CreateNewVersion(s, v) \/ AddComment(s, v)
             \/ \E e \in Edits : OpenForm(s, v, e)
             \/ \E op \in Ops : Ask(s, op, v)
      PROVE  IInv'
  BY <1>2, AttachAssetIInv, CreateNewVersionIInv, AddCommentIInv, OpenFormIInv, AskIInv
<1>3. CASE UNCHANGED vars
  BY <1>3 DEF vars, IInv, RowsOK, DataOK, TrailOK, MediaOK, QuietOK, RestOK, JobsOK, Solo, Good,
     Fresh, Reviewing, Editing, InFlight, Status, HasMedia, PublishedSiblings, Siblings
<1> QED
  BY <1>1, <1>2, <1>3, AbortIInv DEF Next

LEMMA InvariantHolds == Spec => []IInv
  BY InitIInv, NextIInv, PTL DEF Spec

\* Every variable keeps its type, whatever the staff do.
THEOREM ContentWorkflowTypeCorrect == Spec => []TypeOK
  BY InvariantHolds, IInvImpliesTypeOK, PTL

\* No step of the review is ever skipped, for any staff, permissions and
\* interleaving of their requests.
THEOREM ReviewTrailHolds == Spec => []ReviewTrail
  BY InvariantHolds, IInvImpliesReviewTrail, PTL

\* A published version of a lesson that needs media has them.
THEOREM PublishedHasMediaHolds == Spec => []PublishedHasMedia
  BY InvariantHolds, IInvImpliesPublishedHasMedia, PTL

\* Without overlapping requests on a lesson, its published version is the
\* current one.
THEOREM PublishedIsCurrentHolds == Spec => []PublishedIsCurrent
  BY InvariantHolds, IInvImpliesPublishedIsCurrent, PTL

\* Without overlapping requests on a lesson, the text a reviewer approved is the
\* text that is published.
THEOREM ApprovedTextPublishedHolds == Spec => []ApprovedTextPublished
  BY InvariantHolds, IInvImpliesApprovedTextPublished, PTL

\* What is published has the media its type needs and, without overlapping
\* requests on its lesson, is the current version with the text that was approved.
THEOREM PublishedIsSoundHolds == Spec => []PublishedIsSound
  BY PublishedHasMediaHolds, PublishedIsCurrentHolds, ApprovedTextPublishedHolds, PTL
     DEF PublishedIsSound

\* Without overlapping requests on a lesson, no accepted edit is lost.
THEOREM EditsKeptHolds == Spec => []EditsKept
  BY InvariantHolds, IInvImpliesEditsKept, PTL

\* A write to a version that was rejected, replaced or withdrawn archives it.
LEMMA RetiredStep ==
  ASSUME IInv, Next, NEW v \in Versions, LessonOf[v] \notin raced,
         Status(v) \in {"REJECTED", "SUPERSEDED", "UNPUBLISHED", "ARCHIVED"}
  PROVE  versions'[v].status \in {Status(v), "ARCHIVED"}
<1>1. \A s \in Staff : /\ Good(job[s], raced)
                       /\ job[s].pc # "idle" => job[s].version \in Versions
  BY GoodJob DEF Good
<1>2. ASSUME NEW s \in Staff, EditWrite(s) \/ AttachWrite(s)
      PROVE  versions'[v].status = Status(v)
  <2>1. versions[v] \in Version
    BY DEF IInv, RowsOK, DataOK
  <2>2. CASE EditWrite(s)
    BY <2>1, <2>2 DEF EditWrite, IInv, RowsOK, DataOK, Version, Status
  <2>3. CASE AttachWrite(s)
    BY <2>1, <2>3 DEF AttachWrite, IInv, RowsOK, DataOK, Version, Status
  <2> QED
    BY <1>2, <2>2, <2>3
<1>3. ASSUME NEW s \in Staff, ReviseWrite(s)
      PROVE  versions'[v].status = Status(v)
  BY <1>3 DEF ReviseWrite, IInv, RowsOK, DataOK, Status
<1>4. ASSUME NEW s \in Staff, Transition(s)
      PROVE  versions'[v].status \in {Status(v), "ARCHIVED"}
  <2>1. CASE job[s].version # v
    BY <1>4, <2>1 DEF Transition, IInv, RowsOK, DataOK, Status
  <2>2. CASE job[s].version = v
    <3>1. job[s].op \in Ops /\ Allowed(job[s].op, Status(v))
      BY <1>1, <1>4, <2>2 DEF Transition, At, Good, Fresh, Reviewing, InFlight
    <3>2. job[s].op = "archive"
      BY <3>1 DEF Ops, Allowed, From, Permission, StatusAllows
    <3> QED
      BY <1>4, <2>2, <3>2 DEF Transition, To, IInv, RowsOK, DataOK, Version
  <2> QED
    BY <2>1, <2>2
<1>5. ASSUME NEW s \in Staff, PublishTx(s)
      PROVE  versions'[v].status = Status(v)
  <2>1. job[s].version = v => Allowed("publish", Status(v))
    BY <1>1, <1>5 DEF PublishTx, At, Good, Fresh, Reviewing, InFlight
  <2>2. job[s].version # v
    BY <2>1 DEF Allowed, From
  <2> QED
    BY <1>5, <2>2 DEF PublishTx, Status
<1> QED
  BY <1>2, <1>3, <1>4, <1>5
     DEF Next, Step, Abort, OpenForm, EditVersion, CheckRow, AttachAsset, CreateNewVersion, Ask,
         CheckMedia, Supersede, AddComment, Status

\* Without overlapping requests on a lesson, what was rejected, replaced or
\* withdrawn never reaches students again.
THEOREM RetiredStaysRetiredHolds == Spec => RetiredStaysRetired
<1>1. IInv /\ [Next]_vars =>
        [\A v \in Versions :
           /\ Status(v) \in {"REJECTED", "SUPERSEDED", "UNPUBLISHED", "ARCHIVED"}
           /\ LessonOf[v] \notin raced
           => versions'[v].status \in {Status(v), "ARCHIVED"}]_vars
  BY RetiredStep
<1> QED
  BY <1>1, InvariantHolds, PTL DEF Spec, RetiredStaysRetired
=============================================================================
