------------------------- MODULE MCContentWorkflow -------------------------
(* Instances of ContentWorkflow for TLC. *)
EXTENDS ContentWorkflow, TLC

CONSTANTS teacher, head, lesson, v1, v2

OneLesson == [v \in {v1, v2} |-> lesson]
FirstVersion == [l \in {lesson} |-> v1]
ByTeacher == [l \in {lesson} |-> teacher]

\* ROLE_PERMISSIONS of a teacher and of an academic head.
Checker == {"content.review", "content.approve", "content.publish",
            "content.unpublish", "content.archive"}
Maker == {"content.edit_own", "content.submit_review"}
Roles == [s \in {teacher, head} |->
            IF s = teacher THEN Maker ELSE Maker \cup Checker \cup {"content.edit_all"}]

Symmetry == Permutations(Edits)
=============================================================================
