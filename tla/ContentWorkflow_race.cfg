SPECIFICATION Spec
CONSTANTS
  teacher = teacher
  head = head
  lesson = lesson
  v1 = v1
  v2 = v2
  Staff = {teacher, head}
  Versions = {v1, v2}
  Lessons = {lesson}
  Edits = {e1, e2}
  LessonOf <- OneLesson
  First <- FirstVersion
  Author <- ByTeacher
  Can <- Roles
  NeedsMedia = {lesson}
  Budget = 2
  None = None
CHECK_DEADLOCK FALSE
SYMMETRY Symmetry
INVARIANTS ReviewTrail PublishedIsSound EditsKept
PROPERTIES RetiredStaysRetired
