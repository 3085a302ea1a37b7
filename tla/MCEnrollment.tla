---------------------------- MODULE MCEnrollment ----------------------------
(* Small catalogues for checking Enrollment: which sections there are, which of *)
(* them offer one course, and which overlap in the week.                        *)
EXTENDS Enrollment

CONSTANTS a1, a2, b1

(* One course, one section. *)
OneSection   == {a1}
(* Course A in two sections. *)
TwoOfA       == {a1, a2}
(* Course A, and course B in a section that overlaps with it. *)
AandB        == {a1, b1}

MCCourseOf == [s \in Section |-> IF s = b1 THEN "B" ELSE "A"]
MCTermOf   == [s \in Section |-> "fall"]
MCOverlap  == {{a1, b1}} \cap SUBSET Section
=============================================================================
