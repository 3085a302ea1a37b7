---------------------------- MODULE MCGradebook ----------------------------
(* One student and two enrolments in one course, the second a repetition. *)
EXTENDS Gradebook

CONSTANTS first, again

Both == {first, again}
Student == {"student"}
Owner == [r \in Both |-> "student"]
SameCourse == [r \in Both |-> "course"]
Credits == [r \in Both |-> 3]
Repeats == [r \in Both |-> r = again]

MarksOf(midterm, final, homework) == [midterm |-> midterm, final |-> final, homework |-> homework]
OnTheFloor == {MarksOf(62, 62, 52)}
FallsShort == {<<62, 62, 52>>}                             \* 59.99999999999999
FailThenPass == {MarksOf(55, 55, -1), MarksOf(90, 90, -1)} \* FD, AA
=============================================================================
