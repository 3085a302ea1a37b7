---------------------------- MODULE Timetabling ----------------------------
(***************************************************************************)
(* The backtracking search for a timetable (schedulingService.solveCSP).   *)
(* One step of the model is one assignment, one return to the course       *)
(* before, or the end.  The order in which rooms and slots are tried only  *)
(* decides which timetable is found first; it is left open.                *)
(***************************************************************************)
EXTENDS Naturals, Sequences, FiniteSets

CONSTANTS
    Course,       \* the sections to place, numbered in the order of the priority sort
    Instructor, Enrollee,
    Nobody,       \* the key of every section whose instructor_id is null
    Hall,         \* classrooms
    HallSize,     \* [Hall -> capacity]
    CourseSize,   \* [Course -> capacity]
    Slot          \* time slots, compared by their key: day, start and end

ASSUME TimetableAssumption ==
    /\ IsFiniteSet(Course) /\ Course = 1 .. Cardinality(Course)
    /\ HallSize \in [Hall -> Nat] /\ CourseSize \in [Course -> Nat]
    /\ Nobody \notin Instructor \cup Enrollee \cup Hall

VARIABLES
    taughtBy,     \* input: [course -> its instructor, or Nobody]
    takenBy,      \* input: [course -> the students enrolled]
    assignments,  \* the sequence of pairs of hall and slot chosen for courses 1, 2, ...
    usedSlots,    \* [instructor, Nobody, hall or student -> set of slots]
    tried,        \* [course -> the pairs its loop has passed]
    outcome       \* "searching", "found" or "none"

timetableVars == <<taughtBy, takenBy, assignments, usedSlots, tried, outcome>>

InstructorKey == Instructor \cup {Nobody}
Party == InstructorKey \cup Enrollee \cup Hall
Place == Hall \X Slot
index == Len(assignments) + 1

TimetableTypeOK ==
    /\ taughtBy \in [Course -> InstructorKey] /\ takenBy \in [Course -> SUBSET Enrollee]
    /\ assignments \in Seq(Place) /\ Len(assignments) <= Cardinality(Course)
    /\ usedSlots \in [Party -> SUBSET Slot]
    /\ tried \in [Course -> SUBSET Place]
    /\ outcome \in {"searching", "found", "none"}

TimetableInit ==
    /\ taughtBy \in [Course -> InstructorKey] /\ takenBy \in [Course -> SUBSET Enrollee]
    /\ assignments = <<>>
    /\ usedSlots = [p \in Party |-> {}]
    /\ tried = [c \in Course |-> {}]
    /\ outcome = "searching"

(* The keys marked when course c is held in hall h: those without an instructor share one. *)
Involved(c, h) == {taughtBy[c], h} \cup takenBy[c]

(* The bug TimetableFeasible is for: nobody looks at the students. *)
checkWithoutStudents(c, h, slot) ==
    /\ \A p \in {taughtBy[c], h} : slot \notin usedSlots[p]
    /\ HallSize[h] >= CourseSize[c]

checkHardConstraints(c, h, slot) ==
    /\ \A p \in Involved(c, h) : slot \notin usedSlots[p]
    /\ HallSize[h] >= CourseSize[c]

Untried == {p \in Place \ tried[index] : checkHardConstraints(index, p[1], p[2])}

Occupy(c, h, slot) ==
    [p \in Party |-> IF p \in Involved(c, h) THEN usedSlots[p] \cup {slot} ELSE usedSlots[p]]

(* The bug FailureIsReal is for: an undone choice leaves the students marked. *)
UnmarkStaffOnly(c, h, slot) ==
    [p \in Party |-> IF p \in {taughtBy[c], h} THEN usedSlots[p] \ {slot} ELSE usedSlots[p]]

Unmark(c, h, slot) ==
    [p \in Party |-> IF p \in Involved(c, h) THEN usedSlots[p] \ {slot} ELSE usedSlots[p]]

Assign ==
    /\ outcome = "searching" /\ index \in Course
    /\ \E p \in Untried :
          /\ assignments' = Append(assignments, p)
          /\ usedSlots' = Occupy(index, p[1], p[2])
          /\ tried' = [tried EXCEPT ![index] = @ \cup {p}]
    /\ UNCHANGED <<taughtBy, takenBy, outcome>>

(* The loops of course "index" are over: the call returns false, its caller undoes. *)
Backtrack ==
    LET c == index - 1  p == assignments[c] IN
    /\ outcome = "searching" /\ index \in Course /\ Untried = {} /\ c >= 1
    /\ assignments' = SubSeq(assignments, 1, c - 1)
    /\ usedSlots' = Unmark(c, p[1], p[2])
    /\ tried' = [tried EXCEPT ![index] = {}]
    /\ UNCHANGED <<taughtBy, takenBy, outcome>>

Finish ==
    /\ outcome = "searching"
    /\ \/ index \notin Course /\ outcome' = "found"
       \/ index = 1 /\ index \in Course /\ Untried = {} /\ outcome' = "none"
    /\ UNCHANGED <<taughtBy, takenBy, assignments, usedSlots, tried>>

TimetableNext == Assign \/ Backtrack \/ Finish

TimetableSpec == TimetableInit /\ [][TimetableNext]_timetableVars

-----------------------------------------------------------------------------
(* What a timetable must be, said without usedSlots: nobody real is in two places at once. *)
Busy(c, h) == Involved(c, h) \ {Nobody}

Feasible(t) ==
    /\ \A c \in DOMAIN t : HallSize[t[c][1]] >= CourseSize[c]
    /\ \A c, d \in DOMAIN t :
          c # d /\ Busy(c, t[c][1]) \cap Busy(d, t[d][1]) # {} => t[c][2] # t[d][2]

AllTaught == \A c \in Course : taughtBy[c] # Nobody
NoSolution == \A t \in [Course -> Place] : ~Feasible(t)

(* At every moment of the search, also after any number of undone choices, no instructor, *)
(* room or student of the partial timetable is in two places in one slot, and every room  *)
(* is big enough (schedulingService.js:150-233, 260-293).                                 *)
TimetableFeasible == Feasible(assignments)

(* When every section has an instructor, the search gives up only when there is no *)
(* timetable (schedulingService.js:232, 247).                                      *)
FailureIsReal == outcome = "none" /\ AllTaught => NoSolution

=============================================================================
