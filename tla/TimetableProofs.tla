-------------------------- MODULE TimetableProofs ---------------------------
(***************************************************************************)
(* Who is where when, for any number of courses, rooms, slots and requests: *)
(* the backtracking search, the rows of the timetable and the reservations *)
(* of classrooms.                                                          *)
(***************************************************************************)
EXTENDS Timetabling, ClassSchedule, RoomBooking, FiniteSetTheorems, TLAPS

-----------------------------------------------------------------------------
(* Timetabling: the search keeps its partial timetable feasible.  usedSlots *)
(* says exactly who is busy when, so the check of the loop is the          *)
(* feasibility of the longer timetable; and because the timetable is       *)
(* feasible, undoing the last choice releases no slot that another course  *)
(* still needs.                                                            *)

(* usedSlots is the table of the timetable chosen so far. *)
MarksExact ==
    \A q \in Party, s \in Slot :
        s \in usedSlots[q] <=>
            \E c \in DOMAIN assignments :
                assignments[c][2] = s /\ q \in Involved(c, assignments[c][1])

SearchTyped ==
    /\ taughtBy \in [Course -> InstructorKey] /\ takenBy \in [Course -> SUBSET Enrollee]
    /\ assignments \in Seq(Place) /\ DOMAIN assignments \subseteq Course
    /\ usedSlots \in [Party -> SUBSET Slot]
    /\ tried \in [Course -> SUBSET Place]
    /\ outcome \in {"searching", "found", "none"}

(* Feasibility as the search sees it: "null" is one more key that can be busy. *)
Strict(t) ==
    /\ \A c \in DOMAIN t : HallSize[t[c][1]] >= CourseSize[c]
    /\ \A c, d \in DOMAIN t :
          c # d /\ Involved(c, t[c][1]) \cap Involved(d, t[d][1]) # {} => t[c][2] # t[d][2]

StrictlyFeasible == Strict(assignments)

Inv == SearchTyped /\ MarksExact /\ StrictlyFeasible

-----------------------------------------------------------------------------
LEMMA InvolvedAreParties ==
    ASSUME SearchTyped, NEW c \in Course, NEW h \in Hall
    PROVE  Involved(c, h) \subseteq Party
BY DEF SearchTyped, Involved, Party

LEMMA InitInv == TimetableInit => Inv
<1> SUFFICES ASSUME TimetableInit PROVE Inv
  OBVIOUS
<1>1. assignments \in Seq(Place) /\ DOMAIN assignments = {}
  BY DEF TimetableInit
<1>2. SearchTyped
  BY <1>1 DEF TimetableInit, SearchTyped
<1>3. MarksExact
  BY <1>1 DEF TimetableInit, MarksExact
<1>4. StrictlyFeasible
  BY <1>1 DEF StrictlyFeasible, Strict
<1>5. QED
  BY <1>2, <1>3, <1>4 DEF Inv

(* A choice: the next course is given a place the loop's check lets through. *)
LEMMA AssignInv == ASSUME Inv, Assign PROVE Inv'
<1> DEFINE n == Len(assignments)
<1>1. PICK p \in Untried :
          /\ assignments' = Append(assignments, p)
          /\ usedSlots' = Occupy(index, p[1], p[2])
          /\ tried' = [tried EXCEPT ![index] = @ \cup {p}]
  BY DEF Assign
<1>2. /\ index \in Course /\ UNCHANGED <<taughtBy, takenBy, outcome>>
      /\ index = n + 1 /\ n \in Nat /\ assignments \in Seq(Place)
      /\ DOMAIN assignments = 1 .. n
  BY DEF Assign, index, Inv, SearchTyped
<1>3. /\ p \in Place /\ p[1] \in Hall /\ p[2] \in Slot
      /\ checkHardConstraints(index, p[1], p[2])
  BY <1>1 DEF Untried, Place
<1>4. /\ DOMAIN assignments' = 1 .. (n + 1) /\ assignments' \in Seq(Place)
      /\ assignments'[n + 1] = p
      /\ \A c \in 1 .. n : assignments'[c] = assignments[c]
  BY <1>1, <1>2, <1>3
<1>5. \A c, h : Involved(c, h)' = Involved(c, h)
  BY <1>2 DEF Involved
<1>6. SearchTyped'
  <2>1. DOMAIN assignments' \subseteq Course
    BY <1>2, <1>4 DEF Inv, SearchTyped
  <2>2. usedSlots' \in [Party -> SUBSET Slot]
    BY <1>1, <1>3 DEF Occupy, Inv, SearchTyped
  <2>3. tried' \in [Course -> SUBSET Place]
    BY <1>1, <1>2, <1>3 DEF Inv, SearchTyped
  <2>4. QED
    BY <1>2, <1>4, <2>1, <2>2, <2>3 DEF Inv, SearchTyped
<1>7. ASSUME NEW c \in 1 .. n, NEW q \in Involved(c, assignments[c][1]),
             q \in Involved(n + 1, p[1])
      PROVE  assignments[c][2] # p[2]
  <2>1. q \in Party
    BY <1>2, <1>3, <1>7, InvolvedAreParties DEF Inv
  <2>2. p[2] \notin usedSlots[q]
    BY <1>2, <1>3, <1>7 DEF checkHardConstraints
  <2>3. QED
    BY <1>2, <1>3, <1>7, <2>1, <2>2 DEF Inv, MarksExact
<1>8. StrictlyFeasible'
  <2>1. \A c \in 1 .. (n + 1) : HallSize[assignments'[c][1]] >= CourseSize[c]
    BY <1>2, <1>3, <1>4 DEF Inv, StrictlyFeasible, Strict, checkHardConstraints
  <2>2. ASSUME NEW c \in 1 .. (n + 1), NEW d \in 1 .. (n + 1), c # d,
               NEW q \in Involved(c, assignments'[c][1]), q \in Involved(d, assignments'[d][1])
        PROVE  assignments'[c][2] # assignments'[d][2]
    <3>1. CASE c \in 1 .. n /\ d \in 1 .. n
      <4>1. assignments'[c] = assignments[c] /\ assignments'[d] = assignments[d]
        BY <1>4, <3>1
      <4>2. QED
        BY <1>2, <2>2, <3>1, <4>1 DEF Inv, StrictlyFeasible, Strict
    <3>2. CASE c \in 1 .. n /\ d = n + 1
      BY <1>4, <1>7, <2>2, <3>2
    <3>3. CASE c = n + 1 /\ d \in 1 .. n
      BY <1>4, <1>7, <2>2, <3>3
    <3>4. QED
      BY <1>2, <2>2, <3>1, <3>2, <3>3
  <2>3. QED
    BY <1>4, <1>5, <2>1, <2>2 DEF StrictlyFeasible, Strict
<1>9. MarksExact'
  <2> SUFFICES ASSUME NEW q \in Party, NEW s \in Slot
               PROVE  s \in usedSlots'[q] <=>
                        \E c \in 1 .. (n + 1) :
                           assignments'[c][2] = s /\ q \in Involved(c, assignments'[c][1])
    BY <1>4, <1>5 DEF MarksExact
  <2>1. s \in usedSlots'[q] <=> s \in usedSlots[q] \/ (q \in Involved(n + 1, p[1]) /\ s = p[2])
    BY <1>1, <1>2 DEF Occupy
  <2>2. s \in usedSlots[q] <=>
          \E c \in 1 .. n : assignments'[c][2] = s /\ q \in Involved(c, assignments'[c][1])
    BY <1>2, <1>4 DEF Inv, MarksExact
  <2>3. QED
    BY <1>2, <1>4, <2>1, <2>2
<1>10. QED
  BY <1>6, <1>8, <1>9 DEF Inv

(* A return: the last choice is undone. *)
LEMMA BacktrackInv == ASSUME Inv, Backtrack PROVE Inv'
<1> DEFINE n == Len(assignments)
           p == assignments[n]
<1>1. /\ assignments \in Seq(Place) /\ n \in Nat /\ DOMAIN assignments = 1 .. n
      /\ index = n + 1 /\ index - 1 = n
  BY DEF Inv, SearchTyped, index
<1>2. /\ n >= 1 /\ index \in Course
      /\ assignments' = SubSeq(assignments, 1, n - 1)
      /\ usedSlots' = Unmark(n, p[1], p[2])
      /\ tried' = [tried EXCEPT ![index] = {}]
      /\ UNCHANGED <<taughtBy, takenBy, outcome>>
  BY <1>1 DEF Backtrack
<1>3. n \in Course /\ p \in Place /\ p[1] \in Hall /\ p[2] \in Slot
  <2>1. n \in DOMAIN assignments
    BY <1>1, <1>2
  <2>2. p \in Place
    BY <1>1, <2>1
  <2>3. QED
    BY <2>1, <2>2 DEF Inv, SearchTyped, Place
<1>4. /\ DOMAIN assignments' = 1 .. (n - 1) /\ assignments' \in Seq(Place)
      /\ \A c \in 1 .. (n - 1) : assignments'[c] = assignments[c]
  BY <1>1, <1>2
<1>5. \A c, h : Involved(c, h)' = Involved(c, h)
  BY <1>2 DEF Involved
<1>6. SearchTyped'
  <2>1. DOMAIN assignments' \subseteq Course
    BY <1>1, <1>4 DEF Inv, SearchTyped
  <2>2. usedSlots' \in [Party -> SUBSET Slot]
    BY <1>2 DEF Unmark, Inv, SearchTyped
  <2>3. tried' \in [Course -> SUBSET Place]
    BY <1>2 DEF Inv, SearchTyped
  <2>4. QED
    BY <1>2, <1>4, <2>1, <2>2, <2>3 DEF Inv, SearchTyped
<1>7. StrictlyFeasible'
  <2>1. \A c \in 1 .. (n - 1) : c \in 1 .. n
    BY <1>1
  <2>2. QED
    BY <1>1, <1>4, <1>5, <2>1 DEF Inv, StrictlyFeasible, Strict
(* The slot that is released for q is not the slot of another course of q. *)
<1>8. ASSUME NEW c \in 1 .. (n - 1), NEW q \in Involved(c, assignments[c][1]),
             q \in Involved(n, p[1])
      PROVE  assignments[c][2] # p[2]
  <2>1. n \in Nat /\ n >= 1 /\ c \in 1 .. (n - 1)
    BY <1>1, <1>2, <1>8
  <2>2. c \in 1 .. n /\ n \in 1 .. n /\ c # n
    BY <2>1
  <2>3. QED
    BY <1>1, <1>8, <2>2 DEF Inv, StrictlyFeasible, Strict
<1>9. MarksExact'
  <2> SUFFICES ASSUME NEW q \in Party, NEW s \in Slot
               PROVE  s \in usedSlots'[q] <=>
                        \E c \in 1 .. (n - 1) :
                           assignments[c][2] = s /\ q \in Involved(c, assignments[c][1])
    BY <1>4, <1>5 DEF MarksExact
  <2>1. s \in usedSlots'[q] <=> s \in usedSlots[q] /\ ~(q \in Involved(n, p[1]) /\ s = p[2])
    BY <1>2 DEF Unmark
  <2>2. s \in usedSlots[q] <=>
          \E c \in 1 .. n : assignments[c][2] = s /\ q \in Involved(c, assignments[c][1])
    BY <1>1 DEF Inv, MarksExact
  <2>3. \A c : c \in 1 .. n <=> c \in 1 .. (n - 1) \/ c = n
    BY <1>1, <1>2
  <2>4. QED
    BY <1>8, <2>1, <2>2, <2>3
<1>10. QED
  BY <1>6, <1>7, <1>9 DEF Inv

LEMMA FinishInv == ASSUME Inv, Finish \/ UNCHANGED timetableVars PROVE Inv'
<1>1. /\ UNCHANGED <<taughtBy, takenBy, assignments, usedSlots, tried>>
      /\ outcome' \in {"searching", "found", "none"}
  BY DEF Finish, timetableVars, Inv, SearchTyped
<1>2. SearchTyped'
  BY <1>1 DEF Inv, SearchTyped
<1>3. \A c, h : Involved(c, h)' = Involved(c, h)
  BY <1>1 DEF Involved
<1>4. MarksExact'
  BY <1>1, <1>3 DEF Inv, MarksExact
<1>5. StrictlyFeasible'
  BY <1>1, <1>3 DEF Inv, StrictlyFeasible, Strict
<1>6. QED
  BY <1>2, <1>4, <1>5 DEF Inv

-----------------------------------------------------------------------------
(* Every step keeps the invariant. *)
LEMMA InvStep == Inv /\ [TimetableNext]_timetableVars => Inv'
<1> SUFFICES ASSUME Inv, [TimetableNext]_timetableVars PROVE Inv'
  OBVIOUS
<1>1. CASE Assign
  BY <1>1, AssignInv
<1>2. CASE Backtrack
  BY <1>2, BacktrackInv
<1>3. CASE Finish
  BY <1>3, FinishInv
<1>4. CASE UNCHANGED timetableVars
  BY <1>4, FinishInv
<1>5. QED
  BY <1>1, <1>2, <1>3, <1>4 DEF TimetableNext

(* The partial timetable is never longer than the list of courses, and names halls and *)
(* slots only (schedulingService.js:150-233).                                            *)
THEOREM TimetableTypeCorrect == TimetableSpec => []TimetableTypeOK
<1>1. Inv => TimetableTypeOK
  <2> SUFFICES ASSUME Inv PROVE TimetableTypeOK
    OBVIOUS
  <2>1. PICK n \in Nat : n = Cardinality(Course) /\ Course = 1 .. n
    BY TimetableAssumption, FS_CardinalityType
  <2>2. assignments \in Seq(Place) /\ DOMAIN assignments \subseteq 1 .. n
    BY <2>1 DEF Inv, SearchTyped
  <2>3. Len(assignments) <= n
    <3>1. PICK m \in Nat : m = Len(assignments) /\ DOMAIN assignments = 1 .. m
      BY <2>2
    <3>2. m = 0 \/ m \in 1 .. n
      BY <2>2, <3>1
    <3>3. QED
      BY <3>1, <3>2
  <2>4. QED
    BY <2>1, <2>3 DEF Inv, SearchTyped, TimetableTypeOK
<1>2. QED
  BY <1>1, InitInv, InvStep, PTL DEF TimetableSpec

(* Who is really busy is among the keys, and is all of them when somebody teaches. *)
LEMMA StrictIsFeasible == ASSUME NEW t, Strict(t) PROVE Feasible(t)
BY DEF Strict, Feasible, Busy

LEMMA FeasibleIsStrict ==
    ASSUME SearchTyped, AllTaught, NEW t \in [Course -> Place], Feasible(t)
    PROVE  Strict(t)
<1>1. ASSUME NEW c \in Course PROVE Busy(c, t[c][1]) = Involved(c, t[c][1])
  <2>1. t[c][1] \in Hall /\ takenBy[c] \subseteq Enrollee /\ taughtBy[c] # Nobody
    BY DEF Place, SearchTyped, AllTaught
  <2>2. Nobody \notin Enrollee \cup Hall
    BY TimetableAssumption
  <2>3. QED
    BY <2>1, <2>2 DEF Busy, Involved
<1>2. QED
  BY <1>1 DEF Strict, Feasible

(* Whatever is tried and undone, no instructor, room or student of the partial timetable *)
(* is in two places in one slot and every room is big enough; in particular the          *)
(* timetable that solveCSP returns (schedulingService.js:150-233, 260-293).              *)
THEOREM SearchStaysFeasible == TimetableSpec => []TimetableFeasible
<1>1. Inv => TimetableFeasible
  BY StrictIsFeasible DEF Inv, StrictlyFeasible, TimetableFeasible
<1>2. QED
  BY InitInv, InvStep, <1>1, PTL DEF TimetableSpec

-----------------------------------------------------------------------------
Solutions == {t \in [Course -> Place] : Strict(t)}
Agrees(t, k) == \A d \in 1 .. k : t[d] = assignments[d]

(* The loops of the courses on the path have passed no place that a solution wants, *)
(* except the one they are at; the loops of later courses have not begun.           *)
NothingMissed ==
    /\ \A c \in Course : c > Len(assignments) + 1 => tried[c] = {}
    /\ \A t \in Solutions, c \in Course :
          c <= Len(assignments) + 1 /\ Agrees(t, c - 1) /\ t[c] \in tried[c]
              => c <= Len(assignments) /\ t[c] = assignments[c]

LEMMA CoursesAreNumbers == Course \subseteq Nat \ {0}
<1>1. Cardinality(Course) \in Nat
  BY FS_CardinalityType, TimetableAssumption
<1>2. \A c \in 1 .. Cardinality(Course) : c \in Nat \ {0}
  BY <1>1
<1>3. QED
  BY <1>2, TimetableAssumption

(* A loop that has come to its end without a place left: no solution starts like this. *)
LEMMA ExhaustedIsHopeless ==
    ASSUME Inv, NothingMissed, index \in Course, Untried = {}, NEW t \in Solutions
    PROVE  ~Agrees(t, Len(assignments))
<1> DEFINE n == Len(assignments)
           p == t[index]
<1> SUFFICES ASSUME Agrees(t, n) PROVE FALSE
  OBVIOUS
<1>1. /\ n \in Nat /\ DOMAIN assignments = 1 .. n /\ 1 .. n \subseteq Course
      /\ index = n + 1 /\ index - 1 = n
  BY DEF Inv, SearchTyped, index
<1>2. t \in [Course -> Place] /\ Strict(t) /\ DOMAIN t = Course
  BY DEF Solutions
<1>3. p \in Place /\ p[1] \in Hall /\ p[2] \in Slot
  BY <1>2 DEF Place
<1>4. checkHardConstraints(index, p[1], p[2])
  <2>1. HallSize[p[1]] >= CourseSize[index]
    BY <1>2 DEF Strict
  <2>2. ASSUME NEW q \in Involved(index, p[1]), p[2] \in usedSlots[q] PROVE FALSE
    <3>1. q \in Party
      BY <1>3, <2>2, InvolvedAreParties DEF Inv
    <3>2. PICK c \in 1 .. n : assignments[c][2] = p[2] /\ q \in Involved(c, assignments[c][1])
      BY <1>1, <1>3, <2>2, <3>1 DEF Inv, MarksExact
    <3>3. t[c] = assignments[c] /\ c # index /\ c \in Course
      BY <1>1, <3>2 DEF Agrees
    <3>4. QED
      BY <1>2, <2>2, <3>2, <3>3 DEF Strict
  <2>3. QED
    BY <2>1, <2>2 DEF checkHardConstraints
<1>5. p \in tried[index]
  BY <1>3, <1>4 DEF Untried, Place
<1>6. QED
  BY <1>1, <1>5 DEF NothingMissed

LEMMA AssignMissesNothing == ASSUME Inv, NothingMissed, Assign PROVE NothingMissed'
<1> DEFINE n == Len(assignments)
<1>1. PICK p \in Untried : /\ assignments' = Append(assignments, p)
                           /\ tried' = [tried EXCEPT ![index] = @ \cup {p}]
  BY DEF Assign
<1>2. /\ index \in Course /\ index = n + 1 /\ n \in Nat /\ assignments \in Seq(Place)
      /\ tried \in [Course -> SUBSET Place] /\ UNCHANGED <<taughtBy, takenBy>>
  BY DEF Assign, index, Inv, SearchTyped
<1>3. /\ Len(assignments') = n + 1 /\ assignments'[n + 1] = p
      /\ \A c \in 1 .. n : assignments'[c] = assignments[c]
  <2>1. p \in Place
    BY DEF Untried
  <2>2. QED
    BY <1>1, <1>2, <2>1
<1>4. \A c \in Course : c # n + 1 => tried'[c] = tried[c]
  BY <1>1, <1>2
<1>5. Solutions' = Solutions
  BY <1>2 DEF Solutions, Strict, Involved
<1>6. \A c \in Course : c > Len(assignments') + 1 => tried'[c] = {}
  BY <1>2, <1>3, <1>4, CoursesAreNumbers DEF NothingMissed
<1>7. ASSUME NEW t \in Solutions, NEW c \in Course, c <= n + 2,
             Agrees(t, c - 1)', t[c] \in tried'[c]
      PROVE  c <= n + 1 /\ t[c] = assignments'[c]
  <2>0. c \in Nat \ {0}
    BY CoursesAreNumbers
  <2>1. CASE c = n + 2
    <3>1. tried[c] = {} /\ tried'[c] = tried[c]
      BY <1>2, <1>4, <2>1 DEF NothingMissed
    <3>2. QED
      BY <1>7, <3>1
  <2>2. CASE c <= n + 1
    <3>1. Agrees(t, c - 1)
      <4>1. ASSUME NEW d \in 1 .. (c - 1) PROVE t[d] = assignments[d]
        <5>1. d \in 1 .. n
          BY <1>2, <2>0, <2>2
        <5>2. t[d] = assignments'[d]
          BY <1>7 DEF Agrees
        <5>3. QED
          BY <1>3, <5>1, <5>2
      <4>2. QED
        BY <4>1 DEF Agrees
    <3>2. CASE t[c] \in tried[c]
      <4>1. c <= n /\ t[c] = assignments[c]
        BY <2>2, <3>1, <3>2 DEF NothingMissed
      <4>2. QED
        BY <1>2, <1>3, <2>0, <4>1
    <3>3. CASE t[c] \notin tried[c]
      <4>1. c = n + 1 /\ t[c] = p
        BY <1>1, <1>2, <1>4, <1>7, <3>3
      <4>2. QED
        BY <1>2, <1>3, <4>1
    <3>4. QED
      BY <3>2, <3>3
  <2>3. QED
    BY <1>2, <1>7, <2>0, <2>1, <2>2
<1>8. QED
  BY <1>2, <1>3, <1>5, <1>6, <1>7 DEF NothingMissed

LEMMA BacktrackMissesNothing == ASSUME Inv, NothingMissed, Backtrack PROVE NothingMissed'
<1> DEFINE n == Len(assignments)
<1>1. /\ index = n + 1 /\ index - 1 = n /\ n \in Nat /\ assignments \in Seq(Place)
      /\ tried \in [Course -> SUBSET Place]
  BY DEF index, Inv, SearchTyped
<1>2. /\ index \in Course /\ n >= 1 /\ Untried = {}
      /\ assignments' = SubSeq(assignments, 1, n - 1)
      /\ tried' = [tried EXCEPT ![index] = {}]
      /\ UNCHANGED <<taughtBy, takenBy>>
  BY <1>1 DEF Backtrack
<1>3. /\ Len(assignments') = n - 1
      /\ \A c \in 1 .. (n - 1) : assignments'[c] = assignments[c]
  BY <1>1, <1>2
<1>4. /\ tried'[n + 1] = {}
      /\ \A c \in Course : c # n + 1 => tried'[c] = tried[c]
  BY <1>1, <1>2
<1>5. Solutions' = Solutions
  BY <1>2 DEF Solutions, Strict, Involved
<1>6. \A c \in Course : c > Len(assignments') + 1 => tried'[c] = {}
  BY <1>1, <1>3, <1>4, CoursesAreNumbers DEF NothingMissed
<1>7. ASSUME NEW t \in Solutions, NEW c \in Course, c <= n,
             Agrees(t, c - 1)', t[c] \in tried'[c]
      PROVE  c <= n - 1 /\ t[c] = assignments'[c]
  <2>0. c \in Nat \ {0}
    BY CoursesAreNumbers
  <2>1. ASSUME NEW d \in 1 .. (c - 1) PROVE t[d] = assignments[d]
    <3>1. d \in 1 .. (n - 1)
      BY <1>1, <1>7, <2>0
    <3>2. t[d] = assignments'[d]
      BY <1>7 DEF Agrees
    <3>3. QED
      BY <1>3, <3>1, <3>2
  <2>2. Agrees(t, c - 1)
    BY <2>1 DEF Agrees
  <2>3. t[c] \in tried[c]
    BY <1>1, <1>4, <1>7, <2>0
  <2>4. t[c] = assignments[c]
    BY <1>1, <1>7, <2>0, <2>2, <2>3 DEF NothingMissed
  <2>5. c # n
    <3> SUFFICES ASSUME c = n PROVE FALSE
      OBVIOUS
    <3>1. \A d \in 1 .. n : d \in 1 .. (c - 1) \/ d = c
      BY <1>1, <2>0
    <3>2. Agrees(t, n)
      BY <2>1, <2>4, <3>1 DEF Agrees
    <3>3. QED
      BY <1>2, <3>2, ExhaustedIsHopeless
  <2>6. QED
    BY <1>1, <1>3, <1>7, <2>0, <2>4, <2>5
<1>8. QED
  BY <1>1, <1>3, <1>5, <1>6, <1>7 DEF NothingMissed

StrictFailure == outcome = "none" => \A t \in [Course -> Place] : ~Strict(t)

(* When the outermost loop has come to its end, every first choice was tried in vain. *)
LEMMA FinishIsRight ==
    ASSUME Inv, NothingMissed, StrictFailure, Finish PROVE NothingMissed' /\ StrictFailure'
<1>1. UNCHANGED <<taughtBy, takenBy, assignments, usedSlots, tried>>
  BY DEF Finish
<1>2. Solutions' = Solutions /\ \A t : Strict(t)' = Strict(t)
  BY <1>1 DEF Solutions, Strict, Involved
<1>3. NothingMissed'
  BY <1>1, <1>2 DEF NothingMissed, Agrees
<1>4. ASSUME outcome' = "none" PROVE \A t \in [Course -> Place] : ~Strict(t)
  <2>1. index = 1 /\ index \in Course /\ Untried = {}
    BY <1>4 DEF Finish
  <2>2. Len(assignments) = 0
    BY <2>1 DEF index, Inv, SearchTyped
  <2>3. \A t : Agrees(t, Len(assignments))
    BY <2>2 DEF Agrees
  <2>4. \A t \in Solutions : FALSE
    BY <2>1, <2>3, ExhaustedIsHopeless
  <2>5. QED
    BY <2>4 DEF Solutions
<1>5. StrictFailure'
  BY <1>2, <1>4 DEF StrictFailure, Place
<1>6. QED
  BY <1>3, <1>5

(* When every section has an instructor, solveCSP gives up only when there is no timetable *)
(* at all: its recursion passes over no place that could have been right                  *)
(* (schedulingService.js:150-233, 247).                                                    *)
THEOREM SearchIsComplete == TimetableSpec => []FailureIsReal
<1> DEFINE Complete == Inv /\ NothingMissed /\ StrictFailure
<1>1. TimetableInit => Complete
  <2> SUFFICES ASSUME TimetableInit PROVE Complete
    OBVIOUS
  <2>1. \A c \in Course : tried[c] = {}
    BY DEF TimetableInit
  <2>2. StrictFailure
    BY DEF TimetableInit, StrictFailure
  <2>3. QED
    BY <2>1, <2>2, InitInv DEF NothingMissed
<1>2. Complete /\ [TimetableNext]_timetableVars => Complete'
  <2> SUFFICES ASSUME Complete, [TimetableNext]_timetableVars PROVE Complete'
    OBVIOUS
  <2>1. CASE Assign
    <3>1. StrictFailure'
      BY <2>1 DEF Assign, StrictFailure
    <3>2. QED
      BY <2>1, <3>1, AssignInv, AssignMissesNothing
  <2>2. CASE Backtrack
    <3>1. StrictFailure'
      BY <2>2 DEF Backtrack, StrictFailure
    <3>2. QED
      BY <2>2, <3>1, BacktrackInv, BacktrackMissesNothing
  <2>3. CASE Finish
    BY <2>3, FinishInv, FinishIsRight
  <2>4. CASE UNCHANGED timetableVars
    <3>1. NothingMissed'
      BY <2>4 DEF timetableVars, NothingMissed, Solutions, Agrees, Strict, Involved
    <3>2. StrictFailure'
      BY <2>4 DEF timetableVars, StrictFailure, Strict, Involved
    <3>3. QED
      BY <2>4, <3>1, <3>2, FinishInv
  <2>5. QED
    BY <2>1, <2>2, <2>3, <2>4 DEF TimetableNext
<1>3. Complete => FailureIsReal
  BY FeasibleIsStrict DEF Inv, StrictFailure, FailureIsReal, NoSolution
<1>4. QED
  BY <1>1, <1>2, <1>3, PTL DEF TimetableSpec

-----------------------------------------------------------------------------
(* ClassSchedule: no index keeps a second set of rows out.                 *)

(* The timetable starts well typed. *)
LEMMA ScheduleTypedInit == ScheduleInit => ScheduleTypeOK
<1> SUFFICES ASSUME ScheduleInit PROVE ScheduleTypeOK
  OBVIOUS
<1>1. SomeLecture \in Lecture
  BY ScheduleAssumption DEF SomeLecture
<1>2. QED
  BY <1>1 DEF ScheduleInit, ScheduleTypeOK, SlotRows

(* A step of one slot leaves the others where they are. *)
LEMMA CsMoves ==
    ASSUME ScheduleTypeOK, NEW c \in Creator, NEW step, NEW l, CsGoto(c, step, l)
    PROVE  /\ csPc'[c] = step /\ csOf'[c] = l
           /\ \A q \in Creator : q # c => csPc'[q] = csPc[q] /\ csOf'[q] = csOf[q]
BY DEF CsGoto, ScheduleTypeOK

LEMMA CsGotoTyped ==
    ASSUME ScheduleTypeOK, NEW c \in Creator,
           NEW step \in {"idle", "next", "approve", "commit", "create", "insert"},
           NEW l \in Lecture, CsGoto(c, step, l)
    PROVE  /\ csPc' \in [Creator -> {"idle", "next", "approve", "commit", "create", "insert"}]
           /\ csOf' \in [Creator -> Lecture]
BY DEF CsGoto, ScheduleTypeOK

LEMMA ScheduleTypedStep ==
    ScheduleTypeOK /\ [ScheduleNext]_scheduleVars => ScheduleTypeOK'
<1> SUFFICES ASSUME ScheduleTypeOK, [ScheduleNext]_scheduleVars PROVE ScheduleTypeOK'
  OBVIOUS
<1>0. /\ SomeLecture \in Lecture
      /\ copies \in [Lecture -> Nat] /\ generated \subseteq Lecture
      /\ csTodo \in [Creator -> SUBSET Lecture] /\ csSeen \in [Approver -> BOOLEAN]
      /\ csOf \in [Creator -> Lecture]
  BY ScheduleAssumption DEF SomeLecture, ScheduleTypeOK, SlotRows
<1>1. CASE UNCHANGED scheduleVars
  BY <1>1 DEF scheduleVars, ScheduleTypeOK
<1>2. ASSUME NEW c \in Creator, NEW rest \in SUBSET Lecture, Onward(c, rest)
      PROVE  /\ csPc' \in [Creator -> {"idle", "next", "approve", "commit", "create", "insert"}]
             /\ csOf' \in [Creator -> Lecture] /\ csTodo' \in [Creator -> SUBSET Lecture]
  <2>1. PICK step \in {"idle", "next"} : CsGoto(c, step, SomeLecture)
    BY <1>2 DEF Onward
  <2>2. QED
    BY <1>0, <1>2, <2>1, CsGotoTyped DEF Onward
<1>3. ASSUME NEW l \in Lecture, Created(l) \/ UNCHANGED copies PROVE copies' \in [Lecture -> Nat]
  BY <1>0, <1>3 DEF Created
<1>4. ASSUME NEW c \in Creator, CreateCount(c) \/ CreateRows(c) \/ ScheduleAbort(c)
      PROVE  ScheduleTypeOK'
  <2>1. csOf[c] \in Lecture /\ csTodo[c] \in SUBSET Lecture /\ {} \in SUBSET Lecture
    BY <1>0
  <2>2. CASE CreateCount(c)
    <3>1. UNCHANGED <<copies, generated, csSeen>>
      BY <2>2 DEF CreateCount
    <3>2. \/ CsGoto(c, "insert", csOf[c]) /\ UNCHANGED csTodo
          \/ Onward(c, csTodo[c])
      BY <2>2 DEF CreateCount
    <3>3. QED
      BY <1>0, <1>2, <2>1, <3>1, <3>2, CsGotoTyped DEF ScheduleTypeOK, SlotRows
  <2>3. CASE CreateRows(c)
    <3>1. UNCHANGED <<generated, csSeen>> /\ Created(csOf[c]) /\ Onward(c, csTodo[c])
      BY <2>3 DEF CreateRows
    <3>2. QED
      BY <1>0, <1>2, <1>3, <2>1, <3>1 DEF ScheduleTypeOK, SlotRows
  <2>4. CASE ScheduleAbort(c)
    <3>1. /\ UNCHANGED <<copies, generated>> /\ (Onward(c, csTodo[c]) \/ Onward(c, {}))
          /\ csSeen' = [a \in Approver |-> csSeen[a] /\ a # c]
      BY <2>4 DEF ScheduleAbort
    <3>2. csSeen' \in [Approver -> BOOLEAN]
      BY <3>1
    <3>3. QED
      BY <1>0, <1>2, <2>1, <3>1, <3>2 DEF ScheduleTypeOK, SlotRows
  <2>5. QED
    BY <1>4, <2>2, <2>3, <2>4
<1>5. ASSUME NEW a \in Approver, ApproveUpdate(a) \/ ApproveCommitRows(a)
      PROVE  ScheduleTypeOK'
  <2>1. a \in Creator /\ csOf[a] \in Lecture /\ csTodo[a] \in SUBSET Lecture
    BY <1>0 DEF Creator
  <2>2. CASE ApproveUpdate(a)
    BY <1>0, <2>1, <2>2, CsGotoTyped DEF ApproveUpdate, ScheduleTypeOK, SlotRows
  <2>3. CASE ApproveCommitRows(a)
    <3>1. /\ Created(csOf[a]) \/ UNCHANGED copies
          /\ csSeen' = [csSeen EXCEPT ![a] = FALSE] /\ Onward(a, csTodo[a]) /\ UNCHANGED generated
      BY <2>3 DEF ApproveCommitRows
    <3>2. csSeen' \in [Approver -> BOOLEAN]
      BY <1>0, <3>1
    <3>3. QED
      BY <1>0, <1>2, <1>3, <2>1, <3>1, <3>2 DEF ScheduleTypeOK, SlotRows
  <2>4. QED
    BY <1>5, <2>2, <2>3
<1>6. ASSUME NEW c \in Creator, NEW ls \in SUBSET Lecture, Loop(c, ls) PROVE ScheduleTypeOK'
  BY <1>0, <1>6, CsGotoTyped DEF Loop, ScheduleTypeOK, SlotRows
<1>7. ASSUME NEW c \in Creator, NEW ls \in SUBSET Lecture,
             ApproveAll(c, ls) \/ ViewSchedule(c, ls) \/ BackfillStart(c, ls)
      PROVE  ScheduleTypeOK'
  BY <1>6, <1>7 DEF ApproveAll, ViewSchedule, BackfillStart
<1>8. ASSUME NEW c \in Creator, NEW l \in Lecture,
             ApproveOne(c, l) \/ ApproveOpen(c, l) \/ ViewNext(c, l) \/ BackfillNext(c, l)
      PROVE  ScheduleTypeOK'
  <2>1. CASE ApproveOne(c, l)
    BY <1>6, <2>1 DEF ApproveOne
  <2>2. csTodo[c] \ {l} \in SUBSET Lecture
    BY <1>0
  <2>3. /\ UNCHANGED <<copies, generated>> /\ csTodo' = [csTodo EXCEPT ![c] = @ \ {l}]
        => csTodo' \in [Creator -> SUBSET Lecture]
    BY <1>0, <2>2
  <2>4. CASE ApproveOpen(c, l)
    <3>1. UNCHANGED <<copies, generated>> /\ csSeen' \in [Approver -> BOOLEAN]
      BY <1>0, <2>4 DEF ApproveOpen, HasRows
    <3>2. \/ CsGoto(c, "approve", l) /\ csTodo' = [csTodo EXCEPT ![c] = @ \ {l}]
          \/ Onward(c, csTodo[c] \ {l})
      BY <2>4 DEF ApproveOpen
    <3>3. QED
      BY <1>0, <1>2, <2>2, <2>3, <3>1, <3>2, CsGotoTyped DEF ScheduleTypeOK, SlotRows
  <2>5. CASE ViewNext(c, l) \/ BackfillNext(c, l)
    <3>1. UNCHANGED <<copies, generated, csSeen>>
      BY <2>5 DEF ViewNext, BackfillNext
    <3>2. \/ CsGoto(c, "create", l) /\ csTodo' = [csTodo EXCEPT ![c] = @ \ {l}]
          \/ Onward(c, csTodo[c] \ {l})
      BY <2>5 DEF ViewNext, BackfillNext
    <3>3. QED
      BY <1>0, <1>2, <2>2, <2>3, <3>1, <3>2, CsGotoTyped DEF ScheduleTypeOK, SlotRows
  <2>6. QED
    BY <1>8, <2>1, <2>4, <2>5
<1>9. ASSUME NEW l \in Lecture, SaveAssignment(l) PROVE ScheduleTypeOK'
  BY <1>0, <1>9 DEF SaveAssignment, ScheduleTypeOK, SlotRows
<1>10. QED
  BY <1>1, <1>4, <1>5, <1>7, <1>8, <1>9 DEF ScheduleNext

(* The table and the requests are of the kinds the module names. *)
THEOREM ScheduleTypeCorrect == ScheduleSpec => []ScheduleTypeOK
BY ScheduleTypedInit, ScheduleTypedStep, PTL DEF ScheduleSpec

-----------------------------------------------------------------------------
(* The requests that counted no rows of the section and have yet to write theirs: those  *)
(* at their INSERT, and the approvals whose snapshot is from before the first row.        *)
Owing(l) == {c \in Creator :
    /\ csOf[c] = l
    /\ \/ csPc[c] = "insert"
       \/ c \in Approver /\ csPc[c] \in {"approve", "commit"} /\ ~csSeen[c]}

(* Once a section has rows, no further request will owe it any. *)
CopiesInv ==
    \A l \in Lecture : copies[l] > 0 =>
        copies[l] + Cardinality(Owing(l)) <= Cardinality(Creator)

LEMMA FiniteOwing ==
    ASSUME NEW l
    PROVE  /\ IsFiniteSet(Owing(l)) /\ Cardinality(Owing(l)) \in Nat
           /\ Cardinality(Owing(l)) <= Cardinality(Creator) /\ Cardinality(Creator) \in Nat
<1>1. Owing(l) \subseteq Creator
  BY DEF Owing
<1>2. IsFiniteSet(Creator)
  BY ScheduleAssumption, FS_Union DEF Creator
<1>3. QED
  BY <1>1, <1>2, FS_Subset, FS_CardinalityType

(* A request that adds no rows, and owes a section that has rows only what it owed. *)
LEMMA CopiesFrame ==
    ASSUME ScheduleTypeOK, CopiesInv, copies' = copies,
           \A l \in Lecture : copies[l] > 0 => Owing(l)' \subseteq Owing(l)
    PROVE  CopiesInv'
<1> SUFFICES ASSUME NEW l \in Lecture, copies[l] > 0
             PROVE  copies[l] + Cardinality(Owing(l)') <= Cardinality(Creator)
  BY DEF CopiesInv
<1>1. copies[l] \in Nat
  BY DEF ScheduleTypeOK, SlotRows
<1>2. Cardinality(Owing(l)') <= Cardinality(Owing(l)) /\ Cardinality(Owing(l)') \in Nat
  BY FiniteOwing, FS_Subset, FS_CardinalityType
<1>3. QED
  BY <1>1, <1>2, FiniteOwing DEF CopiesInv

(* A request that writes what it owes. *)
LEMMA CopiesPaid ==
    ASSUME ScheduleTypeOK, CopiesInv, NEW c \in Creator, NEW l \in Lecture, c \in Owing(l),
           copies' = [copies EXCEPT ![l] = @ + 1],
           csPc'[c] \in {"idle", "next"},
           \A q \in Creator : q # c =>
               /\ csPc'[q] = csPc[q] /\ csOf'[q] = csOf[q]
               /\ q \in Approver => csSeen'[q] = csSeen[q]
    PROVE  CopiesInv'
<1>1. /\ copies[l] \in Nat /\ copies'[l] = copies[l] + 1
      /\ \A m \in Lecture : m # l => copies'[m] = copies[m]
  BY DEF ScheduleTypeOK, SlotRows
<1>2. \A m \in Lecture : Owing(m)' = Owing(m) \ {c}
  BY DEF Owing
<1>3. copies'[l] + Cardinality(Owing(l)') <= Cardinality(Creator)
  <2>1. Cardinality(Owing(l)') = Cardinality(Owing(l)) - 1
    BY <1>2, FiniteOwing, FS_RemoveElement
  <2>2. copies[l] = 0 \/ copies[l] + Cardinality(Owing(l)) <= Cardinality(Creator)
    BY <1>1 DEF CopiesInv
  <2>3. QED
    BY <1>1, <2>1, <2>2, FiniteOwing
<1>4. ASSUME NEW m \in Lecture, m # l, copies[m] > 0
      PROVE  copies'[m] + Cardinality(Owing(m)') <= Cardinality(Creator)
  <2>1. Owing(m)' = Owing(m)
    BY <1>2, <1>4 DEF Owing
  <2>2. QED
    BY <1>1, <1>4, <2>1 DEF CopiesInv
<1>5. QED
  BY <1>1, <1>3, <1>4 DEF CopiesInv

LEMMA CopiesStep == ScheduleTypeOK /\ CopiesInv /\ [ScheduleNext]_scheduleVars => CopiesInv'
<1> SUFFICES ASSUME ScheduleTypeOK, CopiesInv, [ScheduleNext]_scheduleVars PROVE CopiesInv'
  OBVIOUS
<1>0. /\ copies \in [Lecture -> Nat] /\ csOf \in [Creator -> Lecture]
      /\ csSeen \in [Approver -> BOOLEAN]
  BY DEF ScheduleTypeOK, SlotRows
<1>1. CASE UNCHANGED scheduleVars \/ \E l \in Lecture : SaveAssignment(l)
  <2>1. UNCHANGED <<copies, csPc, csOf, csSeen>>
    BY <1>1 DEF scheduleVars, SaveAssignment
  <2>2. \A l \in Lecture : Owing(l)' = Owing(l)
    BY <2>1 DEF Owing
  <2>3. QED
    BY <2>1, <2>2, CopiesFrame
<1>2. ASSUME NEW c \in Creator, NEW step \in {"idle", "next", "create"}, NEW l, CsGoto(c, step, l),
             \A a \in Approver : a # c => csSeen'[a] = csSeen[a]
      PROVE  /\ csPc'[c] = step
             /\ \A q \in Creator : q # c =>
                   /\ csPc'[q] = csPc[q] /\ csOf'[q] = csOf[q]
                   /\ q \in Approver => csSeen'[q] = csSeen[q]
             /\ copies' = copies => CopiesInv'
  <2>1. /\ csPc'[c] = step
        /\ \A q \in Creator : q # c =>
              /\ csPc'[q] = csPc[q] /\ csOf'[q] = csOf[q]
              /\ q \in Approver => csSeen'[q] = csSeen[q]
    BY <1>2, CsMoves
  <2>2. \A m \in Lecture : Owing(m)' \subseteq Owing(m)
    BY <2>1 DEF Owing
  <2>3. QED
    BY <2>1, <2>2, CopiesFrame
<1>3. ASSUME NEW c \in Creator, NEW rest, Onward(c, rest)
      PROVE  \E step \in {"idle", "next"} : CsGoto(c, step, SomeLecture)
  BY <1>3 DEF Onward
<1>4. ASSUME NEW c \in Creator, CreateCount(c) PROVE CopiesInv'
  <2>1. UNCHANGED <<copies, csSeen>>
    BY <1>4 DEF CreateCount
  <2>2. CASE Onward(c, csTodo[c])
    BY <1>2, <1>3, <2>1, <2>2
  <2>3. CASE ~HasRows(csOf[c]) /\ CsGoto(c, "insert", csOf[c])
    <3>1. /\ csPc'[c] = "insert" /\ csOf'[c] = csOf[c]
          /\ \A q \in Creator : q # c => csPc'[q] = csPc[q] /\ csOf'[q] = csOf[q]
      BY <2>3, CsMoves
    <3>2. ASSUME NEW m \in Lecture, copies[m] > 0 PROVE Owing(m)' \subseteq Owing(m)
      <4>1. csOf[c] # m
        BY <2>3, <3>2 DEF HasRows
      <4>2. QED
        BY <2>1, <3>1, <4>1 DEF Owing
    <3>3. QED
      BY <2>1, <3>2, CopiesFrame
  <2>4. QED
    BY <1>4, <2>2, <2>3 DEF CreateCount, ToCreate
<1>5. ASSUME NEW c \in Creator, CreateRows(c) PROVE CopiesInv'
  <2>1. PICK step \in {"idle", "next"} : CsGoto(c, step, SomeLecture)
    BY <1>3, <1>5 DEF CreateRows
  <2>2. c \in Owing(csOf[c]) /\ csOf[c] \in Lecture /\ UNCHANGED csSeen
    BY <1>0, <1>5 DEF CreateRows, Owing
  <2>3. copies' = copies \/ copies' = [copies EXCEPT ![csOf[c]] = @ + 1]
    BY <1>5 DEF CreateRows, Created
  <2>4. QED
    BY <1>2, <2>1, <2>2, <2>3, CopiesPaid
<1>6. ASSUME NEW a \in Approver, ApproveCommitRows(a) PROVE CopiesInv'
  <2>0. a \in Creator
    BY DEF Creator
  <2>1. PICK step \in {"idle", "next"} : CsGoto(a, step, SomeLecture)
    BY <1>3, <1>6, <2>0 DEF ApproveCommitRows
  <2>2. csOf[a] \in Lecture /\ \A b \in Approver : b # a => csSeen'[b] = csSeen[b]
    BY <1>0, <1>6, <2>0 DEF ApproveCommitRows
  <2>3. \/ copies' = copies
        \/ ~csSeen[a] /\ copies' = [copies EXCEPT ![csOf[a]] = @ + 1]
    BY <1>6 DEF ApproveCommitRows, Created, ToCreate
  <2>4. ~csSeen[a] => a \in Owing(csOf[a])
    BY <1>6, <2>0 DEF ApproveCommitRows, Owing
  <2>5. QED
    BY <1>2, <2>0, <2>1, <2>2, <2>3, <2>4, CopiesPaid
<1>7. ASSUME NEW a \in Approver, ApproveUpdate(a) PROVE CopiesInv'
  <2>1. UNCHANGED <<copies, csSeen>> /\ csPc[a] = "approve" /\ CsGoto(a, "commit", csOf[a])
    BY <1>7 DEF ApproveUpdate
  <2>2. /\ csPc'[a] = "commit" /\ csOf'[a] = csOf[a]
        /\ \A q \in Creator : q # a => csPc'[q] = csPc[q] /\ csOf'[q] = csOf[q]
    BY <2>1, CsMoves DEF Creator
  <2>3. \A m \in Lecture : Owing(m)' \subseteq Owing(m)
    BY <2>1, <2>2 DEF Owing, Creator
  <2>4. QED
    BY <2>1, <2>3, CopiesFrame
<1>8. ASSUME NEW a \in Approver, NEW l \in Lecture, ApproveOpen(a, l) PROVE CopiesInv'
  <2>0. a \in Creator /\ UNCHANGED copies /\ \A b \in Approver : b # a => csSeen'[b] = csSeen[b]
    BY <1>0, <1>8 DEF ApproveOpen, Creator
  <2>1. CASE CsGoto(a, "approve", l) /\ csSeen' = [csSeen EXCEPT ![a] = HasRows(l)]
    <3>1. /\ csOf'[a] = l /\ csPc'[a] = "approve" /\ csSeen'[a] = HasRows(l)
          /\ \A q \in Creator : q # a => csPc'[q] = csPc[q] /\ csOf'[q] = csOf[q]
      BY <1>0, <2>0, <2>1, CsMoves
    <3>2. ASSUME NEW m \in Lecture, copies[m] > 0 PROVE Owing(m)' \subseteq Owing(m)
      <4>1. m = l => csSeen'[a]
        BY <3>1, <3>2 DEF HasRows
      <4>2. a \notin Owing(m)'
        BY <3>1, <4>1 DEF Owing
      <4>3. QED
        BY <2>0, <3>1, <4>2 DEF Owing
    <3>3. QED
      BY <2>0, <3>2, CopiesFrame
  <2>2. CASE Onward(a, csTodo[a] \ {l})
    BY <1>2, <1>3, <2>0, <2>2
  <2>3. QED
    BY <1>8, <2>1, <2>2 DEF ApproveOpen
<1>9. ASSUME NEW c \in Creator, ScheduleAbort(c) PROVE CopiesInv'
  <2>1. UNCHANGED copies /\ \A a \in Approver : a # c => csSeen'[a] = csSeen[a]
    BY <1>0, <1>9 DEF ScheduleAbort
  <2>2. Onward(c, csTodo[c]) \/ Onward(c, {})
    BY <1>9 DEF ScheduleAbort
  <2>3. QED
    BY <1>2, <1>3, <2>1, <2>2
<1>10. ASSUME NEW c \in Creator, NEW ls, Loop(c, ls) PROVE CopiesInv'
  BY <1>2, <1>10 DEF Loop
<1>11. ASSUME NEW c \in Creator, NEW l \in Lecture, ViewNext(c, l) \/ BackfillNext(c, l)
       PROVE  CopiesInv'
  <2>1. UNCHANGED <<copies, csSeen>> /\ (CsGoto(c, "create", l) \/ Onward(c, csTodo[c] \ {l}))
    BY <1>11 DEF ViewNext, BackfillNext
  <2>2. QED
    BY <1>2, <1>3, <2>1
<1>12. QED
  BY <1>1, <1>4, <1>5, <1>6, <1>7, <1>8, <1>9, <1>10, <1>11
     DEF ScheduleNext, ApproveAll, ApproveOne, ViewSchedule, BackfillStart, ApproveOpen

(* A section's slots are in the timetable at most as many times as requests are served *)
(* at once, although approvals count the rows in an old snapshot and nothing locks     *)
(* what the other requests count (createScheduleFromSection, enrollmentService.js).    *)
THEOREM CopiesAreBounded == ScheduleSpec => []ScheduleCopiesBounded
<1>1. ScheduleInit => CopiesInv
  <2> SUFFICES ASSUME ScheduleInit, NEW l \in Lecture PROVE ~(copies[l] > 0)
    BY DEF CopiesInv
  <2>1. QED
    BY DEF ScheduleInit
<1>2. ScheduleTypeOK /\ CopiesInv => ScheduleCopiesBounded
  <2> SUFFICES ASSUME ScheduleTypeOK, CopiesInv, NEW l \in Lecture
               PROVE  copies[l] <= Cardinality(Creator)
    BY DEF ScheduleCopiesBounded
  <2>1. copies[l] \in Nat
    BY DEF ScheduleTypeOK, SlotRows
  <2>2. QED
    BY <2>1, FiniteOwing DEF CopiesInv
<1>3. QED
  BY ScheduleTypeCorrect, CopiesStep, <1>1, <1>2, PTL DEF ScheduleSpec

-----------------------------------------------------------------------------
(* RoomBooking: how many reservations of a room may be alive at one hour.  A *)
(* request that found the room free is followed by at most one insertion,  *)
(* and only a decision that was begun brings a reservation back.           *)

(* What a slot works on: the times a booker asked for, a row a decider has read. *)
RoomSlots ==
    /\ \A k \in Booker : \/ rbPc[k] = "idle"
                         \/ rbPc[k] = "insert" /\ rbOf[k] \in Times
    /\ \A d \in Decider : \/ rbPc[d] = "idle"
                          \/ /\ rbPc[d] \in {"approve", "reject"} /\ rbOf[d] \in Booking
                             /\ bookings[rbOf[d]].status # "none"

RoomTyped ==
    /\ bookings \in [Booking -> [status : BookingStatus, start : Hour, end : Hour]]
    /\ rbPc \in [Booker \cup Decider -> {"idle", "insert", "approve", "reject"}]
    /\ DOMAIN rbOf = Booker \cup Decider
    /\ RoomSlots

(* HeldBookings reservations may still be approved by a decider that has read them. *)
HeldBookings == {b \in Booking : \E d \in Decider : rbPc[d] = "approve" /\ rbOf[d] = b}

(* Stale ones are held although a rejection has been recorded since. *)
Stale == {b \in HeldBookings : ~Alive(b)}

(* At an hour: the reservations that are alive or may come back, and the insertions *)
(* on their way.                                                                    *)
Present(h) ==
    {b \in Booking : (Alive(b) \/ b \in HeldBookings) /\ At(h, bookings[b].start, bookings[b].end)}

Coming(h) == {k \in Booker : rbPc[k] = "insert" /\ At(h, rbOf[k][1], rbOf[k][2])}

RoomInv ==
    /\ Cardinality(Stale) <= Cardinality(Decider) - 1
    /\ \A h \in Hour :
          Cardinality(Present(h)) + Cardinality(Coming(h))
              <= Cardinality(Booker) + Cardinality(Decider) - 1

(* The counted sets are finite: their sizes are numbers. *)
LEMMA RoomSets ==
  ASSUME NEW h
  PROVE  /\ Cardinality(Decider) \in Nat \ {0} /\ Cardinality(Booker) \in Nat
         /\ IsFiniteSet(HeldBookings) /\ IsFiniteSet(Stale) /\ Cardinality(Stale) \in Nat
         /\ IsFiniteSet(Present(h)) /\ Cardinality(Present(h)) \in Nat
         /\ IsFiniteSet(Coming(h)) /\ Cardinality(Coming(h)) \in Nat
         /\ Cardinality(Coming(h)) <= Cardinality(Booker)
<1>1. HeldBookings \subseteq Booking /\ Stale \subseteq Booking /\ Present(h) \subseteq Booking
      /\ Coming(h) \subseteq Booker
  BY DEF HeldBookings, Stale, Present, Coming
<1>2. QED
  BY <1>1, BookingAssumption, FS_Subset, FS_CardinalityType, FS_EmptySet

(* A slot's step leaves the other slots where they are. *)
LEMMA RbMoves ==
  ASSUME RoomTyped, NEW s \in Booker \cup Decider, NEW step, NEW x, RbGoto(s, step, x)
  PROVE  /\ rbPc'[s] = step /\ rbOf'[s] = x
         /\ \A q \in Booker \cup Decider : q # s => rbPc'[q] = rbPc[q] /\ rbOf'[q] = rbOf[q]
         /\ DOMAIN rbOf' = Booker \cup Decider
         /\ step \in {"idle", "insert", "approve", "reject"} =>
               rbPc' \in [Booker \cup Decider -> {"idle", "insert", "approve", "reject"}]
BY DEF RbGoto, RoomTyped

(* What may come and what may come back only shrinks: the bounds are kept. *)
LEMMA RoomShrinks ==
  ASSUME RoomInv, Stale' \subseteq Stale,
         \A h \in Hour : Present(h)' \subseteq Present(h) /\ Coming(h)' \subseteq Coming(h)
  PROVE  RoomInv'
<1>1. Cardinality(Stale') <= Cardinality(Stale) /\ Cardinality(Stale') \in Nat
  BY RoomSets, FS_Subset, FS_CardinalityType
<1>2. ASSUME NEW h \in Hour
      PROVE  Cardinality(Present(h)') + Cardinality(Coming(h)')
               <= Cardinality(Booker) + Cardinality(Decider) - 1
  <2>1. /\ Cardinality(Present(h)') <= Cardinality(Present(h)) /\ Cardinality(Present(h)') \in Nat
        /\ Cardinality(Coming(h)') <= Cardinality(Coming(h)) /\ Cardinality(Coming(h)') \in Nat
    BY <1>2, RoomSets, FS_Subset, FS_CardinalityType
  <2>2. Cardinality(Present(h)) + Cardinality(Coming(h))
           <= Cardinality(Booker) + Cardinality(Decider) - 1
    BY DEF RoomInv
  <2>3. QED
    BY <2>1, <2>2, RoomSets
<1>3. QED
  BY <1>1, <1>2, RoomSets DEF RoomInv

(* A request that found no conflict at an hour: what is present there is stale. *)
LEMMA BookReadCrowd ==
  ASSUME RoomTyped, RoomInv, NEW k \in Booker, BookRead(k)
  PROVE  RoomTyped' /\ RoomInv'
<1>0. k \notin Decider
  BY BookingAssumption
<1>1. PICK t \in Times : Conflicts(t[1], t[2]) = {} /\ RbGoto(k, "insert", t)
  BY DEF BookRead
<1>2. UNCHANGED bookings /\ rbPc[k] = "idle"
  BY DEF BookRead
<1>3. /\ rbPc'[k] = "insert" /\ rbOf'[k] = t
      /\ \A q \in Booker \cup Decider : q # k => rbPc'[q] = rbPc[q] /\ rbOf'[q] = rbOf[q]
      /\ DOMAIN rbOf' = Booker \cup Decider
      /\ rbPc' \in [Booker \cup Decider -> {"idle", "insert", "approve", "reject"}]
  BY <1>1, RbMoves
<1>4. RoomTyped'
  BY <1>0, <1>2, <1>3 DEF RoomTyped, RoomSlots
<1>5. HeldBookings' = HeldBookings /\ Stale' = Stale
  BY <1>0, <1>2, <1>3 DEF HeldBookings, Stale, Alive
<1>6. ASSUME NEW h \in Hour
      PROVE  Cardinality(Present(h)') + Cardinality(Coming(h)')
               <= Cardinality(Booker) + Cardinality(Decider) - 1
  <2>1. Present(h)' = Present(h)
    BY <1>2, <1>5 DEF Present, Alive
  <2>2. CASE At(h, t[1], t[2])
    <3>1. Present(h) \subseteq Stale
      <4> SUFFICES ASSUME NEW b \in Booking, Alive(b), At(h, bookings[b].start, bookings[b].end)
                   PROVE  FALSE
        BY DEF Present, Stale
      <4>1. /\ t[1] \in Nat /\ t[2] \in Nat /\ h \in Nat
            /\ bookings[b].start \in Nat /\ bookings[b].end \in Nat
        BY DEF RoomTyped, Times, Hour
      <4>2. b \in Conflicts(t[1], t[2])
        BY <2>2, <4>1 DEF Conflicts, At
      <4>3. QED
        BY <1>1, <4>2
    <3>2. Cardinality(Present(h)) <= Cardinality(Stale)
      BY <3>1, RoomSets, FS_Subset
    <3>3. Cardinality(Coming(h)') <= Cardinality(Booker) /\ Cardinality(Coming(h)') \in Nat
      BY RoomSets, BookingAssumption, FS_Subset, FS_CardinalityType DEF Coming
    <3>4. QED
      BY <2>1, <3>2, <3>3, RoomSets DEF RoomInv
  <2>3. CASE ~At(h, t[1], t[2])
    <3>1. Coming(h)' = Coming(h)
      BY <1>2, <1>3, <2>3 DEF Coming
    <3>2. QED
      BY <2>1, <3>1 DEF RoomInv
  <2>4. QED
    BY <2>2, <2>3
<1>7. QED
  BY <1>4, <1>5, <1>6 DEF RoomInv

(* The insertion: a booker on its way becomes a reservation that is present. *)
LEMMA BookInsertCrowd ==
  ASSUME RoomTyped, RoomInv, NEW k \in Booker, BookInsert(k)
  PROVE  RoomTyped' /\ RoomInv'
<1>0. k \notin Decider /\ rbOf[k] \in Times /\ rbPc[k] = "insert"
  BY BookingAssumption DEF BookInsert, RoomTyped, RoomSlots
<1>1. PICK b \in Fresh, st \in {"pending", "approved"} :
         bookings' = [bookings EXCEPT ![b] =
                        [status |-> st, start |-> rbOf[k][1], end |-> rbOf[k][2]]]
  BY DEF BookInsert
<1>2. b \in Booking /\ bookings[b].status = "none"
  BY DEF Fresh
<1>3. RbGoto(k, "idle", NoTimes)
  BY DEF BookInsert, RbDone
<1>4. /\ rbPc'[k] = "idle"
      /\ \A q \in Booker \cup Decider : q # k => rbPc'[q] = rbPc[q] /\ rbOf'[q] = rbOf[q]
      /\ DOMAIN rbOf' = Booker \cup Decider
      /\ rbPc' \in [Booker \cup Decider -> {"idle", "insert", "approve", "reject"}]
  BY <1>3, RbMoves
<1>5. /\ bookings'[b] = [status |-> st, start |-> rbOf[k][1], end |-> rbOf[k][2]]
      /\ \A c \in Booking : c # b => bookings'[c] = bookings[c]
      /\ bookings' \in [Booking -> [status : BookingStatus, start : Hour, end : Hour]]
  <2>1. [status |-> st, start |-> rbOf[k][1], end |-> rbOf[k][2]]
           \in [status : BookingStatus, start : Hour, end : Hour]
    BY <1>0 DEF Times, BookingStatus
  <2>2. QED
    BY <1>1, <1>2, <2>1 DEF RoomTyped
<1>6. RoomTyped'
  <2>1. ASSUME NEW q \in Decider, rbPc'[q] # "idle"
        PROVE  /\ rbPc'[q] \in {"approve", "reject"} /\ rbOf'[q] \in Booking
               /\ bookings'[rbOf'[q]].status # "none"
    <3>1. /\ rbPc'[q] = rbPc[q] /\ rbOf'[q] = rbOf[q]
          /\ rbPc[q] \in {"approve", "reject"} /\ rbOf[q] \in Booking
          /\ bookings[rbOf[q]].status # "none"
      BY <1>0, <1>4, <2>1 DEF RoomTyped, RoomSlots
    <3>2. QED
      BY <1>2, <1>5, <3>1
  <2>2. ASSUME NEW q \in Booker, rbPc'[q] # "idle"
        PROVE  rbPc'[q] = "insert" /\ rbOf'[q] \in Times
    BY <1>4, <2>2 DEF RoomTyped, RoomSlots
  <2>3. RoomSlots'
    BY <2>1, <2>2 DEF RoomSlots, Times, Hour
  <2>4. QED
    BY <1>4, <1>5, <2>3 DEF RoomTyped, BookingStatus, Hour
<1>7. HeldBookings' = HeldBookings /\ b \notin HeldBookings
  BY <1>0, <1>2, <1>4 DEF HeldBookings, RoomTyped, RoomSlots
<1>8. Stale' \subseteq Stale
  BY <1>5, <1>7 DEF Stale, Alive, HeldBookings
<1>9. ASSUME NEW h \in Hour
      PROVE  Cardinality(Present(h)') + Cardinality(Coming(h)')
               <= Cardinality(Booker) + Cardinality(Decider) - 1
  <2>0. Cardinality(Present(h)) + Cardinality(Coming(h))
           <= Cardinality(Booker) + Cardinality(Decider) - 1
    BY DEF RoomInv
  <2>1. b \notin Present(h)
    BY <1>2, <1>7 DEF Present, Alive
  <2>2. CASE At(h, rbOf[k][1], rbOf[k][2])
    <3>1. Present(h)' = Present(h) \cup {b}
      BY <1>2, <1>5, <1>7, <2>2 DEF Present, Alive
    <3>2. Coming(h)' = Coming(h) \ {k} /\ k \in Coming(h)
      BY <1>0, <1>4, <2>2 DEF Coming
    <3>3. Cardinality(Present(h)') = Cardinality(Present(h)) + 1
      BY <2>1, <3>1, RoomSets, FS_AddElement
    <3>4. Cardinality(Coming(h)') = Cardinality(Coming(h)) - 1
      <4>1. IsFiniteSet(Coming(h))
        BY RoomSets
      <4>2. Cardinality(Coming(h) \ {k}) = Cardinality(Coming(h)) - 1
        BY <3>2, <4>1, FS_RemoveElement
      <4>3. QED
        BY <3>2, <4>2
    <3>5. QED
      BY <2>0, <3>3, <3>4, RoomSets
  <2>3. CASE ~At(h, rbOf[k][1], rbOf[k][2])
    <3>1. Present(h)' = Present(h)
      BY <1>2, <1>5, <1>7, <2>3 DEF Present, Alive
    <3>2. Coming(h)' = Coming(h)
      BY <1>0, <1>4, <2>3 DEF Coming
    <3>3. QED
      BY <2>0, <3>1, <3>2
  <2>4. QED
    BY <2>2, <2>3
<1>10. Cardinality(Stale') <= Cardinality(Stale) /\ Cardinality(Stale') \in Nat
  BY <1>8, RoomSets, FS_Subset, FS_CardinalityType
<1>11. Cardinality(Stale') <= Cardinality(Decider) - 1
  <2>1. Cardinality(Stale) <= Cardinality(Decider) - 1
    BY DEF RoomInv
  <2>2. QED
    BY <1>10, <2>1, RoomSets
<1>12. QED
  BY <1>6, <1>9, <1>11 DEF RoomInv

(* A decision is begun on a reservation that is alive. *)
LEMMA DecideReadCrowd ==
  ASSUME RoomTyped, RoomInv, NEW d \in Decider, DecideRead(d)
  PROVE  RoomTyped' /\ RoomInv'
<1>0. d \notin Booker /\ rbPc[d] = "idle" /\ UNCHANGED bookings
  BY BookingAssumption DEF DecideRead
<1>1. PICK b \in Booking, step \in {"approve", "reject"} :
         bookings[b].status = "pending" /\ RbGoto(d, step, b)
  BY DEF DecideRead
<1>2. /\ rbPc'[d] = step /\ rbOf'[d] = b
      /\ \A q \in Booker \cup Decider : q # d => rbPc'[q] = rbPc[q] /\ rbOf'[q] = rbOf[q]
      /\ DOMAIN rbOf' = Booker \cup Decider
      /\ rbPc' \in [Booker \cup Decider -> {"idle", "insert", "approve", "reject"}]
  BY <1>1, RbMoves
<1>3. RoomTyped'
  BY <1>0, <1>1, <1>2 DEF RoomTyped, RoomSlots
<1>4. HeldBookings' \subseteq HeldBookings \cup {b} /\ Alive(b)
  BY <1>0, <1>1, <1>2 DEF HeldBookings, Alive
<1>5. Stale' \subseteq Stale
  BY <1>0, <1>4 DEF Stale, Alive
<1>6. \A h \in Hour : Present(h)' \subseteq Present(h) /\ Coming(h)' \subseteq Coming(h)
  BY <1>0, <1>2, <1>4 DEF Present, Coming, Alive
<1>7. QED
  BY <1>3, <1>5, <1>6, RoomShrinks

(* A decider that stops holding what it held, having approved it or given up. *)
LEMMA ReleaseCrowd ==
  ASSUME RoomTyped, RoomInv, NEW s \in Booker \cup Decider, ApproveBooking(s) \/ BookingAbort(s)
  PROVE  RoomTyped' /\ RoomInv'
<1>1. RbGoto(s, "idle", NoTimes)
  BY DEF ApproveBooking, BookingAbort, RbDone
<1>2. /\ rbPc'[s] = "idle"
      /\ \A q \in Booker \cup Decider : q # s => rbPc'[q] = rbPc[q] /\ rbOf'[q] = rbOf[q]
      /\ DOMAIN rbOf' = Booker \cup Decider
      /\ rbPc' \in [Booker \cup Decider -> {"idle", "insert", "approve", "reject"}]
  BY <1>1, RbMoves
<1>3. /\ \A b \in Booking : /\ bookings'[b].start = bookings[b].start
                            /\ bookings'[b].end = bookings[b].end
                            /\ bookings'[b].status # bookings[b].status =>
                                  b \in HeldBookings /\ bookings'[b].status = "approved"
      /\ bookings' \in [Booking -> [status : BookingStatus, start : Hour, end : Hour]]
  <2>1. CASE BookingAbort(s)
    BY <2>1 DEF BookingAbort, RoomTyped
  <2>2. CASE ApproveBooking(s)
    <3>1. s \in Decider /\ rbPc[s] = "approve" /\ rbOf[s] \in Booking
      BY <2>2 DEF ApproveBooking, RoomTyped, RoomSlots
    <3>2. rbOf[s] \in HeldBookings
      BY <3>1 DEF HeldBookings
    <3>3. bookings' = [bookings EXCEPT ![rbOf[s]].status = "approved"]
      BY <2>2 DEF ApproveBooking
    <3>4. QED
      BY <3>1, <3>2, <3>3 DEF RoomTyped, BookingStatus
  <2>3. QED
    BY <2>1, <2>2
<1>4. RoomTyped'
  <2>1. ASSUME NEW q \in Decider, rbPc'[q] # "idle"
        PROVE  /\ rbPc'[q] \in {"approve", "reject"} /\ rbOf'[q] \in Booking
               /\ bookings'[rbOf'[q]].status # "none"
    <3>1. /\ rbPc'[q] = rbPc[q] /\ rbOf'[q] = rbOf[q]
          /\ rbPc[q] \in {"approve", "reject"} /\ rbOf[q] \in Booking
          /\ bookings[rbOf[q]].status # "none"
      BY <1>2, <2>1 DEF RoomTyped, RoomSlots
    <3>2. QED
      BY <1>3, <3>1
  <2>2. ASSUME NEW k \in Booker, rbPc'[k] # "idle"
        PROVE  rbPc'[k] = "insert" /\ rbOf'[k] \in Times
    BY <1>2, <2>2 DEF RoomTyped, RoomSlots
  <2>3. RoomSlots'
    BY <2>1, <2>2 DEF RoomSlots, Times, Hour
  <2>4. QED
    BY <1>2, <1>3, <2>3 DEF RoomTyped, BookingStatus, Hour
<1>5. HeldBookings' \subseteq HeldBookings
  BY <1>2 DEF HeldBookings
<1>6. Stale' \subseteq Stale
  BY <1>3, <1>5 DEF Stale, Alive, HeldBookings
<1>7. \A h \in Hour : Present(h)' \subseteq Present(h) /\ Coming(h)' \subseteq Coming(h)
  BY <1>2, <1>3, <1>5 DEF Present, Coming, Alive
<1>8. QED
  BY <1>4, <1>6, <1>7, RoomShrinks

(* A rejection can make a reservation stale, but the one who rejects holds none: *)
(* each stale reservation is held by another decider.                            *)
LEMMA RejectCrowd ==
  ASSUME RoomTyped, RoomInv, NEW d \in Decider, RejectBooking(d)
  PROVE  RoomTyped' /\ RoomInv'
<1>0. d \notin Booker /\ rbPc[d] = "reject" /\ rbOf[d] \in Booking
  BY BookingAssumption DEF RejectBooking, RoomTyped, RoomSlots
<1>1. RbGoto(d, "idle", NoTimes)
  BY DEF RejectBooking, RbDone
<1>2. /\ rbPc'[d] = "idle"
      /\ \A q \in Booker \cup Decider : q # d => rbPc'[q] = rbPc[q] /\ rbOf'[q] = rbOf[q]
      /\ DOMAIN rbOf' = Booker \cup Decider
      /\ rbPc' \in [Booker \cup Decider -> {"idle", "insert", "approve", "reject"}]
  BY <1>1, RbMoves
<1>3. bookings' = [bookings EXCEPT ![rbOf[d]].status = "rejected"]
  BY DEF RejectBooking
<1>4. /\ \A b \in Booking : /\ bookings'[b].start = bookings[b].start
                            /\ bookings'[b].end = bookings[b].end
                            /\ bookings'[b].status # bookings[b].status =>
                                  bookings'[b].status = "rejected"
      /\ bookings' \in [Booking -> [status : BookingStatus, start : Hour, end : Hour]]
  BY <1>0, <1>3 DEF RoomTyped, BookingStatus
<1>5. RoomTyped'
  BY <1>0, <1>2, <1>4 DEF RoomTyped, RoomSlots
<1>6. HeldBookings' \subseteq HeldBookings
  BY <1>2 DEF HeldBookings
<1>7. \A h \in Hour : Present(h)' \subseteq Present(h) /\ Coming(h)' \subseteq Coming(h)
  BY <1>0, <1>2, <1>4, <1>6 DEF Present, Coming, Alive
<1>8. Cardinality(Stale') <= Cardinality(Decider) - 1 /\ Cardinality(Stale') \in Nat
  <2> DEFINE Holders == {e \in Decider : rbPc'[e] = "approve" /\ rbOf'[e] \in Stale'}
             hold == [e \in Holders |-> rbOf'[e]]
  <2>1. hold \in Surjection(Holders, Stale')
    BY DEF Surjection, Stale, HeldBookings
  <2>2. Holders \subseteq Decider \ {d}
    BY <1>2
  <2>3. IsFiniteSet(Decider \ {d}) /\ Cardinality(Decider \ {d}) = Cardinality(Decider) - 1
    BY BookingAssumption, FS_RemoveElement
  <2>4. IsFiniteSet(Holders) /\ Cardinality(Holders) <= Cardinality(Decider) - 1
    BY <2>2, <2>3, FS_Subset
  <2> HIDE DEF Holders, hold
  <2>5. IsFiniteSet(Stale') /\ Cardinality(Stale') <= Cardinality(Holders)
    BY <2>1, <2>4, FS_Surjection
  <2>6. Cardinality(Stale') \in Nat /\ Cardinality(Holders) \in Nat
    BY <2>4, <2>5, FS_CardinalityType
  <2>7. QED
    BY <2>4, <2>5, <2>6, RoomSets
<1>9. ASSUME NEW h \in Hour
      PROVE  Cardinality(Present(h)') + Cardinality(Coming(h)')
               <= Cardinality(Booker) + Cardinality(Decider) - 1
  <2>1. /\ Cardinality(Present(h)') <= Cardinality(Present(h)) /\ Cardinality(Present(h)') \in Nat
        /\ Cardinality(Coming(h)') <= Cardinality(Coming(h)) /\ Cardinality(Coming(h)') \in Nat
    BY <1>7, RoomSets, FS_Subset, FS_CardinalityType
  <2>2. Cardinality(Present(h)) + Cardinality(Coming(h))
           <= Cardinality(Booker) + Cardinality(Decider) - 1
    BY DEF RoomInv
  <2>3. QED
    BY <2>1, <2>2, RoomSets
<1>10. QED
  BY <1>5, <1>8, <1>9 DEF RoomInv

(* No statement of any handler lets the crowd grow beyond the bound. *)
LEMMA RoomStep ==
  ASSUME RoomTyped, RoomInv, [BookingNext]_bookingVars
  PROVE  RoomTyped' /\ RoomInv'
<1>1. ASSUME NEW s \in Booker \cup Decider,
             BookRead(s) \/ BookInsert(s) \/ DecideRead(s) \/ RejectBooking(s)
      PROVE  RoomTyped' /\ RoomInv'
  <2>1. CASE BookRead(s)
    BY <2>1, BookReadCrowd DEF BookRead
  <2>2. CASE BookInsert(s)
    <3>1. s \in Booker
      BY <2>2 DEF BookInsert, RoomTyped, RoomSlots
    <3>2. QED
      BY <2>2, <3>1, BookInsertCrowd
  <2>3. CASE DecideRead(s)
    BY <2>3, DecideReadCrowd DEF DecideRead
  <2>4. CASE RejectBooking(s)
    <3>1. s \in Decider
      BY <2>4 DEF RejectBooking, RoomTyped, RoomSlots
    <3>2. QED
      BY <2>4, <3>1, RejectCrowd
  <2>5. QED
    BY <1>1, <2>1, <2>2, <2>3, <2>4
<1>2. CASE UNCHANGED bookingVars
  <2>1. RoomTyped'
    BY <1>2 DEF bookingVars, RoomTyped, RoomSlots
  <2>2. HeldBookings' = HeldBookings
    BY <1>2 DEF bookingVars, HeldBookings
  <2>3. Stale' = Stale
    BY <1>2, <2>2 DEF bookingVars, Stale, Alive
  <2>4. \A h \in Hour : Present(h)' = Present(h) /\ Coming(h)' = Coming(h)
    BY <1>2, <2>2 DEF bookingVars, Present, Coming, Alive
  <2>5. QED
    BY <2>1, <2>3, <2>4, RoomShrinks
<1>3. QED
  BY <1>1, <1>2, ReleaseCrowd DEF BookingNext

(* At the start nobody asks, and no reservation is held. *)
LEMMA RoomInit == BookingInit => RoomTyped /\ RoomInv
<1> SUFFICES ASSUME BookingInit PROVE RoomTyped /\ RoomInv
  OBVIOUS
<1>1. RoomTyped
  BY BookingAssumption
     DEF BookingInit, RoomTyped, RoomSlots, NoBooking, BookingStatus, Hour
<1>2. Stale = {} /\ \A h \in Hour : Present(h) = {} /\ Coming(h) = {}
  BY DEF BookingInit, Stale, HeldBookings, Present, Coming, Alive, NoBooking
<1>3. QED
  BY <1>1, <1>2, RoomSets, FS_EmptySet DEF RoomInv

(* What a slot notes are times, a reservation or nothing. *)
LEMMA NotedTyped ==
  ASSUME RoomTyped, BookingTypeOK, [BookingNext]_bookingVars
  PROVE  rbOf' \in [Booker \cup Decider -> Times \cup Booking \cup {NoTimes}]
<1>1. ASSUME NEW s \in Booker \cup Decider, NEW step,
             NEW x \in Times \cup Booking \cup {NoTimes}, RbGoto(s, step, x)
      PROVE  rbOf' \in [Booker \cup Decider -> Times \cup Booking \cup {NoTimes}]
  BY <1>1 DEF RbGoto, BookingTypeOK
<1>2. ASSUME NEW s \in Booker \cup Decider, BookRead(s) \/ DecideRead(s)
      PROVE  \E x \in Times \cup Booking \cup {NoTimes} : \E step : RbGoto(s, step, x)
  BY <1>2 DEF BookRead, DecideRead
<1>3. ASSUME NEW s \in Booker \cup Decider,
             BookInsert(s) \/ ApproveBooking(s) \/ RejectBooking(s) \/ BookingAbort(s)
      PROVE  RbGoto(s, "idle", NoTimes)
  BY <1>3 DEF BookInsert, ApproveBooking, RejectBooking, BookingAbort, RbDone
<1>4. CASE UNCHANGED bookingVars
  BY <1>4 DEF bookingVars, BookingTypeOK
<1>5. QED
  BY <1>1, <1>2, <1>3, <1>4 DEF BookingNext

(* A reservation is of hours of the day, and a request is about times or about a row *)
(* it has read (reservationService.js:24-148).                                        *)
THEOREM BookingTypeCorrect == BookingSpec => []BookingTypeOK
<1>1. BookingInit => BookingTypeOK
  BY BookingAssumption DEF BookingInit, BookingTypeOK, NoBooking, BookingStatus, Hour
<1>2. RoomTyped' /\ RoomTyped /\ BookingTypeOK /\ [BookingNext]_bookingVars => BookingTypeOK'
  BY NotedTyped DEF RoomTyped, BookingTypeOK
<1>3. QED
  BY <1>1, <1>2, RoomInit, RoomStep, PTL DEF BookingSpec

(* However many requests to reserve and decisions follow each other, the live       *)
(* reservations of a classroom at one hour are fewer than the requests served at     *)
(* once (reservationService: the conflict query locks nothing, and an approval       *)
(* writes by id what it read before).                                                *)
THEOREM CrowdIsBounded == BookingSpec => []CrowdBounded
<1>1. RoomInv => CrowdBounded
  <2> SUFFICES ASSUME RoomInv, NEW h \in Hour
               PROVE  Cardinality({b \in Booking : Alive(b) /\ At(h, bookings[b].start, bookings[b].end)})
                         <= Cardinality(Booker) + Cardinality(Decider) - 1
    BY DEF CrowdBounded
  <2> PICK live : live = {b \in Booking : Alive(b) /\ At(h, bookings[b].start, bookings[b].end)}
    OBVIOUS
  <2>1. live \subseteq Present(h)
    BY DEF Present
  <2>2. Cardinality(live) <= Cardinality(Present(h)) /\ Cardinality(live) \in Nat
    BY <2>1, RoomSets, FS_Subset, FS_CardinalityType
  <2>3. Cardinality(Present(h)) + Cardinality(Coming(h))
           <= Cardinality(Booker) + Cardinality(Decider) - 1
    BY DEF RoomInv
  <2>4. QED
    BY <2>2, <2>3, RoomSets
<1>2. QED
  BY <1>1, RoomInit, RoomStep, PTL DEF BookingSpec

=============================================================================
