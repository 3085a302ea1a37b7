-------------------------- MODULE EnrollmentProofs --------------------------
(***************************************************************************)
(* What course enrolment guarantees for every set of students, sections    *)
(* and slots: while anything races; while decisions are served one at a    *)
(* time, when it implements the life cycle of EnrollmentLifecycle; and     *)
(* while an administrator edits the sections.                              *)
(***************************************************************************)
EXTENDS SectionAdmin, FiniteSetTheorems, TLAPS

EnrollerSteps == {"idle", "lockCourse", "readOwn", "checkOutside", "insert"}
DeciderSteps  == {"idle", "approve", "reject", "drop", "countUp", "countDown"}
GraderSteps   == {"idle", "completed", "failed"}

(* Each slot only executes the statements of its own kind of request. *)
SlotInv ==
    /\ \A r \in Enroller : pc[r] \in EnrollerSteps
    /\ \A r \in Decider : pc[r] \in DeciderSteps
    /\ \A r \in Grader : pc[r] \in GraderSteps

(* There is a row for an idle slot to name. *)
LEMMA RowNonEmpty == AnyRow \in Row
<1>1. PICK st \in Student, s \in Section : <<st, s>> \in Row
  BY EnrollmentAssumption DEF Row
<1>2. QED
  BY <1>1 DEF AnyRow

(* The first step of a decision. *)
ReadActions(r) ==
    \E e \in Row : ApproveRead(r, e) \/ RejectRead(r, e) \/ DropRead(r, e)

-----------------------------------------------------------------------------
(* Type correctness: every handler leaves the tables and the slots well-typed. *)
LEMMA TypeInit == Init => TypeOK /\ SlotInv
<1> SUFFICES ASSUME Init PROVE TypeOK /\ SlotInv
  OBVIOUS
<1>1. capacity \in [Section -> Nat] /\ is_active \in [Section -> BOOLEAN]
  BY EnrollmentAssumption DEF Init
<1>2. status \in [Row -> Status] /\ enrolled_count \in [Section -> Int]
  BY DEF Init, Status
<1>3. pc \in [Request -> Step] /\ row \in [Request -> Row]
  BY RowNonEmpty DEF Init, Step
<1>4. SlotInv
  BY DEF Init, SlotInv, Request, EnrollerSteps, DeciderSteps, GraderSteps
<1>5. QED
  BY <1>1, <1>2, <1>3, <1>4 DEF TypeOK

(* And no statement of any handler changes that. *)
LEMMA TypeStep == TypeOK /\ SlotInv /\ [Next]_vars => TypeOK' /\ SlotInv'
<1> SUFFICES ASSUME TypeOK, SlotInv, [Next]_vars
             PROVE  TypeOK' /\ SlotInv'
  OBVIOUS
<1> USE RowNonEmpty, EnrollmentAssumption
    DEF TypeOK, SlotInv, Request, Status, Step, EnrollerSteps, DeciderSteps, GraderSteps
<1>1. ASSUME NEW r \in Enroller, NEW e \in Row, EnrollLockSection(r, e)
      PROVE  TypeOK' /\ SlotInv'
  BY <1>1 DEF EnrollLockSection
<1>2. ASSUME NEW r \in Enroller, EnrollLockCourse(r)
      PROVE  TypeOK' /\ SlotInv'
  BY <1>2 DEF EnrollLockCourse, Goto, Finish
<1>3. ASSUME NEW r \in Enroller, EnrollReadOwn(r)
      PROVE  TypeOK' /\ SlotInv'
  BY <1>3 DEF EnrollReadOwn, Goto, Finish
<1>4. ASSUME NEW r \in Enroller, EnrollCheckOutside(r)
      PROVE  TypeOK' /\ SlotInv'
  BY <1>4 DEF EnrollCheckOutside, Goto, Finish
<1>5. ASSUME NEW r \in Enroller, EnrollInsert(r)
      PROVE  TypeOK' /\ SlotInv'
  BY <1>5 DEF EnrollInsert, Finish
<1>6. ASSUME NEW r \in Decider, ReadActions(r)
      PROVE  TypeOK' /\ SlotInv'
  BY <1>6 DEF ReadActions, ApproveRead, RejectRead, DropRead, ReadRow
<1>7. ASSUME NEW r \in Decider, ApproveSave(r) \/ DropSave(r)
      PROVE  TypeOK' /\ SlotInv'
  BY <1>7 DEF ApproveSave, DropSave, SaveRow, Goto
<1>8. ASSUME NEW r \in Decider, ApproveCommit(r) \/ DropCommit(r)
      PROVE  TypeOK' /\ SlotInv'
  <2>1. row[r][2] \in Section
    BY DEF Row
  <2>2. QED
    BY <1>8, <2>1 DEF ApproveCommit, DropCommit, CountAndCommit, Finish
<1>9. ASSUME NEW r \in Decider, RejectCommit(r)
      PROVE  TypeOK' /\ SlotInv'
  BY <1>9 DEF RejectCommit, Finish
<1>10. ASSUME NEW r \in Grader, NEW e \in Row, NEW outcome \in {"completed", "failed"},
              GradeRead(r, e, outcome)
       PROVE  TypeOK' /\ SlotInv'
  BY <1>10 DEF GradeRead, ReadRow
<1>11. ASSUME NEW r \in Grader, GradeSave(r)
       PROVE  TypeOK' /\ SlotInv'
  BY <1>11 DEF GradeSave, Finish
<1>12. ASSUME NEW r \in Request, Abort(r)
       PROVE  TypeOK' /\ SlotInv'
  BY <1>12 DEF Abort, Finish
<1>13. CASE UNCHANGED vars
  BY <1>13 DEF vars
<1>14. QED
  BY <1>1, <1>2, <1>3, <1>4, <1>5, <1>6, <1>7, <1>8, <1>9, <1>10, <1>11, <1>12, <1>13
     DEF Next, EnrollStep, DecisionStep, ApproveStep, RejectStep, DropStep, ReadActions

(* The tables and the slots are always well-typed. *)
THEOREM TypeCorrect == Spec => [](TypeOK /\ SlotInv)
  BY TypeInit, TypeStep, PTL DEF Spec

-----------------------------------------------------------------------------
(* Capacity.  Every approval that has passed the capacity check and not yet     *)
(* counted may still take a seat: the seats taken and those still promised stay *)
(* below the capacity plus the number of decisions served at once, because the  *)
(* check itself sees fewer seats taken than the capacity.                       *)

Promised(s) == {r \in Decider : pc[r] \in {"approve", "countUp"} /\ row[r][2] = s}

SeatsInv ==
    \A s \in Section :
        enrolled_count[s] + Cardinality(Promised(s)) <= capacity[s] + Cardinality(Decider) - 1

(* No more seats are promised than there are decision slots. *)
LEMMA PromisedBounded ==
  ASSUME NEW s \in Section
  PROVE  /\ IsFiniteSet(Promised(s))
         /\ Cardinality(Promised(s)) \in Nat
         /\ Cardinality(Promised(s)) <= Cardinality(Decider)
         /\ Cardinality(Decider) \in Nat \ {0}
  BY EnrollmentAssumption, FS_Subset, FS_CardinalityType, FS_EmptySet DEF Promised

(* What a step does to the promises and the counters, the same for every handler *)
(* that is not an approval passing the check or counting.                        *)
LEMMA SeatsUntouched ==
  ASSUME TypeOK, SeatsInv, capacity' = capacity,
         \A s \in Section : Promised(s)' \subseteq Promised(s),
         \A s \in Section : enrolled_count'[s] \in Int /\ enrolled_count'[s] <= enrolled_count[s]
  PROVE  SeatsInv'
<1> SUFFICES ASSUME NEW s \in Section
             PROVE  enrolled_count'[s] + Cardinality(Promised(s)')
                      <= capacity[s] + Cardinality(Decider) - 1
  BY DEF SeatsInv
<1>1. /\ Cardinality(Promised(s)') <= Cardinality(Promised(s))
      /\ Cardinality(Promised(s)') \in Nat
  BY PromisedBounded, FS_Subset, FS_CardinalityType
<1>2. enrolled_count[s] + Cardinality(Promised(s)) <= capacity[s] + Cardinality(Decider) - 1
  BY DEF SeatsInv
<1>3. /\ enrolled_count[s] \in Int /\ capacity[s] \in Nat
      /\ enrolled_count'[s] \in Int /\ enrolled_count'[s] <= enrolled_count[s]
  BY DEF TypeOK
<1>4. Cardinality(Promised(s)) \in Nat /\ Cardinality(Decider) \in Nat
  BY PromisedBounded
<1>5. QED
  BY <1>1, <1>2, <1>3, <1>4

(* An approval that passes the check promises a seat of a section with a free one. *)
LEMMA ApprovalPromises ==
  ASSUME TypeOK, SeatsInv, NEW r \in Decider, NEW e \in Row, ApproveRead(r, e)
  PROVE  SeatsInv'
<1> SUFFICES ASSUME NEW s \in Section
             PROVE  enrolled_count[s] + Cardinality(Promised(s)')
                      <= capacity[s] + Cardinality(Decider) - 1
  BY DEF SeatsInv, ApproveRead, ReadRow
<1>1. enrolled_count[s] \in Int /\ capacity[s] \in Nat
  BY DEF TypeOK
<1>2. /\ Cardinality(Promised(s)) \in Nat /\ Cardinality(Decider) \in Nat \ {0}
      /\ IsFiniteSet(Promised(s))
  BY PromisedBounded
<1>3. CASE s = e[2]
  <2>1. enrolled_count[s] < capacity[s]
    BY <1>3 DEF ApproveRead
  <2>2. Cardinality(Promised(s)') <= Cardinality(Decider) /\ Cardinality(Promised(s)') \in Nat
    BY EnrollmentAssumption, FS_Subset, FS_CardinalityType DEF Promised
  <2>3. QED
    BY <2>1, <2>2, <1>1, <1>2
<1>4. CASE s # e[2]
  <2>1. Promised(s)' = Promised(s)
    BY <1>4 DEF Promised, ApproveRead, ReadRow, TypeOK, Request, Idle
  <2>2. enrolled_count[s] + Cardinality(Promised(s)) <= capacity[s] + Cardinality(Decider) - 1
    BY DEF SeatsInv
  <2>3. QED
    BY <2>1, <2>2
<1>5. QED
  BY <1>3, <1>4

(* An approval that counts turns its promise into a seat taken. *)
LEMMA ApprovalCounts ==
  ASSUME TypeOK, SeatsInv, NEW r \in Decider, ApproveCommit(r)
  PROVE  SeatsInv'
<1> DEFINE t == row[r][2]
<1> SUFFICES ASSUME NEW s \in Section
             PROVE  enrolled_count'[s] + Cardinality(Promised(s)')
                      <= capacity[s] + Cardinality(Decider) - 1
  BY DEF SeatsInv, ApproveCommit, CountAndCommit
<1>1. /\ enrolled_count[s] \in Int /\ capacity[s] \in Nat /\ t \in Section
      /\ enrolled_count \in [Section -> Int]
  BY DEF TypeOK, Row, Request
<1>2. /\ Cardinality(Promised(s)) \in Nat /\ Cardinality(Decider) \in Nat
      /\ IsFiniteSet(Promised(s))
  BY PromisedBounded
<1>3. enrolled_count[s] + Cardinality(Promised(s)) <= capacity[s] + Cardinality(Decider) - 1
  BY DEF SeatsInv
<1>4. Promised(s)' = Promised(s) \ {r}
  BY DEF Promised, ApproveCommit, CountAndCommit, Finish, TypeOK, Request
<1>5. r \in Promised(s) <=> s = t
  BY DEF Promised, ApproveCommit, CountAndCommit
<1>6. CASE s = t
  <2>1. Cardinality(Promised(s)') = Cardinality(Promised(s)) - 1
    BY <1>2, <1>4, <1>5, <1>6, FS_RemoveElement
  <2>2. enrolled_count'[s] = enrolled_count[s] + 1
    BY <1>1, <1>6 DEF ApproveCommit, CountAndCommit
  <2>3. QED
    BY <2>1, <2>2, <1>1, <1>2, <1>3
<1>7. CASE s # t
  <2>1. Promised(s)' = Promised(s)
    BY <1>4, <1>5, <1>7
  <2>2. enrolled_count'[s] = enrolled_count[s]
    BY <1>1, <1>7 DEF ApproveCommit, CountAndCommit
  <2>3. QED
    BY <2>1, <2>2, <1>3
<1>8. QED
  BY <1>6, <1>7

(* Every step keeps the promises and the counters within the bound. *)
LEMMA SeatsStep == TypeOK /\ SlotInv /\ SeatsInv /\ [Next]_vars => SeatsInv'
<1> SUFFICES ASSUME TypeOK, SlotInv, SeatsInv, [Next]_vars
             PROVE  SeatsInv'
  OBVIOUS
<1>a. \A s \in Section : enrolled_count[s] \in Int
  BY DEF TypeOK
<1>1. ASSUME NEW r \in Enroller, EnrollStep(r) \/ \E e \in Row : EnrollLockSection(r, e)
      PROVE  SeatsInv'
  <2>1. /\ enrolled_count' = enrolled_count /\ capacity' = capacity
        /\ \A q \in Decider : pc'[q] = pc[q] /\ row'[q] = row[q]
    BY <1>1, EnrollmentAssumption
       DEF EnrollStep, EnrollLockSection, EnrollLockCourse, EnrollReadOwn, EnrollCheckOutside,
           EnrollInsert, Goto, Finish, TypeOK, Request
  <2>2. QED
    BY <2>1, <1>a, SeatsUntouched DEF Promised
<1>2. ASSUME NEW r \in Decider, NEW e \in Row, ApproveRead(r, e)
      PROVE  SeatsInv'
  BY <1>2, ApprovalPromises
<1>3. ASSUME NEW r \in Decider, NEW e \in Row, RejectRead(r, e) \/ DropRead(r, e)
      PROVE  SeatsInv'
  <2>1. enrolled_count' = enrolled_count /\ capacity' = capacity
    BY <1>3 DEF RejectRead, DropRead, ReadRow
  <2>2. \A s \in Section : Promised(s)' \subseteq Promised(s)
    BY <1>3 DEF RejectRead, DropRead, ReadRow, Promised, TypeOK, Request
  <2>3. QED
    BY <2>1, <2>2, <1>a, SeatsUntouched
<1>4. ASSUME NEW r \in Decider, ApproveSave(r) \/ DropSave(r)
      PROVE  SeatsInv'
  <2>1. enrolled_count' = enrolled_count /\ capacity' = capacity
    BY <1>4 DEF ApproveSave, DropSave, SaveRow
  <2>2. \A s \in Section : Promised(s)' \subseteq Promised(s)
    BY <1>4 DEF ApproveSave, DropSave, SaveRow, Goto, Promised, TypeOK, Request
  <2>3. QED
    BY <2>1, <2>2, <1>a, SeatsUntouched
<1>5. ASSUME NEW r \in Decider, ApproveCommit(r)
      PROVE  SeatsInv'
  BY <1>5, ApprovalCounts
<1>6. ASSUME NEW r \in Decider, DropCommit(r)
      PROVE  SeatsInv'
  <2>1. capacity' = capacity /\ \A s \in Section : Promised(s)' \subseteq Promised(s)
    BY <1>6 DEF DropCommit, CountAndCommit, Finish, Promised, TypeOK, Request
  <2>2. \A s \in Section : enrolled_count'[s] \in Int /\ enrolled_count'[s] <= enrolled_count[s]
    BY <1>6, <1>a DEF DropCommit, CountAndCommit, TypeOK
  <2>3. QED
    BY <2>1, <2>2, SeatsUntouched
<1>7. ASSUME NEW r \in Request, RejectCommit(r) \/ GradeSave(r) \/ Abort(r)
      PROVE  SeatsInv'
  <2>1. enrolled_count' = enrolled_count /\ capacity' = capacity
    BY <1>7 DEF RejectCommit, GradeSave, Abort
  <2>2. \A s \in Section : Promised(s)' \subseteq Promised(s)
    BY <1>7 DEF RejectCommit, GradeSave, Abort, Finish, Promised, TypeOK, Request
  <2>3. QED
    BY <2>1, <2>2, <1>a, SeatsUntouched
<1>8. ASSUME NEW r \in Grader, NEW e \in Row, NEW outcome \in {"completed", "failed"},
             GradeRead(r, e, outcome)
      PROVE  SeatsInv'
  <2>1. enrolled_count' = enrolled_count /\ capacity' = capacity
    BY <1>8 DEF GradeRead, ReadRow
  <2>2. \A s \in Section : Promised(s)' \subseteq Promised(s)
    BY <1>8 DEF GradeRead, ReadRow, Promised, TypeOK, Request
  <2>3. QED
    BY <2>1, <2>2, <1>a, SeatsUntouched
<1>9. CASE UNCHANGED vars
  BY <1>9, <1>a, SeatsUntouched DEF vars, Promised
<1>10. QED
  BY <1>1, <1>2, <1>3, <1>4, <1>5, <1>6, <1>7, <1>8, <1>9
     DEF Next, DecisionStep, ApproveStep, RejectStep, DropStep, Request

(* However many students, sections and requests there are, a section is overbooked *)
(* by fewer seats than there are decisions being served at once.                    *)
THEOREM OverbookingIsBounded == Spec => []OverbookingBounded
<1>1. Init => SeatsInv
  <2> SUFFICES ASSUME Init, NEW s \in Section
               PROVE  enrolled_count[s] + Cardinality(Promised(s))
                        <= capacity[s] + Cardinality(Decider) - 1
    BY DEF SeatsInv
  <2>1. Promised(s) = {}
    BY DEF Promised, Init, Request
  <2>2. enrolled_count[s] = 0 /\ capacity[s] \in Nat
    BY EnrollmentAssumption DEF Init
  <2>3. Cardinality(Decider) \in Nat \ {0}
    BY PromisedBounded
  <2>4. QED
    BY <2>1, <2>2, <2>3, FS_EmptySet
<1>2. TypeOK /\ SeatsInv => OverbookingBounded
  <2> SUFFICES ASSUME TypeOK, SeatsInv, NEW s \in Section
               PROVE  enrolled_count[s] <= capacity[s] + Cardinality(Decider) - 1
    BY DEF OverbookingBounded
  <2>1. enrolled_count[s] + Cardinality(Promised(s)) <= capacity[s] + Cardinality(Decider) - 1
    BY DEF SeatsInv
  <2>2. enrolled_count[s] \in Int /\ capacity[s] \in Nat
    BY DEF TypeOK
  <2>3. QED
    BY <2>1, <2>2, PromisedBounded
<1>3. QED
  BY <1>1, <1>2, SeatsStep, TypeCorrect, PTL DEF Spec

OneDecider == \E d : Decider = {d}

(* What the API documentation promises holds with one decision at a time: no section *)
(* is overbooked, however many enrolment requests and gradings race with it.         *)
THEOREM CapacityIsRespected == OneDecider => (Spec => []NoOverbooking)
<1>. SUFFICES ASSUME OneDecider PROVE Spec => []NoOverbooking
  OBVIOUS
<1>1. OverbookingBounded /\ TypeOK => NoOverbooking
  <2>. SUFFICES ASSUME OverbookingBounded, TypeOK, NEW s \in Section
                PROVE  enrolled_count[s] <= capacity[s]
    BY DEF NoOverbooking
  <2>1. Cardinality(Decider) = 1
    BY FS_Singleton DEF OneDecider
  <2>2. enrolled_count[s] \in Int /\ capacity[s] \in Nat
    BY DEF TypeOK
  <2>3. enrolled_count[s] <= capacity[s] + Cardinality(Decider) - 1
    BY DEF OverbookingBounded
  <2>. QED  BY <2>1, <2>2, <2>3
<1>. QED  BY OverbookingIsBounded, TypeCorrect, <1>1, PTL

-----------------------------------------------------------------------------
(* The locks of enrollStudent.  Section and course rows are held by one request *)
(* at a time; behind them, what the request has checked stays true until it     *)
(* commits.                                                                     *)

HoldsCourseRow(r) == pc[r] \in {"readOwn", "checkOutside", "insert"}

LocksExclusive ==
    /\ \A q, r \in Enroller, s \in Section : HoldsSection(q, s) /\ HoldsSection(r, s) => q = r
    /\ \A q, r \in Enroller :
          HoldsCourseRow(q) /\ HoldsCourseRow(r) /\ CourseOf[row[q][2]] = CourseOf[row[r][2]]
             => q = r

SeatStillFree ==
    \A r \in Enroller : HoldsCourseRow(r) =>
        is_active[row[r][2]] /\ enrolled_count[row[r][2]] < capacity[row[r][2]]

NoRivalPending ==
    \A r \in Enroller : pc[r] \in {"checkOutside", "insert"} =>
        \A f \in OtherSections(row[r]) : status[f] # "pending"

EnrollInv == LocksExclusive /\ SeatStillFree /\ NoRivalPending /\ OnePendingPerOffering

(* What decisions, grade entries and their rollbacks do to an enrolment request: *)
(* they leave its slot alone, they make no row pending, and they count a seat    *)
(* only in a section that no enrolment request has locked.                       *)
Elsewhere ==
    /\ \A r \in Enroller : pc'[r] = pc[r] /\ row'[r] = row[r]
    /\ \A e \in Row : status'[e] = "pending" => status[e] = "pending"
    /\ \A s \in Section : \/ enrolled_count'[s] <= enrolled_count[s]
                           \/ SectionFree(s)
    /\ capacity' = capacity /\ is_active' = is_active

(* Decisions, grade entries and aborts neither add a pending row nor move a request *)
(* of enrollStudent forward.                                                        *)
LEMMA OthersElsewhere ==
  ASSUME TypeOK, NEW r \in Decider \cup Grader,
         \/ DecisionStep(r) \/ GradeSave(r) \/ Abort(r)
         \/ \E e \in Row : ApproveRead(r, e) \/ RejectRead(r, e) \/ DropRead(r, e)
         \/ \E e \in Row, outcome \in {"completed", "failed"} : GradeRead(r, e, outcome)
  PROVE  Elsewhere
<1> USE EnrollmentAssumption DEF TypeOK, Request
<1>0. /\ r \notin Enroller /\ row[r] \in Row /\ row[r][2] \in Section
      /\ \A s \in Section : enrolled_count[s] \in Int
  BY DEF Row
<1>1. CASE ApproveSave(r) \/ DropSave(r)
  BY <1>0, <1>1 DEF ApproveSave, DropSave, SaveRow, Goto, Elsewhere
<1>2. CASE ApproveCommit(r)
  BY <1>0, <1>2 DEF ApproveCommit, CountAndCommit, Finish, Elsewhere
<1>3. CASE DropCommit(r)
  BY <1>0, <1>3 DEF DropCommit, CountAndCommit, Finish, Elsewhere
<1>4. CASE RejectCommit(r)
  BY <1>0, <1>4 DEF RejectCommit, Finish, Elsewhere
<1>5. CASE GradeSave(r)
  BY <1>0, <1>5 DEF GradeSave, Finish, Elsewhere
<1>6. CASE Abort(r)
  BY <1>0, <1>6 DEF Abort, Finish, Elsewhere
<1>7. CASE \E e \in Row : ApproveRead(r, e) \/ RejectRead(r, e) \/ DropRead(r, e)
  BY <1>0, <1>7 DEF ApproveRead, RejectRead, DropRead, ReadRow, Elsewhere
<1>8. CASE \E e \in Row, outcome \in {"completed", "failed"} : GradeRead(r, e, outcome)
  BY <1>0, <1>8 DEF GradeRead, ReadRow, Elsewhere
<1>9. QED
  BY <1>1, <1>2, <1>3, <1>4, <1>5, <1>6, <1>7, <1>8 DEF DecisionStep, ApproveStep, RejectStep, DropStep

(* Such steps keep what enrollStudent relies on. *)
LEMMA ElsewhereKeeps ==
  ASSUME TypeOK, TypeOK', EnrollInv, Elsewhere
  PROVE  EnrollInv'
<1> USE DEF TypeOK, Request, HoldsCourseRow, HoldsSection, Elsewhere
<1>1. LocksExclusive'
  BY DEF EnrollInv, LocksExclusive
<1>2. SeatStillFree'
  <2> SUFFICES ASSUME NEW r \in Enroller, HoldsCourseRow(r)
               PROVE  is_active[row[r][2]] /\ enrolled_count'[row[r][2]] < capacity[row[r][2]]
    BY DEF SeatStillFree
  <2>1. row[r][2] \in Section /\ ~SectionFree(row[r][2])
    BY DEF SectionFree, Row
  <2>2. is_active[row[r][2]] /\ enrolled_count[row[r][2]] < capacity[row[r][2]]
    BY DEF EnrollInv, SeatStillFree
  <2>3. enrolled_count'[row[r][2]] <= enrolled_count[row[r][2]]
    BY <2>1
  <2>4. QED
    BY <2>1, <2>2, <2>3
<1>3. NoRivalPending'
  BY DEF EnrollInv, NoRivalPending, OtherSections
<1>4. OnePendingPerOffering'
  BY DEF EnrollInv, OnePendingPerOffering, OtherSections
<1>5. QED
  BY <1>1, <1>2, <1>3, <1>4 DEF EnrollInv

(* The insertion itself: the request holds the course row, so no other request of *)
(* the student for that offering is past its own check.                           *)
LEMMA InsertKeeps ==
  ASSUME TypeOK, EnrollInv, NEW r \in Enroller, EnrollInsert(r)
  PROVE  EnrollInv'
<1> USE EnrollmentAssumption DEF TypeOK, Request, HoldsCourseRow, HoldsSection
<1>0. /\ pc' = [pc EXCEPT ![r] = "idle"] /\ row' = [row EXCEPT ![r] = AnyRow]
      /\ pc[r] = "insert" /\ row[r] \in Row
      /\ enrolled_count' = enrolled_count /\ capacity' = capacity /\ is_active' = is_active
  BY DEF EnrollInsert, Finish
<1>1. \A e \in Row : status'[e] # status[e] => e = row[r]
  BY DEF EnrollInsert
<1>2. LocksExclusive'
  BY <1>0 DEF EnrollInv, LocksExclusive
<1>3. SeatStillFree'
  BY <1>0 DEF EnrollInv, SeatStillFree
<1>4. NoRivalPending'
  <2> SUFFICES ASSUME NEW q \in Enroller, q # r, pc[q] \in {"checkOutside", "insert"},
                      NEW f \in OtherSections(row[q])
               PROVE  status'[f] # "pending"
    BY <1>0 DEF NoRivalPending, OtherSections
  <2>1. f \in Row /\ status[f] # "pending" /\ CourseOf[row[q][2]] = CourseOf[f[2]]
    BY DEF EnrollInv, NoRivalPending, OtherSections, SameOffering
  <2>2. f # row[r]
    BY <1>0, <2>1 DEF EnrollInv, LocksExclusive
  <2>3. QED
    BY <1>1, <2>1, <2>2
<1>5. OnePendingPerOffering'
  <2> SUFFICES ASSUME NEW e \in Row, NEW f \in OtherSections(e)
               PROVE  ~(status'[e] = "pending" /\ status'[f] = "pending")
    BY DEF OnePendingPerOffering, OtherSections
  <2>1. f \in Row /\ e \in OtherSections(f)
    BY DEF OtherSections, SameOffering
  <2>2. ~(status[e] = "pending" /\ status[f] = "pending")
    BY DEF EnrollInv, OnePendingPerOffering
  <2>3. \A g \in OtherSections(row[r]) : status[g] # "pending" /\ status'[g] # "pending"
    BY <1>0, <1>1 DEF EnrollInv, NoRivalPending, OtherSections
  <2>4. QED
    BY <1>1, <2>1, <2>2, <2>3
<1>6. QED
  BY <1>2, <1>3, <1>4, <1>5 DEF EnrollInv

(* Each step of enrollStudent keeps it too. *)
LEMMA EnrollStepKeeps ==
  ASSUME TypeOK, EnrollInv, NEW r \in Enroller,
         \/ EnrollStep(r) \/ Abort(r)
         \/ \E e \in Row : EnrollLockSection(r, e)
  PROVE  EnrollInv'
<1> USE EnrollmentAssumption DEF TypeOK, Request, HoldsCourseRow, HoldsSection
<1>1. CASE \E e \in Row : EnrollLockSection(r, e)
  <2> PICK e \in Row : EnrollLockSection(r, e)
    BY <1>1
  <2>1. LocksExclusive'
    BY DEF EnrollInv, LocksExclusive, EnrollLockSection, SectionFree, Idle
  <2>2. SeatStillFree' /\ NoRivalPending' /\ OnePendingPerOffering'
    BY DEF EnrollInv, SeatStillFree, NoRivalPending, OnePendingPerOffering, OtherSections,
           EnrollLockSection
  <2>3. QED
    BY <2>1, <2>2 DEF EnrollInv
<1>2. CASE EnrollLockCourse(r)
  <2>1. LocksExclusive'
    <3>1. CASE Goto(r, "readOwn")
      BY <1>2, <3>1 DEF EnrollInv, LocksExclusive, EnrollLockCourse, CourseFree, HoldsCourse, Goto
    <3>2. CASE Finish(r)
      BY <1>2, <3>2 DEF EnrollInv, LocksExclusive, EnrollLockCourse, Finish
    <3>3. QED
      BY <1>2, <3>1, <3>2 DEF EnrollLockCourse
  <2>2. SeatStillFree' /\ NoRivalPending' /\ OnePendingPerOffering'
    BY <1>2 DEF EnrollInv, SeatStillFree, NoRivalPending, OnePendingPerOffering, OtherSections,
           EnrollLockCourse, Goto, Finish
  <2>3. QED
    BY <2>1, <2>2 DEF EnrollInv
<1>3. CASE EnrollReadOwn(r)
  <2>1. LocksExclusive' /\ SeatStillFree' /\ OnePendingPerOffering'
    BY <1>3 DEF EnrollInv, LocksExclusive, SeatStillFree, OnePendingPerOffering, OtherSections,
           EnrollReadOwn, Goto, Finish
  <2>2. NoRivalPending'
    BY <1>3 DEF EnrollInv, NoRivalPending, OtherSections, EnrollReadOwn, Goto, Finish, Active
  <2>3. QED
    BY <2>1, <2>2 DEF EnrollInv
<1>4. CASE EnrollCheckOutside(r) \/ Abort(r)
  BY <1>4 DEF EnrollInv, LocksExclusive, SeatStillFree, NoRivalPending, OnePendingPerOffering,
         OtherSections, EnrollCheckOutside, Abort, Goto, Finish
<1>5. CASE EnrollInsert(r)
  BY <1>5, InsertKeeps
<1>6. QED
  BY <1>1, <1>2, <1>3, <1>4, <1>5 DEF EnrollStep

(* It holds at the start, and every step keeps it. *)
LEMMA EnrollInvInit == Init => EnrollInv
BY DEF Init, EnrollInv, LocksExclusive, SeatStillFree, NoRivalPending, OnePendingPerOffering,
       HoldsSection, HoldsCourseRow, OtherSections, Request

(* No step breaks what the locks protect. *)
LEMMA EnrollInvStep == TypeOK /\ TypeOK' /\ EnrollInv /\ [Next]_vars => EnrollInv'
<1> SUFFICES ASSUME TypeOK, TypeOK', EnrollInv, [Next]_vars
             PROVE  EnrollInv'
  OBVIOUS
<1>1. ASSUME NEW r \in Enroller,
             EnrollStep(r) \/ Abort(r) \/ \E e \in Row : EnrollLockSection(r, e)
      PROVE  EnrollInv'
  BY <1>1, EnrollStepKeeps
<1>2. ASSUME NEW r \in Decider \cup Grader,
             \/ DecisionStep(r) \/ GradeSave(r) \/ Abort(r)
             \/ \E e \in Row : ApproveRead(r, e) \/ RejectRead(r, e) \/ DropRead(r, e)
             \/ \E e \in Row, outcome \in {"completed", "failed"} : GradeRead(r, e, outcome)
      PROVE  EnrollInv'
  BY <1>2, OthersElsewhere, ElsewhereKeeps
<1>3. CASE UNCHANGED vars
  BY <1>3 DEF vars, EnrollInv, LocksExclusive, SeatStillFree, NoRivalPending,
              OnePendingPerOffering, HoldsSection, HoldsCourseRow, OtherSections
<1>4. QED
  BY <1>1, <1>2, <1>3 DEF Next, Request

(* So it holds in every reachable state. *)
LEMMA EnrollInvAlways == Spec => []EnrollInv
  BY EnrollInvInit, EnrollInvStep, TypeCorrect, PTL DEF Spec

(* No student ever has two pending requests for one course in one term. *)
THEOREM PendingIsUnique == Spec => []OnePendingPerOffering
  BY EnrollInvAlways, PTL DEF EnrollInv

(* A decision or a grade entry in progress is about a row that exists. *)
RowsExist == \A r \in Decider \cup Grader : ~Idle(r) => status[row[r]] # "none"

(* Decisions and grade entries only ever work on rows that exist. *)
LEMMA RowsExistInit == Init => RowsExist
BY DEF Init, RowsExist, Idle, Request

(* No step takes away the row a decision or a grade entry is about. *)
LEMMA RowsExistStep == TypeOK /\ RowsExist /\ [Next]_vars => RowsExist'
<1> SUFFICES ASSUME TypeOK, RowsExist, [Next]_vars
             PROVE  RowsExist'
  OBVIOUS
<1> USE EnrollmentAssumption DEF TypeOK, RowsExist, Request, Idle
<1>1. ASSUME NEW r \in Enroller,
             EnrollStep(r) \/ Abort(r) \/ \E e \in Row : EnrollLockSection(r, e)
      PROVE  RowsExist'
  BY <1>1 DEF EnrollStep, EnrollLockSection, EnrollLockCourse, EnrollReadOwn,
              EnrollCheckOutside, EnrollInsert, Abort, Goto, Finish
<1>2. ASSUME NEW r \in Decider \cup Grader, Abort(r)
      PROVE  RowsExist'
  BY <1>2 DEF Abort, Finish
<1>3. ASSUME NEW r \in Decider, DecisionStep(r)
      PROVE  RowsExist'
  <2>1. CASE ApproveSave(r) \/ DropSave(r)
    BY <2>1 DEF ApproveSave, DropSave, SaveRow, Goto
  <2>2. CASE ApproveCommit(r) \/ DropCommit(r) \/ RejectCommit(r)
    BY <2>2 DEF ApproveCommit, DropCommit, RejectCommit, CountAndCommit, Finish
  <2>3. QED
    BY <1>3, <2>1, <2>2 DEF DecisionStep, ApproveStep, RejectStep, DropStep
<1>4. ASSUME NEW r \in Decider, NEW e \in Row,
             ApproveRead(r, e) \/ RejectRead(r, e) \/ DropRead(r, e)
      PROVE  RowsExist'
  BY <1>4 DEF ApproveRead, RejectRead, DropRead, ReadRow
<1>5. ASSUME NEW r \in Grader,
             GradeSave(r) \/ \E e \in Row, outcome \in {"completed", "failed"} :
                                 GradeRead(r, e, outcome)
      PROVE  RowsExist'
  BY <1>5 DEF GradeSave, GradeRead, ReadRow, Finish
<1>6. CASE UNCHANGED vars
  BY <1>6 DEF vars
<1>7. QED
  BY <1>1, <1>2, <1>3, <1>4, <1>5, <1>6 DEF Next

(* So they do in every reachable state. *)
LEMMA RowsExistAlways == Spec => []RowsExist
  BY RowsExistInit, RowsExistStep, TypeCorrect, PTL DEF Spec

(* A row appears only by the insertion of enrollStudent, in a section that is     *)
(* active and has a free seat at that moment.                                       *)
LEMMA AdmissionStep ==
  ASSUME TypeOK, EnrollInv, RowsExist, [Next]_vars, NEW e \in Row,
         status[e] = "none", status'[e] # "none"
  PROVE  is_active[e[2]] /\ enrolled_count[e[2]] < capacity[e[2]]
<1> USE DEF TypeOK, Request, RowsExist, Idle
<1>1. ASSUME NEW r \in Enroller, EnrollInsert(r)
      PROVE  is_active[e[2]] /\ enrolled_count[e[2]] < capacity[e[2]]
  BY <1>1 DEF EnrollInsert, EnrollInv, SeatStillFree, HoldsCourseRow
<1>2. ASSUME NEW r \in Decider, ApproveCommit(r) \/ DropCommit(r) \/ RejectCommit(r)
      PROVE  FALSE
  BY <1>2 DEF ApproveCommit, DropCommit, RejectCommit, CountAndCommit
<1>3. ASSUME NEW r \in Grader, GradeSave(r)
      PROVE  FALSE
  BY <1>3 DEF GradeSave
<1>4. CASE status' = status
  BY <1>4
<1>5. QED
  BY <1>1, <1>2, <1>3, <1>4
     DEF Next, EnrollStep, DecisionStep, ApproveStep, RejectStep, DropStep,
         EnrollLockSection, EnrollLockCourse, EnrollReadOwn, EnrollCheckOutside,
         ApproveSave, DropSave, SaveRow, ApproveRead, RejectRead, DropRead,
         GradeRead, ReadRow, Abort, vars

(* A request is recorded only where, at that moment, the section is active and has *)
(* a free seat.                                                                     *)
THEOREM AdmissionIsCurrent == Spec => AdmissionHolds
<1> DEFINE Admitted == \A e \in Row : status[e] = "none" /\ status'[e] # "none" =>
                          is_active[e[2]] /\ enrolled_count[e[2]] < capacity[e[2]]
<1>1. TypeOK /\ EnrollInv /\ RowsExist /\ [Next]_vars => [Admitted]_vars
  BY AdmissionStep
<1>2. QED
  BY <1>1, EnrollInvAlways, RowsExistAlways, TypeCorrect, PTL DEF Spec, AdmissionHolds

-----------------------------------------------------------------------------
(* One decision at a time *)

(* Approvals, rejections and drops are served one at a time and nobody is graded. *)
DecisionsSerial == (\E d : Decider = {d}) /\ Grader = {}

Heads(s) == {st \in Student : status[<<st, s>>] = "enrolled"}

CountInv ==
    \A s \in Section : IsFiniteSet(Heads(s)) /\ enrolled_count[s] = Cardinality(Heads(s))

(* What the decision in progress has read is still so. *)
DecisionCurrent ==
    \A d \in Decider :
        /\ pc[d] \in {"approve", "countUp", "reject"} => status[row[d]] = "pending"
        /\ pc[d] \in {"drop", "countDown"} => status[row[d]] = "enrolled"
        /\ pc[d] \in {"approve", "countUp"} =>
              enrolled_count[row[d][2]] < capacity[row[d][2]]

(* Behind the course lock no other section of the offering is taken or asked for. *)
NoRivalActive ==
    \A r \in Enroller : pc[r] \in {"checkOutside", "insert"} =>
        \A f \in OtherSections(row[r]) : status[f] \notin Active

SerialInv == CountInv /\ DecisionCurrent /\ NoRivalActive /\ OneActivePerOffering

(* One row changes its status and its section's counter moves with it. *)
LEMMA HeadsFollow ==
  ASSUME TypeOK, CountInv, NEW e \in Row, NEW new, NEW delta \in Int,
         status' = [status EXCEPT ![e] = new],
         enrolled_count' = [enrolled_count EXCEPT ![e[2]] = @ + delta],
         \/ status[e] # "enrolled" /\ new = "enrolled" /\ delta = 1
         \/ status[e] = "enrolled" /\ new # "enrolled" /\ delta = -1
         \/ status[e] # "enrolled" /\ new # "enrolled" /\ delta = 0
  PROVE  CountInv'
<1> SUFFICES ASSUME NEW s \in Section
             PROVE  IsFiniteSet(Heads(s)') /\ enrolled_count'[s] = Cardinality(Heads(s)')
  BY DEF CountInv
<1> USE DEF TypeOK
<1>1. IsFiniteSet(Heads(s)) /\ enrolled_count[s] = Cardinality(Heads(s))
  BY DEF CountInv
<1>2. PICK st \in Student, t \in Section : e = <<st, t>>
  BY DEF Row
<1>3. \A x \in Student : <<x, s>> \in Row
  BY DEF Row
<1>4. CASE s # t
  <2>1. Heads(s)' = Heads(s) /\ enrolled_count'[s] = enrolled_count[s]
    BY <1>2, <1>3, <1>4 DEF Heads
  <2>2. QED
    BY <2>1, <1>1
<1>5. CASE s = t /\ status[e] # "enrolled" /\ new = "enrolled" /\ delta = 1
  <2>1. Heads(s)' = Heads(s) \cup {st} /\ st \notin Heads(s)
    BY <1>2, <1>3, <1>5 DEF Heads
  <2>2. enrolled_count'[s] = enrolled_count[s] + 1
    BY <1>2, <1>5
  <2>3. QED
    BY <2>1, <2>2, <1>1, FS_AddElement
<1>6. CASE s = t /\ status[e] = "enrolled" /\ new # "enrolled" /\ delta = -1
  <2>1. Heads(s)' = Heads(s) \ {st} /\ st \in Heads(s)
    BY <1>2, <1>3, <1>6 DEF Heads
  <2>2. enrolled_count'[s] = enrolled_count[s] - 1
    BY <1>2, <1>6
  <2>3. QED
    BY <2>1, <2>2, <1>1, FS_RemoveElement
<1>7. CASE s = t /\ status[e] # "enrolled" /\ new # "enrolled" /\ delta = 0
  <2>1. Heads(s)' = Heads(s)
    BY <1>2, <1>3, <1>7 DEF Heads
  <2>2. enrolled_count'[s] = enrolled_count[s]
    BY <1>2, <1>7
  <2>3. QED
    BY <2>1, <2>2, <1>1
<1>8. QED
  BY <1>4, <1>5, <1>6, <1>7

(* The tables do not change, and what a slot relies on it has relied on before. *)
LEMMA QuietKeeps ==
  ASSUME SerialInv, UNCHANGED <<status, enrolled_count, capacity>>,
         \A r \in Enroller : pc'[r] \in {"checkOutside", "insert"} =>
             pc[r] \in {"checkOutside", "insert"} /\ row'[r] = row[r],
         \A d \in Decider : \/ pc'[d] = "idle"
                            \/ /\ row'[d] = row[d]
                               /\ \/ pc'[d] = pc[d]
                                  \/ pc[d] = "approve" /\ pc'[d] = "countUp"
                                  \/ pc[d] = "drop" /\ pc'[d] = "countDown"
  PROVE  SerialInv'
<1>1. CountInv'
  BY DEF SerialInv, CountInv, Heads
<1>2. DecisionCurrent'
  BY DEF SerialInv, DecisionCurrent
<1>3. NoRivalActive'
  BY DEF SerialInv, NoRivalActive, OtherSections
<1>4. OneActivePerOffering'
  BY DEF SerialInv, OneActivePerOffering, OtherSections
<1>5. QED
  BY <1>1, <1>2, <1>3, <1>4 DEF SerialInv

(* A step of enrollStudent that records nothing. *)
LEMMA EnrollQuiet ==
  ASSUME TypeOK, SerialInv, NEW r \in Enroller,
         \/ EnrollLockCourse(r) \/ EnrollReadOwn(r) \/ EnrollCheckOutside(r)
         \/ \E e \in Row : EnrollLockSection(r, e)
  PROVE  SerialInv'
<1> USE EnrollmentAssumption DEF TypeOK, Request
<1>1. CASE EnrollReadOwn(r) /\ pc'[r] # "idle"
  <2>1. /\ pc' = [pc EXCEPT ![r] = "checkOutside"] /\ row' = row
        /\ \A f \in OtherSections(row[r]) : status[f] \notin Active
        /\ UNCHANGED <<status, enrolled_count, capacity, is_active>>
    BY <1>1 DEF EnrollReadOwn, Goto, Finish
  <2>2. CountInv'
    BY <2>1 DEF SerialInv, CountInv, Heads
  <2>3. DecisionCurrent'
    BY <2>1 DEF SerialInv, DecisionCurrent
  <2>4. NoRivalActive'
    BY <2>1 DEF SerialInv, NoRivalActive, OtherSections
  <2>5. OneActivePerOffering'
    BY <2>1 DEF SerialInv, OneActivePerOffering, OtherSections
  <2>6. QED
    BY <2>2, <2>3, <2>4, <2>5 DEF SerialInv
<1>2. CASE EnrollReadOwn(r) /\ pc'[r] = "idle"
  BY <1>2, QuietKeeps DEF EnrollReadOwn, Goto, Finish
<1>3. CASE EnrollLockCourse(r)
  BY <1>3, QuietKeeps DEF EnrollLockCourse, Goto, Finish
<1>4. CASE EnrollCheckOutside(r)
  BY <1>4, QuietKeeps DEF EnrollCheckOutside, Goto, Finish
<1>5. CASE \E e \in Row : EnrollLockSection(r, e)
  BY <1>5, QuietKeeps DEF EnrollLockSection
<1>6. QED
  BY <1>1, <1>2, <1>3, <1>4, <1>5

(* The insertion: the course lock keeps the rivals out, and the row is nobody's decision. *)
LEMMA InsertSerial ==
  ASSUME TypeOK, EnrollInv, SerialInv, NEW r \in Enroller, EnrollInsert(r)
  PROVE  SerialInv'
<1> USE EnrollmentAssumption DEF TypeOK, Request
<1>0. /\ pc' = [pc EXCEPT ![r] = "idle"] /\ row' = [row EXCEPT ![r] = AnyRow]
      /\ pc[r] = "insert" /\ row[r] \in Row
      /\ UNCHANGED <<enrolled_count, capacity, is_active>>
  BY DEF EnrollInsert, Finish
<1>1. CASE status[row[r]] # "none"
  <2>1. status' = status
    BY <1>1 DEF EnrollInsert
  <2>2. QED
    BY <1>0, <2>1, QuietKeeps
<1>2. CASE status[row[r]] = "none"
  <2>1. status' = [status EXCEPT ![row[r]] = "pending"]
    BY <1>2 DEF EnrollInsert
  <2>2. CountInv'
    <3>1. \A e \in Row : status'[e] = "enrolled" <=> status[e] = "enrolled"
      BY <1>0, <1>2, <2>1
    <3>2. ASSUME NEW s \in Section PROVE Heads(s)' = Heads(s)
      BY <3>1 DEF Heads, Row
    <3>3. QED
      BY <1>0, <3>2 DEF SerialInv, CountInv
  <2>3. DecisionCurrent'
    BY <1>0, <1>2, <2>1 DEF SerialInv, DecisionCurrent
  <2>4. NoRivalActive'
    <3> SUFFICES ASSUME NEW q \in Enroller, q # r, pc[q] \in {"checkOutside", "insert"},
                        NEW f \in OtherSections(row[q])
                 PROVE  status'[f] \notin Active
      BY <1>0 DEF NoRivalActive, OtherSections
    <3>1. f \in Row /\ status[f] \notin Active /\ CourseOf[row[q][2]] = CourseOf[f[2]]
      BY DEF SerialInv, NoRivalActive, OtherSections, SameOffering
    <3>2. f # row[r]
      BY <1>0, <3>1 DEF EnrollInv, LocksExclusive, HoldsCourseRow
    <3>3. QED
      BY <2>1, <3>1, <3>2
  <2>5. OneActivePerOffering'
    <3> SUFFICES ASSUME NEW e \in Row, NEW f \in OtherSections(e)
                 PROVE  ~(status'[e] \in Active /\ status'[f] \in Active)
      BY DEF OneActivePerOffering, OtherSections
    <3>1. f \in Row /\ e \in OtherSections(f)
      BY DEF OtherSections, SameOffering
    <3>2. ~(status[e] \in Active /\ status[f] \in Active)
      BY DEF SerialInv, OneActivePerOffering
    <3>3. \A g \in OtherSections(row[r]) : status[g] \notin Active /\ status'[g] \notin Active
      BY <1>0, <2>1 DEF SerialInv, NoRivalActive, OtherSections
    <3>4. QED
      BY <2>1, <3>1, <3>2, <3>3
  <2>6. QED
    BY <2>2, <2>3, <2>4, <2>5 DEF SerialInv
<1>3. QED
  BY <1>1, <1>2

(* The single decision in progress, and nobody else, changes a row that exists. *)
LEMMA DecisionSerial ==
  ASSUME TypeOK, EnrollInv, SerialInv, DecisionsSerial, NEW d \in Decider,
         NEW new, NEW delta \in Int,
         status' = [status EXCEPT ![row[d]] = new],
         enrolled_count' = [enrolled_count EXCEPT ![row[d][2]] = @ + delta],
         \/ status[row[d]] # "enrolled" /\ new = "enrolled" /\ delta = 1
         \/ status[row[d]] = "enrolled" /\ new # "enrolled" /\ delta = -1
         \/ status[row[d]] # "enrolled" /\ new # "enrolled" /\ delta = 0,
         new \in Active => status[row[d]] \in Active,
         UNCHANGED capacity, Finish(d)
  PROVE  SerialInv'
<1>0. row[d] \in Row /\ Decider = {d} /\ d \notin Enroller
  BY EnrollmentAssumption DEF TypeOK, Request, DecisionsSerial
<1>1. CountInv'
  <2> PICK e \in Row : e = row[d]
    BY <1>0
  <2>1. QED
    BY HeadsFollow DEF SerialInv
<1>2. DecisionCurrent'
  BY <1>0 DEF DecisionCurrent, Finish, TypeOK, Request
<1>3. \A e \in Row : status'[e] \in Active => status[e] \in Active
  BY DEF TypeOK
<1>4. \A r \in Enroller : pc'[r] = pc[r] /\ row'[r] = row[r]
  BY <1>0 DEF Finish, TypeOK, Request
<1>5. NoRivalActive'
  BY <1>3, <1>4 DEF SerialInv, NoRivalActive, OtherSections
<1>6. OneActivePerOffering'
  BY <1>3 DEF SerialInv, OneActivePerOffering, OtherSections
<1>7. QED
  BY <1>1, <1>2, <1>5, <1>6 DEF SerialInv

(* Each step of a decision, its first read included. *)
LEMMA DecisionKeeps ==
  ASSUME TypeOK, EnrollInv, SerialInv, DecisionsSerial, NEW d \in Decider,
         DecisionStep(d) \/ ReadActions(d)
  PROVE  SerialInv'
<1>0. d \notin Enroller /\ row[d] \in Row /\ Decider = {d}
  BY EnrollmentAssumption DEF TypeOK, Request, DecisionsSerial
<1>a. \A s \in Section : enrolled_count[s] \in Int
  BY DEF TypeOK
<1>1. CASE ReadActions(d)
  <2> PICK e \in Row : ApproveRead(d, e) \/ RejectRead(d, e) \/ DropRead(d, e)
    BY <1>1 DEF ReadActions
  <2>1. /\ UNCHANGED <<status, enrolled_count, capacity>>
        /\ \A r \in Enroller : pc'[r] = pc[r] /\ row'[r] = row[r]
    BY <1>0 DEF ApproveRead, RejectRead, DropRead, ReadRow, TypeOK, Request
  <2>2. DecisionCurrent'
    BY <1>0 DEF DecisionCurrent, ApproveRead, RejectRead, DropRead, ReadRow, TypeOK, Request
  <2>3. CountInv'
    BY <2>1 DEF SerialInv, CountInv, Heads
  <2>4. NoRivalActive' /\ OneActivePerOffering'
    BY <2>1 DEF SerialInv, NoRivalActive, OneActivePerOffering, OtherSections
  <2>5. QED
    BY <2>2, <2>3, <2>4 DEF SerialInv
<1>2. CASE ApproveSave(d) \/ DropSave(d)
  <2>1. /\ UNCHANGED <<status, enrolled_count, capacity>>
        /\ \A r \in Enroller : pc'[r] = pc[r] /\ row'[r] = row[r]
        /\ row' = row
        /\ \/ pc[d] = "approve" /\ pc'[d] = "countUp"
           \/ pc[d] = "drop" /\ pc'[d] = "countDown"
    BY <1>0, <1>2 DEF ApproveSave, DropSave, SaveRow, Goto, TypeOK, Request
  <2>2. QED
    BY <1>0, <2>1, QuietKeeps
<1>3. CASE ApproveCommit(d)
  <2>1. status[row[d]] = "pending"
    BY <1>3 DEF SerialInv, DecisionCurrent, ApproveCommit, CountAndCommit
  <2>2. /\ status' = [status EXCEPT ![row[d]] = "enrolled"]
        /\ enrolled_count' = [enrolled_count EXCEPT ![row[d][2]] = @ + 1]
        /\ UNCHANGED capacity /\ Finish(d)
    BY <1>3 DEF ApproveCommit, CountAndCommit
  <2>3. status[row[d]] \in Active /\ status[row[d]] # "enrolled" /\ 1 \in Int
    BY <2>1 DEF Active
  <2>4. QED
    BY <2>2, <2>3, DecisionSerial
<1>4. CASE DropCommit(d)
  <2>1. status[row[d]] = "enrolled"
    BY <1>4 DEF SerialInv, DecisionCurrent, DropCommit, CountAndCommit
  <2>2. /\ status' = [status EXCEPT ![row[d]] = "dropped"]
        /\ enrolled_count' = [enrolled_count EXCEPT ![row[d][2]] = @ + -1]
        /\ UNCHANGED capacity /\ Finish(d)
    BY <1>4 DEF DropCommit, CountAndCommit
  <2>3. "dropped" \notin Active /\ "dropped" # "enrolled" /\ -1 \in Int
    BY DEF Active
  <2>4. QED
    BY <2>1, <2>2, <2>3, DecisionSerial
<1>5. CASE RejectCommit(d)
  <2>1. status[row[d]] = "pending"
    BY <1>5 DEF SerialInv, DecisionCurrent, RejectCommit
  <2>2. /\ status' = [status EXCEPT ![row[d]] = "rejected"]
        /\ enrolled_count' = enrolled_count
        /\ UNCHANGED capacity /\ Finish(d)
    BY <1>5 DEF RejectCommit
  <2>3. enrolled_count' = [enrolled_count EXCEPT ![row[d][2]] = @ + 0]
    BY <1>0, <1>a, <2>2 DEF TypeOK, Row
  <2>4. "rejected" \notin Active /\ status[row[d]] # "enrolled" /\ "rejected" # "enrolled" /\ 0 \in Int
    BY <2>1 DEF Active
  <2>5. QED
    BY <2>2, <2>3, <2>4, DecisionSerial
<1>6. QED
  BY <1>1, <1>2, <1>3, <1>4, <1>5 DEF DecisionStep, ApproveStep, RejectStep, DropStep

(* An abandoned request takes nothing with it. *)
LEMMA AbortSerial ==
  ASSUME TypeOK, SerialInv, NEW r \in Request, Abort(r)
  PROVE  SerialInv'
<1>1. /\ UNCHANGED <<status, enrolled_count, capacity>>
      /\ \A q \in Request : \/ pc'[q] = "idle"
                            \/ pc'[q] = pc[q] /\ row'[q] = row[q]
  BY DEF Abort, Finish, TypeOK
<1>2. QED
  BY <1>1, QuietKeeps DEF Request

(* The invariant of serial decisions holds at the start ... *)
LEMMA SerialInit == Init => SerialInv
<1> SUFFICES ASSUME Init PROVE SerialInv
  OBVIOUS
<1>1. CountInv
  <2> SUFFICES ASSUME NEW s \in Section
               PROVE  IsFiniteSet(Heads(s)) /\ enrolled_count[s] = Cardinality(Heads(s))
    BY DEF CountInv
  <2>1. Heads(s) = {} /\ enrolled_count[s] = 0
    BY DEF Heads, Init, Row
  <2>2. QED
    BY <2>1, FS_EmptySet
<1>2. DecisionCurrent /\ NoRivalActive
  BY DEF Init, DecisionCurrent, NoRivalActive, Request
<1>3. OneActivePerOffering
  BY DEF Init, OneActivePerOffering, OtherSections, Active
<1>4. QED
  BY <1>1, <1>2, <1>3 DEF SerialInv

(* ... and every step keeps it. *)
LEMMA SerialStep ==
  ASSUME TypeOK, EnrollInv, SerialInv, DecisionsSerial, [Next]_vars
  PROVE  SerialInv'
<1>1. ASSUME NEW r \in Enroller, EnrollStep(r) \/ \E e \in Row : EnrollLockSection(r, e)
      PROVE  SerialInv'
  BY <1>1, EnrollQuiet, InsertSerial DEF EnrollStep
<1>2. ASSUME NEW d \in Decider,
             \/ DecisionStep(d)
             \/ \E e \in Row : ApproveRead(d, e) \/ RejectRead(d, e) \/ DropRead(d, e)
      PROVE  SerialInv'
  BY <1>2, DecisionKeeps DEF ReadActions
<1>3. ASSUME NEW r \in Request, Abort(r)
      PROVE  SerialInv'
  BY <1>3, AbortSerial
<1>4. CASE UNCHANGED vars
  BY <1>4, QuietKeeps DEF vars
<1>5. QED
  BY <1>1, <1>2, <1>3, <1>4 DEF Next, DecisionsSerial

(* So with serial decisions it is always true. *)
LEMMA SerialAlways == DecisionsSerial => (Spec => []SerialInv)
<1> SUFFICES ASSUME DecisionsSerial PROVE Spec => []SerialInv
  OBVIOUS
<1>1. TypeOK /\ EnrollInv /\ SerialInv /\ [Next]_vars => SerialInv'
  BY SerialStep
<1>2. QED
  BY <1>1, SerialInit, TypeCorrect, EnrollInvAlways, PTL DEF Spec

(* With decisions served one at a time enrolled_count is the number of students *)
(* enrolled in the section, however many enrolment requests race.               *)
THEOREM CountIsExact == DecisionsSerial => (Spec => []CountIsHeads)
<1> SUFFICES ASSUME DecisionsSerial PROVE Spec => []CountIsHeads
  OBVIOUS
<1>1. SerialInv => CountIsHeads
  BY DEF SerialInv, CountInv, Heads, CountIsHeads
<1>2. QED
  BY <1>1, SerialAlways, PTL

(* With decisions served one at a time a student never holds or waits for two *)
(* sections of one course in one term.                                        *)
THEOREM OneSectionPerCourse == DecisionsSerial => (Spec => []OneActivePerOffering)
<1> SUFFICES ASSUME DecisionsSerial PROVE Spec => []OneActivePerOffering
  OBVIOUS
<1>1. SerialInv => OneActivePerOffering
  BY DEF SerialInv
<1>2. QED
  BY <1>1, SerialAlways, PTL

-----------------------------------------------------------------------------
(* The life cycle *)

(* A decision that commits grants, refuses or gives up what it has read. *)
LEMMA DecisionImplements ==
  ASSUME TypeOK, SerialInv, NEW d \in Decider, ApproveCommit(d) \/ DropCommit(d) \/ RejectCommit(d)
  PROVE  Lifecycle!Next
<1>0. row[d] \in Row /\ row[d][2] \in Section /\ enrolled_count \in [Section -> Int]
  BY DEF TypeOK, Request, Row
<1>1. CASE ApproveCommit(d)
  <2>1. status[row[d]] = "pending" /\ enrolled_count[row[d][2]] < capacity[row[d][2]]
    BY <1>1 DEF SerialInv, DecisionCurrent, ApproveCommit, CountAndCommit
  <2>2. Lifecycle!Grant(row[d])
    BY <1>1, <2>1 DEF Lifecycle!Grant, Lifecycle!HasSeat, Lifecycle!Become, SectionOfRow,
                      ApproveCommit, CountAndCommit
  <2>3. QED
    BY <1>0, <2>2 DEF Lifecycle!Next
<1>2. CASE DropCommit(d)
  <2>1. status[row[d]] = "enrolled"
    BY <1>2 DEF SerialInv, DecisionCurrent, DropCommit, CountAndCommit
  <2>2. Lifecycle!Leave(row[d])
    BY <1>2, <2>1 DEF Lifecycle!Leave, Lifecycle!Become, SectionOfRow, DropCommit, CountAndCommit
  <2>3. QED
    BY <1>0, <2>2 DEF Lifecycle!Next
<1>3. CASE RejectCommit(d)
  <2>1. status[row[d]] = "pending"
    BY <1>3 DEF SerialInv, DecisionCurrent, RejectCommit
  <2>2. enrolled_count' = [enrolled_count EXCEPT ![row[d][2]] = @ + 0]
    BY <1>0, <1>3 DEF RejectCommit
  <2>3. Lifecycle!Refuse(row[d])
    BY <1>3, <2>1, <2>2 DEF Lifecycle!Refuse, Lifecycle!Become, SectionOfRow, RejectCommit
  <2>4. QED
    BY <1>0, <2>3 DEF Lifecycle!Next
<1>4. QED
  BY <1>1, <1>2, <1>3

(* An insertion that finds no row asks for a free seat of an open section. *)
LEMMA InsertImplements ==
  ASSUME TypeOK, EnrollInv, SerialInv, NEW r \in Enroller, EnrollInsert(r)
  PROVE  Lifecycle!Next \/ UNCHANGED Lifecycle!vars
<1>0. row[r] \in Row /\ row[r][2] \in Section /\ enrolled_count \in [Section -> Int]
  BY DEF TypeOK, Request, Row
<1>1. CASE status[row[r]] # "none"
  BY <1>1 DEF EnrollInsert, Lifecycle!vars
<1>2. CASE status[row[r]] = "none"
  <2>1. is_active[row[r][2]] /\ enrolled_count[row[r][2]] < capacity[row[r][2]]
    BY DEF EnrollInv, SeatStillFree, HoldsCourseRow, EnrollInsert
  <2>2. \A f \in OtherSections(row[r]) : status[f] \notin {"pending", "enrolled"}
    BY DEF SerialInv, NoRivalActive, EnrollInsert, Active
  <2>3. enrolled_count' = [enrolled_count EXCEPT ![row[r][2]] = @ + 0]
    BY <1>0 DEF EnrollInsert
  <2>4. Lifecycle!Ask(row[r])
    BY <1>2, <2>1, <2>2, <2>3 DEF Lifecycle!Ask, Lifecycle!HasSeat, Lifecycle!Become,
                                  SectionOfRow, EnrollInsert
  <2>5. QED
    BY <1>0, <2>4 DEF Lifecycle!Next
<1>3. QED
  BY <1>1, <1>2

(* Every other statement is invisible to the registrar. *)
LEMMA StepImplements ==
  ASSUME TypeOK, EnrollInv, SerialInv, DecisionsSerial, [Next]_vars
  PROVE  Lifecycle!Next \/ UNCHANGED Lifecycle!vars
<1>1. ASSUME NEW r \in Enroller, EnrollInsert(r)
      PROVE  Lifecycle!Next \/ UNCHANGED Lifecycle!vars
  BY <1>1, InsertImplements
<1>2. ASSUME NEW d \in Decider, ApproveCommit(d) \/ DropCommit(d) \/ RejectCommit(d)
      PROVE  Lifecycle!Next
  BY <1>2, DecisionImplements
<1>3. CASE UNCHANGED <<status, enrolled_count, capacity, is_active>>
  BY <1>3 DEF Lifecycle!vars
<1>4. QED
  BY <1>1, <1>2, <1>3
     DEF Next, DecisionsSerial, EnrollStep, DecisionStep, ApproveStep, RejectStep, DropStep,
         EnrollLockSection, EnrollLockCourse, EnrollReadOwn, EnrollCheckOutside,
         ApproveSave, DropSave, SaveRow, ApproveRead, RejectRead, DropRead, ReadRow, Abort, vars

(* With decisions served one at a time, and however many enrolment requests race, *)
(* every request takes effect in one step at its commit: enrolment implements     *)
(* EnrollmentLifecycle.                                                           *)
THEOREM LifecycleIsImplemented == DecisionsSerial => (Spec => ImplementsLifecycle)
<1> SUFFICES ASSUME DecisionsSerial PROVE Spec => ImplementsLifecycle
  OBVIOUS
<1>1. Init => Lifecycle!Init
  BY EnrollmentAssumption DEF Init, Lifecycle!Init
<1>2. TypeOK /\ EnrollInv /\ SerialInv /\ [Next]_vars => [Lifecycle!Next]_(Lifecycle!vars)
  BY StepImplements
<1>3. QED
  BY <1>1, <1>2, SerialAlways, TypeCorrect, EnrollInvAlways, PTL
     DEF Spec, ImplementsLifecycle, Lifecycle!Spec

-----------------------------------------------------------------------------
(* Sections edited under enrolment *)

(* An edit notes the capacity it read, so that one must be a capacity too. *)
AdminInv == AdminTypeOK /\ capacity \in [Section -> Capacities]

(* An edit in progress is of a section, and to settings it may have. *)
LEMMA EditTyped ==
  ASSUME AdminTypeOK, NEW a \in Admin, edit[a] # NoEdit
  PROVE  /\ edit[a].section \in Section
         /\ edit[a].want.capacity \in Capacities
         /\ edit[a].want.is_active \in BOOLEAN
<1>1. edit[a] \in Edit
  BY DEF AdminTypeOK
<1>2. edit[a].section \in Section /\ edit[a].want \in Setting
  BY <1>1 DEF Edit
<1>3. QED
  BY <1>2, EnrollmentAssumption DEF Setting

(* The write of updateSection touches one section, which no enrolment request has *)
(* locked, and neither the rows nor the counters.                                 *)
LEMMA EditElsewhere ==
  ASSUME AdminInv, NEW a \in Admin, UpdateSectionWrite(a)
  PROVE  /\ UNCHANGED <<status, enrolled_count, pc, row>>
         /\ capacity' \in [Section -> Capacities] /\ is_active' \in [Section -> BOOLEAN]
         /\ edit' \in [Admin -> Edit \cup {NoEdit}]
         /\ \A s \in Section : ~SectionFree(s) => capacity'[s] = capacity[s]
                                              /\ is_active'[s] = is_active[s]
<1>1. /\ edit[a].section \in Section
      /\ edit[a].want.capacity \in Capacities
      /\ edit[a].want.is_active \in BOOLEAN
  BY EditTyped DEF AdminInv, UpdateSectionWrite
<1>2. /\ capacity \in [Section -> Capacities] /\ is_active \in [Section -> BOOLEAN]
      /\ edit \in [Admin -> Edit \cup {NoEdit}]
  BY DEF AdminInv, AdminTypeOK, TypeOK
<1>3. /\ SectionFree(edit[a].section)
      /\ \/ capacity' = capacity
         \/ capacity' = [capacity EXCEPT ![edit[a].section] = edit[a].want.capacity]
      /\ \/ is_active' = is_active
         \/ is_active' = [is_active EXCEPT ![edit[a].section] = edit[a].want.is_active]
      /\ edit' = [edit EXCEPT ![a] = NoEdit]
      /\ UNCHANGED <<status, enrolled_count, pc, row>>
  BY DEF UpdateSectionWrite
<1> PICK s \in Section : s = edit[a].section
  BY <1>1
<1> PICK c \in Capacities, b \in BOOLEAN : c = edit[a].want.capacity /\ b = edit[a].want.is_active
  BY <1>1
<1>4. /\ SectionFree(s)
      /\ capacity' = capacity \/ capacity' = [capacity EXCEPT ![s] = c]
      /\ is_active' = is_active \/ is_active' = [is_active EXCEPT ![s] = b]
  BY <1>3
<1>5. capacity' \in [Section -> Capacities] /\ \A t \in Section : t # s => capacity'[t] = capacity[t]
  BY <1>2, <1>4
<1>6. is_active' \in [Section -> BOOLEAN] /\ \A t \in Section : t # s => is_active'[t] = is_active[t]
  BY <1>2, <1>4, Zenon
<1>7. edit' \in [Admin -> Edit \cup {NoEdit}]
  BY <1>2, <1>3
<1>8. QED
  BY <1>3, <1>4, <1>5, <1>6, <1>7

(* The first statement of updateSection only notes what was read and what is wanted. *)
LEMMA EditBegins ==
  ASSUME AdminInv, NEW a \in Admin, NEW s \in Section, NEW want \in Setting,
         UpdateSectionRead(a, s, want)
  PROVE  UNCHANGED vars /\ edit' \in [Admin -> Edit \cup {NoEdit}]
<1> PICK noted : noted = [section |-> s, want |-> want,
                            read |-> [capacity |-> capacity[s], is_active |-> is_active[s]]]
  OBVIOUS
<1>1. capacity[s] \in Capacities /\ is_active[s] \in BOOLEAN
  BY DEF AdminInv, AdminTypeOK, TypeOK
<1>2. [capacity |-> capacity[s], is_active |-> is_active[s]] \in Setting
  BY <1>1 DEF Setting
<1>3. noted \in Edit
  BY <1>2 DEF Edit
<1>4. edit' = [edit EXCEPT ![a] = noted] /\ UNCHANGED vars
  BY DEF UpdateSectionRead
<1>5. edit \in [Admin -> Edit \cup {NoEdit}]
  BY DEF AdminInv, AdminTypeOK
<1>6. QED
  BY <1>3, <1>4, <1>5

(* Types are kept by every step, of an edit or of a request. *)
LEMMA AdminInvStep ==
  ASSUME AdminInv, SlotInv, [AdminNext]_adminVars
  PROVE  AdminInv' /\ SlotInv'
<1>1. CASE [Next]_vars /\ UNCHANGED edit
  <2>1. TypeOK' /\ SlotInv'
    BY <1>1, TypeStep DEF AdminInv, AdminTypeOK
  <2>2. capacity' = capacity
    BY <1>1 DEF vars, Next, EnrollStep, DecisionStep, ApproveStep, RejectStep, DropStep,
                EnrollLockSection, EnrollLockCourse, EnrollReadOwn, EnrollCheckOutside,
                EnrollInsert, ApproveSave, DropSave, SaveRow, ApproveCommit, DropCommit,
                CountAndCommit, RejectCommit, ApproveRead, RejectRead, DropRead,
                GradeRead, GradeSave, ReadRow, Abort
  <2>3. QED
    BY <1>1, <2>1, <2>2 DEF AdminInv, AdminTypeOK
<1>2. ASSUME NEW a \in Admin, UpdateSectionWrite(a)
      PROVE  AdminInv' /\ SlotInv'
  <2>1. /\ UNCHANGED <<status, enrolled_count, pc, row>>
        /\ capacity' \in [Section -> Capacities] /\ is_active' \in [Section -> BOOLEAN]
        /\ edit' \in [Admin -> Edit \cup {NoEdit}]
    BY <1>2, EditElsewhere
  <2>2. capacity' \in [Section -> Nat]
    BY <2>1, EnrollmentAssumption
  <2>3. TypeOK'
    BY <2>1, <2>2 DEF AdminInv, AdminTypeOK, TypeOK
  <2>4. SlotInv'
    BY <2>1 DEF SlotInv
  <2>5. QED
    BY <2>1, <2>3, <2>4 DEF AdminInv, AdminTypeOK
<1>3. ASSUME NEW a \in Admin, NEW s \in Section, NEW want \in Setting,
             UpdateSectionRead(a, s, want)
      PROVE  AdminInv' /\ SlotInv'
  <2>1. UNCHANGED vars /\ edit' \in [Admin -> Edit \cup {NoEdit}]
    BY <1>3, EditBegins
  <2>2. QED
    BY <2>1 DEF vars, AdminInv, AdminTypeOK, TypeOK, SlotInv
<1>4. QED
  BY <1>1, <1>2, <1>3 DEF AdminNext, adminVars, vars

(* A request whose section is edited has not locked it: what its checks found still *)
(* holds when it commits.                                                            *)
LEMMA AdminEnrollStep ==
  ASSUME AdminInv, AdminInv', EnrollInv, RowsExist, [AdminNext]_adminVars
  PROVE  EnrollInv' /\ RowsExist'
<1> USE DEF AdminInv, AdminTypeOK
<1>1. CASE [Next]_vars
  BY <1>1, EnrollInvStep, RowsExistStep
<1>2. ASSUME NEW a \in Admin, UpdateSectionWrite(a)
      PROVE  EnrollInv' /\ RowsExist'
  <2>1. /\ UNCHANGED <<status, enrolled_count, pc, row>>
        /\ \A s \in Section : ~SectionFree(s) => capacity'[s] = capacity[s]
                                            /\ is_active'[s] = is_active[s]
    BY <1>2, EditElsewhere
  <2>2. LocksExclusive' /\ NoRivalPending' /\ OnePendingPerOffering' /\ RowsExist'
    BY <2>1 DEF EnrollInv, LocksExclusive, NoRivalPending, OnePendingPerOffering, RowsExist,
                HoldsSection, HoldsCourseRow, OtherSections, Idle
  <2>3. SeatStillFree'
    <3> SUFFICES ASSUME NEW r \in Enroller, HoldsCourseRow(r)
                 PROVE  /\ is_active'[row[r][2]]
                        /\ enrolled_count[row[r][2]] < capacity'[row[r][2]]
      BY <2>1 DEF SeatStillFree, HoldsCourseRow
    <3>1. row[r][2] \in Section /\ ~SectionFree(row[r][2])
      BY DEF SectionFree, HoldsSection, HoldsCourseRow, TypeOK, Request, Row
    <3>2. is_active[row[r][2]] /\ enrolled_count[row[r][2]] < capacity[row[r][2]]
      BY DEF EnrollInv, SeatStillFree
    <3>3. QED
      BY <2>1, <3>1, <3>2
  <2>4. QED
    BY <2>2, <2>3 DEF EnrollInv
<1>3. CASE UNCHANGED vars
  BY <1>3, EnrollInvStep, RowsExistStep
<1>4. QED
  BY <1>1, <1>2, <1>3 DEF AdminNext, adminVars, vars, UpdateSectionRead

(* The inductive invariant of enrolment holds while sections are edited. *)
LEMMA AdminAlways == AdminSpec => [](AdminInv /\ SlotInv /\ EnrollInv /\ RowsExist)
<1>1. AdminInit => AdminInv /\ SlotInv /\ EnrollInv /\ RowsExist
  BY TypeInit, EnrollInvInit, RowsExistInit DEF AdminInit, AdminInv, AdminTypeOK, Init
<1>2. AdminInv /\ SlotInv /\ EnrollInv /\ RowsExist /\ [AdminNext]_adminVars
        => AdminInv' /\ SlotInv' /\ EnrollInv' /\ RowsExist'
  BY AdminInvStep, AdminEnrollStep
<1>3. QED
  BY <1>1, <1>2, PTL DEF AdminSpec

(* Every edit in progress is well-typed, and so are the tables it is applied to. *)
THEOREM AdminTypeCorrect == AdminSpec => []AdminTypeOK
<1>1. AdminInv => AdminTypeOK
  BY DEF AdminInv
<1>2. QED
  BY <1>1, AdminAlways, PTL

(* However many administrators edit sections meanwhile, a request is recorded only *)
(* in a section that is active and has a free seat at that moment.                 *)
THEOREM AdmissionUnderEdits == AdminSpec => AdmissionHolds
<1> DEFINE Admitted == \A e \in Row : status[e] = "none" /\ status'[e] # "none" =>
                          is_active[e[2]] /\ enrolled_count[e[2]] < capacity[e[2]]
<1>1. AdminInv /\ EnrollInv /\ RowsExist /\ [AdminNext]_adminVars => [Admitted]_vars
  <2> SUFFICES ASSUME AdminInv, EnrollInv, RowsExist, [AdminNext]_adminVars,
                      NEW e \in Row, status[e] = "none", status'[e] # "none"
               PROVE  is_active[e[2]] /\ enrolled_count[e[2]] < capacity[e[2]]
    OBVIOUS
  <2>1. CASE [Next]_vars
    BY <2>1, AdmissionStep DEF AdminInv, AdminTypeOK
  <2>2. CASE status' = status
    BY <2>2
  <2>3. QED
    BY <2>1, <2>2 DEF AdminNext, adminVars, vars, UpdateSectionRead, UpdateSectionWrite
<1>2. QED
  BY <1>1, AdminAlways, PTL DEF AdminSpec, AdmissionHolds

(* Nor does an edit let a student have two pending requests for one course. *)
THEOREM PendingIsUniqueUnderEdits == AdminSpec => []OnePendingPerOffering
<1>1. EnrollInv => OnePendingPerOffering
  BY DEF EnrollInv
<1>2. QED
  BY <1>1, AdminAlways, PTL
=============================================================================
