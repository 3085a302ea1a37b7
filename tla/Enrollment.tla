----------------------------- MODULE Enrollment -----------------------------
(***************************************************************************)
(* Course enrolment: the life of the rows of the `enrollments` table and   *)
(* of the counter `course_sections.enrolled_count`, driven by the handlers *)
(* of services/enrollmentService.js (enrollStudent, approveEnrollment,     *)
(* rejectEnrollment, dropCourse) and by gradeCalculationService            *)
(* .updateGrades, which also moves the status of a row.                    *)
(*                                                                         *)
(* Every handler is an async function whose awaits are database            *)
(* statements, so a request is a process with one step per statement that  *)
(* another request can observe or be blocked by.  The tables hold          *)
(* COMMITTED data: what a transaction writes is applied when it commits,   *)
(* and from the write to the commit the row it wrote is locked.  A plain   *)
(* SELECT inside a transaction reads the snapshot taken by the first such  *)
(* SELECT (MySQL REPEATABLE READ), a SELECT ... FOR UPDATE and an UPDATE   *)
(* act on current rows and wait for their locks.                           *)
(*                                                                         *)
(* A refused request leaves no trace.  A refusal at the first statement of *)
(* a handler is not a step; a later one returns the slot to "idle".        *)
(***************************************************************************)
EXTENDS Integers, FiniteSets

CONSTANTS
    Student,          \* ids of students
    Section,          \* ids of course sections
    CourseOf,         \* [Section -> course]: course_id
    TermOf,           \* [Section -> term]: (semester, year)
    Overlap,          \* the pairs {s, t} of sections whose schedule_json overlap in one term
    AllowConflicts,   \* process.env.ALLOW_SCHEDULE_CONFLICTS === 'true'
    Capacities,       \* the capacities a section may have
    Enroller,         \* slots for POST /enrollments requests being served at once
    Decider,          \* slots for approve, reject and drop requests being served at once
    Grader            \* slots for grade entry requests being served at once

ASSUME EnrollmentAssumption ==
    /\ Student # {}
    /\ Section # {}
    /\ Overlap \subseteq SUBSET Section
    /\ AllowConflicts \in BOOLEAN
    /\ Capacities \subseteq Nat
    /\ IsFiniteSet(Decider)
    /\ Decider # {}
    /\ Enroller \cap Decider = {}
    /\ Enroller \cap Grader = {}
    /\ Decider \cap Grader = {}

VARIABLES
    status,           \* [Row -> Status]: the status column, "none" where there is no row
    enrolled_count,   \* [Section -> Int]
    capacity,         \* [Section -> Nat]
    is_active,        \* [Section -> BOOLEAN]
    pc,               \* [Request -> Step]: the statement a request executes next
    row               \* [Request -> Row]: the enrolment it is about

vars == <<status, enrolled_count, capacity, is_active, pc, row>>

Request == Enroller \cup Decider \cup Grader

(* The unique index on (student_id, section_id): at most one row per pair. *)
Row == Student \X Section

Status == {"none", "pending", "enrolled", "dropped", "rejected", "completed", "failed"}

Step == {"idle",
         "lockCourse", "readOwn", "checkOutside", "insert",   \* enrollStudent
         "approve", "reject", "drop",                         \* read; row still to be saved
         "countUp", "countDown",                              \* row saved; section still to be
         "completed", "failed"}                               \* updateGrades: outcome to save

AnyRow == CHOOSE e \in Row : TRUE

Idle(r) == pc[r] = "idle"

Goto(r, step) == pc' = [pc EXCEPT ![r] = step] /\ row' = row

(* The reply, the rollback of a refused request and the release of every lock. *)
Finish(r) ==
    /\ pc' = [pc EXCEPT ![r] = "idle"]
    /\ row' = [row EXCEPT ![r] = AnyRow]

-----------------------------------------------------------------------------
(* Row locks.  FOR UPDATE with `include: Course` locks both joined rows.   *)

(* Mutant: the section is read without FOR UPDATE. *)
HoldsNoSection(r, s) == FALSE

HoldsSection(r, s) == pc[r] \in {"lockCourse", "readOwn", "checkOutside", "insert"} /\ row[r][2] = s
(* Mutant: the FOR UPDATE names the section only, not the joined course. *)
HoldsNoCourse(r, c) == FALSE

HoldsCourse(r, c)  == pc[r] \in {"readOwn", "checkOutside", "insert"} /\ CourseOf[row[r][2]] = c
HoldsRow(r, e)     == pc[r] \in {"countUp", "countDown"} /\ row[r] = e

SectionFree(s) == \A r \in Request : ~HoldsSection(r, s)
CourseFree(c)  == \A r \in Request : ~HoldsCourse(r, c)
RowFree(e)     == \A r \in Request : ~HoldsRow(r, e)

(* Two sections are alternatives when they offer one course in one term. *)
SameOffering(s, t) == CourseOf[s] = CourseOf[t] /\ TermOf[s] = TermOf[t]

Active == {"pending", "enrolled"}

-----------------------------------------------------------------------------
(* enrollStudent *)

EnrollLockSection(r, e) ==
    /\ Idle(r)
    /\ SectionFree(e[2])
    /\ pc' = [pc EXCEPT ![r] = "lockCourse"]
    /\ row' = [row EXCEPT ![r] = e]
    /\ UNCHANGED <<status, enrolled_count, capacity, is_active>>

(* Mutant: the refusal of a full section forgets the rollback. *)
EnrollLockCourseLeaking(r) ==
    LET s == row[r][2] IN
    /\ pc[r] = "lockCourse"
    /\ CourseFree(CourseOf[s])
    /\ is_active[s] /\ enrolled_count[s] < capacity[s]
    /\ Goto(r, "readOwn")
    /\ UNCHANGED <<status, enrolled_count, capacity, is_active>>

(* The rest of the FOR UPDATE, then is_active and the capacity, read under the lock. *)
EnrollLockCourse(r) ==
    LET s == row[r][2] IN
    /\ pc[r] = "lockCourse"
    /\ CourseFree(CourseOf[s])
    /\ IF is_active[s] /\ enrolled_count[s] < capacity[s]
       THEN Goto(r, "readOwn")
       ELSE Finish(r)
    /\ UNCHANGED <<status, enrolled_count, capacity, is_active>>

OtherSections(e) == {f \in Row : f[1] = e[1] /\ f[2] # e[2] /\ SameOffering(e[2], f[2])}

(* Mutant: the other sections of the course are not looked at. *)
EnrollReadOwnSection(r) ==
    /\ pc[r] = "readOwn"
    /\ IF status[row[r]] = "none" THEN Goto(r, "checkOutside") ELSE Finish(r)
    /\ UNCHANGED <<status, enrolled_count, capacity, is_active>>

(* The first plain SELECT, which takes the snapshot, and the second, which uses it. *)
EnrollReadOwn(r) ==
    /\ pc[r] = "readOwn"
    /\ IF /\ status[row[r]] = "none"
          /\ \A f \in OtherSections(row[r]) : status[f] \notin Active
       THEN Goto(r, "checkOutside")
       ELSE Finish(r)
    /\ UNCHANGED <<status, enrolled_count, capacity, is_active>>

ScheduleConflict(e) ==
    \E f \in Row : /\ f[1] = e[1]
                   /\ status[f] \in {"enrolled", "completed"}
                   /\ {e[2], f[2]} \in Overlap

(* The prerequisites, the conflicts and is_repeat are read on another connection,  *)
(* outside the transaction.  Unmet prerequisites are an Abort.                      *)
EnrollCheckOutside(r) ==
    /\ pc[r] = "checkOutside"
    /\ IF ~ScheduleConflict(row[r]) \/ AllowConflicts
       THEN Goto(r, "insert")
       ELSE Finish(r)
    /\ UNCHANGED <<status, enrolled_count, capacity, is_active>>

(* The INSERT, which the unique index refuses if the row exists, and the commit. *)
EnrollInsert(r) ==
    /\ pc[r] = "insert"
    /\ status' = IF status[row[r]] = "none"
                 THEN [status EXCEPT ![row[r]] = "pending"]
                 ELSE status
    /\ Finish(r)
    /\ UNCHANGED <<enrolled_count, capacity, is_active>>

-----------------------------------------------------------------------------
(* approveEnrollment, rejectEnrollment, dropCourse.                         *)
(* The first SELECT joins the enrolment and its section in one snapshot and *)
(* locks neither; the UPDATEs that follow are by primary key.               *)

ReadRow(r, e, step) ==
    /\ Idle(r)
    /\ pc' = [pc EXCEPT ![r] = step]
    /\ row' = [row EXCEPT ![r] = e]
    /\ UNCHANGED <<status, enrolled_count, capacity, is_active>>

(* Mutant: an approval does not look at the capacity. *)
ApproveReadUnchecked(r, e) ==
    /\ status[e] = "pending"
    /\ ReadRow(r, e, "approve")

(* Only the section's instructor gets past the check that follows the read. *)
ApproveRead(r, e) ==
    /\ status[e] = "pending"
    /\ enrolled_count[e[2]] < capacity[e[2]]
    /\ ReadRow(r, e, "approve")

(* Mutant: a rejection takes any row. *)
RejectReadAny(r, e) ==
    /\ status[e] # "none"
    /\ ReadRow(r, e, "reject")

RejectRead(r, e) ==
    /\ status[e] = "pending"
    /\ ReadRow(r, e, "reject")

(* A drop later than DROP_PERIOD_DAYS after the request is refused: not a step. *)
DropRead(r, e) ==
    /\ status[e] = "enrolled"
    /\ ReadRow(r, e, "drop")

(* enrollment.save(): the UPDATE by id locks the row. *)
SaveRow(r, step, next) ==
    /\ pc[r] = step
    /\ RowFree(row[r])
    /\ Goto(r, next)
    /\ UNCHANGED <<status, enrolled_count, capacity, is_active>>

ApproveSave(r) == SaveRow(r, "approve", "countUp")
DropSave(r)    == SaveRow(r, "drop", "countDown")

(* CourseSection.update(literal), which waits for the section's lock, and the commit. *)
CountAndCommit(r, step, new, delta) ==
    LET s == row[r][2] IN
    /\ pc[r] = step
    /\ SectionFree(s)
    /\ status' = [status EXCEPT ![row[r]] = new]
    /\ enrolled_count' = [enrolled_count EXCEPT ![s] = @ + delta]
    /\ Finish(r)
    /\ UNCHANGED <<capacity, is_active>>

(* Mutants: an approval writes a value the column does not have; a drop does not *)
(* give the seat back.                                                           *)
ApproveCommitApproved(r) == CountAndCommit(r, "countUp", "approved", 1)
DropCommitUncounted(r)   == CountAndCommit(r, "countDown", "dropped", 0)

ApproveCommit(r) == CountAndCommit(r, "countUp", "enrolled", 1)
DropCommit(r)    == CountAndCommit(r, "countDown", "dropped", -1)

RejectCommit(r) ==
    /\ pc[r] = "reject"
    /\ RowFree(row[r])
    /\ status' = [status EXCEPT ![row[r]] = "rejected"]
    /\ Finish(r)
    /\ UNCHANGED <<enrolled_count, capacity, is_active>>

-----------------------------------------------------------------------------
(* updateGrades, without a transaction.  Only a save that completes the pair *)
(* of midterm and final touches the status, and it writes the column only    *)
(* when the outcome differs from the status it read.                         *)

GradeRead(r, e, outcome) ==
    /\ status[e] \notin {"none", outcome}
    /\ ReadRow(r, e, outcome)

GradeSave(r) ==
    /\ pc[r] \in {"completed", "failed"}
    /\ RowFree(row[r])
    /\ status' = [status EXCEPT ![row[r]] = pc[r]]
    /\ Finish(r)
    /\ UNCHANGED <<enrolled_count, capacity, is_active>>

-----------------------------------------------------------------------------
(* A statement fails, a lock wait times out, no pooled connection is left,    *)
(* the prerequisites are not met or the server dies: the open transaction is  *)
(* rolled back.                                                               *)
Abort(r) ==
    /\ ~Idle(r)
    /\ Finish(r)
    /\ UNCHANGED <<status, enrolled_count, capacity, is_active>>

EnrollStep(r) ==
    \/ EnrollLockCourse(r)
    \/ EnrollReadOwn(r)
    \/ EnrollCheckOutside(r)
    \/ EnrollInsert(r)

ApproveStep(r) == ApproveSave(r) \/ ApproveCommit(r)

RejectStep(r) == RejectCommit(r)

DropStep(r) == DropSave(r) \/ DropCommit(r)

DecisionStep(r) == ApproveStep(r) \/ RejectStep(r) \/ DropStep(r)

Init ==
    /\ status = [e \in Row |-> "none"]
    /\ enrolled_count = [s \in Section |-> 0]
    /\ capacity \in [Section -> Capacities]
    /\ is_active \in [Section -> BOOLEAN]
    /\ pc = [r \in Request |-> "idle"]
    /\ row = [r \in Request |-> AnyRow]

Next ==
    \/ \E r \in Enroller : EnrollStep(r) \/ \E e \in Row : EnrollLockSection(r, e)
    \/ \E r \in Decider :
          \/ DecisionStep(r)
          \/ \E e \in Row : ApproveRead(r, e) \/ RejectRead(r, e) \/ DropRead(r, e)
    \/ \E r \in Grader :
          \/ GradeSave(r)
          \/ \E e \in Row, outcome \in {"completed", "failed"} : GradeRead(r, e, outcome)
    \/ \E r \in Request : Abort(r)

Spec == Init /\ [][Next]_vars

(* The event loop runs every callback whose statement has answered, and InnoDB   *)
(* grants a row lock to the transactions that queue for it in turn.              *)
Fairness ==
    /\ \A r \in Enroller : SF_vars(EnrollStep(r))
    /\ \A r \in Decider : SF_vars(DecisionStep(r))
    /\ \A r \in Grader : SF_vars(GradeSave(r))

FairSpec == Spec /\ Fairness

-----------------------------------------------------------------------------
(* Properties *)

TypeOK ==
    /\ status \in [Row -> Status]
    /\ enrolled_count \in [Section -> Int]
    /\ capacity \in [Section -> Nat]
    /\ is_active \in [Section -> BOOLEAN]
    /\ pc \in [Request -> Step]
    /\ row \in [Request -> Row]

(* A student never has two pending requests for sections of one course in one  *)
(* term, however many enrolment requests race: the FOR UPDATE of enrollStudent *)
(* also locks the joined course row, and the snapshot is taken after it.       *)
OnePendingPerOffering ==
    \A e \in Row : \A f \in OtherSections(e) :
        ~(status[e] = "pending" /\ status[f] = "pending")

(* approveEnrollment checks the capacity on a snapshot and counts later, so a    *)
(* section can be overbooked, but by fewer seats than there are decisions being  *)
(* served at once; with one at a time the capacity is respected.                 *)
OverbookingBounded ==
    \A s \in Section : enrolled_count[s] <= capacity[s] + Cardinality(Decider) - 1

(* A request is only recorded in a section that is active and has a free seat at *)
(* the very moment it is recorded, not merely when enrollStudent looked: the     *)
(* section's lock keeps approvals out in between.                                *)
AdmissionHolds ==
    [][\A e \in Row : status[e] = "none" /\ status'[e] # "none" =>
          is_active[e[2]] /\ enrolled_count[e[2]] < capacity[e[2]]]_vars

(* Every request that was started is answered: the lock order section, course in *)
(* enrollStudent and enrolment, section in approve and drop has no cycle.        *)
EveryRequestAnswered == \A r \in Request : ~Idle(r) ~> Idle(r)

(* The counter is the number of seats taken; graded rows keep their seat.  True  *)
(* when decisions are served one at a time and nobody is graded.                 *)
CountIsHeads ==
    \A s \in Section :
        enrolled_count[s] = Cardinality({st \in Student : status[<<st, s>>] = "enrolled"})

(* A student holds, or waits for, one section of a course per term.  True when   *)
(* decisions are served one at a time.                                           *)
OneActivePerOffering ==
    \A e \in Row : \A f \in OtherSections(e) : ~(status[e] \in Active /\ status[f] \in Active)

(* What the API documentation promises of the capacity check: it is one atomic   *)
(* update, so the count never passes the capacity.                               *)
NoOverbooking == \A s \in Section : enrolled_count[s] <= capacity[s]

(* What the integration test announces: a student is not enrolled in two         *)
(* sections whose schedules overlap.                                             *)
NoOverlappingEnrolments ==
    \A e, f \in Row :
        e[1] = f[1] /\ {e[2], f[2]} \in Overlap => ~(status[e] = "enrolled" /\ status[f] = "enrolled")

-----------------------------------------------------------------------------
(* The abstract specification over the same tables. *)

SectionOfRow(e) == e[2]

Lifecycle == INSTANCE EnrollmentLifecycle
    WITH SectionOf <- SectionOfRow, Alternatives <- OtherSections,
         seats <- enrolled_count, open <- is_active

(* With one decision at a time every request takes effect in one step, at its  *)
(* commit, as if nobody else were being served: capacity, single section and   *)
(* pending-only decisions all hold, however many enrolment requests race.      *)
ImplementsLifecycle == Lifecycle!Spec
=============================================================================
