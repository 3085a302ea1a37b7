----------------------------- MODULE Attendance -----------------------------
(***************************************************************************)
(* Attendance of one course section: the instructor opens and closes       *)
(* sessions, enrolled students check in or ask to be excused, reviewers    *)
(* approve or reject the excuses (attendanceController, attendanceService, *)
(* excuseController).  No handler uses a transaction or a lock: every      *)
(* statement commits on its own, and only the unique indexes of the        *)
(* records and of the excuse requests hold concurrent handlers apart.      *)
(* QR codes, distance and enrolment only decide whether a check-in is      *)
(* refused; "late" counts as "present".                                    *)
(***************************************************************************)
EXTENDS Naturals, FiniteSets

CONSTANTS
    Pupil,       \* the enrolled students
    Lesson,      \* ids of attendance sessions
    Key,         \* the pairs of session and student for which anybody asks anything
    Teacher,     \* slots for requests of instructors being served at once
    Device,      \* slots for requests of students
    Reviewer,    \* slots for approvals and rejections
    MayFail      \* slots whose statements may fail, or whose server may crash

ASSUME AttendanceAssumption ==
    /\ IsFiniteSet(Lesson) /\ IsFiniteSet(Teacher)
    /\ Key \subseteq Lesson \X Pupil
    /\ Teacher \cap Device = {} /\ Teacher \cap Reviewer = {} /\ Device \cap Reviewer = {}
    /\ MayFail \subseteq Teacher \cup Device \cup Reviewer

VARIABLES
    session,     \* [Lesson -> status], "none" before the session is created
    expired,     \* the sessions whose expires_at has passed
    record,      \* [Key -> status of the attendance record, "present" also standing for "late"]
    excuse,      \* [Key -> status of the excuse request]
    attPc,       \* [slot -> the statement the request is at]
    attOf,       \* [slot -> the row the request is about]
    contested,   \* history: the keys on which a review overlapped another request
    broken       \* history: the keys on which a review failed half way

attVars == <<session, expired, record, excuse, attPc, attOf, contested, broken>>

Timed == {k[1] : k \in Key}   \* the sessions whose end matters to somebody

AttSlot == Teacher \cup Device \cup Reviewer

NoRow == <<"no row">>

Idle(s) == attPc[s] = "idle"

Goto(s, step, row) ==
    /\ attPc' = [attPc EXCEPT ![s] = step]
    /\ attOf' = [attOf EXCEPT ![s] = row]

Done(s) == Goto(s, "idle", NoRow)

(* History only: the step of s on k overlaps a review, or is one that overlaps. *)
Touch(s, k) ==
    contested' = IF \E t \in AttSlot \ {s} : attOf[t] = k /\ (s \in Reviewer \/ t \in Reviewer)
                 THEN contested \cup {k} ELSE contested

SessionStatus == {"none", "active", "closed"}
RecordStatus == {"none", "present", "excused"}
ExcuseStatus == {"none", "pending", "approved", "rejected"}

AttTypeOK ==
    /\ session \in [Lesson -> SessionStatus]
    /\ expired \subseteq Timed
    /\ record \in [Key -> RecordStatus]
    /\ excuse \in [Key -> ExcuseStatus]
    /\ attPc \in [AttSlot -> {"idle", "open", "close", "lookup", "insert", "ask",
                              "approve", "find", "update", "create", "reject"}]
    /\ attOf \in [AttSlot -> Lesson \cup Key \cup {NoRow}]
    /\ contested \subseteq Key /\ broken \subseteq Key

AttInit ==
    /\ session = [l \in Lesson |-> "none"]
    /\ expired = {}
    /\ record = [k \in Key |-> "none"]
    /\ excuse = [k \in Key |-> "none"]
    /\ attPc = [s \in AttSlot |-> "idle"]
    /\ attOf = [s \in AttSlot |-> NoRow]
    /\ contested = {} /\ broken = {}

-----------------------------------------------------------------------------
(* The instructor. *)

Active == {l \in Lesson : session[l] = "active"}

(* Mutant: the look for an active session is left out. *)
OpenReadAny(t) ==
    /\ Idle(t)
    /\ Goto(t, "open", NoRow)
    /\ UNCHANGED <<session, expired, record, excuse, contested, broken>>

(* An expired session still counts as active. *)
OpenRead(t) ==
    /\ Idle(t)
    /\ Active = {}
    /\ Goto(t, "open", NoRow)
    /\ UNCHANGED <<session, expired, record, excuse, contested, broken>>

OpenInsert(t) ==
    /\ attPc[t] = "open"
    /\ \E l \in Lesson :
          /\ session[l] = "none"
          /\ session' = [session EXCEPT ![l] = "active"]
    /\ Done(t)
    /\ UNCHANGED <<expired, record, excuse, contested, broken>>

CloseRead(t, l) ==
    /\ Idle(t)
    /\ session[l] = "active"
    /\ Goto(t, "close", l)
    /\ UNCHANGED <<session, expired, record, excuse, contested, broken>>

CloseSave(t) ==
    /\ attPc[t] = "close"
    /\ session' = [session EXCEPT ![attOf[t]] = "closed"]
    /\ Done(t)
    /\ UNCHANGED <<expired, record, excuse, contested, broken>>

(* The clock reaches expires_at; nothing closes the session. *)
Expire(l) ==
    /\ session[l] = "active"
    /\ expired' = expired \cup {l}
    /\ UNCHANGED <<session, record, excuse, attPc, attOf, contested, broken>>
-----------------------------------------------------------------------------
(* The student: a check-in reads session, enrolment and record before it inserts. *)

CheckInRead(d, k) ==
    /\ Idle(d)
    /\ session[k[1]] = "active" /\ k[1] \notin expired
    /\ Goto(d, "lookup", k)
    /\ Touch(d, k)
    /\ UNCHANGED <<session, expired, record, excuse, broken>>

(* The geofence refuses after the look for a record. *)
CheckInLookup(d) ==
    /\ attPc[d] = "lookup"
    /\ \/ record[attOf[d]] = "none" /\ Goto(d, "insert", attOf[d])
       \/ Done(d)
    /\ UNCHANGED <<session, expired, record, excuse, contested, broken>>

(* Mutant: no unique index on session and student, the later row replaces the first. *)
CheckInInsertAny(d) ==
    /\ attPc[d] = "insert"
    /\ record' = [record EXCEPT ![attOf[d]] = "present"]
    /\ Done(d)
    /\ UNCHANGED <<session, expired, excuse, contested, broken>>

(* A row that exists by now makes the INSERT fail. *)
CheckInInsert(d) ==
    /\ attPc[d] = "insert"
    /\ record' = [record EXCEPT ![attOf[d]] = IF @ = "none" THEN "present" ELSE @]
    /\ Done(d)
    /\ UNCHANGED <<session, expired, excuse, contested, broken>>

ExcuseRead(d, k) ==
    /\ Idle(d)
    /\ session[k[1]] # "none"
    /\ excuse[k] = "none"
    /\ Goto(d, "ask", k)
    /\ UNCHANGED <<session, expired, record, excuse, contested, broken>>

ExcuseInsert(d) ==
    /\ attPc[d] = "ask"
    /\ excuse' = [excuse EXCEPT ![attOf[d]] = IF @ = "none" THEN "pending" ELSE @]
    /\ Done(d)
    /\ UNCHANGED <<session, expired, record, contested, broken>>
-----------------------------------------------------------------------------
(* The review: the request is saved first, the record follows in statements of its own. *)

(* Mutant: a decided request may be decided again. *)
ReviewReadAny(r, k, decision) ==
    /\ Idle(r)
    /\ excuse[k] # "none"
    /\ Goto(r, decision, k)
    /\ Touch(r, k)
    /\ UNCHANGED <<session, expired, record, excuse, broken>>

ReviewRead(r, k, decision) ==
    /\ Idle(r)
    /\ excuse[k] = "pending"
    /\ Goto(r, decision, k)
    /\ Touch(r, k)
    /\ UNCHANGED <<session, expired, record, excuse, broken>>

RejectSave(r) ==
    /\ attPc[r] = "reject"
    /\ excuse' = [excuse EXCEPT ![attOf[r]] = "rejected"]
    /\ Done(r)
    /\ UNCHANGED <<session, expired, record, contested, broken>>

(* Mutant: the approval ends with the request and leaves the record alone. *)
ApproveSaveOnly(r) ==
    /\ attPc[r] = "approve"
    /\ excuse' = [excuse EXCEPT ![attOf[r]] = "approved"]
    /\ Done(r)
    /\ UNCHANGED <<session, expired, record, contested, broken>>

ApproveSave(r) ==
    /\ attPc[r] = "approve"
    /\ excuse' = [excuse EXCEPT ![attOf[r]] = "approved"]
    /\ Goto(r, "find", attOf[r])
    /\ UNCHANGED <<session, expired, record, contested, broken>>

ApproveFind(r) ==
    /\ attPc[r] = "find"
    /\ Goto(r, IF record[attOf[r]] # "none" THEN "update" ELSE "create", attOf[r])
    /\ UNCHANGED <<session, expired, record, excuse, contested, broken>>

(* An UPDATE of the row that was found, or an INSERT that fails if there is one now. *)
ApproveRecord(r) ==
    /\ attPc[r] \in {"update", "create"}
    /\ record' = [record EXCEPT ![attOf[r]] =
                     IF attPc[r] = "update" \/ @ = "none" THEN "excused" ELSE @]
    /\ Done(r)
    /\ UNCHANGED <<session, expired, excuse, contested, broken>>

(* What was saved stays: a review that fails leaves the request and the record apart. *)
AttAbort(s) ==
    /\ ~Idle(s)
    /\ Done(s)
    /\ broken' = IF s \in Reviewer THEN broken \cup {attOf[s]} ELSE broken
    /\ UNCHANGED <<session, expired, record, excuse, contested>>

TeacherStep(t) == OpenInsert(t) \/ CloseSave(t)

DeviceStep(d) == CheckInLookup(d) \/ CheckInInsert(d) \/ ExcuseInsert(d)

ReviewStep(r) == RejectSave(r) \/ ApproveSave(r) \/ ApproveFind(r) \/ ApproveRecord(r)

AttNext ==
    \/ \E t \in Teacher : OpenRead(t) \/ TeacherStep(t) \/ \E l \in Lesson : CloseRead(t, l)
    \/ \E l \in Timed : Expire(l)
    \/ \E d \in Device : DeviceStep(d) \/ \E k \in Key : CheckInRead(d, k) \/ ExcuseRead(d, k)
    \/ \E r \in Reviewer :
          \/ ReviewStep(r)
          \/ \E k \in Key : ReviewRead(r, k, "approve") \/ ReviewRead(r, k, "reject")
    \/ \E s \in MayFail : AttAbort(s)

AttSpec == AttInit /\ [][AttNext]_attVars

(* A request that was started is continued by the event loop. *)
AttFair == \A r \in Reviewer : WF_attVars(ReviewStep(r))

AttFairSpec == AttSpec /\ AttFair
-----------------------------------------------------------------------------
(* getStudentAttendanceStats, from which reports and absence warnings are made. *)
Stats(p) ==
    LET held == {l \in Lesson : session[l] \in {"active", "closed"}}
        With(status) == {k \in Key : k[1] \in held /\ k[2] = p /\ record[k] = status}
        excused == {k \in Key : k[1] \in held /\ k[2] = p /\ excuse[k] = "approved"} IN
    [total |-> Cardinality(held),
     counted |-> Cardinality(With("present")) + Cardinality(excused)]

Missed(p) == {l \in Lesson : /\ session[l] # "none"
                             /\ <<l, p>> \in Key => /\ record[<<l, p>>] = "none"
                                                    /\ excuse[<<l, p>>] # "approved"}

UnderReview(k) == \E r \in Reviewer : attOf[r] = k

(* createSession: the sessions open at once are at most as many as requests to *)
(* open one are served at once, although check and insert are not atomic.      *)
ActiveSessionsBounded == Cardinality(Active) <= Cardinality(Teacher)

(* getStudentAttendanceStats adds up: a student whose excuses are not being    *)
(* reviewed is counted once for each session held, whatever check-ins,         *)
(* requests and closings raced, unless a review overlapped another request on  *)
(* the same row, or failed half way.                                           *)
AbsencesAddUp ==
    \A p \in Pupil :
        (\A l \in Lesson : <<l, p>> \notin contested \cup broken /\ ~UnderReview(<<l, p>>))
            => Stats(p).total = Stats(p).counted + Cardinality(Missed(p))

(* No check-in, late or repeated, takes back the excuse a reviewer recorded. *)
ExcusedStaysExcused ==
    [][\A k \in Key : record[k] = "excused" => record'[k] = "excused"]_attVars

(* approveExcuseRequest: once a session takes no more check-ins and none is    *)
(* under way, an approved excuse gets its record, unless a review of it failed.              *)
TakesCheckIn(k) ==
    \/ session[k[1]] = "active" /\ k[1] \notin expired
    \/ \E d \in Device : attPc[d] \in {"lookup", "insert"} /\ attOf[d] = k

ApprovedIsRecorded ==
    \A k \in Key : (excuse[k] = "approved" /\ record[k] = "none" /\ ~TakesCheckIn(k))
                       ~> (record[k] = "excused" \/ k \in broken)
=============================================================================
