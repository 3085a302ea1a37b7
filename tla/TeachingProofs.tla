--------------------------- MODULE TeachingProofs ---------------------------
(***************************************************************************)
(* What Attendance and Gradebook guarantee for any number of sessions,     *)
(* students, enrolments and requests, although no handler of theirs uses a *)
(* transaction.                                                            *)
(***************************************************************************)
EXTENDS Attendance, Gradebook, SumTheorems

-----------------------------------------------------------------------------
(* Attendance: sessions, check-ins and excuses                             *)

(* Each slot is at the statements of its own kind of request, about a row of the kind *)
(* that these statements are about.                                                   *)
KindInv ==
    /\ \A t \in Teacher :
          /\ attPc[t] \in {"idle", "open", "close"}
          /\ attPc[t] = "close" => attOf[t] \in Lesson
    /\ \A d \in Device :
          /\ attPc[d] \in {"idle", "lookup", "insert", "ask"}
          /\ IF attPc[d] = "idle" THEN attOf[d] = NoRow ELSE attOf[d] \in Key
    /\ \A r \in Reviewer :
          /\ attPc[r] \in {"idle", "approve", "reject", "find", "update", "create"}
          /\ IF attPc[r] = "idle" THEN attOf[r] = NoRow ELSE attOf[r] \in Key

AttTyped == AttTypeOK /\ KindInv

LEMMA NoRowIsNoKey == NoRow \notin Key
<1>1. ASSUME NEW l \in Lesson, NEW p \in Pupil PROVE <<"no row">> # <<l, p>>
  <2>1. DOMAIN <<"no row">> = 1 .. 1 /\ DOMAIN <<l, p>> = 1 .. 2
    OBVIOUS
  <2>2. 2 \in 1 .. 2 /\ 2 \notin 1 .. 1
    OBVIOUS
  <2>3. QED
    BY <2>1, <2>2
<1>2. \A k \in Key : \E l \in Lesson, p \in Pupil : k = <<l, p>>
  BY AttendanceAssumption
<1>3. QED
  BY <1>1, <1>2 DEF NoRow

(* A step of one slot leaves the others where they are. *)
LEMMA Moves ==
    ASSUME AttTypeOK, NEW s \in AttSlot, NEW step, NEW x, Goto(s, step, x)
    PROVE  /\ attPc'[s] = step /\ attOf'[s] = x
           /\ \A q \in AttSlot : q # s => attPc'[q] = attPc[q] /\ attOf'[q] = attOf[q]
BY DEF Goto, AttTypeOK

LEMMA TypedInit == AttInit => AttTyped
BY DEF AttInit, AttTyped, AttTypeOK, KindInv, AttSlot, SessionStatus, RecordStatus, ExcuseStatus

(* What a slot may go to next. *)
LEMMA TypedGoto ==
    ASSUME AttTyped, NEW s \in AttSlot, NEW step, NEW x, Goto(s, step, x),
           \/ s \in Teacher /\ step = "close" /\ x \in Lesson
           \/ s \in Teacher /\ step = "open" /\ x = NoRow
           \/ s \in Device /\ step \in {"lookup", "insert", "ask"} /\ x \in Key
           \/ s \in Reviewer /\ step \in {"approve", "reject", "find", "update", "create"}
                             /\ x \in Key
           \/ step = "idle" /\ x = NoRow
    PROVE  /\ attPc' \in [AttSlot -> {"idle", "open", "close", "lookup", "insert", "ask",
                                      "approve", "find", "update", "create", "reject"}]
           /\ attOf' \in [AttSlot -> Lesson \cup Key \cup {NoRow}]
           /\ KindInv'
<1>1. attPc \in [AttSlot -> {"idle", "open", "close", "lookup", "insert", "ask",
                             "approve", "find", "update", "create", "reject"}]
      /\ attOf \in [AttSlot -> Lesson \cup Key \cup {NoRow}]
  BY DEF AttTyped, AttTypeOK
<1>2. /\ attPc' \in [AttSlot -> {"idle", "open", "close", "lookup", "insert", "ask",
                                 "approve", "find", "update", "create", "reject"}]
      /\ attOf' \in [AttSlot -> Lesson \cup Key \cup {NoRow}]
  BY <1>1 DEF Goto
<1>3. /\ attPc'[s] = step /\ attOf'[s] = x
      /\ \A q \in AttSlot : q # s => attPc'[q] = attPc[q] /\ attOf'[q] = attOf[q]
  BY Moves DEF AttTyped
<1>4. KindInv'
  BY <1>3, AttendanceAssumption DEF AttTyped, KindInv, AttSlot
<1>5. QED
  BY <1>2, <1>4

LEMMA TypedStep == AttTyped /\ [AttNext]_attVars => AttTyped'
<1> SUFFICES ASSUME AttTyped, [AttNext]_attVars PROVE AttTyped'
  OBVIOUS
<1> USE DEF SessionStatus, RecordStatus, ExcuseStatus
<1>1. /\ session \in [Lesson -> SessionStatus] /\ expired \subseteq Timed
      /\ record \in [Key -> RecordStatus] /\ excuse \in [Key -> ExcuseStatus]
      /\ contested \subseteq Key /\ broken \subseteq Key
  BY DEF AttTyped, AttTypeOK
<1>2. ASSUME NEW t \in Teacher,
             OpenRead(t) \/ TeacherStep(t) \/ \E l \in Lesson : CloseRead(t, l)
      PROVE  AttTyped'
  <2>1. session' \in [Lesson -> SessionStatus]
    BY <1>1, <1>2 DEF OpenRead, TeacherStep, OpenInsert, CloseSave, CloseRead
  <2>2. UNCHANGED <<expired, record, excuse, contested, broken>>
    BY <1>2 DEF OpenRead, TeacherStep, OpenInsert, CloseSave, CloseRead
  <2>3. \/ Goto(t, "open", NoRow) \/ Goto(t, "idle", NoRow)
        \/ \E l \in Lesson : Goto(t, "close", l)
    BY <1>2 DEF OpenRead, TeacherStep, OpenInsert, CloseSave, CloseRead, Done
  <2>4. QED
    BY <1>1, <2>1, <2>2, <2>3, TypedGoto DEF AttTyped, AttTypeOK, AttSlot
<1>3. ASSUME NEW l \in Timed, Expire(l) PROVE AttTyped'
  BY <1>1, <1>3 DEF Expire, AttTyped, AttTypeOK, KindInv
<1>4. ASSUME NEW d \in Device,
             DeviceStep(d) \/ \E k \in Key : CheckInRead(d, k) \/ ExcuseRead(d, k)
      PROVE  AttTyped'
  <2>1. UNCHANGED <<session, expired, broken>>
    BY <1>4 DEF DeviceStep, CheckInLookup, CheckInInsert, ExcuseInsert, CheckInRead, ExcuseRead
  <2>2. record' \in [Key -> RecordStatus] /\ excuse' \in [Key -> ExcuseStatus]
    BY <1>1, <1>4
       DEF DeviceStep, CheckInLookup, CheckInInsert, ExcuseInsert, CheckInRead, ExcuseRead
  <2>3. contested' \subseteq Key
    BY <1>1, <1>4
       DEF DeviceStep, CheckInLookup, CheckInInsert, ExcuseInsert, CheckInRead, ExcuseRead, Touch
  <2>4. \/ Goto(d, "idle", NoRow)
        \/ \E step \in {"lookup", "insert", "ask"}, k \in Key : Goto(d, step, k)
    BY <1>4 DEF DeviceStep, CheckInLookup, CheckInInsert, ExcuseInsert, CheckInRead, ExcuseRead,
                Done, AttTyped, KindInv
  <2>5. QED
    BY <1>1, <2>1, <2>2, <2>3, <2>4, TypedGoto DEF AttTyped, AttTypeOK, AttSlot
<1>5. ASSUME NEW r \in Reviewer,
             \/ ReviewStep(r)
             \/ \E k \in Key : ReviewRead(r, k, "approve") \/ ReviewRead(r, k, "reject")
      PROVE  AttTyped'
  <2>1. UNCHANGED <<session, expired, broken>>
    BY <1>5 DEF ReviewStep, RejectSave, ApproveSave, ApproveFind, ApproveRecord, ReviewRead
  <2>2. record' \in [Key -> RecordStatus] /\ excuse' \in [Key -> ExcuseStatus]
    BY <1>1, <1>5 DEF ReviewStep, RejectSave, ApproveSave, ApproveFind, ApproveRecord, ReviewRead
  <2>3. contested' \subseteq Key
    BY <1>1, <1>5
       DEF ReviewStep, RejectSave, ApproveSave, ApproveFind, ApproveRecord, ReviewRead, Touch
  <2>4. \/ Goto(r, "idle", NoRow)
        \/ \E step \in {"approve", "reject", "find", "update", "create"}, k \in Key :
              Goto(r, step, k)
    BY <1>5 DEF ReviewStep, RejectSave, ApproveSave, ApproveFind, ApproveRecord, ReviewRead,
                Done, AttTyped, KindInv
  <2>5. QED
    BY <1>1, <2>1, <2>2, <2>3, <2>4, TypedGoto DEF AttTyped, AttTypeOK, AttSlot
<1>6. ASSUME NEW s \in MayFail, AttAbort(s) PROVE AttTyped'
  <2>1. s \in AttSlot /\ Goto(s, "idle", NoRow)
    BY <1>6, AttendanceAssumption DEF AttAbort, Done, AttSlot
  <2>2. broken' \subseteq Key
    BY <1>1, <1>6 DEF AttAbort, Idle, AttTyped, KindInv
  <2>3. UNCHANGED <<session, expired, record, excuse, contested>>
    BY <1>6 DEF AttAbort
  <2>4. QED
    BY <1>1, <2>1, <2>2, <2>3, TypedGoto DEF AttTyped, AttTypeOK
<1>7. CASE UNCHANGED attVars
  BY <1>7 DEF attVars, AttTyped, AttTypeOK, KindInv
<1>8. QED
  BY <1>2, <1>3, <1>4, <1>5, <1>6, <1>7 DEF AttNext

(* The rows and the requests are of the kinds the module names. *)
THEOREM AttendanceTypeCorrect == AttSpec => [](AttTypeOK /\ KindInv)
<1>1. AttInit => AttTyped
  BY TypedInit
<1>2. AttTyped /\ [AttNext]_attVars => AttTyped'
  BY TypedStep
<1>3. AttTyped => AttTypeOK /\ KindInv
  BY DEF AttTyped
<1>4. QED
  BY <1>1, <1>2, <1>3, PTL DEF AttSpec

LEMMA TypedAlways == AttSpec => []AttTyped
BY TypedInit, TypedStep, PTL DEF AttSpec

-----------------------------------------------------------------------------
(* The requests that have seen no active session and not yet opened one. *)
Opening == {t \in Teacher : attPc[t] = "open"}

(* What can still be opened counts with what is: the bound alone is not inductive. *)
RoomLeft == Cardinality(Active) + Cardinality(Opening) <= Cardinality(Teacher)

LEMMA FiniteCounts ==
    /\ IsFiniteSet(Active) /\ Cardinality(Active) \in Nat
    /\ IsFiniteSet(Opening) /\ Cardinality(Opening) \in Nat
    /\ Cardinality(Opening) <= Cardinality(Teacher) /\ Cardinality(Teacher) \in Nat
<1>1. Active \subseteq Lesson /\ Opening \subseteq Teacher
  BY DEF Active, Opening
<1>2. QED
  BY <1>1, AttendanceAssumption, FS_Subset, FS_CardinalityType

LEMMA RoomLeftStep == ASSUME AttTyped, RoomLeft, [AttNext]_attVars PROVE RoomLeft'
<1>1. session \in [Lesson -> SessionStatus]
  BY DEF AttTyped, AttTypeOK
<1>2. /\ IsFiniteSet(Active) /\ Cardinality(Active) \in Nat
      /\ IsFiniteSet(Opening) /\ Cardinality(Opening) \in Nat
      /\ Cardinality(Opening) <= Cardinality(Teacher) /\ Cardinality(Teacher) \in Nat
  BY FiniteCounts
<1>3. CASE Active' \subseteq Active /\ Opening' \subseteq Opening
  <2>1. /\ Cardinality(Active') <= Cardinality(Active) /\ Cardinality(Active') \in Nat
        /\ Cardinality(Opening') <= Cardinality(Opening) /\ Cardinality(Opening') \in Nat
    BY <1>2, <1>3, FS_Subset, FS_CardinalityType
  <2>2. QED
    BY <1>2, <2>1 DEF RoomLeft
<1>4. ASSUME NEW t \in Teacher, OpenRead(t) PROVE RoomLeft'
  <2>1. Active' = {}
    BY <1>4 DEF OpenRead, Active
  <2>2. Opening' \subseteq Teacher
    BY DEF Opening
  <2>3. Cardinality(Opening') <= Cardinality(Teacher) /\ Cardinality(Opening') \in Nat
    BY <2>2, AttendanceAssumption, FS_Subset, FS_CardinalityType
  <2>4. QED
    BY <1>2, <2>1, <2>3, FS_EmptySet DEF RoomLeft
<1>5. ASSUME NEW t \in Teacher, OpenInsert(t) PROVE RoomLeft'
  <2>1. PICK l \in Lesson : session[l] = "none" /\ session' = [session EXCEPT ![l] = "active"]
    BY <1>5 DEF OpenInsert
  <2>2. Active' = Active \cup {l} /\ l \notin Active
    BY <1>1, <2>1 DEF Active
  <2>3. /\ attPc'[t] = "idle"
        /\ \A q \in AttSlot : q # t => attPc'[q] = attPc[q]
    BY <1>5, Moves DEF OpenInsert, Done, AttTyped, AttSlot
  <2>4. t \in Opening /\ Opening' = Opening \ {t}
    BY <1>5, <2>3 DEF OpenInsert, Opening, AttSlot
  <2>5. /\ Cardinality(Active') = Cardinality(Active) + 1
        /\ Cardinality(Opening') = Cardinality(Opening) - 1
    BY <1>2, <2>2, <2>4, FS_AddElement, FS_RemoveElement
  <2>6. QED
    BY <1>2, <2>5 DEF RoomLeft
<1>6. ASSUME NEW t \in Teacher, CloseSave(t) \/ \E l \in Lesson : CloseRead(t, l)
      PROVE  Active' \subseteq Active /\ Opening' \subseteq Opening
  <2>1. Active' \subseteq Active
    BY <1>1, <1>6 DEF CloseSave, CloseRead, Active
  <2>2. /\ attPc'[t] \in {"idle", "close"}
        /\ \A q \in AttSlot : q # t => attPc'[q] = attPc[q]
    BY <1>6, Moves DEF CloseSave, CloseRead, Done, AttTyped, AttSlot
  <2>3. Opening' \subseteq Opening
    BY <2>2 DEF Opening, AttSlot
  <2>4. QED
    BY <2>1, <2>3
<1>7. ASSUME NEW s \in Device \cup Reviewer, NEW step, NEW x, Goto(s, step, x), session' = session
      PROVE  Active' \subseteq Active /\ Opening' \subseteq Opening
  <2>1. \A t \in Teacher : attPc'[t] = attPc[t]
    BY <1>7, Moves, AttendanceAssumption DEF AttTyped, AttSlot
  <2>2. QED
    BY <1>7, <2>1 DEF Active, Opening
<1>8. ASSUME NEW d \in Device,
             DeviceStep(d) \/ \E k \in Key : CheckInRead(d, k) \/ ExcuseRead(d, k)
      PROVE  Active' \subseteq Active /\ Opening' \subseteq Opening
  BY <1>7, <1>8 DEF DeviceStep, CheckInLookup, CheckInInsert, ExcuseInsert, CheckInRead,
                    ExcuseRead, Done
<1>9. ASSUME NEW r \in Reviewer,
             \/ ReviewStep(r)
             \/ \E k \in Key : ReviewRead(r, k, "approve") \/ ReviewRead(r, k, "reject")
      PROVE  Active' \subseteq Active /\ Opening' \subseteq Opening
  BY <1>7, <1>9 DEF ReviewStep, RejectSave, ApproveSave, ApproveFind, ApproveRecord, ReviewRead,
                    Done
<1>10. ASSUME NEW s \in MayFail, AttAbort(s)
       PROVE  Active' \subseteq Active /\ Opening' \subseteq Opening
  <2>1. s \in AttSlot /\ Goto(s, "idle", NoRow) /\ session' = session
    BY <1>10, AttendanceAssumption DEF AttAbort, Done, AttSlot
  <2>2. /\ attPc'[s] = "idle"
        /\ \A q \in AttSlot : q # s => attPc'[q] = attPc[q]
    BY <2>1, Moves DEF AttTyped
  <2>3. QED
    BY <2>1, <2>2 DEF Active, Opening, AttSlot
<1>11. CASE UNCHANGED attVars \/ \E l \in Timed : Expire(l)
  BY <1>3, <1>11 DEF attVars, Expire, Active, Opening
<1>12. QED
  BY <1>3, <1>4, <1>5, <1>6, <1>8, <1>9, <1>10, <1>11 DEF AttNext, TeacherStep

(* The active sessions of a section are at most as many as its instructors' requests    *)
(* that are served at once, although the look for an active session and the INSERT are  *)
(* apart and no index forbids a second one (attendanceController.js:20-110).            *)
THEOREM SessionsAreBounded == AttSpec => []ActiveSessionsBounded
<1>1. AttInit => RoomLeft
  <2> SUFFICES ASSUME AttInit PROVE RoomLeft
    OBVIOUS
  <2>1. Active = {} /\ Opening = {}
    BY DEF AttInit, Active, Opening, AttSlot
  <2>2. QED
    BY <2>1, FiniteCounts, FS_EmptySet DEF RoomLeft
<1>2. AttTyped /\ RoomLeft /\ [AttNext]_attVars => RoomLeft'
  BY RoomLeftStep
<1>3. RoomLeft => ActiveSessionsBounded
  BY FiniteCounts DEF RoomLeft, ActiveSessionsBounded
<1>4. QED
  BY TypedAlways, <1>1, <1>2, <1>3, PTL DEF AttSpec

-----------------------------------------------------------------------------
(* No check-in, late or repeated, takes back a recorded excuse: an INSERT meets the unique *)
(* index, and the only UPDATE writes 'excused' (attendanceService.js:200-360,              *)
(* excuseController.js:230-330).                                                           *)
THEOREM ExcusesStayRecorded == AttSpec => ExcusedStaysExcused
<1> DEFINE Stays == \A k \in Key : record[k] = "excused" => record'[k] = "excused"
<1>1. AttTyped /\ [AttNext]_attVars => [Stays]_attVars
  <2> SUFFICES ASSUME AttTyped, AttNext, NEW k \in Key, record[k] = "excused"
               PROVE  record'[k] = "excused"
    OBVIOUS
  <2>1. record \in [Key -> RecordStatus]
    BY DEF AttTyped, AttTypeOK
  <2>2. ASSUME NEW d \in Device, CheckInInsert(d) PROVE record'[k] = "excused"
    BY <2>1, <2>2 DEF CheckInInsert
  <2>3. ASSUME NEW r \in Reviewer, ApproveRecord(r) PROVE record'[k] = "excused"
    BY <2>1, <2>3 DEF ApproveRecord
  <2>4. \/ record' = record
        \/ \E d \in Device : CheckInInsert(d)
        \/ \E r \in Reviewer : ApproveRecord(r)
    BY DEF AttNext, OpenRead, TeacherStep, OpenInsert, CloseSave, CloseRead, Expire, DeviceStep,
           CheckInLookup, ExcuseInsert, CheckInRead, ExcuseRead, ReviewStep, RejectSave,
           ApproveSave, ApproveFind, ReviewRead, AttAbort
  <2>5. QED
    BY <2>2, <2>3, <2>4
<1>2. QED
  BY TypedAlways, <1>1, PTL DEF AttSpec, ExcusedStaysExcused

-----------------------------------------------------------------------------
(* The statistics. *)

Reviewing(r, k) == r \in Reviewer /\ attOf[r] = k

(* Nobody else is at work on what is being reviewed. *)
Alone(k) ==
    \A r \in Reviewer, s \in Device \cup Reviewer : attOf[r] = k /\ attOf[s] = k => r = s

(* How far request and record have come, by the step of the review. *)
InStep(k) ==
    /\ \A r \in Reviewer : attOf[r] = k =>
          /\ attPc[r] \in {"approve", "reject"} =>
                excuse[k] = "pending" /\ record[k] # "excused"
          /\ attPc[r] = "find" => excuse[k] = "approved" /\ record[k] # "excused"
          /\ attPc[r] = "update" => excuse[k] = "approved" /\ record[k] = "present"
          /\ attPc[r] = "create" => excuse[k] = "approved" /\ record[k] = "none"
    /\ ~UnderReview(k) => (excuse[k] = "approved" <=> record[k] = "excused")

(* A review is only of a request that was made. *)
ExcuseAsked == \A r \in Reviewer, k \in Key : attOf[r] = k => excuse[k] # "none"

StatsInv == ExcuseAsked /\ \A k \in Key : k \notin contested \cup broken => Alone(k) /\ InStep(k)

LEMMA StatsInit == AttInit => StatsInv
<1> SUFFICES ASSUME AttInit PROVE StatsInv
  OBVIOUS
<1>1. \A s \in AttSlot, k \in Key : attOf[s] # k
  BY NoRowIsNoKey DEF AttInit
<1>2. QED
  BY <1>1 DEF AttInit, StatsInv, ExcuseAsked, Alone, InStep, UnderReview, AttSlot

(* Steps that touch neither tables nor the slots of students and reviewers. *)
LEMMA StatsFrame ==
    ASSUME StatsInv, UNCHANGED <<record, excuse, contested, broken>>,
           \A s \in Device \cup Reviewer : attPc'[s] = attPc[s] /\ attOf'[s] = attOf[s]
    PROVE  StatsInv'
<1>1. \A k : UnderReview(k)' <=> UnderReview(k)
  BY DEF UnderReview
<1>2. QED
  BY <1>1 DEF StatsInv, ExcuseAsked, Alone, InStep

(* A student's step, on a row that nobody reviews unless the row is contested. *)
LEMMA DeviceStats ==
    ASSUME AttTyped, StatsInv, NEW d \in Device,
           DeviceStep(d) \/ \E k \in Key : CheckInRead(d, k) \/ ExcuseRead(d, k)
    PROVE  StatsInv'
<1>1. d \in AttSlot /\ d \notin Reviewer
  BY AttendanceAssumption DEF AttSlot
<1>2. \E step, x : Goto(d, step, x)
  BY DEF DeviceStep, CheckInLookup, CheckInInsert, ExcuseInsert, CheckInRead, ExcuseRead, Done
<1>3. \A s \in AttSlot : s # d => attPc'[s] = attPc[s] /\ attOf'[s] = attOf[s]
  BY <1>1, <1>2, Moves DEF AttTyped
<1>4. \A r \in Reviewer : attPc'[r] = attPc[r] /\ attOf'[r] = attOf[r]
  BY <1>1, <1>3 DEF AttSlot
<1>5. \A k : UnderReview(k)' <=> UnderReview(k)
  BY <1>4 DEF UnderReview
<1>6. contested \subseteq contested' /\ broken' = broken
  BY DEF DeviceStep, CheckInLookup, CheckInInsert, ExcuseInsert, CheckInRead, ExcuseRead, Touch
<1>7. \A k \in Key : excuse[k] # "none" => excuse'[k] = excuse[k]
  BY DEF DeviceStep, CheckInLookup, CheckInInsert, ExcuseInsert, CheckInRead, ExcuseRead,
         AttTyped, AttTypeOK
<1>8. ExcuseAsked'
  BY <1>4, <1>7 DEF StatsInv, ExcuseAsked
<1>9. ASSUME NEW k \in Key, k \notin contested' \cup broken' PROVE Alone(k)' /\ InStep(k)'
  <2>1. Alone(k) /\ InStep(k)
    BY <1>6, <1>9 DEF StatsInv
  <2>2. CASE UnderReview(k)
    <3>1. attOf[d] # k
      BY <1>1, <2>1, <2>2 DEF Alone, UnderReview
    <3>2. attOf'[d] # k
      <4>1. CASE \E j \in Key : CheckInRead(d, j)
        <5>1. PICK j \in Key : CheckInRead(d, j)
          BY <4>1
        <5>2. attOf'[d] = j
          BY <1>1, <5>1, Moves DEF CheckInRead, AttTyped
        <5>3. j # k
          BY <1>1, <1>9, <2>2, <5>1 DEF CheckInRead, Touch, UnderReview, AttSlot
        <5>4. QED
          BY <5>2, <5>3
      <4>2. CASE \E j \in Key : ExcuseRead(d, j)
        <5>1. PICK j \in Key : ExcuseRead(d, j)
          BY <4>2
        <5>2. attOf'[d] = j /\ excuse[j] = "none"
          BY <1>1, <5>1, Moves DEF ExcuseRead, AttTyped
        <5>3. QED
          BY <2>2, <5>2 DEF UnderReview, StatsInv, ExcuseAsked
      <4>3. CASE DeviceStep(d)
        <5>1. attOf'[d] = attOf[d] \/ attOf'[d] = NoRow
          BY <1>1, <4>3, Moves
             DEF DeviceStep, CheckInLookup, CheckInInsert, ExcuseInsert, Done, AttTyped
        <5>2. QED
          BY <3>1, <5>1, NoRowIsNoKey
      <4>4. QED
        BY <4>1, <4>2, <4>3
    <3>3. record'[k] = record[k] /\ excuse'[k] = excuse[k]
      BY <3>1 DEF DeviceStep, CheckInLookup, CheckInInsert, ExcuseInsert, CheckInRead, ExcuseRead,
                  AttTyped, AttTypeOK
    <3>4. Alone(k)'
      BY <1>3, <1>4, <2>1, <3>2 DEF Alone, AttSlot
    <3>5. InStep(k)'
      BY <1>4, <1>5, <2>1, <3>3 DEF InStep
    <3>6. QED
      BY <3>4, <3>5
  <2>3. CASE ~UnderReview(k)
    <3>1. \A r \in Reviewer : attOf'[r] # k
      BY <1>4, <2>3 DEF UnderReview
    <3>2. excuse'[k] = "approved" <=> record'[k] = "excused"
      <4>1. excuse[k] = "approved" <=> record[k] = "excused"
        BY <2>1, <2>3 DEF InStep
      <4>2. /\ record[k] \in RecordStatus /\ excuse[k] \in ExcuseStatus
            /\ record \in [Key -> RecordStatus] /\ excuse \in [Key -> ExcuseStatus]
        BY DEF AttTyped, AttTypeOK
      <4>3. /\ record'[k] = record[k] \/ (record[k] = "none" /\ record'[k] = "present")
            /\ excuse'[k] = excuse[k] \/ (excuse[k] = "none" /\ excuse'[k] = "pending")
        BY <4>2 DEF DeviceStep, CheckInLookup, CheckInInsert, ExcuseInsert, CheckInRead, ExcuseRead
      <4>4. QED
        BY <4>1, <4>3
    <3>3. QED
      BY <3>1, <3>2 DEF Alone, InStep
  <2>4. QED
    BY <2>2, <2>3
<1>10. QED
  BY <1>8, <1>9 DEF StatsInv

(* A reviewer's step: one that begins marks what it meets, the others are alone. *)
LEMMA ReviewStats ==
    ASSUME AttTyped, StatsInv, NEW r \in Reviewer,
           \/ ReviewStep(r)
           \/ \E k \in Key : ReviewRead(r, k, "approve") \/ ReviewRead(r, k, "reject")
    PROVE  StatsInv'
<1>1. /\ r \in AttSlot
      /\ record \in [Key -> RecordStatus] /\ excuse \in [Key -> ExcuseStatus]
  BY DEF AttSlot, AttTyped, AttTypeOK
<1>2. PICK step, x : Goto(r, step, x)
  BY DEF ReviewStep, RejectSave, ApproveSave, ApproveFind, ApproveRecord, ReviewRead, Done
<1>3. /\ attPc'[r] = step /\ attOf'[r] = x
      /\ \A s \in AttSlot : s # r => attPc'[s] = attPc[s] /\ attOf'[s] = attOf[s]
  BY <1>1, <1>2, Moves DEF AttTyped
<1>4. contested \subseteq contested' /\ broken' = broken
  BY DEF ReviewStep, RejectSave, ApproveSave, ApproveFind, ApproveRecord, ReviewRead, Touch
<1>5. \A k \in Key : excuse[k] # "none" => excuse'[k] # "none"
  BY <1>1 DEF ReviewStep, RejectSave, ApproveSave, ApproveFind, ApproveRecord, ReviewRead
<1>6. \A k \in Key : k # attOf[r] => record'[k] = record[k] /\ excuse'[k] = excuse[k]
  BY <1>1 DEF ReviewStep, RejectSave, ApproveSave, ApproveFind, ApproveRecord, ReviewRead
(* The first step. *)
<1>7. ASSUME NEW j \in Key, NEW decision \in {"approve", "reject"}, ReviewRead(r, j, decision)
      PROVE  StatsInv'
  <2>1. /\ attPc'[r] = decision /\ attOf'[r] = j /\ attOf[r] = NoRow
        /\ excuse[j] = "pending" /\ record' = record /\ excuse' = excuse
    BY <1>1, <1>7, Moves DEF ReviewRead, Idle, AttTyped, KindInv
  <2>2. ExcuseAsked'
    BY <1>3, <2>1 DEF StatsInv, ExcuseAsked, AttSlot
  <2>3. ASSUME NEW k \in Key, k \notin contested' \cup broken' PROVE Alone(k)' /\ InStep(k)'
    <3>1. Alone(k) /\ InStep(k)
      BY <1>4, <2>3 DEF StatsInv
    <3>2. CASE k = j
      <4>1. \A s \in Device \cup Reviewer : s # r => attOf[s] # k
        BY <1>7, <2>3, <3>2 DEF ReviewRead, Touch, AttSlot
      <4>2. \A s \in Device \cup Reviewer : s # r => attOf'[s] # k
        BY <1>3, <4>1 DEF AttSlot
      <4>3. ~UnderReview(k)
        BY <2>1, <4>1, NoRowIsNoKey DEF UnderReview
      <4>4. record[k] # "excused"
        BY <2>1, <3>1, <3>2, <4>3 DEF InStep
      <4>5. Alone(k)'
        BY <4>2 DEF Alone
      <4>6. UnderReview(k)'
        BY <2>1, <3>2 DEF UnderReview
      <4>7. InStep(k)'
        BY <2>1, <3>2, <4>2, <4>4, <4>6 DEF InStep
      <4>8. QED
        BY <4>5, <4>7
    <3>3. CASE k # j
      <4>1. attOf[r] # k /\ attOf'[r] # k
        BY <2>1, <3>3, NoRowIsNoKey
      <4>2. UnderReview(k)' <=> UnderReview(k)
        BY <1>3, <4>1 DEF UnderReview, AttSlot
      <4>3. QED
        BY <1>3, <2>1, <3>1, <4>1, <4>2 DEF Alone, InStep, AttSlot
    <3>4. QED
      BY <3>2, <3>3
  <2>4. QED
    BY <2>2, <2>3 DEF StatsInv
(* The later ones. *)
<1>8. CASE ReviewStep(r)
  <2> DEFINE j == attOf[r]
  <2>1. j \in Key /\ (x = j \/ x = NoRow)
    BY <1>1, <1>3, <1>8, Moves
       DEF ReviewStep, RejectSave, ApproveSave, ApproveFind, ApproveRecord, Done, AttTyped, KindInv
  <2>2. ExcuseAsked'
    <3>1. excuse[j] # "none"
      BY <2>1 DEF StatsInv, ExcuseAsked
    <3>2. \A q \in Reviewer, k \in Key : attOf'[q] = k => attOf[q] = k
      BY <1>3, <2>1, NoRowIsNoKey DEF AttSlot
    <3>3. QED
      BY <1>5, <3>2 DEF StatsInv, ExcuseAsked
  <2>3. ASSUME NEW k \in Key, k \notin contested' \cup broken' PROVE Alone(k)' /\ InStep(k)'
    <3>1. Alone(k) /\ InStep(k)
      BY <1>4, <2>3 DEF StatsInv
    <3>2. Alone(k)'
      BY <1>3, <2>1, <2>3, <3>1, NoRowIsNoKey DEF Alone, AttSlot
    <3>3. CASE k = j
      <4>1. \A q \in Reviewer : q # r => attOf'[q] # k
        BY <1>3, <3>1, <3>3 DEF Alone, AttSlot
      <4>2. CASE RejectSave(r)
        <5>1. record[k] # "excused" /\ record' = record /\ excuse'[k] = "rejected"
          BY <1>1, <3>1, <3>3, <4>2 DEF RejectSave, InStep
        <5>2. attOf'[r] # k
          BY <1>1, <4>2, Moves, NoRowIsNoKey DEF RejectSave, Done, AttTyped
        <5>3. QED
          BY <3>2, <4>1, <5>1, <5>2 DEF InStep, UnderReview
      <4>3. CASE ApproveSave(r)
        <5>1. record[k] # "excused" /\ record' = record /\ excuse'[k] = "approved"
          BY <1>1, <3>1, <3>3, <4>3 DEF ApproveSave, InStep
        <5>2. attOf'[r] = k /\ attPc'[r] = "find"
          BY <1>1, <3>3, <4>3, Moves DEF ApproveSave, AttTyped
        <5>3. QED
          BY <3>2, <4>1, <5>1, <5>2 DEF InStep, UnderReview
      <4>4. CASE ApproveFind(r)
        <5>1. /\ record[k] # "excused" /\ excuse[k] = "approved"
              /\ record' = record /\ excuse' = excuse
          BY <3>1, <3>3, <4>4 DEF ApproveFind, InStep
        <5>2. attOf'[r] = k /\ attPc'[r] = IF record[k] # "none" THEN "update" ELSE "create"
          BY <1>1, <3>3, <4>4, Moves DEF ApproveFind, AttTyped
        <5>3. record[k] \in {"none", "present", "excused"}
          BY <1>1 DEF RecordStatus
        <5>4. QED
          BY <3>2, <4>1, <5>1, <5>2, <5>3 DEF InStep, UnderReview
      <4>5. CASE ApproveRecord(r)
        <5>1. excuse[k] = "approved" /\ excuse' = excuse /\ record'[k] = "excused"
          BY <1>1, <3>1, <3>3, <4>5 DEF ApproveRecord, InStep
        <5>2. attOf'[r] # k
          BY <1>1, <4>5, Moves, NoRowIsNoKey DEF ApproveRecord, Done, AttTyped
        <5>3. QED
          BY <3>2, <4>1, <5>1, <5>2 DEF InStep, UnderReview
      <4>6. QED
        BY <1>8, <4>2, <4>3, <4>4, <4>5 DEF ReviewStep
    <3>4. CASE k # j
      <4>1. attOf[r] # k /\ attOf'[r] # k
        BY <1>3, <2>1, <3>4, NoRowIsNoKey
      <4>2. UnderReview(k)' <=> UnderReview(k)
        BY <1>3, <4>1 DEF UnderReview, AttSlot
      <4>3. record'[k] = record[k] /\ excuse'[k] = excuse[k]
        BY <1>6, <3>4
      <4>4. InStep(k)'
        BY <1>3, <3>1, <4>1, <4>2, <4>3 DEF InStep, AttSlot
      <4>5. QED
        BY <3>2, <4>4
    <3>5. QED
      BY <3>3, <3>4
  <2>4. QED
    BY <2>2, <2>3 DEF StatsInv
<1>9. QED
  BY <1>7, <1>8

(* A failure: a review that fails leaves its row among the broken ones. *)
LEMMA AbortStats == ASSUME AttTyped, StatsInv, NEW s \in AttSlot, AttAbort(s) PROVE StatsInv'
<1>1. /\ attOf'[s] = NoRow /\ attPc'[s] = "idle"
      /\ \A q \in AttSlot : q # s => attPc'[q] = attPc[q] /\ attOf'[q] = attOf[q]
  BY Moves DEF AttAbort, Done, AttTyped
<1>2. /\ UNCHANGED <<record, excuse, contested>> /\ broken \subseteq broken'
      /\ s \in Reviewer => attOf[s] \in broken'
  BY DEF AttAbort
<1>3. ExcuseAsked'
  BY <1>1, <1>2, NoRowIsNoKey DEF StatsInv, ExcuseAsked, AttSlot
<1>4. ASSUME NEW k \in Key, k \notin contested' \cup broken' PROVE Alone(k)' /\ InStep(k)'
  <2>1. Alone(k) /\ InStep(k)
    BY <1>2, <1>4 DEF StatsInv
  <2>2. \A q \in Device \cup Reviewer : attOf'[q] = k => q # s /\ attOf[q] = k /\ attPc'[q] = attPc[q]
    BY <1>1, NoRowIsNoKey DEF AttSlot
  <2>3. UnderReview(k)' <=> UnderReview(k)
    BY <1>1, <1>2, <1>4, <2>2 DEF UnderReview, AttSlot
  <2>4. QED
    BY <1>2, <2>1, <2>2, <2>3 DEF Alone, InStep
<1>5. QED
  BY <1>3, <1>4 DEF StatsInv

LEMMA StatsStep == AttTyped /\ StatsInv /\ [AttNext]_attVars => StatsInv'
<1> SUFFICES ASSUME AttTyped, StatsInv, [AttNext]_attVars PROVE StatsInv'
  OBVIOUS
<1>1. ASSUME NEW t \in Teacher,
             OpenRead(t) \/ TeacherStep(t) \/ \E l \in Lesson : CloseRead(t, l)
      PROVE  StatsInv'
  <2>1. \E step, x : Goto(t, step, x)
    BY <1>1 DEF OpenRead, TeacherStep, OpenInsert, CloseSave, CloseRead, Done
  <2>2. \A s \in Device \cup Reviewer : attPc'[s] = attPc[s] /\ attOf'[s] = attOf[s]
    BY <2>1, Moves, AttendanceAssumption DEF AttTyped, AttSlot
  <2>3. UNCHANGED <<record, excuse, contested, broken>>
    BY <1>1 DEF OpenRead, TeacherStep, OpenInsert, CloseSave, CloseRead
  <2>4. QED
    BY <2>2, <2>3, StatsFrame
<1>2. CASE UNCHANGED attVars \/ \E l \in Timed : Expire(l)
  BY <1>2, StatsFrame DEF attVars, Expire
<1>3. ASSUME NEW s \in MayFail, AttAbort(s) PROVE StatsInv'
  BY <1>3, AbortStats, AttendanceAssumption DEF AttSlot
<1>4. QED
  BY <1>1, <1>2, <1>3, DeviceStats, ReviewStats DEF AttNext

(* The keys of one student and their sessions are as many. *)
LEMMA KeysOfSessions ==
    ASSUME NEW p \in Pupil, NEW L \in SUBSET Lesson, \A l \in L : <<l, p>> \in Key,
           NEW K, K = {k \in Key : k[1] \in L /\ k[2] = p}
    PROVE  Cardinality(K) = Cardinality(L)
<1> DEFINE f == [l \in L |-> <<l, p>>]
<1>1. \A k \in Key : k = <<k[1], k[2]>>
  BY AttendanceAssumption
<1>2. f \in [L -> K]
  OBVIOUS
<1>3. \A k \in K : k[1] \in L /\ f[k[1]] = k
  BY <1>1
<1>4. \A l, m \in L : f[l] = f[m] => l = m
  OBVIOUS
<1>5. f \in Bijection(L, K)
  BY <1>2, <1>3, <1>4 DEF Bijection, Injection, Surjection, IsInjective
<1>6. ExistsBijection(L, K)
  BY <1>5 DEF ExistsBijection
<1>7. IsFiniteSet(L)
  BY AttendanceAssumption, FS_Subset
<1>8. QED
  BY <1>6, <1>7, FS_Bijection

(* Disjoint finite sets add up. *)
LEMMA DisjointUnion ==
    ASSUME NEW S, NEW T, IsFiniteSet(S), IsFiniteSet(T), S \cap T = {}
    PROVE  Cardinality(S \cup T) = Cardinality(S) + Cardinality(T)
<1>1. Cardinality(S \cup T) = Cardinality(S) + Cardinality(T) - Cardinality(S \cap T)
  BY FS_Union
<1>2. Cardinality(S \cap T) = 0
  BY FS_EmptySet
<1>3. Cardinality(S) \in Nat /\ Cardinality(T) \in Nat
  BY FS_CardinalityType
<1>4. QED
  BY <1>1, <1>2, <1>3

(* getStudentAttendanceStats counts every session held exactly once, as present, excused or *)
(* missed, for a student none of whose reviews overlapped another request or failed half    *)
(* way (attendanceService.js:430-520, excuseController.js:230-330).                         *)
THEOREM StatisticsAddUp == AttSpec => []AbsencesAddUp
<1>1. AttTyped /\ StatsInv => AbsencesAddUp
  <2> SUFFICES ASSUME AttTyped, StatsInv, NEW p \in Pupil,
                      \A l \in Lesson : <<l, p>> \notin contested \cup broken /\ ~UnderReview(<<l, p>>)
               PROVE  Stats(p).total = Stats(p).counted + Cardinality(Missed(p))
    BY DEF AbsencesAddUp
  <2> DEFINE held == {l \in Lesson : session[l] \in {"active", "closed"}}
             Mine == {l \in Lesson : <<l, p>> \in Key}
             PL == {l \in held \cap Mine : record[<<l, p>>] = "present"}
             EL == {l \in held \cap Mine : excuse[<<l, p>>] = "approved"}
             PK == {k \in Key : k[1] \in held /\ k[2] = p /\ record[k] = "present"}
             EK == {k \in Key : k[1] \in held /\ k[2] = p /\ excuse[k] = "approved"}
  <2>1. /\ session \in [Lesson -> SessionStatus]
        /\ record \in [Key -> RecordStatus] /\ excuse \in [Key -> ExcuseStatus]
    BY DEF AttTyped, AttTypeOK
  <2>2. \A k \in Key : k = <<k[1], k[2]>> /\ k[1] \in Lesson
    BY AttendanceAssumption
  <2>3. \A l \in Mine : excuse[<<l, p>>] = "approved" <=> record[<<l, p>>] = "excused"
    BY DEF StatsInv, InStep
  <2>4. Cardinality(PK) = Cardinality(PL)
    <3>1. PK = {k \in Key : k[1] \in PL /\ k[2] = p}
      BY <2>2
    <3>2. PL \in SUBSET Lesson /\ \A l \in PL : <<l, p>> \in Key
      OBVIOUS
    <3> HIDE DEF PL, PK
    <3>3. QED
      BY <3>1, <3>2, KeysOfSessions
  <2>5. Cardinality(EK) = Cardinality(EL)
    <3>1. EK = {k \in Key : k[1] \in EL /\ k[2] = p}
      BY <2>2
    <3>2. EL \in SUBSET Lesson /\ \A l \in EL : <<l, p>> \in Key
      OBVIOUS
    <3> HIDE DEF EL, EK
    <3>3. QED
      BY <3>1, <3>2, KeysOfSessions
  <2>6. PL \cap EL = {}
    BY <2>3
  <2>7. (PL \cup EL) \cap Missed(p) = {}
    BY DEF Missed
  <2>8. held = (PL \cup EL) \cup Missed(p)
    <3>1. Missed(p) \subseteq held
      BY <2>1 DEF Missed, SessionStatus
    <3>2. ASSUME NEW l \in held PROVE l \in PL \cup EL \cup Missed(p)
      <4>1. CASE <<l, p>> \in Key
        <5>1. record[<<l, p>>] \in {"none", "present", "excused"}
          BY <2>1, <4>1 DEF RecordStatus
        <5>2. QED
          BY <2>3, <4>1, <5>1 DEF Missed
      <4>2. CASE <<l, p>> \notin Key
        BY <4>2 DEF Missed
      <4>3. QED
        BY <4>1, <4>2
    <3>3. QED
      BY <3>1, <3>2
  <2>9. /\ IsFiniteSet(PL) /\ IsFiniteSet(EL) /\ IsFiniteSet(Missed(p))
        /\ IsFiniteSet(PL \cup EL)
    <3>1. PL \subseteq Lesson /\ EL \subseteq Lesson /\ Missed(p) \subseteq Lesson
      BY DEF Missed
    <3>2. QED
      BY <3>1, AttendanceAssumption, FS_Subset, FS_Union
  <2>10. /\ Cardinality(PL) \in Nat /\ Cardinality(EL) \in Nat /\ Cardinality(Missed(p)) \in Nat
    BY <2>9, FS_CardinalityType
  <2>11. Cardinality(PL \cup EL) = Cardinality(PL) + Cardinality(EL)
    BY <2>6, <2>9, DisjointUnion
  <2>12. Cardinality(held) = Cardinality(PL) + Cardinality(EL) + Cardinality(Missed(p))
    <3>1. Cardinality((PL \cup EL) \cup Missed(p)) = Cardinality(PL \cup EL) + Cardinality(Missed(p))
      BY <2>7, <2>9, DisjointUnion
    <3> HIDE DEF PL, EL, held
    <3>2. QED
      BY <2>8, <2>11, <3>1
  <2>13. Stats(p) = [total |-> Cardinality(held), counted |-> Cardinality(PK) + Cardinality(EK)]
    BY DEF Stats
  <2>14. QED
    BY <2>4, <2>5, <2>10, <2>12, <2>13
<1>2. QED
  BY TypedAlways, StatsInit, StatsStep, <1>1, PTL DEF AttSpec

-----------------------------------------------------------------------------
(* Gradebook: the point of an enrolment is that of its average, its columns *)
(* are those its marks call for unless its last save was overlapped, and   *)
(* an entry served alone to its end leaves the CGPA of the rows.           *)

(* The floors are reached from below: for every average there is a highest *)
(* one that it reaches.                                                    *)
LEMMA LetterOf ==
    ASSUME NEW average \in Nat
    PROVE  LET l == calculateLetterGrade(average) IN
           /\ l \in DOMAIN Floor /\ Floor[l] <= average
           /\ \A k \in DOMAIN Floor : Floor[k] <= average => Floor[k] <= Floor[l]
<1>. DEFINE Best(l) == /\ Floor[l] <= average
                       /\ \A k \in DOMAIN Floor : Floor[k] <= average => Floor[k] <= Floor[l]
<1>1. DOMAIN Floor = {"AA", "BA", "BB", "CB", "CC", "DC", "DD", "FD", "FF"}
  BY DEF Floor
<1>2. /\ Floor["AA"] = 900 /\ Floor["BA"] = 850 /\ Floor["BB"] = 800 /\ Floor["CB"] = 750 
      /\ Floor["CC"] = 700 /\ Floor["DC"] = 650 /\ Floor["DD"] = 600 /\ Floor["FD"] = 500
      /\ Floor["FF"] = 0
  BY DEF Floor
<1>3. \E l \in DOMAIN Floor : Best(l)
  <2>1. CASE average >= 900  BY <1>1, <1>2, <2>1
  <2>2. CASE average \in 850 .. 899  BY <1>1, <1>2, <2>2
  <2>3. CASE average \in 800 .. 849  BY <1>1, <1>2, <2>3
  <2>4. CASE average \in 750 .. 799  BY <1>1, <1>2, <2>4
  <2>5. CASE average \in 700 .. 749  BY <1>1, <1>2, <2>5
  <2>6. CASE average \in 650 .. 699  BY <1>1, <1>2, <2>6
  <2>7. CASE average \in 600 .. 649  BY <1>1, <1>2, <2>7
  <2>8. CASE average \in 500 .. 599  BY <1>1, <1>2, <2>8
  <2>9. CASE average \in 0 .. 499  BY <1>1, <1>2, <2>9
  <2>. QED  BY <2>1, <2>2, <2>3, <2>4, <2>5, <2>6, <2>7, <2>8, <2>9
<1>4. calculateLetterGrade(average) = CHOOSE l \in DOMAIN Floor : Best(l)
  BY DEF calculateLetterGrade
<1>. HIDE DEF Best
<1>5. calculateLetterGrade(average) \in DOMAIN Floor /\ Best(calculateLetterGrade(average))
  BY <1>3, <1>4
<1>. QED  BY <1>5 DEF Best

(* A higher floor earns more points, and two points are earned from 60 on. *)
LEMMA PointsFollowFloors ==
    /\ DOMAIN gradePoints = DOMAIN Floor
    /\ \A l \in DOMAIN Floor : gradePoints[l] \in 0 .. 8 /\ Floor[l] \in 0 .. 900
                               /\ (gradePoints[l] >= 2 <=> Floor[l] >= 600) /\ l \in Letters
    /\ \A k, l \in DOMAIN Floor : Floor[k] <= Floor[l] => gradePoints[k] <= gradePoints[l]
BY DEF gradePoints, Floor, Letters

-----------------------------------------------------------------------------
(* The columns of one enrolment *)

Averages == -1 .. 1000
Points == -1 .. 8
Statuses == {"enrolled", "completed", "failed"}
RowSet == [midterm : Mark, final : Mark, homework : Mark, average : Averages,
           letter : Letters, point : Points, status : Statuses]

Explained(row) ==
    row.midterm # -1 /\ row.final # -1 =>
        /\ row.average = Weighted(row.midterm, row.final, row.homework)
        /\ row.letter \in DOMAIN Floor /\ row.point = gradePoints[row.letter]
        /\ row.status = IF row.point >= 2 THEN "completed" ELSE "failed"

(* A weighted average of marks out of 100 is, in tenths, at most 1000, and *)
(* the sum of doubles is it or, on a floor above 0, a tenth less.          *)
LEMMA AverageRange ==
    ASSUME NEW m \in Mark, NEW f \in Mark, NEW h \in Mark, m # -1, f # -1
    PROVE  /\ Weighted(m, f, h) \in 0 .. 1000 /\ calculateAverageGrade(m, f, h) \in 0 .. 1000
           /\ calculateAverageGrade(m, f, h) \in {Weighted(m, f, h), Weighted(m, f, h) - 1}
<1>1. Weighted(m, f, h) \in 0 .. 1000
  BY DEF Mark, Weighted
<1>2. ASSUME <<m, f, h>> \in RoundedDown
      PROVE  Weighted(m, f, h) >= 1
  <2>1. PICK l \in DOMAIN Floor \ {"FF"} : Weighted(m, f, h) = Floor[l]
    BY <1>2, RoundingAssumption DEF RoundingAssumption
  <2>2. \A k \in DOMAIN Floor \ {"FF"} : Floor[k] >= 1
    BY DEF Floor
  <2>. QED  BY <2>1, <2>2
<1>3. PICK w \in 0 .. 1000 : w = Weighted(m, f, h)
  BY <1>1
<1>. QED  BY <1>2, <1>3 DEF calculateAverageGrade

(* The point of the letter looked up is one the average explains.          *)
LEMMA LetterIsExplained ==
    ASSUME NEW m \in Mark, NEW f \in Mark, NEW h \in Mark, m # -1, f # -1,
           NEW row \in RowSet, row.average = Weighted(m, f, h),
           row.point = gradePoints[calculateLetterGrade(calculateAverageGrade(m, f, h))]
    PROVE  PointExplained(row)
<1>0. PICK w, c : w = Weighted(m, f, h) /\ c = calculateAverageGrade(m, f, h)
  OBVIOUS
<1>1. w \in 0 .. 1000 /\ c \in 0 .. 1000 /\ c \in {w, w - 1}
  BY <1>0, AverageRange
<1>2. w \in Int /\ c \in Nat /\ (c = w \/ c = w - 1)
  BY <1>1
<1>3. PICK l : l = calculateLetterGrade(c)
  OBVIOUS
<1>4. /\ l \in DOMAIN Floor /\ Floor[l] <= c
      /\ \A k \in DOMAIN Floor : Floor[k] <= c => Floor[k] <= Floor[l]
  BY <1>2, <1>3, LetterOf
<1>5. \A k \in DOMAIN Floor : Floor[k] \in Int
  BY PointsFollowFloors
<1>6. Floor[l] <= w /\ \A k \in DOMAIN Floor : Floor[k] < w => Floor[k] <= Floor[l]
  BY <1>2, <1>4, <1>5
<1>7. row.average = w /\ row.point = gradePoints[l]
  BY <1>0, <1>3
<1>. QED  BY <1>4, <1>6, <1>7 DEF PointExplained

(* A row with one column set is a row, and rows differ in some column.     *)
LEMMA RowColumns ==
    /\ \A row \in RowSet, x \in Mark :
          /\ [row EXCEPT !.midterm = x] \in RowSet
          /\ [row EXCEPT !.final = x] \in RowSet
          /\ [row EXCEPT !.homework = x] \in RowSet
    /\ \A row \in RowSet, x \in Averages : [row EXCEPT !.average = x] \in RowSet
    /\ \A row \in RowSet, x \in Letters : [row EXCEPT !.letter = x] \in RowSet
    /\ \A row \in RowSet, x \in Points : [row EXCEPT !.point = x] \in RowSet
    /\ \A row \in RowSet, x \in Statuses :
          [row EXCEPT !.status = x] \in RowSet
<1>1. \A row \in RowSet, x \in Mark :
          /\ [row EXCEPT !.midterm = x] \in RowSet
          /\ [row EXCEPT !.final = x] \in RowSet
          /\ [row EXCEPT !.homework = x] \in RowSet
  BY DEF RowSet
<1>2. \A row \in RowSet, x \in Averages : [row EXCEPT !.average = x] \in RowSet
  BY DEF RowSet
<1>3. \A row \in RowSet, x \in Letters : [row EXCEPT !.letter = x] \in RowSet
  BY DEF RowSet
<1>4. \A row \in RowSet, x \in Points : [row EXCEPT !.point = x] \in RowSet
  BY DEF RowSet
<1>5. \A row \in RowSet, x \in Statuses :
          [row EXCEPT !.status = x] \in RowSet
  BY DEF RowSet
<1>. QED  BY <1>1, <1>2, <1>3, <1>4, <1>5
LEMMA SameRow ==
    ASSUME NEW q \in RowSet, NEW r \in RowSet, q.midterm = r.midterm, q.final = r.final,
           q.homework = r.homework, q.average = r.average, q.letter = r.letter,
           q.point = r.point, q.status = r.status
    PROVE  q = r
BY DEF RowSet

(* The marks of a request are set in the row that was read.                *)
LEMMA MarksSet ==
    ASSUME NEW row \in RowSet, NEW marks \in Entered, GradebookAssumption
    PROVE  LET r == WithMarks(row, marks) IN
           /\ r \in RowSet
           /\ r.midterm = Given(marks.midterm, row.midterm)
           /\ r.final = Given(marks.final, row.final)
           /\ r.homework = Given(marks.homework, row.homework)
           /\ r.average = row.average /\ r.letter = row.letter
           /\ r.point = row.point /\ r.status = row.status
<1>0. \A x, y \in Mark : Given(x, y) \in Mark
  BY DEF Given
<1>01. /\ marks.midterm \in Mark /\ marks.final \in Mark /\ marks.homework \in Mark
      /\ row.midterm \in Mark /\ row.final \in Mark /\ row.homework \in Mark
  BY DEF GradebookAssumption, RowSet, Mark
<1>02. PICK m, f, h : /\ m = Given(marks.midterm, row.midterm) /\ f = Given(marks.final, row.final)
                     /\ h = Given(marks.homework, row.homework)
  OBVIOUS
<1>1. m \in Mark /\ f \in Mark /\ h \in Mark
  BY <1>0, <1>01, <1>02
<1>2. PICK r1 : r1 = [row EXCEPT !.midterm = m]
  OBVIOUS
<1>3. PICK r2 : r2 = [r1 EXCEPT !.final = f]
  OBVIOUS
<1>4. WithMarks(row, marks) = [r2 EXCEPT !.homework = h]
  BY <1>02, <1>2, <1>3 DEF WithMarks
<1>5. r1 \in RowSet
  BY <1>1, <1>2, RowColumns
<1>6. r2 \in RowSet
  BY <1>1, <1>3, <1>5, RowColumns
<1>7. PICK r : r = WithMarks(row, marks)
  OBVIOUS
<1>8. r \in RowSet
  <2>1. r = [r2 EXCEPT !.homework = h]
    BY <1>4, <1>7
  <2>. QED  BY <1>1, <1>6, <2>1, RowColumns
<1>9. /\ r.midterm = m /\ r.final = f /\ r.homework = h /\ r.average = row.average
      /\ r.letter = row.letter /\ r.point = row.point /\ r.status = row.status
  BY <1>2, <1>3, <1>4, <1>7 DEF RowSet
<1>. QED  BY <1>02, <1>7, <1>8, <1>9

(* What is computed for a row that has both marks.                         *)
LEMMA LetterSet ==
    ASSUME NEW r \in RowSet, r.midterm # -1, r.final # -1
    PROVE  LET q == WithLetter(r, r.midterm, r.final, r.homework) IN
           /\ q \in RowSet /\ Explained(q) /\ PointExplained(q)
           /\ q.midterm = r.midterm /\ q.final = r.final /\ q.homework = r.homework
<1>1. PICK m \in Mark, f \in Mark, h \in Mark : m = r.midterm /\ f = r.final /\ h = r.homework
  BY DEF RowSet
<1>2. PICK w : w = Weighted(m, f, h)
  OBVIOUS
<1>3. PICK l : l = calculateLetterGrade(calculateAverageGrade(m, f, h))
  OBVIOUS
<1>4. PICK p : p = gradePoints[l]
  OBVIOUS
<1>5. PICK st : st = IF p >= 2 THEN "completed" ELSE "failed"
  OBVIOUS
<1>6. w \in Averages /\ l \in DOMAIN Floor
  <2>1. PICK c : c = calculateAverageGrade(m, f, h)
    OBVIOUS
  <2>2. w \in 0 .. 1000 /\ c \in 0 .. 1000
    <3>1. m # -1 /\ f # -1
      BY <1>1
    <3>2. Weighted(m, f, h) \in 0 .. 1000 /\ calculateAverageGrade(m, f, h) \in 0 .. 1000
      BY <3>1, AverageRange
    <3>. QED  BY <1>2, <2>1, <3>2
  <2>3. w \in Averages /\ c \in Nat
    BY <2>2 DEF Averages
  <2>. QED  BY <1>3, <2>1, <2>3, LetterOf
<1>7. l \in Letters /\ p \in Points /\ st \in Statuses
  BY <1>4, <1>5, <1>6, PointsFollowFloors DEF Points, Statuses
<1>8. PICK r1 : r1 = [r EXCEPT !.average = w]
  OBVIOUS
<1>9. PICK r2 : r2 = [r1 EXCEPT !.letter = l]
  OBVIOUS
<1>10. PICK r3 : r3 = [r2 EXCEPT !.point = p]
  OBVIOUS
<1>11. PICK q : q = WithLetter(r, r.midterm, r.final, r.homework)
  OBVIOUS
<1>12. q = [r3 EXCEPT !.status = st]
  BY <1>1, <1>2, <1>3, <1>4, <1>5, <1>8, <1>9, <1>10, <1>11 DEF WithLetter
<1>13. r1 \in RowSet /\ r2 \in RowSet /\ r3 \in RowSet /\ q \in RowSet
  BY <1>6, <1>7, <1>8, <1>9, <1>10, <1>12, RowColumns
<1>14. /\ q.midterm = m /\ q.final = f /\ q.homework = h /\ q.average = w
       /\ q.letter = l /\ q.point = p /\ q.status = st
  BY <1>1, <1>8, <1>9, <1>10, <1>12, <1>13 DEF RowSet
<1>15. Explained(q)
  BY <1>2, <1>4, <1>5, <1>6, <1>14 DEF Explained
<1>16. PointExplained(q)
  BY <1>1, <1>2, <1>3, <1>4, <1>13, <1>14, LetterIsExplained
<1>. QED  BY <1>1, <1>11, <1>13, <1>14, <1>15, <1>16

(* What updateGrades computes is consistent, whatever was stored before.   *)
LEMMA GradedIsExplained ==
    ASSUME NEW row \in RowSet, NEW marks \in Entered, GradebookAssumption
    PROVE  LET q == Graded(row, marks) IN
           /\ q \in RowSet /\ Explained(q)
           /\ q.midterm # -1 /\ q.final # -1 => PointExplained(q)
           /\ q.midterm = Given(marks.midterm, row.midterm)
           /\ q.final = Given(marks.final, row.final)
           /\ q.homework = Given(marks.homework, row.homework)
           /\ q.midterm = -1 \/ q.final = -1 =>
                 /\ q.average = row.average /\ q.point = row.point
                 /\ q.letter = row.letter /\ q.status = row.status
<1>1. PICK r \in RowSet :
          /\ r = WithMarks(row, marks)
          /\ r.midterm = Given(marks.midterm, row.midterm)
          /\ r.final = Given(marks.final, row.final)
          /\ r.homework = Given(marks.homework, row.homework)
          /\ r.average = row.average /\ r.letter = row.letter
          /\ r.point = row.point /\ r.status = row.status
  BY MarksSet
<1>2. Graded(row, marks) = IF r.midterm = -1 \/ r.final = -1 THEN r
                           ELSE WithLetter(r, r.midterm, r.final, r.homework)
  BY <1>1 DEF Graded
<1>3. CASE r.midterm = -1 \/ r.final = -1
  BY <1>1, <1>2, <1>3 DEF Explained
<1>4. CASE ~(r.midterm = -1 \/ r.final = -1)
  <2>1. PICK q : q = WithLetter(r, r.midterm, r.final, r.homework)
    OBVIOUS
  <2>2. /\ q \in RowSet /\ Explained(q) /\ PointExplained(q)
        /\ q.midterm = r.midterm /\ q.final = r.final /\ q.homework = r.homework
    BY <1>4, <2>1, LetterSet
  <2>3. Graded(row, marks) = q
    BY <1>2, <1>4, <2>1
  <2>. QED  BY <1>1, <1>4, <2>2, <2>3
<1>. QED  BY <1>3, <1>4

(* The UPDATE of a row that did not change since it was read leaves what   *)
(* was computed; a row that did change stays one whose average explains    *)
(* its point, as the two columns are written together or not at all.       *)
LEMMA SavedRow ==
    ASSUME NEW now \in RowSet, NEW read \in RowSet, NEW marks \in Entered, GradebookAssumption
    PROVE  /\ Saved(now, read, marks, Graded(read, marks)) \in RowSet
           /\ Saved(now, now, marks, Graded(now, marks)) = Graded(now, marks)
           /\ (now.average # -1 => PointExplained(now)) =>
                 LET q == Saved(now, read, marks, Graded(read, marks)) IN
                 q.average # -1 => PointExplained(q)
<1>1. PICK new \in RowSet : new = Graded(read, marks)
  BY GradedIsExplained
<1>2. \A x, y \in Mark : Given(x, y) \in Mark
  BY DEF Given
<1>3. marks.midterm \in Mark /\ marks.final \in Mark /\ marks.homework \in Mark
  BY DEF GradebookAssumption, Mark
<1>4. ASSUME NEW old \in RowSet, NEW fresh \in RowSet
      PROVE  Saved(now, old, marks, fresh) \in RowSet
  <2>1. PICK r1 : r1 = [now EXCEPT !.midterm = Given(marks.midterm, @)]
    OBVIOUS
  <2>2. PICK r2 : r2 = [r1 EXCEPT !.final = Given(marks.final, @)]
    OBVIOUS
  <2>3. PICK r3 : r3 = [r2 EXCEPT !.homework = Given(marks.homework, @)]
    OBVIOUS
  <2>4. PICK r4 : r4 = [r3 EXCEPT !.average = IF fresh.midterm # -1 /\ fresh.final # -1 THEN fresh.average ELSE @]
    OBVIOUS
  <2>5. PICK r5 : r5 = [r4 EXCEPT !.point = IF fresh.midterm # -1 /\ fresh.final # -1 THEN fresh.point ELSE @]
    OBVIOUS
  <2>6. PICK r6 : r6 = [r5 EXCEPT !.letter = IF fresh.letter = old.letter THEN @ ELSE fresh.letter]
    OBVIOUS
  <2>7. Saved(now, old, marks, fresh)
          = [r6 EXCEPT !.status = IF fresh.status = old.status THEN @ ELSE fresh.status]
    BY <2>1, <2>2, <2>3, <2>4, <2>5, <2>6 DEF Saved
  <2>8. \A r \in RowSet : /\ r.midterm \in Mark /\ r.final \in Mark /\ r.homework \in Mark
                         /\ r.average \in Averages /\ r.letter \in Letters /\ r.point \in Points
                         /\ r.status \in Statuses
    BY DEF RowSet
  <2>9. r1 \in RowSet
    BY <1>2, <1>3, <2>1, <2>8, RowColumns
  <2>10. r2 \in RowSet
    BY <1>2, <1>3, <2>2, <2>8, <2>9, RowColumns
  <2>11. r3 \in RowSet
    BY <1>2, <1>3, <2>3, <2>8, <2>10, RowColumns
  <2>12. r4 \in RowSet
    BY <2>4, <2>8, <2>11, RowColumns
  <2>13. r5 \in RowSet
    BY <2>5, <2>8, <2>12, RowColumns
  <2>14. r6 \in RowSet
    BY <2>6, <2>8, <2>13, RowColumns
  <2>. QED  BY <2>7, <2>8, <2>14, RowColumns
<1>5. Saved(now, now, marks, Graded(now, marks)) = Graded(now, marks)
  <2>1. PICK q \in RowSet : q = Graded(now, marks)
    BY GradedIsExplained
  <2>2. PICK r : r = Saved(now, now, marks, q)
    OBVIOUS
  <2>3. r \in RowSet
    BY <1>1, <1>4, <2>1, <2>2
  <2>4. /\ q.midterm = Given(marks.midterm, now.midterm)
        /\ q.final = Given(marks.final, now.final)
        /\ q.homework = Given(marks.homework, now.homework)
        /\ q.midterm = -1 \/ q.final = -1 =>
              q.average = now.average /\ q.point = now.point
    BY <2>1, GradedIsExplained
  <2>5. /\ r.midterm = Given(marks.midterm, now.midterm)
        /\ r.final = Given(marks.final, now.final)
        /\ r.homework = Given(marks.homework, now.homework)
        /\ r.average = IF q.midterm # -1 /\ q.final # -1 THEN q.average ELSE now.average
        /\ r.point = IF q.midterm # -1 /\ q.final # -1 THEN q.point ELSE now.point
        /\ r.letter = IF q.letter = now.letter THEN now.letter ELSE q.letter
        /\ r.status = IF q.status = now.status THEN now.status ELSE q.status
    BY <2>2 DEF Saved, RowSet
  <2>6. q = r
    BY <2>1, <2>3, <2>4, <2>5, SameRow
  <2>. QED  BY <2>1, <2>2, <2>6
<1>6. ASSUME now.average # -1 => PointExplained(now)
      PROVE  LET q == Saved(now, read, marks, Graded(read, marks)) IN
             q.average # -1 => PointExplained(q)
  <2>1. PICK q : q = Saved(now, read, marks, new)
    OBVIOUS
  <2>2. /\ q.average = IF new.midterm # -1 /\ new.final # -1 THEN new.average ELSE now.average
        /\ q.point = IF new.midterm # -1 /\ new.final # -1 THEN new.point ELSE now.point
    BY <2>1 DEF Saved, RowSet
  <2>3. new.midterm # -1 /\ new.final # -1 => PointExplained(new)
    BY <1>1, GradedIsExplained
  <2>4. q.average # -1 => PointExplained(q)
    BY <1>6, <2>2, <2>3 DEF PointExplained
  <2>. QED  BY <1>1, <2>1, <2>4
<1>. QED  BY <1>1, <1>4, <1>5, <1>6

(* The sum over no enrolment is 0. *)
LEMMA EmptySum ==
    ASSUME NEW f, DOMAIN f = {}
    PROVE  SumFunction(f) = 0
<1>. DEFINE Step(iter, s) == IF s = {} THEN 0
                             ELSE f[CHOOSE x \in s : TRUE] + iter[s \ {CHOOSE x \in s : TRUE}]
            fold == CHOOSE iter : iter = [s \in SUBSET {} |-> Step(iter, s)]
<1>1. SumFunction(f) = fold[{}]
  BY DEF SumFunction, SumFunctionOnSet, FoldFunctionOnSet, MapThenFoldSet
<1>2. \E iter : iter = [s \in SUBSET {} |-> Step(iter, s)]
  <2>1. [s \in SUBSET {} |-> 0] = [s \in SUBSET {} |-> Step([t \in SUBSET {} |-> 0], s)]
    OBVIOUS
  <2>. HIDE DEF Step
  <2>. QED  BY <2>1
<1>3. fold = [s \in SUBSET {} |-> Step(fold, s)]
  <2>. HIDE DEF Step
  <2>. QED  BY <1>2
<1>. HIDE DEF fold
<1>. QED  BY <1>1, <1>3

-----------------------------------------------------------------------------
(* The inductive invariant *)

EntryTyped(e) ==
    /\ DOMAIN e = {"todo", "marks", "at", "row", "gpa"}
    /\ e.todo \subseteq GradeRow /\ e.row \in RowSet

Working(g) == grPc[g] \in {"save", "calculate", "update"}

GradeTyped ==
    /\ grades \in [GradeRow -> RowSet]
    /\ cgpa = [s \in Graduand |-> cgpa[s]]
    /\ grPc \in [Grader -> {"idle", "read", "save", "calculate", "update"}]
    /\ grOf = [g \in Grader |-> grOf[g]]
    /\ \A g \in Grader : EntryTyped(grOf[g])
    /\ \A g \in Grader : grPc[g] # "idle" => grOf[g].marks \in Entered
    /\ \A g \in Grader : Working(g) => grOf[g].at \in GradeRow

(* At most one request is being served. *)
ServedAlone == \A g, o \in Grader : grPc[g] # "idle" /\ grPc[o] # "idle" => g = o

(* What a request read is still what is stored. *)
EntryIsCurrent ==
    /\ \A g \in Grader : grPc[g] = "save" => grOf[g].row = grades[grOf[g].at]
    /\ \A g \in Grader, s \in Graduand :
          grPc[g] = "update" /\ OwnerOf[grOf[g].at] = s => grOf[g].gpa = calculateCGPA(s)

(* One request at a time, and what it read is current, unless the latest   *)
(* one began while another was being served.                               *)
AloneIsCurrent == ~overlapped => ServedAlone /\ EntryIsCurrent

RowsExplainedInv ==
    /\ \A r \in GradeRow : grades[r].average # -1 => PointExplained(grades[r])
    /\ \A r \in intact : Explained(grades[r])

GradeInv ==
    /\ GradeTyped
    /\ intact \subseteq GradeRow /\ settled \subseteq Graduand
    /\ AloneIsCurrent /\ RowsExplainedInv /\ CgpaRepaired

LEMMA GradeInvInit == GradebookAssumption /\ GradeInit => GradeInv
<1>. SUFFICES ASSUME GradebookAssumption, GradeInit
              PROVE  GradeInv
  OBVIOUS
<1>. USE DEF GradeInit
<1>1. /\ Ungraded \in RowSet /\ Ungraded.midterm = -1 /\ Ungraded.average = -1
      /\ Ungraded.status = "enrolled"
  BY DEF Ungraded, RowSet, Mark, Averages, Letters, Points, Statuses
<1>2. EntryTyped(IdleEntry)
  BY <1>1 DEF EntryTyped, IdleEntry
<1>3. GradeTyped
  BY <1>1, <1>2 DEF GradeTyped, Working
<1>4. \A s \in Graduand : calculateCGPA(s) = <<0, 0>>
  <2>. SUFFICES ASSUME NEW s \in Graduand
                PROVE  calculateCGPA(s) = <<0, 0>>
    OBVIOUS
  <2>1. Counted(s) = {}
    BY <1>1 DEF Counted
  <2>2. \A f : DOMAIN f = {} => SumFunction(f) = 0
    BY EmptySum
  <2>3. /\ SumFunction([r \in Counted(s) |-> grades[r].point * CreditsOf[r]]) = 0
        /\ SumFunction([r \in Counted(s) |-> CreditsOf[r]]) = 0
    BY <2>1, <2>2
  <2>. QED  BY <2>3 DEF calculateCGPA
<1>5. RowsExplainedInv
  BY <1>1 DEF Explained, RowsExplainedInv
<1>6. CgpaRepaired /\ AloneIsCurrent
  BY <1>4 DEF CgpaRepaired, AloneIsCurrent, ServedAlone, EntryIsCurrent
<1>. QED  BY <1>3, <1>5, <1>6 DEF GradeInv

(* What a student's CGPA is computed from are that student's rows.         *)
LEMMA CgpaOfOwnRows ==
    ASSUME GradeTyped, NEW s \in Graduand, grades' \in [GradeRow -> RowSet],
           \A r \in GradeRow : OwnerOf[r] = s => grades'[r] = grades[r]
    PROVE  calculateCGPA(s)' = calculateCGPA(s)
<1>1. Counted(s)' = Counted(s)
  BY DEF Counted
<1>2. [r \in Counted(s) |-> grades[r].point * CreditsOf[r]]'
        = [r \in Counted(s) |-> grades[r].point * CreditsOf[r]]
  BY <1>1 DEF Counted
<1>3. [r \in Counted(s) |-> CreditsOf[r]]' = [r \in Counted(s) |-> CreditsOf[r]]
  BY <1>1
<1>. QED  BY <1>2, <1>3 DEF calculateCGPA

(* A slot moves on: the typing of the slots and that it stays alone.       *)
LEMMA SlotMoves ==
    ASSUME GradeTyped, NEW g \in Grader,
           NEW step \in {"idle", "read", "save", "calculate", "update"}, NEW e,
           GrGoto(g, step, e), EntryTyped(e),
           step # "idle" => e.marks \in Entered,
           step \in {"save", "calculate", "update"} => e.at \in GradeRow,
           grades' \in [GradeRow -> RowSet], cgpa' = [s \in Graduand |-> cgpa'[s]]
    PROVE  /\ GradeTyped'
           /\ grPc'[g] = step /\ grOf'[g] = e
           /\ \A o \in Grader : o # g => grPc'[o] = grPc[o] /\ grOf'[o] = grOf[o]
<1>1. /\ grPc' \in [Grader -> {"idle", "read", "save", "calculate", "update"}]
      /\ grOf' = [o \in Grader |-> grOf'[o]]
      /\ grPc'[g] = step /\ grOf'[g] = e
      /\ \A o \in Grader : o # g => grPc'[o] = grPc[o] /\ grOf'[o] = grOf[o]
  BY DEF GradeTyped, GrGoto
<1>2. \A o \in Grader : EntryTyped(grOf'[o])
  BY <1>1 DEF GradeTyped
<1>. QED  BY <1>1, <1>2 DEF GradeTyped, EntryTyped, Working

(* After an enrolment the slot is free or reads the next one.              *)
LEMMA NextEntry ==
    ASSUME GradebookAssumption, GradeTyped, NEW g \in Grader, Working(g), EntryNext(g)
    PROVE  \E step \in {"idle", "read"} : \E e :
              /\ GrGoto(g, step, e) /\ EntryTyped(e)
              /\ step # "idle" => e.marks \in Entered
<1>1. Ungraded \in RowSet
  BY DEF Ungraded, RowSet, Mark, Averages, Letters, Points, Statuses
<1>2. EntryTyped(IdleEntry)
  BY <1>1 DEF EntryTyped, IdleEntry
<1>. DEFINE rest == grOf[g].todo \ {grOf[g].at}
            e == [IdleEntry EXCEPT !.todo = rest, !.marks = grOf[g].marks]
<1>3. grOf[g].marks \in Entered /\ rest \subseteq GradeRow
  BY DEF GradeTyped, Working, EntryTyped
<1>4. EntryTyped(e) /\ e.marks = grOf[g].marks
  BY <1>1, <1>3 DEF EntryTyped, IdleEntry
<1>5. GrGoto(g, "idle", IdleEntry) \/ GrGoto(g, "read", e)
  BY DEF EntryNext
<1>. HIDE DEF e
<1>. QED  BY <1>2, <1>3, <1>4, <1>5
(* Where rows and CGPA do not change, what was explained and repaired is. *)
LEMMA RecordsKept ==
    ASSUME GradebookAssumption, GradeInv, GradeTyped', UNCHANGED <<grades, cgpa>>,
           intact' = intact, settled' = settled, AloneIsCurrent'
    PROVE  GradeInv'
<1>1. \A s \in Graduand : calculateCGPA(s)' = calculateCGPA(s)
  BY CgpaOfOwnRows DEF GradeInv, GradeTyped
<1>2. RowsExplainedInv'
  BY DEF GradeInv, RowsExplainedInv
<1>3. CgpaRepaired'
  BY <1>1 DEF GradeInv, CgpaRepaired
<1>. QED  BY <1>2, <1>3 DEF GradeInv

(* A request that starts while another is served is overlapped, and so is  *)
(* that other one from then on.                                            *)
LEMMA EntryStartStep ==
    ASSUME GradebookAssumption, GradeInv, NEW g \in Grader, NEW batches,
           \A rows \in batches : rows \subseteq GradeRow, EntryStart(g, batches)
    PROVE  GradeInv'
<1>1. GradeTyped
  BY DEF GradeInv
<1>2. PICK rows \in batches, marks \in Entered :
          GrGoto(g, "read", [IdleEntry EXCEPT !.todo = rows, !.marks = marks])
  BY DEF EntryStart
<1>3. PICK e : e = [IdleEntry EXCEPT !.todo = rows, !.marks = marks]
  OBVIOUS
<1>4. EntryTyped(e) /\ e.marks \in Entered
  <2>1. Ungraded \in RowSet
    BY DEF Ungraded, RowSet, Mark, Averages, Letters, Points, Statuses
  <2>. QED  BY <1>3, <2>1 DEF EntryTyped, IdleEntry
<1>5. /\ grPc[g] = "idle" /\ UNCHANGED <<grades, cgpa, intact, settled>>
      /\ overlapped' = \E o \in Grader : grPc[o] # "idle"
  BY DEF EntryStart
<1>6. /\ GradeTyped'
      /\ grPc'[g] = "read" /\ grOf'[g] = e
      /\ \A o \in Grader : o # g => grPc'[o] = grPc[o] /\ grOf'[o] = grOf[o]
  <2>1. grades' \in [GradeRow -> RowSet] /\ cgpa' = [s \in Graduand |-> cgpa'[s]]
    BY <1>1, <1>5 DEF GradeTyped
  <2>2. "read" \in {"idle", "read", "save", "calculate", "update"}
        /\ "read" \notin {"save", "calculate", "update"} /\ GrGoto(g, "read", e)
    BY <1>2, <1>3
  <2>. QED  BY <1>1, <1>4, <2>1, <2>2, SlotMoves
<1>7. AloneIsCurrent'
  <2>. SUFFICES ASSUME ~overlapped'
                PROVE  (ServedAlone /\ EntryIsCurrent)'
    BY DEF AloneIsCurrent
  <2>1. \A o \in Grader : o # g => grPc'[o] = "idle"
    BY <1>5, <1>6
  <2>. QED  BY <1>6, <2>1 DEF ServedAlone, EntryIsCurrent
<1>. QED  BY <1>5, <1>6, <1>7, RecordsKept

LEMMA EntryReadStep ==
    ASSUME GradebookAssumption, GradeInv, NEW g \in Grader, EntryRead(g)
    PROVE  GradeInv'
<1>1. GradeTyped
  BY DEF GradeInv
<1>2. grPc[g] = "read" /\ UNCHANGED <<grades, cgpa, overlapped, intact, settled>>
  BY DEF EntryRead
<1>3. PICK r \in grOf[g].todo : GrGoto(g, "save", [grOf[g] EXCEPT !.at = r, !.row = grades[r]])
  BY DEF EntryRead
<1>4. PICK e : e = [grOf[g] EXCEPT !.at = r, !.row = grades[r]]
  OBVIOUS
<1>5. EntryTyped(e) /\ e.marks \in Entered /\ e.at = r /\ r \in GradeRow /\ e.row = grades[r]
  BY <1>1, <1>2, <1>3, <1>4 DEF GradeTyped, EntryTyped
<1>6. /\ GradeTyped'
      /\ grPc'[g] = "save" /\ grOf'[g] = e
      /\ \A o \in Grader : o # g => grPc'[o] = grPc[o] /\ grOf'[o] = grOf[o]
  <2>1. grades' \in [GradeRow -> RowSet] /\ cgpa' = [s \in Graduand |-> cgpa'[s]]
    BY <1>1, <1>2 DEF GradeTyped
  <2>2. "save" \in {"idle", "read", "save", "calculate", "update"} /\ GrGoto(g, "save", e)
    BY <1>3, <1>4
  <2>. QED  BY <1>1, <1>5, <2>1, <2>2, SlotMoves
<1>7. AloneIsCurrent'
  <2>. SUFFICES ASSUME ~overlapped
                PROVE  (ServedAlone /\ EntryIsCurrent)'
    BY <1>2 DEF AloneIsCurrent
  <2>1. \A o \in Grader : o # g => grPc[o] = "idle" /\ grPc'[o] = "idle"
    BY <1>2, <1>6 DEF GradeInv, AloneIsCurrent, ServedAlone
  <2>. QED  BY <1>2, <1>5, <1>6, <2>1 DEF ServedAlone, EntryIsCurrent
<1>. QED  BY <1>2, <1>6, <1>7, RecordsKept

LEMMA EntrySaveStep ==
    ASSUME GradebookAssumption, GradeInv, NEW g \in Grader, EntrySave(g)
    PROVE  GradeInv'
<1>1. GradeTyped
  BY DEF GradeInv
<1>2. PICK of : of = grOf[g]
  OBVIOUS
<1>3. /\ grPc[g] = "save" /\ UNCHANGED <<cgpa, overlapped>>
      /\ grades' = [grades EXCEPT ![of.at] = Saved(@, of.row, of.marks, Graded(of.row, of.marks))]
      /\ intact' = IF overlapped THEN intact \ {of.at} ELSE intact \cup {of.at}
      /\ GrGoto(g, "calculate", [of EXCEPT !.row = Ungraded])
      /\ settled' = settled \ {OwnerOf[of.at]}
  BY <1>2 DEF EntrySave, AfterSave
<1>4. PICK e : e = [of EXCEPT !.row = Ungraded]
  OBVIOUS
<1>5. /\ EntryTyped(of) /\ of.marks \in Entered /\ of.at \in GradeRow /\ of.row \in RowSet
      /\ EntryTyped(e) /\ e.marks = of.marks /\ e.at = of.at
  <2>1. Ungraded \in RowSet
    BY DEF Ungraded, RowSet, Mark, Averages, Letters, Points, Statuses
  <2>2. EntryTyped(of) /\ of.marks \in Entered /\ of.at \in GradeRow /\ of.row \in RowSet
    BY <1>1, <1>2, <1>3 DEF GradeTyped, EntryTyped, Working
  <2>. QED  BY <1>4, <2>1, <2>2 DEF EntryTyped
<1>6. PICK now \in RowSet : now = grades[of.at]
  BY <1>1, <1>5 DEF GradeTyped
<1>7. PICK new : new = Saved(now, of.row, of.marks, Graded(of.row, of.marks))
  OBVIOUS
<1>8. new \in RowSet /\ (new.average # -1 => PointExplained(new))
  <2>1. now.average # -1 => PointExplained(now)
    BY <1>5, <1>6 DEF GradeInv, RowsExplainedInv
  <2>. QED  BY <1>5, <1>7, <2>1, SavedRow
<1>9. /\ grades' \in [GradeRow -> RowSet] /\ grades'[of.at] = new
      /\ \A r \in GradeRow : r # of.at => grades'[r] = grades[r]
  BY <1>1, <1>3, <1>5, <1>6, <1>7, <1>8 DEF GradeTyped
<1>10. /\ GradeTyped'
       /\ grPc'[g] = "calculate" /\ grOf'[g] = e
       /\ \A o \in Grader : o # g => grPc'[o] = grPc[o] /\ grOf'[o] = grOf[o]
  <2>1. cgpa' = [s \in Graduand |-> cgpa'[s]]
    BY <1>1, <1>3 DEF GradeTyped
  <2>2. "calculate" \in {"idle", "read", "save", "calculate", "update"} /\ GrGoto(g, "calculate", e)
    BY <1>3, <1>4
  <2>3. e.marks \in Entered /\ e.at \in GradeRow
    BY <1>5
  <2>. QED  BY <1>1, <1>5, <1>9, <2>1, <2>2, <2>3, SlotMoves
<1>11. AloneIsCurrent'
  <2>. SUFFICES ASSUME ~overlapped
                PROVE  (ServedAlone /\ EntryIsCurrent)'
    BY <1>3 DEF AloneIsCurrent
  <2>1. \A o \in Grader : o # g => grPc[o] = "idle" /\ grPc'[o] = "idle"
    BY <1>3, <1>10 DEF GradeInv, AloneIsCurrent, ServedAlone
  <2>. QED  BY <1>10, <2>1 DEF ServedAlone, EntryIsCurrent
<1>12. RowsExplainedInv'
  <2>1. \A r \in GradeRow : grades'[r].average # -1 => PointExplained(grades'[r])
    BY <1>8, <1>9 DEF GradeInv, RowsExplainedInv
  <2>2. ASSUME ~overlapped
        PROVE  Explained(new)
    <3>1. of.row = now
      BY <1>2, <1>3, <1>6, <2>2 DEF GradeInv, AloneIsCurrent, EntryIsCurrent
    <3>2. new = Graded(now, of.marks)
      BY <1>5, <1>7, <3>1, SavedRow
    <3>. QED  BY <1>5, <3>2, GradedIsExplained
  <2>3. \A r \in intact' : Explained(grades'[r])
    <3>1. \A r \in intact : r \in GradeRow /\ Explained(grades[r])
      BY DEF GradeInv, RowsExplainedInv
    <3>. QED  BY <1>3, <1>5, <1>9, <2>2, <3>1
  <2>4. \A r : (PointExplained(grades[r]))' <=> PointExplained(grades'[r])
    BY DEF PointExplained
  <2>5. \A r : (Explained(grades[r]))' <=> Explained(grades'[r])
    BY DEF Explained
  <2>. QED  BY <2>1, <2>3, <2>4, <2>5 DEF RowsExplainedInv
<1>13. CgpaRepaired'
  <2>. SUFFICES ASSUME NEW s \in settled'
                PROVE  cgpa'[s] = calculateCGPA(s)'
    BY DEF CgpaRepaired
  <2>1. s \in settled /\ s \in Graduand /\ s # OwnerOf[of.at]
    BY <1>3 DEF GradeInv
  <2>2. \A r \in GradeRow : OwnerOf[r] = s => grades'[r] = grades[r]
    BY <1>9, <2>1
  <2>3. calculateCGPA(s)' = calculateCGPA(s)
    BY <1>1, <1>9, <2>1, <2>2, CgpaOfOwnRows
  <2>. QED  BY <1>3, <2>1, <2>3 DEF GradeInv, CgpaRepaired
<1>14. intact' \subseteq GradeRow /\ settled' \subseteq Graduand
  BY <1>3, <1>5 DEF GradeInv
<1>. QED  BY <1>10, <1>11, <1>12, <1>13, <1>14 DEF GradeInv

LEMMA GpaReadStep ==
    ASSUME GradebookAssumption, GradeInv, NEW g \in Grader, GpaRead(g)
    PROVE  GradeInv'
<1>1. GradeTyped
  BY DEF GradeInv
<1>2. PICK e : e = [grOf[g] EXCEPT !.gpa = calculateCGPA(OwnerOf[grOf[g].at])]
  OBVIOUS
<1>3. /\ grPc[g] = "calculate" /\ UNCHANGED <<grades, cgpa, overlapped, intact, settled>>
      /\ GrGoto(g, "update", e)
  BY <1>2 DEF GpaRead
<1>4. /\ EntryTyped(e) /\ e.marks \in Entered /\ e.at \in GradeRow /\ e.at = grOf[g].at
      /\ e.gpa = calculateCGPA(OwnerOf[e.at])
  BY <1>1, <1>2, <1>3 DEF GradeTyped, EntryTyped, Working
<1>5. /\ GradeTyped'
      /\ grPc'[g] = "update" /\ grOf'[g] = e
      /\ \A o \in Grader : o # g => grPc'[o] = grPc[o] /\ grOf'[o] = grOf[o]
  <2>1. grades' \in [GradeRow -> RowSet] /\ cgpa' = [s \in Graduand |-> cgpa'[s]]
    BY <1>1, <1>3 DEF GradeTyped
  <2>2. "update" \in {"idle", "read", "save", "calculate", "update"}
    OBVIOUS
  <2>. QED  BY <1>1, <1>3, <1>4, <2>1, <2>2, SlotMoves
<1>6. OwnerOf[e.at] \in Graduand
  BY <1>4 DEF GradebookAssumption
<1>7. \A s \in Graduand : calculateCGPA(s)' = calculateCGPA(s)
  BY <1>1, <1>3, <1>5, CgpaOfOwnRows DEF GradeTyped
<1>8. AloneIsCurrent'
  <2>. SUFFICES ASSUME ~overlapped
                PROVE  (ServedAlone /\ EntryIsCurrent)'
    BY <1>3 DEF AloneIsCurrent
  <2>1. \A o \in Grader : o # g => grPc[o] = "idle" /\ grPc'[o] = "idle"
    BY <1>3, <1>5 DEF GradeInv, AloneIsCurrent, ServedAlone
  <2>2. ASSUME NEW o \in Grader, NEW s \in Graduand, grPc'[o] = "update", OwnerOf[grOf'[o].at] = s
        PROVE  grOf'[o].gpa = calculateCGPA(s)'
    <3>1. o = g /\ s = OwnerOf[e.at]
      BY <1>5, <2>1, <2>2
    <3>. QED  BY <1>4, <1>5, <1>7, <3>1
  <2>3. \A o \in Grader : grPc'[o] # "save"
    BY <1>5, <2>1
  <2>. QED  BY <1>5, <2>1, <2>2, <2>3 DEF ServedAlone, EntryIsCurrent
<1>. QED  BY <1>3, <1>5, <1>8, RecordsKept

LEMMA GpaUpdateStep ==
    ASSUME GradebookAssumption, GradeInv, NEW g \in Grader, GpaUpdate(g)
    PROVE  GradeInv'
<1>1. GradeTyped
  BY DEF GradeInv
<1>2. PICK s : s = OwnerOf[grOf[g].at]
  OBVIOUS
<1>3. /\ grPc[g] = "update" /\ UNCHANGED <<grades, overlapped, intact>> /\ EntryNext(g)
      /\ cgpa' = [cgpa EXCEPT ![s] = grOf[g].gpa]
      /\ settled' = IF overlapped THEN settled \ {s} ELSE settled \cup {s}
  BY <1>2 DEF GpaUpdate, EntryDone
<1>4. PICK step \in {"idle", "read"} : \E e :
          GrGoto(g, step, e) /\ EntryTyped(e) /\ (step # "idle" => e.marks \in Entered)
  BY <1>1, <1>3, NextEntry DEF Working
<1>5. PICK e : GrGoto(g, step, e) /\ EntryTyped(e) /\ (step # "idle" => e.marks \in Entered)
  BY <1>4
<1>6. s \in Graduand
  BY <1>1, <1>2, <1>3 DEF GradeTyped, Working, GradebookAssumption
<1>7. /\ cgpa' = [x \in Graduand |-> cgpa'[x]] /\ cgpa'[s] = grOf[g].gpa
      /\ \A x \in Graduand : x # s => cgpa'[x] = cgpa[x]
  <2>1. \E old : cgpa = [x \in Graduand |-> old[x]]
    BY <1>1 DEF GradeTyped
  <2>. QED  BY <1>3, <1>6, <2>1
<1>8. /\ GradeTyped'
      /\ grPc'[g] = step /\ grOf'[g] = e
      /\ \A o \in Grader : o # g => grPc'[o] = grPc[o] /\ grOf'[o] = grOf[o]
  <2>1. grades' \in [GradeRow -> RowSet]
    BY <1>1, <1>3 DEF GradeTyped
  <2>2. step \in {"idle", "read", "save", "calculate", "update"}
        /\ step \notin {"save", "calculate", "update"}
    OBVIOUS
  <2>. QED  BY <1>1, <1>5, <1>7, <2>1, <2>2, SlotMoves
<1>9. \A x \in Graduand : calculateCGPA(x)' = calculateCGPA(x)
  BY <1>1, <1>3, <1>8, CgpaOfOwnRows DEF GradeTyped
<1>10. AloneIsCurrent'
  <2>. SUFFICES ASSUME ~overlapped
                PROVE  (ServedAlone /\ EntryIsCurrent)'
    BY <1>3 DEF AloneIsCurrent
  <2>1. \A o \in Grader : o # g => grPc[o] = "idle" /\ grPc'[o] = "idle"
    BY <1>3, <1>8 DEF GradeInv, AloneIsCurrent, ServedAlone
  <2>2. \A o \in Grader : grPc'[o] \in {"idle", "read"}
    BY <1>8, <2>1
  <2>. QED  BY <1>8, <2>1, <2>2 DEF ServedAlone, EntryIsCurrent
<1>11. CgpaRepaired'
  <2>1. ASSUME NEW x \in settled', x # s
        PROVE  cgpa'[x] = calculateCGPA(x)'
    <3>1. x \in settled /\ x \in Graduand
      BY <1>3, <2>1 DEF GradeInv
    <3>. QED  BY <1>7, <1>9, <2>1, <3>1 DEF GradeInv, CgpaRepaired
  <2>2. ASSUME ~overlapped
        PROVE  cgpa'[s] = calculateCGPA(s)'
    <3>1. grOf[g].gpa = calculateCGPA(s)
      BY <1>2, <1>3, <1>6, <2>2 DEF GradeInv, AloneIsCurrent, EntryIsCurrent
    <3>. QED  BY <1>6, <1>7, <1>9, <3>1
  <2>3. s \in settled' => ~overlapped
    BY <1>3
  <2>. QED  BY <2>1, <2>2, <2>3 DEF CgpaRepaired
<1>12. RowsExplainedInv' /\ intact' \subseteq GradeRow /\ settled' \subseteq Graduand
  BY <1>3, <1>6 DEF GradeInv, RowsExplainedInv
<1>. QED  BY <1>8, <1>10, <1>11, <1>12 DEF GradeInv

LEMMA EntryFailStep ==
    ASSUME GradebookAssumption, GradeInv, NEW g \in Grader, EntryFail(g)
    PROVE  GradeInv'
<1>1. GradeTyped
  BY DEF GradeInv
<1>2. UNCHANGED <<grades, cgpa, overlapped, intact, settled>> /\ EntryNext(g) /\ Working(g)
  BY DEF EntryFail, Working
<1>3. PICK step \in {"idle", "read"} : \E e :
          GrGoto(g, step, e) /\ EntryTyped(e) /\ (step # "idle" => e.marks \in Entered)
  BY <1>1, <1>2, NextEntry
<1>4. PICK e : GrGoto(g, step, e) /\ EntryTyped(e) /\ (step # "idle" => e.marks \in Entered)
  BY <1>3
<1>5. grades' \in [GradeRow -> RowSet] /\ cgpa' = [x \in Graduand |-> cgpa'[x]]
  BY <1>1, <1>2 DEF GradeTyped
<1>6. step \in {"idle", "read", "save", "calculate", "update"}
      /\ step \notin {"save", "calculate", "update"}
  OBVIOUS
<1>7. /\ GradeTyped'
      /\ grPc'[g] = step /\ \A o \in Grader : o # g => grPc'[o] = grPc[o] /\ grOf'[o] = grOf[o]
  BY <1>1, <1>4, <1>5, <1>6, SlotMoves
<1>8. AloneIsCurrent'
  <2>. SUFFICES ASSUME ~overlapped
                PROVE  (ServedAlone /\ EntryIsCurrent)'
    BY <1>2 DEF AloneIsCurrent
  <2>1. \A o \in Grader : o # g => grPc[o] = "idle" /\ grPc'[o] = "idle"
    BY <1>2, <1>7 DEF GradeInv, AloneIsCurrent, ServedAlone, Working
  <2>2. \A o \in Grader : grPc'[o] \in {"idle", "read"}
    BY <1>7, <2>1
  <2>. QED  BY <1>7, <2>1, <2>2 DEF ServedAlone, EntryIsCurrent
<1>. QED  BY <1>2, <1>7, <1>8, RecordsKept

LEMMA GradeInvStep == GradebookAssumption /\ GradeInv /\ [GradeNext]_gradeVars => GradeInv'
<1>. SUFFICES ASSUME GradebookAssumption, GradeInv, [GradeNext]_gradeVars
              PROVE  GradeInv'
  OBVIOUS
<1>1. ASSUME NEW g \in Grader, EntrySteps(g)
      PROVE  GradeInv'
  BY <1>1, EntryReadStep, EntrySaveStep, GpaReadStep, GpaUpdateStep, EntryFailStep DEF EntrySteps
<1>2. ASSUME NEW g \in Grader, enterGrades(g)
      PROVE  GradeInv'
  <2>1. \A rows \in {{r} : r \in GradeRow} : rows \subseteq GradeRow
    OBVIOUS
  <2>. QED  BY <1>1, <1>2, <2>1, EntryStartStep DEF enterGrades
<1>3. ASSUME NEW g \in Grader, bulkEnterGrades(g)
      PROVE  GradeInv'
  <2>1. \A rows \in {GradeRow} : rows \subseteq GradeRow
    OBVIOUS
  <2>. QED  BY <1>1, <1>3, <2>1, EntryStartStep DEF bulkEnterGrades
<1>4. CASE UNCHANGED gradeVars
  <2>1. GradeTyped'
    BY <1>4 DEF gradeVars, GradeInv, GradeTyped, Working
  <2>2. \A s \in Graduand : calculateCGPA(s)' = calculateCGPA(s)
    BY <1>4, CgpaOfOwnRows DEF gradeVars, GradeInv, GradeTyped
  <2>3. ServedAlone' <=> ServedAlone
    BY <1>4 DEF gradeVars, ServedAlone
  <2>4. EntryIsCurrent' <=> EntryIsCurrent
    BY <1>4, <2>2 DEF gradeVars, EntryIsCurrent
  <2>5. AloneIsCurrent'
    BY <1>4, <2>3, <2>4 DEF gradeVars, GradeInv, AloneIsCurrent
  <2>. QED  BY <1>4, <2>1, <2>5, RecordsKept DEF gradeVars
<1>. QED  BY <1>2, <1>3, <1>4 DEF GradeNext

(* Whatever the students, courses, marks and requests, and whatever races  *)
(* and fails: every point is that of the average beside it, and a row      *)
(* whose last save nothing overlapped is the one its marks call for        *)
(* (updateGrades).                                                         *)
THEOREM GradesFollowMarks == GradeSpec => []RowsExplained
<1>1. GradeInv => RowsExplained
  BY DEF GradeInv, RowsExplainedInv, Explained, RowsExplained
<1>. QED  BY <1>1, GradebookAssumption, GradeInvInit, GradeInvStep, PTL DEF GradeSpec

(* And an entry served alone to its end leaves its student the CGPA of the *)
(* rows, whatever was lost before it (updateStudentGPA after every save).  *)
THEOREM CgpaFollowsGrades == GradeSpec => []CgpaRepaired
<1>1. GradeInv => CgpaRepaired
  BY DEF GradeInv
<1>. QED  BY <1>1, GradebookAssumption, GradeInvInit, GradeInvStep, PTL DEF GradeSpec

-----------------------------------------------------------------------------
(* The scale of the CGPA. *)

(* A CGPA is at most 8 half points, 4.00, for every credit.                *)
OnScale(c) == c \in Nat \X Nat /\ c[1] <= 8 * c[2]

LEMMA CalculatedOnScale ==
    ASSUME GradebookAssumption, GradeTyped, NEW s \in Graduand
    PROVE  OnScale(calculateCGPA(s))
<1>. DEFINE S == Counted(s)
            points == [r \in S |-> grades[r].point * CreditsOf[r]]
            credits == [r \in S |-> CreditsOf[r]]
<1>1. IsFiniteSet(S)
  <2>1. S \subseteq GradeRow
    BY DEF Counted
  <2>. QED  BY <2>1, FS_Subset DEF GradebookAssumption
<1>2. ASSUME NEW r \in S
      PROVE  /\ grades[r].point * CreditsOf[r] \in Nat /\ CreditsOf[r] \in Nat
             /\ grades[r].point * CreditsOf[r] <= 8 * CreditsOf[r]
  <2>1. grades[r].point \in -1 .. 8 /\ grades[r].point # -1 /\ CreditsOf[r] \in 1 .. 10
    BY DEF Counted, GradeTyped, RowSet, Points, GradebookAssumption
  <2>. QED  BY <2>1
<1>3. points \in [S -> Nat] /\ credits \in [S -> Nat] /\ \A r \in S : points[r] <= 8 * credits[r]
  BY <1>2
<1>4. calculateCGPA(s) = <<SumFunction(points), SumFunction(credits)>>
  BY DEF calculateCGPA
<1>. HIDE DEF S, points, credits
<1>5. SumFunction(points) \in Nat /\ SumFunction(credits) \in Nat
  BY <1>1, <1>3, SumType
<1>6. SumFunction(points) <= 8 * SumFunction(credits)
  <2>1. points \in [S -> Int] /\ credits \in [S -> Int] /\ 8 \in Int
    BY <1>3
  <2>. QED  BY <1>1, <1>3, <2>1, SumBounded
<1>. QED  BY <1>4, <1>5, <1>6 DEF OnScale

ScaleInv ==
    /\ cgpa \in [Graduand -> Nat \X Nat] /\ \A s \in Graduand : OnScale(cgpa[s])
    /\ \A g \in Grader : OnScale(grOf[g].gpa)
    /\ entries_made \in 0 .. MaxEntries /\ overlapped \in BOOLEAN

LEMMA ScaleStep ==
    ASSUME GradebookAssumption, GradeTyped, ScaleInv, [GradeNext]_gradeVars
    PROVE  ScaleInv'
<1>1. OnScale(IdleEntry.gpa)
  BY DEF OnScale, IdleEntry
<1>2. ASSUME NEW g \in Grader, NEW step, NEW e, GrGoto(g, step, e), OnScale(e.gpa),
             cgpa' \in [Graduand -> Nat \X Nat], \A s \in Graduand : OnScale(cgpa'[s]),
             entries_made' \in 0 .. MaxEntries, overlapped' \in BOOLEAN
      PROVE  ScaleInv'
  BY <1>2 DEF ScaleInv, GrGoto, GradeTyped
<1>3. ASSUME NEW g \in Grader, EntryNext(g)
      PROVE  \E step, e : GrGoto(g, step, e) /\ OnScale(e.gpa)
  <2>1. PICK e : e = [IdleEntry EXCEPT !.todo = grOf[g].todo \ {grOf[g].at}, !.marks = grOf[g].marks]
    OBVIOUS
  <2>2. e.gpa = IdleEntry.gpa
    BY <2>1 DEF IdleEntry
  <2>3. GrGoto(g, "idle", IdleEntry) \/ GrGoto(g, "read", e)
    BY <1>3, <2>1 DEF EntryNext
  <2>. QED  BY <1>1, <2>2, <2>3
<1>4. ASSUME NEW g \in Grader, NEW batches, EntryStart(g, batches) PROVE ScaleInv'
  <2>1. PICK rows \in batches, marks \in Entered :
            GrGoto(g, "read", [IdleEntry EXCEPT !.todo = rows, !.marks = marks])
    BY <1>4 DEF EntryStart
  <2>2. PICK e : e = [IdleEntry EXCEPT !.todo = rows, !.marks = marks]
    OBVIOUS
  <2>3. e.gpa = IdleEntry.gpa
    BY <2>2 DEF IdleEntry
  <2>4. /\ cgpa' = cgpa /\ overlapped' \in BOOLEAN
        /\ entries_made < MaxEntries /\ entries_made' = entries_made + 1
    BY <1>4 DEF EntryStart
  <2>5. entries_made' \in 0 .. MaxEntries
    BY <2>4 DEF ScaleInv, GradebookAssumption
  <2>. QED  BY <1>1, <1>2, <2>1, <2>2, <2>3, <2>4, <2>5 DEF ScaleInv
<1>5. ASSUME NEW g \in Grader, EntryRead(g) PROVE ScaleInv'
  <2>1. PICK r \in grOf[g].todo : GrGoto(g, "save", [grOf[g] EXCEPT !.at = r, !.row = grades[r]])
    BY <1>5 DEF EntryRead
  <2>2. PICK e : e = [grOf[g] EXCEPT !.at = r, !.row = grades[r]]
    OBVIOUS
  <2>3. e.gpa = grOf[g].gpa
    BY <2>2 DEF GradeTyped, EntryTyped
  <2>. QED  BY <1>2, <1>5, <2>1, <2>2, <2>3 DEF EntryRead, ScaleInv
<1>6. ASSUME NEW g \in Grader, EntrySave(g) PROVE ScaleInv'
  <2>1. PICK e : e = [grOf[g] EXCEPT !.row = Ungraded]
    OBVIOUS
  <2>2. e.gpa = grOf[g].gpa
    BY <2>1 DEF GradeTyped, EntryTyped
  <2>3. GrGoto(g, "calculate", e) /\ UNCHANGED <<cgpa, entries_made, overlapped>>
    BY <1>6, <2>1 DEF EntrySave, AfterSave
  <2>. QED  BY <1>2, <2>2, <2>3 DEF ScaleInv
<1>7. ASSUME NEW g \in Grader, GpaRead(g) PROVE ScaleInv'
  <2>1. PICK e : e = [grOf[g] EXCEPT !.gpa = calculateCGPA(OwnerOf[grOf[g].at])]
    OBVIOUS
  <2>2. e.gpa = calculateCGPA(OwnerOf[grOf[g].at])
    BY <2>1 DEF GradeTyped, EntryTyped
  <2>3. grPc[g] = "calculate" /\ GrGoto(g, "update", e) /\ UNCHANGED <<cgpa, entries_made, overlapped>>
    BY <1>7, <2>1 DEF GpaRead
  <2>4. OwnerOf[grOf[g].at] \in Graduand
    BY <2>3 DEF GradeTyped, Working, GradebookAssumption
  <2>. QED  BY <1>2, <2>2, <2>3, <2>4, CalculatedOnScale DEF ScaleInv
<1>8. ASSUME NEW g \in Grader, GpaUpdate(g) PROVE ScaleInv'
  <2>1. PICK s : s = OwnerOf[grOf[g].at]
    OBVIOUS
  <2>2. /\ cgpa' = [cgpa EXCEPT ![s] = grOf[g].gpa] /\ EntryNext(g)
        /\ UNCHANGED <<entries_made, overlapped>>
    BY <1>8, <2>1 DEF GpaUpdate, EntryDone
  <2>3. grOf[g].gpa \in Nat \X Nat /\ OnScale(grOf[g].gpa)
    BY DEF ScaleInv, OnScale
  <2>4. cgpa' \in [Graduand -> Nat \X Nat] /\ \A x \in Graduand : OnScale(cgpa'[x])
    BY <2>2, <2>3 DEF ScaleInv
  <2>. QED  BY <1>2, <1>3, <2>2, <2>4 DEF ScaleInv
<1>9. ASSUME NEW g \in Grader, EntryFail(g) PROVE ScaleInv'
  BY <1>2, <1>3, <1>9 DEF EntryFail, ScaleInv
<1>10. CASE UNCHANGED gradeVars
  BY <1>10 DEF gradeVars, ScaleInv
<1>. QED  BY <1>4, <1>5, <1>6, <1>7, <1>8, <1>9, <1>10
             DEF GradeNext, enterGrades, bulkEnterGrades, EntrySteps

LEMMA ScaleAlways == GradeSpec => [](GradeInv /\ ScaleInv)
<1>1. GradeInit => ScaleInv
  <2>. SUFFICES ASSUME GradeInit PROVE ScaleInv
    OBVIOUS
  <2>1. OnScale(<<0, 0>>) /\ <<0, 0>> \in Nat \X Nat
    BY DEF OnScale
  <2>2. MaxEntries \in Nat
    BY GradebookAssumption DEF GradebookAssumption
  <2>3. IdleEntry.gpa = <<0, 0>>
    BY DEF IdleEntry
  <2>4. PICK none : none = <<0, 0>>
    OBVIOUS
  <2>5. /\ cgpa = [s \in Graduand |-> none] /\ \A g \in Grader : grOf[g].gpa = none
        /\ entries_made = 0 /\ overlapped = FALSE
    BY <2>3, <2>4 DEF GradeInit
  <2>6. OnScale(none) /\ none \in Nat \X Nat
    BY <2>1, <2>4
  <2>7. entries_made \in 0 .. MaxEntries
    BY <2>2, <2>5
  <2>8. overlapped \in BOOLEAN /\ cgpa \in [Graduand -> Nat \X Nat]
    BY <2>5, <2>6
  <2>9. \A s \in Graduand : cgpa[s] = none
    BY <2>5
  <2>. QED  BY <2>5, <2>6, <2>7, <2>8, <2>9 DEF ScaleInv
<1>2. GradeInv => GradeTyped
  BY DEF GradeInv
<1>. QED  BY <1>1, <1>2, GradebookAssumption, GradeInvInit, GradeInvStep, ScaleStep, PTL
             DEF GradeSpec

(* The type invariant of the gradebook.  That a CGPA is a pair of numbers  *)
(* rests on the sums being numbers, whatever rows are counted.             *)
THEOREM GradeTypeCorrect == GradeSpec => []GradeTypeOK
<1>1. GradeInv /\ ScaleInv => GradeTypeOK
  BY DEF GradeInv, GradeTyped, ScaleInv, GradeTypeOK, EntryTyped, RowSet, Averages, Points, Statuses
<1>. QED  BY <1>1, ScaleAlways, PTL

(* Whatever entries race and fail, the CGPA that is recorded is at most    *)
(* 4.00, so the UPDATE never meets the validation of the column            *)
(* (Student.js:48-56, updateStudentGPA).                                   *)
THEOREM CgpaStaysOnScale == GradeSpec => [](\A s \in Graduand : OnScale(cgpa[s]))
<1>1. ScaleInv => \A s \in Graduand : OnScale(cgpa[s])
  BY DEF ScaleInv
<1>. QED  BY <1>1, ScaleAlways, PTL
=============================================================================
