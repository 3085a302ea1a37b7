--------------------------- MODULE ClassSchedule ---------------------------
(***************************************************************************)
(* The rows of the `schedules` table that enrollmentService                *)
(* .createScheduleFromSection derives from a section's schedule_json.      *)
(* Three kinds of request call it: an approval, inside its transaction;    *)
(* GET /enrollments/schedule, a read that creates what it misses; and the  *)
(* script create-schedules-for-enrollments.  Each creates a section's rows *)
(* only if it counts none, and no index keeps a second set out.            *)
(*                                                                         *)
(* An approval counts in the snapshot its first SELECT took, and holds the *)
(* section's row from its UPDATE of enrolled_count to its commit.  The     *)
(* INSERT of a schedule row waits for that row: section_id references it.  *)
(***************************************************************************)
EXTENDS Naturals, FiniteSets

CONSTANTS
    Lecture,     \* ids of course sections
    Placeable,   \* those whose schedule_json has slots and for which there is a classroom
    Approver,    \* slots for approvals, alone or in bulk
    Viewer,      \* slots for GET /enrollments/schedule
    Backfill     \* runs of the script

ASSUME ScheduleAssumption ==
    /\ IsFiniteSet(Lecture) /\ Lecture # {} /\ Placeable \subseteq Lecture
    /\ IsFiniteSet(Approver) /\ IsFiniteSet(Viewer) /\ IsFiniteSet(Backfill)
    /\ Approver \cap Viewer = {} /\ Approver \cap Backfill = {} /\ Viewer \cap Backfill = {}

VARIABLES
    copies,      \* [section -> how many times its slots are in the table]
    generated,   \* the sections with a row of the timetable generator
    csPc,        \* [slot -> what it does next about the section csOf]
    csOf,
    csTodo,      \* [slot -> the sections its loop has yet to come to]
    csSeen       \* [approver -> whether its snapshot has rows of the section]

scheduleVars == <<copies, generated, csPc, csOf, csTodo, csSeen>>

Creator == Approver \cup Viewer \cup Backfill
SomeLecture == CHOOSE l \in Lecture : TRUE

SlotRows == [Lecture -> Nat]   \* rows of the section, per slot of its schedule_json

ScheduleTypeOK ==
    /\ copies \in SlotRows
    /\ generated \subseteq Lecture
    /\ csPc \in [Creator -> {"idle", "next", "approve", "commit", "create", "insert"}]
    /\ csOf \in [Creator -> Lecture]
    /\ csTodo \in [Creator -> SUBSET Lecture]
    /\ csSeen \in [Approver -> BOOLEAN]

ScheduleInit ==
    /\ copies = [l \in Lecture |-> 0]
    /\ generated = {}
    /\ csPc = [c \in Creator |-> "idle"]
    /\ csOf = [c \in Creator |-> SomeLecture]
    /\ csTodo = [c \in Creator |-> {}]
    /\ csSeen = [a \in Approver |-> FALSE]

HasRows(l) == copies[l] > 0 \/ l \in generated

(* The rows of the sections l that an approval has updated are locked until it commits. *)
SectionUnlocked(l) == \A a \in Approver : ~(csPc[a] = "commit" /\ csOf[a] = l)

CsGoto(c, step, l) == csPc' = [csPc EXCEPT ![c] = step] /\ csOf' = [csOf EXCEPT ![c] = l]

(* A loop over the sections ls starts; over none, the request is answered at once. *)
Loop(c, ls) ==
    /\ csPc[c] = "idle" /\ ls # {}
    /\ CsGoto(c, "next", SomeLecture)
    /\ csTodo' = [csTodo EXCEPT ![c] = ls]
    /\ UNCHANGED <<copies, generated, csSeen>>

(* The loop goes on to its next section, or the request is answered. *)
Onward(c, rest) ==
    /\ CsGoto(c, IF rest = {} THEN "idle" ELSE "next", SomeLecture)
    /\ csTodo' = [csTodo EXCEPT ![c] = rest]

-----------------------------------------------------------------------------
(* createScheduleFromSection *)

(* Mutant: the count of existing rows is not looked at. *)
ToCreateAlways(counted, l) == l \in Placeable

(* No rows counted, slots to write, and a classroom to write them for. *)
ToCreate(counted, l) == ~counted /\ l \in Placeable

(* bulkCreate writes a set of rows, or fails: the error is swallowed. *)
Created(l) ==
    \/ copies' = [copies EXCEPT ![l] = @ + 1]
    \/ UNCHANGED copies

CreateCount(c) ==
    /\ csPc[c] = "create"
    /\ IF ToCreate(HasRows(csOf[c]), csOf[c])
       THEN CsGoto(c, "insert", csOf[c]) /\ UNCHANGED csTodo
       ELSE Onward(c, csTodo[c])
    /\ UNCHANGED <<copies, generated, csSeen>>

CreateRows(c) ==
    /\ csPc[c] = "insert"
    /\ SectionUnlocked(csOf[c])
    /\ Created(csOf[c])
    /\ Onward(c, csTodo[c])
    /\ UNCHANGED <<generated, csSeen>>

-----------------------------------------------------------------------------
(* Approvals *)

(* approveEnrollment is for one enrolment, approveAllEnrollments goes through a list. *)
ApproveOne(a, l) == a \in Approver /\ Loop(a, {l})
ApproveAll(a, ls) == a \in Approver /\ Loop(a, ls)

(* The snapshot, and the checks; an enrolment that is refused is passed over. *)
ApproveOpen(a, l) ==
    /\ a \in Approver /\ csPc[a] = "next" /\ l \in csTodo[a]
    /\ \/ /\ CsGoto(a, "approve", l)
          /\ csSeen' = [csSeen EXCEPT ![a] = HasRows(l)]
          /\ csTodo' = [csTodo EXCEPT ![a] = @ \ {l}]
       \/ Onward(a, csTodo[a] \ {l}) /\ UNCHANGED csSeen
    /\ UNCHANGED <<copies, generated>>

(* enrolled_count + 1: the section is locked. *)
ApproveUpdate(a) ==
    /\ csPc[a] = "approve"
    /\ SectionUnlocked(csOf[a])
    /\ CsGoto(a, "commit", csOf[a])
    /\ UNCHANGED <<copies, generated, csTodo, csSeen>>

(* createScheduleFromSection counts in the snapshot; its rows appear with the commit. *)
ApproveCommitRows(a) ==
    /\ csPc[a] = "commit"
    /\ IF ToCreate(csSeen[a], csOf[a]) THEN Created(csOf[a]) ELSE UNCHANGED copies
    /\ csSeen' = [csSeen EXCEPT ![a] = FALSE]
    /\ Onward(a, csTodo[a])
    /\ UNCHANGED generated

-----------------------------------------------------------------------------
(* The reader, the script and the generator *)

(* getMySchedule reads the rows of all the student's sections and creates for the *)
(* sections that had none, however long its loop takes to come to them.           *)
ViewSchedule(v, ls) == v \in Viewer /\ Loop(v, {l \in ls : ~HasRows(l)})

ViewNext(v, l) ==
    /\ v \in Viewer /\ csPc[v] = "next" /\ l \in csTodo[v]
    /\ CsGoto(v, "create", l)
    /\ csTodo' = [csTodo EXCEPT ![v] = @ \ {l}]
    /\ UNCHANGED <<copies, generated, csSeen>>

(* The script goes through every section somebody is enrolled in ... *)
BackfillStart(b, ls) == b \in Backfill /\ Loop(b, ls)

(* ... and counts the section's rows itself before it asks for them to be created. *)
BackfillNext(b, l) ==
    /\ b \in Backfill /\ csPc[b] = "next" /\ l \in csTodo[b]
    /\ IF HasRows(l)
       THEN Onward(b, csTodo[b] \ {l})
       ELSE CsGoto(b, "create", l) /\ csTodo' = [csTodo EXCEPT ![b] = @ \ {l}]
    /\ UNCHANGED <<copies, generated, csSeen>>

(* generateSchedule saves the assignments of its solution one by one, whatever rows *)
(* the section has.                                                                 *)
SaveAssignment(l) ==
    /\ SectionUnlocked(l)
    /\ generated' = generated \cup {l}
    /\ UNCHANGED <<copies, csPc, csOf, csTodo, csSeen>>

(* A statement outside createScheduleFromSection fails and the loop goes on, or the *)
(* request dies.                                                                    *)
ScheduleAbort(c) ==
    /\ csPc[c] # "idle"
    /\ Onward(c, csTodo[c]) \/ Onward(c, {})
    /\ csSeen' = [a \in Approver |-> csSeen[a] /\ a # c]
    /\ UNCHANGED <<copies, generated>>

ScheduleNext ==
    \/ \E c \in Creator : CreateCount(c) \/ CreateRows(c) \/ ScheduleAbort(c)
    \/ \E a \in Approver : ApproveUpdate(a) \/ ApproveCommitRows(a)
    \/ \E c \in Creator, ls \in SUBSET Lecture :
          ApproveAll(c, ls) \/ ViewSchedule(c, ls) \/ BackfillStart(c, ls)
    \/ \E c \in Creator, l \in Lecture :
          ApproveOne(c, l) \/ ApproveOpen(c, l) \/ ViewNext(c, l) \/ BackfillNext(c, l)
    \/ \E l \in Lecture : SaveAssignment(l)

ScheduleSpec == ScheduleInit /\ [][ScheduleNext]_scheduleVars

-----------------------------------------------------------------------------
(* Properties *)

(* A section's slots can be in the timetable more than once, since nobody locks   *)
(* what the count of existing rows reads, and approvals count in an old snapshot; *)
(* but every request served at once adds at most one set, however it loops.       *)
ScheduleCopiesBounded == \A l \in Lecture : copies[l] <= Cardinality(Creator)

=============================================================================
