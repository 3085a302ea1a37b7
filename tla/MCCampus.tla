------------------------------ MODULE MCCampus ------------------------------
(***************************************************************************)
(* The services that share no table with each other, checked in one run.   *)
(* The run's behaviours are those of its parts: `part`, fixed at the       *)
(* start, says which service moves, and the others stay as they began.     *)
(* Some services are cut once more, where two of their operations have     *)
(* nothing to do with each other.                                          *)
(***************************************************************************)
EXTENDS Attendance, MealReservation, Accounts, RoomBooking, Timetabling, Catalogue,
        Gradebook, Notifications, ClassSchedule, TLC

CONSTANTS lesson1, lesson2, lesson3, pupil1, teacher1, meal1, meal2, meal3, diner1, diner2, hall1, hall2, row1, row2,
          student1, entry1, entry2, entry3, code1, admin1, note2, person1,
          approver1

VARIABLE part

MCKey == {<<lesson1, pupil1>>}

MCCourses    == 1 .. 3
AnyInstructor == CHOOSE i \in Instructor : TRUE
MCHallSize   == hall1 :> 2 @@ hall2 :> 1
MCCourseSize == <<2, 1, 1>>

MCOwnerOf   == [r \in GradeRow |-> student1]
MCCreditsOf == [r \in GradeRow |-> 3]
MCIsRepeat  == row1 :> FALSE @@ row2 :> TRUE
Marks(midterm, final, homework) == [midterm |-> midterm, final |-> final, homework |-> homework]
MCEntered == {Marks(62, -1, 52), Marks(-1, 62, -1), Marks(0, 49, -1)}
MCRoundedDown == {<<62, 62, 52>>}
MCOfCourse  == row1 :> "course" @@ row2 :> "course"

-----------------------------------------------------------------------------
(* Bounds that keep a part small. *)

(* Ids that only tell rows apart are used in order: the row of an id that comes *)
(* later in the list exists only when those of the earlier ones have existed.   *)
InOrder(ids, Used(_)) == \A n \in 2 .. Len(ids) : Used(ids[n]) => Used(ids[n - 1])

LessonsInOrder == InOrder(<<lesson2, lesson3>>, LAMBDA l : session'[l] # "none")
EntriesInOrder == InOrder(<<entry1, entry2, entry3>>, LAMBDA e : entries'[e].state # "none")

(* Where codes stay what they were, the first row has the first code. *)
CodesInOrder == catKind = "course" => entries'[entry1].code \in {"absent", code1}

(* Two teachers only for the opening of sessions, which is then the only thing done. *)
OnlyTeachers == \A s \in Device \cup Reviewer : attPc'[s] = "idle"
OneTeacher   == \A t \in Teacher \ {teacher1} : attPc'[t] = "idle"

(* One reservation, and whatever is done to it; three where the question is how  *)
(* many a diner is given: there one diner makes them and offers them to another, *)
(* the last one is not cancelled and only the first is scanned.                  *)
OneMeal == \A t \in Ticket \ {meal1} : ticket'[t] = Unmade
Giving ==
    /\ InOrder(<<meal1, meal2, meal3>>, LAMBDA t : ticket'[t] # Unmade)
    /\ \A t \in Ticket : madeBy'[t] \in {NoDiner, diner1}
    /\ \A s \in MealSlot :
          \/ mealPc'[s] \in {"offer", "accept"} /\ mealOf'[s].user = diner2
          \/ mealPc'[s] = "cancel" /\ mealOf'[s].ticket # meal3
          \/ mealPc'[s] = "use" /\ mealOf'[s].ticket = meal1
          \/ mealPc'[s] = "idle"

(* Decisions only where all reservations are for one of two touching times. *)
NoDecisions == \A d \in Decider : rbPc'[d] = "idle"
TwoTimes    == \A k \in Booker : rbOf'[k] \in {NoTimes, <<0, 1>>, <<1, 2>>}

(* The sessions of an account are about tokens: nobody mistypes a password. *)
RightPasswords == attempts' = 0 /\ \A v \in Visitor : acPc'[v] # "wrong"

(* Three rows only for the cafeterias, whose seeder is what needs them; of a course *)
(* nothing but the list of prerequisites changes, and one administrator alone gives *)
(* such a list already when it is created.                                          *)
FewEntries ==
    /\ catKind # "cafeteria" => entries'[entry3] = entries[entry3]
    /\ catKind = "course" => \A a \in Admin :
          /\ catAsk'[a].active = "absent" /\ catAsk'[a].list # {}
          /\ catPc'[a] = "write" => catAsk'[a].code = "absent"
          /\ catPc'[a] = "insert" /\ a # admin1 => catAsk'[a].list = NoList

(* A second notification only where notifications are what is being looked at, and *)
(* preferences of one user only.                                                    *)
OneNote       == notes'[note2] = notes[note2]
OnePreference == \A p \in Person \ {person1} : prefs'[p] = prefs[p]

(* The last entry of a run comes when nothing else is being served: it is the one *)
(* that repairs what those before it did to each other.                           *)
LastAlone == entries_made' # entries_made /\ entries_made' = MaxEntries =>
                \A g \in Grader : grPc[g] = "idle"

(* Sections that createScheduleFromSection passes over get no generated rows, and *)
(* of the loops only those of one approver and the reader go on to a second one.  *)
FewSections ==
    /\ generated' \subseteq Placeable
    /\ \A c \in Creator \ ({approver1} \cup Viewer) : csPc'[c] # "next" => csTodo'[c] = {}

-----------------------------------------------------------------------------
campusVars == <<part, attVars, mealVars, accountVars, bookingVars, timetableVars, catVars,
                gradeVars, noteVars, scheduleVars>>

Parts == {"openings", "attendance", "meals", "gifts", "registration", "lockout", "sessions", "requests", "decisions", "timetable",
          "catalogue", "grades", "inbox", "preferences", "subscriptions", "schedule"}

CampusInit ==
    /\ AttInit /\ MealInit /\ AccountInit /\ BookingInit /\ CatInit /\ GradeInit /\ NoteInit
    /\ TimetableInit /\ ScheduleInit
    /\ part \in Parts
    /\ part # "catalogue" => catKind = "course"
    /\ part # "timetable" => \A c \in Course : taughtBy[c] = AnyInstructor /\ takenBy[c] = {}

AttendanceMoves ==
    /\ part \in {"openings", "attendance"} /\ AttNext /\ LessonsInOrder
    /\ \/ part = "openings" /\ OnlyTeachers
       \/ part = "attendance" /\ OneTeacher
    /\ UNCHANGED <<part, mealVars, accountVars, bookingVars, timetableVars, catVars,
                   gradeVars, noteVars, scheduleVars>>

MealsMoves ==
    /\ part \in {"meals", "gifts"} /\ MealNext
    /\ \/ part = "meals" /\ OneMeal
       \/ part = "gifts" /\ Giving
    /\ UNCHANGED <<part, attVars, accountVars, bookingVars, timetableVars, catVars,
                   gradeVars, noteVars, scheduleVars>>

AccountsMoves ==
    /\ \/ part = "registration" /\ (Registration \/ AccountFailure)
       \/ part = "lockout" /\ (SignIn \/ Activation \/ AccountFailure)
       \/ part = "sessions" /\ (SignIn \/ Recovery \/ AccountFailure) /\ RightPasswords
    /\ UNCHANGED <<part, attVars, mealVars, bookingVars, timetableVars, catVars,
                   gradeVars, noteVars, scheduleVars>>

BookingsMoves ==
    /\ part \in {"requests", "decisions"} /\ BookingNext
    /\ \/ part = "requests" /\ NoDecisions
       \/ part = "decisions" /\ TwoTimes
    /\ UNCHANGED <<part, attVars, mealVars, accountVars, timetableVars, catVars,
                   gradeVars, noteVars, scheduleVars>>

TimetableMoves ==
    /\ part = "timetable" /\ TimetableNext
    /\ UNCHANGED <<part, attVars, mealVars, accountVars, bookingVars, catVars,
                   gradeVars, noteVars, scheduleVars>>

CatalogueMoves ==
    /\ part = "catalogue" /\ CatNext /\ FewEntries /\ EntriesInOrder /\ CodesInOrder
    /\ UNCHANGED <<part, attVars, mealVars, accountVars, bookingVars, timetableVars,
                   gradeVars, noteVars, scheduleVars>>

GradesMoves ==
    /\ part = "grades" /\ GradeNext /\ LastAlone
    /\ UNCHANGED <<part, attVars, mealVars, accountVars, bookingVars, timetableVars,
                   catVars, noteVars, scheduleVars>>

NotesMoves ==
    /\ \/ part = "inbox" /\ (Inbox \/ Pushing)
       \/ /\ part = "preferences"
          /\ Preferences \/ Pushing \/ NoteFailure \/ \E d \in Desk : subscribeToPush(d)
          /\ OneNote /\ OnePreference
       \/ part = "subscriptions" /\ (Subscriptions \/ Pushing) /\ OneNote
    /\ UNCHANGED <<part, attVars, mealVars, accountVars, bookingVars, timetableVars,
                   catVars, gradeVars, scheduleVars>>

ScheduleMoves ==
    /\ part = "schedule" /\ ScheduleNext /\ FewSections
    /\ UNCHANGED <<part, attVars, mealVars, accountVars, bookingVars, timetableVars,
                   catVars, gradeVars, noteVars>>

CampusNext ==
    \/ AttendanceMoves
    \/ MealsMoves
    \/ AccountsMoves
    \/ BookingsMoves
    \/ TimetableMoves
    \/ CatalogueMoves
    \/ GradesMoves
    \/ NotesMoves
    \/ ScheduleMoves

(* Reviewers finish what they have started. *)
CampusSpec ==
    /\ CampusInit /\ [][CampusNext]_campusVars
    /\ AttFair

-----------------------------------------------------------------------------
(* The tables of every part hold rows, and the slots steps, of the kinds the *)
(* modules name.                                                             *)
CampusTypeOK ==
    /\ AttTypeOK /\ MealTypeOK /\ AccountTypeOK /\ BookingTypeOK /\ TimetableTypeOK
    /\ CatTypeOK /\ GradeTypeOK /\ NoteTypeOK /\ ScheduleTypeOK
=============================================================================
