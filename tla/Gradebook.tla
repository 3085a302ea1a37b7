----------------------------- MODULE Gradebook -----------------------------
(***************************************************************************)
(* Marks, letters and the averages derived from them: gradeController's    *)
(* enterGrades and bulkEnterGrades with gradeCalculationService.  An entry *)
(* is three unprotected steps: the enrolment is read, it is saved with     *)
(* what was computed from it, and the student's CGPA is computed by a      *)
(* query and written by one more UPDATE.  Marks are whole, averages are in *)
(* tenths, grade points in halves; a CGPA is the pair of points and        *)
(* credits whose quotient the code rounds.                                 *)
(***************************************************************************)
EXTENDS Integers, FiniteSets, Functions

CONSTANTS
    GradeRow,     \* enrolments that are graded
    Graduand,     \* students
    OwnerOf,      \* [enrolment -> student]
    OfCourse,     \* [enrolment -> its course]
    CreditsOf,    \* [enrolment -> credits of its course]
    IsRepeat,     \* [enrolment -> is_repeat]
    Entered,      \* what a request may carry: [midterm, final, homework], -1 when absent
    RoundedDown,  \* the marks whose sum of doubles falls short of a whole average
    Grader,       \* slots for requests
    GrMayFail,    \* the slots whose statements may fail
    MaxEntries    \* bound on the number of requests

ASSUME GradebookAssumption ==
    /\ IsFiniteSet(GradeRow) /\ GrMayFail \subseteq Grader /\ MaxEntries \in Nat
    /\ OwnerOf \in [GradeRow -> Graduand] /\ CreditsOf \in [GradeRow -> 1 .. 10]
    /\ IsRepeat \in [GradeRow -> BOOLEAN]
    /\ Entered \subseteq [midterm : -1 .. 100, final : -1 .. 100, homework : -1 .. 100]
    /\ DOMAIN OfCourse = GradeRow

VARIABLES
    grades,       \* [enrolment -> its columns]
    cgpa,         \* [student -> the recorded CGPA]
    grPc,         \* [slot -> the statement it is at]
    grOf,         \* [slot -> the request and what it has read]
    entries_made, \* number of requests so far
    overlapped,   \* when the latest request began, another was being served
    intact,       \* history: the enrolments whose last save nothing overlapped
    settled       \* history: the students none of whose entries is under way, nor
                  \* failed after its save or was overlapped since one that was not

gradeVars == <<grades, cgpa, grPc, grOf, entries_made, overlapped, intact, settled>>

Mark == -1 .. 100
Letters == {"none", "AA", "BA", "BB", "CB", "CC", "DC", "DD", "FD", "FF"}
Ungraded == [midterm |-> -1, final |-> -1, homework |-> -1, average |-> -1,
             letter |-> "none", point |-> -1, status |-> "enrolled"]
IdleEntry == [todo |-> {}, marks |-> [midterm |-> -1, final |-> -1, homework |-> -1],
              at |-> "nowhere", row |-> Ungraded, gpa |-> <<0, 0>>]

GradeTypeOK ==
    /\ grades \in [GradeRow -> [midterm : Mark, final : Mark, homework : Mark, average : -1 .. 1000,
                                letter : Letters, point : -1 .. 8, status : {"enrolled", "completed", "failed"}]]
    /\ cgpa \in [Graduand -> Nat \X Nat]
    /\ grPc \in [Grader -> {"idle", "read", "save", "calculate", "update"}]
    /\ \A g \in Grader : grOf[g].todo \subseteq GradeRow
    /\ entries_made \in 0 .. MaxEntries
    /\ overlapped \in BOOLEAN
    /\ intact \subseteq GradeRow /\ settled \subseteq Graduand

GradeInit ==
    /\ grades = [r \in GradeRow |-> Ungraded]
    /\ cgpa = [s \in Graduand |-> <<0, 0>>]
    /\ grPc = [g \in Grader |-> "idle"]
    /\ grOf = [g \in Grader |-> IdleEntry]
    /\ entries_made = 0
    /\ overlapped = FALSE
    /\ intact = GradeRow /\ settled = Graduand

-----------------------------------------------------------------------------
(* gradeCalculationService *)

Floor == [AA |-> 900, BA |-> 850, BB |-> 800, CB |-> 750, CC |-> 700, DC |-> 650, DD |-> 600, FD |-> 500, FF |-> 0]
gradePoints == [AA |-> 8, BA |-> 7, BB |-> 6, CB |-> 5, CC |-> 4, DC |-> 3, DD |-> 2, FD |-> 1, FF |-> 0]

(* The letter of the highest floor the average reaches. *)
calculateLetterGrade(average) ==
    CHOOSE l \in DOMAIN Floor :
        /\ Floor[l] <= average
        /\ \A k \in DOMAIN Floor : Floor[k] <= average => Floor[k] <= Floor[l]

(* The average as the DECIMAL column keeps it.                             *)
Weighted(midterm, final, homework) ==
    IF homework = -1 THEN 4 * midterm + 6 * final
                     ELSE 3 * midterm + 5 * final + 2 * homework

(* Summed in doubles some averages fall short of the number they stand for *)
(* (62 * 0.3 + 62 * 0.5 + 52 * 0.2 is 59.99999999999999).  For whole marks *)
(* that matters only where it is the floor of a letter, and no sum exceeds *)
(* one it should not reach.                                                *)
ASSUME RoundingAssumption ==
    RoundedDown \subseteq
        {mfh \in (0 .. 100) \X (0 .. 100) \X (-1 .. 100) :
            \E l \in DOMAIN Floor \ {"FF"} : Weighted(mfh[1], mfh[2], mfh[3]) = Floor[l]}

(* What the letter is looked up with, a tenth too low where the sum is.    *)
calculateAverageGrade(midterm, final, homework) ==
    Weighted(midterm, final, homework)
        - (IF <<midterm, final, homework>> \in RoundedDown THEN 1 ELSE 0)

Given(mark, stored) == IF mark = -1 THEN stored ELSE mark

WithMarks(row, marks) ==
    [row EXCEPT !.midterm = Given(marks.midterm, @), !.final = Given(marks.final, @),
                !.homework = Given(marks.homework, @)]

(* The row r with what midterm, final and homework come to. *)
WithLetter(r, midterm, final, homework) ==
    LET letter == calculateLetterGrade(calculateAverageGrade(midterm, final, homework))
    IN  [r EXCEPT !.average = Weighted(midterm, final, homework), !.letter = letter,
                  !.point = gradePoints[letter],
                  !.status = IF gradePoints[letter] >= 2 THEN "completed" ELSE "failed"]

(* A variant that looks at the marks of the request only. *)
GradedByRequest(row, marks) ==
    IF marks.midterm = -1 \/ marks.final = -1 THEN WithMarks(row, marks)
    ELSE WithLetter(WithMarks(row, marks), marks.midterm, marks.final, marks.homework)

(* The row in memory once the request's marks are set. *)
Graded(row, marks) ==
    LET r == WithMarks(row, marks)
    IN  IF r.midterm = -1 \/ r.final = -1 THEN r
        ELSE WithLetter(r, r.midterm, r.final, r.homework)

(* save() writes the columns that changed: the marks of the request, the   *)
(* average and the point whenever they were computed (a DECIMAL is read    *)
(* back as text and never equals a number), letter and status only when    *)
(* they differ from what was read.                                         *)
Saved(now, read, marks, new) ==
    LET computed == new.midterm # -1 /\ new.final # -1 IN
    [now EXCEPT !.midterm = Given(marks.midterm, @), !.final = Given(marks.final, @),
                !.homework = Given(marks.homework, @),
                !.average = IF computed THEN new.average ELSE @,
                !.point = IF computed THEN new.point ELSE @,
                !.letter = IF new.letter = read.letter THEN @ ELSE new.letter,
                !.status = IF new.status = read.status THEN @ ELSE new.status]

(* The enrolments calculateCGPA counts: a repeat counts unless it scored 0 *)
Counted(s) ==
    {r \in GradeRow : /\ OwnerOf[r] = s
                      /\ grades[r].status \in {"completed", "failed"} /\ grades[r].point # -1
                      /\ ~IsRepeat[r] \/ grades[r].point > 0}
calculateCGPA(s) ==
    <<SumFunction([r \in Counted(s) |-> grades[r].point * CreditsOf[r]]),
      SumFunction([r \in Counted(s) |-> CreditsOf[r]])>>

-----------------------------------------------------------------------------
(* The steps of an entry *)

GrGoto(g, step, of) == grPc' = [grPc EXCEPT ![g] = step] /\ grOf' = [grOf EXCEPT ![g] = of]

(* Off to the next enrolment of the request, if there is one. *)
EntryNext(g) ==
    LET rest == grOf[g].todo \ {grOf[g].at} IN
    IF rest = {} THEN GrGoto(g, "idle", IdleEntry)
    ELSE GrGoto(g, "read", [IdleEntry EXCEPT !.todo = rest, !.marks = grOf[g].marks])

(* The enrolment is through. *)
EntryDone(g) ==
    LET s == OwnerOf[grOf[g].at] IN
    /\ EntryNext(g)
    /\ settled' = IF overlapped THEN settled \ {s} ELSE settled \cup {s}

EntryStart(g, batches) ==
    /\ grPc[g] = "idle" /\ entries_made < MaxEntries
    /\ entries_made' = entries_made + 1
    /\ overlapped' = \E o \in Grader : grPc[o] # "idle"
    /\ \E rows \in batches, marks \in Entered :
          GrGoto(g, "read", [IdleEntry EXCEPT !.todo = rows, !.marks = marks])
    /\ UNCHANGED <<grades, cgpa, intact, settled>>

EntryRead(g) ==
    /\ grPc[g] = "read"
    /\ \E r \in grOf[g].todo :
          GrGoto(g, "save", [grOf[g] EXCEPT !.at = r, !.row = grades[r]])
    /\ UNCHANGED <<grades, cgpa, entries_made, overlapped, intact, settled>>

NotCalculated == "skip"
AfterSave == "calculate"

EntrySave(g) ==
    LET of == grOf[g] IN
    /\ grPc[g] = "save"
    /\ grades' = [grades EXCEPT ![of.at] = Saved(@, of.row, of.marks, Graded(of.row, of.marks))]
    /\ intact' = IF overlapped THEN intact \ {of.at} ELSE intact \cup {of.at}
    /\ \/ /\ AfterSave = "calculate"
          /\ GrGoto(g, "calculate", [of EXCEPT !.row = Ungraded])
          /\ settled' = settled \ {OwnerOf[of.at]}
       \/ AfterSave = "skip" /\ EntryDone(g)
    /\ UNCHANGED <<cgpa, entries_made, overlapped>>

GpaRead(g) ==
    /\ grPc[g] = "calculate"
    /\ GrGoto(g, "update", [grOf[g] EXCEPT !.gpa = calculateCGPA(OwnerOf[grOf[g].at])])
    /\ UNCHANGED <<grades, cgpa, entries_made, overlapped, intact, settled>>

GpaUpdate(g) ==
    /\ grPc[g] = "update"
    /\ cgpa' = [cgpa EXCEPT ![OwnerOf[grOf[g].at]] = grOf[g].gpa]
    /\ EntryDone(g)
    /\ UNCHANGED <<grades, entries_made, overlapped, intact>>

(* An error ends enterGrades; bulkEnterGrades goes on with the next one. *)
EntryFail(g) ==
    /\ g \in GrMayFail /\ grPc[g] \in {"save", "calculate", "update"}
    /\ EntryNext(g)
    /\ UNCHANGED <<grades, cgpa, entries_made, overlapped, intact, settled>>

EntrySteps(g) == EntryRead(g) \/ EntrySave(g) \/ GpaRead(g) \/ GpaUpdate(g) \/ EntryFail(g)
enterGrades(g) == EntryStart(g, {{r} : r \in GradeRow}) \/ EntrySteps(g)
bulkEnterGrades(g) == EntryStart(g, {GradeRow}) \/ EntrySteps(g)

GradeNext == \E g \in Grader : enterGrades(g) \/ bulkEnterGrades(g)
GradeSpec == GradeInit /\ [][GradeNext]_gradeVars

-----------------------------------------------------------------------------
(* What the letter and the point of an average may be: the letter of the   *)
(* highest floor the average reaches, or the one below where it is exactly *)
(* on a floor.                                                             *)
PointExplained(row) ==
    \E l \in DOMAIN Floor :
        /\ row.point = gradePoints[l] /\ Floor[l] <= row.average
        /\ \A k \in DOMAIN Floor : Floor[k] < row.average => Floor[k] <= Floor[l]

(* Whatever entries race, the point of an enrolment is that of its average *)
(* (both come from one computation, updateGrades), and one whose last save *)
(* nothing overlapped carries the average, letter, point and status that   *)
(* its own marks call for, in whatever order and number of requests they   *)
(* were entered and whatever happened to it before.                        *)
RowsExplained ==
    \A r \in GradeRow :
        LET row == grades[r] IN
        /\ row.average # -1 => PointExplained(row)
        /\ r \in intact /\ row.midterm # -1 /\ row.final # -1 =>
              /\ row.average = Weighted(row.midterm, row.final, row.homework)
              /\ row.letter \in DOMAIN Floor /\ row.point = gradePoints[row.letter]
              /\ row.status = IF row.point >= 2 THEN "completed" ELSE "failed"

(* One entry that nothing overlaps and that runs to its end makes the CGPA *)
(* of its student right, whatever overlapped or failed before it, and it   *)
(* stays so until the next save of an enrolment of that student            *)
(* (updateStudentGPA counts all the rows each time).                       *)
CgpaRepaired == \A s \in settled : cgpa[s] = calculateCGPA(s)

-----------------------------------------------------------------------------
(* Two statements of the documentation and of a comment that the code does *)
(* not keep.                                                               *)

(* An average of 60 or more passes, and so with every other letter:        *)
(* "DD (60-64)" (API_DOCUMENTATION_PART2.md:357, calculateLetterGrade).    *)
DocumentedLetters ==
    \A r \in GradeRow, l \in DOMAIN Floor :
        grades[r].average # -1 /\ grades[r].average >= Floor[l] => grades[r].point >= gradePoints[l]

(* "For repeat courses, only count the best grade"                         *)
(* (gradeCalculationService.js:201): a settled CGPA counts every course    *)
(* once, with the best of the points earned in it.                         *)
BestGradeCounts ==
    \A s \in settled :
        LET graded == {r \in GradeRow : OwnerOf[r] = s /\ grades[r].point # -1}
            best == {r \in graded : \A q \in graded :
                        OfCourse[q] = OfCourse[r] => grades[q].point <= grades[r].point}
            once == {CHOOSE r \in best : OfCourse[r] = c : c \in {OfCourse[r] : r \in graded}}
            points == SumFunction([r \in once |-> grades[r].point * CreditsOf[r]])
            credits == SumFunction([r \in once |-> CreditsOf[r]])
        IN  cgpa[s][1] * credits = points * cgpa[s][2]
=============================================================================
