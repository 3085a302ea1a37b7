------------------------- MODULE EnrollmentLifecycle -------------------------
(***************************************************************************)
(* What the registrar expects of course enrolment, each request taking     *)
(* effect in one step: a student asks for a free seat in one section of a  *)
(* course, the instructor grants or refuses it while a seat is free, and a *)
(* drop gives the seat back.  Enrollment implements this when decisions    *)
(* are served one at a time and nobody is graded.                          *)
(***************************************************************************)
EXTENDS Integers, FiniteSets

CONSTANTS
    Row,              \* the enrolments there can be
    SectionOf(_),     \* the section of an enrolment
    Alternatives(_),  \* the same student's enrolments in the other sections of that offering
    Section

VARIABLES
    status,           \* [Row -> status]
    seats,            \* [Section -> Nat]: seats taken
    capacity,
    open              \* sections that accept requests

vars == <<status, seats, capacity, open>>

HasSeat(s) == seats[s] < capacity[s]

Init ==
    /\ status = [e \in Row |-> "none"]
    /\ seats = [s \in Section |-> 0]
    /\ capacity \in [Section -> Nat]
    /\ open \in [Section -> BOOLEAN]

Become(e, new, delta) ==
    /\ status' = [status EXCEPT ![e] = new]
    /\ seats' = [seats EXCEPT ![SectionOf(e)] = @ + delta]
    /\ UNCHANGED <<capacity, open>>

Ask(e) ==
    /\ status[e] = "none"
    /\ open[SectionOf(e)]
    /\ HasSeat(SectionOf(e))
    /\ \A f \in Alternatives(e) : status[f] \notin {"pending", "enrolled"}
    /\ Become(e, "pending", 0)

Grant(e) == status[e] = "pending" /\ HasSeat(SectionOf(e)) /\ Become(e, "enrolled", 1)

Refuse(e) == status[e] = "pending" /\ Become(e, "rejected", 0)

Leave(e) == status[e] = "enrolled" /\ Become(e, "dropped", -1)

Next == \E e \in Row : Ask(e) \/ Grant(e) \/ Refuse(e) \/ Leave(e)

Spec == Init /\ [][Next]_vars
=============================================================================
