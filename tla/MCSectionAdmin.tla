--------------------------- MODULE MCSectionAdmin ---------------------------
(* Small instances of SectionAdmin, in three parts that the initial state tells *)
(* apart.  In "seats" two students compete for the only seats of two sections   *)
(* of a course, three requests at once; in "grades" they are graded meanwhile,  *)
(* with one request of each kind; in "edits" one of the sections is edited too: *)
(* its capacity changes and it is closed and opened.                            *)
EXTENDS SectionAdmin, TLC

CONSTANTS a1, a2

VARIABLE part

MCSection  == {a1, a2}
MCCourseOf == [s \in Section |-> "A"]
MCTermOf   == [s \in Section |-> "fall"]

Busy(kind) == {r \in kind : ~Idle(r)}

(* What is under way belongs to the part. *)
InPart ==
    /\ \/ part = "seats" /\ Busy(Grader) = {} /\ Cardinality(Busy(Request)) <= 3
       \/ part # "seats" /\ \A kind \in {Enroller, Decider} : Cardinality(Busy(kind)) <= 1
    /\ part = "edits" => \A r \in Busy(Request) : row[r][2] = a1
    /\ \A a \in Admin : edit[a] # NoEdit => part = "edits" /\ edit[a].section = a1

MCInit ==
    /\ AdminInit
    /\ part \in {"seats", "grades", "edits"}
    /\ \A s \in Section : ~(part = "edits" /\ s = a1) => capacity[s] = 1 /\ is_active[s]

MCSpec == MCInit /\ [][AdminNext /\ part' = part /\ InPart']_<<adminVars, part>>

Slots == Permutations(Enroller) \cup Permutations(Decider) \cup Permutations(Student)
=============================================================================
