\* Decisions one at a time, enrolment requests racing, nobody graded.  No symmetry: liveness.
CONSTANTS
    Student = {s1, s2}
    a1 = a1
    a2 = a2
    b1 = b1
    Section <- TwoOfA
    CourseOf <- MCCourseOf
    TermOf <- MCTermOf
    Overlap <- MCOverlap
    AllowConflicts = FALSE
    Capacities = {1}
    Enroller = {e1, e2}
    Decider = {d1}
    Grader = {}
SPECIFICATION FairSpec
INVARIANT TypeOK
INVARIANT CountIsHeads
INVARIANT OneActivePerOffering
PROPERTY ImplementsLifecycle
PROPERTY EveryRequestAnswered
