\* Two approvals race for the last seat.
CONSTANTS
    Student = {s1, s2}
    a1 = a1
    a2 = a2
    b1 = b1
    Section <- OneSection
    CourseOf <- MCCourseOf
    TermOf <- MCTermOf
    Overlap <- MCOverlap
    AllowConflicts = FALSE
    Capacities = {1}
    Enroller = {e1}
    Decider = {d1, d2}
    Grader = {}
SPECIFICATION Spec
INVARIANT NoOverbooking
