\* Two overlapping sections are requested before either is approved.
CONSTANTS
    Student = {s1}
    a1 = a1
    a2 = a2
    b1 = b1
    Section <- AandB
    CourseOf <- MCCourseOf
    TermOf <- MCTermOf
    Overlap <- MCOverlap
    AllowConflicts = FALSE
    Capacities = {1}
    Enroller = {e1}
    Decider = {d1}
    Grader = {}
SPECIFICATION Spec
INVARIANT NoOverlappingEnrolments
