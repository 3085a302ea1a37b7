\* In parts: two decisions for two seats, grade entries, edits of a section.
CONSTANTS
    Student = {s1, s2}
    a1 = a1
    a2 = a2
    Section <- MCSection
    CourseOf <- MCCourseOf
    TermOf <- MCTermOf
    Overlap = {}
    AllowConflicts = FALSE
    Capacities = {1, 2}
    Enroller = {e1, e2}
    Decider = {d1, d2}
    Grader = {g1}
    Admin = {m1}
SPECIFICATION MCSpec
SYMMETRY Slots
INVARIANT AdminTypeOK
INVARIANT OverbookingBounded
INVARIANT OnePendingPerOffering
PROPERTY AdmissionHolds
