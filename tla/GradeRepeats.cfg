\* A course failed and repeated, the entries served one after the other.
CONSTANTS
    first = first
    again = again
    GradeRow <- Both
    Graduand <- Student
    OwnerOf <- Owner
    OfCourse <- SameCourse
    CreditsOf <- Credits
    IsRepeat <- Repeats
    Entered <- FailThenPass
    RoundedDown <- FallsShort
    Grader = {x1}
    GrMayFail = {}
    MaxEntries = 2
SPECIFICATION GradeSpec
INVARIANT BestGradeCounts
CHECK_DEADLOCK FALSE
