\* One entry of marks whose weighted average is 60.
CONSTANTS
    first = first
    again = again
    GradeRow <- Both
    Graduand <- Student
    OwnerOf <- Owner
    OfCourse <- SameCourse
    CreditsOf <- Credits
    IsRepeat <- Repeats
    Entered <- OnTheFloor
    RoundedDown <- FallsShort
    Grader = {x1}
    GrMayFail = {}
    MaxEntries = 1
SPECIFICATION GradeSpec
INVARIANT DocumentedLetters
CHECK_DEADLOCK FALSE
