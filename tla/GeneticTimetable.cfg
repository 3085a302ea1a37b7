SPECIFICATION GaSpec
CONSTANTS
    Course <- C16
    taughtBy <- Teachers
    Hall <- Halls
    HallSize <- Ten
    CourseSize <- Eight
    Slot <- Slots
    Preferred <- AllPreferred
    Founders <- MCFounders
    MAX_GENERATIONS = 2
    ELITISM_COUNT = 1
INVARIANT AcceptedIsFeasible
CHECK_DEADLOCK FALSE
