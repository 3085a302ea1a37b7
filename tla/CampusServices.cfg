SPECIFICATION CampusSpec
CONSTANTS
    lesson1 = lesson1
    lesson2 = lesson2
    lesson3 = lesson3
    teacher1 = teacher1
    pupil1 = pupil1
    Pupil = {pupil1}
    Lesson = {lesson1, lesson2, lesson3}
    Key <- MCKey
    Teacher = {teacher1, teacher2}
    Device = {d1}
    Reviewer = {r1, r2}
    MayFail = {r1, d1}

    meal1 = meal1
    meal2 = meal2
    meal3 = meal3
    diner1 = diner1
    diner2 = diner2
    Diner = {diner1, diner2, diner3}
    Ticket = {meal1, meal2, meal3}
    Guest = {g1, g2}
    Clerk = {c1, c2}
    NoDiner = nobody
    MaxScans = 3

    Visitor = {v1, v2}
    AcMayFail = {v1}
    MAX_ATTEMPTS = 3
    TryBound = 7
    MaxSecond = 2
    MaxPassword = 1
    Email = {mail1, mail2}
    Number = {no1, no2}

    Booking = {booking1, booking2, booking3, booking4}
    Booker = {k1, k2}
    Decider = {o1, o2}
    LastHour = 3

    hall1 = hall1
    hall2 = hall2
    Course <- MCCourses
    Instructor = {i1, i2}
    Nobody = nobody
    Enrollee = {e1, e2}
    Hall = {hall1, hall2}
    HallSize <- MCHallSize
    CourseSize <- MCCourseSize
    Slot = {s1, s2}

    entry1 = entry1
    entry2 = entry2
    entry3 = entry3
    Entry = {entry1, entry2, entry3}
    code1 = code1
    Code = {code1, code2}
    admin1 = admin1
    Admin = {admin1, admin2}
    CatMayFail = {admin1}

    row1 = row1
    row2 = row2
    student1 = student1
    GradeRow = {row1, row2}
    Graduand = {student1}
    OwnerOf <- MCOwnerOf
    CreditsOf <- MCCreditsOf
    OfCourse <- MCOfCourse
    RoundedDown <- MCRoundedDown
    IsRepeat <- MCIsRepeat
    Entered <- MCEntered
    Grader = {x1, x2}
    GrMayFail = {x1}
    MaxEntries = 3

    note2 = note2
    person1 = person1
    Person = {person1, person2}
    Note = {note1, note2}
    Endpoint = {end1}
    Desk = {q1, q2}
    Herald = {h1}

    approver1 = approver1
    Lecture = {l1, l2}
    Placeable = {l1}
    Approver = {approver1, approver2}
    Viewer = {vw1}
    Backfill = {bf1}
INVARIANTS
    CampusTypeOK
    ActiveSessionsBounded
    AbsencesAddUp
    ServedBounded
    OwnedByInvitation
    GiftsBounded
    SessionsEndWithReset
    TriesBounded
    WholeRegistrations
    CrowdBounded
    TimetableFeasible
    FailureIsReal
    PrerequisitesExact
    CopiesBounded
    RowsExplained
    CgpaRepaired
    OptOutRespected
    ScheduleCopiesBounded
PROPERTIES
    ExcusedStaysExcused
    ApprovedIsRecorded
CHECK_DEADLOCK FALSE
