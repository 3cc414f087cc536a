SPECIFICATION FairSpec
CONSTANTS
    Students <- TwoStudents
    CourseOf <- MCCourseOf
    Direction <- MCDirection
    Courses <- MCCourses
    Enrolled <- MCEnrolled
    Roles <- MCRoles
    Profile <- MCProfile
    Children <- MCChildren
    Ask <- MCAsk
    Loads <- MCLoads
INVARIANTS
    TypeOK
    TransferDelivers
    FreshOnlyWhenNew
    AnswersAddUp
PROPERTIES
    EnrollmentsKept
    RequestsEnd
CHECK_DEADLOCK FALSE
