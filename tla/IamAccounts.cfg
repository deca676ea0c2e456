SPECIFICATION QuerySpec
CONSTANTS
    l1 = l1
    l2 = l2
    l3 = l3
    a1 = a1
    a2 = a2
    s1 = s1
    s2 = s2
    e1 = e1
    e2 = e2
    judge = judge
    secretary = secretary
    Logins = {l1, l2}
    Admins = {a1, a2}
    Subjects = {s1, s2}
    Emails = {e1}
    Blank = Blank
    Roles = {judge}
    Absent = Absent
    MaxVersion = 3
CHECK_DEADLOCK FALSE
SYMMETRY MCSymmetry
INVARIANTS
    OneAccountPerSubject
    LoginAnswersItsAccount
    EventsBalanceGrants
    LoserIsLoggedIn
PROPERTIES
    SuspensionSticks
    AnswerIsOfTheCall
