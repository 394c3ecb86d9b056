SPECIFICATION FairSpec
CONSTANTS
    Users = {u1, u2}
    Mails = {m1, m2}
    HttpThreads = {h1}
    SmtpThreads = {s1, s2}
    NoBox = NoBox
    NoThread = NoThread
    MaxTos = 2
    MaxFails = 1
    MaxDeletes = 1
INVARIANTS TypeOK IdsIncrease KeepsWhatItSaid HarmHasCause
PROPERTIES JobsEnd
