SPECIFICATION FairSpec
CONSTANTS
    Slots = {s1, s2}
    Threads = {t1, t2, main}
    Main = main
    Modes = {TRUE}
    MaxPosts = 4
    Null = Null
INVARIANTS TypeOK ListIsSound NothingLeftBehind
PROPERTIES RunsInOrder MailIsDelivered
