SPECIFICATION MCSpec
CONSTANTS
    Threads = {t1, t2, t3}
    Destroyer = D
    max_conns = 2
    Timer = timer
    Producers = {p1, p2, timer}
    Retained = {p1, p2, timer}
    Disp = disp
    Stopper = stopper
    Modes = {"reactor", "classic", "https", "h2"}
    MayBreak = TRUE
CHECK_DEADLOCK FALSE
INVARIANTS TypeOK SlotAccounting LeaseExclusive TeardownUnleased NoLostWakeup NoStaleTouch SettledOnce NothingLeaked PostsLandBeforeFree
PROPERTIES DestroyCompletes Answered
