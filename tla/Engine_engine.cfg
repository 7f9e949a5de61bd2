CONSTANTS
    Unlimited = Unlimited
    Arguments <- CommandLines
    MaxWait = 1
SPECIFICATION FairSpec
CHECK_DEADLOCK FALSE
INVARIANTS
    OkIsAll
PROPERTIES
    GenerationIsNotCut
    NoLateCall
    EndsByItself
    QuitIsHonoured
