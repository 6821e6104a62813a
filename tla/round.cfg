SPECIFICATION FairSpec
CONSTANTS
    n1 = n1
    n2 = n2
    d1 = d1
    Operation = {1, 2, 3}
    Notice <- MCNotice
    Dispatcher <- MCDispatcher
    Page = 2
    NoticePage = 1
    MaxCrashes = 1
PROPERTIES
    EveryOperationIsPolled
    EveryNoticeIsFollowed
CHECK_DEADLOCK FALSE
