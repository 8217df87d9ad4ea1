SPECIFICATION Spec
CONSTANTS
    Crawlers = {"engineering", "science", "medicine", "ai", "glc", "underwood", "business"}
    Styles <- AllStyles
    Modes = {"sync", "async"}
    Posts = {1, 2}
    IdOf <- MCId
    BoxOf <- MCBox
    PageSize = 2
    BoxSize = 1
    MaxCrawls = 2
INVARIANTS TypeOK OneRowPerPosting NoKeyTwice ErrorPagesStayOut
PROPERTIES RowKeepsPosting ReadIsStored
CHECK_DEADLOCK FALSE
