SPECIFICATION Spec
CONSTANTS
    Crawlers = {"underwood"}
    Styles <- PlainBoard
    Modes = {"sync", "async"}
    Posts = {1, 2}
    IdOf <- MCId
    BoxOf <- MCBox
    PageSize = 2
    BoxSize = 2
    MaxCrawls = 2
PROPERTIES NoDuplicateNotice
CHECK_DEADLOCK FALSE
