SPECIFICATION Spec
CONSTANTS
    Books = {1, 2, 3}
    title <- MCTitle
    author <- MCAuthor
    series <- MCSeries
    seriesIndex <- MCSeriesIndex
    modTime <- MCModTime
    Scans = {{1, 2, 3}, {1, 3}}
    Queries = {{1, 2, 3}}
    Limits = {1}
    Offsets = {0}
    Web = {w1}
    Sorters = {w1}
    Runs = {c1}
    SortNames = {"title-asc", "modified-desc", "none"}
    MaxBookPage = 2
    MaxLists = 2
    None = None
CHECK_DEADLOCK FALSE
INVARIANT EveryBookListed
