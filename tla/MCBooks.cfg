SPECIFICATION BooksSpec
CONSTANTS
    u1 = u1
    u2 = u2
    d1 = d1
    Users <- SomeUsers
    Entries = {1, 2}
    Months = {1}
    Docs <- SomeDocs
    DocMonth <- AllInMonthOne
    Today = 1
    MaxRequests = 4
INVARIANTS BooksTypeOK OneEntryPerEvent PostedDocsAreInLedger OpeningIsBooked   SentTwiceDoneOnce
PROPERTY HistoryStays
SYMMETRY Sym
CHECK_DEADLOCK FALSE
