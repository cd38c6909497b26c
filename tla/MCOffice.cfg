SPECIFICATION PackedSpec
CONSTANTS
    r1 = r1
    r2 = r2
    Users <- TwoUsers
    Sheets = {1}
    Rows <- TwoRows
    Books = {"book"}
    Tolerance = 1
    Date <- Days
    Amount <- Sums
    MaxLines = 2
    MaxRequests = 4
    Staff = {"ann", "ben"}
    Owners = {"ann"}
    Regular = "month"
    Others = {"extra"}
    Employees = {"ada"}
    Salaries = {8, 16}
    Loan = 6
    Installment = 4
    Worth <- OneOff
    Bands <- TaxBands
    Periods = 2
    Plans <- PayPlans
    Leaves = {1, 2}
    LeaveDays = {2}
    Ceiling = 5
    Share = 2
    MaxOps = 5
    References = {"first", "second"}
    MaxActivates = 3
    Clients = {"client"}
    Own = "partner"
    Payments = {1, 2}
    TrialDays = 1
    PeriodDays = 1
    Price = 2
    Commission = 1
    Horizon = 2
    MaxJobs = 4
SYMMETRY Symmetry
INVARIANTS OfficeTypeOK    GrantsArePaid
PROPERTIES SignedOffStays
CHECK_DEADLOCK FALSE
