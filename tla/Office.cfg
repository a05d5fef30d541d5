SPECIFICATION OfficeSpec
CONSTANTS
    Worker = {w1, w2}
    Thing = {x1, x2}
    Other = {y1, y2}
    Guest = Guest
    None = None
    Totals = {1, 2, 5, 7}
    Plans <- MCPlans
    MaxPayment = 8
    Discounts <- MCDiscounts
    User = {"founder", "clerk"}
    Founder = {"founder"}
    MaxTokens = 2
    MaxGrants = 1
    Person = {"person"}
    Offer = {"course"}
    List = {{}, {"g"}, {"h"}}
    Alike <- MCAlike
    File <- MCFile
    Tried = {"offered", "rejected", "withdrawn"}
    PlacementOn = TRUE
    MaxChanges = 4
    Label = {"a"}
    Code = {"x", "y"}
    MaxTime = 3
    MaxVersion = 2
    MaxSwitches = 3
    ValidDays = 1
    MaxDocuments = 2
    MaxDay = 3
    BranchCode <- MCBranchCode
    Pattern <- MCPattern
    Calendar <- MCCalendar
    FiscalYearStart <- MCFiscalYearStart
    Base = 2
    MaxRecords = 3
    Installment = {"new", "late"}
    DueDate <- MCDueDate
    CreatedOn <- MCCreatedOn
    FirstDay = 1
    Title <- MCTitle
    MaxPostTime = 2
    MaxPostVersion = 3
    Listed = {"students", "cohorts", "outstanding"}
    Granularity = 2
    PageSize = 1
    Date = {1, 2}
    MaxListed = 3
    LastTick = 3
    Landing = {"/", "/login", "/login/verify", "/login/setup-mfa", "/reset-password", "/accept-invite"}
    MaxRowVersion = 3
    MaxIntents = 2
    MaxPresses = 2
    Writer = {w1, w2}
    Content = {x1, x2}
    VerifyBatch = 2
    PerTransaction = 2
    MaxSeq = 4
    MaxDamage = 1
SYMMETRY MCSymmetry
INVARIANTS
    ChainNeverForks VerifierIsRight MoneyIsExact StaffIsSafe SignInIsExact RegistrationIsExact
    NumbersAreExact PagesAreExact NoDeadButton OneEffectPerIntent OwnChangesShow NoBlindOverwrite
PROPERTIES
    StagesFollowThePipeline RecordsHold SettingsHold DocumentsAreTrue RemindersAreExact
    PostsAreGuarded
CHECK_DEADLOCK FALSE
