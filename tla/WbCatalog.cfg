SPECIFICATION CatalogSpec
CONSTANTS
    c1 = c1
    c2 = c2
    none = none
    Accounts <- MCAccounts
    Callers = {c1, c2}
    None = none
    MaxTokens = 3
    V3Routes = 3
    EntPaths = 2
SYMMETRY CallerSymmetry
INVARIANTS CatalogInv StoredIsAccepted OneFetch EmptyPoolShowsNothing
PROPERTIES RefreshesRight
