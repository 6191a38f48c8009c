SPECIFICATION Spec
CONSTANTS
    Gateways = {g1}
    Requests = {h1}
    Adrift = {s1}
    Accounts = {a1, a2}
    DevAccount = DevAccount
    Ann = Ann
    ann = ann
    bo = bo
    bad = bad
    Names = {Ann, ann, bo, bad}
    ValidNames = {Ann, ann, bo}
    Fold <- MCFold
    MaxCharacters = 1
    MaxId = 2
    MaxBusy = 2
    NoAccount = NoAccount
    NoJob = NoJob
    NoCharacter = NoCharacter
    NoAnswer = NoAnswer
SYMMETRY AccountsAndCases
INVARIANTS
    IInv
    AccountsApart
    AcknowledgedHolds
PROPERTIES
    StoresAreTables
