SPECIFICATION HoldoutSpec
CONSTANTS
    Manual = {m1}
    Learned = {l1}
    Urls = {u1, u2}
    Fetches <- Fetched
    None = None
    MaxCaptures = 2
    MaxWork = 5
    KeepReports = 1
INVARIANTS
    HoldoutTypeOK
    RoutedWasApprovedHere
    UsableIsUntouched
    PassedIsUnseen
PROPERTIES
    DecidedOnWhatWasShown
    VerdictStands
    ValidationsEnd
CHECK_DEADLOCK FALSE
