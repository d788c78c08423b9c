\* The check command beside two uploads of one part.
CONSTANTS
    ann = ann
    report = report
    Users = {ann}
    UploadIds = {a, b}
    Owner <- MCOwner
    Name <- MCName
    PartCount <- MCOnePart
    Hashing = TRUE
    Retention = 1
    Habits = {}
    MaxTime = 0
    MaxMessages = 2
    MaxFiles = 2
    MaxRestarts = 0
    BatchSize = 1
    Options <- MCOptions
    MaxChecks = 1
SPECIFICATION CheckSpec
PROPERTIES IntactKept LitterSwept 
CHECK_DEADLOCK FALSE
