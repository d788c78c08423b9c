\* Two uploads, of two parts and of one, that create, overwrite and update
\* one file name: lost answers, errors, restarts, expiry.
CONSTANTS
    ann = ann
    a = a
    b = b
    report = report
    Users = {ann}
    UploadIds = {a, b}
    Owner <- MCOneOwner
    Name <- MCName
    PartCount <- MCParts
    Hashing = TRUE
    Retention = 1
    Habits = {}
    MaxTime = 2
    MaxMessages = 3
    MaxFiles = 2
    MaxRestarts = 1
SPECIFICATION Spec
INVARIANTS FileComplete 
CHECK_DEADLOCK FALSE
