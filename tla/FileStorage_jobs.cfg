\* One user with careless habits: where messages are lost sight of, and
\* whether the cron jobs get through.
CONSTANTS
    ann = ann
    a = a
    b = b
    report = report
    Users = {ann}
    UploadIds = {a, b}
    Owner <- MCOneOwner
    Name <- MCName
    PartCount <- MCOnePart
    Hashing = TRUE
    Retention = 1
    Habits = {"byparts", "logout"}
    MaxTime = 2
    MaxMessages = 2
    MaxFiles = 1
    MaxRestarts = 0
SPECIFICATION Spec
INVARIANT MessageAccounted
PROPERTIES PendingPurged ExpiredPurged
CHECK_DEADLOCK FALSE
