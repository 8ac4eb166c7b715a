CONSTANTS
    work = work
    home = home
    ops = ops
    ext = ext
    Inboxes = {work, home}
    NoInbox = NoInbox
    Addresses = {ops, ext}
    Submissions <- MCSubmissions
    NoBody = NoBody
    MaxMsgs = 1
    Threads = {t1, t2}
    OperatorIds = {ops}
    Configs <- MCConfigs
    Stages = 1
    Faults = {}
    MaxCrashes = 1
    MaxCopies = 2
SPECIFICATION FairSpec
INVARIANTS
    ClaimHeld
PROPERTIES
    ClaimReleased
    ApprovalConcludes
