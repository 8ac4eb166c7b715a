CONSTANTS
    work = work
    home = home
    ops = ops
    ext = ext
    Inboxes = {work, home}
    NoInbox = NoInbox
    Addresses = {ops, ext}
    Submissions <- MCSubmissions
    NoBody = NoBody
    MaxMsgs = 1
    Threads = {t1, t2}
    OperatorIds = {ops}
    Configs <- MCConfigs
    Stages = 1
    Faults = {"disk", "blobRead", "bounce"}
    MaxCrashes = 1
    MaxCopies = 3
SPECIFICATION Spec
SYMMETRY Handlers
INVARIANTS
    ContentMatchesRecord
    OneSendInFlight
    DuplicatesAcknowledged
    HeldUntilReleased
    DeliveredAsApproved
PROPERTIES
    VerdictIsFinal
    BounceReportsFailure
    GateSpec
