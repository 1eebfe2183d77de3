SPECIFICATION HelpersFairSpec
INVARIANTS EndsHonestly CancelArrives TalksToTheRight AcceptedIsWhole
PROPERTIES LockHolds NoWaiterHangs AlwaysReturns EndsInTime
CONSTANTS
    Procs = {p1, p2, p3}
    NoDir = NoDir
    NoPid = NoPid
    Gone = Gone
    Stranger = Stranger
    InitDirs = {NoDir, NoPid, Gone, Stranger}
    MaxEmpty = 2
    MaxTries = 2
    Leader = leader
    Family = {leader, child}
    Requests <- MCRequests
    Ignored <- MCIgnored
    Codes = {0, 1}
    Signalled = 15
    Running = 999
    Grace = 1
    MaxSignals = 2
    MaxRss = 2
    Urls <- MCUrls
    NoPort = 0
    NoUrl = NoUrl
    Answers <- MCAnswers
    Addresses = {"public", "public6", "private"}
    Public = {"public", "public6"}
    Responses <- MCResponses
    NoLength = NoLength
    Invalid = Invalid
    NoAnswer = NoAnswer
    MaxRedirects = 3
    Timeout = 2
    Deadline = 3
    MaxBytes = 2
    MaxRatio = 2
CHECK_DEADLOCK FALSE
