SPECIFICATION Spec
CONSTANTS
    r1 = r1
    r2 = r2
    hello = hello
    spam = spam
    t1 = t1
    t2 = t2
    w1 = w1
    w2 = w2
    NoJob = NoJob
    NoResult = NoResult
    NoError = NoError
    Garbage = Garbage
    NoRequest = NoRequest
    NoMessage = NoMessage
    RequestId = {r1}
    Content = {hello, spam}
    Partition = {0}
    PartitionOf <- OnePartition
    MaxAttempts = 2
    Faults = {"worker_crash", "publish_failure", "api_failure", "eviction"}
    MaxFaults = 2
    Thread = {t1, t2}
    Worker = {w1}
SYMMETRY Symmetric
INVARIANTS
    OneContentPerJob
    ResultMatchesFingerprint
