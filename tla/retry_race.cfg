SPECIFICATION FairSpec
CONSTANTS
    r1 = r1
    r2 = r2
    hello = hello
    spam = spam
    t1 = t1
    t2 = t2
    w1 = w1
    w2 = w2
    NoJob = NoJob
    NoResult = NoResult
    NoError = NoError
    Garbage = Garbage
    NoRequest = NoRequest
    NoMessage = NoMessage
    RequestId = {r1}
    Content = {hello}
    Partition = {0}
    PartitionOf <- OnePartition
    MaxAttempts = 2
    Faults = {}
    MaxFaults = 0
    Thread = {t1}
    Worker = {w1, w2}
PROPERTIES
    DisagreementIsTemporary
