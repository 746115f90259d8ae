SPECIFICATION Spec
CONSTANTS
    s1 = s1
    s2 = s2
    s3 = s3
    k1 = k1
    k2 = k2
    k3 = k3
    RingNode = {s1, s2, s3}
    RingKey = {k1, k2, k3}
    HashSpace = {0, 1, 2, 3, 4, 5, 6}
    Spots <- Spread
    KeyHash <- Hashes
    ShardIds <- OneShard
    HasReplica = {s1}
    MaxMissed = 2
    MaxFaults = 2
    Client = {c1, c2}
    nobody = nobody
INVARIANTS TypeOK ActiveIsWritable PromotedNodeServes
PROPERTIES FailoverIsJustified OwnReply FailoverHappens BackendIsReleased
