SPECIFICATION FairSpec
CONSTANTS
    Fnv64a <- ByteSum
    NCores = 2
    NReplicas = 2
    DataShards = 1
    Collections <- MCCollection
    Writers = {w1, w2}
    Dialer = dialer
    NoCore = NoCore
    Main = Main
    RefreshMin = 1
    Forwards = FALSE
    MaxUnwell = 1
INVARIANTS
    TypeOK
    TableWasReported
    ConnectionsOwned
PROPERTIES
    WriteEnds
    TableSettles
