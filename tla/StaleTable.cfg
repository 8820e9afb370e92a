SPECIFICATION FairSpec
CONSTANTS
    Fnv64a <- ByteSum
    NCores = 2
    NReplicas = 3
    DataShards = 1
    Collections <- MCCollection
    Writers = {w1}
    Dialer = dialer
    NoCore = NoCore
    Main = Main
    RefreshMin = 1
    Forwards = TRUE
    MaxUnwell = 1
PROPERTY
    TableSettles
