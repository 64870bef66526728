SPECIFICATION FairSpec
CONSTANTS
    CHAN_CAP = 1
    CHUNK = 2
    RxCap = 2
    TxCap = 1
    MaxUp = 2
    MaxDown = 2
PROPERTY BytesReachProxy
PROPERTY BytesReachChild
PROPERTY ClosedIsReaped
INVARIANT UpInOrder
INVARIANT EofIsEnd
INVARIANT DownInOrder
INVARIANT NoLostWakeup
