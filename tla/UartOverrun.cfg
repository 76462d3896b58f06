SPECIFICATION MCSpec
CONSTANTS
    TxMax = 2
    RxMax = 2
    CountMod = 5
    InfoTexts <- MCInfoTexts
    ReadyLen = 2
    MessageLen = 3
PROPERTY OverrunCleared
