CONSTANTS
    Shapes <- Slim
    Faults = {"busy"}
    Cap = 1
    LongBits = 4
    MaintEvery = 2
    MaxShown = 2
SPECIFICATION Spec
INVARIANT InTxnIsOpenTransaction
