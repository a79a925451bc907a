CONSTANTS
    Olt = olt1
    Onus = {onu1, onu2}
    Devices = {olt1, onu1, onu2}
    Talkers = {onu1}
    Eth = eth2
    Interfaces = {eth2}
    Filter <- Wanted
    MaxCalls = 2
    MaxLost = 1
    MaxRepeated = 1
    MaxExtra = 1
SPECIFICATION Spec
INVARIANTS AdoptedOnce LastDataIsStored ListensUnlessMissed AnswerIsFresh
PROPERTIES Provisioned ShutdownEnds
CHECK_DEADLOCK FALSE
