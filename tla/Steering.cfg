SPECIFICATION FairSpec
CONSTANTS
    Steers = {s1, s2}
    NoSteer = NoSteer
    MaxGens = 2
    QueueMax = 2
    MaxFaults = 1
INVARIANTS WellKept DeliveredOnce InstructionOrder
PROPERTIES ReceiptsAreFinal WordsComeBack
CHECK_DEADLOCK FALSE
