SPECIFICATION FairDeliverySpec
CONSTANTS
    sizeFieldLength = 3
    MaxNotifications = 3
    MaxAnswers = 2
    Packet <- MCPacket
    SizeOf <- MCSizeOf
INVARIANT DeliveryInv
PROPERTIES
    ImplementsChannel
    QueuedArrives
CHECK_DEADLOCK FALSE
