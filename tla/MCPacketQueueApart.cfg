SPECIFICATION Spec
CONSTANTS
    Size = 3
    Producer = {process, command, sender}
    Self = sender
    Null = Null
    Arrival = "apart"
    MaxPackets = 6
PROPERTY
    LosesOldestFirst
