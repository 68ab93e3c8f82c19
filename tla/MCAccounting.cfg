SPECIFICATION Spec
CONSTANTS
    None = None
    Window = 6
    Trigger = 4
    Limit = 3
    Budget = 5
    Reminder = 3
    UpdateEvery = 2
    Floor = 3
    MaxResult = 2
    MaxDoublings = 1
    MaxSilent = 1
INVARIANT StormBounded
INVARIANT CountersSound
PROPERTY TurnSound
