SPECIFICATION Spec
CONSTANTS
    app = app
    job = job
    reward = reward
    p1 = p1
    Caller = {app, job}
    Maintainer = {job}
    Dim = {reward}
    Reward = reward
    Top = 1
    Presets <- MCPresets
    PinId = {p1}
    MaxEvents = 2
    MaxFaults = 1
INVARIANTS PinsLogged TemperamentRestored MoodRestored
CHECK_DEADLOCK FALSE
