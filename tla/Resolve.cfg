SPECIFICATION FairSpec
CONSTANTS
    d1 = d1
    d2 = d2
    d3 = d3
    sensor = sensor
    lamp = lamp
    NoName = NoName
    NoId = NoId
    Device = {d1, d2, d3}
    Name = {sensor, lamp}
    NameOf <- Names
    SmpDevices = {d1, d3}
    Caches <- SomeCaches
    Options <- Anything
    MaxEvents = 4
INVARIANTS PreferredWins UnknownOnlyFiltered FindsWhatItSaw
PROPERTIES Returns
CHECK_DEADLOCK FALSE
