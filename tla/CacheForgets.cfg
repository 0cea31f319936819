SPECIFICATION Spec
CONSTANTS
    d1 = d1
    d2 = d2
    sensor = sensor
    lamp = lamp
    NoName = NoName
    Missing = Missing
    Torn = Torn
    Device = {d1, d2}
    Name = {sensor, lamp}
    NameOf <- TwoNames
    Process = {p1}
    MaxConnects = 4
    MaxKills = 1
INVARIANT RemembersAlways
CHECK_DEADLOCK FALSE
