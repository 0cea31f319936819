SPECIFICATION Spec
CONSTANTS
    d1 = d1
    d2 = d2
    sensor = sensor
    lamp = lamp
    NoName = NoName
    Missing = Missing
    Torn = Torn
    Device = {d1, d2}
    Name = {sensor, lamp}
    NameOf <- TwoNames
    Process = {p1, p2}
    MaxConnects = 4
    MaxKills = 1
INVARIANTS TypeOK CountsConnections PrefersMostUsed NeverOvercounts OneRecordEach
CHECK_DEADLOCK FALSE
