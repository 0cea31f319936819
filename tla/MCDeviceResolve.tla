--------------------------- MODULE MCDeviceResolve ---------------------------
(***************************************************************************)
(* Values of the constants of DeviceResolve.  Two devices share a name;    *)
(* the third is not in any cache; the second does not advertise SMP.       *)
(***************************************************************************)
EXTENDS DeviceResolve, TLC

CONSTANTS d1, d2, d3, sensor, lamp

Names == d1 :> sensor @@ d2 :> sensor @@ d3 :> lamp

Record(id, count, last) ==
    [id |-> id, name |-> Names[id], connect_count |-> count, last_connected |-> last]

SomeCaches ==
    {<<>>, <<Record(d1, 1, 1), Record(d2, 2, 2)>>, <<Record(d1, 1, 2), Record(d2, 1, 1)>>,
     <<Record(d2, 1, 1)>>}

Asked(listing, id, name, all, cached) ==
    [listing |-> listing, id |-> id, name |-> name, all_devices |-> all,
     use_cache |-> cached]

AllDevices ==
    {Asked(FALSE, NoId, NoName, TRUE, TRUE), Asked(FALSE, NoId, NoName, TRUE, FALSE),
     Asked(FALSE, NoId, sensor, TRUE, TRUE), Asked(FALSE, d2, lamp, TRUE, TRUE),
     Asked(TRUE, NoId, NoName, TRUE, FALSE)}

OnlySmp == {Asked(FALSE, NoId, NoName, FALSE, TRUE), Asked(FALSE, NoId, lamp, FALSE, TRUE)}

Anything == AllDevices \cup OnlySmp
=============================================================================
