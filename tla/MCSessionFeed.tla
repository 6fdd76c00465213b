---- MODULE MCSessionFeed ----
EXTENDS SessionFeed, TLC

\* Records as upstream sends them; fields a run does not vary are null.
NullCar     == [c \in DOMAIN CarLimits |-> Null]
NullSectors == [s \in Sectors |-> Null]

Car(d, t, speed) == [endpoint |-> "car_data", date |-> t, driver_number |-> d,
                     car |-> [NullCar EXCEPT !.speed = speed]]
At(d, t, x, y)   == [endpoint |-> "location", date |-> t, driver_number |-> d, x |-> x, y |-> y]
Lap(d, t, n, time, s1, s2) ==
    [endpoint |-> "laps", date |-> t, driver_number |-> d, lap_number |-> n,
     lap_duration |-> time, sectors |-> [NullSectors EXCEPT !.s1 = s1, !.s2 = s2]]
Place(d, t, n)   == [endpoint |-> "position", date |-> t, driver_number |-> d, position |-> n]
Gap(d, t, gap)   == [endpoint |-> "intervals", date |-> t, driver_number |-> d,
                     gap_to_leader |-> gap, interval |-> Null]
Air(t, degrees)  == [endpoint |-> "weather", date |-> t, driver_number |-> Null,
                     air_temperature |-> degrees, track_temperature |-> Null, rainfall |-> Null]
Flag(t, text)    == [endpoint |-> "race_control", date |-> t, driver_number |-> Null,
                     lap_number |-> Null, message |-> text]
Meta             == [endpoint |-> "sessions", date |-> Num(0), driver_number |-> Null]

MCDrivers == {1, 2}

W(n) == Num(10 * n)

\* A lap published twice as it progresses, a second lap that is faster, another
\* driver's equal time, corrected; readings that are and are not measurements.
MCRaws ==
    {Lap(W(1), Num(1), W(1), Null, Num(3), Null),
     Lap(W(1), Num(1), W(1), Num(9), Null, Num(4)),
     Lap(W(1), Num(2), W(2), Num(8), Num(4), Null),
     Lap(W(2), Num(1), W(1), Num(8), Num(3), Num(0)),
     Place(W(1), Num(3), Numeral(10)),
     Gap(W(1), Num(3), Num(0)),
     Gap(W(1), Num(4), Laps(2)),
     Gap(W(1), Null, Num(2)),
     Car(W(1), Num(2), W(401)),
     Car(W(1), Num(1), Num(4009)),
     Car(W(2), Num(1), Infinity),
     At(W(2), Num(1), Num(0), Num(0)),
     At(W(2), Num(1), Num(0), Num(1)),
     Air(Num(2), Num(20)),
     Lap(W(2), Num(1), Num(15), Num(9), Null, Null),
     Flag(Num(2), ""),
     Meta}
====
