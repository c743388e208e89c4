---------------------------- MODULE MCHourlyRollup ----------------------------
EXTENDS HourlyRollup, TLC

\* The hour that no run sums up before the model ends has no readings.
UpTo == [h \in Hours |-> CASE h = 0 -> 3 [] h = MaxHour -> 0 [] OTHER -> 2]

\* No property tells one device or one run from another, and none is a liveness property.
Alike == Permutations(Devices) \cup Permutations(Runs)
=============================================================================
