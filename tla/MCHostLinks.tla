---------------------------- MODULE MCHostLinks ----------------------------
(***************************************************************************)
(* A small instance of HostLinks: bytes of 32 values.                      *)
(***************************************************************************)
EXTENDS HostLinks

MCMagic == <<7, 8>>

Real(x) == [finite |-> TRUE, tenths |-> x]
NotFinite == [finite |-> FALSE, tenths |-> 0]
Deg(d) == Real(d * 10 * DegScale)

Measured(lat, lon, speed, spm) == [lat |-> lat, lon |-> lon, speed |-> speed, spm |-> spm]

\* Ordinary numbers, and numbers that are negative, too large or missing.
OfC1 == << Measured(Real(-223456), Real(999996), Real(305), Real(724)),
           Measured(Deg(45), Deg(9), Real(10), Real(10)),
           Measured(NotFinite, Deg(-100), Real(10 * MaxU32 + 7), Real(600)) >>
OfUdp == << Measured(Real(1), Real(-5), Real(35), NotFinite),
            Measured(Deg(45), Deg(9), Real(10), Real(10)),
            Measured(Deg(45), Deg(9), Real(10), Real(10)) >>

MCReading(from, n) == IF from = "c1" THEN OfC1[n] ELSE OfUdp[n]

Struct(timestamp, lat, lon, speed, spm, dps) ==
  [timestamp_ms |-> timestamp, lat_e7 |-> lat, lon_e7 |-> lon, speed_mm_s |-> speed,
   spm_x100 |-> spm, dps_x100 |-> dps, telemetry_flags |-> 0]

\* What the firmware's stand-in for sensors gives, and numbers at the ends of their types.
OfC2 == << Struct(1, -90 * DegScale, 114 * DegScale, 0, MaxU16, 0),
           Struct(1000, 0, 0, 310, 612, 250),
           Struct(MaxU32, -(MaxU32 + 1) \div 2, -1, MaxU32, 0, MaxU16) >>

MCCollected(from, n) == OfC2[n]

\* A boat in the east of China.
EastReading(from, n) == Measured(Deg(22), Real(113974 * 10), Real(350), Real(720))
=============================================================================
