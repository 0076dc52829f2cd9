----------------------------- MODULE Telemetry -----------------------------
(***************************************************************************)
(* From what a boat measures to the telemetrySummary payload and back:     *)
(* src/src/metrics/telemetry-scale.ts and dps.ts, src/src/codec/payload.ts,*)
(* and the firmware's struct of src/firmware/boatconnect_frame_v1.h.       *)
(*                                                                         *)
(* A measured number is a real in the code.  Here it is a whole number of  *)
(* tenths of the unit it has on the wire, or not finite; floating-point    *)
(* errors are left out.  Base is the number of values of a byte, so that   *)
(* the widths can be small.                                                *)
(***************************************************************************)
EXTENDS Integers, Sequences

CONSTANTS
  Base,      \* values of a byte: 256
  DegScale,  \* wire units per degree: 10^7
  DpsScale   \* 600: dpsX100 = DpsScale * speedMmS / spmX100

ASSUME TelemetryAssumption ==
  /\ Base \in Nat \ {0, 1} /\ Base % 2 = 0 /\ DegScale \in Nat \ {0} /\ DpsScale \in Nat

MaxU16 == Base * Base - 1
MaxU32 == Base * Base * Base * Base - 1
Int32 == LET half == (Base \div 2) * Base * Base * Base IN -half..(half - 1)
LatLonLimit == 100 * DegScale   \* 1_000_000_000

Rounded(x) == (x + 5) \div 10
Clamped(x, lo, hi) == IF x < lo THEN lo ELSE IF x > hi THEN hi ELSE x

latLonToE7(deg) ==
  IF ~deg.finite THEN 0 ELSE Clamped(Rounded(deg.tenths), -LatLonLimit, LatLonLimit)

\* Wrong on purpose: nothing keeps the number within its field.
speedMpsToMmSUnbounded(mps) ==
  IF ~mps.finite \/ mps.tenths < 0 THEN 0 ELSE Rounded(mps.tenths)

speedMpsToMmS(mps) ==
  IF ~mps.finite \/ mps.tenths < 0 THEN 0 ELSE Clamped(Rounded(mps.tenths), 0, MaxU32)

spmToX100(spm) ==
  IF ~spm.finite \/ spm.tenths < 0 THEN 0 ELSE Clamped(Rounded(spm.tenths), 0, MaxU16)

dpsX100FromSpeedMmSAndSpmX100(speedMmS, spmX100) ==
  IF spmX100 = 0 THEN 0
  ELSE Clamped((2 * DpsScale * speedMmS + spmX100) \div (2 * spmX100), 0, MaxU16)

Summary(timestampMs, lat, lon, speed, spm, flags) ==
  LET mm == speedMpsToMmS(speed)
      x100 == spmToX100(spm)
  IN  [timestampMs |-> timestampMs, latE7 |-> latLonToE7(lat), lonE7 |-> latLonToE7(lon),
       speedMmS |-> mm, spmX100 |-> x100,
       dpsX100 |-> dpsX100FromSpeedMmSAndSpmX100(mm, x100), telemetryFlags |-> flags]

-----------------------------------------------------------------------------
(***************************************************************************)
(* The payload: little-endian fields, of which each keeps the low bytes of *)
(* what it is given.                                                       *)
(***************************************************************************)
Bytes(x, size) ==
  LET rest[i \in 0..size] == IF i = 0 THEN x ELSE rest[i - 1] \div Base
  IN  [i \in 1..size |-> rest[i - 1] % Base]

encodeTelemetrySummary(t) ==
  Bytes(t.timestampMs, 8) \o Bytes(t.latE7, 4) \o Bytes(t.lonE7, 4) \o Bytes(t.speedMmS, 4)
    \o Bytes(t.spmX100, 2) \o Bytes(t.dpsX100, 2) \o Bytes(t.telemetryFlags, 2)

\* The firmware's struct: every field has its width, nothing is scaled or rounded.
BcTelemetrySummaryV1 ==
  [timestamp_ms : 0..MaxU32, lat_e7 : Int32, lon_e7 : Int32, speed_mm_s : 0..MaxU32,
   spm_x100 : 0..MaxU16, dps_x100 : 0..MaxU16, telemetry_flags : 0..MaxU16]

\* The struct in memory, packed and little-endian, as memcpy takes it.
StructBytes(t) ==
  Bytes(t.timestamp_ms, 8) \o Bytes(t.lat_e7, 4) \o Bytes(t.lon_e7, 4)
    \o Bytes(t.speed_mm_s, 4) \o Bytes(t.spm_x100, 2) \o Bytes(t.dps_x100, 2)
    \o Bytes(t.telemetry_flags, 2)

Unsigned(s) ==
  LET value[i \in 1..(Len(s) + 1)] ==
        IF i > Len(s) THEN 0 ELSE value[i + 1] * Base + s[i]
  IN  value[1]

Signed(s) ==
  LET top == Len(s)
  IN  Unsigned([s EXCEPT ![top] = IF @ >= Base \div 2 THEN @ - Base ELSE @])

\* The size was tested by decodeFrame.
decodeTelemetrySummary(p) ==
  LET at(offset, size) == SubSeq(p, offset + 1, offset + size)
  IN  [timestampMs |-> Unsigned(at(0, 8)), latE7 |-> Signed(at(8, 4)),
       lonE7 |-> Signed(at(12, 4)), speedMmS |-> Unsigned(at(16, 4)),
       spmX100 |-> Unsigned(at(20, 2)), dpsX100 |-> Unsigned(at(22, 2)),
       telemetryFlags |-> Unsigned(at(24, 2))]
=============================================================================
