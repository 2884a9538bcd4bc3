------------------------------ MODULE Metering ------------------------------
(***************************************************************************)
(* The arithmetic of the controller's metering task: from a channel's sum  *)
(* of squares over one mains cycle to an RMS value, a verdict on the MCB   *)
(* and the six bytes of a report (DAQ.c, DAQ.h, main.c).  Pure operators:  *)
(* the modules with state are built from them.                             *)
(***************************************************************************)
EXTENDS Integers, Sequences

CONSTANT MaxUInt32      \* the largest uint32_t; TLC's integers are narrower

ASSUME WordAssumption == /\ MaxUInt32 \in Nat
                         /\ MaxUInt32 \div 65536 < 65536

(***************************************************************************)
(* The three channels: ADC_CRNT (line current), ADC_VOLT1 (before the MCB) *)
(* and ADC_VOLT2 (after it).  A reading or a measurement maps each channel *)
(* to a number.                                                            *)
(***************************************************************************)
Channel == {"crnt", "volt1", "volt2"}

Zero == [c \in Channel |-> 0]

\* init_MeasurementTask: g_ulDaq_CalibrationMS
Gain(c) == IF c = "crnt" THEN 29402 ELSE 113

\* The right shifts of DAQ_20msTask, as divisors
Divisor(c) == IF c = "crnt" THEN 1024 ELSE 32768

\* (s * gain) >> shift in 64 bits, arranged so that no partial product is
\* as large as s * gain (theorem ScaledIsProduct)
Scaled(c, s) == (s \div Divisor(c)) * Gain(c)
                  + ((s % Divisor(c)) * Gain(c)) \div Divisor(c)

\* ... and the cast of the result to uint32_t
MeanSqr(c, s) == Scaled(c, s) % (MaxUInt32 + 1)

\* What two bytes hold
MaxUInt16 == 65535

\* sqrt() of a uint32_t, truncated to an integer by the assignment (the bound of the
\* search is above every root: no r is above r * r \div 100 + 100)
ISqrt(n) == CHOOSE r \in 0..(n \div 100 + 100) : r * r <= n /\ n < (r + 1) * (r + 1)

\* NOLOAD_CURR_RMS and NOLOAD_VOLT: small values are taken as nothing
NoLoad(c, r) == IF c = "crnt" THEN r <= 50 ELSE r < 10

RMS(c, n) == IF NoLoad(c, ISqrt(n)) THEN 0 ELSE ISqrt(n)

(***************************************************************************)
(* bTripFlag, and the Status byte that repeats it.                         *)
(***************************************************************************)
PowerOK == 0
Tripped == 1
NoPower == 2

Verdict(m) == IF m["volt1"] > 200 /\ m["volt2"] < 150 THEN Tripped
              ELSE IF m["volt1"] < 50 THEN NoPower
              ELSE PowerOK

\* a plausible mistake in Peak: the comparison turned round
BugPeak(peak, m) == IF peak["crnt"] >= m["crnt"] THEN m ELSE peak

\* The peak hold: a measurement replaces a peak of no more current
Peak(peak, m) == IF peak["crnt"] <= m["crnt"] THEN m ELSE peak

(***************************************************************************)
(* The report on the serial line: a status, the current in two bytes, one  *)
(* byte per voltage and a newline.                                         *)
(***************************************************************************)
Byte == 0..255
Newline == 10

CurrentHigh(m) == (m["crnt"] \div 256) % 256
CurrentLow(m)  == m["crnt"] % 256

Frame(trip, m) == <<trip, CurrentHigh(m), CurrentLow(m),
                    m["volt1"] % 256, m["volt2"] % 256, Newline>>

\* How the receiver puts the current together again
CurrentIn(frame) == 256 * frame[2] + frame[3]
=============================================================================
