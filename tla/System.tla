------------------------------- MODULE System -------------------------------
(***************************************************************************)
(* The whole device: the controller, as the meter it implements, the       *)
(* serial line, the gateway as it is built into the firmware image         *)
(* (build/fs/init.js, the same statements as fs/init.js), and the shadow.  *)
(* The gateway may reboot at any moment, also in the middle of a report.   *)
(* Bytes arrive half a report at a time.                                   *)
(***************************************************************************)
EXTENDS Gateway

CONSTANTS Measurements,   \* what can be measured
          MaxReboots      \* bound: reboots of the gateway

\* The verdict before the first measurement, and those that can be measured
Verdicts == {PowerOK} \cup {Verdict(m) : m \in Measurements}

\* What is measured are RMS values, and the line carries what they make
ASSUME RebootsAssumption == MaxReboots \in Nat
ASSUME MeasurementsAssumption == Measurements \subseteq [Channel -> 0..MaxUInt16]
ASSUME FramesAssumption ==
  \A t \in Verdicts, m \in Measurements \cup {Zero} : Frame(t, m) \in Reports

VARIABLES
  peak, verdict,  \* of the meter
  measured,       \* the last measurement
  fresh,          \* the pass of the controller has measured
  behind,         \* history: the currents behind a report, since the last forgetting
  basis,          \* history: the measurement and the currents behind "frame"
  dropped,        \* history: the last report parsed did not reach the shadow
  reboots

meterVars == <<peak, verdict, measured, fresh, behind>>
sysVars == <<vars, meterVars, basis, dropped, reboots>>

M == INSTANCE Meter WITH report <- frame

SystemInit ==
  /\ Init /\ pos = 0 /\ frame = Frame(PowerOK, Zero)
  /\ peak = Zero /\ verdict = [trip |-> PowerOK, values |-> Zero]
  /\ measured = Zero /\ fresh = FALSE /\ behind = {0}
  /\ basis = [last |-> Zero, behind |-> {0}]
  /\ dropped = TRUE /\ reboots = 0

-----------------------------------------------------------------------------
\* A pass of the controller measures once, before it sends
Measure(m) ==
  /\ pos = 0 /\ ~fresh
  /\ M!Observe(m)
  /\ measured' = m /\ fresh' = TRUE
  /\ behind' = behind \cup {m["crnt"]}
  /\ UNCHANGED <<lineVars, uartVars, parsed, led, connected, up, down, cloudVars,
                 lost, basis, dropped, reboots>>

ForgetPeak ==
  /\ pos = 0 /\ fresh
  /\ M!Forget
  /\ behind' = {verdict.values["crnt"]}
  /\ UNCHANGED <<lineVars, uartVars, parsed, led, connected, up, down, cloudVars,
                 lost, measured, fresh, basis, dropped, reboots>>

\* Three bytes of the report arrive
Deliver ==
  /\ fresh /\ Len(rx) + 3 <= MaxBuffered
  /\ frame' = IF pos = 0 THEN Frame(verdict.trip, verdict.values) ELSE frame
  /\ basis' = IF pos = 0 THEN [last |-> measured, behind |-> behind] ELSE basis
  /\ inStep' = IF pos = 0 THEN dispatcher /\ rx = <<>> ELSE inStep
  /\ rx' = IF enabled THEN rx \o SubSeq(frame', pos + 1, pos + 3) ELSE rx
  /\ pos' = 3 - pos
  /\ fresh' = (pos = 0)
  /\ attended' = FALSE
  /\ UNCHANGED <<enabled, dispatcher, parsed, led, connected, up, down,
                 cloudVars, lost, peak, verdict, measured, behind, dropped, reboots>>

\* The script starts again: its variables, the pin and what the firmware
\* held for the broker are as at power-on.  The histories of the gateway start
\* again with it; the shadow and the user's mailbox stay as they are.
Reboot ==
  /\ reboots < MaxReboots /\ enabled
  /\ reboots' = reboots + 1
  /\ enabled' = FALSE /\ dispatcher' = FALSE /\ attended' = FALSE /\ rx' = <<>>
  /\ parsed' = NothingParsed /\ led' \in {0, 1}
  /\ connected' = FALSE /\ up' = <<>> /\ down' = <<>>
  /\ lost' = FALSE /\ heard' = "nothing" /\ dropped' = TRUE /\ inStep' = FALSE
  /\ UNCHANGED <<frame, pos, shadow, desired, mailed, meterVars, basis>>

\* The callbacks of the gateway: what they parse they publish, if they can
GatewayStep ==
  /\ Gateway
  /\ dropped' = IF rx # <<>> /\ rx' = <<>> THEN ~connected ELSE dropped
  /\ UNCHANGED <<meterVars, basis, reboots>>

CloudStep ==
  /\ \/ Connect \/ Disconnect \/ Update
     \/ \E level \in Switches : Desire(level)
  /\ dropped' = (dropped \/ (connected /\ ~connected' /\ up # <<>>))
  /\ UNCHANGED <<meterVars, basis, reboots>>

SystemNext == \/ \E m \in Measurements : Measure(m)
              \/ ForgetPeak \/ Deliver \/ Reboot \/ GatewayStep \/ CloudStep

SystemSpec == SystemInit /\ [][SystemNext]_sysVars

\* The controller goes on measuring and sending; the event loop of the
\* gateway runs its callbacks, and what is sent arrives.
SystemFairSpec ==
  /\ SystemSpec
  /\ WF_sysVars(\E m \in Measurements : Measure(m)) /\ WF_sysVars(Deliver)
  /\ WF_sysVars(EnableRx /\ GatewayStep) /\ WF_sysVars(~dispatcher /\ Bu /\ GatewayStep)
  /\ WF_sysVars(Dispatch /\ GatewayStep) /\ WF_sysVars(Delta /\ GatewayStep)
  /\ WF_sysVars(Update /\ CloudStep)

-----------------------------------------------------------------------------
\* End to end: when the gateway was in step with a report, has parsed it and
\* the broker has what it published, the shadow tells the verdict on the last
\* measurement, with that measurement if the state is healthy and, in a fault,
\* with a current no lower than any measured since the peak was forgotten.
\* Reboots, broken connections and wishes for the LED in between change
\* nothing of it.
ShadowTellsMeasurement ==
  inStep /\ pos = 0 /\ rx = <<>> /\ up = <<>> /\ ~dropped =>
    /\ shadow.data.sts = Verdict(basis.last)
    /\ shadow.data.stsMCB = StsMCB(Verdict(basis.last))
    /\ IF Verdict(basis.last) = PowerOK THEN shadow.data.irms = basis.last["crnt"]
       ELSE \A i \in basis.behind : i <= shadow.data.irms

\* What is measured for good, the shadow shows for good, once the connection
\* lasts and the gateway is in step, after any number of reboots.
SteadyMeasurementShown ==
  \A m \in Measurements :
    <>[](inStep /\ connected /\ measured = m) => <>[](shadow.data.sts = Verdict(m))

\* The variables of the composition have their types, and so have the gateway's:
\* a reboot in the middle of a report leaves it nothing that does not parse.
SystemTypeOK ==
  /\ TypeOK
  /\ {peak, measured, basis.last, verdict.values} \subseteq Measurements \cup {Zero}
  /\ verdict.trip \in {PowerOK, Tripped, NoPower}
  /\ {fresh, dropped} \subseteq BOOLEAN /\ reboots \in 0..MaxReboots
  /\ behind \cup basis.behind \subseteq {m["crnt"] : m \in Measurements \cup {Zero}}

-----------------------------------------------------------------------------
(***************************************************************************)
(* The inductive invariant of the proofs in GatewayProofs.                 *)
(***************************************************************************)
\* Half a report is on the line at most, with a verdict that was measured
HalvesOnly == pos \in {0, 3} /\ verdict \in [trip : Verdicts, values : Measurements \cup {Zero}]

\* The values stand for what was measured: themselves while the state is
\* healthy, in a fault with a current none of those behind them exceeds
StandFor(values, last, currents) ==
  IF Verdict(last) = PowerOK THEN values = last
  ELSE \A i \in currents : i <= values["crnt"]

\* The peak covers all that was measured since it was forgotten
PeakCovers == \A i \in behind : i <= peak["crnt"]

\* A pass that has measured shows the verdict on its measurement
MeterTells == fresh => /\ verdict.trip = Verdict(measured)
                       /\ StandFor(verdict.values, measured, behind)

\* A report that began in step is made of the verdict behind it
FrameTells ==
  inStep => \E v \in Measurements \cup {Zero} :
              /\ frame = Frame(Verdict(basis.last), v)
              /\ StandFor(v, basis.last, basis.behind)

\* The last update, or the shadow when none is on its way, has what was parsed
Told == ~dropped => parsed = Before(Len(up) + 1).data

SInv == IInv /\ SystemTypeOK /\ HalvesOnly /\ PeakCovers /\ MeterTells /\ FrameTells /\ Told
=============================================================================
