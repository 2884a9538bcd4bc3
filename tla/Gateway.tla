------------------------------- MODULE Gateway -------------------------------
(***************************************************************************)
(* The ESP8266 gateway (fs/init.js) between the serial line and the thing  *)
(* shadow: bytes gather in the receive buffer, the dispatcher that a timer *)
(* installs parses them and publishes what it found, a delta message sets  *)
(* the LED and publishes again.                                            *)
(*                                                                         *)
(* The program is single-threaded: a callback is one step.  Bytes arrive   *)
(* between callbacks; those that arrive while UART.read runs are read.     *)
(* The line, MQTT and the shadow service are external, modelled as the     *)
(* program uses them.                                                      *)
(***************************************************************************)
EXTENDS Metering

CONSTANTS Reports,       \* what the controller sends, six bytes each
          Switches,      \* what the user may wish the LED to be: off 0, on 1
          MaxBuffered,   \* bound: bytes in the receive buffer, 1024 in the code
          MaxInFlight    \* bound: messages on their way to or from the shadow

ASSUME ReportsAssumption == Reports # {} /\ Reports \subseteq [1..6 -> Byte]
ASSUME SwitchesAssumption == Switches \subseteq {0, 1}
ASSUME BoundsAssumption == MaxBuffered \in Nat /\ MaxInFlight \in Nat

VARIABLES
  frame,        \* the report on the line, or the last one
  pos,          \* how many of its bytes have arrived, 0 in the pause after it
  enabled,      \* UART.setRxEnabled was called
  dispatcher,   \* bu was called
  attended,     \* the dispatcher has run since the last byte
  rx,           \* the receive buffer
  parsed,       \* sts, irms, v1, v2, stsMCB, sendEmail
  led,          \* the level of the LED pin
  connected,    \* to the MQTT broker
  up,           \* updates on their way to the shadow
  down,         \* delta messages on their way back
  shadow,       \* the reported state
  desired,      \* the desired state of the LED, 2 when there is none
  mailed,       \* the MCB status in the last email
  inStep,       \* history: the report on the line began with nothing buffered
  lost,         \* history: an update was lost since the gateway started
  heard         \* history: what the shadow got since then: "nothing",
                \* "updates", or among them "an email"

lineVars  == <<frame, pos, inStep>>
uartVars  == <<enabled, dispatcher, attended, rx>>
cloudVars == <<shadow, desired, mailed, heard>>
vars == <<lineVars, uartVars, parsed, led, connected, up, down, cloudVars, lost>>

-----------------------------------------------------------------------------
StsMCB(sts) == CASE sts = PowerOK -> "Power OK"
                 [] sts = Tripped -> "MCB Tripped"
                 [] OTHER -> "No Power"

\* Bug...: plausible mistakes in the definition after them, used by no other.
\* sendEmail as a difference
BugParseDifference(bytes, prev) ==
  [sts |-> bytes[1], irms |-> CurrentIn(bytes), v1 |-> bytes[4], v2 |-> bytes[5],
   stsMCB |-> StsMCB(bytes[1]), sendEmail |-> bytes[1] - prev]

\* the voltages exchanged
BugParseSwapped(bytes, prev) ==
  [sts |-> bytes[1], irms |-> CurrentIn(bytes), v1 |-> bytes[5], v2 |-> bytes[4],
   stsMCB |-> StsMCB(bytes[1]), sendEmail |-> IF bytes[1] # prev THEN 1 ELSE 0]

\* stsPrev assigned after sts
BugParseLate(bytes, prev) ==
  [sts |-> bytes[1], irms |-> CurrentIn(bytes), v1 |-> bytes[4], v2 |-> bytes[5],
   stsMCB |-> StsMCB(bytes[1]), sendEmail |-> 0]

\* stsPrev never assigned
BugParseFirst(bytes, prev) ==
  [sts |-> bytes[1], irms |-> CurrentIn(bytes), v1 |-> bytes[4], v2 |-> bytes[5],
   stsMCB |-> StsMCB(bytes[1]), sendEmail |-> IF bytes[1] # 0 THEN 1 ELSE 0]

\* readString on a buffer, after a report of status prev
Parse(bytes, prev) ==
  [sts |-> bytes[1], irms |-> CurrentIn(bytes), v1 |-> bytes[4], v2 |-> bytes[5],
   stsMCB |-> StsMCB(bytes[1]), sendEmail |-> IF bytes[1] # prev THEN 1 ELSE 0]

NothingParsed == [sts |-> 0, irms |-> 0, v1 |-> 0, v2 |-> 0,
                  stsMCB |-> "Power OK", sendEmail |-> 0]

\* What report publishes: the LED is active low
Message(p, pin) == [led |-> IF pin = 0 THEN 1 ELSE 0, data |-> p]

Init ==
  /\ frame \in Reports /\ pos \in 0..5 /\ inStep = FALSE
  /\ enabled = FALSE /\ dispatcher = FALSE /\ attended = FALSE /\ rx = <<>>
  /\ parsed = NothingParsed /\ led \in {0, 1}
  /\ connected = FALSE /\ up = <<>> /\ down = <<>> /\ lost = FALSE
  /\ shadow = Message(NothingParsed, led)
  /\ desired = 2 /\ mailed = "Power OK" /\ heard = "nothing"

-----------------------------------------------------------------------------
\* A byte from the controller
Arrive ==
  /\ Len(rx) < MaxBuffered
  /\ frame' \in IF pos = 0 THEN Reports ELSE {frame}
  /\ inStep' = IF pos = 0 THEN dispatcher /\ rx = <<>> ELSE inStep
  /\ rx' = IF enabled THEN Append(rx, frame'[pos + 1]) ELSE rx
  /\ pos' = (pos + 1) % 6
  /\ attended' = FALSE
  /\ UNCHANGED <<enabled, dispatcher, parsed, led, connected, up, down,
                 cloudVars, lost>>

\* The end of the script; the line may be in the middle of a report
EnableRx ==
  /\ ~enabled
  /\ enabled' = TRUE
  /\ UNCHANGED <<lineVars, dispatcher, attended, rx, parsed, led, connected,
                 up, down, cloudVars, lost>>

\* The timer of 5 s: bu sets the dispatcher, for the first time or again
Bu ==
  /\ enabled
  /\ dispatcher' = TRUE
  /\ attended' = FALSE
  /\ UNCHANGED <<lineVars, enabled, rx, parsed, led, connected, up, down,
                 cloudVars, lost>>

\* only changes of state are published
BugReport(data, pin, queue) ==
  /\ up' = IF connected /\ data.sendEmail = 1 THEN Append(queue, Message(data, pin))
                                             ELSE queue
  /\ lost' = (lost \/ ~connected)

\* report: MQTT.pub drops the message when there is no connection
Report(data, pin, queue) ==
  /\ up' = IF connected THEN Append(queue, Message(data, pin)) ELSE queue
  /\ lost' = (lost \/ ~connected)

Room == Len(up) + Len(down) < MaxInFlight

\* as if a report had five bytes
BugReportComplete == Len(rx) > 4

ReportComplete == Len(rx) > 5

\* The dispatcher: with more than five bytes it reads all, parses the first
\* five, reports with the LED as it is, and toggles the LED
Dispatch ==
  /\ dispatcher /\ ~attended
  /\ attended' = TRUE
  /\ IF ReportComplete
     THEN /\ Room
          /\ rx' = <<>>
          /\ parsed' = Parse(rx, parsed.sts)
          /\ Report(parsed', led, up)
          /\ led' = 1 - led
     ELSE UNCHANGED <<rx, parsed, up, lost, led>>
  /\ UNCHANGED <<lineVars, enabled, dispatcher, connected, down, cloudVars>>

\* The handler of a delta: sets the LED and publishes the last report again
Delta ==
  /\ down # <<>>
  /\ down' = Tail(down)
  /\ led' = IF Head(down) = 0 THEN 1 ELSE 0
  /\ Report(parsed, led', up)
  /\ UNCHANGED <<lineVars, uartVars, parsed, connected, cloudVars>>

Connect ==
  /\ enabled /\ ~connected
  /\ connected' = TRUE
  /\ UNCHANGED <<lineVars, uartVars, parsed, led, up, down, cloudVars, lost>>

\* What is on its way when the connection breaks is gone
Disconnect ==
  /\ connected
  /\ connected' = FALSE
  /\ up' = <<>> /\ down' = <<>>
  /\ lost' = (lost \/ up # <<>>)
  /\ UNCHANGED <<lineVars, uartVars, parsed, led, cloudVars>>

Gateway == EnableRx \/ Bu \/ Dispatch \/ Delta

-----------------------------------------------------------------------------
\* The shadow service takes an update, sends a delta when the LED is not as
\* desired, and the rule of the dashboard sends an email when sendEmail is 1
Update ==
  /\ up # <<>>
  /\ up' = Tail(up)
  /\ shadow' = Head(up)
  /\ mailed' = IF shadow'.data.sendEmail = 1 THEN shadow'.data.stsMCB ELSE mailed
  /\ heard' = IF shadow'.data.sendEmail = 1 \/ heard = "an email" THEN "an email"
                                                                ELSE "updates"
  /\ down' = IF desired # 2 /\ desired # shadow'.led THEN Append(down, desired)
                                                     ELSE down
  /\ UNCHANGED <<lineVars, uartVars, parsed, led, connected, desired, lost>>

\* The user switches the LED on the dashboard
Desire(level) ==
  /\ Room
  /\ desired' = level
  /\ down' = IF connected /\ level # shadow.led THEN Append(down, level) ELSE down
  /\ UNCHANGED <<lineVars, uartVars, parsed, led, connected, up, shadow,
                 mailed, heard, lost>>

Next == \/ Arrive
        \/ Gateway
        \/ Connect \/ Disconnect
        \/ Update \/ \E level \in Switches : Desire(level)

Spec == Init /\ [][Next]_vars

\* The controller never stops sending, timers and callbacks of the event loop
\* are run, and messages arrive while the connection lasts
FairSpec == /\ Spec
            /\ WF_vars(Arrive)
            /\ WF_vars(EnableRx) /\ WF_vars(Bu /\ ~dispatcher)
            /\ WF_vars(Dispatch) /\ WF_vars(Delta)
            /\ WF_vars(Update)

-----------------------------------------------------------------------------
Data == [sts : Byte, irms : 0..MaxUInt16, v1 : Byte, v2 : Byte,
         stsMCB : {"Power OK", "MCB Tripped", "No Power"}, sendEmail : {0, 1}]
Messages == [led : {0, 1}, data : Data]

\* Every variable has its type: whatever lies in the buffer parses to a report.
TypeOK ==
  /\ frame \in Reports /\ pos \in 0..5
  /\ enabled \in BOOLEAN /\ dispatcher \in BOOLEAN /\ attended \in BOOLEAN
  /\ rx \in Seq(Byte) /\ Len(rx) <= MaxBuffered
  /\ parsed \in Data /\ led \in {0, 1}
  /\ connected \in BOOLEAN
  /\ up \in Seq(Messages) /\ down \in Seq({0, 1})
  /\ shadow \in Messages /\ desired \in 0..2
  /\ mailed \in {"Power OK", "MCB Tripped", "No Power"}
  /\ inStep \in BOOLEAN /\ lost \in BOOLEAN
  /\ heard \in {"nothing", "updates", "an email"}

\* What was parsed is a report of the controller
Says(data, r) == /\ data.sts = r[1]
                 /\ data.irms = CurrentIn(r)
                 /\ data.v1 = r[4] /\ data.v2 = r[5]

\* A report that began with nothing buffered is read from its first byte to its
\* last: when the dispatcher has emptied the buffer after it (init.js:118-124),
\* what was parsed is what the controller sent.
ReadAsSent ==
  inStep /\ pos = 0 /\ rx = <<>> => Says(parsed, frame)

\* Once in step the gateway stays in step, however its callbacks are delayed
\* within a report and whenever bu runs again: only a gateway that does not get
\* to its dispatcher in the pause between two reports can fall out of step.
StaysInStep == [][inStep /\ (pos = 0 => attended) => inStep']_vars

\* As long as no update is lost, the last email tells what the shadow shows,
\* although sendEmail (init.js:103) is only a difference of two reports that
\* later reports overwrite.
MailTellsState == ~lost => mailed = shadow.data.stsMCB

\* The i-th update on its way follows this one
Before(i) == IF i = 1 THEN shadow ELSE up[i - 1]

\* What the gateway had reported before that update, at its start a healthy state
Known(i) == IF i = 1 /\ heard = "nothing" THEN NothingParsed ELSE Before(i).data

\* As long as no update is lost, an email is sent only for a state other than
\* the one reported before it, or again, word for word, for the report before
\* it: no report but a change of state raises the flag (init.js:103, "set email
\* flag only on state change"), but what a delta publishes again (init.js:146)
\* keeps it, and a gateway that starts takes the state to have been healthy.
EmailsOnceOrRepeated ==
  [][Update /\ ~lost /\ Head(up).data.sendEmail = 1
       => Head(up).data.sts # Known(1).sts \/ Head(up).data = Known(1)]_vars

\* Once the gateway that started, or started again, has reported, and as long as
\* no update of it is lost, the last email tells what the shadow shows: a fault
\* always, whatever the gateway forgot (sts and stsPrev start at 0, init.js:23).
\* Only a healthy state that no email since the start told of may follow the
\* email of a fault: the end of a fault that falls into a restart is not told.
LastEmailStands ==
  ~lost /\ heard # "nothing" =>
    \/ mailed = shadow.data.stsMCB
    \/ heard = "updates" /\ shadow.data.stsMCB = "Power OK"

\* A report that repeats for good, on a connection that lasts, is shown for good
\* by the shadow once the gateway is in step.
SteadyReportShown ==
  \A r \in Reports : <>[](inStep /\ connected /\ frame = r) => <>[]Says(shadow.data, r)

-----------------------------------------------------------------------------
(***************************************************************************)
(* The inductive invariant of the proofs in GatewayProofs.                 *)
(***************************************************************************)
Listening == dispatcher => enabled

\* In step, the buffer holds the bytes of the report so far, or the dispatcher
\* has read them all
BufferInStep ==
  inStep => /\ dispatcher
            /\ \/ rx = <<>> /\ pos = 0 /\ Says(parsed, frame)
               \/ /\ Len(rx) = IF pos = 0 THEN 6 ELSE pos
                  /\ \A i \in 1..Len(rx) : rx[i] = frame[i]
                  /\ pos = 0 => ~attended

\* The last email tells what the shadow shows, or there was none since the start
\* and the state known is healthy
MailKnown == IF heard = "an email" THEN mailed = shadow.data.stsMCB
                                   ELSE Known(1).stsMCB = "Power OK"

\* No update leaves a change of state without the flag for an email
ChangesFlagged ==
  /\ parsed.stsMCB = StsMCB(parsed.sts)
  /\ ~lost => /\ MailKnown
              /\ \A i \in 1..Len(up) :
                   up[i].data.sendEmail = 0 => up[i].data.stsMCB = Known(i).stsMCB
              /\ parsed.stsMCB = Known(Len(up) + 1).stsMCB

\* No update asks for an email that neither tells a new state nor repeats the
\* update before it, and the last update tells what was parsed last
EmailsDue ==
  ~lost => /\ \A i \in 1..Len(up) :
                up[i].data.sendEmail = 1
                  => up[i].data.sts # Known(i).sts \/ up[i].data = Known(i)
           /\ parsed = Known(Len(up) + 1)

IInv == TypeOK /\ Listening /\ BufferInStep /\ ChangesFlagged

\* Before the first email of a gateway that never restarts
NothingMailed ==
  /\ heard # "an email" => mailed = "Power OK"
  /\ heard = "nothing" => shadow.data.stsMCB = "Power OK"

-----------------------------------------------------------------------------
(***************************************************************************)
(* What comments and documents say and the code does not do.               *)
(***************************************************************************)

\* init.js:109: bu "reads 5 byte string, parses it".  What is parsed would be a
\* report: but UART.read takes all there is, and the bytes of a report of which
\* the buffer got only a part are parsed as the beginning of the next one.
OnlyReportsParsed ==
  parsed # NothingParsed => \E r \in Reports : Says(parsed, r)

\* readme.md:15: the unit will "intimate to user" the trip information.  A state
\* that lasts would be told by an email in the end: but the flag is up in one
\* update only, and is not raised again if that one is lost.
UserIntimated ==
  \A r \in Reports :
    <>[](inStep /\ connected /\ frame = r) => <>(mailed = StsMCB(r[1]))
=============================================================================
