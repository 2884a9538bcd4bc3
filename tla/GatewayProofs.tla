---------------------------- MODULE GatewayProofs ----------------------------
(***************************************************************************)
(* Proofs about the gateway, for all reports, buffer sizes and numbers of  *)
(* messages on their way: the inductive invariant IInv and the safety      *)
(* properties that follow from it; and about the whole device, for all     *)
(* measurements and any number of reboots: the invariant SInv of System.   *)
(***************************************************************************)
EXTENDS System, MeteringProofs, SequenceTheorems

\* A byte is a natural number of at most 255.
LEMMA ByteRange == \A n \in Byte : n \in Nat /\ n <= 255
<1>1. TAKE n \in Byte
<1>2. QED
  BY <1>1 DEF Byte

\* Whatever five bytes or more are parsed, the result is a report's data.
LEMMA ParseType ==
  ASSUME NEW bytes \in Seq(Byte), Len(bytes) > 4, NEW prev
  PROVE  Parse(bytes, prev) \in Data
<1>1. /\ bytes[1] \in Byte /\ bytes[2] \in Byte /\ bytes[3] \in Byte
      /\ bytes[4] \in Byte /\ bytes[5] \in Byte
  BY LenProperties
<1>2. CurrentIn(bytes) \in 0..MaxUInt16
  <2>1. 256 * bytes[2] + bytes[3] \in Nat /\ 256 * bytes[2] + bytes[3] < 65536
    <3>1. /\ bytes[2] \in Nat /\ bytes[2] <= 255
          /\ bytes[3] \in Nat /\ bytes[3] <= 255
      BY <1>1, ByteRange
    <3>2. QED
      BY <3>1
  <2>2. QED
    BY <2>1, Word16 DEF CurrentIn
<1>3. StsMCB(bytes[1]) \in {"Power OK", "MCB Tripped", "No Power"}
  BY DEF StsMCB
<1>4. QED
  BY <1>1, <1>2, <1>3 DEF Parse, Data

LEMMA MessageType ==
  ASSUME NEW data \in Data, NEW pin
  PROVE  Message(data, pin) \in Messages /\ Message(data, pin).data = data
BY DEF Message, Messages

LEMMA NothingType == /\ NothingParsed \in Data
                     /\ NothingParsed.sts = 0 /\ NothingParsed.stsMCB = "Power OK"
<1>1. 0 \in 0..MaxUInt16 /\ 0 \in Byte
  BY Word16 DEF Byte
<1>2. QED
  BY <1>1 DEF NothingParsed, Data

LEMMA StatusOK == StsMCB(0) = "Power OK"
BY DEF StsMCB, PowerOK, Tripped

\* The bytes of a report are bytes.
LEMMA ReportType == \A r \in Reports : r \in [1..6 -> Byte]
BY ReportsAssumption

LEMMA InitIInv == Init => IInv
<1>1. SUFFICES ASSUME Init PROVE IInv
  OBVIOUS
<1>2. /\ frame \in Reports /\ pos \in 0..5 /\ inStep = FALSE
      /\ enabled = FALSE /\ dispatcher = FALSE /\ attended = FALSE /\ rx = <<>>
      /\ parsed = NothingParsed /\ led \in {0, 1} /\ connected = FALSE
      /\ up = <<>> /\ down = <<>> /\ lost = FALSE
      /\ shadow = Message(NothingParsed, led) /\ desired = 2 /\ mailed = "Power OK"
      /\ heard = "nothing"
  BY <1>1 DEF Init
<1>3. shadow \in Messages /\ shadow.data = NothingParsed
  BY <1>2, NothingType, MessageType
<1>4. TypeOK
  <2>1. rx \in Seq(Byte) /\ Len(rx) <= MaxBuffered
    <3>1. rx \in Seq(Byte)
      BY <1>2, EmptySeq
    <3>2. Len(rx) = 0
      BY <1>2
    <3>3. QED
      BY <3>1, <3>2, BoundsAssumption
  <2>2. up \in Seq(Messages) /\ down \in Seq({0, 1})
    BY <1>2, EmptySeq
  <2>3. QED
    <3>1. parsed \in Data
      BY <1>2, NothingType
    <3>2. mailed \in {"Power OK", "MCB Tripped", "No Power"}
      BY <1>2
    <3>3. desired \in 0..2
      <4>1. desired = 2
        BY <1>2
      <4>2. QED
        BY <4>1
    <3>4. QED
      BY <1>2, <1>3, <2>1, <2>2, <3>1, <3>2, <3>3 DEF TypeOK
<1>5. ChangesFlagged
  <2>1. parsed.stsMCB = StsMCB(parsed.sts)
    BY <1>2, NothingType, StatusOK
  <2>2. Len(up) = 0
    BY <1>2
  <2>3. Known(1) = NothingParsed
    BY <1>2 DEF Known
  <2>4. 1..Len(up) = {}
    BY <2>2
  <2>5. MailKnown /\ parsed.stsMCB = Known(Len(up) + 1).stsMCB
    <3>1. Len(up) + 1 = 1
      BY <2>2
    <3>2. Known(Len(up) + 1) = NothingParsed
      BY <2>3, <3>1
    <3>3. QED
      BY <1>2, <2>3, <3>2, NothingType DEF MailKnown
  <2>6. QED
    BY <2>1, <2>4, <2>5 DEF ChangesFlagged
<1>6. QED
  BY <1>2, <1>4, <1>5 DEF IInv, Listening, BufferInStep

-----------------------------------------------------------------------------
\* A byte arrives at the end of the buffer: in step, it is the next of its report.
LEMMA ArriveIInv == IInv /\ Arrive => IInv'
<1>1. SUFFICES ASSUME IInv, Arrive PROVE IInv'
  OBVIOUS
<1>2. TypeOK
  BY <1>1 DEF IInv
<1>3. frame' \in Reports /\ (pos # 0 => frame' = frame)
  BY <1>1, <1>2 DEF Arrive, TypeOK
<1>4. pos \in 0..5 /\ pos' \in 0..5 /\ (pos < 5 => pos' = pos + 1) /\ (pos = 5 => pos' = 0)
  <2>1. pos \in 0..5 /\ pos' = (pos + 1) % 6
    BY <1>1, <1>2 DEF Arrive, TypeOK
  <2>2. QED
    BY <2>1, SMT
<1>5. frame'[pos + 1] \in Byte
  BY <1>3, <1>4, ReportType
<1>6. rx \in Seq(Byte) /\ rx' \in Seq(Byte) /\ Len(rx') <= MaxBuffered
      /\ (enabled => /\ Len(rx') = Len(rx) + 1
                     /\ \A i \in 1..Len(rx) : rx'[i] = rx[i]
                     /\ rx'[Len(rx) + 1] = frame'[pos + 1])
  <2>1. rx \in Seq(Byte) /\ Len(rx) \in Nat /\ Len(rx) < MaxBuffered
    BY <1>1, <1>2, LenProperties DEF TypeOK, Arrive
  <2>2. CASE enabled
    <3>1. rx' = Append(rx, frame'[pos + 1])
      BY <1>1, <2>2 DEF Arrive
    <3>2. rx' \in Seq(Byte) /\ Len(rx') = Len(rx) + 1
          /\ (\A i \in 1..Len(rx) : rx'[i] = rx[i])
          /\ rx'[Len(rx) + 1] = frame'[pos + 1]
      BY <2>1, <3>1, <1>5, AppendProperties
    <3>3. QED
      BY <2>1, <3>2, BoundsAssumption
  <2>3. CASE ~enabled
    <3>1. rx' = rx
      BY <1>1, <2>3 DEF Arrive
    <3>2. QED
      BY <2>1, <2>3, <3>1, BoundsAssumption
  <2>4. QED
    BY <2>2, <2>3
<1>7. TypeOK'
  BY <1>1, <1>2, <1>3, <1>4, <1>6 DEF Arrive, TypeOK, cloudVars
<1>8. Listening'
  BY <1>1 DEF IInv, Listening, Arrive
<1>9. BufferInStep'
  <2>1. SUFFICES ASSUME inStep'
                 PROVE  /\ dispatcher' /\ Len(rx') = (IF pos' = 0 THEN 6 ELSE pos')
                        /\ \A i \in 1..Len(rx') : rx'[i] = frame'[i]
                        /\ ~attended'
    BY DEF BufferInStep
  <2>2. ~attended' /\ dispatcher' = dispatcher
    BY <1>1 DEF Arrive
  <2>3. dispatcher /\ enabled /\ Len(rx) = pos /\ \A i \in 1..Len(rx) : rx[i] = frame'[i]
    <3>1. CASE pos = 0
      <4>1. dispatcher /\ rx = <<>>
        BY <1>1, <2>1, <3>1 DEF Arrive
      <4>2. QED
        BY <1>1, <3>1, <4>1 DEF IInv, Listening
    <3>2. CASE pos # 0
      BY <1>1, <1>3, <1>4, <2>1, <3>2 DEF Arrive, IInv, Listening, BufferInStep
    <3>3. QED
      BY <3>1, <3>2
  <2>4. QED
    BY <1>4, <1>6, <2>2, <2>3
<1>10. ChangesFlagged'
  BY <1>1 DEF IInv, ChangesFlagged, MailKnown, Known, Before, Arrive, cloudVars
<1>11. QED
  BY <1>7, <1>8, <1>9, <1>10 DEF IInv

\* Neither the start of reception nor another call of bu touches the buffer.
LEMMA StartIInv == IInv /\ (EnableRx \/ Bu) => IInv'
<1>1. SUFFICES ASSUME IInv, EnableRx \/ Bu PROVE IInv'
  OBVIOUS
<1>2. TypeOK'
  BY <1>1 DEF IInv, EnableRx, Bu, TypeOK, lineVars, cloudVars
<1>3. Listening'
  BY <1>1 DEF IInv, EnableRx, Bu, Listening
<1>4. BufferInStep'
  <2>1. UNCHANGED <<inStep, frame, pos, rx, parsed>>
    BY <1>1 DEF EnableRx, Bu, lineVars
  <2>2. dispatcher => dispatcher'
    BY <1>1 DEF EnableRx, Bu
  <2>3. ~attended => ~attended'
    BY <1>1 DEF EnableRx, Bu
  <2>4. QED
    BY <1>1, <2>1, <2>2, <2>3 DEF IInv, BufferInStep, Says
<1>5. ChangesFlagged'
  BY <1>1 DEF IInv, ChangesFlagged, MailKnown, Known, Before, EnableRx, Bu, cloudVars
<1>6. QED
  BY <1>2, <1>3, <1>4, <1>5 DEF IInv

\* Publishing appends a message or loses it, and then remembers so.
LEMMA ReportQueues ==
  ASSUME NEW data \in Data, NEW pin, up \in Seq(Messages), lost \in BOOLEAN,
         Report(data, pin, up)
  PROVE  /\ up' \in Seq(Messages) /\ lost' \in BOOLEAN
         /\ ~lost' => /\ ~lost
                      /\ Len(up') = Len(up) + 1
                      /\ \A i \in 1..Len(up) : up'[i] = up[i]
                      /\ up'[Len(up) + 1].data = data
<1>1. Message(data, pin) \in Messages /\ Message(data, pin).data = data
  BY MessageType
<1>2. CASE connected
  <2>1. up' = Append(up, Message(data, pin)) /\ lost' = (lost \/ ~connected)
    BY <1>2 DEF Report
  <2>2. QED
    BY <1>1, <1>2, <2>1, AppendProperties
<1>3. CASE ~connected
  BY <1>3 DEF Report
<1>4. QED
  BY <1>2, <1>3

\* What is known after the last of the updates is the last of them.
LEMMA KnownLast ==
  ASSUME up \in Seq(Messages), Len(up') = Len(up) + 1
  PROVE  Known(Len(up) + 1)' = up'[Len(up) + 1].data
<1>1. Len(up) \in Nat
  BY LenProperties
<1>2. Len(up') + 1 # 1 /\ (Len(up') + 1) - 1 = Len(up) + 1
  BY <1>1
<1>3. QED
  BY <1>2 DEF Known, Before

\* After publishing, changes are still flagged if the message published says so.
LEMMA ReportFlags ==
  ASSUME NEW data \in Data, NEW pin, TypeOK, ChangesFlagged,
         Report(data, pin, up), UNCHANGED <<shadow, mailed, heard>>,
         parsed' = data, data.stsMCB = StsMCB(data.sts),
         data.sendEmail = 0 => data.stsMCB = parsed.stsMCB
  PROVE  ChangesFlagged'
<1>1. up \in Seq(Messages) /\ lost \in BOOLEAN /\ Len(up) \in Nat
  BY LenProperties DEF TypeOK
<1>2. SUFFICES ASSUME ~lost'
               PROVE  /\ MailKnown'
                      /\ \A i \in 1..Len(up') :
                           up'[i].data.sendEmail = 0
                             => up'[i].data.stsMCB = Known(i)'.stsMCB
                      /\ parsed'.stsMCB = Known(Len(up) + 1)'.stsMCB
  BY DEF ChangesFlagged
<1>3. /\ ~lost
      /\ Len(up') = Len(up) + 1
      /\ \A i \in 1..Len(up) : up'[i] = up[i]
      /\ up'[Len(up) + 1].data = data
  BY <1>1, <1>2, ReportQueues
<1>4. \A i \in 1..(Len(up) + 1) : Known(i)' = Known(i)
  BY <1>1, <1>3 DEF Known, Before
<1>5. /\ MailKnown
      /\ \A i \in 1..Len(up) : up[i].data.sendEmail = 0
                                => up[i].data.stsMCB = Known(i).stsMCB
      /\ parsed.stsMCB = Known(Len(up) + 1).stsMCB
  BY <1>3 DEF ChangesFlagged
<1>6. ASSUME NEW i \in 1..Len(up'), up'[i].data.sendEmail = 0
      PROVE  up'[i].data.stsMCB = Known(i)'.stsMCB
  <2>1. CASE i = Len(up) + 1
    <3>1. Known(i)' = Known(Len(up) + 1)
      BY <1>1, <1>4, <2>1
    <3>2. up'[i].data = data
      BY <1>3, <2>1
    <3>3. QED
      BY <1>5, <1>6, <3>1, <3>2
  <2>2. CASE i # Len(up) + 1
    <3>1. i \in 1..Len(up) /\ i \in 1..(Len(up) + 1)
      BY <1>1, <1>3, <2>2
    <3>2. up'[i] = up[i] /\ Known(i)' = Known(i)
      BY <1>3, <1>4, <3>1
    <3>3. QED
      BY <1>5, <1>6, <3>1, <3>2
  <2>3. QED
    BY <2>1, <2>2
<1>7. parsed'.stsMCB = Known(Len(up) + 1)'.stsMCB
  <2>1. Known(Len(up) + 1)' = up'[Len(up) + 1].data
    BY <1>1, <1>3, KnownLast
  <2>2. QED
    BY <1>3, <2>1
<1>8. MailKnown'
  <2>1. 1 \in 1..(Len(up) + 1)
    BY <1>1
  <2>2. Known(1)' = Known(1)
    BY <1>4, <2>1
  <2>3. QED
    BY <1>5, <2>2 DEF MailKnown
<1>9. QED
  BY <1>6, <1>7, <1>8

\* The dispatcher: a complete report in step is parsed as it was sent.
LEMMA DispatchIInv == IInv /\ Dispatch => IInv'
<1>1. SUFFICES ASSUME IInv, Dispatch PROVE IInv'
  OBVIOUS
<1>2. TypeOK /\ Listening /\ BufferInStep /\ ChangesFlagged
  BY <1>1 DEF IInv
<1>3. /\ dispatcher /\ attended' = TRUE
      /\ UNCHANGED <<frame, pos, inStep, enabled, dispatcher, connected, down,
                     shadow, desired, mailed, heard>>
  BY <1>1 DEF Dispatch, lineVars, cloudVars
<1>4. Listening'
  BY <1>2, <1>3 DEF Listening
<1>5. rx \in Seq(Byte) /\ Len(rx) \in Nat /\ pos \in 0..5
  BY <1>2, LenProperties DEF TypeOK
<1>6. CASE Len(rx) > 5
  <2>1. /\ rx' = <<>> /\ parsed' = Parse(rx, parsed.sts)
        /\ Report(parsed', led, up) /\ led' = 1 - led
    BY <1>1, <1>6 DEF Dispatch, ReportComplete
  <2>2. parsed' \in Data
    BY <1>5, <1>6, <2>1, ParseType
  <2>3. TypeOK'
    <3>1. up' \in Seq(Messages) /\ lost' \in BOOLEAN
      BY <1>2, <2>1, <2>2, ReportQueues DEF TypeOK
    <3>2. rx' \in Seq(Byte) /\ Len(rx') <= MaxBuffered
      <4>1. rx' \in Seq(Byte)
        BY <2>1, EmptySeq
      <4>2. Len(rx') = 0
        BY <2>1
      <4>3. QED
        BY <4>1, <4>2, BoundsAssumption
    <3>3. led' \in {0, 1}
      <4>1. led \in {0, 1}
        BY <1>2 DEF TypeOK
      <4>2. QED
        BY <2>1, <4>1
    <3>4. QED
      BY <1>2, <1>3, <2>2, <3>1, <3>2, <3>3 DEF TypeOK
  <2>4. BufferInStep'
    <3>1. SUFFICES ASSUME inStep
                   PROVE  pos = 0 /\ Says(parsed', frame)
      BY <1>3, <2>1 DEF BufferInStep, Says
    <3>2. pos = 0 /\ \A i \in 1..Len(rx) : rx[i] = frame[i]
      BY <1>2, <1>5, <1>6, <3>1 DEF BufferInStep
    <3>3. rx[1] = frame[1] /\ rx[2] = frame[2] /\ rx[3] = frame[3]
          /\ rx[4] = frame[4] /\ rx[5] = frame[5]
      BY <1>5, <1>6, <3>2
    <3>4. /\ parsed'.sts = rx[1] /\ parsed'.irms = CurrentIn(rx)
          /\ parsed'.v1 = rx[4] /\ parsed'.v2 = rx[5]
      BY <2>1 DEF Parse
    <3>5. QED
      BY <3>2, <3>3, <3>4 DEF Says, CurrentIn
  <2>5. ChangesFlagged'
    <3>1. parsed'.stsMCB = StsMCB(parsed'.sts)
      BY <2>1 DEF Parse
    <3>2. parsed'.sendEmail = 0 => parsed'.sts = parsed.sts
      BY <2>1 DEF Parse
    <3>3. parsed.stsMCB = StsMCB(parsed.sts)
      BY <1>2 DEF ChangesFlagged
    <3>4. parsed'.sendEmail = 0 => parsed'.stsMCB = parsed.stsMCB
      BY <3>1, <3>2, <3>3
    <3>5. QED
      BY <1>2, <1>3, <2>1, <2>2, <3>1, <3>4, ReportFlags
  <2>6. QED
    BY <1>4, <2>3, <2>4, <2>5 DEF IInv
<1>7. CASE ~(Len(rx) > 5)
  <2>1. UNCHANGED <<rx, parsed, up, lost, led>>
    BY <1>1, <1>7 DEF Dispatch, ReportComplete
  <2>2. TypeOK'
    BY <1>2, <1>3, <2>1 DEF TypeOK
  <2>3. BufferInStep'
    <3>1. inStep /\ pos = 0 => rx = <<>>
      BY <1>2, <1>7 DEF BufferInStep
    <3>2. SUFFICES ASSUME inStep
                   PROVE  \/ rx = <<>> /\ pos = 0 /\ Says(parsed, frame)
                          \/ /\ pos # 0 /\ Len(rx) = pos
                             /\ \A i \in 1..Len(rx) : rx[i] = frame[i]
      BY <1>3, <2>1 DEF BufferInStep, Says
    <3>3. CASE pos = 0
      <4>1. Len(rx) # 6
        <5>1. Len(rx) = 6 => Len(rx) > 5
          OBVIOUS
        <5>2. QED
          BY <1>7, <5>1
      <4>2. QED
        BY <1>2, <3>2, <3>3, <4>1 DEF BufferInStep
    <3>4. CASE pos # 0
      BY <1>2, <3>2, <3>4 DEF BufferInStep
    <3>5. QED
      BY <3>3, <3>4
  <2>4. ChangesFlagged'
    BY <1>2, <1>3, <2>1 DEF ChangesFlagged, MailKnown, Known, Before
  <2>5. QED
    BY <1>4, <2>2, <2>3, <2>4 DEF IInv
<1>8. QED
  BY <1>6, <1>7

\* A delta publishes what was parsed last once more, and touches no buffer.
LEMMA DeltaIInv == IInv /\ Delta => IInv'
<1>1. SUFFICES ASSUME IInv, Delta PROVE IInv'
  OBVIOUS
<1>2. TypeOK /\ Listening /\ BufferInStep /\ ChangesFlagged
  BY <1>1 DEF IInv
<1>3. /\ UNCHANGED <<frame, pos, inStep, enabled, dispatcher, attended, rx, parsed,
                     connected, shadow, desired, mailed, heard>>
      /\ down # <<>> /\ down' = Tail(down) /\ led' \in {0, 1}
      /\ Report(parsed, led', up)
  BY <1>1 DEF Delta, lineVars, uartVars, cloudVars
<1>4. parsed \in Data /\ up \in Seq(Messages) /\ down \in Seq({0, 1}) /\ lost \in BOOLEAN
  BY <1>2 DEF TypeOK
<1>5. TypeOK'
  <2>1. up' \in Seq(Messages) /\ lost' \in BOOLEAN
    BY <1>3, <1>4, ReportQueues
  <2>2. down' \in Seq({0, 1})
    BY <1>3, <1>4, HeadTailProperties
  <2>3. QED
    BY <1>2, <1>3, <2>1, <2>2 DEF TypeOK
<1>6. Listening' /\ BufferInStep'
  BY <1>2, <1>3 DEF Listening, BufferInStep, Says
<1>7. ChangesFlagged'
  <2>1. parsed.stsMCB = StsMCB(parsed.sts)
    BY <1>2 DEF ChangesFlagged
  <2>2. QED
    BY <1>2, <1>3, <1>4, <2>1, ReportFlags
<1>8. QED
  BY <1>5, <1>6, <1>7 DEF IInv

\* The connection is no concern of the buffer, and an update that it takes away
\* is remembered as lost.
LEMMA ConnectionIInv == IInv /\ (Connect \/ Disconnect) => IInv'
<1>1. SUFFICES ASSUME IInv, Connect \/ Disconnect PROVE IInv'
  OBVIOUS
<1>2. TypeOK /\ Listening /\ BufferInStep /\ ChangesFlagged
  BY <1>1 DEF IInv
<1>3. UNCHANGED <<frame, pos, inStep, enabled, dispatcher, attended, rx, parsed, led,
                  shadow, desired, mailed, heard>>
  BY <1>1 DEF Connect, Disconnect, lineVars, uartVars, cloudVars
<1>4. /\ connected' \in BOOLEAN
      /\ \/ UNCHANGED <<up, down, lost>>
         \/ up' = <<>> /\ down' = <<>> /\ lost' = (lost \/ up # <<>>)
  BY <1>1 DEF Connect, Disconnect
<1>5. TypeOK'
  <2>1. <<>> \in Seq(Messages) /\ <<>> \in Seq({0, 1})
    BY EmptySeq
  <2>2. up' \in Seq(Messages) /\ down' \in Seq({0, 1}) /\ lost' \in BOOLEAN
    BY <1>2, <1>4, <2>1 DEF TypeOK
  <2>3. QED
    BY <1>2, <1>3, <1>4, <2>2 DEF TypeOK
<1>6. Listening' /\ BufferInStep'
  BY <1>2, <1>3 DEF Listening, BufferInStep, Says
<1>7. ChangesFlagged'
  <2>1. ~lost' => ~lost /\ up' = up
    BY <1>4
  <2>2. QED
    BY <1>2, <1>3, <2>1 DEF ChangesFlagged, MailKnown, Known, Before
<1>8. QED
  BY <1>5, <1>6, <1>7 DEF IInv

\* After the shadow took the first update, each of the others follows the same.
LEMMA KnownShifts ==
  ASSUME up \in Seq(Messages), up # <<>>, up' = Tail(up), shadow' = Head(up),
         heard' # "nothing"
  PROVE  \A i \in 1..Len(up) : Known(i)' = up[i].data /\ Known(i + 1) = up[i].data
<1>1. Len(up) \in Nat /\ Len(up) > 0
  BY EmptySeq
<1>2. /\ Len(up') = Len(up) - 1 /\ shadow' = up[1]
      /\ \A i \in 1..Len(up') : up'[i] = up[i + 1]
  BY <1>1, HeadTailProperties
<1>3. SUFFICES ASSUME NEW i \in 1..Len(up)
               PROVE  Known(i)' = up[i].data /\ Known(i + 1) = up[i].data
  OBVIOUS
<1>4. Known(i + 1) = up[i].data
  BY DEF Known, Before
<1>6. CASE i = 1
  BY <1>2, <1>4, <1>6 DEF Known, Before
<1>7. CASE i # 1
  <2>1. i - 1 \in 1..Len(up') /\ (i - 1) + 1 = i
    BY <1>1, <1>2, <1>7
  <2>2. up'[i - 1] = up[i]
    BY <1>2, <2>1
  <2>3. QED
    BY <1>4, <1>7, <2>2 DEF Known, Before
<1>8. QED
  BY <1>6, <1>7

\* What is known after the last of the updates stays the same.
LEMMA KnownStays ==
  ASSUME up \in Seq(Messages), up # <<>>, up' = Tail(up), shadow' = Head(up),
         heard' # "nothing"
  PROVE  Known(Len(up) + 1)' = Known(Len(up) + 1)
<1>1. Len(up) \in Nat /\ Len(up) > 0
  BY EmptySeq
<1>2. /\ Len(up') = Len(up) - 1 /\ shadow' = up[1]
      /\ \A i \in 1..Len(up') : up'[i] = up[i + 1]
  BY <1>1, HeadTailProperties
<1>3. Known(Len(up) + 1) = up[Len(up)].data
  BY <1>1 DEF Known, Before
<1>4. Known(Len(up) + 1)' = IF Len(up') + 1 = 1 THEN shadow'.data
                                                ELSE up'[(Len(up') + 1) - 1].data
  BY DEF Known, Before
<1>5. CASE Len(up) = 1
  BY <1>2, <1>3, <1>4, <1>5
<1>6. CASE Len(up) # 1
  <2>1. /\ Len(up') \in 1..Len(up') /\ (Len(up') + 1) - 1 = Len(up')
        /\ Len(up') + 1 = Len(up)
    BY <1>1, <1>2, <1>6
  <2>2. QED
    BY <1>2, <1>3, <1>4, <1>6, <2>1
<1>7. QED
  BY <1>5, <1>6

\* The shadow takes the first update: an email is due exactly if its status is
\* another than the shadow's.
LEMMA UpdateIInv == IInv /\ Update => IInv'
<1>1. SUFFICES ASSUME IInv, Update PROVE IInv'
  OBVIOUS
<1>2. TypeOK /\ Listening /\ BufferInStep /\ ChangesFlagged
  BY <1>1 DEF IInv
<1>3. UNCHANGED <<frame, pos, inStep, enabled, dispatcher, attended, rx, parsed, led,
                  connected, desired, lost>>
  BY <1>1 DEF Update, lineVars, uartVars
<1>4. /\ up # <<>> /\ up \in Seq(Messages) /\ down \in Seq({0, 1}) /\ desired \in 0..2
      /\ mailed \in {"Power OK", "MCB Tripped", "No Power"}
  BY <1>1, <1>2 DEF Update, TypeOK
<1>5. /\ shadow' = Head(up) /\ up' = Tail(up)
      /\ mailed' = IF shadow'.data.sendEmail = 1 THEN shadow'.data.stsMCB ELSE mailed
      /\ heard' = IF shadow'.data.sendEmail = 1 \/ heard = "an email" THEN "an email"
                                                                    ELSE "updates"
      /\ down' = IF desired # 2 /\ desired # shadow'.led THEN Append(down, desired)
                                                         ELSE down
  BY <1>1 DEF Update
<1>6. /\ Len(up) \in Nat /\ Len(up) > 0 /\ Head(up) = up[1] /\ up[1] \in Messages
      /\ up' \in Seq(Messages) /\ Len(up') = Len(up) - 1
      /\ \A i \in 1..Len(up') : up'[i] = up[i + 1]
  <2>1. up # <<>> /\ up \in Seq(Messages)
    BY <1>4
  <2>2. Len(up) \in Nat /\ Len(up) > 0
    BY <2>1, EmptySeq
  <2>3. up[1] \in Messages
    BY <2>1, <2>2, LenProperties
  <2>4. Head(up) = up[1]
    BY <2>1
  <2>5. /\ Tail(up) \in Seq(Messages) /\ Len(Tail(up)) = Len(up) - 1
        /\ \A i \in 1..Len(Tail(up)) : Tail(up)[i] = up[i + 1]
    BY <2>1, HeadTailProperties
  <2>6. up' = Tail(up)
    BY <1>5
  <2>7. QED
    BY <2>2, <2>3, <2>4, <2>5, <2>6
<1>7. /\ shadow' = up[1] /\ up[1].data.sendEmail \in {0, 1}
      /\ up[1].data.stsMCB \in {"Power OK", "MCB Tripped", "No Power"}
  BY <1>5, <1>6 DEF Messages, Data
<1>8. TypeOK'
  <2>1. mailed' \in {"Power OK", "MCB Tripped", "No Power"}
    BY <1>4, <1>5, <1>7
  <2>2. down' \in Seq({0, 1})
    <3>1. CASE down' = Append(down, desired) /\ desired # 2
      <4>1. desired \in {0, 1}
        <5>1. desired \in 0..2 /\ desired # 2
          BY <1>4, <3>1
        <5>2. QED
          BY <5>1
      <4>2. QED
        BY <1>4, <3>1, <4>1, AppendProperties
    <3>2. CASE down' = down
      BY <1>4, <3>2
    <3>3. QED
      BY <1>5, <3>1, <3>2
  <2>3. shadow' \in Messages /\ heard' \in {"nothing", "updates", "an email"}
    BY <1>5, <1>6, <1>7
  <2>4. QED
    BY <1>2, <1>3, <1>6, <2>1, <2>2, <2>3 DEF TypeOK
<1>9. Listening' /\ BufferInStep'
  BY <1>2, <1>3 DEF Listening, BufferInStep, Says
<1>10. ChangesFlagged'
  <2>1. SUFFICES ASSUME ~lost
                 PROVE  /\ MailKnown'
                        /\ \A i \in 1..Len(up') :
                             up'[i].data.sendEmail = 0
                               => up'[i].data.stsMCB = Known(i)'.stsMCB
                        /\ parsed.stsMCB = Known(Len(up) + 1)'.stsMCB
    BY <1>2, <1>3 DEF ChangesFlagged
  <2>2. /\ MailKnown
        /\ \A i \in 1..Len(up) : up[i].data.sendEmail = 0
                                  => up[i].data.stsMCB = Known(i).stsMCB
        /\ parsed.stsMCB = Known(Len(up) + 1).stsMCB
    BY <1>2, <2>1 DEF ChangesFlagged
  <2>3. \A i \in 1..Len(up) : Known(i)' = up[i].data /\ Known(i + 1) = up[i].data
    <3>1. heard' # "nothing"
      BY <1>5
    <3>2. QED
      BY <1>4, <1>5, <3>1, KnownShifts
  <2>4. MailKnown'
    <3>1. 1 \in 1..Len(up)
      BY <1>6
    <3>2. Known(1)' = up[1].data
      BY <2>3, <3>1
    <3>3. up[1].data.sendEmail = 0 => up[1].data.stsMCB = Known(1).stsMCB
      BY <2>2, <3>1
    <3>4. heard = "an email" => Known(1) = shadow.data
      BY DEF Known, Before
    <3>5. CASE up[1].data.sendEmail = 1
      BY <1>5, <1>7, <3>5 DEF MailKnown
    <3>6. CASE up[1].data.sendEmail = 0 /\ heard = "an email"
      BY <1>5, <1>7, <2>2, <3>3, <3>4, <3>6 DEF MailKnown
    <3>7. CASE up[1].data.sendEmail = 0 /\ heard # "an email"
      BY <1>5, <1>7, <2>2, <3>2, <3>3, <3>7 DEF MailKnown
    <3>8. QED
      BY <1>7, <3>5, <3>6, <3>7
  <2>5. ASSUME NEW i \in 1..Len(up'), up'[i].data.sendEmail = 0
        PROVE  up'[i].data.stsMCB = Known(i)'.stsMCB
    <3>1. i \in 1..Len(up) /\ i + 1 \in 1..Len(up)
      BY <1>6, <2>5
    <3>2. up'[i] = up[i + 1] /\ Known(i)' = Known(i + 1)
      BY <1>6, <2>3, <2>5, <3>1
    <3>3. QED
      BY <2>2, <2>5, <3>1, <3>2
  <2>6. parsed.stsMCB = Known(Len(up) + 1)'.stsMCB
    <3>1. heard' # "nothing"
      BY <1>5
    <3>2. Known(Len(up) + 1)' = Known(Len(up) + 1)
      BY <1>4, <1>5, <3>1, KnownStays
    <3>3. QED
      BY <2>2, <3>2
  <2>7. QED
    BY <2>4, <2>5, <2>6
<1>11. QED
  BY <1>8, <1>9, <1>10 DEF IInv

\* The user's wish is no concern of what was read or published.
LEMMA DesireIInv == IInv /\ (\E level \in Switches : Desire(level)) => IInv'
<1>1. SUFFICES ASSUME IInv, NEW level \in Switches, Desire(level) PROVE IInv'
  OBVIOUS
<1>2. TypeOK /\ Listening /\ BufferInStep /\ ChangesFlagged
  BY <1>1 DEF IInv
<1>3. /\ UNCHANGED <<frame, pos, inStep, enabled, dispatcher, attended, rx, parsed, led,
                     connected, up, shadow, mailed, heard, lost>>
      /\ desired' = level
      /\ down' = Append(down, level) \/ down' = down
  BY <1>1 DEF Desire, lineVars, uartVars
<1>4. level \in {0, 1} /\ down \in Seq({0, 1})
  BY <1>2, SwitchesAssumption DEF TypeOK
<1>5. TypeOK'
  <2>1. down' \in Seq({0, 1})
    BY <1>3, <1>4, AppendProperties
  <2>2. desired' \in 0..2
    BY <1>3, <1>4
  <2>3. QED
    BY <1>2, <1>3, <2>1, <2>2 DEF TypeOK
<1>6. QED
  BY <1>2, <1>3, <1>5 DEF IInv, Listening, BufferInStep, Says, ChangesFlagged, MailKnown,
     Known, Before

\* Every step keeps the invariant.
LEMMA NextIInv == IInv /\ [Next]_vars => IInv'
<1>1. SUFFICES ASSUME IInv, [Next]_vars PROVE IInv'
  OBVIOUS
<1>2. CASE Arrive
  BY <1>1, <1>2, ArriveIInv
<1>3. CASE EnableRx \/ Bu
  BY <1>1, <1>3, StartIInv
<1>4. CASE Dispatch
  BY <1>1, <1>4, DispatchIInv
<1>5. CASE Delta
  BY <1>1, <1>5, DeltaIInv
<1>6. CASE Connect \/ Disconnect
  BY <1>1, <1>6, ConnectionIInv
<1>7. CASE Update
  BY <1>1, <1>7, UpdateIInv
<1>8. CASE \E level \in Switches : Desire(level)
  BY <1>1, <1>8, DesireIInv
<1>9. CASE UNCHANGED vars
  BY <1>1, <1>9 DEF vars, lineVars, uartVars, cloudVars, IInv, TypeOK, Listening,
     BufferInStep, Says, ChangesFlagged, MailKnown, Known, Before
<1>10. QED
  BY <1>1, <1>2, <1>3, <1>4, <1>5, <1>6, <1>7, <1>8, <1>9 DEF Next, Gateway

-----------------------------------------------------------------------------
\* The inductive invariant holds in every reachable state.
THEOREM Invariance == Spec => []IInv
<1>1. Init => IInv
  BY InitIInv
<1>2. IInv /\ [Next]_vars => IInv'
  BY NextIInv
<1>3. QED
  BY <1>1, <1>2, PTL DEF Spec

\* Every variable keeps its type, whatever lies in the buffer.
THEOREM TypeCorrect == Spec => []TypeOK
<1>1. IInv => TypeOK
  BY DEF IInv
<1>2. QED
  BY <1>1, Invariance, PTL

\* What is parsed from a report that began with an empty buffer is what the
\* controller sent (init.js:115-127).
THEOREM ReadsAsSent == Spec => []ReadAsSent
<1>1. IInv => ReadAsSent
  <2>1. SUFFICES ASSUME IInv, inStep, pos = 0, rx = <<>> PROVE Says(parsed, frame)
    BY DEF ReadAsSent
  <2>2. Len(rx) = 0
    BY <2>1
  <2>3. QED
    BY <2>1, <2>2 DEF IInv, BufferInStep
<1>2. QED
  BY <1>1, Invariance, PTL

\* No step but a missed pause between two reports puts the gateway out of step.
THEOREM KeepsStep == Spec => StaysInStep
<1>1. IInv /\ [Next]_vars => [inStep /\ (pos = 0 => attended) => inStep']_vars
  <2>1. SUFFICES ASSUME IInv, Next, inStep, pos = 0 => attended PROVE inStep'
    OBVIOUS
  <2>2. CASE Arrive
    <3>1. CASE pos = 0
      <4>1. dispatcher /\ rx = <<>>
        BY <2>1, <3>1 DEF IInv, BufferInStep
      <4>2. QED
        BY <2>2, <3>1, <4>1 DEF Arrive
    <3>2. CASE pos # 0
      BY <2>1, <2>2, <3>2 DEF Arrive
    <3>3. QED
      BY <3>1, <3>2
  <2>3. CASE ~Arrive
    <3>1. inStep' = inStep
      BY <2>1, <2>3 DEF Next, Gateway, EnableRx, Bu, Dispatch, Delta, Connect,
         Disconnect, Update, Desire, lineVars
    <3>2. QED
      BY <2>1, <3>1
  <2>4. QED
    BY <2>2, <2>3
<1>2. QED
  BY <1>1, Invariance, PTL DEF Spec, StaysInStep

\* While no update is lost, the last email tells what the shadow shows.
THEOREM MailsTellState == Spec => []MailTellsState
<1>1. Init => NothingMailed
  <2>1. SUFFICES ASSUME Init PROVE shadow.data.stsMCB = "Power OK" /\ mailed = "Power OK"
    BY DEF NothingMailed
  <2>2. shadow.data = NothingParsed
    BY <2>1, NothingType, MessageType DEF Init
  <2>3. QED
    BY <2>1, <2>2, NothingType DEF Init
<1>2. IInv /\ NothingMailed /\ [Next]_vars => NothingMailed'
  <2>1. SUFFICES ASSUME IInv, NothingMailed, [Next]_vars PROVE NothingMailed'
    OBVIOUS
  <2>2. CASE Update
    BY <2>1, <2>2 DEF Update, NothingMailed
  <2>3. CASE ~Update
    <3>1. UNCHANGED <<shadow, mailed, heard>>
      BY <2>1, <2>3 DEF Next, Gateway, Arrive, EnableRx, Bu, Dispatch, Delta, Connect,
         Disconnect, Desire, vars, cloudVars
    <3>2. QED
      BY <2>1, <3>1 DEF NothingMailed
  <2>4. QED
    BY <2>2, <2>3
<1>3. IInv /\ NothingMailed => MailTellsState
  BY DEF IInv, ChangesFlagged, MailKnown, Known, Before, NothingMailed, MailTellsState
<1>4. QED
  BY <1>1, <1>2, <1>3, Invariance, PTL DEF Spec

\* Once the gateway has reported, the last email tells what the shadow shows, or
\* there was none and the shadow shows a healthy state.
LEMMA MailStands == IInv => LastEmailStands
<1>1. SUFFICES ASSUME IInv, ~lost, heard # "nothing"
               PROVE  \/ mailed = shadow.data.stsMCB
                      \/ heard = "updates" /\ shadow.data.stsMCB = "Power OK"
  BY DEF LastEmailStands
<1>2. MailKnown /\ heard \in {"nothing", "updates", "an email"}
  BY <1>1 DEF IInv, ChangesFlagged, TypeOK
<1>3. Known(1) = shadow.data
  BY <1>1 DEF Known, Before
<1>4. QED
  BY <1>1, <1>2, <1>3 DEF MailKnown
-----------------------------------------------------------------------------
\* The queue of updates that asks for no email too many survives a message that
\* tells a new state if it asks for one, or repeats the last.
LEMMA ReportKeepsDue ==
  ASSUME NEW data \in Data, NEW pin, TypeOK, EmailsDue,
         Report(data, pin, up), UNCHANGED <<shadow, heard>>, parsed' = data,
         data.sendEmail = 1 => data.sts # parsed.sts \/ data = parsed
  PROVE  EmailsDue'
<1>1. up \in Seq(Messages) /\ lost \in BOOLEAN /\ Len(up) \in Nat
  BY LenProperties DEF TypeOK
<1>2. SUFFICES ASSUME ~lost'
               PROVE  /\ \A i \in 1..Len(up') :
                           up'[i].data.sendEmail = 1
                             => \/ up'[i].data.sts # Known(i)'.sts
                                \/ up'[i].data = Known(i)'
                      /\ parsed' = Known(Len(up) + 1)'
  BY DEF EmailsDue
<1>3. /\ ~lost
      /\ Len(up') = Len(up) + 1
      /\ \A i \in 1..Len(up) : up'[i] = up[i]
      /\ up'[Len(up) + 1].data = data
  BY <1>1, <1>2, ReportQueues
<1>4. \A i \in 1..(Len(up) + 1) : Known(i)' = Known(i)
  BY <1>1, <1>3 DEF Known, Before
<1>5. /\ \A i \in 1..Len(up) : up[i].data.sendEmail = 1
                                => \/ up[i].data.sts # Known(i).sts
                                   \/ up[i].data = Known(i)
      /\ parsed = Known(Len(up) + 1)
  BY <1>3 DEF EmailsDue
<1>6. ASSUME NEW i \in 1..Len(up'), up'[i].data.sendEmail = 1
      PROVE  up'[i].data.sts # Known(i)'.sts \/ up'[i].data = Known(i)'
  <2>1. CASE i = Len(up) + 1
    <3>1. Known(i)' = Known(Len(up) + 1)
      BY <1>1, <1>4, <2>1
    <3>2. up'[i].data = data
      BY <1>3, <2>1
    <3>3. QED
      BY <1>5, <1>6, <3>1, <3>2
  <2>2. CASE i # Len(up) + 1
    <3>1. i \in 1..Len(up) /\ i \in 1..(Len(up) + 1)
      BY <1>1, <1>3, <2>2
    <3>2. up'[i] = up[i] /\ Known(i)' = Known(i)
      BY <1>3, <1>4, <3>1
    <3>3. QED
      BY <1>5, <1>6, <3>1, <3>2
  <2>3. QED
    BY <2>1, <2>2
<1>7. parsed' = Known(Len(up) + 1)'
  <2>1. Known(Len(up) + 1)' = up'[Len(up) + 1].data
    BY <1>1, <1>3, KnownLast
  <2>2. QED
    BY <1>3, <2>1
<1>8. QED
  BY <1>6, <1>7

\* The first update leaves the queue, and the shadow takes its place before the
\* second.
LEMMA UpdateKeepsDue == IInv /\ EmailsDue /\ Update => EmailsDue'
<1>1. SUFFICES ASSUME IInv, EmailsDue, Update PROVE EmailsDue'
  OBVIOUS
<1>2. lost' = lost
  BY <1>1 DEF Update
<1>3. SUFFICES ASSUME ~lost
               PROVE  /\ \A i \in 1..Len(up') :
                           up'[i].data.sendEmail = 1
                             => \/ up'[i].data.sts # Known(i)'.sts
                                \/ up'[i].data = Known(i)'
                      /\ parsed' = Known(Len(up) + 1)'
  BY <1>2 DEF EmailsDue
<1>4. /\ up # <<>> /\ up \in Seq(Messages) /\ up' = Tail(up) /\ shadow' = Head(up)
      /\ parsed' = parsed /\ heard' # "nothing"
  BY <1>1 DEF IInv, TypeOK, Update
<1>5. Len(up) \in Nat /\ Len(up) > 0
  BY <1>4, EmptySeq
<1>6. /\ Len(up') = Len(up) - 1
      /\ \A i \in 1..Len(up') : up'[i] = up[i + 1]
  BY <1>4, <1>5, HeadTailProperties
<1>7. /\ \A i \in 1..Len(up) : up[i].data.sendEmail = 1
                                => \/ up[i].data.sts # Known(i).sts
                                   \/ up[i].data = Known(i)
      /\ parsed = Known(Len(up) + 1)
  BY <1>1, <1>3 DEF EmailsDue
<1>8. \A i \in 1..Len(up) : Known(i)' = up[i].data /\ Known(i + 1) = up[i].data
  BY <1>4, KnownShifts
<1>9. ASSUME NEW i \in 1..Len(up'), up'[i].data.sendEmail = 1
      PROVE  up'[i].data.sts # Known(i)'.sts \/ up'[i].data = Known(i)'
  <2>1. i \in 1..Len(up) /\ i + 1 \in 1..Len(up)
    BY <1>5, <1>6, <1>9
  <2>2. up'[i] = up[i + 1] /\ Known(i)' = Known(i + 1)
    BY <1>6, <1>8, <1>9, <2>1
  <2>3. QED
    BY <1>7, <1>9, <2>1, <2>2
<1>10. parsed' = Known(Len(up) + 1)'
  BY <1>4, <1>7, KnownStays
<1>11. QED
  BY <1>9, <1>10

\* Every step keeps the updates free of emails that are not due.
LEMMA NextKeepsDue == IInv /\ EmailsDue /\ [Next]_vars => EmailsDue'
<1>1. SUFFICES ASSUME IInv, EmailsDue, [Next]_vars PROVE EmailsDue'
  OBVIOUS
<1>2. TypeOK /\ parsed \in Data /\ up \in Seq(Messages) /\ rx \in Seq(Byte)
  BY <1>1 DEF IInv, TypeOK
<1>3. CASE Dispatch /\ Len(rx) > 5
  <2>1. /\ parsed' = Parse(rx, parsed.sts) /\ Report(parsed', led, up)
        /\ UNCHANGED <<shadow, heard>>
    BY <1>3 DEF Dispatch, ReportComplete, cloudVars
  <2>2. parsed' \in Data
    BY <1>2, <1>3, <2>1, ParseType
  <2>3. parsed'.sendEmail = 1 => parsed'.sts # parsed.sts
    BY <2>1 DEF Parse
  <2>4. QED
    BY <1>1, <1>2, <2>1, <2>2, <2>3, ReportKeepsDue
<1>4. CASE Delta
  <2>1. Report(parsed, led', up) /\ UNCHANGED <<shadow, heard, parsed>>
    BY <1>4 DEF Delta, cloudVars
  <2>2. QED
    BY <1>1, <1>2, <2>1, ReportKeepsDue
<1>5. CASE Update
  BY <1>1, <1>5, UpdateKeepsDue
<1>6. CASE Disconnect
  <2>1. /\ up' = <<>> /\ lost' = (lost \/ up # <<>>)
        /\ UNCHANGED <<parsed, shadow, heard>>
    BY <1>6 DEF Disconnect, cloudVars
  <2>2. ~lost' => ~lost /\ up' = up
    BY <2>1
  <2>3. QED
    BY <1>1, <2>1, <2>2 DEF EmailsDue, Known, Before
<1>7. CASE ~Update /\ ~Delta /\ ~Disconnect /\ ~(Dispatch /\ Len(rx) > 5)
  <2>1. UNCHANGED <<up, lost, parsed, shadow, heard>>
    BY <1>1, <1>7 DEF Next, Gateway, Arrive, EnableRx, Bu, Dispatch, ReportComplete,
       Connect, Desire, vars, cloudVars
  <2>2. QED
    BY <1>1, <2>1 DEF EmailsDue, Known, Before
<1>8. QED
  BY <1>3, <1>4, <1>5, <1>6, <1>7

\* A state without emails that are not due gives none with its next step.
LEMMA DueTold ==
  IInv /\ EmailsDue
    => [Update /\ ~lost /\ Head(up).data.sendEmail = 1
          => Head(up).data.sts # Known(1).sts \/ Head(up).data = Known(1)]_vars
<1>1. SUFFICES ASSUME IInv, EmailsDue, Update, ~lost, Head(up).data.sendEmail = 1
               PROVE  Head(up).data.sts # Known(1).sts \/ Head(up).data = Known(1)
  OBVIOUS
<1>2. up # <<>> /\ up \in Seq(Messages)
  BY <1>1 DEF IInv, TypeOK, Update
<1>3. Len(up) \in Nat /\ Len(up) > 0
  BY <1>2, EmptySeq
<1>4. 1 \in 1..Len(up) /\ Head(up) = up[1]
  BY <1>2, <1>3
<1>5. QED
  BY <1>1, <1>4 DEF EmailsDue

LEMMA InitDue == Init => EmailsDue
<1>1. SUFFICES ASSUME Init PROVE EmailsDue
  OBVIOUS
<1>2. up = <<>> /\ parsed = NothingParsed /\ heard = "nothing"
  BY <1>1 DEF Init
<1>3. Len(up) = 0 /\ Known(1) = parsed
  BY <1>2 DEF Known
<1>4. QED
  BY <1>3 DEF EmailsDue

\* While no update is lost, an email tells a new state, or a delta made the
\* gateway repeat the last report.
THEOREM EmailsDueOnly == Spec => EmailsOnceOrRepeated
<1>1. Init => EmailsDue
  BY InitDue
<1>2. IInv /\ EmailsDue /\ [Next]_vars => EmailsDue'
  BY NextKeepsDue
<1>3. IInv /\ EmailsDue
        => [Update /\ ~lost /\ Head(up).data.sendEmail = 1
              => Head(up).data.sts # Known(1).sts \/ Head(up).data = Known(1)]_vars
  BY DueTold
<1>4. QED
  BY <1>1, <1>2, <1>3, Invariance, PTL DEF Spec, EmailsOnceOrRepeated
-----------------------------------------------------------------------------
(***************************************************************************)
(* The composition with the meter and with reboots (System): the gateway's *)
(* invariant is kept, and a report in step is followed from the            *)
(* measurements behind it to the shadow.                                   *)
(***************************************************************************)

\* The meter counts with the arithmetic of the line.
LEMMA MeterArithmetic ==
  /\ M!PowerOK = PowerOK
  /\ \A m : M!Verdict(m) = Verdict(m)
  /\ \A p, m : M!Peak(p, m) = Peak(p, m)
BY DEF M!PowerOK, PowerOK, M!Tripped, Tripped, M!NoPower, NoPower, M!Verdict, Verdict,
   M!Peak, Peak

\* Each channel of a measurement holds two bytes, and so does nothing at all.
LEMMA MeasuredType ==
  \A m \in Measurements \cup {Zero} :
    m \in [Channel -> 0..MaxUInt16] /\ m["crnt"] \in Nat
<1>1. 0 \in 0..MaxUInt16 /\ "crnt" \in Channel
  BY Word16 DEF Channel
<1>2. Zero \in [Channel -> 0..MaxUInt16]
  BY <1>1 DEF Zero
<1>3. ASSUME NEW m \in [Channel -> 0..MaxUInt16] PROVE m["crnt"] \in Nat
  BY <1>1, <1>3, Word16
<1>4. QED
  BY <1>2, <1>3, MeasurementsAssumption

\* A verdict that was measured is one of the three.
LEMMA VerdictsType == Verdicts \subseteq {PowerOK, Tripped, NoPower}
BY VerdictType DEF Verdicts

\* A measurement's current is among those that can be behind a report.
LEMMA CurrentsNat ==
  ASSUME SystemTypeOK
  PROVE  /\ \A i \in behind \cup basis.behind : i \in Nat
         /\ {peak, measured, basis.last, verdict.values} \subseteq Measurements \cup {Zero}
         /\ peak["crnt"] \in Nat
BY MeasuredType DEF SystemTypeOK

\* The line, the gateway and the shadow keep their invariant when nothing of
\* theirs changes.
LEMMA GatewayKept == IInv /\ UNCHANGED vars => IInv'
<1>1. UNCHANGED vars => [Next]_vars
  OBVIOUS
<1>2. QED
  BY <1>1, NextIInv

LEMMA InitSInv == SystemInit => SInv
<1>1. SUFFICES ASSUME SystemInit PROVE SInv
  OBVIOUS
<1>2. /\ Init /\ pos = 0
      /\ peak = Zero /\ verdict = [trip |-> PowerOK, values |-> Zero]
      /\ measured = Zero /\ fresh = FALSE /\ behind = {0}
      /\ basis = [last |-> Zero, behind |-> {0}] /\ dropped = TRUE /\ reboots = 0
  BY <1>1 DEF SystemInit
<1>3. IInv /\ TypeOK /\ inStep = FALSE
  BY <1>2, InitIInv DEF IInv, Init
<1>4. "crnt" \in Channel /\ Zero["crnt"] = 0 /\ Zero \in Measurements \cup {Zero}
  BY DEF Channel, Zero
<1>5. SystemTypeOK
  <2>1. reboots \in 0..MaxReboots
    BY <1>2, RebootsAssumption
  <2>2. 0 \in {m["crnt"] : m \in Measurements \cup {Zero}}
    BY <1>4
  <2>3. verdict.trip = PowerOK /\ verdict.values = Zero /\ basis.last = Zero
        /\ basis.behind = {0}
    BY <1>2
  <2>4. QED
    BY <1>2, <1>3, <2>1, <2>2, <2>3 DEF SystemTypeOK
<1>6. HalvesOnly
  BY <1>2 DEF HalvesOnly, Verdicts
<1>7. PeakCovers
  BY <1>2, <1>4 DEF PeakCovers
<1>8. QED
  BY <1>2, <1>3, <1>5, <1>6, <1>7 DEF SInv, MeterTells, FrameTells, Told
\* A measurement is judged, held if its current is the highest, and shown.
LEMMA MeasureSInv == SInv /\ (\E m \in Measurements : Measure(m)) => SInv'
<1>1. SUFFICES ASSUME SInv, NEW m \in Measurements, Measure(m) PROVE SInv'
  OBVIOUS
<1>2. /\ UNCHANGED vars /\ UNCHANGED <<basis, dropped, reboots, pos, frame, inStep>>
      /\ UNCHANGED <<parsed, up, shadow>>
      /\ measured' = m /\ fresh' = TRUE /\ behind' = behind \cup {m["crnt"]}
      /\ peak' = Peak(peak, m)
      /\ verdict' = [trip |-> Verdict(m),
                     values |-> IF Verdict(m) = PowerOK THEN m ELSE peak']
  BY <1>1, MeterArithmetic DEF Measure, M!Observe, vars, lineVars, cloudVars
<1>3. IInv'
  BY <1>1, <1>2, GatewayKept DEF SInv
<1>4. /\ \A i \in behind \cup basis.behind : i \in Nat
      /\ {peak, measured, basis.last} \subseteq Measurements \cup {Zero}
      /\ peak["crnt"] \in Nat /\ m["crnt"] \in Nat
  BY <1>1, CurrentsNat, MeasuredType DEF SInv
<1>5. peak' \in {peak, m} /\ peak'["crnt"] >= peak["crnt"] /\ peak'["crnt"] >= m["crnt"]
      /\ peak'["crnt"] \in Nat
  BY <1>2, <1>4 DEF Peak
<1>6. PeakCovers'
  <2>1. ASSUME NEW i \in behind' PROVE i <= peak'["crnt"]
    <3>1. CASE i = m["crnt"]
      BY <1>4, <1>5, <3>1
    <3>2. CASE i \in behind
      <4>1. i \in Nat /\ i <= peak["crnt"]
        BY <1>1, <1>4, <3>2 DEF SInv, PeakCovers
      <4>2. QED
        BY <1>4, <1>5, <4>1
    <3>3. QED
      BY <1>2, <2>1, <3>1, <3>2
  <2>2. QED
    BY <2>1 DEF PeakCovers
<1>7. /\ verdict'.trip = Verdict(m)
      /\ verdict'.values = IF Verdict(m) = PowerOK THEN m ELSE peak'
  BY <1>2
<1>8. HalvesOnly'
  <2>1. Verdict(m) \in Verdicts
    BY DEF Verdicts
  <2>2. (IF Verdict(m) = PowerOK THEN m ELSE peak') \in Measurements \cup {Zero}
    BY <1>4, <1>5
  <2>3. QED
    BY <1>1, <1>2, <2>1, <2>2 DEF SInv, HalvesOnly
<1>9. SystemTypeOK'
  <2>1. verdict'.trip \in {PowerOK, Tripped, NoPower}
    BY <1>7, VerdictType
  <2>2. verdict'.values \in Measurements \cup {Zero}
    BY <1>4, <1>5, <1>7
  <2>3. behind' \cup basis'.behind \subseteq {x["crnt"] : x \in Measurements \cup {Zero}}
    BY <1>1, <1>2 DEF SInv, SystemTypeOK
  <2>4. QED
    BY <1>1, <1>2, <1>3, <1>4, <1>5, <2>1, <2>2, <2>3 DEF SInv, SystemTypeOK, IInv
<1>10. MeterTells'
  BY <1>2, <1>6, <1>7 DEF MeterTells, StandFor, PeakCovers
<1>11. FrameTells' /\ Told'
  BY <1>1, <1>2 DEF SInv, FrameTells, Told, Before
<1>12. QED
  BY <1>3, <1>6, <1>8, <1>9, <1>10, <1>11 DEF SInv

\* The controller forgets the peak only while the state is healthy: the values
\* shown are then the measurement itself, and nothing else is behind them.
LEMMA ForgetSInv == SInv /\ ForgetPeak => SInv'
<1>1. SUFFICES ASSUME SInv, ForgetPeak PROVE SInv'
  OBVIOUS
<1>2. /\ UNCHANGED vars /\ UNCHANGED <<basis, dropped, reboots, pos, frame, inStep>>
      /\ UNCHANGED <<parsed, up, shadow, measured, fresh, verdict>>
      /\ behind' = {verdict.values["crnt"]} /\ peak' = verdict.values
      /\ fresh /\ verdict.trip = PowerOK
  BY <1>1, MeterArithmetic DEF ForgetPeak, M!Forget, vars, lineVars, cloudVars
<1>3. IInv'
  BY <1>1, <1>2, GatewayKept DEF SInv
<1>4. verdict.values \in Measurements \cup {Zero} /\ verdict.values["crnt"] \in Nat
  BY <1>1, CurrentsNat, MeasuredType DEF SInv
<1>5. SystemTypeOK'
  <2>1. behind' \cup basis'.behind \subseteq {x["crnt"] : x \in Measurements \cup {Zero}}
    BY <1>1, <1>2, <1>4 DEF SInv, SystemTypeOK
  <2>2. QED
    BY <1>1, <1>2, <1>3, <1>4, <2>1 DEF SInv, SystemTypeOK, IInv
<1>6. PeakCovers'
  BY <1>2, <1>4 DEF PeakCovers
<1>7. MeterTells'
  <2>1. Verdict(measured) = PowerOK /\ verdict.values = measured
    BY <1>1, <1>2 DEF SInv, MeterTells, StandFor
  <2>2. QED
    BY <1>2, <2>1 DEF MeterTells, StandFor
<1>8. HalvesOnly' /\ FrameTells' /\ Told'
  BY <1>1, <1>2 DEF SInv, HalvesOnly, FrameTells, Told, Before
<1>9. QED
  BY <1>3, <1>5, <1>6, <1>7, <1>8 DEF SInv

\* Three bytes of a report, as they join the buffer.
LEMMA ThreeBytes ==
  ASSUME NEW s \in Seq(Byte), NEW r \in [1..6 -> Byte], NEW p \in {0, 3}
  PROVE  LET joined == s \o SubSeq(r, p + 1, p + 3)
         IN  /\ joined \in Seq(Byte) /\ Len(joined) = Len(s) + 3
             /\ \A i \in 1..Len(s) : joined[i] = s[i]
             /\ \A i \in 1..3 : joined[Len(s) + i] = r[p + i]
<1> DEFINE three == SubSeq(r, p + 1, p + 3)
<1> DEFINE joined == s \o three
<1>1. /\ p \in Nat /\ p + 1 \in Int /\ p + 3 \in Int /\ p + 1 <= p + 3
      /\ (p + 3) - (p + 1) + 1 = 3
      /\ \A i \in (p + 1)..(p + 3) : i \in 1..6
      /\ \A i \in 1..3 : (p + 1) + i - 1 = p + i
  OBVIOUS
<1>2. \A i \in (p + 1)..(p + 3) : r[i] \in Byte
  BY <1>1
<1>3. /\ three \in Seq(Byte) /\ Len(three) = 3
      /\ \A i \in 1..3 : three[i] = r[p + i]
  <2>1. /\ SubSeq(r, p + 1, p + 3) \in Seq(Byte)
        /\ Len(SubSeq(r, p + 1, p + 3))
             = IF p + 1 <= p + 3 THEN (p + 3) - (p + 1) + 1 ELSE 0
        /\ \A i \in 1..((p + 3) - (p + 1) + 1) :
             SubSeq(r, p + 1, p + 3)[i] = r[(p + 1) + i - 1]
    BY <1>1, <1>2, SubSeqProperties
  <2>2. QED
    BY <1>1, <2>1
<1> HIDE DEF three
<1>4. Len(s) \in Nat
  BY LenProperties
<1>5. /\ joined \in Seq(Byte) /\ Len(joined) = Len(s) + 3
      /\ \A i \in 1..(Len(s) + 3) : joined[i] = IF i <= Len(s) THEN s[i]
                                                ELSE three[i - Len(s)]
  <2>1. three \in Seq(Byte) /\ s \in Seq(Byte)
    BY <1>3
  <2>2. /\ s \o three \in Seq(Byte) /\ Len(s \o three) = Len(s) + Len(three)
        /\ \A i \in 1..(Len(s) + Len(three)) :
             (s \o three)[i] = IF i <= Len(s) THEN s[i] ELSE three[i - Len(s)]
    BY <2>1, ConcatProperties
  <2>3. QED
    BY <1>3, <2>2
<1> HIDE DEF joined
<1>6. \A i \in 1..Len(s) : joined[i] = s[i]
  BY <1>4, <1>5
<1>7. ASSUME NEW i \in 1..3 PROVE joined[Len(s) + i] = r[p + i]
  <2>1. /\ Len(s) + i \in 1..(Len(s) + 3) /\ ~(Len(s) + i <= Len(s))
        /\ (Len(s) + i) - Len(s) = i
    BY <1>4
  <2>2. QED
    BY <1>3, <1>5, <2>1
<1>8. QED
  BY <1>5, <1>6, <1>7 DEF joined, three
\* Half a report arrives: a new one is made of the verdict shown, the rest
\* belongs to the one begun, in step if the beginning was.
LEMMA DeliverIInv == SInv /\ Deliver => IInv'
<1>1. SUFFICES ASSUME SInv, Deliver PROVE IInv'
  OBVIOUS
<1>2. TypeOK /\ Listening /\ BufferInStep /\ ChangesFlagged /\ HalvesOnly
  BY <1>1 DEF SInv, IInv
<1>3. /\ frame' = (IF pos = 0 THEN Frame(verdict.trip, verdict.values) ELSE frame)
      /\ inStep' = (IF pos = 0 THEN dispatcher /\ rx = <<>> ELSE inStep)
      /\ rx' = (IF enabled THEN rx \o SubSeq(frame', pos + 1, pos + 3) ELSE rx)
      /\ pos' = 3 - pos /\ attended' = FALSE /\ Len(rx) + 3 <= MaxBuffered
      /\ UNCHANGED <<enabled, dispatcher, parsed, led, connected, up, down, shadow,
                     desired, mailed, heard, lost>>
  BY <1>1 DEF Deliver, cloudVars
<1>4. pos \in {0, 3} /\ pos' \in {0, 3} /\ pos' \in 0..5
  BY <1>2, <1>3 DEF HalvesOnly
<1>5. frame' \in Reports /\ frame' \in [1..6 -> Byte]
  <2>1. verdict.trip \in Verdicts /\ verdict.values \in Measurements \cup {Zero}
    BY <1>2 DEF HalvesOnly
  <2>2. Frame(verdict.trip, verdict.values) \in Reports
    BY <2>1, FramesAssumption
  <2>3. QED
    BY <1>2, <1>3, <2>2, ReportType DEF TypeOK
<1>6. rx \in Seq(Byte) /\ Len(rx) \in Nat
  BY <1>2, LenProperties DEF TypeOK
<1>7. enabled => /\ rx' \in Seq(Byte) /\ Len(rx') = Len(rx) + 3
                 /\ \A i \in 1..Len(rx) : rx'[i] = rx[i]
                 /\ \A i \in 1..3 : rx'[Len(rx) + i] = frame'[pos + i]
  BY <1>3, <1>4, <1>5, <1>6, ThreeBytes
<1>8. TypeOK'
  <2>1. rx' \in Seq(Byte) /\ Len(rx') <= MaxBuffered
    BY <1>2, <1>3, <1>6, <1>7, BoundsAssumption DEF TypeOK
  <2>2. inStep' \in BOOLEAN
    BY <1>2, <1>3 DEF TypeOK
  <2>3. QED
    BY <1>2, <1>3, <1>4, <1>5, <2>1, <2>2 DEF TypeOK
<1>9. BufferInStep'
  <2>1. SUFFICES ASSUME inStep'
                 PROVE  /\ dispatcher /\ Len(rx') = (IF pos' = 0 THEN 6 ELSE pos')
                        /\ \A i \in 1..Len(rx') : rx'[i] = frame'[i]
    BY <1>3 DEF BufferInStep
  <2>2. dispatcher /\ enabled /\ Len(rx) = pos /\ \A i \in 1..Len(rx) : rx[i] = frame'[i]
    <3>1. CASE pos = 0
      <4>1. dispatcher /\ rx = <<>>
        BY <1>3, <2>1, <3>1
      <4>2. QED
        BY <1>2, <3>1, <4>1 DEF Listening
    <3>2. CASE pos # 0
      BY <1>2, <1>3, <2>1, <3>2 DEF BufferInStep, Listening
    <3>3. QED
      BY <3>1, <3>2
  <2>3. Len(rx') = pos + 3 /\ (pos' = 0 => pos = 3) /\ (pos' # 0 => pos = 0 /\ pos' = 3)
    BY <1>3, <1>4, <1>7, <2>2
  <2>4. ASSUME NEW i \in 1..(pos + 3) PROVE rx'[i] = frame'[i]
    <3>1. CASE i \in 1..pos
      BY <1>7, <2>2, <3>1
    <3>2. CASE i \notin 1..pos
      <4>1. i - pos \in 1..3 /\ pos + (i - pos) = i
        BY <1>4, <2>4, <3>2
      <4>2. QED
        BY <1>7, <2>2, <4>1
    <3>3. QED
      BY <3>1, <3>2
  <2>5. QED
    BY <2>2, <2>3, <2>4
<1>10. Listening' /\ ChangesFlagged'
  BY <1>2, <1>3 DEF Listening, ChangesFlagged, MailKnown, Known, Before
<1>11. QED
  BY <1>8, <1>9, <1>10 DEF IInv

LEMMA DeliverSInv == SInv /\ Deliver => SInv'
<1>1. SUFFICES ASSUME SInv, Deliver PROVE SInv'
  OBVIOUS
<1>2. IInv'
  BY <1>1, DeliverIInv
<1>3. /\ frame' = (IF pos = 0 THEN Frame(verdict.trip, verdict.values) ELSE frame)
      /\ basis' = (IF pos = 0 THEN [last |-> measured, behind |-> behind] ELSE basis)
      /\ inStep' = (IF pos = 0 THEN dispatcher /\ rx = <<>> ELSE inStep)
      /\ pos' = 3 - pos /\ fresh /\ fresh' = (pos = 0)
      /\ UNCHANGED <<parsed, up, shadow, peak, verdict, measured, behind, dropped, reboots>>
  BY <1>1 DEF Deliver, cloudVars
<1>4. HalvesOnly'
  BY <1>1, <1>3 DEF SInv, HalvesOnly
<1>5. SystemTypeOK'
  <2>1. /\ basis'.last \in {basis.last, measured}
        /\ basis'.behind \in {basis.behind, behind}
    BY <1>3
  <2>2. {peak', measured', basis'.last, verdict'.values} \subseteq Measurements \cup {Zero}
    BY <1>1, <1>3, <2>1 DEF SInv, SystemTypeOK
  <2>3. behind' \cup basis'.behind \subseteq {m["crnt"] : m \in Measurements \cup {Zero}}
    BY <1>1, <1>3, <2>1 DEF SInv, SystemTypeOK
  <2>4. fresh' \in BOOLEAN
    BY <1>3
  <2>5. QED
    BY <1>1, <1>2, <1>3, <2>2, <2>3, <2>4 DEF SInv, SystemTypeOK, IInv
<1>6. FrameTells'
  <2>1. CASE pos = 0
    <3>1. basis'.last = measured /\ basis'.behind = behind
      BY <1>3, <2>1
    <3>2. /\ verdict.trip = Verdict(measured)
          /\ StandFor(verdict.values, measured, behind)
      BY <1>1, <1>3 DEF SInv, MeterTells
    <3>3. verdict.values \in Measurements \cup {Zero}
      BY <1>1, CurrentsNat DEF SInv
    <3>4. frame' = Frame(Verdict(basis'.last), verdict.values)
      BY <1>3, <2>1, <3>1, <3>2
    <3>5. QED
      BY <3>1, <3>2, <3>3, <3>4 DEF FrameTells
  <2>2. CASE pos # 0
    BY <1>1, <1>3, <2>2 DEF SInv, FrameTells
  <2>3. QED
    BY <2>1, <2>2
<1>7. PeakCovers' /\ MeterTells' /\ Told'
  BY <1>1, <1>3 DEF SInv, PeakCovers, MeterTells, Told, Before
<1>8. QED
  BY <1>2, <1>4, <1>5, <1>6, <1>7 DEF SInv

\* The script starts again: nothing is buffered, nothing is in step, and whatever
\* the shadow shows counts as not reached.
LEMMA RebootSInv == SInv /\ Reboot => SInv'
<1>1. SUFFICES ASSUME SInv, Reboot PROVE SInv'
  OBVIOUS
<1>2. /\ reboots < MaxReboots /\ reboots' = reboots + 1
      /\ enabled' = FALSE /\ dispatcher' = FALSE /\ attended' = FALSE /\ rx' = <<>>
      /\ parsed' = NothingParsed /\ led' \in {0, 1} /\ connected' = FALSE
      /\ up' = <<>> /\ down' = <<>> /\ lost' = FALSE /\ heard' = "nothing"
      /\ dropped' = TRUE /\ inStep' = FALSE
      /\ UNCHANGED <<frame, pos, shadow, desired, mailed, peak, verdict, measured, fresh,
                     behind, basis>>
  BY <1>1 DEF Reboot, cloudVars, meterVars
<1>3. TypeOK'
  <2>1. rx' \in Seq(Byte) /\ Len(rx') <= MaxBuffered
    <3>1. rx' \in Seq(Byte) /\ Len(rx') = 0
      BY <1>2, EmptySeq
    <3>2. QED
      BY <3>1, BoundsAssumption
  <2>2. up' \in Seq(Messages) /\ down' \in Seq({0, 1})
    BY <1>2, EmptySeq
  <2>3. parsed' \in Data
    BY <1>2, NothingType
  <2>4. /\ enabled' \in BOOLEAN /\ dispatcher' \in BOOLEAN /\ attended' \in BOOLEAN
        /\ connected' \in BOOLEAN /\ lost' \in BOOLEAN /\ inStep' \in BOOLEAN
    BY <1>2
  <2>5. QED
    BY <1>1, <1>2, <2>1, <2>2, <2>3, <2>4 DEF SInv, IInv, TypeOK
<1>4. IInv'
  <2>1. Len(up') = 0 /\ 1..Len(up') = {} /\ Known(1)' = NothingParsed
    BY <1>2 DEF Known
  <2>2. Known(Len(up) + 1)' = NothingParsed
    BY <1>2, <2>1 DEF Known
  <2>3. MailKnown'
    BY <1>2, <2>1, NothingType DEF MailKnown
  <2>4. parsed'.stsMCB = StsMCB(parsed'.sts)
    BY <1>2, NothingType, StatusOK
  <2>5. ChangesFlagged'
    BY <1>2, <2>1, <2>2, <2>3, <2>4 DEF ChangesFlagged
  <2>6. QED
    BY <1>2, <1>3, <2>5 DEF IInv, Listening, BufferInStep
<1>5. SystemTypeOK'
  <2>1. reboots' \in 0..MaxReboots
    BY <1>1, <1>2, RebootsAssumption DEF SInv, SystemTypeOK
  <2>2. dropped' \in BOOLEAN
    BY <1>2
  <2>3. QED
    BY <1>1, <1>2, <1>3, <2>1, <2>2 DEF SInv, SystemTypeOK
<1>6. HalvesOnly' /\ PeakCovers' /\ MeterTells' /\ FrameTells' /\ Told'
  BY <1>1, <1>2 DEF SInv, HalvesOnly, PeakCovers, MeterTells, FrameTells, Told
<1>7. QED
  BY <1>4, <1>5, <1>6 DEF SInv
\* What was parsed last, published over a connection, is the last update.
LEMMA ReportTells ==
  ASSUME NEW data \in Data, NEW pin, TypeOK, Report(data, pin, up), shadow' = shadow,
         parsed' = data, connected
  PROVE  parsed' = Before(Len(up) + 1)'.data
<1>1. up \in Seq(Messages) /\ Len(up) \in Nat
  BY LenProperties DEF TypeOK
<1>2. Message(data, pin) \in Messages /\ Message(data, pin).data = data
  BY MessageType
<1>3. up' = Append(up, Message(data, pin))
  BY DEF Report
<1>4. Len(up') = Len(up) + 1 /\ up'[Len(up) + 1].data = data
  BY <1>1, <1>2, <1>3, AppendProperties
<1>5. Before(Len(up) + 1)' = up'[Len(up) + 1]
  BY <1>1, <1>4 DEF Before
<1>6. QED
  BY <1>4, <1>5

\* Without a connection nothing is published.
LEMMA ReportUntold == ASSUME NEW data, NEW pin, Report(data, pin, up), ~connected
                      PROVE  up' = up
BY DEF Report

\* The gateway's callbacks publish what they parse, or remember that they did not.
LEMMA GatewayTells == SInv /\ GatewayStep => Told'
<1>1. SUFFICES ASSUME SInv, GatewayStep PROVE Told'
  OBVIOUS
<1>2. TypeOK /\ parsed \in Data /\ rx \in Seq(Byte)
  BY <1>1 DEF SInv, IInv, TypeOK
<1>3. dropped' = (IF rx # <<>> /\ rx' = <<>> THEN ~connected ELSE dropped)
  BY <1>1 DEF GatewayStep
<1>4. CASE Dispatch /\ Len(rx) > 5
  <2>1. /\ parsed' = Parse(rx, parsed.sts) /\ Report(parsed', led, up)
        /\ shadow' = shadow /\ rx' = <<>>
    BY <1>4 DEF Dispatch, ReportComplete, cloudVars
  <2>2. parsed' \in Data
    BY <1>2, <1>4, <2>1, ParseType
  <2>3. rx # <<>>
    <3>1. rx = <<>> => Len(rx) = 0
      OBVIOUS
    <3>2. QED
      BY <1>4, <3>1
  <2>4. dropped' = ~connected
    BY <1>3, <2>1, <2>3
  <2>5. connected => parsed' = Before(Len(up) + 1)'.data
    BY <1>2, <2>1, <2>2, ReportTells
  <2>6. QED
    BY <2>4, <2>5 DEF Told
<1>5. CASE Delta
  <2>1. /\ Report(parsed, led', up) /\ shadow' = shadow /\ parsed' = parsed /\ rx' = rx
    BY <1>5 DEF Delta, cloudVars, uartVars
  <2>2. dropped' = dropped
    BY <1>3, <2>1
  <2>3. CASE connected
    <3>1. parsed' = Before(Len(up) + 1)'.data
      BY <1>2, <2>1, <2>3, ReportTells
    <3>2. QED
      BY <3>1 DEF Told
  <2>4. CASE ~connected
    <3>1. up' = up
      BY <2>1, <2>4, ReportUntold
    <3>2. QED
      BY <1>1, <2>1, <2>2, <3>1 DEF SInv, Told, Before
  <2>5. QED
    BY <2>3, <2>4
<1>6. CASE EnableRx \/ Bu \/ (Dispatch /\ ~(Len(rx) > 5))
  <2>1. UNCHANGED <<up, parsed, shadow, rx>>
    BY <1>6 DEF EnableRx, Bu, Dispatch, ReportComplete, cloudVars
  <2>2. dropped' = dropped
    BY <1>3, <2>1
  <2>3. QED
    BY <1>1, <2>1, <2>2 DEF SInv, Told, Before
<1>7. QED
  BY <1>1, <1>4, <1>5, <1>6 DEF GatewayStep, Gateway

\* The shadow takes an update for what it was, and a connection that breaks with
\* updates on their way drops them.
LEMMA CloudTells == SInv /\ CloudStep => Told'
<1>1. SUFFICES ASSUME SInv, CloudStep PROVE Told'
  OBVIOUS
<1>2. /\ Told /\ TypeOK
      /\ dropped' = (dropped \/ (connected /\ ~connected' /\ up # <<>>))
  BY <1>1 DEF SInv, IInv, CloudStep
<1>3. CASE Update
  <2>1. /\ up # <<>> /\ up \in Seq(Messages) /\ up' = Tail(up) /\ shadow' = Head(up)
        /\ parsed' = parsed /\ connected' = connected
    BY <1>2, <1>3 DEF Update, TypeOK
  <2>2. Len(up) \in Nat /\ Len(up) > 0
    BY <2>1, EmptySeq
  <2>3. /\ Len(up') = Len(up) - 1 /\ shadow' = up[1]
        /\ \A i \in 1..Len(up') : up'[i] = up[i + 1]
    BY <2>1, <2>2, HeadTailProperties
  <2>4. Before(Len(up) + 1) = up[Len(up)]
    BY <2>2 DEF Before
  <2>5. Before(Len(up) + 1)' = IF Len(up') + 1 = 1 THEN shadow' ELSE up'[(Len(up') + 1) - 1]
    BY DEF Before
  <2>6. Before(Len(up) + 1)' = up[Len(up)]
    <3>1. CASE Len(up) = 1
      BY <2>3, <2>5, <3>1
    <3>2. CASE Len(up) # 1
      <4>1. /\ Len(up') \in 1..Len(up') /\ (Len(up') + 1) - 1 = Len(up')
            /\ Len(up') + 1 = Len(up)
        BY <2>2, <2>3, <3>2
      <4>2. QED
        BY <2>3, <2>5, <3>2, <4>1
    <3>3. QED
      BY <3>1, <3>2
  <2>7. QED
    BY <1>2, <2>1, <2>4, <2>6 DEF Told
<1>4. CASE Connect \/ Disconnect
  <2>1. ~dropped' => ~dropped /\ up' = up
    BY <1>2, <1>4 DEF Connect, Disconnect
  <2>2. parsed' = parsed /\ shadow' = shadow
    BY <1>4 DEF Connect, Disconnect, cloudVars
  <2>3. QED
    BY <1>2, <2>1, <2>2 DEF Told, Before
<1>5. CASE \E level \in Switches : Desire(level)
  <2>1. UNCHANGED <<up, parsed, shadow, connected>>
    BY <1>5 DEF Desire
  <2>2. QED
    BY <1>2, <2>1 DEF Told, Before
<1>6. QED
  BY <1>1, <1>3, <1>4, <1>5 DEF CloudStep

\* What the gateway and the cloud do changes nothing of the line and the meter.
LEMMA BeyondLineSInv == SInv /\ (GatewayStep \/ CloudStep) => SInv'
<1>1. SUFFICES ASSUME SInv, GatewayStep \/ CloudStep PROVE SInv'
  OBVIOUS
<1>2. Next
  BY <1>1 DEF GatewayStep, CloudStep, Next
<1>3. IInv'
  BY <1>1, <1>2, NextIInv DEF SInv
<1>4. UNCHANGED <<frame, pos, inStep, peak, verdict, measured, fresh, behind, basis, reboots>>
  BY <1>1 DEF GatewayStep, CloudStep, Gateway, EnableRx, Bu, Dispatch, Delta, Connect,
     Disconnect, Update, Desire, lineVars, meterVars
<1>5. dropped' \in BOOLEAN
  <2>1. dropped \in BOOLEAN
    BY <1>1 DEF SInv, SystemTypeOK
  <2>2. QED
    BY <1>1, <2>1 DEF GatewayStep, CloudStep
<1>6. SystemTypeOK'
  BY <1>1, <1>3, <1>4, <1>5 DEF SInv, SystemTypeOK, IInv
<1>7. HalvesOnly' /\ PeakCovers' /\ MeterTells' /\ FrameTells'
  BY <1>1, <1>4 DEF SInv, HalvesOnly, PeakCovers, MeterTells, FrameTells
<1>8. Told'
  BY <1>1, GatewayTells, CloudTells
<1>9. QED
  BY <1>3, <1>6, <1>7, <1>8 DEF SInv

\* Every step of the composition keeps the invariant.
LEMMA SystemNextSInv == SInv /\ [SystemNext]_sysVars => SInv'
<1>1. SUFFICES ASSUME SInv, [SystemNext]_sysVars PROVE SInv'
  OBVIOUS
<1>2. CASE SystemNext
  BY <1>1, <1>2, MeasureSInv, ForgetSInv, DeliverSInv, RebootSInv, BeyondLineSInv
     DEF SystemNext
<1>3. CASE UNCHANGED sysVars
  <2>1. /\ UNCHANGED vars
        /\ UNCHANGED <<pos, verdict, peak, behind, fresh, measured, inStep, frame, basis,
                       dropped, parsed, up, shadow, reboots>>
    BY <1>3 DEF sysVars, vars, lineVars, cloudVars, meterVars
  <2>2. IInv'
    BY <1>1, <2>1, GatewayKept DEF SInv
  <2>3. SystemTypeOK'
    BY <1>1, <2>1, <2>2 DEF SInv, SystemTypeOK, IInv
  <2>4. HalvesOnly' /\ PeakCovers' /\ MeterTells' /\ FrameTells' /\ Told'
    BY <1>1, <2>1 DEF SInv, HalvesOnly, PeakCovers, MeterTells, FrameTells, Told, Before
  <2>5. QED
    BY <2>2, <2>3, <2>4 DEF SInv
<1>4. QED
  BY <1>1, <1>2, <1>3
\* The composition keeps its invariant, reboots and broken connections included.
THEOREM SystemInvariance == SystemSpec => []SInv
<1>1. SystemInit => SInv
  BY InitSInv
<1>2. SInv /\ [SystemNext]_sysVars => SInv'
  BY SystemNextSInv
<1>3. QED
  BY <1>1, <1>2, PTL DEF SystemSpec

\* A reboot in the middle of a report leaves nothing that does not parse.
THEOREM SystemTypeCorrect == SystemSpec => []SystemTypeOK
<1>1. SInv => SystemTypeOK
  BY DEF SInv
<1>2. QED
  BY <1>1, SystemInvariance, PTL

\* A report's status byte and current are those it was made of.
LEMMA FrameSays ==
  ASSUME NEW t \in {PowerOK, Tripped, NoPower}, NEW v \in Measurements \cup {Zero}
  PROVE  Frame(t, v)[1] = t /\ CurrentIn(Frame(t, v)) = v["crnt"]
<1>1. CurrentIn(Frame(t, v)) = v["crnt"]
  BY MeasuredType, CurrentArrives
<1>2. Frame(t, v)[1] = t
  BY DEF Frame
<1>3. QED
  BY <1>1, <1>2

\* End to end (DAQ.c:137-166, main.c:258-271, init.js:111-127): what the gateway,
\* in step with a report, parsed and the broker got, the shadow tells with the
\* verdict on the last measurement and, in a fault, a current no lower than any
\* measured since the peak was forgotten.
THEOREM ShadowTells == SystemSpec => []ShadowTellsMeasurement
<1>1. SInv => ShadowTellsMeasurement
  <2>1. SUFFICES ASSUME SInv, inStep, pos = 0, rx = <<>>, up = <<>>, ~dropped
                 PROVE  /\ shadow.data.sts = Verdict(basis.last)
                        /\ shadow.data.stsMCB = StsMCB(Verdict(basis.last))
                        /\ IF Verdict(basis.last) = PowerOK
                           THEN shadow.data.irms = basis.last["crnt"]
                           ELSE \A i \in basis.behind : i <= shadow.data.irms
    BY DEF ShadowTellsMeasurement
  <2>2. IInv /\ FrameTells /\ Told
    BY <2>1 DEF SInv
  <2>3. Len(rx) = 0 /\ Len(up) = 0
    BY <2>1
  <2>4. Says(parsed, frame)
    BY <2>1, <2>2, <2>3 DEF IInv, BufferInStep
  <2>5. shadow.data = parsed
    BY <2>1, <2>2, <2>3 DEF Told, Before
  <2>6. PICK v \in Measurements \cup {Zero} :
          /\ frame = Frame(Verdict(basis.last), v)
          /\ StandFor(v, basis.last, basis.behind)
    BY <2>1, <2>2 DEF FrameTells
  <2>7. frame[1] = Verdict(basis.last) /\ CurrentIn(frame) = v["crnt"]
    BY <2>6, VerdictType, FrameSays
  <2>8. parsed.sts = Verdict(basis.last) /\ parsed.irms = v["crnt"]
    BY <2>4, <2>7 DEF Says
  <2>9. parsed.stsMCB = StsMCB(Verdict(basis.last))
    BY <2>2, <2>8 DEF IInv, ChangesFlagged
  <2>10. QED
    BY <2>5, <2>6, <2>8, <2>9 DEF StandFor
<1>2. QED
  BY <1>1, SystemInvariance, PTL

\* Whenever the gateway restarts, the last email tells the fault that the shadow
\* shows once the gateway has reported.
THEOREM SystemMailStands == SystemSpec => []LastEmailStands
<1>1. SInv => LastEmailStands
  BY MailStands DEF SInv
<1>2. QED
  BY <1>1, SystemInvariance, PTL

\* Also in the composition, after a restart too, an email tells another state
\* than the one the gateway knew or repeats the last report.
THEOREM SystemEmailsDueOnly == SystemSpec => EmailsOnceOrRepeated
<1>1. SystemInit => EmailsDue
  BY InitDue DEF SystemInit
<1>2. SInv /\ EmailsDue /\ [SystemNext]_sysVars => EmailsDue'
  <2>1. SUFFICES ASSUME SInv, EmailsDue, [SystemNext]_sysVars PROVE EmailsDue'
    OBVIOUS
  <2>2. CASE GatewayStep \/ CloudStep
    <3>1. Next
      BY <2>2 DEF GatewayStep, CloudStep, Next
    <3>2. QED
      BY <2>1, <3>1, NextKeepsDue DEF SInv
  <2>3. CASE Reboot
    <3>1. up' = <<>> /\ heard' = "nothing" /\ parsed' = NothingParsed
      BY <2>3 DEF Reboot
    <3>2. Len(up') = 0 /\ 1..Len(up') = {}
      BY <3>1
    <3>3. Known(Len(up) + 1)' = NothingParsed
      BY <3>1, <3>2 DEF Known
    <3>4. QED
      BY <3>1, <3>2, <3>3 DEF EmailsDue
  <2>4. CASE \/ \E m \in Measurements : Measure(m)
             \/ ForgetPeak \/ Deliver \/ UNCHANGED sysVars
    <3>1. UNCHANGED <<up, lost, parsed, shadow, heard>>
      BY <2>4 DEF Measure, ForgetPeak, Deliver, sysVars, vars, cloudVars
    <3>2. QED
      BY <2>1, <3>1 DEF EmailsDue, Known, Before
  <2>5. QED
    BY <2>1, <2>2, <2>3, <2>4 DEF SystemNext
<1>3. SInv /\ EmailsDue
        => [Update /\ ~lost /\ Head(up).data.sendEmail = 1
              => Head(up).data.sts # Known(1).sts \/ Head(up).data = Known(1)]_vars
  BY DueTold DEF SInv
<1>4. QED
  BY <1>1, <1>2, <1>3, SystemInvariance, PTL DEF SystemSpec, EmailsOnceOrRepeated
=============================================================================
