------------------------------- MODULE Console -------------------------------
(***************************************************************************)
(* The buffered build of the serial console (uartstdio.c with              *)
(* UART_BUFFERED): the functions a program calls, step by step where the   *)
(* interrupt handler can come between, and UARTStdioIntHandler, which runs *)
(* to its end.  The UART's two FIFOs and its transmit interrupt, raised    *)
(* when the FIFO drains to its trigger level, are external.                *)
(***************************************************************************)
EXTENDS Ring, SequencesExt

CONSTANTS Plain,              \* the characters that are not special
          TxSize, RxSize,     \* UART_TX_BUFFER_SIZE, UART_RX_BUFFER_SIZE
          RxStart,            \* where earlier keys have left the receive ring
          FifoSize,           \* what each FIFO of the UART holds
          TxLevel,            \* the transmit trigger, UART_FIFO_TX1_8
          Texts,              \* what the program writes
          Keys,               \* what the user types
          LineSize,           \* the buffer it passes to UARTgets
          MaxTyped,           \* bound: characters the user types
          MaxCalls            \* bound: calls the program makes, but for UARTEchoSet

CR == "CR"  LF == "LF"  BS == "BS"  ESC == "ESC"
Ends == {CR, LF, ESC}
Char == Plain \cup Ends \cup {BS, " "}

ASSUME SizesAssumption ==
  /\ TxSize \in Nat \ {0, 1} /\ RxSize \in Nat \ {0, 1} /\ RxStart \in 0..(RxSize - 1)
  /\ FifoSize \in Nat /\ TxLevel \in 0..(FifoSize - 1)
  /\ LineSize \in Nat \ {0}
ASSUME InputsAssumption == Texts \subseteq Seq(Char) /\ Keys \subseteq Char
ASSUME BoundsAssumption == MaxTyped \in Nat /\ MaxCalls \in Nat

VARIABLES
  tx, rx,          \* the two rings
  txFifo, rxFifo,  \* the FIFOs of the UART
  txRaised,        \* its transmit interrupt is pending
  txEnabled,       \* UARTIntEnable(UART_INT_TX)
  enabled,         \* IntEnable of the UART's interrupt
  echo,            \* ~g_bDisableEcho
  lastWasCR,       \* bLastWasCR of the handler
  pc,              \* where the program is
  todo,            \* UARTwrite: what is left to queue, a CR before every LF
  index,           \* UARTwrite: the write index it loaded
  line,            \* UARTgets: the characters stored
  fits,            \* history: UARTTxBytesFree left room when UARTwrite was called
  clash,           \* history: the handler changed a ring under the program
  calls, typed     \* bounded counters

ringVars    == <<tx, rx>>
uartVars    == <<txFifo, rxFifo, txRaised, txEnabled, enabled>>
handlerVars == <<echo, lastWasCR>>
callVars    == <<todo, index, line, fits>>
vars == <<ringVars, uartVars, handlerVars, pc, callVars, clash, calls, typed>>

-----------------------------------------------------------------------------
\* After UARTStdioConfig, the receive ring wherever earlier keys have left it
Init ==
  /\ tx \in {q \in Rings(TxSize, {" "}) : q = Emptied(q)}
  /\ rx \in {q \in Rings(RxSize, {" "}) : IsEmpty(q) /\ q.w = RxStart}
  /\ txFifo = <<>> /\ rxFifo = <<>>
  /\ txRaised = FALSE /\ txEnabled = FALSE /\ enabled = TRUE
  /\ echo = TRUE /\ lastWasCR = FALSE
  /\ pc = "idle" /\ todo = <<>> /\ index = 0 /\ line = <<>>
  /\ fits = FALSE /\ clash = FALSE /\ calls = 0 /\ typed = 0

\* A CR goes before every LF
Expanded(text) ==
  FlattenSeq([i \in 1..Len(text) |->
                IF text[i] = LF THEN <<CR, LF>> ELSE <<text[i]>>])

-----------------------------------------------------------------------------
(* The handler, as a function of what it changes: u has the fields tx, rx, *)
(* fifo (transmit), cr (bLastWasCR) and on (the transmit interrupt).       *)

\* UARTPrimeTransmit run to its end
Primed(u) ==
  LET n == Count(u.tx, TxSize)
      k == IF n < FifoSize - Len(u.fifo) THEN n ELSE FifoSize - Len(u.fifo)
  IN  [u EXCEPT !.fifo = @ \o SubSeq(Contents(u.tx, TxSize), 1, k),
                !.tx.r = (@ + k) % TxSize]

\* UARTwrite run to its end: what does not fit is left out
Queued(q, c) == IF IsFull(q, TxSize) THEN q ELSE Put(q, c, TxSize)

Wrote(u, text) ==
  LET v == [u EXCEPT !.tx = FoldLeft(Queued, @, Expanded(text))]
  IN  IF IsEmpty(v.tx) THEN v ELSE [Primed(v) EXCEPT !.on = TRUE]

\* One character received, with the echo off
Stored(u, c) ==
  IF IsFull(u.rx, RxSize) THEN u ELSE [u EXCEPT !.rx = Put(@, c, RxSize)]

\* and on: shown is what goes to the terminal, the character itself is kept
StoredAndShown(u, c, shown) ==
  IF IsFull(u.rx, RxSize) THEN u ELSE Wrote(Stored(u, c), <<shown>>)

Erases(u, c) == c = BS /\ ~IsEmpty(u.rx)

ReceivedWithEcho(u, c) ==
  IF c = BS
  THEN IF IsEmpty(u.rx) THEN u
       ELSE [Wrote(u, <<BS, " ", BS>>) EXCEPT !.rx = DropNewest(@, RxSize)]
  ELSE IF c = LF /\ u.cr THEN [u EXCEPT !.cr = FALSE]
  ELSE IF c \in Ends
  THEN StoredAndShown(Wrote([u EXCEPT !.cr = @ \/ c = CR], <<LF>>), c, CR)
  ELSE StoredAndShown(u, c, c)

Received(u, c) == IF echo THEN ReceivedWithEcho(u, c) ELSE Stored(u, c)

\* The interrupt with the status bits t (transmit) and r (receive)
ServedTransmit(u, t) ==
  IF ~t THEN u
  ELSE LET v == Primed(u) IN [v EXCEPT !.on = @ /\ ~IsEmpty(v.tx)]

ServedReceive(u, r) ==
  IF ~r THEN u
  ELSE [Primed(FoldLeft(Received, u, rxFifo)) EXCEPT !.on = TRUE]

\* What of the program the handler may change under it: the write index
\* between the test for room and the store of the index advanced, and the
\* newest character between the test for one and its read
Clashes(r) ==
  /\ r /\ echo /\ rxFifo # <<>>
  /\ \/ pc \in {"put", "load", "step"}
     \/ pc \in {"read", "readc"} /\ \E i \in 1..Len(rxFifo) : rxFifo[i] = BS

UARTStdioIntHandler(t, r) ==
  /\ enabled
  /\ t \/ r
  /\ t = (txRaised /\ txEnabled)
  /\ r => rxFifo # <<>>
  /\ LET u == ServedReceive(
                ServedTransmit([tx |-> tx, rx |-> rx, fifo |-> txFifo,
                                cr |-> lastWasCR, on |-> txEnabled], t), r)
     IN  /\ tx' = u.tx /\ rx' = u.rx /\ txFifo' = u.fifo
         /\ lastWasCR' = u.cr /\ txEnabled' = u.on
  /\ txRaised' = (txRaised /\ ~t)
  /\ rxFifo' = IF r THEN <<>> ELSE rxFifo
  /\ clash' = (clash \/ Clashes(r))
  /\ UNCHANGED <<enabled, echo, pc, callVars, calls, typed>>

-----------------------------------------------------------------------------
(* The calls of the program.                                               *)
Call(next) == pc = "idle" /\ calls < MaxCalls /\ calls' = calls + 1 /\ pc' = next

UARTTxBytesFree == TxSize - Count(tx, TxSize)
UARTRxBytesAvail == Count(rx, RxSize)

CallWrite(text) ==
  /\ Call("test")
  /\ todo' = Expanded(text) /\ fits' = (Len(todo') < UARTTxBytesFree)
  /\ UNCHANGED <<ringVars, uartVars, handlerVars, index, line, clash, typed>>

\* UARTwrite: the loop over the text, with the accesses of the macros
TestRoom ==
  /\ pc = "test"
  /\ pc' = IF todo = <<>> \/ IsFull(tx, TxSize) THEN "written" ELSE "put"
  /\ UNCHANGED <<ringVars, uartVars, handlerVars, callVars, clash, calls, typed>>

StoreChar ==
  /\ pc = "put" /\ pc' = "load"
  /\ tx' = [tx EXCEPT !.slot[tx.w] = Head(todo)]
  /\ UNCHANGED <<rx, uartVars, handlerVars, callVars, clash, calls, typed>>

LoadIndex ==
  /\ pc = "load" /\ pc' = "step"
  /\ index' = tx.w
  /\ UNCHANGED <<ringVars, uartVars, handlerVars, todo, line, fits, clash,
                 calls, typed>>

StoreIndex ==
  /\ pc = "step" /\ pc' = "test"
  /\ tx' = [tx EXCEPT !.w = Advance(index, TxSize)]
  /\ todo' = Tail(todo) /\ index' = 0
  /\ UNCHANGED <<rx, uartVars, handlerVars, line, fits, clash, calls, typed>>

\* and its end: the test for something to send (made twice in a row), then the
\* two enables
TestSend ==
  /\ pc = "written"
  /\ pc' = IF IsEmpty(tx) THEN "idle" ELSE "mask"
  /\ todo' = <<>> /\ fits' = FALSE
  /\ UNCHANGED <<ringVars, uartVars, handlerVars, index, line, clash, calls, typed>>

\* UARTPrimeTransmit keeps the handler out while it moves the read index
PrimeMask ==
  /\ pc = "mask" /\ pc' = "fill" /\ enabled' = FALSE
  /\ UNCHANGED <<ringVars, txFifo, rxFifo, txRaised, txEnabled, handlerVars,
                 callVars, clash, calls, typed>>

\* Bug...: plausible mistakes in the definition after them, used by no other.
\* the interrupt left disabled when the FIFO is full
BugPrimeFill ==
  /\ pc = "fill"
  /\ IF Len(txFifo) < FifoSize /\ ~IsEmpty(tx)
     THEN /\ txFifo' = Append(txFifo, Oldest(tx)) /\ tx' = DropOldest(tx, TxSize)
          /\ UNCHANGED pc
     ELSE pc' = "arm" /\ UNCHANGED <<tx, txFifo>>
  /\ UNCHANGED <<rx, rxFifo, txRaised, txEnabled, enabled, handlerVars, callVars,
                 clash, calls, typed>>

PrimeFill ==
  /\ pc = "fill"
  /\ IF Len(txFifo) < FifoSize /\ ~IsEmpty(tx)
     THEN /\ txFifo' = Append(txFifo, Oldest(tx)) /\ tx' = DropOldest(tx, TxSize)
          /\ UNCHANGED <<pc, enabled>>
     ELSE /\ pc' = "arm" /\ enabled' = TRUE
          /\ UNCHANGED <<tx, txFifo>>
  /\ UNCHANGED <<rx, rxFifo, txRaised, txEnabled, handlerVars, callVars, clash,
                 calls, typed>>

\* the transmit interrupt not enabled after a write
BugArm ==
  /\ pc = "arm" /\ pc' = "idle"
  /\ UNCHANGED <<ringVars, uartVars, handlerVars, callVars, clash, calls, typed>>

Arm ==
  /\ pc = "arm" /\ pc' = "idle" /\ txEnabled' = TRUE
  /\ UNCHANGED <<ringVars, txFifo, rxFifo, txRaised, enabled, handlerVars,
                 callVars, clash, calls, typed>>

\* UARTgets and UARTgetc wait for a character,
CallRead(what) ==
  /\ Call(what)
  /\ UNCHANGED <<ringVars, uartVars, handlerVars, callVars, clash, typed>>

TestAvail ==
  /\ pc \in {"gets", "getc"} /\ ~IsEmpty(rx)
  /\ pc' = IF pc = "gets" THEN "read" ELSE "readc"
  /\ UNCHANGED <<ringVars, uartVars, handlerVars, callVars, clash, calls, typed>>

\* the CR trusted to be the marker of every end of a line
BugReadForLine ==
  /\ pc = "read"
  /\ rx' = DropOldest(rx, RxSize)
  /\ IF Oldest(rx) = CR
     THEN pc' = "idle" /\ line' = <<>>
     ELSE /\ pc' = "gets"
          /\ line' = IF Len(line) < LineSize - 1 THEN Append(line, Oldest(rx)) ELSE line
  /\ UNCHANGED <<tx, uartVars, handlerVars, todo, index, fits, clash, calls, typed>>

\* and take it
ReadForLine ==
  /\ pc = "read"
  /\ rx' = DropOldest(rx, RxSize)
  /\ IF Oldest(rx) \in Ends
     THEN pc' = "idle" /\ line' = <<>>
     ELSE /\ pc' = "gets"
          /\ line' = IF Len(line) < LineSize - 1 THEN Append(line, Oldest(rx)) ELSE line
  /\ UNCHANGED <<tx, uartVars, handlerVars, todo, index, fits, clash, calls, typed>>

UARTgetc ==
  /\ pc = "readc" /\ pc' = "idle"
  /\ rx' = DropOldest(rx, RxSize)
  /\ UNCHANGED <<tx, uartVars, handlerVars, callVars, clash, calls, typed>>

\* Both flushes run with every interrupt disabled
UARTFlushRx ==
  /\ Call("idle") /\ rx' = Emptied(rx)
  /\ UNCHANGED <<tx, uartVars, handlerVars, callVars, clash, typed>>

UARTFlushTx ==
  /\ Call("idle") /\ tx' = Emptied(tx)
  /\ UNCHANGED <<rx, uartVars, handlerVars, callVars, clash, typed>>

\* UARTFlushTx(false) waits for the buffer to drain
CallDrain ==
  /\ Call("drain")
  /\ UNCHANGED <<ringVars, uartVars, handlerVars, callVars, clash, typed>>

Drained ==
  /\ pc = "drain" /\ IsEmpty(tx) /\ pc' = "idle"
  /\ UNCHANGED <<ringVars, uartVars, handlerVars, callVars, clash, calls, typed>>

UARTEchoSet(on) ==
  /\ pc = "idle" /\ echo' = on
  /\ UNCHANGED <<ringVars, uartVars, lastWasCR, pc, callVars, clash, calls, typed>>

Program ==
  \/ \E text \in Texts : CallWrite(text)
  \/ TestRoom \/ StoreChar \/ LoadIndex \/ StoreIndex
  \/ TestSend \/ PrimeMask \/ PrimeFill \/ Arm
  \/ \E what \in {"gets", "getc"} : CallRead(what)
  \/ TestAvail \/ ReadForLine \/ UARTgetc
  \/ UARTFlushRx \/ UARTFlushTx \/ CallDrain \/ Drained
  \/ \E on \in BOOLEAN : UARTEchoSet(on)

-----------------------------------------------------------------------------
(* The UART and the user.                                                  *)
Transmit ==
  /\ txFifo # <<>>
  /\ txFifo' = Tail(txFifo)
  /\ txRaised' = (txRaised \/ Len(txFifo) = TxLevel + 1)
  /\ UNCHANGED <<ringVars, rxFifo, txEnabled, enabled, handlerVars, pc, callVars,
                 clash, calls, typed>>

Type(c) ==
  /\ typed < MaxTyped /\ Len(rxFifo) < FifoSize
  /\ rxFifo' = Append(rxFifo, c) /\ typed' = typed + 1
  /\ UNCHANGED <<ringVars, txFifo, txRaised, txEnabled, enabled, handlerVars, pc,
                 callVars, clash, calls>>

Interrupt == \E t, r \in BOOLEAN : UARTStdioIntHandler(t, r)

Next == Program \/ Interrupt \/ Transmit \/ \E c \in Keys : Type(c)

Spec == Init /\ [][Next]_vars

\* When Interrupt can be taken
Pending == enabled /\ ((txRaised /\ txEnabled) \/ rxFifo # <<>>)

\* The program runs, the UART transmits and its interrupt is taken: the last is
\* WF_vars(Interrupt) with its enabling condition written out
FairSpec ==
  /\ Spec /\ WF_vars(Program) /\ WF_vars(Transmit)
  /\ []<>~Pending \/ []<><<Interrupt>>_vars

-----------------------------------------------------------------------------
\* Every variable stays in its range: the indices of the rings below their sizes, the
\* FIFOs and the line within theirs, whatever writes in whose step
TypeOK ==
  /\ tx \in Rings(TxSize, Char) /\ rx \in Rings(RxSize, Char)
  /\ txFifo \in BoundedSeq(Char, FifoSize)
  /\ rxFifo \in BoundedSeq(Char, FifoSize)
  /\ txRaised \in BOOLEAN /\ txEnabled \in BOOLEAN /\ enabled \in BOOLEAN
  /\ echo \in BOOLEAN /\ lastWasCR \in BOOLEAN /\ clash \in BOOLEAN
  /\ pc \in {"idle", "test", "put", "load", "step", "written", "mask", "fill", "arm",
            "gets", "getc", "read", "readc", "drain"}
  /\ todo \in Seq(Char) /\ index \in 0..(TxSize - 1)
  /\ line \in BoundedSeq(Char, LineSize - 1)
  /\ fits \in BOOLEAN /\ calls \in 0..MaxCalls /\ typed \in 0..MaxTyped

\* Until the echo first meets the program inside a ring, the two rings are the
\* queues of Pipe, whatever the handler does between any two accesses
TheQueues == INSTANCE Pipe WITH
  outgoing <- txFifo \o Contents(tx, TxSize), leaving <- txFifo,
  incoming <- Contents(rx, RxSize), typed <- rxFifo,
  ok <- ~clash, MaxOut <- FifoSize + TxSize - 1, MaxIn <- RxSize - 1
ImplementsPipe == TheQueues!Spec

\* What waits in the ring will be fetched: outside UARTwrite a ring that is not
\* empty has its interrupt enabled, and that pending or a FIFO still above the
\* level that raises it
NeverStalls ==
  (~IsEmpty(tx) /\ pc \notin {"test", "put", "load", "step", "written", "mask",
                              "fill", "arm"})
    => /\ enabled /\ txEnabled
       /\ txRaised \/ Len(txFifo) > TxLevel

\* A program that asked for the free space first and keeps one below the answer
\* (one slot cannot be filled) has its whole text queued: the space can only
\* grow under it while nothing is echoed
RoomHonoured == (pc = "written" /\ fits /\ ~echo) => todo = <<>>

\* What is written leaves the ring in the end
Drains == ~IsEmpty(tx) ~> IsEmpty(tx)

\* The end of a line waits in the ring: UARTPeek finds it
LineWaits == \E c \in Ends : Peek(rx, c, RxSize) >= 0

\* A line whose end UARTPeek finds is returned by UARTgets without another key
\* (uartstdio.c:554-558), whichever key ended it, with the echo or without, and
\* whatever is received meanwhile: only a backspace can take the end back, which the
\* handler erases like any other character while it echoes.
LineReturned ==
  (pc = "gets" /\ LineWaits)
    ~> (pc = "idle" \/ (echo /\ \E i \in 1..Len(rxFifo) : rxFifo[i] = BS))

-----------------------------------------------------------------------------
(***************************************************************************)
(* The inductive invariant of the proofs in ConsoleProofs.                 *)
(***************************************************************************)
Storing  == {"put", "load", "step"}
Queueing == Storing \cup {"test", "written"}
Priming  == {"mask", "fill"}

\* Only UARTPrimeTransmit, and only while it fills the FIFO, keeps the handler out
MaskedInFill == enabled = (pc # "fill")

TextLeft == pc \in Storing => todo # <<>>

\* The transmit interrupt will come: it is pending, or the FIFO has still to drain
Fetched ==
  /\ pc \notin Queueing \cup Priming
       => IsEmpty(tx) \/ txRaised \/ Len(txFifo) > TxLevel
  /\ pc \notin Queueing \cup Priming \cup {"arm"} => IsEmpty(tx) \/ txEnabled

\* What the program found in a ring is still so at its next step, unless the
\* handler echoed into it
FoundHolds ==
  ~echo \/ ~clash =>
    /\ pc \in Storing => ~IsFull(tx, TxSize)
    /\ pc \in {"load", "step"} => tx.slot[tx.w] = Head(todo)
    /\ pc = "step" => index = tx.w
    /\ pc \in {"read", "readc"} => ~IsEmpty(rx)

\* The room the program asked for is kept for what is left of its text
RoomKept ==
  ~echo /\ fits =>
    /\ pc \in Queueing => Len(todo) + Count(tx, TxSize) < TxSize
    /\ pc = "written" => todo = <<>>

IInv == TypeOK /\ MaskedInFill /\ TextLeft /\ Fetched /\ FoundHolds /\ RoomKept
=============================================================================
