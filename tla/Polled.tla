------------------------------- MODULE Polled -------------------------------
(***************************************************************************)
(* The serial console as the firmware builds it (uartstdio.c without       *)
(* UART_BUFFERED): UARTprintf, whose loop over the format string is        *)
(* followed command by command, and UARTgets and UARTgetc, which wait for  *)
(* each character.  A word has WordBits bits, 32 in the code.              *)
(***************************************************************************)
EXTENDS Integers, Sequences, SequencesExt

CONSTANTS WordBits,    \* of an unsigned int
          BufSize,     \* pcBuf of UARTvprintf
          Chars,       \* the characters of texts and of the terminal
          Items,       \* what a call prints: literal texts and commands
          Jobs,        \* calls of UARTprintf: sequences of items (see Format)
          LineSize,    \* the buffer passed to UARTgets
          Newlines,    \* what the Enter keys of the terminals send
          Letters,     \* the other keys
          MaxKeys      \* bound: keys pressed

CR == "CR"  LF == "LF"  BS == "BS"  ESC == "ESC"
Ends == {CR, LF, ESC}
Digit == <<"0", "1", "2", "3", "4", "5", "6", "7", "8", "9">>
Hex == Digit \o <<"a", "b", "c", "d", "e", "f">>

\* b to the power of n
Power(b, n) ==
  LET power[i \in 0..n] == IF i = 0 THEN 1 ELSE b * power[i - 1] IN power[n]
Word == Power(2, WordBits)

\* The commands that take an argument: a character, a string or a number
Numeric == {"d", "i", "u", "x", "X", "p"}
Takes(item) == item.kind \in {"c", "s"} \cup Numeric

\* A width below the size of the buffer, and the argument the command asks for
WellFormed(item) ==
  /\ item.width \in 0..(BufSize - 1) /\ item.width < 100 /\ item.zero \in BOOLEAN
  /\ \/ item.kind = "text" /\ item.value \in Seq(Chars \ {"%"})
     \/ /\ item.kind \in Chars \ Range(Digit)
        /\ item.kind = "s" => item.value \in Seq(Chars)
        /\ item.kind = "c" => item.value \in Chars
        /\ item.kind \in Numeric => item.value \in 0..(Word - 1)

ASSUME SizesAssumption ==
  /\ WordBits \in Nat \ {0} /\ BufSize \in Nat /\ LineSize \in Nat \ {0}
  /\ BufSize + WordBits < Word
ASSUME JobsAssumption == Jobs \subseteq Seq(Items) /\ \A item \in Items : WellFormed(item)
ASSUME CharsAssumption ==
  /\ Range(Hex) \cup {CR, LF, BS, "-", " ", "%", "E", "R", "O"} \subseteq Chars
  /\ "text" \notin Chars
ASSUME KeysAssumption ==
  /\ Newlines \subseteq {<<CR>>, <<LF>>, <<CR, LF>>}
  /\ Letters \cap (Ends \cup {BS}) = {} /\ MaxKeys \in Nat

VARIABLES
  job,        \* the call of UARTprintf, as the items it was written from
  format,     \* what is left of its format string
  args,       \* what is left of its arguments
  command,    \* a % has been read
  width,      \* ui32Count
  fill,       \* cFill
  out,        \* what the UART has sent during the call
  input,      \* characters typed and not yet read (see Press)
  reading,    \* inside UARTgets
  line,       \* the characters it has stored
  lastWasCR,  \* its bLastWasCR
  keys,       \* bounded counter
  lone,       \* history: the last Enter pressed sent a CR alone
  enters,     \* history: Enters that UARTgets has read, but for one that sends a
              \* LF alone after one that sent a CR alone
  lines,      \* history: lines it has returned
  split       \* history: UARTgetc has taken a part of an Enter

printVars == <<job, format, args, command, width, fill>>
readVars  == <<input, reading, line, lastWasCR, keys, lone, enters, lines, split>>
vars == <<printVars, readVars, out>>

-----------------------------------------------------------------------------
\* UARTwrite: a CR goes before every LF
Written(text) ==
  FlattenSeq([i \in 1..Len(text) |->
                IF text[i] = LF THEN <<CR, LF>> ELSE <<text[i]>>])

\* An item: a literal text, or a command with its width, zero fill and argument
Zeros(item) == IF item.zero THEN <<"0">> ELSE <<>>
Tens(item) == IF item.width >= 10 THEN <<Digit[(item.width \div 10) + 1]>> ELSE <<>>
Ones(item) == IF item.width > 0 THEN <<Digit[(item.width % 10) + 1]>> ELSE <<>>
Directive(item) == <<"%">> \o Zeros(item) \o Tens(item) \o Ones(item) \o <<item.kind>>
Format(items) ==
  FlattenSeq([i \in 1..Len(items) |-> IF items[i].kind = "text" THEN items[i].value
                                      ELSE Directive(items[i])])
Arguments(items) ==
  FlattenSeq([i \in 1..Len(items) |-> IF Takes(items[i]) THEN <<items[i].value>> ELSE <<>>])

Init ==
  /\ job \in Jobs /\ format = Format(job) /\ args = Arguments(job)
  /\ command = FALSE /\ width = 0 /\ fill = " " /\ out = <<>>
  /\ input = <<>> /\ reading = FALSE /\ line = <<>> /\ lastWasCR = FALSE
  /\ keys = 0 /\ lone = FALSE /\ enters = 0 /\ lines = 0 /\ split = FALSE

-----------------------------------------------------------------------------
(* UARTvprintf: a command ends, or its loop goes on, with one of these.    *)
Emit(text) ==
  /\ out' = out \o Written(text)
  /\ command' = FALSE /\ format' = Tail(format)
  /\ UNCHANGED <<job, width, fill, readVars>>

\* The text up to the next %
Stops(text) == {i \in 1..Len(text) : text[i] = "%"}
Literal(text) ==
  IF Stops(text) = {} THEN Len(text)
  ELSE (CHOOSE i \in Stops(text) : \A j \in Stops(text) : i <= j) - 1

PrintText ==
  /\ ~command /\ format # <<>>
  /\ out' = out \o Written(SubSeq(format, 1, Literal(format)))
  /\ command' = (Stops(format) # {})
  /\ format' = SubSeq(format, Literal(format) + (IF command' THEN 2 ELSE 1), Len(format))
  /\ width' = 0 /\ fill' = " "
  /\ UNCHANGED <<job, args, readVars>>

Reads(letters) == command /\ format # <<>> /\ Head(format) \in letters

\* Bug...: plausible mistakes in the definition after them, used by no other.
\* any zero taken for the fill character
BugReadWidth ==
  \E d \in 0..9 :
    /\ Reads({Digit[d + 1]})
    /\ fill' = IF d = 0 THEN "0" ELSE fill
    /\ width' = (10 * width + d) % Word
    /\ format' = Tail(format)
    /\ UNCHANGED <<job, args, command, out, readVars>>

ReadWidth ==
  \E d \in 0..9 :
    /\ Reads({Digit[d + 1]})
    /\ fill' = IF d = 0 /\ width = 0 THEN "0" ELSE fill
    /\ width' = (10 * width + d) % Word
    /\ format' = Tail(format)
    /\ UNCHANGED <<job, args, command, out, readVars>>

\* The loop before the conversion goes on from the power b of the base: the
\* product is cut to a word, and the quotient tells whether it was
Continues(b, value, base) ==
  LET product == (b * base) % Word IN product <= value /\ product \div base = b

\* How many powers of the base it passes
Passed(value, base) ==
  CHOOSE n \in 0..WordBits :
    /\ ~Continues(Power(base, n), value, base)
    /\ \A m \in 0..(n - 1) : Continues(Power(base, m), value, base)

\* The n + 1 last digits of a value
Digits(value, base, n) ==
  [i \in 1..(n + 1) |-> Hex[((value \div Power(base, n + 1 - i)) % base) + 1]]

Filled(n, c) == [i \in 1..n |-> c]

\* The conversion: each power that is passed takes one from the width, and so
\* does the minus sign
Converted(value, base, negative) ==
  LET k == Passed(value, base)
      count == (width - k - (IF negative THEN 1 ELSE 0)) % Word
      padding == Filled(IF 1 < count /\ count < BufSize THEN count - 1 ELSE 0, fill)
      sign == IF negative THEN <<"-">> ELSE <<>>
  IN  (IF fill = "0" THEN sign \o padding ELSE padding \o sign) \o Digits(value, base, k)

PrintChar     == Reads({"c"}) /\ Emit(<<Head(args)>>) /\ args' = Tail(args)
PrintSigned   == /\ Reads({"d", "i"}) /\ args' = Tail(args)
                 /\ LET value == Head(args)
                        negative == value >= Word \div 2
                    IN  Emit(Converted(IF negative THEN (Word - value) % Word
                                        ELSE value, 10, negative))
PrintUnsigned == Reads({"u"}) /\ Emit(Converted(Head(args), 10, FALSE)) /\ args' = Tail(args)
PrintHex      == /\ Reads({"x", "X", "p"})
                 /\ Emit(Converted(Head(args), 16, FALSE)) /\ args' = Tail(args)
PrintString   == /\ Reads({"s"}) /\ args' = Tail(args)
                 /\ LET n == Len(Head(args))
                    IN  Emit(Head(args) \o Filled(width - n, " "))
PrintPercent  == Reads({"%"}) /\ Emit(<<"%">>) /\ UNCHANGED args
PrintError    == /\ command /\ format # <<>> /\ UNCHANGED args
                 /\ Head(format) \notin Range(Digit)
                       \cup {"c", "d", "i", "u", "x", "X", "p", "s", "%"}
                 /\ Emit(<<"E", "R", "R", "O", "R">>)

UARTvprintf == \/ PrintText \/ ReadWidth \/ PrintChar \/ PrintSigned \/ PrintUnsigned
               \/ PrintHex \/ PrintString \/ PrintPercent \/ PrintError

-----------------------------------------------------------------------------
(* Reading, once the call of UARTprintf has returned.                      *)
Idle == format = <<>> /\ ~command /\ ~reading

CallGets ==
  /\ Idle /\ reading' = TRUE /\ line' = <<>> /\ out' = <<>>
  /\ UNCHANGED <<printVars, input, lastWasCR, keys, lone, enters, lines, split>>

\* UARTCharGet
NextChar(c) ==
  /\ reading /\ input # <<>> /\ c = Head(input).char /\ input' = Tail(input)
  /\ enters' = enters + (IF Head(input).enter THEN 1 ELSE 0)

\* the erased character left on the terminal when the line is full
BugBackspace ==
  /\ NextChar(BS)
  /\ IF Len(line) \in 1..(LineSize - 2)
     THEN line' = Front(line) /\ out' = out \o Written(<<BS, " ", BS>>)
     ELSE line' = (IF line = <<>> THEN line ELSE Front(line)) /\ UNCHANGED out
  /\ UNCHANGED <<printVars, reading, lastWasCR, keys, lone, lines, split>>

Backspace ==
  /\ NextChar(BS)
  /\ IF line # <<>>
     THEN line' = Front(line) /\ out' = out \o Written(<<BS, " ", BS>>)
     ELSE UNCHANGED <<line, out>>
  /\ UNCHANGED <<printVars, reading, lastWasCR, keys, lone, lines, split>>

SkipLF ==
  /\ NextChar(LF) /\ lastWasCR /\ lastWasCR' = FALSE
  /\ UNCHANGED <<printVars, reading, line, keys, lone, lines, split, out>>

\* the CR not remembered
BugEndLine ==
  /\ \E c \in Ends :
       /\ NextChar(c) /\ ~(c = LF /\ lastWasCR)
       /\ lines' = lines + (IF c = ESC THEN 0 ELSE 1)
  /\ reading' = FALSE /\ line' = <<>> /\ out' = out \o Written(<<CR, LF>>)
  /\ UNCHANGED <<printVars, lastWasCR, keys, lone, split>>

EndLine ==
  /\ \E c \in Ends :
       /\ NextChar(c) /\ ~(c = LF /\ lastWasCR)
       /\ lastWasCR' = (lastWasCR \/ c = CR)
       /\ lines' = lines + (IF c = ESC THEN 0 ELSE 1)
  /\ reading' = FALSE /\ line' = <<>> /\ out' = out \o Written(<<CR, LF>>)
  /\ UNCHANGED <<printVars, keys, lone, split>>

\* no room left for the trailing 0
BugStoreKey ==
  /\ \E c \in Letters :
       /\ NextChar(c)
       /\ IF Len(line) < LineSize
          THEN line' = Append(line, c) /\ out' = Append(out, c)
          ELSE UNCHANGED <<line, out>>
  /\ UNCHANGED <<printVars, reading, lastWasCR, keys, lone, lines, split>>

StoreKey ==
  /\ \E c \in Letters :
       /\ NextChar(c)
       /\ IF Len(line) < LineSize - 1
          THEN line' = Append(line, c) /\ out' = Append(out, c)
          ELSE UNCHANGED <<line, out>>
  /\ UNCHANGED <<printVars, reading, lastWasCR, keys, lone, lines, split>>

UARTgets == CallGets \/ Backspace \/ SkipLF \/ EndLine \/ StoreKey

UARTgetc ==
  /\ Idle /\ input # <<>> /\ input' = Tail(input)
  /\ split' = (split \/ Head(input).char \in {CR, LF})
  /\ UNCHANGED <<printVars, reading, line, lastWasCR, keys, lone, enters, lines, out>>

\* The user's keys: an Enter sends all it sends, and each may send another of the
\* Newlines (two terminals, or a file that is sent)
Press ==
  /\ Idle \/ reading
  /\ keys < MaxKeys /\ keys' = keys + 1
  /\ UNCHANGED <<printVars, reading, line, lastWasCR, enters, lines, split, out>>

PressKey ==
  /\ Press /\ UNCHANGED lone
  /\ \E c \in Letters \cup {BS, ESC} : input' = Append(input, [char |-> c, enter |-> FALSE])

\* What an Enter sends, after one that sent a CR alone or not: the first character
\* is marked if it is to end a line
Sent(k, alone) ==
  [i \in 1..Len(k) |-> [char |-> k[i], enter |-> i = 1 /\ ~(alone /\ k = <<LF>>)]]

PressEnter ==
  /\ Press
  /\ \E k \in Newlines : lone' = (k = <<CR>>) /\ input' = input \o Sent(k, lone)

Next == UARTvprintf \/ UARTgets \/ UARTgetc \/ PressKey \/ PressEnter
Spec == Init /\ [][Next]_vars

-----------------------------------------------------------------------------
\* Every variable stays in its range: the width wraps in its word, the line leaves
\* room for the terminating zero
TypeOK ==
  /\ command \in BOOLEAN /\ width \in 0..(Word - 1) /\ fill \in {" ", "0"}
  /\ reading \in BOOLEAN /\ lastWasCR \in BOOLEAN /\ lone \in BOOLEAN
  /\ line \in BoundedSeq(Letters, LineSize - 1)
  /\ keys \in 0..MaxKeys /\ lines \in Nat /\ enters \in Nat /\ split \in BOOLEAN

\* The shortest numeral of a value
Numeral(value, base) ==
  LET numeral[v \in 0..value] ==
        IF v < base THEN <<Hex[v + 1]>>
        ELSE Append(numeral[v \div base], Hex[(v % base) + 1])
  IN  numeral[value]

\* What the comment of UARTvprintf says of an item (uartstdio.c:844-850): a leading
\* zero fills what a number or a string leaves of its width with zeros
Padded(item, sign, numeral) ==
  LET n == item.width - Len(sign) - Len(numeral)
  IN  IF item.zero THEN sign \o Filled(n, "0") \o numeral
      ELSE Filled(n, " ") \o sign \o numeral
Documented(item) ==
  CASE item.kind = "text" -> Written(item.value)
    [] item.kind = "c" -> Written(<<item.value>>)
    [] item.kind = "s" ->
         Written(item.value)
           \o Filled(item.width - Len(item.value), IF item.zero THEN "0" ELSE " ")
    [] item.kind = "u" -> Padded(item, <<>>, Numeral(item.value, 10))
    [] item.kind \in {"d", "i"} ->
         IF item.value < Word \div 2 THEN Padded(item, <<>>, Numeral(item.value, 10))
         ELSE Padded(item, <<"-">>, Numeral(Word - item.value, 10))
    [] item.kind \in {"x", "X", "p"} -> Padded(item, <<>>, Numeral(item.value, 16))
    [] item.kind = "%" -> <<"%">>
    [] OTHER -> <<"E", "R", "R", "O", "R">>

\* It is not so of a string: UARTvprintf fills with spaces whatever its zero says
\* (uartstdio.c:1056-1062)
Expected(item) ==
  IF item.kind = "s"
  THEN Written(item.value) \o Filled(item.width - Len(item.value), " ")
  ELSE Documented(item)

Expectation(items) == FlattenSeq([i \in 1..Len(items) |-> Expected(items[i])])

\* What UARTprintf has sent when it returns is what its comment says of the call,
\* item by item, for widths below the size of its buffer, but that a zero before the
\* width of a string has no effect
PrintedAsDocumented == (Idle /\ keys = 0) => out = Expectation(job) /\ args = <<>>

\* A terminal: a character goes where the cursor is, a backspace moves it left
Shown(t, c) ==
  IF c = BS THEN [t EXCEPT !.at = @ - 1]
  ELSE [cell |-> [i \in 1..(IF t.at < Len(t.cell) THEN Len(t.cell) ELSE t.at + 1)
                    |-> IF i = t.at + 1 THEN c ELSE t.cell[i]],
        at |-> t.at + 1]
Terminal(text) == FoldLeft(Shown, [cell |-> <<>>, at |-> 0], text)

\* While a line is typed the terminal shows what UARTgets has stored, no more and
\* no less, with the cursor behind it: the echo, its erasing and the limit of the
\* buffer agree
ScreenShowsLine ==
  reading => LET t == Terminal(out)
             IN  /\ t.at = Len(line) /\ SubSeq(t.cell, 1, t.at) = line
                 /\ \A i \in (t.at + 1)..Len(t.cell) : t.cell[i] = " "

\* Every Enter returns one line, whether it sends CR, LF or both and whatever is
\* typed in between, as long as UARTgetc does not take a part of what it sends: but
\* for one that sends a LF alone after one that sent a CR alone, which is taken for
\* the second half of that (uartstdio.c:702-706), however much was typed after it.
OneLinePerEnter == ~split => lines = enters

-----------------------------------------------------------------------------
(***************************************************************************)
(* The inductive invariants of the proofs in PolledProofs.                 *)
(***************************************************************************)
\* Between two items the output is what the comment says of those before, and
\* the format string and the arguments are those of the items after
Between ==
  /\ ~command
  /\ \E done, todo \in Seq(Items) :
       /\ job = done \o todo /\ out = Expectation(done)
       /\ format = Format(todo) /\ args = Arguments(todo)

\* The digits of a command that are still to be read, with what was read of them
Parsing(item) ==
  LET state(digits, w, zero) == [digits |-> digits, width |-> w,
                                 fill |-> IF zero THEN "0" ELSE " "]
  IN  {state(Zeros(item) \o Tens(item) \o Ones(item), 0, FALSE),
       state(Tens(item) \o Ones(item), 0, item.zero),
       state(Ones(item), item.width \div 10, item.zero), state(<<>>, item.width, item.zero)}

\* Within a command
Within ==
  /\ command
  /\ \E done, todo \in Seq(Items), item \in Items :
       /\ job = done \o <<item>> \o todo /\ out = Expectation(done)
       /\ item.kind # "text" /\ args = Arguments(<<item>> \o todo)
       /\ \E p \in Parsing(item) : /\ width = p.width /\ fill = p.fill
                                   /\ format = p.digits \o <<item.kind>> \o Format(todo)

PInv == keys = 0 => input = <<>> /\ (reading \/ Between \/ Within)

\* Nothing is printed while a line is read
NotPrinting == reading => format = <<>>

\* The terminal while a line is read: it only holds the line and blanks
Shows(t, text) ==
  /\ t.cell \in Seq(Letters \cup {" "}) /\ t.at = Len(text) /\ Len(text) <= Len(t.cell)
  /\ \A i \in 1..Len(t.cell) : t.cell[i] = IF i <= Len(text) THEN text[i] ELSE " "
Echoed == reading => out \in Seq(Letters \cup {" ", BS}) /\ Shows(Terminal(out), line)

\* lastWasCR as it is when the i-th of the characters s is read, from cr on: a CR
\* comes before it and no LF after that
NoLF(s, i) == \A j \in 1..(i - 1) : s[j].char # LF
AfterCR(s, i) ==
  \E j \in 1..(i - 1) : s[j].char = CR /\ \A k \in (j + 1)..(i - 1) : s[k].char # LF
Flagged(cr, s, i) == (cr /\ NoLF(s, i)) \/ AfterCR(s, i)

\* The characters that are to end a line are those that will
Typed == [char : Letters \cup Ends \cup {BS}, enter : BOOLEAN]
Ending(cr, s, i) == s[i].char = CR \/ (s[i].char = LF /\ ~Flagged(cr, s, i))
Marked(cr, s) == \A i \in 1..Len(s) : s[i].enter <=> Ending(cr, s, i)
EntersMarked ==
  /\ input \in Seq(Typed)
  /\ ~split => /\ Marked(lastWasCR, input)
               /\ lone <=> Flagged(lastWasCR, input, Len(input) + 1)

RInv == TypeOK /\ NotPrinting /\ Echoed /\ EntersMarked /\ OneLinePerEnter

-----------------------------------------------------------------------------
(***************************************************************************)
(* What a comment says and the code does not do.                           *)
(***************************************************************************)

\* uartstdio.c:549-551: "The termination characters are CR, LF, or ESC.  A CRLF pair
\* is treated as a single termination character."  A LF that comes after characters
\* of the line, and so is not the second of a pair, would end the line: but a
\* bLastWasCR that an earlier line has left set swallows it.
LFEndsLine ==
  [][reading /\ line # <<>> /\ input # <<>> /\ Head(input).char = LF /\ input' = Tail(input)
       => ~reading']_vars
=============================================================================
