-------------------------------- MODULE Ring --------------------------------
(***************************************************************************)
(* The buffers of uartstdio.c: n slots, the index w of the next one to     *)
(* fill and the index r of the oldest one filled.  One slot always stays   *)
(* free, so that r = w means empty.                                        *)
(***************************************************************************)
EXTENDS Integers, Sequences

\* All rings of n slots that hold elements of S
Rings(n, S) == [slot: [0..(n - 1) -> S], w: 0..(n - 1), r: 0..(n - 1)]

\* A ring as it is when its buffer was last flushed, slots left as they were
Emptied(q) == [q EXCEPT !.w = 0, !.r = 0]

Advance(i, n) == (i + 1) % n

\* Bug...: plausible mistakes in the definition after them, used by no other.
\* the slot that must stay free given away
BugIsFull(q, n) == q.w = n - 1 /\ q.r = 0

IsFull(q, n) == Advance(q.w, n) = q.r

IsEmpty(q) == q.w = q.r

\* the wrapped case the wrong way round
BugCount(q, n) == IF q.w >= q.r THEN q.w - q.r ELSE q.r - q.w

Count(q, n) == IF q.w >= q.r THEN q.w - q.r ELSE n - (q.r - q.w)

Put(q, c, n) == [q EXCEPT !.slot[q.w] = c, !.w = Advance(q.w, n)]

Oldest(q) == q.slot[q.r]

DropOldest(q, n) == [q EXCEPT !.r = Advance(q.r, n)]

\* no wrap below zero
BugDropNewest(q, n) == [q EXCEPT !.w = q.w - 1]

\* The newest element taken back: the index wraps downwards
DropNewest(q, n) == [q EXCEPT !.w = IF q.w = 0 THEN n - 1 ELSE q.w - 1]

\* The elements from the oldest to the newest, what a reader will see
Contents(q, n) == [i \in 1..Count(q, n) |-> q.slot[(q.r + i - 1) % n]]

\* UARTPeek: the position of the first c, -1 if there is none
Peek(q, c, n) ==
  LET found == {i \in 1..Count(q, n) : Contents(q, n)[i] = c}
  IN  IF found = {} THEN -1
      ELSE (CHOOSE i \in found : \A j \in found : i <= j) - 1
=============================================================================
