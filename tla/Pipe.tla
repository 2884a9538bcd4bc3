-------------------------------- MODULE Pipe --------------------------------
(***************************************************************************)
(* What the buffered console promises its caller, with no word of rings,   *)
(* indices or interrupts: two queues.  What is written goes out in order,  *)
(* once; what is typed is read in order, once, and the user may take back  *)
(* only what was typed last and has not been read.                         *)
(*                                                                         *)
(* The promise holds until the first clash of the caller with the echo     *)
(* (see Console); after it anything may happen.                            *)
(***************************************************************************)
EXTENDS Integers, Sequences, SequencesExt

CONSTANTS MaxOut, MaxIn     \* what the two queues hold

VARIABLES outgoing,   \* written and not yet on the wire
          leaving,    \* the part of it that no flush can stop
          incoming,   \* received and not yet read
          typed,      \* typed and not yet received
          echo,       \* what is typed is shown
          ok          \* no clash so far

Init == outgoing = <<>> /\ incoming = <<>> /\ ok = TRUE

Accept   == IsPrefix(outgoing, outgoing') /\ UNCHANGED incoming
Send     == outgoing # <<>> /\ outgoing' = Tail(outgoing) /\ UNCHANGED incoming
Discard  == outgoing' = leaving /\ UNCHANGED incoming
Take     == incoming # <<>> /\ incoming' = Tail(incoming) /\ UNCHANGED outgoing
Forget   == incoming' = <<>> /\ UNCHANGED outgoing
\* every character typed adds at most one, or erases at most one
Receive  == /\ typed' = <<>>
            /\ IsPrefix(outgoing, outgoing')
            /\ \/ IsPrefix(incoming, incoming')
               \/ echo /\ \E k \in 0..Len(incoming) :
                    /\ k >= Len(incoming) - Len(typed)
                    /\ IsPrefix(SubSeq(incoming, 1, k), incoming')
            /\ Len(incoming') <= Len(incoming) + Len(typed)

Bounded == Len(outgoing) <= MaxOut /\ Len(incoming) <= MaxIn

Step == (Accept \/ Send \/ Discard \/ Take \/ Forget \/ Receive) /\ Bounded'

Next == ok => Step \/ ~ok'

vars == <<outgoing, incoming>>

Spec == Init /\ [][Next]_vars
=============================================================================
