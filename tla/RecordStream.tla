------------------------------ MODULE RecordStream ------------------------------
(***************************************************************************)
(* What SEG_CMD promises the two sides of a session, with no ring in it:   *)
(* the client's records reach the server one at a time, in the order they  *)
(* were sent, none lost, none twice.  Records are named by their sequence  *)
(* number, the n-th record sent is number n, and "the number the server    *)
(* counts is the number the client counted" is what makes the sequence     *)
(* number usable as a reply-slot id.                                       *)
(***************************************************************************)
EXTENDS Naturals

VARIABLES
  sent,      \* number of records the client has made visible
  inHand,    \* the record being applied, 0 for none
  done,      \* number of records applied and acknowledged
  ended      \* the server takes no more

streamVars == <<sent, inHand, done, ended>>

Init == sent = 0 /\ inHand = 0 /\ done = 0 /\ ended = FALSE

Send == sent' = sent + 1 /\ UNCHANGED <<inHand, done, ended>>

Take ==
  /\ ~ended
  /\ inHand = 0
  /\ done < sent
  /\ inHand' = done + 1
  /\ UNCHANGED <<sent, done, ended>>

Finish ==
  /\ inHand # 0
  /\ done' = inHand
  /\ inHand' = 0
  /\ UNCHANGED <<sent, ended>>

(* The record in hand, if any, is given up and never acknowledged. *)
End ==
  /\ ended' = TRUE
  /\ inHand' = 0
  /\ UNCHANGED <<sent, done>>

Next == Send \/ Take \/ Finish \/ End

Spec == Init /\ [][Next]_streamVars
=============================================================================
