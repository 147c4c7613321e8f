---------------------------- MODULE ReadingOrder ----------------------------
(***************************************************************************)
(* What a reader of the folded Document may count on: walking the children *)
(* of the body from the top gives the content in the order the events came *)
(* in, and so does walking the page furniture.  An event only ever adds at *)
(* the end of one of the two; nothing moves, nothing is put in between.    *)
(* An order is the sequence of the numbers of the events that gave its     *)
(* items; an event may give more than one item, or none.                   *)
(***************************************************************************)
EXTENDS Naturals, Sequences

VARIABLES
  body,       \* the body's reading order
  furniture,  \* the furniture's
  events      \* events so far

(* Numbers of events so far, the new one included, go to the end in order. *)
Follows(order, longer) ==
  \E old \in {order}, new \in {longer} :
    /\ Len(old) <= Len(new)
    /\ SubSeq(new, 1, Len(old)) = old
    /\ \A i \in (Len(old) + 1)..Len(new) :
         /\ new[i] <= events + 1
         /\ i > 1 => new[i - 1] <= new[i]

Init == body = <<>> /\ furniture = <<>> /\ events = 0

Content == 
  /\ Follows(body, body') /\ furniture' = furniture
  /\ events' = events + 1

Chrome ==
  /\ Follows(furniture, furniture') /\ body' = body
  /\ events' = events + 1

(* The Document is taken; the next one starts empty. *)
Take == body' = <<>> /\ furniture' = <<>> /\ events' = events

Next == Content \/ Chrome \/ Take

Spec == Init /\ [][Next]_<<body, furniture, events>>

=============================================================================
