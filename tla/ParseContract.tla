---------------------------- MODULE ParseContract ----------------------------
(***************************************************************************)
(* What one ParseXml call promises its client, and nothing about how: a    *)
(* run of content events, the folded Document if the call asked for one,   *)
(* then exactly one ending, then the end of the stream.  It is what        *)
(* src/service.rs states for ParseStream ("the call never ends as a bare   *)
(* OK") and xml_service.proto for the response stream (the trailer last,   *)
(* or a gRPC status and no trailer).  ParsePipeline implements it.         *)
(***************************************************************************)
EXTENDS Naturals

CONSTANTS
  Codes,         \* the gRPC codes a call may fail with
  EmitDocument   \* whether the call asked for the folded Document

VARIABLES
  given,     \* messages the client has been handed
  document,  \* the Document has been handed over
  outcome,   \* "open", "trailer", or the code the call failed with
  left,      \* the client went away before the call had ended
  over       \* nothing more will be handed over

contractVars == <<given, document, outcome, left, over>>

Init ==
  /\ given = 0
  /\ document = FALSE
  /\ outcome = "open"
  /\ left = FALSE
  /\ over = FALSE

Running == outcome = "open" /\ ~over

(* A content event: never after the Document, which folds all of them. *)
GiveEvent ==
  /\ Running /\ ~document
  /\ given' = given + 1
  /\ UNCHANGED <<document, outcome, left, over>>

GiveDocument ==
  /\ Running /\ EmitDocument /\ ~document
  /\ given' = given + 1
  /\ document' = TRUE
  /\ UNCHANGED <<outcome, left, over>>

(* The ParseStatus trailer, right behind the Document if one was asked for. *)
GiveTrailer ==
  /\ Running /\ document = EmitDocument
  /\ given' = given + 1
  /\ outcome' = "trailer"
  /\ UNCHANGED <<document, left, over>>

(* An error status, which ends the call in place of the trailer. *)
GiveError ==
  /\ Running
  /\ outcome' \in Codes
  /\ UNCHANGED <<given, document, left, over>>

(* The server ends the stream only once the ending has been given. *)
EndStream ==
  /\ outcome # "open" /\ ~over
  /\ over' = TRUE
  /\ UNCHANGED <<given, document, outcome, left>>

(* The client may leave at any point: the only way to end without one. *)
Leave ==
  /\ ~over
  /\ left' = TRUE /\ over' = TRUE
  /\ UNCHANGED <<given, document, outcome>>

Next ==
  GiveEvent \/ GiveDocument \/ GiveTrailer \/ GiveError \/ EndStream \/ Leave

Spec == Init /\ [][Next]_contractVars

=============================================================================
