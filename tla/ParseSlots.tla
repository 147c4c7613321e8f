------------------------------ MODULE ParseSlots ------------------------------
(***************************************************************************)
(* Admission in src/service.rs: many ParseXml calls share one semaphore of *)
(* parse slots, one pool of blocking threads and one set of counters.  A   *)
(* call waits for its options holding nothing, then takes a slot or is     *)
(* refused at once.  The slot goes into the blocking closure and comes     *)
(* back with it, whether the closure returns or unwinds.  What a call does *)
(* while it holds its slot is ParsePipeline's business.                    *)
(***************************************************************************)
EXTENDS Naturals, FiniteSets

CONSTANTS
  Calls,      \* the calls clients make
  Slots,      \* max_concurrent_parses
  Threads,    \* the blocking pool's size
  DefaultCap, \* default_max_document_bytes
  Ceiling,    \* ceiling_max_document_bytes
  Requests    \* byte caps a request asks for; 0 asks for the default

ASSUME ParseSlotsAssumption ==
  /\ IsFiniteSet(Calls)
  /\ Slots \in Nat /\ Threads \in Nat \ {0}
  /\ DefaultCap \in Nat /\ Ceiling \in Nat /\ Requests \subseteq Nat

VARIABLES
  phase,     \* what has become of each call
  permits,   \* slots free in parse_slots
  limit,     \* the byte cap of each started call
  started, ok, failed, capped, refused   \* the counters of metrics.rs

counters == <<started, ok, failed, capped, refused>>

slotsVars == <<phase, permits, limit, counters>>

Waiting   == {"opening", "ready"}
Holding   == {"admitted", "queued", "running", "counted"}
Over      == {"rejected", "refused", "panicked", "released"}

In(phases) == {c \in Calls : phase[c] \in phases}

Init ==
  /\ phase = [c \in Calls |-> "opening"]
  /\ permits = Slots
  /\ limit = [c \in Calls |-> 0]
  /\ started = 0 /\ ok = 0 /\ failed = 0 /\ capped = 0 /\ refused = 0

Move(c, from, to) ==
  /\ phase[c] = from
  /\ phase' = [phase EXCEPT ![c] = to]

(* The first message sets the options. *)
OptionsArrive(c) ==
  /\ Move(c, "opening", "ready")
  /\ UNCHANGED <<permits, limit, counters>>

(* It is a chunk or nothing, does not come in time, or the client leaves.  *)
OpeningFails(c) ==
  /\ Move(c, "opening", "rejected")
  /\ UNCHANGED <<permits, limit, counters>>

Admit(c) ==
  /\ permits > 0
  /\ Move(c, "ready", "admitted")
  /\ permits' = permits - 1
  /\ UNCHANGED <<limit, counters>>

Refuse(c) ==
  /\ permits = 0
  /\ Move(c, "ready", "refused")
  /\ refused' = refused + 1
  /\ UNCHANGED <<permits, limit, started, ok, failed, capped>>

(* Fault: the refusal of a dialect forgets the slot it took. *)
UnknownDialectLeaks(c) ==
  /\ Move(c, "admitted", "rejected")
  /\ UNCHANGED <<permits, limit, counters>>

(* The dialect is checked after the slot is taken; the permit is dropped.  *)
UnknownDialect(c) ==
  /\ Move(c, "admitted", "rejected")
  /\ permits' = permits + 1
  /\ UNCHANGED <<limit, counters>>

(* 0 takes the default as it is; anything else is clamped to the ceiling.  *)
ResolveCap(requested) ==
  IF requested = 0 THEN DefaultCap
  ELSE IF requested > Ceiling THEN Ceiling ELSE requested

(* Fault: what a request asks for is taken as it is. *)
StartAsAsked(c, requested) ==
  /\ Move(c, "admitted", "queued")
  /\ limit' = [limit EXCEPT ![c] = requested]
  /\ started' = started + 1
  /\ UNCHANGED <<permits, ok, failed, capped, refused>>

(* The parse is counted and handed to the blocking pool. *)
Start(c, requested) ==
  /\ Move(c, "admitted", "queued")
  /\ limit' = [limit EXCEPT ![c] = ResolveCap(requested)]
  /\ started' = started + 1
  /\ UNCHANGED <<permits, ok, failed, capped, refused>>

(* Fault: the thread of a parse that panicked is never used again. *)
OccupiedByPanicked == In({"running", "counted", "panicked"})

(* A parse keeps its thread from its first step to the end of its closure. *)
Occupied == In({"running", "counted"})

RunThread(c) ==
  /\ Cardinality(Occupied) < Threads
  /\ Move(c, "queued", "running")
  /\ UNCHANGED <<permits, limit, counters>>

CountOk(c) ==
  /\ Move(c, "running", "counted")
  /\ ok' = ok + 1
  /\ UNCHANGED <<permits, limit, started, failed, capped, refused>>

(* Fault: a document over its cap is counted as capped and not as failed. *)
CountOnce(c, overCap) ==
  /\ Move(c, "running", "counted")
  /\ failed' = failed + (IF overCap THEN 0 ELSE 1)
  /\ capped' = capped + (IF overCap THEN 1 ELSE 0)
  /\ UNCHANGED <<permits, limit, started, ok, refused>>

CountFailed(c, overCap) ==
  /\ Move(c, "running", "counted")
  /\ failed' = failed + 1
  /\ capped' = capped + (IF overCap THEN 1 ELSE 0)
  /\ UNCHANGED <<permits, limit, started, ok, refused>>

(* Fault: only a closure that returns gives its slot back. *)
PanicLeaks(c) ==
  /\ Move(c, "running", "panicked")
  /\ UNCHANGED <<permits, limit, counters>>

(* Unwinding drops the permit and counts nothing. *)
Panic(c) ==
  /\ Move(c, "running", "panicked")
  /\ permits' = permits + 1
  /\ UNCHANGED <<limit, counters>>

Release(c) ==
  /\ Move(c, "counted", "released")
  /\ permits' = permits + 1
  /\ UNCHANGED <<limit, counters>>

Parse(c) ==
  \/ RunThread(c) \/ CountOk(c) \/ Panic(c) \/ Release(c)
  \/ \E overCap \in BOOLEAN : CountFailed(c, overCap)

Call(c) ==
  \/ OptionsArrive(c) \/ OpeningFails(c) \/ Admit(c) \/ Refuse(c)
  \/ UnknownDialect(c) \/ Parse(c)
  \/ \E requested \in Requests : Start(c, requested)

Served == In(Over) = Calls /\ UNCHANGED slotsVars

Next == (\E c \in Calls : Call(c)) \/ Served

Spec == Init /\ [][Next]_slotsVars

(* The pool gives a free thread to some queued parse, again and again to   *)
(* each; a parse on a thread ends (ParsePipeline's SlotComesBack).         *)
FairSpec == Spec /\ \A c \in Calls : SF_slotsVars(Parse(c))

-----------------------------------------------------------------------------
TypeOK ==
  /\ phase \in [Calls -> Waiting \cup Holding \cup Over]
  /\ permits \in Nat
  /\ limit \in [Calls -> {0} \cup {ResolveCap(r) : r \in Requests}]
  /\ started \in Nat /\ ok \in Nat /\ failed \in Nat /\ capped \in Nat
  /\ refused \in Nat

(* Slots are neither leaked nor made, by whichever way a call ends: the    *)
(* free ones and the held ones are all there are (service.rs:196-206,      *)
(* 248-252, 293-307).                                                      *)
SlotsBalance == permits + Cardinality(In(Holding)) = Slots

(* A call is refused only when every slot is held by a call whose options  *)
(* have arrived: a client that opens a stream and sends nothing keeps      *)
(* nobody out (service.rs:227-228, README.md:137-138).                     *)
RefusedOnlyWhenFull ==
  [][\A c \in Calls :
       phase[c] # "refused" /\ phase'[c] = "refused"
         => Cardinality(In(Holding)) = Slots]_slotsVars

(* The counters account for every parse admitted: it is running, or ended  *)
(* ok or failed, or panicked, the one way out that counts nothing; and a   *)
(* capped parse is a failed one (metrics.rs:20-30, service.rs:405-433).    *)
CountersBalance ==
  /\ started = ok + failed + Cardinality(In({"queued", "running", "panicked"}))
  /\ capped <= failed
  /\ refused = Cardinality(In({"refused"}))

(* A parse that took a slot gets a thread, even from a pool smaller than   *)
(* the number of slots, and gives both back (main.rs:11-15).               *)
StartedEnds ==
  \A c \in Calls : phase[c] = "queued" ~> phase[c] \in {"panicked", "released"}

(* service.rs:48: a "hard ceiling on the byte cap, whatever a request asks *)
(* for".                                                                   *)
CapUnderCeiling == \A c \in Calls : limit[c] <= Ceiling

=============================================================================
