--------------------------- MODULE ParseSlotsProofs ---------------------------
(***************************************************************************)
(* Slots are conserved for any number of calls and slots, so a call is     *)
(* refused only when every slot is held.                                   *)
(***************************************************************************)
EXTENDS ParseSlots, FiniteSetTheorems, TLAPS

(* How one call's move changes who is in a set of phases.                  *)
LEMMA MoveChanges ==
  ASSUME phase \in [Calls -> Waiting \cup Holding \cup Over],
         NEW c \in Calls, NEW from, NEW to \in Waiting \cup Holding \cup Over,
         Move(c, from, to), NEW P
  PROVE  /\ phase' \in [Calls -> Waiting \cup Holding \cup Over]
         /\ from \notin P /\ to \notin P => In(P)' = In(P)
         /\ from \in P /\ to \in P => In(P)' = In(P)
         /\ from \notin P /\ to \in P => c \notin In(P) /\ In(P)' = In(P) \cup {c}
         /\ from \in P /\ to \notin P => c \in In(P) /\ In(P)' = In(P) \ {c}
<1>1. /\ phase[c] = from /\ phase'[c] = to
      /\ \A d \in Calls \ {c} : phase'[d] = phase[d]
      /\ phase' \in [Calls -> Waiting \cup Holding \cup Over]
  BY DEF Move
<1>2. In(P)' = {d \in Calls : phase'[d] \in P}
  BY DEF In
<1> QED
  BY <1>1, <1>2 DEF In

(* Counted: one more in the set or one fewer, or as many as there were.    *)
LEMMA MoveCounts ==
  ASSUME phase \in [Calls -> Waiting \cup Holding \cup Over],
         NEW c \in Calls, NEW from, NEW to \in Waiting \cup Holding \cup Over,
         Move(c, from, to), NEW P
  PROVE  /\ Cardinality(In(P)) \in Nat /\ Cardinality(In(P)') \in Nat
         /\ (from \in P <=> to \in P) => Cardinality(In(P)') = Cardinality(In(P))
         /\ from \notin P /\ to \in P
              => Cardinality(In(P)') = Cardinality(In(P)) + 1
         /\ from \in P /\ to \notin P
              => Cardinality(In(P)') = Cardinality(In(P)) - 1
<1>1. IsFiniteSet(In(P)) /\ IsFiniteSet(In(P)')
  <2>1. In(P) \subseteq Calls /\ In(P)' \subseteq Calls
    BY DEF In
  <2> QED
    BY <2>1, ParseSlotsAssumption, FS_Subset
<1>2. Cardinality(In(P)) \in Nat /\ Cardinality(In(P)') \in Nat
  BY <1>1, FS_CardinalityType
<1>3. CASE from \in P <=> to \in P
  BY <1>2, <1>3, MoveChanges
<1>4. CASE from \notin P /\ to \in P
  BY <1>1, <1>2, <1>4, MoveChanges, FS_AddElement
<1>5. CASE from \in P /\ to \notin P
  BY <1>1, <1>2, <1>5, MoveChanges, FS_RemoveElement
<1> QED
  BY <1>2, <1>3, <1>4, <1>5

Live == {"queued", "running", "panicked"}

SlotsInv == TypeOK /\ SlotsBalance /\ CountersBalance

LEMMA SlotsInit == Init => SlotsInv
<1> SUFFICES ASSUME Init PROVE SlotsInv
  OBVIOUS
<1>1. In(Holding) = {} /\ In(Live) = {} /\ In({"refused"}) = {}
  BY DEF Init, In, Holding, Live
<1>2. Cardinality({}) = 0
  BY FS_EmptySet
<1>3. TypeOK
  BY ParseSlotsAssumption DEF Init, TypeOK, Waiting
<1> QED
  BY <1>1, <1>2, <1>3, ParseSlotsAssumption
     DEF Init, SlotsInv, SlotsBalance, CountersBalance, Live

(* Each call's step moves it between two phases, and moves the permits and *)
(* the counters with it.                                                   *)
LEMMA CallStep ==
  ASSUME SlotsInv, NEW c \in Calls, Call(c) PROVE SlotsInv'
<1> USE DEF Waiting, Holding, Over, Live, counters
<1>1. /\ phase \in [Calls -> Waiting \cup Holding \cup Over] /\ permits \in Nat
      /\ limit \in [Calls -> {0} \cup {ResolveCap(r) : r \in Requests}]
      /\ started \in Nat /\ ok \in Nat /\ failed \in Nat /\ capped \in Nat
      /\ refused \in Nat
      /\ permits + Cardinality(In(Holding)) = Slots /\ Slots \in Nat
      /\ started = ok + failed + Cardinality(In(Live))
      /\ capped <= failed /\ refused = Cardinality(In({"refused"}))
  BY ParseSlotsAssumption DEF SlotsInv, TypeOK, SlotsBalance, CountersBalance
(* What remains to show of a move, once its counts are known.              *)
<1> DEFINE Kept ==
      /\ phase' \in [Calls -> Waiting \cup Holding \cup Over] /\ permits' \in Nat
      /\ limit' \in [Calls -> {0} \cup {ResolveCap(r) : r \in Requests}]
      /\ started' \in Nat /\ ok' \in Nat /\ failed' \in Nat /\ capped' \in Nat
      /\ refused' \in Nat
      /\ permits' + Cardinality(In(Holding)') = Slots
      /\ started' = ok' + failed' + Cardinality(In(Live)')
      /\ capped' <= failed' /\ refused' = Cardinality(In({"refused"})')
<1> SUFFICES Kept
  BY DEF SlotsInv, TypeOK, SlotsBalance, CountersBalance
<1>2. ASSUME Move(c, "opening", "ready") \/ Move(c, "opening", "rejected"),
             UNCHANGED <<permits, limit, counters>>
      PROVE  Kept
  <2>1. /\ phase' \in [Calls -> Waiting \cup Holding \cup Over]
        /\ In(Holding)' = In(Holding) /\ In(Live)' = In(Live)
        /\ In({"refused"})' = In({"refused"})
    BY <1>1, <1>2, MoveChanges
  <2> QED
    BY <1>1, <1>2, <2>1
<1>3. CASE Admit(c)
  <2>1. Move(c, "ready", "admitted") /\ permits > 0 /\ permits' = permits - 1
        /\ UNCHANGED <<limit, counters>>
    BY <1>3 DEF Admit
  <2>2. /\ phase' \in [Calls -> Waiting \cup Holding \cup Over]
        /\ In(Live)' = In(Live) /\ In({"refused"})' = In({"refused"})
    BY <1>1, <2>1, MoveChanges
  <2>3. /\ Cardinality(In(Holding)) \in Nat
        /\ Cardinality(In(Holding)') = Cardinality(In(Holding)) + 1
    BY <1>1, <2>1, MoveCounts
  <2> QED
    BY <1>1, <2>1, <2>2, <2>3
<1>4. CASE Refuse(c)
  <2>1. /\ Move(c, "ready", "refused") /\ refused' = refused + 1
        /\ UNCHANGED <<permits, limit, started, ok, failed, capped>>
    BY <1>4 DEF Refuse
  <2>2. /\ phase' \in [Calls -> Waiting \cup Holding \cup Over]
        /\ In(Live)' = In(Live) /\ In(Holding)' = In(Holding)
    BY <1>1, <2>1, MoveChanges
  <2>3. Cardinality(In({"refused"})') = Cardinality(In({"refused"})) + 1
    BY <1>1, <2>1, MoveCounts
  <2> QED
    BY <1>1, <2>1, <2>2, <2>3
(* A slot comes back: with the counters as they were.                      *)
<1>5. ASSUME NEW to \in {"rejected", "panicked", "released"},
             NEW from \in {"admitted", "running", "counted"},
             Move(c, from, to), from \in Live <=> to \in Live,
             permits' = permits + 1, UNCHANGED <<limit, counters>>
      PROVE  Kept
  <2>1. /\ phase' \in [Calls -> Waiting \cup Holding \cup Over]
        /\ In({"refused"})' = In({"refused"})
    BY <1>1, <1>5, MoveChanges
  <2>2. /\ Cardinality(In(Holding)) \in Nat /\ Cardinality(In(Holding)') \in Nat
        /\ Cardinality(In(Holding)') = Cardinality(In(Holding)) - 1
        /\ Cardinality(In(Live)') = Cardinality(In(Live))
    BY <1>1, <1>5, MoveCounts
  <2> QED
    BY <1>1, <1>5, <2>1, <2>2
<1>6. ASSUME NEW requested \in Requests, Start(c, requested) PROVE Kept
  <2>1. /\ Move(c, "admitted", "queued") /\ started' = started + 1
        /\ limit' = [limit EXCEPT ![c] = ResolveCap(requested)]
        /\ UNCHANGED <<permits, ok, failed, capped, refused>>
    BY <1>6 DEF Start
  <2>2. /\ phase' \in [Calls -> Waiting \cup Holding \cup Over]
        /\ In({"refused"})' = In({"refused"}) /\ In(Holding)' = In(Holding)
    BY <1>1, <2>1, MoveChanges
  <2>3. /\ Cardinality(In(Live)) \in Nat
        /\ Cardinality(In(Live)') = Cardinality(In(Live)) + 1
    BY <1>1, <2>1, MoveCounts
  <2>4. limit' \in [Calls -> {0} \cup {ResolveCap(r) : r \in Requests}]
    BY <1>1, <2>1
  <2> QED
    BY <1>1, <2>1, <2>2, <2>3, <2>4
<1>7. CASE RunThread(c)
  <2>1. Move(c, "queued", "running") /\ UNCHANGED <<permits, limit, counters>>
    BY <1>7 DEF RunThread
  <2>2. /\ phase' \in [Calls -> Waiting \cup Holding \cup Over]
        /\ In(Holding)' = In(Holding) /\ In(Live)' = In(Live)
        /\ In({"refused"})' = In({"refused"})
    BY <1>1, <2>1, MoveChanges
  <2> QED
    BY <1>1, <2>1, <2>2
<1>8. ASSUME Move(c, "running", "counted"), UNCHANGED <<permits, limit, started, refused>>,
             ok' \in Nat, failed' \in Nat, capped' \in Nat, capped' <= failed',
             ok' + failed' = ok + failed + 1
      PROVE  Kept
  <2>1. /\ phase' \in [Calls -> Waiting \cup Holding \cup Over]
        /\ In({"refused"})' = In({"refused"}) /\ In(Holding)' = In(Holding)
    BY <1>1, <1>8, MoveChanges
  <2>2. /\ Cardinality(In(Live)) \in Nat /\ Cardinality(In(Live)') \in Nat
        /\ Cardinality(In(Live)') = Cardinality(In(Live)) - 1
    BY <1>1, <1>8, MoveCounts
  <2>3. started' = ok' + failed' + Cardinality(In(Live)')
    <3> DEFINE n == Cardinality(In(Live))
               m == Cardinality(In(Live)')
    <3>1. n \in Nat /\ m \in Nat /\ n = m + 1
      BY <2>2
    <3>2. started' = ok + failed + n /\ ok \in Nat /\ failed \in Nat
      BY <1>1, <1>8
    <3>3. ok' \in Nat /\ failed' \in Nat /\ ok' + failed' = ok + failed + 1
      BY <1>8
    <3> HIDE DEF n, m
    <3>4. ok' + failed' + m = ok + failed + 1 + m
      BY <3>3
    <3>5. ok + failed + 1 + m = ok + failed + n
      BY <3>1, <3>2
    <3>6. started' = ok' + failed' + m
      BY <3>2, <3>4, <3>5
    <3> QED
      BY <3>6 DEF m
  <2> QED
    BY <1>1, <1>8, <2>1, <2>3
<1>9. CASE CountOk(c)
  BY <1>1, <1>8, <1>9 DEF CountOk
<1>10. ASSUME NEW overCap \in BOOLEAN, CountFailed(c, overCap) PROVE Kept
  BY <1>1, <1>8, <1>10 DEF CountFailed
<1> QED
  BY <1>2, <1>3, <1>4, <1>5, <1>6, <1>7, <1>9, <1>10
     DEF Call, Parse, OptionsArrive, OpeningFails, UnknownDialect, Panic, Release

LEMMA SlotsStep ==
  ASSUME SlotsInv, [Next]_slotsVars PROVE SlotsInv'
<1>1. CASE \E c \in Calls : Call(c)
  BY <1>1, CallStep
<1>2. CASE UNCHANGED slotsVars
  BY <1>2 DEF slotsVars, counters, SlotsInv, TypeOK, SlotsBalance,
              CountersBalance, In
<1> QED
  BY <1>1, <1>2 DEF Next, Served

(* No way out of a call leaks a slot or makes one, for any number of each. *)
THEOREM SlotsCorrect == Spec => [](TypeOK /\ SlotsBalance /\ CountersBalance)
<1>1. Init => SlotsInv
  BY SlotsInit
<1>2. SlotsInv /\ [Next]_slotsVars => SlotsInv'
  BY SlotsStep
<1>3. SlotsInv => TypeOK /\ SlotsBalance /\ CountersBalance
  BY DEF SlotsInv
<1> QED
  BY <1>1, <1>2, <1>3, PTL DEF Spec

(* Every call is in a phase the code has, the free slots never run below    *)
(* zero (service.rs:196-206) and every counter is a natural number.         *)
THEOREM SlotTypesCorrect == Spec => []TypeOK
<1>1. TypeOK /\ SlotsBalance /\ CountersBalance => TypeOK
  OBVIOUS
<1> QED
  BY <1>1, SlotsCorrect, PTL

(* What the counters report adds up to the parses that were started.        *)
THEOREM CountersCorrect == Spec => []CountersBalance
<1>1. TypeOK /\ SlotsBalance /\ CountersBalance => CountersBalance
  OBVIOUS
<1> QED
  BY <1>1, SlotsCorrect, PTL

(* A refusal finds every slot held by a call whose options have arrived.   *)
THEOREM RefusalMeansFull == Spec => RefusedOnlyWhenFull
<1>1. Init => SlotsInv
  BY SlotsInit
<1>2. SlotsInv /\ [Next]_slotsVars => SlotsInv'
  BY SlotsStep
<1>3. SlotsInv /\ [Next]_slotsVars
        => [\A c \in Calls :
              phase[c] # "refused" /\ phase'[c] = "refused"
                => Cardinality(In(Holding)) = Slots]_slotsVars
  <2> SUFFICES ASSUME SlotsInv, Next, NEW c \in Calls,
                      phase[c] # "refused", phase'[c] = "refused"
               PROVE  Cardinality(In(Holding)) = Slots
    BY DEF Served
  <2>1. PICK d \in Calls : Call(d)
    BY DEF Next, Served, slotsVars
  <2>2. phase \in [Calls -> Waiting \cup Holding \cup Over]
    BY DEF SlotsInv, TypeOK
  <2>3. CASE Refuse(d)
    <3>1. IsFiniteSet(In(Holding))
      <4>1. In(Holding) \subseteq Calls
        BY DEF In
      <4> QED
        BY <4>1, ParseSlotsAssumption, FS_Subset
    <3>2. Cardinality(In(Holding)) \in Nat
      BY <3>1, FS_CardinalityType
    <3> QED
      BY <2>3, <3>2 DEF Refuse, SlotsInv, SlotsBalance
  <2>4. ASSUME NEW from, NEW to, Move(d, from, to), to # "refused" PROVE FALSE
    BY <2>2, <2>4 DEF Move
  <2> QED
    BY <2>1, <2>3, <2>4
       DEF Call, Parse, OptionsArrive, OpeningFails, Admit, UnknownDialect,
           Start, RunThread, CountOk, CountFailed, Panic, Release
<1> QED
  BY <1>1, <1>2, <1>3, PTL DEF Spec, RefusedOnlyWhenFull

=============================================================================
