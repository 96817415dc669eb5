-------------------------- MODULE DirectModeProofs --------------------------
(***************************************************************************)
(* Direct mode counts right, for every number of queries served at a time. *)
(***************************************************************************)
EXTENDS DirectMode, FiniteSetTheorems, TLAPS

-----------------------------------------------------------------------------
(* What the process is started with *)

LEMMA AppTarget ==
    ASSUME NEW args \in AppArgs, NEW c \in Config
    PROVE  /\ AppStarts(args, c).mode \in {"direct", "linked"}
           /\ AppStarts(args, c).target \in Host \cup {NoHost}
           /\ AppStarts(args, c).mode = "direct" =>
                 AppStarts(args, c).target # NoHost \/ c.tunarr = "only"
<1>1. Arg(args, 2) \in Host \cup {NoHost}
  BY DirectAssumption DEF Arg
<1>2. Or(Arg(args, 2), c.appDirectIP) \in Host \cup {NoHost}
  BY <1>1 DEF Or, Config
<1> QED BY <1>2 DEF AppStarts, Direct, Linked

\* A TunerProxy that gets past the usage messages has a host.
LEMMA TunerTarget ==
    ASSUME NEW args \in TunerArgs, NEW c \in Config
    PROVE  /\ TunerStarts(args, c).mode \in {"direct", "linked", "exited"}
           /\ TunerStarts(args, c).target \in Host \cup {NoHost}
           /\ TunerStarts(args, c).mode = "direct" =>
                 TunerStarts(args, c).target # NoHost
<1>1. Arg(args, 1) \in Host \cup {NoHost} \cup Flag
  BY DirectAssumption DEF Arg
<1>2. TunerHost(args, c) \in {Arg(args, 1)} \cup Host \cup {NoHost}
  BY <1>1 DEF TunerHost, Or, Config
<1>3. Arg(args, 1) \in Flag \ (Host \cup {NoHost}) =>
          TunerStarts(args, c) = Usage
  BY DEF TunerStarts
<1>4. CASE Arg(args, 1) \in Flag \ (Host \cup {NoHost})
  BY <1>3, <1>4 DEF Usage
<1>5. CASE Arg(args, 1) \in Host \cup {NoHost}
  BY <1>2, <1>5 DEF TunerStarts, Usage, Direct, Linked
<1> QED BY <1>1, <1>4, <1>5

LEMMA StartType ==
    ASSUME TypeOK,
           \/ \E args \in AppArgs, c \in Config : StartApp(args, c)
           \/ \E args \in TunerArgs, c \in Config : StartTuner(args, c)
    PROVE  TypeOK'
<1>1. /\ mode' \in {"direct", "linked", "exited"}
      /\ directHDHRIP' \in Host \cup {NoHost}
      /\ mode' = "direct" => directHDHRIP' # NoHost \/ tunarr' = "only"
      /\ tunarr' \in {"off", "also", "only"}
  <2>1. CASE \E args \in AppArgs, c \in Config : StartApp(args, c)
    <3>1. PICK args \in AppArgs, c \in Config : StartApp(args, c)
      BY <2>1
    <3>2. c.tunarr \in {"off", "also", "only"}
      BY DEF Config
    <3> QED BY <3>1, <3>2, AppTarget DEF StartApp, Runs
  <2>2. CASE \E args \in TunerArgs, c \in Config : StartTuner(args, c)
    <3>1. PICK args \in TunerArgs, c \in Config : StartTuner(args, c)
      BY <2>2
    <3>2. c.tunarr \in {"off", "also", "only"}
      BY DEF Config
    <3> QED BY <3>1, <3>2, TunerTarget DEF StartTuner, Runs
  <2> QED BY <2>1, <2>2
<1>2. UNCHANGED <<reachable, at, net, activeDial, hdhr, uiVars>>
  BY DEF StartApp, StartTuner, Runs
<1> QED BY <1>1, <1>2 DEF TypeOK, uiVars, Open

-----------------------------------------------------------------------------
(* The counter *)

Phase == {"dial", "read", "close"}

\* It follows a goroutine that opens a request, goes on with it, or ends it.
LEMMA Counted ==
    ASSUME TypeOK, NEW q \in Slot, NEW place, Goto(q, place)
    PROVE  /\ at[q] \in Phase <=> place \in Phase =>
                 Cardinality(Open)' = Cardinality(Open)
           /\ at[q] \notin Phase /\ place \in Phase =>
                 Cardinality(Open)' = activeDial + 1
           /\ at[q] \in Phase /\ place \notin Phase =>
                 Cardinality(Open)' = activeDial - 1
<1>1. at' = [p \in Slot |-> IF p = q THEN place ELSE at[p]]
  BY DEF Goto, TypeOK
<1>2. IsFiniteSet(Open)
  BY DirectAssumption, FS_Subset DEF Open
<1>3. activeDial = Cardinality(Open)
  BY DEF TypeOK
<1>4. CASE at[q] \in Phase <=> place \in Phase
  <2>1. Open' = Open
    BY <1>1, <1>4 DEF Open, Phase
  <2> QED BY <2>1, <1>4
<1>5. CASE at[q] \notin Phase /\ place \in Phase
  <2>1. Open' = Open \cup {q} /\ q \notin Open
    BY <1>1, <1>5 DEF Open, Phase
  <2> QED BY <2>1, <1>2, <1>3, <1>5, FS_AddElement
<1>6. CASE at[q] \in Phase /\ place \notin Phase
  <2>1. Open' = Open \ {q} /\ q \in Open
    BY <1>1, <1>6 DEF Open, Phase
  <2> QED BY <2>1, <1>2, <1>3, <1>6, FS_RemoveElement
<1> QED BY <1>4, <1>5, <1>6

\* What the steps of a goroutine leave alone, or set to a value of its type.
LEMMA ServeType ==
    ASSUME TypeOK, NEW q \in Slot, Serve(q) \/ Arrive(q)
    PROVE  TypeOK'
<1>1. /\ UNCHANGED <<startVars, reachable, uiVars>>
      /\ hdhr' \in {"unknown", "ok", "fail"}
      /\ net' \in [Slot -> {"none", "asked", "answered"}]
  BY DEF Serve, Arrive, TunarrOnly, Forward, DialFails, Write, ReadAnswer,
     ReadTimeout, ReadError, Close, TypeOK
<1>2. PICK place \in {"none", "forward", "dial", "read", "close"} :
        /\ Goto(q, place)
        /\ activeDial' =
              IF at[q] \in Phase /\ place \notin Phase THEN activeDial - 1
              ELSE IF at[q] \notin Phase /\ place \in Phase THEN activeDial + 1
              ELSE activeDial
  BY DEF Serve, Arrive, TunarrOnly, Forward, DialFails, Write, ReadAnswer,
     ReadTimeout, ReadError, Close, Phase
<1>3. activeDial' = Cardinality(Open)'
  BY <1>2, Counted DEF TypeOK
<1>4. at' \in [Slot -> {"none", "forward", "dial", "read", "close"}]
  BY <1>2 DEF Goto, TypeOK
<1> QED BY <1>1, <1>3, <1>4 DEF TypeOK, startVars, uiVars

-----------------------------------------------------------------------------
LEMMA InitType == Init => TypeOK
<1> SUFFICES ASSUME Init PROVE TypeOK
  OBVIOUS
<1>1. Open = {}
  BY DEF Init, Open
<1>2. Cardinality(Open) = 0
  BY <1>1, FS_EmptySet
<1> QED BY <1>2 DEF Init, TypeOK

LEMMA NextType == TypeOK /\ [Next]_vars => TypeOK'
<1> SUFFICES ASSUME TypeOK, [Next]_vars PROVE TypeOK'
  OBVIOUS
<1>1. ASSUME NEW q \in Slot, Answer(q) PROVE TypeOK'
  BY <1>1 DEF Answer, TypeOK, startVars, uiVars, Open
<1>2. CASE Switch
  BY <1>2 DEF Switch, TypeOK, startVars, uiVars, Open
<1>3. CASE Stats
  <2>1. activeDial \in Nat
    BY DirectAssumption, FS_Subset, FS_CardinalityType DEF TypeOK, Open
  <2> QED BY <1>3, <2>1 DEF Stats, StatsCounts, StatsHealth, TypeOK, startVars,
             uiVars, Open
<1>4. CASE UNCHANGED vars
  BY <1>4 DEF vars, startVars, uiVars, TypeOK, Open
<1> QED BY <1>1, <1>2, <1>3, <1>4, StartType, ServeType DEF Next

(***************************************************************************)
(* However queries end and overlap, the counter is the number of requests  *)
(* that are open (so it comes back to zero, and never below), and a proxy  *)
(* in direct mode has something to ask.                                    *)
(***************************************************************************)
THEOREM CountsOpenRequests == Spec => []TypeOK
BY InitType, NextType, PTL DEF Spec
=============================================================================
