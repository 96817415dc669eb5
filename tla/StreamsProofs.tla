--------------------------- MODULE StreamsProofs ----------------------------
(***************************************************************************)
(* Proofs about Streams, for every number of tuners and of requests.       *)
(*                                                                         *)
(* IInv says what a request that holds a tuner has written into it, which  *)
(* gives mutual exclusion, and counts the requests that have come past     *)
(* tuner i: each of them met another one at i - 1 when it passed, so there *)
(* are at most Cardinality(Request) - i.                                   *)
(***************************************************************************)
EXTENDS Streams, FiniteSetTheorems, TLAPS

HolderShown ==
    \A r \in Request : pc[r] \in Holding =>
        /\ scan[r] \in Tuner
        /\ tuners[scan[r]].Status = "locked"
        /\ tuners[scan[r]].Target = r
        /\ pc[r] # "claimed" => tuners[scan[r]].Channel = number[r]

UnheldIdle ==
    \A i \in Tuner : tuners[i] = Idle \/ \E r \in Request : Holds(r, i)

PastBound ==
    \A i \in 0..Count :
        Past(i) = {} \/ Cardinality(Past(i)) + i <= Cardinality(Request)

NotRefused ==
    Cardinality(Request) <= Count => \A r \in Request : answer[r] # 503

ScanFromZero == \A r \in Request : pc[r] = "lookup" => scan[r] = 0

IInv == /\ TypeOK /\ HolderShown /\ UnheldIdle
        /\ PastBound /\ ScanFromZero /\ NotRefused

-----------------------------------------------------------------------------
LEMMA InvImpliesExclusive == IInv => OneStreamPerTuner
BY DEF IInv, HolderShown, OneStreamPerTuner, Holds

LEMMA InvImpliesAccounted == IInv => TunersAccountedFor
<1> SUFFICES ASSUME IInv, NEW i \in Tuner
             PROVE  \/ tuners[i] = Idle /\ \A r \in Request : ~Holds(r, i)
                    \/ /\ tuners[i].Status = "locked"
                       /\ \E r \in Request :
                             /\ Holds(r, i) /\ tuners[i].Target = r
                             /\ pc[r] # "claimed" =>
                                   tuners[i].Channel = number[r]
  BY DEF TunersAccountedFor
<1>1. CASE \E r \in Request : Holds(r, i)
  BY <1>1 DEF IInv, HolderShown, Holds
<1>2. CASE \A r \in Request : ~Holds(r, i)
  BY <1>2 DEF IInv, UnheldIdle
<1> QED BY <1>1, <1>2

LEMMA PastFinite ==
    ASSUME NEW S \in SUBSET Request, NEW T \in SUBSET S
    PROVE  /\ IsFiniteSet(S) /\ Cardinality(T) <= Cardinality(S)
           /\ Cardinality(S) \in Nat /\ Cardinality(T) \in Nat
BY TunerAssumption, FS_Subset, FS_CardinalityType

\* A step after which nobody is past a tuner who was not before.
LEMMA BoundKept ==
    ASSUME PastBound, \A i \in 1..Count : Past(i)' \subseteq Past(i)
    PROVE  PastBound'
<1> SUFFICES ASSUME NEW i \in 0..Count, Past(i)' # {}
             PROVE  Cardinality(Past(i)') + i <= Cardinality(Request)
  BY DEF PastBound
<1>1. CASE i = 0
  <2>1. Past(i)' \in SUBSET Request
    BY DEF Past
  <2>2. /\ Cardinality(Past(i)') <= Cardinality(Request)
        /\ Cardinality(Past(i)') \in Nat /\ Cardinality(Request) \in Nat
    BY <2>1, PastFinite
  <2> QED BY <1>1, <2>2
<1>2. CASE i # 0
  <2>1. i \in Nat /\ i \in 1..Count
    BY <1>2, TunerAssumption
  <2>2. Past(i)' \in SUBSET Past(i) /\ Past(i) \in SUBSET Request
    BY <2>1 DEF Past
  <2>3. Cardinality(Past(i)) + i <= Cardinality(Request)
    BY <2>2 DEF PastBound
  <2>4. /\ Cardinality(Past(i)') <= Cardinality(Past(i))
        /\ Cardinality(Past(i)') \in Nat /\ Cardinality(Past(i)) \in Nat
        /\ Cardinality(Request) \in Nat
    BY <2>2, PastFinite
  <2> QED BY <2>1, <2>3, <2>4
<1> QED BY <1>1, <1>2

\* A request that finds tuner scan[r] held leaves its holder behind.
LEMMA BoundOnPassing ==
    ASSUME IInv, NEW r \in Request, TunerBusy(r)
    PROVE  PastBound'
<1> DEFINE k == scan[r]
<1>1. /\ pc[r] = "scan" /\ k \in 0..Count /\ k < Count /\ k + 1 \in 0..Count
      /\ k \in Nat /\ k \in Tuner /\ tuners[k].Status # "idle"
  BY TunerAssumption DEF TunerBusy, CanLock, IInv, TypeOK, Tuner
<1>2. PICK h \in Request : Holds(h, k)
  BY <1>1 DEF IInv, UnheldIdle, Idle
<1>3. h # r
  BY <1>1, <1>2 DEF Holds, Holding
<1>4. pc' = pc /\ scan' = [scan EXCEPT ![r] = k + 1]
      /\ \A q \in Request : scan[q] \in Nat
      /\ scan \in [Request -> 0..Count]
  BY TunerAssumption DEF TunerBusy, IInv, TypeOK
<1>5. \A q \in Request : scan'[q] = IF q = r THEN k + 1 ELSE scan[q]
  BY <1>4
<1>6. ASSUME NEW i \in 0..Count, Past(i)' # {}
      PROVE  Cardinality(Past(i)') + i <= Cardinality(Request)
  <2>1. CASE i # k + 1
    <3>1. i \in Nat
      BY TunerAssumption
    <3>2. Past(i)' \subseteq Past(i)
      BY <1>1, <1>4, <1>5, <2>1, <3>1 DEF Past
    <3>3. Past(i)' \in SUBSET Past(i) /\ Past(i) \in SUBSET Request
      BY <3>2 DEF Past
    <3>4. Cardinality(Past(i)) + i <= Cardinality(Request)
      BY <1>6, <3>2 DEF IInv, PastBound
    <3>5. /\ Cardinality(Past(i)') <= Cardinality(Past(i))
          /\ Cardinality(Past(i)') \in Nat /\ Cardinality(Past(i)) \in Nat
          /\ Cardinality(Request) \in Nat
      BY <3>3, PastFinite
    <3> QED BY <3>1, <3>4, <3>5
  <2>2. CASE i = k + 1
    <3>1. h \in Past(k) /\ r \in Past(k) /\ Past(k) \in SUBSET Request
      BY <1>1, <1>2, <1>4 DEF Past, Holds
    <3>2. Past(i)' \in SUBSET (Past(k) \ {h})
      BY <1>1, <1>2, <1>3, <1>4, <1>5, <2>2 DEF Past, Holds
    <3>3. Cardinality(Past(k)) + k <= Cardinality(Request)
      BY <1>1, <3>1 DEF IInv, PastBound
    <3>4. Cardinality(Past(k) \ {h}) = Cardinality(Past(k)) - 1
      BY <3>1, TunerAssumption, FS_Subset, FS_RemoveElement
    <3>5. /\ Cardinality(Past(i)') <= Cardinality(Past(k) \ {h})
          /\ Cardinality(Past(i)') \in Nat /\ Cardinality(Past(k)) \in Nat
          /\ Cardinality(Request) \in Nat
      <4>1. Past(k) \ {h} \in SUBSET Request
        BY <3>1
      <4> QED BY <3>1, <3>2, <4>1, PastFinite
    <3> QED BY <1>1, <2>2, <3>3, <3>4, <3>5
  <2> QED BY <2>1, <2>2
<1> QED BY <1>6 DEF PastBound

-----------------------------------------------------------------------------
LEMMA InitInv == Init => IInv
<1> SUFFICES ASSUME Init PROVE IInv
  OBVIOUS
<1>1. TypeOK
  BY TunerAssumption DEF Init, NewTunerStateManager, TypeOK, TunerRecord, Idle,
     Places, Holding, Tuner
<1>2. HolderShown /\ UnheldIdle /\ ScanFromZero /\ NotRefused
  BY DEF Init, NewTunerStateManager, HolderShown, UnheldIdle, ScanFromZero,
     NotRefused, Holding
<1>3. PastBound
  BY DEF Init, PastBound, Past, Holding
<1> QED BY <1>1, <1>2, <1>3 DEF IInv

\* A request that holds no tuner, before or after.
LEMMA WaitingInv ==
    ASSUME IInv, NEW r \in Request,
           \/ \E n \in Number : Arrives(r, n)
           \/ CatalogHas(r) \/ UnknownChannel(r) \/ TunerBusy(r)
           \/ AllTunersInUse(r)
    PROVE  IInv'
<1>1. /\ tuners' = tuners /\ pc[r] \notin Holding /\ pc'[r] \notin Holding
      /\ \A q \in Request \ {r} : /\ pc'[q] = pc[q] /\ scan'[q] = scan[q]
                                  /\ number'[q] = number[q]
      /\ pc' \in [Request -> Places]
      /\ number' \in [Request -> Number \cup {NoChannel}]
  BY DEF Arrives, CatalogHas, UnknownChannel, TunerBusy, AllTunersInUse, Goto,
     Answers, Holding, Places, IInv, TypeOK
<1>2. /\ scan' \in [Request -> 0..Count]
      /\ known' \in SUBSET Number
      /\ gone' \in [Request -> BOOLEAN]
      /\ answer' \in [Request -> {0, 200, 404, 502, 503}]
  <2>1. scan \in [Request -> 0..Count] /\ 0 \in 0..Count
    BY TunerAssumption DEF IInv, TypeOK
  <2>2. scan' \in [Request -> 0..Count]
    <3>1. TunerBusy(r) => scan[r] + 1 \in 0..Count
      BY <2>1, TunerAssumption DEF TunerBusy
    <3> QED BY <2>1, <3>1 DEF Arrives, CatalogHas, UnknownChannel, TunerBusy,
               AllTunersInUse, Answers
  <2>3. known' \in SUBSET Number /\ gone' \in [Request -> BOOLEAN]
    <3>1. known \in SUBSET Number /\ gone \in [Request -> BOOLEAN]
      BY DEF IInv, TypeOK
    <3>2. /\ known' = known
          /\ gone' = gone \/ gone' = [gone EXCEPT ![r] = FALSE]
      BY DEF Arrives, CatalogHas, UnknownChannel, TunerBusy, AllTunersInUse,
         Answers
    <3>3. [gone EXCEPT ![r] = FALSE] \in [Request -> BOOLEAN]
      BY <3>1
    <3> QED BY <3>1, <3>2, <3>3
  <2>4. answer' \in [Request -> {0, 200, 404, 502, 503}]
    BY DEF Arrives, CatalogHas, UnknownChannel, TunerBusy, AllTunersInUse,
       Answers, IInv, TypeOK
  <2> QED BY <2>2, <2>3, <2>4
<1>3. TypeOK'
  BY <1>1, <1>2 DEF IInv, TypeOK
<1>4. HolderShown' /\ UnheldIdle'
  BY <1>1 DEF IInv, HolderShown, UnheldIdle, Holds
<1>5. PastBound'
  <2>1. CASE TunerBusy(r)
    BY <2>1, BoundOnPassing
  <2>2. CASE ~TunerBusy(r)
    <3>1. \A q \in Request : pc'[q] \in {"scan"} \cup Holding =>
              /\ scan'[q] = scan[q]
              /\ pc[q] \in {"scan"} \cup Holding \/ scan[q] = 0
      <4>1. pc'[r] \in {"none", "lookup"} \/ CatalogHas(r)
        BY <2>2 DEF Arrives, UnknownChannel, AllTunersInUse, Goto, Answers,
           IInv, TypeOK
      <4>2. CatalogHas(r) => scan'[r] = scan[r] /\ scan[r] = 0
        BY DEF CatalogHas, IInv, ScanFromZero
      <4> QED BY <1>1, <4>1, <4>2 DEF Holding
    <3>2. \A i \in 1..Count : Past(i)' \subseteq Past(i)
      BY <3>1, TunerAssumption DEF Past
    <3> QED BY <3>2, BoundKept DEF IInv
  <2> QED BY <2>1, <2>2
<1>6. NotRefused'
  <2>1. CASE AllTunersInUse(r)
    <3>1. Count \in Nat /\ Count \in 0..Count
      BY TunerAssumption
    <3>2. r \in Past(Count)
      BY <2>1, <3>1 DEF AllTunersInUse, Past
    <3>3. Cardinality(Past(Count)) + Count <= Cardinality(Request)
      BY <3>1, <3>2 DEF IInv, PastBound
    <3>4. Cardinality(Past(Count)) >= 1 /\ Cardinality(Past(Count)) \in Nat
          /\ Cardinality(Request) \in Nat
      <4>1. Past(Count) \in SUBSET Request
        BY DEF Past
      <4>2. Cardinality(Past(Count)) # 0
        BY <3>2, <4>1, TunerAssumption, FS_Subset, FS_EmptySet
      <4>3. Cardinality(Past(Count)) \in Nat /\ Cardinality(Request) \in Nat
        BY <4>1, PastFinite
      <4> QED BY <4>2, <4>3
    <3>5. ~(Cardinality(Request) <= Count)
      BY <3>1, <3>3, <3>4
    <3> QED BY <3>5 DEF NotRefused
  <2>2. CASE ~AllTunersInUse(r)
    <3>1. \A q \in Request : answer'[q] = 503 => answer[q] = 503
      BY <2>2 DEF Arrives, CatalogHas, UnknownChannel, TunerBusy, Answers,
         IInv, TypeOK
    <3> QED BY <3>1 DEF IInv, NotRefused
  <2> QED BY <2>1, <2>2
<1>7. ScanFromZero'
  BY <1>1 DEF Arrives, CatalogHas, UnknownChannel, TunerBusy, AllTunersInUse,
     Goto, Answers, IInv, TypeOK, ScanFromZero
<1> QED BY <1>3, <1>4, <1>5, <1>6, <1>7 DEF IInv

\* A request that has its tuner, until it gives it back.
LEMMA HoldingInv ==
    ASSUME IInv, NEW r \in Request,
           \/ Tunes(r) \/ StreamStarts(r) \/ StreamFails(r) \/ SourceEnds(r)
           \/ ClientGone(r)
    PROVE  IInv'
<1>1. /\ pc[r] \in Holding
      /\ pc'[r] \in Holding \ {"claimed"}
      /\ pc[r] = "claimed" <=> Tunes(r)
      /\ \A q \in Request \ {r} : pc'[q] = pc[q]
      /\ scan' = scan /\ number' = number /\ known' = known /\ gone' = gone
      /\ pc' \in [Request -> Places]
  BY DEF Tunes, StreamStarts, StreamFails, SourceEnds, ClientGone, Goto,
     Answers, Holding, Places, IInv, TypeOK
<1>2. /\ answer' \in [Request -> {0, 200, 404, 502, 503}]
      /\ \A q \in Request : answer'[q] = 503 => answer[q] = 503
  BY DEF Tunes, StreamStarts, StreamFails, SourceEnds, ClientGone, Answers,
     IInv, TypeOK
<1>3. \/ tuners' = tuners /\ ~Tunes(r)
      \/ SetTunerChannel(scan[r], number[r])
  BY <1>1 DEF Tunes, StreamStarts, StreamFails, SourceEnds, ClientGone, Holding
<1>4. /\ tuners' \in [Tuner -> TunerRecord]
      /\ \A i \in Tuner \ {scan[r]} : tuners'[i] = tuners[i]
      /\ tuners'[scan[r]].Status = "locked" /\ tuners'[scan[r]].Target = r
      /\ tuners'[scan[r]].Channel = number[r]
  <2>1. /\ scan[r] \in Tuner /\ number[r] \in Number \cup {NoChannel}
        /\ tuners[scan[r]].Status = "locked" /\ tuners[scan[r]].Target = r
        /\ pc[r] # "claimed" => tuners[scan[r]].Channel = number[r]
        /\ tuners \in [Tuner -> TunerRecord]
    BY <1>1 DEF IInv, HolderShown, TypeOK
  <2>2. CASE tuners' = tuners /\ ~Tunes(r)
    BY <2>1, <2>2, <1>1
  <2>3. CASE SetTunerChannel(scan[r], number[r])
    BY <2>1, <2>3 DEF SetTunerChannel, TunerRecord
  <2> QED BY <1>3, <2>2, <2>3
<1>5. TypeOK'
  BY <1>1, <1>2, <1>4 DEF IInv, TypeOK
<1>6. \A q \in Request \ {r} : pc[q] \in Holding => scan[q] # scan[r]
  BY <1>1, InvImpliesExclusive DEF OneStreamPerTuner, Holds, IInv, HolderShown
<1>7. HolderShown'
  <2>1. scan[r] \in Tuner
    BY <1>1 DEF IInv, HolderShown
  <2> QED BY <2>1, <1>1, <1>4, <1>6 DEF IInv, HolderShown
<1>8. UnheldIdle'
  BY <1>1, <1>4 DEF IInv, UnheldIdle, Holds
<1>9. PastBound'
  <2>1. \A i \in 1..Count : Past(i)' \subseteq Past(i)
    BY <1>1 DEF Past
  <2> QED BY <2>1, BoundKept DEF IInv
<1>10. ScanFromZero' /\ NotRefused'
  BY <1>1, <1>2 DEF IInv, ScanFromZero, NotRefused, Holding
<1> QED BY <1>5, <1>7, <1>8, <1>9, <1>10 DEF IInv

LEMMA TunerLockedInv ==
    ASSUME IInv, NEW r \in Request, TunerLocked(r)
    PROVE  IInv'
<1> DEFINE k == scan[r]
<1>1. /\ pc[r] = "scan" /\ k \in Tuner /\ tuners[k].Status = "idle"
      /\ k + 1 \in Nat
      /\ pc' = [pc EXCEPT ![r] = "claimed"]
      /\ LockTuner(k, k + 1, r)
      /\ UNCHANGED <<known, number, scan, gone, answer>>
  BY TunerAssumption DEF TunerLocked, CanLock, Goto, IInv, TypeOK, Tuner
<1>2. /\ tuners' \in [Tuner -> TunerRecord]
      /\ \A i \in Tuner \ {k} : tuners'[i] = tuners[i]
      /\ tuners'[k].Status = "locked" /\ tuners'[k].Target = r
  BY <1>1, SMTT(30) DEF LockTuner, IInv, TypeOK, TunerRecord
<1>3. /\ pc' \in [Request -> Places] /\ pc'[r] = "claimed"
      /\ \A q \in Request \ {r} : pc'[q] = pc[q]
  BY <1>1 DEF IInv, TypeOK, Places, Holding
<1>4. TypeOK'
  BY <1>1, <1>2, <1>3 DEF IInv, TypeOK
<1>5. HolderShown'
  <2>1. \A q \in Request : pc[q] \in Holding => scan[q] # k
    BY <1>1 DEF IInv, HolderShown
  <2> QED BY <2>1, <1>1, <1>2, <1>3 DEF IInv, HolderShown
<1>6. UnheldIdle'
  BY <1>1, <1>2, <1>3 DEF IInv, UnheldIdle, Holds, Holding
<1>7. PastBound'
  <2>1. \A i \in 1..Count : Past(i)' \subseteq Past(i)
    BY <1>1, <1>3 DEF Past
  <2> QED BY <2>1, BoundKept DEF IInv
<1>8. ScanFromZero' /\ NotRefused'
  BY <1>1, <1>3 DEF IInv, ScanFromZero, NotRefused
<1> QED BY <1>4, <1>5, <1>6, <1>7, <1>8 DEF IInv

LEMMA ReleasesInv ==
    ASSUME IInv, NEW r \in Request, Releases(r)
    PROVE  IInv'
<1> DEFINE k == scan[r]
<1>1. /\ pc[r] \in Holding /\ k \in Tuner
      /\ pc' = [pc EXCEPT ![r] = "none"]
      /\ ReleaseTuner(k)
      /\ UNCHANGED <<known, number, scan, gone, answer>>
  BY DEF Releases, Goto, Holding, IInv, HolderShown
<1>2. /\ tuners' \in [Tuner -> TunerRecord] /\ tuners'[k] = Idle
      /\ \A i \in Tuner \ {k} : tuners'[i] = tuners[i]
  BY <1>1 DEF ReleaseTuner, IInv, TypeOK, TunerRecord, Idle
<1>3. /\ pc' \in [Request -> Places] /\ pc'[r] = "none"
      /\ \A q \in Request \ {r} : pc'[q] = pc[q]
  BY <1>1 DEF IInv, TypeOK, Places
<1>4. TypeOK'
  BY <1>1, <1>2, <1>3 DEF IInv, TypeOK
<1>5. HolderShown'
  <2>1. \A q \in Request \ {r} : pc[q] \in Holding => scan[q] # k
    BY <1>1, InvImpliesExclusive DEF OneStreamPerTuner, Holds
  <2> QED BY <2>1, <1>1, <1>2, <1>3 DEF IInv, HolderShown, Holding
<1>6. UnheldIdle'
  BY <1>1, <1>2, <1>3 DEF IInv, UnheldIdle, Holds
<1>7. PastBound'
  <2>1. \A i \in 1..Count : Past(i)' \subseteq Past(i)
    BY <1>1, <1>3 DEF Past, Holding
  <2> QED BY <2>1, BoundKept DEF IInv
<1>8. ScanFromZero' /\ NotRefused'
  BY <1>1, <1>3 DEF IInv, ScanFromZero, NotRefused
<1> QED BY <1>4, <1>5, <1>6, <1>7, <1>8 DEF IInv

\* The catalog, and clients that close their connection.
LEMMA OutsideInv ==
    ASSUME IInv,
           \/ \E numbers \in SUBSET Number : RefreshCatalog(numbers)
           \/ \E r \in Request : ClientLeaves(r)
    PROVE  IInv'
<1>1. /\ UNCHANGED <<tuners, pc, number, scan, answer>>
      /\ known' \in SUBSET Number /\ gone' \in [Request -> BOOLEAN]
  <2>1. known \in SUBSET Number /\ gone \in [Request -> BOOLEAN]
    BY DEF IInv, TypeOK
  <2>2. CASE \E numbers \in SUBSET Number : RefreshCatalog(numbers)
    BY <2>1, <2>2 DEF RefreshCatalog, requestVars
  <2>3. CASE \E r \in Request : ClientLeaves(r)
    <3>1. PICK r \in Request : ClientLeaves(r)
      BY <2>3
    <3>2. [gone EXCEPT ![r] = TRUE] \in [Request -> BOOLEAN]
      BY <2>1
    <3> QED BY <2>1, <3>1, <3>2 DEF ClientLeaves
  <2> QED BY <2>2, <2>3
<1>2. TypeOK'
  BY <1>1 DEF IInv, TypeOK
<1>3. HolderShown' /\ UnheldIdle' /\ ScanFromZero' /\ NotRefused'
  BY <1>1 DEF IInv, HolderShown, UnheldIdle, ScanFromZero, NotRefused, Holds
<1>4. PastBound'
  <2>1. \A i \in 1..Count : Past(i)' \subseteq Past(i)
    BY <1>1 DEF Past
  <2> QED BY <2>1, BoundKept DEF IInv
<1> QED BY <1>2, <1>3, <1>4 DEF IInv

LEMMA NextInv == IInv /\ [Next]_vars => IInv'
<1> SUFFICES ASSUME IInv, [Next]_vars PROVE IInv'
  OBVIOUS
<1>1. CASE UNCHANGED vars
  BY <1>1 DEF vars, requestVars, IInv, TypeOK, HolderShown, UnheldIdle,
     PastBound, Past, ScanFromZero, NotRefused, Holds
<1>2. ASSUME NEW numbers \in SUBSET Number, RefreshCatalog(numbers)
      PROVE  IInv'
  BY <1>2, OutsideInv
<1>3. ASSUME NEW r \in Request, Step(r)
      PROVE  IInv'
  BY <1>3, WaitingInv, HoldingInv, TunerLockedInv, ReleasesInv, OutsideInv
     DEF Step, Handler, Acquire
<1> QED BY <1>1, <1>2, <1>3 DEF Next

\* The inductive invariant, from which the rest follows.
THEOREM StreamsInvariant == Spec => []IInv
BY InitInv, NextInv, PTL DEF Spec

(***************************************************************************)
(* Type correctness: acquireTuner never asks for a tuner the manager does  *)
(* not have, and a released index is always one that was locked.           *)
(***************************************************************************)
THEOREM TypeCorrect == Spec => []TypeOK
<1>1. IInv => TypeOK
  BY DEF IInv
<1> QED BY <1>1, StreamsInvariant, PTL

(***************************************************************************)
(* No two streams share a tuner, for every number of tuners and requests.  *)
(***************************************************************************)
THEOREM MutualExclusion == Spec => []OneStreamPerTuner
BY InvImpliesExclusive, StreamsInvariant, PTL

(***************************************************************************)
(* A busy tuner has a request that will release it, whose client and       *)
(* channel it shows, and an idle one is blank.                             *)
(***************************************************************************)
THEOREM NoTunerLost == Spec => []TunersAccountedFor
BY InvImpliesAccounted, StreamsInvariant, PTL

(***************************************************************************)
(* Requests that have come past i tuners leave i others behind, so nobody  *)
(* is refused as long as there are no more requests than tuners, whatever  *)
(* tuners change hands while a request scans them.                         *)
(***************************************************************************)
THEOREM NobodyRefused == Spec => []EnoughForAll
<1>1. IInv => EnoughForAll
  BY DEF IInv, PastBound, NotRefused, EnoughForAll
<1> QED BY <1>1, StreamsInvariant, PTL
=============================================================================
