------------------------- MODULE TunarrCatalogProofs -------------------------
(***************************************************************************)
(* Proofs about TunarrCatalog, for all lists Tunarr may answer with, every *)
(* first number, and every number of apps.                                 *)
(*                                                                         *)
(* The properties speak of the catalog after the swap; the invariants      *)
(* behind them hold of the two local variables of the loop after every     *)
(* round, and the swap carries them over.                                  *)
(***************************************************************************)
EXTENDS TunarrCatalog, TLAPS

\* The list and the index the loop is building agree after every round.
Building == Agree(newEntries, newByNumber) /\ Agree(entries, byNumber)

\* What has to be known of the control to know where health comes from.
Evidence ==
    /\ HealthHasEvidence
    /\ pc = "refreshed" => source # None
    /\ pc = "idle" => run # "check"

IInv == TypeOK /\ Building /\ Evidence

\* Own numbers: the entries made are those of the channels done.
Listed(ents, from, upTo) ==
    /\ Len(ents) = upTo
    /\ \A i \in 1..upTo :
          ents[i] = [number |-> ChannelStart + i - 1, id |-> from[i].id]

InOrder ==
    /\ pc = "number" /\ ~cfgNumbers =>
          next = ChannelStart + done /\ Listed(newEntries, channels, done)
    /\ source # None =>
          source.numbers \/ Listed(entries, source.list, Len(source.list))

\* A number below the first of the proxy's own comes from a list of Tunarr's.
FromTunarr(e) ==
    e.number < ChannelStart =>
        \E l \in Lists : \E i \in DOMAIN l :
            e.id = l[i].id /\ e.number = l[i].number

AllFromTunarr ==
    /\ next >= ChannelStart
    /\ channels # <<>> => channels \in Lists
    /\ \A i \in DOMAIN newEntries : FromTunarr(newEntries[i])
    /\ \A i \in DOMAIN entries : FromTunarr(entries[i])
    /\ GivenAsListed

-----------------------------------------------------------------------------
\* No entry has a number below zero, or a number that is none.
LEMMA NumberIsNat ==
    ASSUME TypeOK, done < Len(channels)
    PROVE  LET ch == channels[done + 1] IN
           /\ done + 1 \in DOMAIN channels
           /\ ch \in ApiChannel /\ ch.id \in Channel
           /\ GuideNumber(ch) \in Nat
           /\ [number |-> GuideNumber(ch), id |-> ch.id] \in Entry
<1>1. /\ done \in Nat /\ channels \in Seq(ApiChannel)
      /\ Len(channels) \in Nat /\ done + 1 \in 1..Len(channels)
      /\ DOMAIN channels = 1..Len(channels)
  BY DEF TypeOK
<1>2. channels[done + 1] \in ApiChannel
  BY <1>1
<1>3. GuideNumber(channels[done + 1]) \in Nat
  BY <1>2 DEF GuideNumber, OwnNumber, ApiChannel, TypeOK
<1> QED BY <1>1, <1>2, <1>3 DEF ApiChannel, Entry

\* A new entry, under a number that is not in the index, keeps the two
\* structures in agreement.
LEMMA AgreeWithOneMore ==
    ASSUME NEW ents \in Seq(Entry), NEW index, NEW e \in Entry,
           Agree(ents, index), e.number \notin DOMAIN index,
           NEW ents2, ents2 = Append(ents, e),
           NEW index2,
           index2 = [n \in DOMAIN index \cup {e.number} |->
                        IF n = e.number THEN e ELSE index[n]]
    PROVE  Agree(ents2, index2)
<1>1. /\ ents2 \in Seq(Entry) /\ Len(ents2) = Len(ents) + 1
      /\ Len(ents) \in Nat /\ DOMAIN ents = 1..Len(ents)
      /\ DOMAIN ents2 = 1..(Len(ents) + 1)
      /\ ents2[Len(ents) + 1] = e
      /\ \A i \in 1..Len(ents) : ents2[i] = ents[i]
  OBVIOUS
<1>2. /\ DOMAIN index2 = DOMAIN index \cup {e.number}
      /\ \A n \in DOMAIN index : index2[n] = index[n]
      /\ index2[e.number] = e
  OBVIOUS
<1>3. \A i \in DOMAIN ents2 :
         i = Len(ents) + 1 \/ i \in 1..Len(ents)
  BY <1>1
<1>4. \A i \in 1..Len(ents) :
         ents[i].number \in DOMAIN index /\ ents[i].number # e.number
  BY <1>1 DEF Agree
<1>5. \A i, j \in DOMAIN ents2 :
         ents2[i].number = ents2[j].number => i = j
  <2> SUFFICES ASSUME NEW i \in DOMAIN ents2, NEW j \in DOMAIN ents2,
                      ents2[i].number = ents2[j].number
               PROVE  i = j
    OBVIOUS
  <2>1. CASE i \in 1..Len(ents) /\ j \in 1..Len(ents)
    BY <1>1, <2>1 DEF Agree
  <2>2. CASE i = Len(ents) + 1 \/ j = Len(ents) + 1
    BY <1>1, <1>3, <1>4, <2>2
  <2> QED BY <1>3, <2>1, <2>2
<1>6. \A i \in DOMAIN ents2 :
         /\ ents2[i].number \in DOMAIN index2
         /\ index2[ents2[i].number] = ents2[i]
  BY <1>1, <1>2, <1>3, <1>4, SMTT(30) DEF Agree
<1>7. \A n \in DOMAIN index2 : \E i \in DOMAIN ents2 : ents2[i].number = n
  BY <1>1, <1>2 DEF Agree
<1> QED BY <1>5, <1>6, <1>7 DEF Agree

LEMMA AgreeEmpty == Agree(<<>>, NoFunction)
BY DEF Agree, NoFunction

-----------------------------------------------------------------------------
(* Type correctness, agreement and evidence *)

LEMMA InitInv == Init => IInv
<1> SUFFICES ASSUME Init PROVE IInv
  OBVIOUS
<1>1. TypeOK
  BY CatalogAssumption DEF Init, TypeOK, NoFunction
<1>2. Building
  BY AgreeEmpty DEF Init, Building
<1>3. Evidence
  BY DEF Init, Evidence, HealthHasEvidence
<1> QED BY <1>1, <1>2, <1>3 DEF IInv

LEMMA NumberChannelInv ==
    ASSUME IInv, NumberChannel
    PROVE  IInv'
<1> DEFINE ch == channels[done + 1]
           num == GuideNumber(ch)
           e == [number |-> num, id |-> ch.id]
<1>1. /\ pc = "number" /\ done < Len(channels) /\ TypeOK
      /\ done' = done + 1
      /\ next' = IF OwnNumber(ch) THEN next + 1 ELSE next
      /\ UNCHANGED <<outerVars, run, pc, cfgNumbers, channels, catalogVars,
                     health, appVars>>
  BY DEF NumberChannel, IInv
<1>2. /\ num \in Nat /\ e \in Entry /\ e.number = num
      /\ done + 1 \in 0..Len(channels)
  BY <1>1, NumberIsNat DEF TypeOK
<1>3. CASE num \in DOMAIN newByNumber
  <2>1. newEntries' = newEntries /\ newByNumber' = newByNumber
    BY <1>3 DEF NumberChannel
  <2>2. TypeOK'
    BY <1>1, <1>2, <2>1 DEF TypeOK, outerVars, catalogVars, appVars
  <2>3. Building' /\ Evidence'
    BY <1>1, <2>1 DEF IInv, Building, Agree, Evidence, HealthHasEvidence,
                      outerVars, catalogVars
  <2> QED BY <2>2, <2>3 DEF IInv
<1>4. CASE num \notin DOMAIN newByNumber
  <2>1. /\ newEntries' = Append(newEntries, e)
        /\ newByNumber' = [n \in DOMAIN newByNumber \cup {num} |->
                              IF n = num THEN e ELSE newByNumber[n]]
    BY <1>4 DEF NumberChannel
  <2> HIDE DEF num, e
  <2>2. /\ newEntries' \in Seq(Entry)
        /\ DOMAIN newByNumber' \subseteq Nat
        /\ \A n \in DOMAIN newByNumber' : newByNumber'[n] \in Entry
    BY <1>1, <1>2, <2>1 DEF TypeOK
  <2>3. TypeOK'
    BY <1>1, <1>2, <2>2 DEF TypeOK, outerVars, catalogVars, appVars
  <2>4. Agree(newEntries', newByNumber')
    <3>1. newEntries \in Seq(Entry) /\ Agree(newEntries, newByNumber)
      BY DEF IInv, Building, TypeOK
    <3>2. /\ newEntries' = Append(newEntries, e)
          /\ newByNumber' =
                [n \in DOMAIN newByNumber \cup {e.number} |->
                    IF n = e.number THEN e ELSE newByNumber[n]]
      BY <1>2, <2>1
    <3>3. e \in Entry /\ e.number \notin DOMAIN newByNumber
      BY <1>2, <1>4
    <3> QED BY <3>1, <3>2, <3>3, AgreeWithOneMore, ZenonT(60)
  <2>5. Building'
    BY <1>1, <2>4 DEF IInv, Building, Agree, catalogVars
  <2>6. Evidence'
    BY <1>1 DEF IInv, Evidence, HealthHasEvidence, outerVars, catalogVars
  <2> QED BY <2>3, <2>5, <2>6 DEF IInv
<1> QED BY <1>3, <1>4

LEMMA AppInv ==
    ASSUME IInv, NEW a \in App, FetchLineup(a) \/ Tune(a)
    PROVE  IInv'
<1>1. /\ run = "serve"
      /\ UNCHANGED <<outerVars, run, pc, refreshVars, catalogVars, health>>
  BY DEF FetchLineup, Tune
<1>2. Building' /\ Evidence'
  BY <1>1 DEF IInv, Building, Agree, Evidence, HealthHasEvidence,
              outerVars, refreshVars, catalogVars
<1>3. /\ lineup' \in [App -> Seq(Entry) \cup {None}]
      /\ tuned' \in [App -> [asked : Entry, given : Channel \cup {None}]
                            \cup {None}]
  <2>1. CASE FetchLineup(a)
    BY <2>1 DEF FetchLineup, IInv, TypeOK
  <2>2. CASE Tune(a)
    <3>1. PICK i \in DOMAIN lineup[a] :
             tuned' = [tuned EXCEPT ![a] =
                 [asked |-> lineup[a][i],
                  given |-> IF lineup[a][i].number \in DOMAIN byNumber
                            THEN byNumber[lineup[a][i].number].id ELSE None]]
      BY <2>2 DEF Tune
    <3>2. lineup[a] \in Seq(Entry) /\ lineup[a][i] \in Entry
      BY <2>2, <3>1 DEF Tune, IInv, TypeOK
    <3>3. \A n \in DOMAIN byNumber : byNumber[n].id \in Channel
      BY DEF IInv, TypeOK, Entry
    <3>4. lineup' = lineup
      BY <2>2 DEF Tune
    <3> QED BY <3>1, <3>2, <3>3, <3>4 DEF IInv, TypeOK
  <2> QED BY <2>1, <2>2
<1>4. TypeOK'
  BY <1>1, <1>3 DEF IInv, TypeOK, outerVars, refreshVars, catalogVars
<1> QED BY <1>2, <1>4 DEF IInv

LEMMA StepInv == IInv /\ [Next]_vars => IInv'
<1> SUFFICES ASSUME IInv, [Next]_vars PROVE IInv'
  OBVIOUS
<1> USE DEF outerVars, refreshVars, catalogVars, appVars
<1>1. CASE FetchOk
  <2>1. TypeOK'
    BY <1>1, CatalogAssumption DEF FetchOk, IInv, TypeOK, NoFunction
  <2>2. Agree(newEntries', newByNumber')
    BY <1>1, AgreeEmpty DEF FetchOk
  <2>3. Building' /\ Evidence'
    BY <1>1, <2>2
    DEF FetchOk, IInv, Building, Agree, Evidence, HealthHasEvidence
  <2> QED BY <2>1, <2>3 DEF IInv
<1>2. CASE FetchFails
  BY <1>2 DEF FetchFails, IInv, TypeOK, Building, Agree, Evidence,
              HealthHasEvidence
<1>3. CASE NumberChannel
  BY <1>3, NumberChannelInv
<1>4. CASE SwapCatalog
  <2>1. source' # None
    BY <1>4, CatalogAssumption DEF SwapCatalog, IInv, TypeOK, Source
  <2>2. Building' /\ Evidence'
    BY <1>4, <2>1
    DEF SwapCatalog, IInv, Building, Agree, Evidence, HealthHasEvidence
  <2>3. TypeOK'
    BY <1>4 DEF SwapCatalog, IInv, TypeOK, Source
  <2> QED BY <2>2, <2>3 DEF IInv
<1>5. CASE RecordOk
  BY <1>5 DEF RecordOk, IInv, TypeOK, Building, Agree, Evidence,
              HealthHasEvidence
<1>6. CASE RecordFail
  BY <1>6 DEF RecordFail, IInv, TypeOK, Building, Agree, Evidence,
              HealthHasEvidence
<1>7. CASE Tick
  BY <1>7 DEF Tick, IInv, TypeOK, Building, Agree, Evidence,
              HealthHasEvidence
<1>8. CASE Restart
  <2>1. TypeOK'
    BY <1>8, CatalogAssumption DEF Restart, IInv, TypeOK, NoFunction
  <2>2. Building'
    BY <1>8, AgreeEmpty DEF Restart, Building
  <2>3. Evidence'
    BY <1>8 DEF Restart, Evidence, HealthHasEvidence
  <2> QED BY <2>1, <2>2, <2>3 DEF IInv
<1>9. CASE Edit \/ SaveNumbers
  <2>1. TypeOK'
    BY <1>9 DEF Edit, SaveNumbers, IInv, TypeOK
  <2>2. Building' /\ Evidence'
    BY <1>9 DEF Edit, SaveNumbers, IInv, Building, Agree, Evidence,
                HealthHasEvidence
  <2> QED BY <2>1, <2>2 DEF IInv
<1>10. CASE \E a \in App : FetchLineup(a) \/ Tune(a)
  BY <1>10, AppInv
<1>11. CASE UNCHANGED vars
  BY <1>11 DEF vars, IInv, TypeOK, Building, Agree, Evidence,
               HealthHasEvidence
<1> QED
  BY <1>1, <1>2, <1>3, <1>4, <1>5, <1>6, <1>7, <1>8, <1>9, <1>10, <1>11
  DEF Next, Watcher, Disturbance

(***************************************************************************)
(* Every state of the catalog and its watcher satisfies the inductive      *)
(* invariant (tunarr_catalog.go:63-105, backend_router.go:133-155).        *)
(***************************************************************************)
THEOREM CatalogInvariant == Spec => []IInv
BY InitInv, StepInv, PTL DEF Spec

(* The catalog, the health and the loop's variables are well-formed.       *)
THEOREM TypeCorrect == Spec => []TypeOK
<1>1. IInv => TypeOK
  BY DEF IInv
<1> QED BY <1>1, CatalogInvariant, PTL

(***************************************************************************)
(* The lineup and the index of RefreshCatalog agree, and no guide number   *)
(* is listed twice, whatever numbers Tunarr sends                          *)
(* (tunarr_catalog.go:72-100).                                             *)
(***************************************************************************)
THEOREM ListedIsPlayable == Spec => []LineupPlayable
<1>1. IInv => LineupPlayable
  BY DEF IInv, Building, LineupPlayable
<1> QED BY <1>1, CatalogInvariant, PTL

(***************************************************************************)
(* Tunarr is not shown as healthy, and nothing is served, without the      *)
(* check and the catalog it takes (backend_router.go:133, app_proxy.go:48).*)
(***************************************************************************)
THEOREM EvidenceForHealth == Spec => []HealthHasEvidence
<1>1. IInv => HealthHasEvidence
  BY DEF IInv, Evidence
<1> QED BY <1>1, CatalogInvariant, PTL
-----------------------------------------------------------------------------
(* The proxy's own numbers *)

LEMMA InitOrder == Init => InOrder
BY CatalogAssumption DEF Init, InOrder, Listed

LEMMA NumberChannelOrder ==
    ASSUME IInv, InOrder, NumberChannel, ~cfgNumbers
    PROVE  /\ next' = ChannelStart + done'
           /\ Listed(newEntries', channels', done')
<1> DEFINE ch == channels[done + 1]
           e == [number |-> next, id |-> ch.id]
<1>1. /\ OwnNumber(ch) /\ GuideNumber(ch) = next
      /\ TypeOK /\ done < Len(channels)
  BY DEF OwnNumber, GuideNumber, NumberChannel, IInv
<1>2. /\ done \in Nat /\ next = ChannelStart + done /\ ChannelStart \in Nat
      /\ newEntries \in Seq(Entry) /\ Len(newEntries) = done
      /\ \A i \in 1..done : newEntries[i] =
            [number |-> ChannelStart + i - 1, id |-> channels[i].id]
  BY <1>1, CatalogAssumption DEF TypeOK, InOrder, Listed, NumberChannel
<1>3. next \notin DOMAIN newByNumber
  <2> SUFFICES ASSUME next \in DOMAIN newByNumber PROVE FALSE
    OBVIOUS
  <2>1. PICK i \in DOMAIN newEntries : newEntries[i].number = next
    BY DEF IInv, Building, Agree
  <2>2. i \in 1..done /\ newEntries[i].number = ChannelStart + i - 1
    BY <1>2, <2>1
  <2> QED BY <1>2, <2>1, <2>2
<1>4. /\ next' = next + 1 /\ done' = done + 1 /\ channels' = channels
      /\ newEntries' = Append(newEntries, e)
  BY <1>1, <1>3 DEF NumberChannel
<1>5. e \in Entry
  BY <1>1, NumberIsNat
<1>6. /\ Len(newEntries') = done + 1
      /\ newEntries'[done + 1] = e
      /\ \A i \in 1..done : newEntries'[i] = newEntries[i]
  <2> HIDE DEF e
  <2> QED BY <1>2, <1>4, <1>5
<1>7. next' = ChannelStart + done'
  BY <1>2, <1>4
<1>8. ASSUME NEW i \in 1..done'
      PROVE  newEntries'[i] =
                [number |-> ChannelStart + i - 1, id |-> channels'[i].id]
  <2>1. i \in 1..done \/ i = done + 1
    BY <1>2, <1>4
  <2>2. CASE i \in 1..done
    BY <1>2, <1>4, <1>6, <2>2
  <2>3. CASE i = done + 1
    <3>1. ChannelStart + i - 1 = next
      BY <1>2, <2>3
    <3> QED BY <1>4, <1>6, <2>3, <3>1
  <2> QED BY <2>1, <2>2, <2>3
<1> QED BY <1>4, <1>6, <1>7, <1>8 DEF Listed

LEMMA StepOrder == IInv /\ InOrder /\ [Next]_vars => InOrder'
<1> SUFFICES ASSUME IInv, InOrder, [Next]_vars PROVE InOrder'
  OBVIOUS
<1> USE DEF outerVars, refreshVars, catalogVars, appVars
<1>1. CASE FetchOk \/ Restart
  <2>1. /\ next' = ChannelStart /\ done' = 0 /\ newEntries' = <<>>
        /\ source' = None \/ UNCHANGED <<entries, source>>
    BY <1>1 DEF FetchOk, Restart
  <2>2. next' = ChannelStart + done' /\ Listed(newEntries', channels', done')
    BY <2>1, CatalogAssumption DEF Listed
  <2> QED BY <2>1, <2>2 DEF InOrder, Listed
<1>2. CASE NumberChannel
  <2>1. UNCHANGED <<pc, cfgNumbers, entries, source>>
    BY <1>2 DEF NumberChannel
  <2> QED BY <1>2, <2>1, NumberChannelOrder DEF InOrder, Listed
<1>3. CASE SwapCatalog
  BY <1>3 DEF SwapCatalog, InOrder, Listed
<1>4. CASE \/ FetchFails \/ RecordOk \/ RecordFail \/ Tick
  <2>1. UNCHANGED catalogVars /\ pc' # "number"
    BY <1>4 DEF FetchFails, RecordOk, RecordFail, Tick
  <2> QED BY <2>1 DEF InOrder, Listed
<1>5. CASE \/ Edit \/ SaveNumbers \/ UNCHANGED vars
           \/ \E a \in App : FetchLineup(a) \/ Tune(a)
  <2>1. UNCHANGED <<pc, refreshVars, catalogVars>>
    BY <1>5 DEF Edit, SaveNumbers, vars, FetchLineup, Tune
  <2> QED BY <2>1 DEF InOrder, Listed
<1> QED BY <1>1, <1>2, <1>3, <1>4, <1>5 DEF Next, Watcher, Disturbance

(***************************************************************************)
(* A catalog made with the proxy's own numbers lists every one of Tunarr's *)
(* channels, in order, under consecutive numbers                           *)
(* (tunarr_catalog.go:74-87).                                              *)
(***************************************************************************)
THEOREM EveryChannelListed == Spec => []NothingDropped
<1>1. IInv /\ InOrder => NothingDropped
  <2> SUFFICES ASSUME IInv, InOrder, source # None, ~source.numbers
               PROVE  /\ Len(entries) = Len(source.list)
                      /\ \A i \in DOMAIN entries :
                            entries[i] = [number |-> ChannelStart + i - 1,
                                          id |-> source.list[i].id]
    BY DEF NothingDropped
  <2>1. entries \in Seq(Entry) /\ DOMAIN entries = 1..Len(entries)
    BY DEF IInv, TypeOK
  <2> QED BY <2>1 DEF InOrder, Listed
<1>2. Spec => []InOrder
  BY InitInv, StepInv, InitOrder, StepOrder, PTL DEF Spec
<1> QED BY <1>1, <1>2, CatalogInvariant, PTL

-----------------------------------------------------------------------------
(* Tunarr's numbers *)

LEMMA InitFromTunarr == Init => AllFromTunarr
<1> SUFFICES ASSUME Init PROVE AllFromTunarr
  OBVIOUS
<1> QED
  BY CatalogAssumption DEF Init, AllFromTunarr, GivenAsListed

LEMMA NumberChannelFromTunarr ==
    ASSUME IInv, AllFromTunarr, NumberChannel
    PROVE  /\ next' >= ChannelStart
           /\ \A i \in DOMAIN newEntries' : FromTunarr(newEntries'[i])
<1> DEFINE ch == channels[done + 1]
           e == [number |-> GuideNumber(ch), id |-> ch.id]
<1>1. /\ TypeOK /\ done < Len(channels) /\ newEntries \in Seq(Entry)
      /\ next \in Nat /\ ChannelStart \in Nat /\ next >= ChannelStart
      /\ \A i \in DOMAIN newEntries : FromTunarr(newEntries[i])
  BY CatalogAssumption DEF NumberChannel, IInv, TypeOK, AllFromTunarr
<1>2. done + 1 \in DOMAIN channels /\ e \in Entry
  BY <1>1, NumberIsNat
<1>3. channels \in Lists
  BY <1>2 DEF AllFromTunarr
<1>4. FromTunarr(e)
  <2>1. CASE OwnNumber(ch)
    <3>1. e.number = next
      BY <2>1 DEF GuideNumber
    <3> QED BY <1>1, <3>1 DEF FromTunarr
  <2>2. CASE ~OwnNumber(ch)
    <3>1. e.id = ch.id /\ e.number = ch.number
      BY <2>2 DEF GuideNumber
    <3> QED BY <1>2, <1>3, <3>1 DEF FromTunarr
  <2> QED BY <2>1, <2>2
<1>5. /\ next' = next \/ next' = next + 1
      /\ newEntries' = newEntries \/ newEntries' = Append(newEntries, e)
  BY DEF NumberChannel
<1> HIDE DEF e
<1>6. CASE newEntries' = Append(newEntries, e)
  <2>1. /\ DOMAIN newEntries' = 1..(Len(newEntries) + 1)
        /\ DOMAIN newEntries = 1..Len(newEntries) /\ Len(newEntries) \in Nat
        /\ newEntries'[Len(newEntries) + 1] = e
        /\ \A i \in 1..Len(newEntries) : newEntries'[i] = newEntries[i]
    BY <1>1, <1>2, <1>6
  <2> QED BY <1>1, <1>4, <1>5, <2>1
<1> QED BY <1>1, <1>5, <1>6

LEMMA TuneAsListed ==
    ASSUME IInv, AllFromTunarr, NEW a \in App, Tune(a)
    PROVE  GivenAsListed'
<1>1. PICK i \in DOMAIN lineup[a] :
         tuned' = [tuned EXCEPT ![a] =
             [asked |-> lineup[a][i],
              given |-> IF lineup[a][i].number \in DOMAIN byNumber
                        THEN byNumber[lineup[a][i].number].id ELSE None]]
  BY DEF Tune
<1> DEFINE e == lineup[a][i]
<1>2. ASSUME Owned(e), e.number \in DOMAIN byNumber
      PROVE  byNumber[e.number].id = e.id
  <2>1. PICK j \in DOMAIN entries : entries[j].number = e.number
    BY <1>2 DEF IInv, Building, Agree
  <2>2. byNumber[e.number] = entries[j] /\ FromTunarr(entries[j])
    BY <2>1 DEF IInv, Building, Agree, AllFromTunarr
  <2>3. entries[j].number < ChannelStart
    BY <1>2, <2>1 DEF Owned
  <2>4. PICK l \in Lists : \E k \in DOMAIN l :
           entries[j].id = l[k].id /\ entries[j].number = l[k].number
    BY <2>2, <2>3 DEF FromTunarr
  <2> QED BY <1>2, <2>1, <2>2, <2>4 DEF Owned
<1>3. \A b \in App : tuned[b] # None /\ Owned(tuned[b].asked) =>
         tuned[b].given \in {tuned[b].asked.id, None}
  BY DEF AllFromTunarr, GivenAsListed
<1>4. \A b \in App : tuned'[b] # None /\ Owned(tuned'[b].asked) =>
         tuned'[b].given \in {tuned'[b].asked.id, None}
  BY <1>1, <1>2, <1>3 DEF IInv, TypeOK
<1> QED BY <1>4 DEF GivenAsListed, Owned

LEMMA StepFromTunarr == IInv /\ AllFromTunarr /\ [Next]_vars => AllFromTunarr'
<1> SUFFICES ASSUME IInv, AllFromTunarr, [Next]_vars
             PROVE  /\ next' >= ChannelStart
                    /\ channels' # <<>> => channels' \in Lists
                    /\ \A i \in DOMAIN newEntries' : FromTunarr(newEntries'[i])
                    /\ \A i \in DOMAIN entries' : FromTunarr(entries'[i])
                    /\ GivenAsListed'
  BY DEF AllFromTunarr, FromTunarr
<1>0. /\ next >= ChannelStart
      /\ channels # <<>> => channels \in Lists
      /\ \A i \in DOMAIN newEntries : FromTunarr(newEntries[i])
      /\ \A i \in DOMAIN entries : FromTunarr(entries[i])
      /\ GivenAsListed
  BY DEF AllFromTunarr
<1>1. tuned' = tuned => GivenAsListed'
  BY <1>0 DEF GivenAsListed, Owned
<1> USE DEF catalogVars, refreshVars, appVars
<1>2. CASE FetchOk
  BY <1>0, <1>1, <1>2, CatalogAssumption DEF FetchOk, IInv, TypeOK
<1>3. CASE NumberChannel
  BY <1>0, <1>1, <1>3, NumberChannelFromTunarr DEF NumberChannel
<1>4. CASE SwapCatalog
  BY <1>0, <1>1, <1>4 DEF SwapCatalog
<1>5. CASE Restart
  BY <1>0, <1>1, <1>5, CatalogAssumption DEF Restart
<1>6. ASSUME NEW a \in App, FetchLineup(a)
      PROVE  UNCHANGED <<refreshVars, catalogVars>> /\ GivenAsListed'
  BY <1>0, <1>6 DEF FetchLineup, GivenAsListed, Owned, IInv, TypeOK
<1>7. ASSUME NEW a \in App, Tune(a)
      PROVE  UNCHANGED <<refreshVars, catalogVars>> /\ GivenAsListed'
  BY <1>7, TuneAsListed DEF Tune
<1>8. CASE \E a \in App : FetchLineup(a) \/ Tune(a)
  BY <1>0, <1>6, <1>7, <1>8
<1>9. CASE \/ FetchFails \/ RecordOk \/ RecordFail \/ Tick \/ Edit
           \/ SaveNumbers \/ UNCHANGED vars
  <2>1. UNCHANGED <<next, channels, newEntries, entries, tuned>>
    BY <1>9 DEF FetchFails, RecordOk, RecordFail, Tick, Edit, SaveNumbers,
                vars
  <2> QED BY <1>0, <1>1, <2>1
<1> QED
  BY <1>2, <1>3, <1>4, <1>5, <1>8, <1>9 DEF Next, Watcher, Disturbance

(***************************************************************************)
(* An app that tunes by a lineup it fetched at any time gets the channel   *)
(* it saw there or a 404, for a number that Tunarr gives to one channel    *)
(* only and the proxy does not give away, whatever was edited, saved or    *)
(* restarted since (tunarr_catalog.go:76-83, hdhr_endpoints.go:243).       *)
(***************************************************************************)
THEOREM SameChannelOrNone == Spec => []GivenAsListed
<1>1. AllFromTunarr => GivenAsListed
  BY DEF AllFromTunarr
<1>2. Spec => []AllFromTunarr
  BY InitInv, StepInv, InitFromTunarr, StepFromTunarr, PTL DEF Spec
<1> QED BY <1>1, <1>2, PTL
=============================================================================
