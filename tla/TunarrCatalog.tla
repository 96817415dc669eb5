---------------------------- MODULE TunarrCatalog ----------------------------
(***************************************************************************)
(* The Tunarr channel catalog (tunarr_catalog.go) and the goroutine that   *)
(* keeps it and Tunarr's health current (backend_router.go): the check Run *)
(* makes before anything is served, then watchTunarr, one check per tick.  *)
(* The numbering loop of RefreshCatalog is one step per channel; its       *)
(* variables are local to the goroutine until the catalog is swapped.      *)
(* Apps fetch the lineup and later tune by a guide number they saw in it;  *)
(* the web UI may change which numbers are used at any time, and each      *)
(* check goes by the config of the moment it starts.                       *)
(*                                                                         *)
(* A channel of Tunarr's list is its id and its number, NoNumber if it has *)
(* none; the channels parseTunarrChannels drops are not in the list, and   *)
(* names and stream URLs belong to the id.                                 *)
(***************************************************************************)
EXTENDS Integers, Sequences, FiniteSets

CONSTANTS
    Channel,            \* Tunarr's channel ids
    NoNumber,
    Lists,              \* the channel lists Tunarr may answer with
    ChannelStart,       \* cfg.TunarrChannelStart()
    App,
    None

ApiChannel == [id : Channel, number : Nat \cup {NoNumber}]
Entry == [number : Nat, id : Channel]
Source == [list : Seq(ApiChannel), numbers : BOOLEAN]

ASSUME CatalogAssumption ==
    /\ NoNumber \notin Nat
    /\ Lists \subseteq Seq(ApiChannel) /\ Lists # {}
    /\ ChannelStart \in Nat
    /\ None \notin Source /\ None \notin Seq(Entry) /\ None \notin Channel

VARIABLES
    list,           \* Tunarr's channels now
    useTunarrNumbers,   \* the setting in the config store
    useTunarrOnly,  \* br.useTunarrOnly
    run,            \* where Run is
    pc,             \* where checkTunarr is
    cfgNumbers,     \* the setting in the config it was called with
    channels,       \* RefreshCatalog: the list it fetched,
    done,           \* how many of them it has numbered,
    next,           \* the next number of its own,
    newEntries, newByNumber,
    entries, byNumber,      \* tb.catalog
    source,         \* history: the list and setting it was made from
    health,         \* tunarrHealth.State
    lineup,         \* the lineup each app fetched last
    tuned           \* what it asked for, and the channel it was given

outerVars == <<list, useTunarrNumbers, useTunarrOnly>>
refreshVars == <<cfgNumbers, channels, done, next, newEntries, newByNumber>>
catalogVars == <<entries, byNumber, source>>
appVars == <<lineup, tuned>>
vars == <<outerVars, run, pc, refreshVars, catalogVars, health, appVars>>

NoFunction == [n \in {} |-> None]

Init ==
    /\ list \in Lists
    /\ useTunarrNumbers \in BOOLEAN /\ useTunarrOnly \in BOOLEAN
    /\ run = "check" /\ pc = "fetch" /\ cfgNumbers = useTunarrNumbers
    /\ channels = <<>> /\ done = 0 /\ next = ChannelStart
    /\ newEntries = <<>> /\ newByNumber = NoFunction
    /\ entries = <<>> /\ byNumber = NoFunction /\ source = None
    /\ health = "unknown"
    /\ lineup = [a \in App |-> None]
    /\ tuned = [a \in App |-> None]

-----------------------------------------------------------------------------
(* RefreshCatalog *)

\* Mutant of FetchOk: the loop goes on where it ended the last time.
FetchOkResumes ==
    /\ pc = "fetch"
    /\ channels' = list
    /\ pc' = "number"
    /\ UNCHANGED <<outerVars, run, cfgNumbers, done, next, newEntries,
                   newByNumber, catalogVars, health, appVars>>

\* Mutant of FetchOk: the proxy's own numbers start at 1.
FetchOkFromOne ==
    /\ pc = "fetch"
    /\ channels' = list
    /\ done' = 0 /\ next' = 1
    /\ newEntries' = <<>> /\ newByNumber' = NoFunction
    /\ pc' = "number"
    /\ UNCHANGED <<outerVars, run, cfgNumbers, catalogVars, health, appVars>>

FetchOk ==
    /\ pc = "fetch"
    /\ channels' = list
    /\ done' = 0 /\ next' = ChannelStart
    /\ newEntries' = <<>> /\ newByNumber' = NoFunction
    /\ pc' = "number"
    /\ UNCHANGED <<outerVars, run, cfgNumbers, catalogVars, health, appVars>>

\* Mutant of FetchFails: the catalog is dropped.
FetchFailsEmpties ==
    /\ pc = "fetch"
    /\ entries' = <<>> /\ byNumber' = NoFunction
    /\ pc' = "failed"
    /\ UNCHANGED <<outerVars, run, refreshVars, source, health, appVars>>

\* No answer within the timeout, an error status, or JSON it cannot read.
FetchFails ==
    /\ pc = "fetch"
    /\ pc' = "failed"
    /\ UNCHANGED <<outerVars, run, refreshVars, catalogVars, health, appVars>>

OwnNumber(ch) == ~cfgNumbers \/ ch.number = NoNumber

GuideNumber(ch) == IF OwnNumber(ch) THEN next ELSE ch.number

\* Mutant of NumberChannel: duplicates are not skipped.
NumberChannelTwice ==
    /\ pc = "number" /\ done < Len(channels)
    /\ LET ch == channels[done + 1]
           num == GuideNumber(ch)
           e == [number |-> num, id |-> ch.id]
       IN  /\ next' = IF OwnNumber(ch) THEN next + 1 ELSE next
           /\ newEntries' = Append(newEntries, e)
           /\ newByNumber' = [n \in DOMAIN newByNumber \cup {num} |->
                                 IF n = num THEN e ELSE newByNumber[n]]
    /\ done' = done + 1
    /\ UNCHANGED <<outerVars, run, pc, cfgNumbers, channels, catalogVars,
                   health, appVars>>

\* One round of the loop; the first channel with a number gets it.
NumberChannel ==
    /\ pc = "number" /\ done < Len(channels)
    /\ LET ch == channels[done + 1]
           num == GuideNumber(ch)
           e == [number |-> num, id |-> ch.id]
       IN  /\ next' = IF OwnNumber(ch) THEN next + 1 ELSE next
           /\ IF num \in DOMAIN newByNumber
              THEN UNCHANGED <<newEntries, newByNumber>>
              ELSE /\ newEntries' = Append(newEntries, e)
                   /\ newByNumber' = [n \in DOMAIN newByNumber \cup {num} |->
                                         IF n = num THEN e ELSE newByNumber[n]]
    /\ done' = done + 1
    /\ UNCHANGED <<outerVars, run, pc, cfgNumbers, channels, catalogVars,
                   health, appVars>>

\* Under catalog.mu: readers see the old catalog or the new one.
SwapCatalog ==
    /\ pc = "number" /\ done = Len(channels)
    /\ entries' = newEntries /\ byNumber' = newByNumber
    /\ source' = [list |-> channels, numbers |-> cfgNumbers]
    /\ pc' = "refreshed"
    /\ UNCHANGED <<outerVars, run, refreshVars, health, appVars>>

-----------------------------------------------------------------------------
(* checkTunarr, Run and watchTunarr *)

RecordOk ==
    /\ pc = "refreshed"
    /\ health' = "ok"
    /\ pc' = "idle"
    /\ run' = "serve"
    /\ UNCHANGED <<outerVars, refreshVars, catalogVars, appVars>>

\* Mutant of RecordFail: the proxy starts without its only backend.
RecordFailServes ==
    /\ pc = "failed"
    /\ health' = "fail"
    /\ pc' = "idle"
    /\ run' = "serve"
    /\ UNCHANGED <<outerVars, refreshVars, catalogVars, appVars>>

\* The first check is required to succeed when there is nothing but Tunarr.
RecordFail ==
    /\ pc = "failed"
    /\ health' = "fail"
    /\ pc' = "idle"
    /\ run' = IF run = "check" /\ useTunarrOnly THEN "exited" ELSE "serve"
    /\ UNCHANGED <<outerVars, refreshVars, catalogVars, appVars>>

\* Mutant of Tick: a failed check is not tried again.
TickHealthy ==
    /\ run = "serve" /\ pc = "idle" /\ health = "ok"
    /\ pc' = "fetch" /\ cfgNumbers' = useTunarrNumbers
    /\ UNCHANGED <<outerVars, run, channels, done, next, newEntries,
                   newByNumber, catalogVars, health, appVars>>

Tick ==
    /\ run = "serve" /\ pc = "idle"
    /\ pc' = "fetch" /\ cfgNumbers' = useTunarrNumbers
    /\ UNCHANGED <<outerVars, run, channels, done, next, newEntries,
                   newByNumber, catalogVars, health, appVars>>

Watcher ==
    FetchOk \/ NumberChannel \/ SwapCatalog \/ RecordOk \/ RecordFail \/ Tick

\* The process stops and is started again, perhaps with another config; the
\* catalog is not stored.
Restart ==
    /\ useTunarrNumbers' \in BOOLEAN /\ useTunarrOnly' \in BOOLEAN
    /\ run' = "check" /\ pc' = "fetch" /\ cfgNumbers' = useTunarrNumbers'
    /\ channels' = <<>> /\ done' = 0 /\ next' = ChannelStart
    /\ newEntries' = <<>> /\ newByNumber' = NoFunction
    /\ entries' = <<>> /\ byNumber' = NoFunction /\ source' = None
    /\ health' = "unknown"
    /\ UNCHANGED <<list, appVars>>

-----------------------------------------------------------------------------
\* The web UI saves the other setting.
SaveNumbers ==
    /\ run # "exited"
    /\ useTunarrNumbers' = ~useTunarrNumbers
    /\ UNCHANGED <<list, useTunarrOnly, run, pc, refreshVars, catalogVars,
                   health, appVars>>

\* Someone edits Tunarr's channels.
Edit ==
    /\ list' \in Lists \ {list}
    /\ UNCHANGED <<useTunarrNumbers, useTunarrOnly, run, pc, refreshVars,
                   catalogVars, health, appVars>>

\* handleLineup
FetchLineup(a) ==
    /\ run = "serve"
    /\ lineup' = [lineup EXCEPT ![a] = entries]
    /\ tuned' = [tuned EXCEPT ![a] = None]
    /\ UNCHANGED <<outerVars, run, pc, refreshVars, catalogVars, health>>

\* handleStream for the number of an entry of the lineup the app has: None
\* stands for 404.
Tune(a) ==
    /\ run = "serve" /\ lineup[a] # None
    /\ \E i \in DOMAIN lineup[a] :
          tuned' = [tuned EXCEPT ![a] =
              [asked |-> lineup[a][i],
               given |-> IF lineup[a][i].number \in DOMAIN byNumber
                         THEN byNumber[lineup[a][i].number].id ELSE None]]
    /\ UNCHANGED <<outerVars, run, pc, refreshVars, catalogVars, health,
                   lineup>>

Disturbance == FetchFails \/ Restart \/ Edit

Next ==
    \/ Watcher \/ Disturbance \/ SaveNumbers
    \/ \E a \in App : FetchLineup(a) \/ Tune(a)

Spec == Init /\ [][Next]_vars

\* The goroutine runs and its ticker ticks.
FairSpec == Spec /\ WF_vars(Watcher)

-----------------------------------------------------------------------------
TypeOK ==
    /\ list \in Lists
    /\ {useTunarrNumbers, useTunarrOnly, cfgNumbers} \subseteq BOOLEAN
    /\ run \in {"check", "serve", "exited"}
    /\ pc \in {"idle", "fetch", "number", "refreshed", "failed"}
    /\ run = "exited" => pc = "idle"
    /\ channels \in Seq(ApiChannel)
    /\ done \in 0..Len(channels)
    /\ next \in Nat
    /\ newEntries \in Seq(Entry) /\ entries \in Seq(Entry)
    /\ \A f \in {newByNumber, byNumber} :
          DOMAIN f \subseteq Nat /\ \A n \in DOMAIN f : f[n] \in Entry
    /\ source \in Source \cup {None}
    /\ health \in {"unknown", "ok", "fail"}
    /\ lineup \in [App -> Seq(Entry) \cup {None}]
    /\ tuned \in [App -> [asked : Entry, given : Channel \cup {None}]
                         \cup {None}]

(***************************************************************************)
(* What is listed can be played: Entries and Get, two structures built in  *)
(* one loop, agree, and no guide number is listed twice, whatever numbers  *)
(* Tunarr sends and however they meet the proxy's own                      *)
(* (tunarr_catalog.go:72-100).                                             *)
(***************************************************************************)
Agree(ents, index) ==
    /\ \A i, j \in DOMAIN ents : ents[i].number = ents[j].number => i = j
    /\ \A i \in DOMAIN ents :
          ents[i].number \in DOMAIN index /\ index[ents[i].number] = ents[i]
    /\ \A n \in DOMAIN index : \E i \in DOMAIN ents : ents[i].number = n

LineupPlayable == Agree(entries, byNumber)

(***************************************************************************)
(* Numbering channels itself, the proxy lists every one of Tunarr's, in    *)
(* order, under consecutive numbers, even when the setting is saved while  *)
(* the list is fetched, and through refreshes that fail: "a Tunarr blip    *)
(* doesn't empty the lineup" (tunarr_catalog.go:61, 74-87).                *)
(***************************************************************************)
NothingDropped ==
    source # None => source.numbers \/
        /\ Len(entries) = Len(source.list)
        /\ \A i \in DOMAIN entries :
              entries[i] = [number |-> ChannelStart + i - 1,
                            id |-> source.list[i].id]

(***************************************************************************)
(* The UIs never show a backend as healthy without evidence                *)
(* (backend_router.go:23): Tunarr is "ok" only with a catalog fetched from *)
(* it, nothing is served before its state is known, and a proxy with no    *)
(* other backend does not serve without a catalog (app_proxy.go:48).       *)
(***************************************************************************)
HealthHasEvidence ==
    /\ health = "ok" => source # None
    /\ run = "serve" => health # "unknown"
    /\ run = "serve" /\ useTunarrOnly => source # None

(***************************************************************************)
(* An app is given the channel it saw in the lineup, or a 404, never       *)
(* another channel, even when the list or the setting changed, or the      *)
(* proxy restarted, since: true of a number that Tunarr gives to one       *)
(* channel only and the proxy does not give away                           *)
(* (tunarr_catalog.go:76-83, hdhr_endpoints.go:243).                       *)
(***************************************************************************)
Owned(e) ==
    /\ e.number < ChannelStart
    /\ \A l \in Lists : \A i \in DOMAIN l :
          l[i].number = e.number => l[i].id = e.id

GivenAsListed ==
    \A a \in App : tuned[a] # None /\ Owned(tuned[a].asked) =>
        tuned[a].given \in {tuned[a].asked.id, None}

(***************************************************************************)
(* When Tunarr answers and is left alone, the catalog comes to be made     *)
(* from its list, and its health to be "ok", however often the web UI      *)
(* saves: a failed check is retried, and what was fetched before an edit   *)
(* is replaced (backend_router.go:133-155).                                *)
(***************************************************************************)
CatalogConverges ==
    \/ []<><<Disturbance>>_vars
    \/ <>[](run = "exited")
    \/ <>[](source # None /\ source.list = list /\ health = "ok")
=============================================================================
