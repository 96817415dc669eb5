------------------------------ MODULE Streams -------------------------------
(***************************************************************************)
(* The requests for /auto/v<number> (handleStream, acquireTuner:           *)
(* hdhr_endpoints.go), each in a goroutine of its own, competing for the   *)
(* tuners while the channel catalog is replaced under them.                *)
(*                                                                         *)
(* acquireTuner tries the tuners one LockTuner at a time, and takes and    *)
(* drops tm.mu for each: between two tries, others lock and release.       *)
(*                                                                         *)
(* A member of Request is a goroutine, used for one request after another; *)
(* a viewer who changes channel has two at once for a while, the old one   *)
(* until its copy loop notices that the connection is gone.                *)
(***************************************************************************)
EXTENDS TunerState

VARIABLES
    known,      \* guide numbers in tb.catalog.byNumber
    pc,         \* where each handler is
    number,     \* the guide number in its URL
    scan,       \* i in acquireTuner, then the tuner it holds
    gone,       \* its client has closed the connection: r.Context() is done
    answer      \* the HTTP status it wrote, 0 before

requestVars == <<pc, number, scan, gone, answer>>
vars == <<tuners, known, requestVars>>

Holding == {"claimed", "connect", "streaming", "release"}
Holds(r, i) == pc[r] \in Holding /\ scan[r] = i

Init ==
    /\ NewTunerStateManager
    /\ known = {}
    /\ pc = [r \in Request |-> "none"]
    /\ number = [r \in Request |-> NoChannel]
    /\ scan = [r \in Request |-> 0]
    /\ gone = [r \in Request |-> FALSE]
    /\ answer = [r \in Request |-> 0]

Goto(r, place) == pc' = [pc EXCEPT ![r] = place]

Answers(r, status) ==
    /\ answer' = [answer EXCEPT ![r] = status]
    /\ UNCHANGED <<known, number, scan, gone>>

-----------------------------------------------------------------------------
(* RefreshCatalog swaps the catalog in one critical section. *)
RefreshCatalog(numbers) ==
    /\ known' = numbers
    /\ UNCHANGED <<tuners, requestVars>>

(* handleStream *)

Arrives(r, n) ==
    /\ pc[r] = "none"
    /\ Goto(r, "lookup")
    /\ number' = [number EXCEPT ![r] = n]
    /\ scan' = [scan EXCEPT ![r] = 0]
    /\ gone' = [gone EXCEPT ![r] = FALSE]
    /\ answer' = [answer EXCEPT ![r] = 0]
    /\ UNCHANGED <<tuners, known>>

CatalogHas(r) ==
    /\ pc[r] = "lookup" /\ number[r] \in known
    /\ Goto(r, "scan")
    /\ UNCHANGED <<tuners, known, number, scan, gone, answer>>

UnknownChannel(r) ==
    /\ pc[r] = "lookup" /\ number[r] \notin known
    /\ Goto(r, "none")
    /\ Answers(r, 404)
    /\ UNCHANGED tuners

\* Mutant of TunerBusy: the loop runs to i <= count.
TunerBusyPastEnd(r) ==
    /\ pc[r] = "scan" /\ scan[r] <= Count
    /\ ~(scan[r] \in Tuner /\ CanLock(scan[r]))
    /\ scan' = [scan EXCEPT ![r] = scan[r] + 1]
    /\ UNCHANGED <<tuners, known, pc, number, gone, answer>>

TunerBusy(r) ==
    /\ pc[r] = "scan" /\ scan[r] < Count /\ ~CanLock(scan[r])
    /\ scan' = [scan EXCEPT ![r] = scan[r] + 1]
    /\ UNCHANGED <<tuners, known, pc, number, gone, answer>>

TunerLocked(r) ==
    /\ pc[r] = "scan" /\ scan[r] < Count /\ CanLock(scan[r])
    /\ LockTuner(scan[r], scan[r] + 1, r)
    /\ Goto(r, "claimed")
    /\ UNCHANGED <<known, number, scan, gone, answer>>

AllTunersInUse(r) ==
    /\ pc[r] = "scan" /\ scan[r] = Count
    /\ Goto(r, "none")
    /\ Answers(r, 503)
    /\ UNCHANGED tuners

Tunes(r) ==
    /\ pc[r] = "claimed"
    /\ SetTunerChannel(scan[r], number[r])
    /\ Goto(r, "connect")
    /\ UNCHANGED <<known, number, scan, gone, answer>>

\* Tunarr, or ffmpeg, delivers: the response header is written.
StreamStarts(r) ==
    /\ pc[r] = "connect"
    /\ Goto(r, "streaming")
    /\ Answers(r, 200)
    /\ UNCHANGED tuners

\* Mutant of StreamFails: returns before the defer is in place.
StreamFailsEarly(r) ==
    /\ pc[r] = "connect" /\ ~gone[r]
    /\ Goto(r, "none")
    /\ Answers(r, 502)
    /\ UNCHANGED tuners

\* It cannot be reached, or refuses, before anything was written.
StreamFails(r) ==
    /\ pc[r] = "connect" /\ ~gone[r]
    /\ Goto(r, "release")
    /\ Answers(r, 502)
    /\ UNCHANGED tuners

\* The source ends, or fails in the middle: the client sees the end of file.
SourceEnds(r) ==
    /\ pc[r] = "streaming"
    /\ Goto(r, "release")
    /\ UNCHANGED <<tuners, known, number, scan, gone, answer>>

\* Mutant of ClientGone: the source is copied to nobody.
ClientGoneUnnoticed(r) ==
    /\ pc[r] = "connect" /\ gone[r]
    /\ Goto(r, "release")
    /\ UNCHANGED <<tuners, known, number, scan, gone, answer>>

\* The request's context ends the connect or the copy.
ClientGone(r) ==
    /\ pc[r] \in {"connect", "streaming"} /\ gone[r]
    /\ Goto(r, "release")
    /\ UNCHANGED <<tuners, known, number, scan, gone, answer>>

\* The deferred ReleaseTuner, and the handler returns.
Releases(r) ==
    /\ pc[r] = "release"
    /\ ReleaseTuner(scan[r])
    /\ Goto(r, "none")
    /\ UNCHANGED <<known, number, scan, gone, answer>>

\* The client closes the connection; nothing before the stream looks.
ClientLeaves(r) ==
    /\ pc[r] # "none" /\ ~gone[r]
    /\ gone' = [gone EXCEPT ![r] = TRUE]
    /\ UNCHANGED <<tuners, known, pc, number, scan, answer>>

Acquire(r) == TunerBusy(r) \/ TunerLocked(r) \/ AllTunersInUse(r)

Handler(r) ==
    \/ CatalogHas(r) \/ UnknownChannel(r) \/ Acquire(r) \/ Tunes(r)
    \/ ClientGone(r) \/ Releases(r)

Step(r) ==
    \/ \E n \in Number : Arrives(r, n)
    \/ Handler(r)
    \/ StreamStarts(r) \/ StreamFails(r) \/ SourceEnds(r) \/ ClientLeaves(r)

Next ==
    \/ \E numbers \in SUBSET Number : RefreshCatalog(numbers)
    \/ \E r \in Request : Step(r)

Spec == Init /\ [][Next]_vars

\* The handlers run; nothing is asked of Tunarr or of the clients.
FairSpec == Spec /\ \A r \in Request : WF_vars(Handler(r))

-----------------------------------------------------------------------------
Places == {"none", "lookup", "scan"} \cup Holding

TypeOK ==
    /\ tuners \in [Tuner -> TunerRecord]
    /\ known \in SUBSET Number
    /\ pc \in [Request -> Places]
    /\ number \in [Request -> Number \cup {NoChannel}]
    /\ scan \in [Request -> 0..Count]
    /\ gone \in [Request -> BOOLEAN]
    /\ answer \in [Request -> {0, 200, 404, 502, 503}]

(***************************************************************************)
(* Each stream takes a tuner of its own (CONFIG.md:86): of all the         *)
(* requests that try the same tuner, one gets it, and it is that one which *)
(* gives it back (tuner_state.go:111-131, hdhr_endpoints.go:256).          *)
(***************************************************************************)
OneStreamPerTuner ==
    \A i \in Tuner : \A r, q \in Request : Holds(r, i) /\ Holds(q, i) => r = q

(***************************************************************************)
(* No tuner is lost: one that is not idle is held by a request that will   *)
(* release it, and shows that request's client; an idle one shows nothing  *)
(* of the stream it had before (tuner_state.go:90-108).                    *)
(***************************************************************************)
TunersAccountedFor ==
    \A i \in Tuner :
        \/ tuners[i] = Idle /\ \A r \in Request : ~Holds(r, i)
        \/ /\ tuners[i].Status = "locked"
           /\ \E r \in Request :
                 /\ Holds(r, i) /\ tuners[i].Target = r
                 /\ pc[r] # "claimed" => tuners[i].Channel = number[r]

(***************************************************************************)
(* There are tuners for all: requests that have come past i tuners, or are *)
(* refused after all of them, leave at least i requests that have not,     *)
(* although tuners change hands behind them while they scan.  So nobody is *)
(* refused if there are no more requests than tuners.  To pass a tuner, a  *)
(* request must find another one holding it (hdhr_endpoints.go:280-284).   *)
(***************************************************************************)
Past(i) == {r \in Request : pc[r] \in {"scan"} \cup Holding /\ scan[r] >= i}

EnoughForAll ==
    /\ \A i \in 0..Count :
          Past(i) = {} \/ Cardinality(Past(i)) + i <= Cardinality(Request)
    /\ Cardinality(Request) <= Count => \A r \in Request : answer[r] # 503

(***************************************************************************)
(* A tuner comes back once its client has gone, whatever Tunarr does: the  *)
(* streams have no timeout (tunarr_catalog.go:154-156), so this rests on   *)
(* the request's context alone.                                            *)
(***************************************************************************)
ClientGoneFreesTuner ==
    \A r \in Request :
        (pc[r] \in Holding /\ gone[r]) ~> (pc[r] \notin Holding)
=============================================================================
