----------------------------- MODULE DirectMode -----------------------------
(***************************************************************************)
(* Direct mode: a proxy, App or Tuner alike, that queries the HDHomeRun    *)
(* itself (runDirectMode of either).  Each query of an app is served by a  *)
(* goroutine of its own (backend_router.go, forwardToBackend), and these   *)
(* share a counter of open requests and the health of the HDHomeRun, each  *)
(* under a mutex that is never held across a blocking call.  The UIs read  *)
(* both now and then (Stats).                                              *)
(*                                                                         *)
(* A log call returns (LogView), and is left out.  A slot is a goroutine   *)
(* and its socket, and is used again by later queries.                     *)
(***************************************************************************)
EXTENDS ProcessStart, FiniteSets

CONSTANTS
    Slot,       \* queries served at the same time
    HDHR,       \* the HDHomeRun's address
    AppArgs,    \* arguments an AppProxy may be started with
    TunerArgs   \* arguments a TunerProxy may be started with

ASSUME DirectAssumption ==
    /\ HDHR \in Host /\ NoHost \notin Host
    /\ IsFiniteSet(Slot)
    /\ AppArgs \subseteq Seq(Host \cup {NoHost})
    /\ TunerArgs \subseteq Seq(Host \cup {NoHost} \cup Flag)

VARIABLES
    mode,       \* "down", then the mode of ProcessStart
    directHDHRIP,
    tunarr,     \* the config's setting
    reachable,  \* the HDHomeRun can be resolved and routed to, and is on
    at,         \* where the goroutine of each slot is
    net,        \* its request on the network: "none", "asked", "answered"
    activeDial, \* activeDialConnections
    hdhr,       \* hdhrHealth.State
    poll,       \* where Stats is
    shown       \* what the UIs show

startVars == <<mode, directHDHRIP, tunarr>>
uiVars == <<poll, shown>>
vars == <<startVars, reachable, at, net, activeDial, hdhr, uiVars>>

Init ==
    /\ mode = "down" /\ directHDHRIP = NoHost /\ tunarr = "off"
    /\ reachable \in BOOLEAN
    /\ at = [q \in Slot |-> "none"] /\ net = [q \in Slot |-> "none"]
    /\ activeDial = 0
    /\ hdhr = "unknown"
    /\ poll = "count" /\ shown = [dial |-> 0, hdhr |-> "unknown"]

-----------------------------------------------------------------------------
(* The start *)

\* With tunarr "only" a Tunarr that does not answer ends the process, and so
\* does a socket that cannot be had.
Runs(s, c) ==
    /\ mode = "down"
    /\ mode' \in {s.mode, "exited"}
    /\ directHDHRIP' = s.target
    /\ tunarr' = c.tunarr
    /\ UNCHANGED <<reachable, at, net, activeDial, hdhr, uiVars>>

StartApp(args, c) == Runs(AppStarts(args, c), c)
StartTuner(args, c) == Runs(TunerStarts(args, c), c)

-----------------------------------------------------------------------------
(* forwardToBackend, by the goroutine of q *)

Goto(q, place) == at' = [at EXCEPT ![q] = place]

\* The read loop starts a goroutine for what it has read.
Arrive(q) ==
    /\ mode = "direct" /\ at[q] = "none"
    /\ Goto(q, "forward")
    /\ UNCHANGED <<startVars, reachable, net, activeDial, hdhr, uiVars>>

\* The emulated tuner has answered if the query is for it.
TunarrOnly(q) ==
    /\ at[q] = "forward"
    /\ tunarr = "only" \/ directHDHRIP = NoHost
    /\ Goto(q, "none")
    /\ UNCHANGED <<startVars, reachable, net, activeDial, hdhr, uiVars>>

Forward(q) ==
    /\ at[q] = "forward"
    /\ tunarr # "only" /\ directHDHRIP # NoHost
    /\ activeDial' = activeDial + 1
    /\ Goto(q, "dial")
    /\ UNCHANGED <<startVars, reachable, net, hdhr, uiVars>>

Answers == reachable /\ directHDHRIP = HDHR

\* ResolveUDPAddr, DialUDP or Write fails.
DialFails(q) ==
    /\ at[q] = "dial" /\ ~Answers
    /\ hdhr' = "fail"
    /\ Goto(q, "close")
    /\ UNCHANGED <<startVars, reachable, net, activeDial, uiVars>>

\* Of a datagram nobody hears, nothing is heard.
Write(q) ==
    /\ at[q] = "dial"
    /\ net' = [net EXCEPT ![q] = IF Answers THEN "asked" ELSE "none"]
    /\ Goto(q, "read")
    /\ UNCHANGED <<startVars, reachable, activeDial, hdhr, uiVars>>

\* Mutant of ReadAnswer: only failures are recorded.
ReadAnswerUnrecorded(q) ==
    /\ at[q] = "read" /\ net[q] = "answered"
    /\ Goto(q, "close")
    /\ UNCHANGED <<startVars, reachable, net, activeDial, hdhr, uiVars>>

\* The answer is sent on to the app, whether or not that succeeds.
ReadAnswer(q) ==
    /\ at[q] = "read" /\ net[q] = "answered"
    /\ hdhr' = "ok"
    /\ Goto(q, "close")
    /\ UNCHANGED <<startVars, reachable, net, activeDial, uiVars>>

\* Mutant of ReadTimeout: the deferred functions do not run.
ReadTimeoutReturns(q) ==
    /\ at[q] = "read"
    /\ hdhr' = "fail"
    /\ Goto(q, "none")
    /\ net' = [net EXCEPT ![q] = "none"]
    /\ UNCHANGED <<startVars, reachable, activeDial, uiVars>>

\* The deadline may pass just before an answer comes, or is read.
ReadTimeout(q) ==
    /\ at[q] = "read"
    /\ hdhr' = "fail"
    /\ Goto(q, "close")
    /\ UNCHANGED <<startVars, reachable, net, activeDial, uiVars>>

\* The network reports that the HDHomeRun cannot be reached.
ReadError(q) ==
    /\ at[q] = "read" /\ ~Answers
    /\ hdhr' = "fail"
    /\ Goto(q, "close")
    /\ UNCHANGED <<startVars, reachable, net, activeDial, uiVars>>

\* The deferred functions; an answer that comes later finds no socket.
Close(q) ==
    /\ at[q] = "close"
    /\ activeDial' = activeDial - 1
    /\ net' = [net EXCEPT ![q] = "none"]
    /\ Goto(q, "none")
    /\ UNCHANGED <<startVars, reachable, hdhr, uiVars>>

-----------------------------------------------------------------------------
(* The HDHomeRun and the network *)

Answer(q) ==
    /\ net[q] = "asked"
    /\ \/ reachable /\ net' = [net EXCEPT ![q] = "answered"]
       \/ ~reachable /\ net' = [net EXCEPT ![q] = "none"]
    /\ UNCHANGED <<startVars, reachable, at, activeDial, hdhr, uiVars>>

Switch ==
    /\ reachable' = ~reachable
    /\ UNCHANGED <<startVars, at, net, activeDial, hdhr, uiVars>>

-----------------------------------------------------------------------------
(* Stats, for the UIs: the counter and the health, each under its mutex *)

StatsCounts ==
    /\ mode = "direct" /\ poll = "count"
    /\ shown' = [shown EXCEPT !.dial = activeDial]
    /\ poll' = "health"
    /\ UNCHANGED <<startVars, reachable, at, net, activeDial, hdhr>>

StatsHealth ==
    /\ poll = "health"
    /\ shown' = [shown EXCEPT !.hdhr = hdhr]
    /\ poll' = "count"
    /\ UNCHANGED <<startVars, reachable, at, net, activeDial, hdhr>>

-----------------------------------------------------------------------------
Serve(q) ==
    \/ TunarrOnly(q) \/ Forward(q) \/ DialFails(q) \/ Write(q)
    \/ ReadAnswer(q) \/ ReadTimeout(q) \/ ReadError(q) \/ Close(q)

Stats == StatsCounts \/ StatsHealth

Next ==
    \/ \E args \in AppArgs, c \in Config : StartApp(args, c)
    \/ \E args \in TunerArgs, c \in Config : StartTuner(args, c)
    \/ \E q \in Slot : Arrive(q) \/ Serve(q) \/ Answer(q)
    \/ Switch \/ Stats

Spec == Init /\ [][Next]_vars

\* Goroutines run, a socket's deadline passes, and the UIs keep asking.
FairSpec == Spec /\ WF_vars(Stats) /\ \A q \in Slot : WF_vars(Serve(q))

-----------------------------------------------------------------------------
(***************************************************************************)
(* The counter is that of the requests open, however each of them ends     *)
(* (backend_router.go:229-277), and a proxy that queries for itself has    *)
(* something to ask, whatever arguments and config it was started with     *)
(* (main.go:167-172, 233-252).                                             *)
(***************************************************************************)
Open == {q \in Slot : at[q] \in {"dial", "read", "close"}}

TypeOK ==
    /\ mode \in {"down", "direct", "linked", "exited"}
    /\ directHDHRIP \in Host \cup {NoHost}
    /\ mode = "direct" => directHDHRIP # NoHost \/ tunarr = "only"
    /\ tunarr \in {"off", "also", "only"}
    /\ reachable \in BOOLEAN
    /\ at \in [Slot -> {"none", "forward", "dial", "read", "close"}]
    /\ net \in [Slot -> {"none", "asked", "answered"}]
    /\ activeDial = Cardinality(Open)
    /\ hdhr \in {"unknown", "ok", "fail"}
    /\ poll \in {"count", "health"}
    /\ shown \in [dial : Nat, hdhr : {"unknown", "ok", "fail"}]

(***************************************************************************)
(* When apps stop asking, every goroutine ends, its socket is closed, and  *)
(* the UIs come to show no open request.                                   *)
(***************************************************************************)
QuietShowsNone ==
    \/ []<><<\E q \in Slot : Arrive(q)>>_vars
    \/ <>[](activeDial = 0 /\ shown.dial = 0)

(***************************************************************************)
(* "The UIs never show a backend as healthy without evidence"              *)
(* (backend_router.go:22-23), nor as failed for good: once the HDHomeRun   *)
(* stays reachable, answers before the deadline and is asked, the outcomes *)
(* of older queries, which end in any order, do not hide that it answers.  *)
(***************************************************************************)
SlowAnswer ==
    \E q \in Slot : ReadTimeout(q) /\ net[q] \in {"asked", "answered"}

HealthRecovers ==
    \/ []<>(~Answers) \/ []<><<SlowAnswer>>_vars
    \/ <>[](\A q \in Slot : net[q] = "none")
    \/ <>[](shown.hdhr = "ok")
=============================================================================
