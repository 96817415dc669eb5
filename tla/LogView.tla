------------------------------- MODULE LogView -------------------------------
(***************************************************************************)
(* The log with the terminal UI on: every goroutine that logs appends to   *)
(* the ring (log_handler.go) and hands the line to the event loop of the   *)
(* UI (tui.go), which receives one message at a time and draws the ring;   *)
(* and the goroutine that logs the active connections, whose interval the  *)
(* web UI may change while it runs (backend_router.go).                    *)
(*                                                                         *)
(* Each goroutine that waits in Send is received in its turn, so keys,     *)
(* ticks and resizes, which wait in the same way, are steps of the loop.   *)
(* A line is its level.  The web page reads the ring when it polls         *)
(* (handleLogs), and adds nothing to the state.                            *)
(***************************************************************************)
EXTENDS Integers, Sequences

CONSTANTS
    Goroutine,      \* goroutines that log now and then
    ConnLog,        \* the one that logs the active connections
    RingCap,        \* logRingBufCap
    Interval,       \* the intervals, in seconds, that a config may hold
    Second,         \* time.Second, in nanoseconds
    Half,           \* half of the numbers of an int64
    None

ASSUME RingAssumption ==
    RingCap \in Nat \ {0} /\ ConnLog \notin Goroutine
    /\ None \notin Goroutine \cup {ConnLog}

ASSUME IntervalAssumption ==
    Interval \subseteq Int /\ Second \in Nat \ {0} /\ Half \in Nat \ {0}

Level == {"debug", "info"}
Logger == Goroutine \cup {ConnLog}

VARIABLES
    ring,       \* logRingBuf
    ringLock,   \* who holds logRingMu to append
    logging,    \* where each goroutine is in Handle: "no", the level of the
                \*   line it is about to append, "append", "send"
    loop,       \* where the event loop is
    ready,      \* tuiModel.ready: "no", "blank" until the next draw, "drawn"
    showDebug,  \* tuiModel.showDebug
    screen,     \* the content of the viewport
    interval,   \* LogActiveConnectionsInterval in the store
    connlog,    \* where logActiveConnections is
    intervalSeconds,    \* the interval it knows
    period      \* what its ticker is set to

logVars == <<ring, ringLock, logging>>
tuiVars == <<loop, ready, showDebug, screen>>
tickerVars == <<connlog, intervalSeconds, period>>
vars == <<logVars, tuiVars, interval, tickerVars>>

Running == connlog # "panicked"

Init ==
    /\ ring = <<>> /\ ringLock = None
    /\ logging = [g \in Logger |-> "no"]
    /\ loop = "starting" /\ ready = "no" /\ showDebug = TRUE /\ screen = <<>>
    /\ interval \in Interval
    /\ connlog = IF interval > 0 THEN "start" ELSE "off"
    /\ intervalSeconds = 0 /\ period = 0

-----------------------------------------------------------------------------
(* Handle, by goroutine g *)

Logs(g, l) == logging' = [logging EXCEPT ![g] = l]

\* Any line of the program but those of ConnLog.
Line(g) ==
    /\ Running /\ logging[g] = "no"
    /\ \E l \in Level : Logs(g, l)
    /\ UNCHANGED <<ring, ringLock, tuiVars, interval, tickerVars>>

Newest(s) == IF Len(s) > RingCap THEN Tail(s) ELSE s

AppendLogEntry(g) ==
    /\ Running /\ logging[g] \in Level /\ ringLock = None
    /\ ringLock' = g
    /\ ring' = Newest(Append(ring, logging[g]))
    /\ Logs(g, "append")
    /\ UNCHANGED <<tuiVars, interval, tickerVars>>

\* Mutant of Unlock: the deferred Unlock is that of Handle.
UnlockLate(g) ==
    /\ Running /\ logging[g] = "append"
    /\ Logs(g, "send")
    /\ UNCHANGED <<ring, ringLock, tuiVars, interval, tickerVars>>

Unlock(g) ==
    /\ Running /\ logging[g] = "append"
    /\ ringLock' = None
    /\ Logs(g, "send")
    /\ UNCHANGED <<ring, tuiVars, interval, tickerVars>>

\* Send returns when the loop receives the line, or is gone.
Receive(g) ==
    /\ Running /\ logging[g] = "send" /\ loop \in {"idle", "quit"}
    /\ loop' = IF loop = "idle" THEN "draw" ELSE "quit"
    /\ Logs(g, "no")
    /\ UNCHANGED <<ring, ringLock, ready, showDebug, screen, interval,
                   tickerVars>>

-----------------------------------------------------------------------------
(* The event loop *)

\* runWithTUI installs the handler before p.Run starts the loop.
LoopStarts ==
    /\ Running /\ loop = "starting"
    /\ loop' = "idle"
    /\ UNCHANGED <<logVars, ready, showDebug, screen, interval, tickerVars>>

Shown(lines, debug) == SelectSeq(lines, LAMBDA l : l = "info" \/ debug)
Visible == Shown(ring, showDebug)

\* renderLogContent, which takes logRingMu to copy the ring.
Draw ==
    /\ Running /\ loop = "draw" /\ ringLock = None
    /\ loop' = "idle"
    /\ screen' = Visible
    /\ ready' = IF ready = "blank" THEN "drawn" ELSE ready
    /\ UNCHANGED <<logVars, showDebug, interval, tickerVars>>

\* The first WindowSizeMsg makes a new viewport, whose content is empty.
FirstSize ==
    /\ Running /\ loop = "idle" /\ ready = "no"
    /\ ready' = "blank" /\ screen' = <<>>
    /\ UNCHANGED <<logVars, loop, showDebug, interval, tickerVars>>

\* Mutant of KeyDebug: the content is not rendered again.
KeyDebugOnly ==
    /\ Running /\ loop = "idle"
    /\ showDebug' = ~showDebug
    /\ UNCHANGED <<logVars, loop, ready, screen, interval, tickerVars>>

KeyDebug ==
    /\ Running /\ loop = "idle"
    /\ showDebug' = ~showDebug
    /\ loop' = "draw"
    /\ UNCHANGED <<logVars, ready, screen, interval, tickerVars>>

\* The user quits, or the proxy's Run has returned.
Quit ==
    /\ Running /\ loop = "idle"
    /\ loop' = "quit"
    /\ UNCHANGED <<logVars, ready, showDebug, screen, interval, tickerVars>>

-----------------------------------------------------------------------------
(* logActiveConnections *)

\* time.Duration(i) * time.Second, an int64.
Duration(i) == ((i * Second + Half) % (2 * Half)) - Half

\* NewTicker and Reset panic unless the period is positive.
SetTicker(d) ==
    \/ d > 0 /\ period' = d /\ connlog' = "ticking"
    \/ d <= 0 /\ connlog' = "panicked" /\ UNCHANGED period

\* The interval, which was positive when Run looked, is read again.
ConnLogStarts ==
    /\ connlog = "start"
    /\ intervalSeconds' = interval
    /\ SetTicker(Duration(interval))
    /\ UNCHANGED <<logVars, tuiVars, interval>>

\* Mutant of ConnLogChanged: the ticker keeps its period.
ConnLogChangedOnly ==
    /\ interval # intervalSeconds
    /\ \/ interval > 0 /\ UNCHANGED <<connlog, period>>
       \/ interval <= 0 /\ connlog' = "ended" /\ UNCHANGED period

ConnLogChanged ==
    /\ interval # intervalSeconds
    /\ \/ interval > 0 /\ SetTicker(Duration(interval))
       \/ interval <= 0 /\ connlog' = "ended" /\ UNCHANGED period

ConnLogTick ==
    /\ connlog = "ticking" /\ logging[ConnLog] = "no"
    /\ \/ ConnLogChanged
       \/ interval = intervalSeconds /\ UNCHANGED <<connlog, period>>
    /\ intervalSeconds' = interval
    /\ IF connlog' = "ticking" THEN Logs(ConnLog, "info")
       ELSE UNCHANGED logging
    /\ UNCHANGED <<ring, ringLock, tuiVars, interval>>

\* A save of the web UI.
SaveInterval ==
    /\ Running
    /\ interval' \in Interval
    /\ UNCHANGED <<logVars, tuiVars, tickerVars>>

-----------------------------------------------------------------------------
Handle(g) == AppendLogEntry(g) \/ Unlock(g) \/ Receive(g)

Next ==
    \/ \E g \in Goroutine : Line(g)
    \/ \E g \in Logger : Handle(g)
    \/ LoopStarts \/ Draw \/ FirstSize \/ KeyDebug \/ Quit
    \/ ConnLogStarts \/ ConnLogTick \/ SaveInterval

Spec == Init /\ [][Next]_vars

(***************************************************************************)
(* Goroutines run; a mutex goes to whoever waits for it, and a channel to  *)
(* its senders in the order they came, so neither passes one by for ever.  *)
(* Keys, resizes, saves and new lines owe nothing, nor does the ticker.    *)
(***************************************************************************)
FairSpec ==
    /\ Spec
    /\ WF_vars(LoopStarts) /\ SF_vars(Draw)
    /\ \A g \in Logger :
          /\ WF_vars(Unlock(g))
          /\ SF_vars(AppendLogEntry(g))
          /\ SF_vars(Receive(g))

-----------------------------------------------------------------------------
(***************************************************************************)
(* What the terminal shows is what the log holds: whenever they differ,    *)
(* the goroutine whose line is missing is still in Handle and the loop     *)
(* will draw it, whatever keys were pressed while lines came in            *)
(* (log_handler.go:68-70, tui.go:107-119).  Only what was logged before    *)
(* the first size of the window was known may be missing, until the next   *)
(* line or key.                                                            *)
(***************************************************************************)
NothingUnseen ==
    loop = "idle" /\ ready = "drawn"
    /\ (\A g \in Logger : logging[g] \notin {"append", "send"}) =>
        screen = Visible

(***************************************************************************)
(* A log call returns: a proxy goroutine is held up by the terminal for a  *)
(* while, never for good, since nobody waits for the loop with the lock    *)
(* the loop needs to draw, and nobody waits for a loop that has ended      *)
(* (log_handler.go:31-38, 68-70; tui.go:197).                              *)
(***************************************************************************)
LogCallsReturn ==
    \A g \in Logger : logging[g] # "no" ~> (logging[g] = "no" \/ ~Running)

(***************************************************************************)
(* The ticker of the connection log runs on the interval its goroutine     *)
(* compares the saved one with, whatever was saved between two ticks, and  *)
(* even if the conversion overflowed: else a save of the interval wanted   *)
(* would pass for no change (backend_router.go:286, 295-299).              *)
(***************************************************************************)
TickerKeepsInterval ==
    connlog = "ticking" => period > 0 /\ period = Duration(intervalSeconds)
=============================================================================
