-------------------------------- MODULE Relay --------------------------------
(***************************************************************************)
(* What the pair of proxies promises the apps, without connections,        *)
(* goroutines or restarts: a broadcast an app makes is put to the tuners   *)
(* at most once, each tuner's answer to it reaches that app at most once,  *)
(* and nothing reaches an app that was not an answer to its own broadcast. *)
(* Either may be lost on the way, as on a network without a proxy.         *)
(***************************************************************************)
EXTENDS RelayMessages

VARIABLES
    asked,      \* broadcasts the TunerProxy has received
    travelling, \* of those, the ones on their way to the tuners
    expected,   \* answers that may still be given
    returning,  \* answers on their way back to the app
    delivered   \* answers the app has been sent

vars == <<asked, travelling, expected, returning, delivered>>

Init ==
    /\ asked = {} /\ travelling = {} /\ expected = {}
    /\ returning = {} /\ delivered = {}

\* A broadcast arrives; it travels on, or is ignored.
Ask(q) ==
    /\ q \notin asked
    /\ asked' = asked \cup {q}
    /\ travelling' \in {travelling, travelling \cup {q}}
    /\ UNCHANGED <<expected, returning, delivered>>

\* Queries reach the side the tuners are on.
Arrive(Q) ==
    /\ travelling' = travelling \ Q
    /\ expected' = expected \cup (Q \X Source)
    /\ UNCHANGED <<asked, returning, delivered>>

\* A source answers.
Answer(r) ==
    /\ expected' = expected \ {r}
    /\ returning' = returning \cup {r}
    /\ UNCHANGED <<asked, travelling, delivered>>

\* An answer reaches the app that asked.
Deliver(r) ==
    /\ returning' = returning \ {r}
    /\ delivered' = delivered \cup {r}
    /\ UNCHANGED <<asked, travelling, expected>>

\* A window closes, or something on its way is lost.
Lose ==
    /\ travelling' \in SUBSET travelling
    /\ expected' \in SUBSET expected
    /\ returning' \in SUBSET returning
    /\ UNCHANGED <<asked, delivered>>

Next ==
    \/ Lose
    \/ \E q \in Query : Ask(q)
    \/ \E Q \in SUBSET travelling : Arrive(Q)
    \/ \E r \in expected : Answer(r)
    \/ \E r \in returning : Deliver(r)

Spec == Init /\ [][Next]_vars
=============================================================================
