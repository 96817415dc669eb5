--------------------------- MODULE MCProxyLinkLive ---------------------------
(***************************************************************************)
(* The instance of ProxyLink whose liveness TLC checks.  A behaviour is of *)
(* one of two scopes, chosen at the start: one broadcast, and every kind   *)
(* of fault as often as it likes; or two broadcasts, whose answers fill    *)
(* the buffers and batches and meet at the mutex, and one restart of one   *)
(* of the processes.  A scope bounds the broadcasts and the faults alone,  *)
(* to which no fairness applies.                                           *)
(***************************************************************************)
EXTENDS ProxyLink

CONSTANTS q1, q2

VARIABLE
    scope       \* asks: the broadcasts, in their order; now: the faults
                \* that may happen; later: those that may after the first

Scopes ==
    {[asks |-> <<q1>>, now |-> Faults, later |-> Faults],
     [asks |-> <<q1, q2>>, now |-> Faults \cap {"tp", "ap"}, later |-> {}]}

LiveInit == Init /\ scope \in Scopes

LiveAsk ==
    /\ Ask
    /\ \E n \in DOMAIN scope.asks : asked' = {scope.asks[i] : i \in 1..n}
    /\ UNCHANGED scope

LiveFault ==
    /\ \E kind \in scope.now : FaultOf(kind)
    /\ scope' = [scope EXCEPT !.now = scope.later]

LiveNext ==
    \/ (TunerProxyNext \/ AppProxyNext) /\ UNCHANGED scope
    \/ LiveAsk
    \/ LiveFault

LiveSpec == LiveInit /\ [][LiveNext]_<<vars, scope>> /\ Fairness
=============================================================================
