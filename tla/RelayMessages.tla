---------------------------- MODULE RelayMessages ----------------------------
(***************************************************************************)
(* What travels between the two proxies.  Both directions carry the        *)
(* address of the app that asked, then the datagram; the address is part   *)
(* of the identity of a query here, so that an answer which reaches the    *)
(* wrong app is an answer to a different query.                            *)
(***************************************************************************)
CONSTANTS
    Query,      \* the apps' discovery broadcasts, with the app's address
    Tuner,      \* the HDHomeRun devices a broadcast reaches
    Tunarr,     \* the Tunarr backend
    TunarrOn,   \* whether the AppProxy is configured with one
    None        \* nil

ASSUME MessagesAssumption ==
    /\ TunarrOn \in BOOLEAN
    /\ Tunarr \notin Tuner
    /\ None \notin Tuner \cup Query \cup {Tunarr}

\* Whatever may answer a query.
Source == Tuner \cup (IF TunarrOn THEN {Tunarr} ELSE {})

\* An answer: the query it is sent back for, and who gave it.
Reply == Query \X Source
=============================================================================
