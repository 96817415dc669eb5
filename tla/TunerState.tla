----------------------------- MODULE TunerState -----------------------------
(***************************************************************************)
(* TunerStateManager (tuner_state.go): the tuners the emulated device has. *)
(* Each operation runs under tm.mu and is one step; an index that is not   *)
(* a tuner is an error and changes nothing.                                *)
(*                                                                         *)
(* A client's TargetIP and TargetPort are one value, the request that came *)
(* from there; NoClient is "0.0.0.0" and 0, and NoChannel is "".           *)
(***************************************************************************)
EXTENDS Integers, FiniteSets

CONSTANTS
    Count,          \* the model's TunerCount
    Request,        \* handler goroutines of the HTTP server
    Number,         \* guide numbers
    NoChannel, NoClient

Tuner == 0..(Count - 1)

ASSUME TunerAssumption ==
    /\ Count \in Nat
    /\ IsFiniteSet(Request)
    /\ NoChannel \notin Number
    /\ NoClient \notin Request

VARIABLE tuners

TunerRecord ==
    [Status : {"idle", "locked"}, Channel : Number \cup {NoChannel},
     Tuning : BOOLEAN, SessionID : Nat, Target : Request \cup {NoClient}]

Idle == [Status |-> "idle", Channel |-> NoChannel, Tuning |-> FALSE,
         SessionID |-> 0, Target |-> NoClient]

NewTunerStateManager == tuners = [i \in Tuner |-> Idle]

-----------------------------------------------------------------------------
\* LockTuner refuses unless the tuner is idle.
CanLock(i) == tuners[i].Status = "idle"

\* Mutant of LockTuner: the status is left for SetTunerChannel to set.
LockTunerLater(i, session, client) ==
    tuners' = [tuners EXCEPT ![i].SessionID = session, ![i].Target = client]

LockTuner(i, session, client) ==
    tuners' = [tuners EXCEPT ![i].Status = "locked", ![i].SessionID = session,
                             ![i].Target = client]

SetTunerChannel(i, channel) ==
    tuners' = [tuners EXCEPT ![i].Channel = channel, ![i].Status = "locked",
                             ![i].Tuning = TRUE]

\* UnlockTuner, which only the tests call: the channel is kept.
UnlockTuner(i) ==
    tuners' = [tuners EXCEPT ![i].Status = "idle", ![i].SessionID = 0,
                             ![i].Target = NoClient, ![i].Tuning = FALSE]

\* Mutant of ReleaseTuner: UnlockTuner in its place.
ReleaseTunerUnlocks(i) == UnlockTuner(i)

ReleaseTuner(i) == tuners' = [tuners EXCEPT ![i] = Idle]
=============================================================================
