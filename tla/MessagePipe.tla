----------------------------- MODULE MessagePipe -----------------------------
(***************************************************************************)
(* What the codec promises to the two proxies: a first-in first-out pipe   *)
(* of messages.  Where bytes are cut into chunks does not show.            *)
(***************************************************************************)
EXTENDS Naturals, Sequences

CONSTANT Message

VARIABLES sent, delivered

vars == <<sent, delivered>>

Init == sent = <<>> /\ delivered = <<>>

Send(m) == sent' = Append(sent, m) /\ UNCHANGED delivered

Deliver ==
    /\ Len(delivered) < Len(sent)
    /\ delivered' = Append(delivered, sent[Len(delivered) + 1])
    /\ UNCHANGED sent

Next == (\E m \in Message : Send(m)) \/ Deliver

Spec == Init /\ [][Next]_vars
=============================================================================
