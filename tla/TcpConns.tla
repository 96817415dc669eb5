------------------------------ MODULE TcpConns ------------------------------
(***************************************************************************)
(* The TCP connections between a TunerProxy and an AppProxy, as the code   *)
(* of the two proxies relies on them: a service of the operating system,   *)
(* external to the repository.  A connection carries whole messages, in    *)
(* order, in both directions (MessageCodec, which turns messages into      *)
(* bytes and back, has a module of its own).                               *)
(*                                                                         *)
(* A member of Conn names a connection.  The name of a connection that is  *)
(* closed at both ends and that no goroutine holds any more is used again  *)
(* by a later Dial, so there is no bound on the number of connections in a *)
(* behaviour, only on the number that exist at the same time.              *)
(***************************************************************************)
EXTENDS Naturals, Sequences

CONSTANTS
    Conn,       \* the names of connections
    Cap         \* messages a send buffer and the receive buffer it feeds hold

ASSUME CapAssumption == Cap \in Nat \ {0}

VARIABLES
    tpEnd,      \* the TunerProxy's end: "open" until it calls Close
    apEnd,      \* the AppProxy's end: "backlog" until Accept returns it
    broken,     \* no more data moves: an end was closed, or the network cut it
    toAp,       \* messages from the TunerProxy that the AppProxy has not read
    toTp        \* messages from the AppProxy that the TunerProxy has not read

tcpVars == <<tpEnd, apEnd, broken, toAp, toTp>>

Live(c) == ~broken[c]

TcpInit ==
    /\ tpEnd = [c \in Conn |-> "closed"]
    /\ apEnd = [c \in Conn |-> "closed"]
    /\ broken = [c \in Conn |-> TRUE]
    /\ toAp = [c \in Conn |-> <<>>]
    /\ toTp = [c \in Conn |-> <<>>]

(***************************************************************************)
(* net.Dial succeeds as soon as the peer's kernel has the connection in    *)
(* its backlog, before the peer's Accept.                                  *)
(***************************************************************************)
TcpDial(c) ==
    /\ tpEnd[c] = "closed" /\ apEnd[c] = "closed"
    /\ tpEnd' = [tpEnd EXCEPT ![c] = "open"]
    /\ apEnd' = [apEnd EXCEPT ![c] = "backlog"]
    /\ broken' = [broken EXCEPT ![c] = FALSE]
    /\ toAp' = [toAp EXCEPT ![c] = <<>>]
    /\ toTp' = [toTp EXCEPT ![c] = <<>>]

TcpAccept(c) ==
    /\ apEnd[c] = "backlog"
    /\ apEnd' = [apEnd EXCEPT ![c] = "open"]
    /\ UNCHANGED <<tpEnd, broken, toAp, toTp>>

(***************************************************************************)
(* Closing an end discards what that end has not read.  What it has sent   *)
(* may still be read by the other end, or be lost: a Read of a broken      *)
(* connection may fail whether or not messages are left in it.             *)
(***************************************************************************)
CloseTpEnds(S) ==
    /\ tpEnd' = [c \in Conn |-> IF c \in S THEN "closed" ELSE tpEnd[c]]
    /\ broken' = [c \in Conn |-> broken[c] \/ c \in S]
    /\ toTp' = [c \in Conn |-> IF c \in S THEN <<>> ELSE toTp[c]]
    /\ UNCHANGED <<apEnd, toAp>>

CloseApEnds(S) ==
    /\ apEnd' = [c \in Conn |-> IF c \in S THEN "closed" ELSE apEnd[c]]
    /\ broken' = [c \in Conn |-> broken[c] \/ c \in S]
    /\ toAp' = [c \in Conn |-> IF c \in S THEN <<>> ELSE toAp[c]]
    /\ UNCHANGED <<tpEnd, toTp>>

(***************************************************************************)
(* The network stops carrying a connection that both ends still hold open: *)
(* a half-open connection, until keepalive or a write tells each end, at   *)
(* its own time.                                                           *)
(***************************************************************************)
TcpCut(c) ==
    /\ Live(c)
    /\ broken' = [broken EXCEPT ![c] = TRUE]
    /\ UNCHANGED <<tpEnd, apEnd, toAp, toTp>>

(***************************************************************************)
(* Write blocks while the buffer is full.  On a broken connection the      *)
(* kernel may still take the bytes (they are lost), or report the error.   *)
(***************************************************************************)
TpWriteOk(c, m) ==
    /\ tpEnd[c] = "open"
    /\ \/ /\ Live(c) /\ Len(toAp[c]) < Cap
          /\ toAp' = [toAp EXCEPT ![c] = Append(@, m)]
          /\ UNCHANGED <<tpEnd, apEnd, broken, toTp>>
       \/ broken[c] /\ UNCHANGED tcpVars

ApWriteOk(c, m) ==
    /\ apEnd[c] = "open"
    /\ \/ /\ Live(c) /\ Len(toTp[c]) < Cap
          /\ toTp' = [toTp EXCEPT ![c] = Append(@, m)]
          /\ UNCHANGED <<tpEnd, apEnd, broken, toAp>>
       \/ broken[c] /\ UNCHANGED tcpVars

(***************************************************************************)
(* One Read returns any number of the messages that have arrived.  (That   *)
(* it may also end in the middle of one is MessageCodec's business.)       *)
(***************************************************************************)
TpRead(c, n) ==
    /\ tpEnd[c] = "open" /\ n \in 1..Len(toTp[c])
    /\ toTp' = [toTp EXCEPT ![c] = SubSeq(@, n + 1, Len(@))]
    /\ UNCHANGED <<tpEnd, apEnd, broken, toAp>>

ApRead(c, n) ==
    /\ apEnd[c] = "open" /\ n \in 1..Len(toAp[c])
    /\ toAp' = [toAp EXCEPT ![c] = SubSeq(@, n + 1, Len(@))]
    /\ UNCHANGED <<tpEnd, apEnd, broken, toTp>>

\* A Read or a Write of either end returns an error.
TcpError(c) == broken[c] /\ UNCHANGED tcpVars
=============================================================================
