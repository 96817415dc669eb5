------------------------------ MODULE ProxyLink ------------------------------
(***************************************************************************)
(* The two proxies and the connections between them.  A step is a step of  *)
(* one goroutine of one process, a broadcast from an app, or a fault: the  *)
(* network cuts a connection, a Dial fails, a process stops and is started *)
(* again.                                                                  *)
(***************************************************************************)
EXTENDS TunerProxyLink, AppProxyLink, FiniteSets

CONSTANTS
    Faults      \* the kinds of faults that may happen

ASSUME LinkAssumption ==
    /\ Faults \subseteq {"cut", "dial", "tp", "ap"}
    /\ None \notin Conn

vars == <<tcpVars, tpVars, apVars>>

Init == TcpInit /\ TpInit /\ ApInit

-----------------------------------------------------------------------------
(* Steps of the TunerProxy. *)

Dial ==
    /\ \E c \in Conn : ~ApHolds(c) /\ DialOk(c)
    /\ UNCHANGED apVars

Ticker == (Tick \/ SetTCPTransport) /\ UNCHANGED apVars
Reader(c) == ReaderStep(c) /\ UNCHANGED apVars
Broadcast == UdpStep /\ UNCHANGED apVars
TunerProxyNext == Ticker \/ Dial \/ Broadcast \/ \E c \in Conn : Reader(c)

(* Steps of the AppProxy. *)

Accepts(c) == Accept(c) /\ UNCHANGED tpVars
Handler(c) == HandlerStep(c) /\ UNCHANGED tpVars
Querier(q) == QueryStep(q) /\ UNCHANGED tpVars
AppProxyNext ==
    \/ \E c \in Conn : Accepts(c) \/ Handler(c)
    \/ \E q \in Query : Querier(q)

(* The environment. *)

Ask == (\E q \in Query : UdpReceive(q)) /\ UNCHANGED apVars

FaultOf(kind) ==
    \/ kind = "cut" /\ (\E c \in Conn : TcpCut(c))
       /\ UNCHANGED <<tpVars, apVars>>
    \/ kind = "dial" /\ DialFails /\ UNCHANGED apVars
    \/ kind = "tp" /\ TpRestart /\ UNCHANGED apVars
    \/ kind = "ap" /\ ApRestart /\ UNCHANGED tpVars

Fault == \E kind \in Faults : FaultOf(kind)

Next == TunerProxyNext \/ AppProxyNext \/ Ask \/ Fault

Spec == Init /\ [][Next]_vars

(***************************************************************************)
(* Every goroutine that can go on does, and the ticker keeps firing.  Weak *)
(* fairness is enough for the mutex as well: an answer is written once, so *)
(* tcpMutex is not taken for ever by others while a goroutine waits.       *)
(* Faults and broadcasts owe nothing.                                      *)
(***************************************************************************)
Fairness ==
    /\ WF_vars(Ticker) /\ WF_vars(Dial) /\ WF_vars(Broadcast)
    /\ \A c \in Conn :
          WF_vars(Reader(c)) /\ WF_vars(Accepts(c)) /\ WF_vars(Handler(c))
    /\ \A q \in Query : WF_vars(Querier(q))

FairSpec == Spec /\ Fairness

-----------------------------------------------------------------------------
TypeOK ==
    /\ tpEnd \in [Conn -> {"open", "closed"}]
    /\ apEnd \in [Conn -> {"backlog", "open", "closed"}]
    /\ broken \in [Conn -> BOOLEAN]
    /\ toAp \in [Conn -> Seq(Query)]
    /\ toTp \in [Conn -> Seq(Reply)]
    /\ TpTypeOK /\ ApTypeOK

(***************************************************************************)
(* The TunerProxy never leaks a connection: one it holds open is the       *)
(* current transport, or is about to be made it by the reconnect loop.     *)
(* That rests on nobody but the ticker ever setting a transport, and on    *)
(* every clearing of it closing it (tuner_proxy.go:181, 207, 215).         *)
(***************************************************************************)
NoLeakedConnection ==
    \A c \in Conn : tpEnd[c] = "open" =>
        c = tpTransport \/ (ticker = "set" /\ c = dialed)

(***************************************************************************)
(* The current connection of the TunerProxy always has its reader          *)
(* goroutine: without one nobody would notice that it died, and the        *)
(* reconnect loop, which dials only when the transport is nil, would stand *)
(* still for ever (tuner_proxy.go:182, 238).                               *)
(***************************************************************************)
TransportHasReader ==
    tpTransport # None => reader[tpTransport] # "none"

(***************************************************************************)
(* The connection the AppProxy would answer on is one a handler still      *)
(* reads, never one whose handler has closed it (app_proxy.go:175, 200).   *)
(***************************************************************************)
Serving == {"read", "decode", "reply", "write", "down", "clear"}

TransportIsServed ==
    apTransport # None =>
        handler[apTransport] \in Serving /\ apEnd[apTransport] = "open"

(***************************************************************************)
(* A status that says "link up" names a connection whose handler has not   *)
(* seen its end: the interleavings of handlers' setLink calls may show a   *)
(* live link as down, never a gone peer as linked (app_proxy.go:179, 198). *)
(***************************************************************************)
LinkPeerIsServed ==
    apLinkUp => handler[apLinkPeer] \in {"set", "read", "decode", "reply",
                                         "write", "down"}

(***************************************************************************)
(* reply writes to the connection it checked: while one goroutine is in    *)
(* the Write, no other makes the transport nil under it, and no second one *)
(* writes into the middle of its message (app_proxy.go:293-308).           *)
(***************************************************************************)
Writers ==
    {c \in Conn : handler[c] = "write"} \cup
    {q \in Query : asking[q] = "write"}

OneWriter ==
    /\ apLocked <=> Writers # {}
    /\ \A w1, w2 \in Writers : w1 = w2
    /\ Writers # {} => apTransport # None

-----------------------------------------------------------------------------
(***************************************************************************)
(* The pair implements Relay, whatever the faults: every query is put to   *)
(* the tuners at most once and every answer is sent to its app at most     *)
(* once, although connections are replaced while messages are in buffers,  *)
(* batches and goroutines.                                                 *)
(***************************************************************************)
InSeq(s) == {s[i] : i \in DOMAIN s}

Travelling ==
    {q \in Query : udp.query = q \/ \E c \in Conn : q \in InSeq(toAp[c])}

\* Answers to the queries of handler c's batch that may still be given: to
\* the first one not Tunarr's, once the handler is sending that.
ExpectedIn(c) ==
    {r \in Reply :
        /\ r[1] \in InSeq(apBatch[c])
        /\ handler[c] \in {"reply", "write"} =>
              r # <<Head(apBatch[c]), Tunarr>>}

Expected ==
    {r \in Reply :
        \/ \E c \in Conn : r \in ExpectedIn(c)
        \/ asking[r[1]] = "send" /\ r[2] \in Tuner
        \/ r[2] \in awaiting[r[1]]}

Returning ==
    {r \in Reply :
        \/ carrying[r[1]] = r[2]
        \/ \E c \in Conn :
              \/ r \in InSeq(toTp[c]) \cup InSeq(tpBatch[c])
              \/ /\ handler[c] \in {"reply", "write"}
                 /\ r = <<Head(apBatch[c]), Tunarr>>}

R == INSTANCE Relay WITH
        travelling <- Travelling, expected <- Expected, returning <- Returning

ImplementsRelay == R!Spec

-----------------------------------------------------------------------------
TpServed == tpTransport # None /\ Live(tpTransport)

(***************************************************************************)
(* Once faults stop, the TunerProxy has a live connection again and again: *)
(* no interleaving of the ticker, readers and failed writes leaves it      *)
(* without one for good (tuner_proxy.go:181-194, 250-255).  It need not    *)
(* keep the one it has: closeTCP does not ask whose connection it closes.   *)
(***************************************************************************)
TunerProxyRecovers == []<><<Fault>>_vars \/ []<>TpServed

(***************************************************************************)
(* A handler whose connection broke always ends, even when replies to it   *)
(* block with the mutex held: so the descriptor is closed and the          *)
(* goroutine is not leaked (app_proxy.go:174, 293).  (A broken connection  *)
(* does not come back: its name is free only when the handler is gone.)    *)
(***************************************************************************)
HandlersEnd ==
    \A c \in Conn : []<>(handler[c] = "none" \/ Live(c))

(***************************************************************************)
(* An answer a goroutine of the AppProxy has in hand reaches the app,      *)
(* unless the link is down at some time until then: none stays in a batch, *)
(* a buffer or a blocked reply (app_proxy.go:285, 293; tuner_proxy.go:259).*)
(***************************************************************************)
Linked == TpServed /\ apTransport = tpTransport

AnswersArrive ==
    \A r \in Query \X Tuner :
        (carrying[r[1]] = r[2]) ~> (r \in delivered \/ ~Linked)

(***************************************************************************)
(* A Dial is hasty that was made before every goroutine of an earlier      *)
(* connection was gone; it will be calm when none is left.  The reconnect  *)
(* interval, seconds, is longer than the peer takes to see that a          *)
(* connection was closed; but the code does not wait for it, and after a   *)
(* silent cut it does not hold.  A behaviour is unsettled in which faults  *)
(* go on, or each calm Dial, if any, is followed by a hasty one.           *)
(***************************************************************************)
Leftover ==
    \E c \in Conn \ {dialed} :
        reader[c] # "none" \/ handler[c] # "none" \/ apEnd[c] = "backlog"

HastyDial == ticker = "set" /\ Leftover
CalmDial == ticker = "dial" /\ ~Leftover
Unsettled == (CalmDial ~> HastyDial) \/ []<><<Fault>>_vars

(***************************************************************************)
(* Once faults have stopped, a calm Dial that no hasty one follows makes   *)
(* the AppProxy settle on answering over the connection the TunerProxy     *)
(* reads from, whatever hasty Dials came before                            *)
(* (app_proxy.go:165, 181-200; tuner_proxy.go:181, 215).                   *)
(***************************************************************************)
BridgeRecovers == Unsettled \/ <>[]Linked

(***************************************************************************)
(* Once faults have stopped, such a Dial makes the link status of the      *)
(* AppProxy settle on the truth (app_proxy.go:179, 198).                   *)
(***************************************************************************)
LinkStatusSettles ==
    Unsettled \/ <>[](TpServed /\ apLinkUp /\ apLinkPeer = tpTransport)

-----------------------------------------------------------------------------
(***************************************************************************)
(* "The proxy bridges it" (PRODUCT.md:15), and "nobody has to think about  *)
(* the proxy": when faults have stopped and the TunerProxy holds on to one *)
(* live connection, the AppProxy answers on that connection.               *)
(***************************************************************************)
LiveLinkAnswers ==
    \/ []<><<Fault>>_vars
    \/ []<>(~TpServed)
    \/ <>[]Linked
=============================================================================
