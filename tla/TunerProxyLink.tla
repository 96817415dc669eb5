--------------------------- MODULE TunerProxyLink ---------------------------
(***************************************************************************)
(* TunerProxy in tuner-proxy mode (tuner_proxy.go): the goroutine that     *)
(* reconnects on a ticker, one reader goroutine per connection it made,    *)
(* and the goroutine that reads the apps' UDP broadcasts and writes them   *)
(* to the current connection.  They share tcpTransport, which tcpMutex     *)
(* guards: getTCPTransport, setTCPTransport and closeTCP never block while *)
(* they hold it, so each of them is one atomic step here, and everything   *)
(* between two of them is a point where the others may run.                *)
(***************************************************************************)
EXTENDS TcpConns, RelayMessages

\* A message to the AppProxy is a Query, a message from it a Reply.
VARIABLES
    tpTransport,    \* tcpTransport
    tpLinkUp,       \* backendRouter.linkUp of this process
    ticker,         \* where the reconnect loop is
    dialed,         \* the connection Dial returned to it
    reader,         \* where the reader goroutine of each connection is
    tpBatch,        \* what that reader has read and not yet handed on
    udp,            \* where the broadcast goroutine is, and what it carries
    asked,          \* broadcasts it has read from its socket
    delivered       \* answers sent to the apps that asked

tpVars == <<tpTransport, tpLinkUp, ticker, dialed, reader, tpBatch, udp,
            asked, delivered>>

UdpIdle == [pc |-> "recv", query |-> None, conn |-> None]
UdpFailed == [pc |-> "close", query |-> None, conn |-> None]

TpInit ==
    /\ tpTransport = None
    /\ tpLinkUp = FALSE
    /\ ticker = "wait" /\ dialed = None
    /\ reader = [c \in Conn |-> "none"]
    /\ tpBatch = [c \in Conn |-> <<>>]
    /\ udp = UdpIdle
    /\ asked = {}
    /\ delivered = {}

TpTypeOK ==
    /\ tpTransport \in Conn \cup {None}
    /\ tpLinkUp \in BOOLEAN
    /\ ticker \in {"wait", "dial", "set"}
    /\ dialed \in IF ticker = "set" THEN Conn ELSE {None}
    /\ reader \in [Conn -> {"none", "read", "decode", "close"}]
    /\ tpBatch \in [Conn -> Seq(Reply)]
    /\ \A c \in Conn : reader[c] = "decode" <=> tpBatch[c] # <<>>
    /\ udp \in {UdpIdle, UdpFailed}
               \cup [pc : {"pack"}, query : Query, conn : {None}]
               \cup [pc : {"write"}, query : Query, conn : Conn]
    /\ asked \subseteq Query
    /\ delivered \subseteq Reply

\* Some variable of the process still refers to connection c.
TpHolds(c) ==
    tpTransport = c \/ dialed = c \/ udp.conn = c \/ reader[c] # "none"

-----------------------------------------------------------------------------
(***************************************************************************)
(* closeTCP: it closes the connection that is current when it runs, which  *)
(* need not be the one whose error made the caller call it.                *)
(***************************************************************************)
CloseTCPKeepsOpen ==  \* mutant of CloseTCP: forgets the Close
    /\ tpTransport' = None /\ tpLinkUp' = FALSE
    /\ UNCHANGED tcpVars

CloseTCP ==
    \/ /\ tpTransport # None
       /\ CloseTpEnds({tpTransport})
       /\ tpTransport' = None
       /\ tpLinkUp' = FALSE
    \/ /\ tpTransport = None
       /\ UNCHANGED <<tcpVars, tpTransport, tpLinkUp>>

-----------------------------------------------------------------------------
(* The reconnect loop. *)

Tick ==
    /\ ticker = "wait" /\ tpTransport = None
    /\ ticker' = "dial"
    /\ UNCHANGED <<tcpVars, tpTransport, tpLinkUp, dialed, reader, tpBatch,
                   udp, asked, delivered>>

DialFails ==
    /\ ticker = "dial"
    /\ ticker' = "wait"
    /\ UNCHANGED <<tcpVars, tpTransport, tpLinkUp, dialed, reader, tpBatch,
                   udp, asked, delivered>>

DialOk(c) ==
    /\ ticker = "dial" /\ ~TpHolds(c)
    /\ TcpDial(c)
    /\ ticker' = "set" /\ dialed' = c
    /\ UNCHANGED <<tpTransport, tpLinkUp, reader, tpBatch, udp, asked,
                   delivered>>

\* setTCPTransport, and the start of the connection's reader goroutine (whose
\* first step may come any time later).
SetTCPTransport ==
    /\ ticker = "set"
    /\ tpTransport' = dialed /\ tpLinkUp' = TRUE
    /\ reader' = [reader EXCEPT ![dialed] = "read"]
    /\ ticker' = "wait" /\ dialed' = None
    /\ UNCHANGED <<tcpVars, tpBatch, udp, asked, delivered>>

-----------------------------------------------------------------------------
(* The reader goroutine of connection c. *)

ReaderRead(c) ==
    /\ reader[c] = "read"
    /\ \E n \in 1..Cap :
          /\ TpRead(c, n)
          /\ tpBatch' = [tpBatch EXCEPT ![c] = SubSeq(toTp[c], 1, n)]
    /\ reader' = [reader EXCEPT ![c] = "decode"]
    /\ UNCHANGED <<tpTransport, tpLinkUp, ticker, dialed, udp, asked,
                   delivered>>

\* Mutant of ReaderDeliver: the buffer is not reset after the message.
ReaderDeliverKeeps(c) ==
    /\ reader[c] = "decode"
    /\ delivered' = delivered \cup {Head(tpBatch[c])}
    /\ UNCHANGED <<tcpVars, tpTransport, tpLinkUp, ticker, dialed, reader,
                   tpBatch, udp, asked>>

\* onMessageReceivedFromAppProxy, called by Decode for each message in turn.
ReaderDeliver(c) ==
    /\ reader[c] = "decode"
    /\ delivered' = delivered \cup {Head(tpBatch[c])}
    /\ tpBatch' = [tpBatch EXCEPT ![c] = Tail(@)]
    /\ reader' = [reader EXCEPT ![c] =
                     IF Len(tpBatch[c]) = 1 THEN "read" ELSE "decode"]
    /\ UNCHANGED <<tcpVars, tpTransport, tpLinkUp, ticker, dialed, udp, asked>>

ReaderError(c) ==
    /\ reader[c] = "read" /\ TcpError(c)
    /\ reader' = [reader EXCEPT ![c] = "close"]
    /\ UNCHANGED <<tpTransport, tpLinkUp, ticker, dialed, tpBatch, udp, asked,
                   delivered>>

\* Mutant of ReaderClose: the goroutine returns without closeTCP.
ReaderReturns(c) ==
    /\ reader[c] = "close"
    /\ reader' = [reader EXCEPT ![c] = "none"]
    /\ UNCHANGED <<tcpVars, tpTransport, tpLinkUp, ticker, dialed, tpBatch,
                   udp, asked, delivered>>

ReaderClose(c) ==
    /\ reader[c] = "close" /\ CloseTCP
    /\ reader' = [reader EXCEPT ![c] = "none"]
    /\ UNCHANGED <<ticker, dialed, tpBatch, udp, asked, delivered>>

-----------------------------------------------------------------------------
(* handleUDPBroadcasts. *)

\* Reads a broadcast, and ignores it unless a connection exists.
UdpReceive(q) ==
    /\ udp.pc = "recv" /\ q \notin asked
    /\ asked' = asked \cup {q}
    /\ \/ tpTransport = None /\ udp' = UdpIdle
       \/ /\ tpTransport # None
          /\ udp' = [pc |-> "pack", query |-> q, conn |-> None]
    /\ UNCHANGED <<tcpVars, tpTransport, tpLinkUp, ticker, dialed, reader,
                   tpBatch, delivered>>

\* Mutant of UdpGetTransport: trusts the check made before packing.
UdpGetTransportUnchecked ==
    /\ udp.pc = "pack"
    /\ udp' = [pc |-> "write", query |-> udp.query, conn |-> tpTransport]
    /\ UNCHANGED <<tcpVars, tpTransport, tpLinkUp, ticker, dialed, reader,
                   tpBatch, asked, delivered>>

\* Gets the connection a second time, after packing the message.
UdpGetTransport ==
    /\ udp.pc = "pack"
    /\ \/ tpTransport = None /\ udp' = UdpIdle
       \/ /\ tpTransport # None
          /\ udp' = [pc |-> "write", query |-> udp.query,
                     conn |-> tpTransport]
    /\ UNCHANGED <<tcpVars, tpTransport, tpLinkUp, ticker, dialed, reader,
                   tpBatch, asked, delivered>>

UdpWriteOk ==
    /\ udp.pc = "write" /\ TpWriteOk(udp.conn, udp.query)
    /\ udp' = UdpIdle
    /\ UNCHANGED <<tpTransport, tpLinkUp, ticker, dialed, reader, tpBatch,
                   asked, delivered>>

UdpWriteError ==
    /\ udp.pc = "write" /\ TcpError(udp.conn)
    /\ udp' = UdpFailed
    /\ UNCHANGED <<tpTransport, tpLinkUp, ticker, dialed, reader, tpBatch,
                   asked, delivered>>

UdpClose ==
    /\ udp.pc = "close" /\ CloseTCP
    /\ udp' = UdpIdle
    /\ UNCHANGED <<ticker, dialed, reader, tpBatch, asked, delivered>>

-----------------------------------------------------------------------------
\* The process stops, at any point, and is started again: the kernel closes
\* its connections, and nothing else of it is left.
TpRestart ==
    /\ CloseTpEnds({c \in Conn : tpEnd[c] = "open"})
    /\ tpTransport' = None /\ tpLinkUp' = FALSE
    /\ ticker' = "wait" /\ dialed' = None
    /\ reader' = [c \in Conn |-> "none"]
    /\ tpBatch' = [c \in Conn |-> <<>>]
    /\ udp' = UdpIdle
    /\ UNCHANGED <<asked, delivered>>

ReaderStep(c) ==
    ReaderRead(c) \/ ReaderDeliver(c) \/ ReaderError(c) \/ ReaderClose(c)
UdpStep == UdpGetTransport \/ UdpWriteOk \/ UdpWriteError \/ UdpClose
=============================================================================
