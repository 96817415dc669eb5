--------------------------- MODULE ProxyLinkProofs ---------------------------
(***************************************************************************)
(* Proofs about ProxyLink, for any number of connections, queries and      *)
(* tuners, and any buffer size.                                            *)
(***************************************************************************)
EXTENDS ProxyLink, SequenceTheorems, TLAPS

-----------------------------------------------------------------------------
(* The inductive invariant. *)

(***************************************************************************)
(* The TunerProxy: while the reconnect loop is between its check and the   *)
(* setting of the transport nobody else sets one, and the connection it    *)
(* has dialed has no reader yet.                                           *)
(***************************************************************************)
TpInv ==
    /\ NoLeakedConnection
    /\ TransportHasReader
    /\ ticker # "wait" => tpTransport = None
    /\ ticker = "set" => reader[dialed] = "none"

(***************************************************************************)
(* The AppProxy: a connection is open as long as its handler runs, a       *)
(* handler replies only for a Tunarr backend, and the mutex is held by     *)
(* exactly one goroutine, the one in its Write.                            *)
(***************************************************************************)
HandlerWrites == \E c \in Conn : handler[c] = "write"
QueryWrites == \E q \in Query : asking[q] = "write"

Mutex ==
    /\ apLocked <=> HandlerWrites \/ QueryWrites
    /\ ~(HandlerWrites /\ QueryWrites)
    /\ \A c, d \in Conn : handler[c] = "write" /\ handler[d] = "write" => c = d
    /\ \A p, q \in Query : asking[p] = "write" /\ asking[q] = "write" => p = q
    /\ apLocked => apTransport # None

ApInv ==
    /\ \A c \in Conn : apEnd[c] = "open" <=> handler[c] # "none"
    /\ TransportIsServed
    /\ \A c \in Conn : handler[c] \in {"reply", "write"} => TunarrOn
    /\ apLinkUp => apLinkPeer \in Conn
    /\ LinkPeerIsServed
    /\ Mutex

(***************************************************************************)
(* A query is in one place only: with the broadcast goroutine, in one      *)
(* buffer, in one batch, or with its own goroutine.                        *)
(***************************************************************************)
Distinct(s) == \A i, j \in DOMAIN s : s[i] = s[j] => i = j

\* No element occurs twice in the sequences of f, or in two of them.
AllDistinct(f) ==
    /\ \A c \in Conn : Distinct(f[c])
    /\ \A c, d \in Conn : c # d => InSeq(f[c]) \cap InSeq(f[d]) = {}

\* Nor in one of f and one of g.
Apart(f, g) == \A c, d \in Conn : InSeq(f[c]) \cap InSeq(g[d]) = {}

QueryOnce ==
    /\ AllDistinct(toAp) /\ AllDistinct(apBatch) /\ Apart(toAp, apBatch)
    /\ udp.query # None => udp.query \in asked
    /\ \A c \in Conn : \A q \in InSeq(toAp[c]) \cup InSeq(apBatch[c]) :
          q \in asked /\ q # udp.query /\ asking[q] = "none"
    /\ \A q \in Query : asking[q] # "none" => q \in asked /\ q # udp.query

(***************************************************************************)
(* So is an answer: it is still awaited, or in the hands of a goroutine of *)
(* the AppProxy, or in one buffer or batch on its way back.  A query in    *)
(* transit has no answer, and one not yet sent has none of a tuner.        *)
(***************************************************************************)
InTransit(q) ==
    \/ udp.query = q
    \/ \E c \in Conn : q \in InSeq(toAp[c]) \cup InSeq(apBatch[c])

\* r may be on its way back.
Back(r) ==
    /\ r[1] \in asked /\ ~InTransit(r[1])
    /\ asking[r[1]] = "send" => r[2] = Tunarr
    /\ r[2] \notin awaiting[r[1]] /\ carrying[r[1]] # r[2]

ReplyOnce ==
    /\ AllDistinct(toTp) /\ AllDistinct(tpBatch) /\ Apart(toTp, tpBatch)
    /\ \A q \in Query : carrying[q] \notin awaiting[q]
    /\ \A c \in Conn : \A r \in InSeq(toTp[c]) \cup InSeq(tpBatch[c]) : Back(r)

\* The connections' part of TypeOK.
TcpOK ==
    /\ tpEnd \in [Conn -> {"open", "closed"}]
    /\ apEnd \in [Conn -> {"backlog", "open", "closed"}]
    /\ broken \in [Conn -> BOOLEAN]
    /\ toAp \in [Conn -> Seq(Query)]
    /\ toTp \in [Conn -> Seq(Reply)]

IInv == TypeOK /\ TpInv /\ ApInv /\ QueryOnce /\ ReplyOnce

-----------------------------------------------------------------------------
(* Sequences as the sets of their elements. *)

LEMMA EmptySeqSet == InSeq(<<>>) = {} /\ Distinct(<<>>)
BY DEF InSeq, Distinct

LEMMA AppendSet ==
    ASSUME NEW S, NEW s \in Seq(S), NEW e \in S
    PROVE  /\ Append(s, e) \in Seq(S)
           /\ InSeq(Append(s, e)) = InSeq(s) \cup {e}
           /\ Distinct(s) /\ e \notin InSeq(s) => Distinct(Append(s, e))
<1>1. /\ Len(s) \in Nat /\ DOMAIN s = 1..Len(s)
      /\ Append(s, e) \in Seq(S)
      /\ DOMAIN Append(s, e) = 1..(Len(s) + 1)
      /\ \A i \in 1..Len(s) : Append(s, e)[i] = s[i]
      /\ Append(s, e)[Len(s) + 1] = e
  BY AppendProperties, LenProperties
<1>2. InSeq(Append(s, e)) = InSeq(s) \cup {e}
  BY <1>1 DEF InSeq
<1>3. ASSUME Distinct(s), e \notin InSeq(s) PROVE Distinct(Append(s, e))
  BY <1>1, <1>3 DEF Distinct, InSeq
<1> QED BY <1>1, <1>2, <1>3

\* What a Read takes, and what it leaves.
LEMMA SplitSet ==
    ASSUME NEW S, NEW s \in Seq(S), NEW n \in 1..Len(s)
    PROVE  /\ SubSeq(s, 1, n) \in Seq(S) /\ SubSeq(s, 1, n) # <<>>
           /\ SubSeq(s, n + 1, Len(s)) \in Seq(S)
           /\ InSeq(s) = InSeq(SubSeq(s, 1, n))
                         \cup InSeq(SubSeq(s, n + 1, Len(s)))
           /\ Distinct(s) =>
                 /\ Distinct(SubSeq(s, 1, n))
                 /\ Distinct(SubSeq(s, n + 1, Len(s)))
                 /\ InSeq(SubSeq(s, 1, n))
                    \cap InSeq(SubSeq(s, n + 1, Len(s))) = {}
<1> DEFINE a == SubSeq(s, 1, n)
           b == SubSeq(s, n + 1, Len(s))
<1>1. /\ Len(s) \in Nat /\ DOMAIN s = 1..Len(s) /\ n \in Nat
      /\ \A i \in 1..Len(s) : s[i] \in S
  BY LenProperties, ElementOfSeq
<1>2. /\ a \in Seq(S) /\ Len(a) = n /\ DOMAIN a = 1..n
      /\ \A i \in 1..n : a[i] = s[i]
  BY <1>1, SubSeqProperties, LenProperties
<1>3. /\ b \in Seq(S) /\ DOMAIN b = 1..(Len(s) - n)
      /\ \A i \in 1..(Len(s) - n) : b[i] = s[n + i]
  BY <1>1, SubSeqProperties, LenProperties
<1>4. a # <<>>
  BY <1>1, <1>2, EmptySeq
<1>5. InSeq(s) = InSeq(a) \cup InSeq(b)
  <2>1. ASSUME NEW i \in 1..Len(s) PROVE s[i] \in InSeq(a) \cup InSeq(b)
    <3>1. CASE i <= n
      <4>1. i \in DOMAIN a /\ a[i] = s[i]
        BY <3>1, <1>1, <1>2
      <4> QED BY <4>1 DEF InSeq
    <3>2. CASE i > n
      <4>1. i - n \in 1..(Len(s) - n) /\ b[i - n] = s[i]
        BY <3>2, <1>1, <1>3
      <4> QED BY <4>1, <1>3 DEF InSeq
    <3> QED BY <3>1, <3>2, <1>1
  <2>2. InSeq(a) \subseteq InSeq(s)
    BY <1>1, <1>2 DEF InSeq
  <2>3. InSeq(b) \subseteq InSeq(s)
    BY <1>1, <1>3 DEF InSeq
  <2> QED BY <2>1, <2>2, <2>3, <1>1 DEF InSeq
<1>6. ASSUME Distinct(s)
      PROVE  Distinct(a) /\ Distinct(b) /\ InSeq(a) \cap InSeq(b) = {}
  <2>1. Distinct(a)
    BY <1>1, <1>2, <1>6 DEF Distinct
  <2>2. Distinct(b)
    BY <1>1, <1>3, <1>6 DEF Distinct
  <2>3. InSeq(a) \cap InSeq(b) = {}
    <3>1. ASSUME NEW i \in 1..n, NEW j \in 1..(Len(s) - n) PROVE a[i] # b[j]
      <4>1. i \in DOMAIN s /\ n + j \in DOMAIN s /\ i # n + j
        BY <1>1
      <4>2. s[i] # s[n + j]
        BY <1>6, <4>1 DEF Distinct
      <4> QED BY <1>2, <1>3, <4>2
    <3>2. /\ InSeq(a) = {a[i] : i \in 1..n}
          /\ InSeq(b) = {b[j] : j \in 1..(Len(s) - n)}
      BY <1>2, <1>3 DEF InSeq
    <3> QED BY <3>1, <3>2
  <2> QED BY <2>1, <2>2, <2>3
<1> HIDE DEF a, b
<1> QED BY <1>2, <1>3, <1>4, <1>5, <1>6 DEF a, b

\* What a batch hands on, and what it keeps.
LEMMA HeadTailSet ==
    ASSUME NEW S, NEW s \in Seq(S), s # <<>>
    PROVE  /\ Head(s) \in S /\ Tail(s) \in Seq(S)
           /\ Len(s) = 1 <=> Tail(s) = <<>>
           /\ InSeq(s) = {Head(s)} \cup InSeq(Tail(s))
           /\ Distinct(s) => Distinct(Tail(s)) /\ Head(s) \notin InSeq(Tail(s))
<1>1. /\ Len(s) \in Nat \ {0} /\ DOMAIN s = 1..Len(s)
      /\ \A i \in 1..Len(s) : s[i] \in S
  BY LenProperties, ElementOfSeq, EmptySeq
<1>2. /\ Head(s) = s[1] /\ Tail(s) \in Seq(S)
      /\ DOMAIN Tail(s) = 1..(Len(s) - 1)
      /\ Len(Tail(s)) = Len(s) - 1
      /\ \A i \in 1..(Len(s) - 1) : Tail(s)[i] = s[i + 1]
  BY <1>1, HeadTailProperties, LenProperties
<1>3. Len(s) = 1 <=> Tail(s) = <<>>
  BY <1>1, <1>2, EmptySeq
<1>4. InSeq(s) = {Head(s)} \cup InSeq(Tail(s))
  <2>1. ASSUME NEW i \in 1..Len(s) PROVE s[i] \in {Head(s)} \cup InSeq(Tail(s))
    <3>1. CASE i = 1
      BY <3>1, <1>2
    <3>2. CASE i > 1
      <4>1. i - 1 \in 1..(Len(s) - 1) /\ Tail(s)[i - 1] = s[i]
        BY <3>2, <1>1, <1>2
      <4> QED BY <4>1, <1>2 DEF InSeq
    <3> QED BY <3>1, <3>2, <1>1
  <2>2. InSeq(Tail(s)) \subseteq InSeq(s) /\ Head(s) \in InSeq(s)
    BY <1>1, <1>2 DEF InSeq
  <2> QED BY <2>1, <2>2, <1>1 DEF InSeq
<1>5. ASSUME Distinct(s)
      PROVE  Distinct(Tail(s)) /\ Head(s) \notin InSeq(Tail(s))
  BY <1>1, <1>2, <1>5 DEF Distinct, InSeq
<1> QED BY <1>1, <1>2, <1>3, <1>4, <1>5

-----------------------------------------------------------------------------
(* What the operations on connections do to their types. *)

LEMMA TypeParts == TypeOK <=> TcpOK /\ TpTypeOK /\ ApTypeOK
BY DEF TypeOK, TcpOK

LEMMA CloseTpType ==
    ASSUME TcpOK, NEW S, CloseTpEnds(S)
    PROVE  TcpOK'
<1>1. <<>> \in Seq(Reply)
  BY EmptySeq
<1> QED BY <1>1 DEF TcpOK, CloseTpEnds

LEMMA CloseApType ==
    ASSUME TcpOK, NEW S, CloseApEnds(S)
    PROVE  TcpOK'
<1>1. <<>> \in Seq(Query)
  BY EmptySeq
<1> QED BY <1>1 DEF TcpOK, CloseApEnds

LEMMA DialType ==
    ASSUME TcpOK, NEW c \in Conn, TcpDial(c)
    PROVE  TcpOK'
<1>1. <<>> \in Seq(Query) /\ <<>> \in Seq(Reply)
  BY EmptySeq
<1> QED BY <1>1 DEF TcpOK, TcpDial

LEMMA TpWriteType ==
    ASSUME TcpOK, NEW c \in Conn, NEW m \in Query, TpWriteOk(c, m)
    PROVE  TcpOK'
<1>1. toAp[c] \in Seq(Query)
  BY DEF TcpOK
<1>2. Append(toAp[c], m) \in Seq(Query)
  BY <1>1, AppendSet
<1> QED BY <1>2 DEF TcpOK, TpWriteOk, tcpVars

LEMMA ApWriteType ==
    ASSUME TcpOK, NEW c \in Conn, NEW m \in Reply, ApWriteOk(c, m)
    PROVE  TcpOK'
<1>1. toTp[c] \in Seq(Reply)
  BY DEF TcpOK
<1>2. Append(toTp[c], m) \in Seq(Reply)
  BY <1>1, AppendSet
<1> QED BY <1>2 DEF TcpOK, ApWriteOk, tcpVars

LEMMA TpReadType ==
    ASSUME TcpOK, NEW c \in Conn, NEW n, TpRead(c, n)
    PROVE  /\ TcpOK'
           /\ SubSeq(toTp[c], 1, n) \in Seq(Reply)
           /\ SubSeq(toTp[c], 1, n) # <<>>
<1>1. toTp[c] \in Seq(Reply) /\ n \in 1..Len(toTp[c])
  BY DEF TcpOK, TpRead
<1>2. /\ SubSeq(toTp[c], 1, n) \in Seq(Reply)
      /\ SubSeq(toTp[c], 1, n) # <<>>
      /\ SubSeq(toTp[c], n + 1, Len(toTp[c])) \in Seq(Reply)
  BY <1>1, SplitSet
<1> QED BY <1>2 DEF TcpOK, TpRead

LEMMA ApReadType ==
    ASSUME TcpOK, NEW c \in Conn, NEW n, ApRead(c, n)
    PROVE  /\ TcpOK'
           /\ SubSeq(toAp[c], 1, n) \in Seq(Query)
           /\ SubSeq(toAp[c], 1, n) # <<>>
<1>1. toAp[c] \in Seq(Query) /\ n \in 1..Len(toAp[c])
  BY DEF TcpOK, ApRead
<1>2. /\ SubSeq(toAp[c], 1, n) \in Seq(Query)
      /\ SubSeq(toAp[c], 1, n) # <<>>
      /\ SubSeq(toAp[c], n + 1, Len(toAp[c])) \in Seq(Query)
  BY <1>1, SplitSet
<1> QED BY <1>2 DEF TcpOK, ApRead

-----------------------------------------------------------------------------
(* Whose step a step is. *)

TpAction ==
    \/ Tick \/ SetTCPTransport \/ DialFails \/ UdpStep \/ TpRestart
    \/ \E c \in Conn : DialOk(c) \/ ReaderStep(c)
    \/ \E q \in Query : UdpReceive(q)

ApAction ==
    \/ \E c \in Conn : Accept(c) \/ HandlerStep(c)
    \/ \E q \in Query : QueryStep(q)
    \/ ApRestart

Cut == \E c \in Conn : TcpCut(c)

LEMMA NextSplit ==
    ASSUME Next
    PROVE  \/ TpAction /\ UNCHANGED apVars
           \/ ApAction /\ UNCHANGED tpVars
           \/ Cut /\ UNCHANGED <<tpVars, apVars>>
<1>1. CASE TunerProxyNext \/ Ask
  BY <1>1 DEF TunerProxyNext, Ask, Ticker, Dial, Reader, Broadcast, TpAction
<1>2. CASE AppProxyNext
  BY <1>2 DEF AppProxyNext, Accepts, Handler, Querier, ApAction
<1>3. CASE Fault
  BY <1>3 DEF Fault, FaultOf, TpAction, ApAction, Cut
<1> QED BY <1>1, <1>2, <1>3 DEF Next

LEMMA CutType ==
    ASSUME TcpOK, Cut
    PROVE  TcpOK'
BY DEF TcpOK, Cut, TcpCut

LEMMA CloseTCPType ==
    ASSUME TcpOK, CloseTCP
    PROVE  TcpOK'
<1>1. CASE CloseTpEnds({tpTransport})
  BY <1>1, CloseTpType
<1>2. CASE UNCHANGED tcpVars
  BY <1>2 DEF TcpOK, tcpVars
<1> QED BY <1>1, <1>2 DEF CloseTCP

LEMMA TpActionType ==
    ASSUME TcpOK, TpTypeOK, TpInv, TpAction
    PROVE  TcpOK' /\ TpTypeOK'
<1>1. CASE Tick
  BY <1>1 DEF Tick, TcpOK, tcpVars, TpTypeOK
<1>2. CASE SetTCPTransport
  BY <1>2 DEF SetTCPTransport, TcpOK, tcpVars, TpTypeOK, TpInv
<1>3. CASE DialFails
  BY <1>3 DEF DialFails, TcpOK, tcpVars, TpTypeOK
<1>4. CASE TpRestart
  <2>1. <<>> \in Seq(Reply)
    BY EmptySeq
  <2>2. TcpOK'
    BY <1>4, CloseTpType DEF TpRestart
  <2> QED BY <1>4, <2>1, <2>2 DEF TpRestart, TpTypeOK
<1>5. ASSUME NEW c \in Conn, DialOk(c) PROVE TcpOK' /\ TpTypeOK'
  <2>1. TcpOK'
    BY <1>5, DialType DEF DialOk
  <2> QED BY <1>5, <2>1 DEF DialOk, TpTypeOK
<1>6. ASSUME NEW c \in Conn, ReaderRead(c) PROVE TcpOK' /\ TpTypeOK'
  <2>1. PICK n \in 1..Cap :
           /\ TpRead(c, n)
           /\ tpBatch' = [tpBatch EXCEPT ![c] = SubSeq(toTp[c], 1, n)]
    BY <1>6 DEF ReaderRead
  <2>2. /\ TcpOK'
        /\ SubSeq(toTp[c], 1, n) \in Seq(Reply)
        /\ SubSeq(toTp[c], 1, n) # <<>>
    BY <2>1, TpReadType
  <2> QED BY <1>6, <2>1, <2>2 DEF ReaderRead, TpTypeOK
<1>7. ASSUME NEW c \in Conn, ReaderDeliver(c) PROVE TcpOK' /\ TpTypeOK'
  <2>1. tpBatch[c] \in Seq(Reply) /\ tpBatch[c] # <<>>
    BY <1>7 DEF ReaderDeliver, TpTypeOK
  <2>2. /\ Head(tpBatch[c]) \in Reply /\ Tail(tpBatch[c]) \in Seq(Reply)
        /\ Len(tpBatch[c]) = 1 <=> Tail(tpBatch[c]) = <<>>
    BY <2>1, HeadTailSet
  <2> QED BY <1>7, <2>2 DEF ReaderDeliver, TcpOK, tcpVars, TpTypeOK
<1>8. ASSUME NEW c \in Conn, ReaderError(c) PROVE TcpOK' /\ TpTypeOK'
  BY <1>8 DEF ReaderError, TcpError, TcpOK, tcpVars, TpTypeOK
<1>9. ASSUME NEW c \in Conn, ReaderClose(c) PROVE TcpOK' /\ TpTypeOK'
  <2>1. TcpOK'
    BY <1>9, CloseTCPType DEF ReaderClose
  <2> QED BY <1>9, <2>1 DEF ReaderClose, CloseTCP, TpTypeOK
<1>10. ASSUME NEW q \in Query, UdpReceive(q) PROVE TcpOK' /\ TpTypeOK'
  BY <1>10 DEF UdpReceive, TcpOK, tcpVars, TpTypeOK
<1>11. CASE UdpGetTransport
  BY <1>11 DEF UdpGetTransport, TcpOK, tcpVars, TpTypeOK, UdpIdle, UdpFailed
<1>12. CASE UdpWriteOk
  <2>1. udp.conn \in Conn /\ udp.query \in Query
    BY <1>12 DEF UdpWriteOk, TpTypeOK, UdpIdle, UdpFailed
  <2>2. TcpOK'
    BY <1>12, <2>1, TpWriteType DEF UdpWriteOk
  <2> QED BY <1>12, <2>2 DEF UdpWriteOk, TpTypeOK
<1>13. CASE UdpWriteError
  BY <1>13 DEF UdpWriteError, TcpError, TcpOK, tcpVars, TpTypeOK
<1>14. CASE UdpClose
  <2>1. TcpOK'
    BY <1>14, CloseTCPType DEF UdpClose
  <2> QED BY <1>14, <2>1 DEF UdpClose, CloseTCP, TpTypeOK
<1> QED BY <1>1, <1>2, <1>3, <1>4, <1>5, <1>6, <1>7, <1>8, <1>9, <1>10,
           <1>11, <1>12, <1>13, <1>14 DEF TpAction, ReaderStep, UdpStep

-----------------------------------------------------------------------------
(* The TunerProxy's part of the invariant. *)

LEMMA TpActionInv ==
    ASSUME TcpOK, TpTypeOK, TpInv, TpAction
    PROVE  TpInv'
<1> USE LinkAssumption DEF TpInv, NoLeakedConnection, TransportHasReader
<1>1. CASE Tick
  BY <1>1 DEF Tick, tcpVars
<1>2. CASE SetTCPTransport
  BY <1>2 DEF SetTCPTransport, tcpVars, TpTypeOK
<1>3. CASE DialFails
  BY <1>3 DEF DialFails, tcpVars
<1>4. CASE TpRestart
  BY <1>4 DEF TpRestart, CloseTpEnds
<1>5. ASSUME NEW c \in Conn, DialOk(c) PROVE TpInv'
  BY <1>5 DEF DialOk, TcpDial, TpHolds, TcpOK, TpTypeOK
<1>6. ASSUME NEW c \in Conn, ReaderRead(c) PROVE TpInv'
  BY <1>6 DEF ReaderRead, TpRead, TpTypeOK
<1>7. ASSUME NEW c \in Conn, ReaderDeliver(c) PROVE TpInv'
  BY <1>7 DEF ReaderDeliver, tcpVars, TpTypeOK
<1>8. ASSUME NEW c \in Conn, ReaderError(c) PROVE TpInv'
  <2>1. /\ UNCHANGED <<tpEnd, tpTransport, ticker, dialed>>
        /\ \A d \in Conn : reader'[d] # reader[d] => reader[d] = "read"
                                                   /\ reader'[d] = "close"
    BY <1>8 DEF ReaderError, TcpError, tcpVars, TpTypeOK
  <2> QED BY <2>1 DEF TpTypeOK
<1>9. ASSUME NEW c \in Conn, ReaderClose(c) PROVE TpInv'
  <2>1. /\ UNCHANGED <<ticker, dialed>> /\ tpTransport' = None
        /\ \A d \in Conn : reader'[d] \in {reader[d], "none"}
    BY <1>9 DEF ReaderClose, CloseTCP, TpTypeOK
  <2>2. \A d \in Conn : tpEnd'[d] = "open" =>
                           tpEnd[d] = "open" /\ d # tpTransport
    BY <1>9 DEF ReaderClose, CloseTCP, CloseTpEnds, tcpVars
  <2>3. ticker = "set" => dialed \in Conn
    BY DEF TpTypeOK
  <2> QED BY <2>1, <2>2, <2>3
<1>10. ASSUME NEW q \in Query, UdpReceive(q) PROVE TpInv'
  BY <1>10 DEF UdpReceive, tcpVars
<1>11. CASE UdpGetTransport
  BY <1>11 DEF UdpGetTransport, tcpVars
<1>12. CASE UdpWriteOk
  BY <1>12 DEF UdpWriteOk, TpWriteOk, tcpVars
<1>13. CASE UdpWriteError
  BY <1>13 DEF UdpWriteError, TcpError, tcpVars
<1>14. CASE UdpClose
  BY <1>14 DEF UdpClose, CloseTCP, CloseTpEnds, tcpVars
<1> QED BY <1>1, <1>2, <1>3, <1>4, <1>5, <1>6, <1>7, <1>8, <1>9, <1>10,
           <1>11, <1>12, <1>13, <1>14 DEF TpAction, ReaderStep, UdpStep

\* Nothing the AppProxy or the network does touches the TunerProxy's ends.
LEMMA ApActionTpEnd ==
    ASSUME ApAction \/ Cut
    PROVE  UNCHANGED tpEnd
<1> USE DEF tcpVars
<1>1. ASSUME NEW c \in Conn, Accept(c) PROVE UNCHANGED tpEnd
  BY <1>1 DEF Accept, TcpAccept
<1>2. ASSUME NEW c \in Conn, HandlerStep(c) PROVE UNCHANGED tpEnd
  <2>1. CASE HandlerReply(c)
    BY <2>1 DEF HandlerReply, HandlerReplySkips, HandlerReplyLocks,
       HandlerWriteOk, HandlerWriteError, ReplyWriteOk, ReplyWriteError,
       ApWriteOk, TcpError
  <2>2. CASE HandlerLinkUp(c) \/ HandlerSetTransport(c) \/ HandlerDecode(c)
             \/ HandlerTunarr(c) \/ HandlerLinkDown(c)
    BY <2>2 DEF HandlerLinkUp, HandlerSetTransport, HandlerDecode,
       HandlerTunarr, HandlerLinkDown
  <2>3. CASE HandlerRead(c) \/ HandlerError(c) \/ HandlerClear(c)
    BY <2>3 DEF HandlerRead, ApRead, HandlerError, TcpError, HandlerClear,
       CloseApEnds
  <2> QED BY <1>2, <2>1, <2>2, <2>3 DEF HandlerStep
<1>3. ASSUME NEW q \in Query, QueryStep(q) PROVE UNCHANGED tpEnd
  <2>1. CASE QueryReply(q)
    BY <2>1 DEF QueryReply, QueryReplySkips, QueryReplyLocks, QueryWriteOk,
       QueryWriteError, ReplyWriteOk, ReplyWriteError, ApWriteOk, TcpError
  <2>2. CASE QuerySend(q) \/ (\E t \in Tuner : QueryAnswer(q, t))
             \/ QueryDeadline(q) \/ QueryReadError(q)
    BY <2>2 DEF QuerySend, QueryAnswer, QueryDeadline, QueryReadError
  <2> QED BY <1>3, <2>1, <2>2 DEF QueryStep
<1>4. CASE ApRestart
  BY <1>4 DEF ApRestart, CloseApEnds
<1>5. CASE Cut
  BY <1>5 DEF Cut, TcpCut
<1> QED BY <1>1, <1>2, <1>3, <1>4, <1>5 DEF ApAction

LEMMA TpFrame ==
    ASSUME TpTypeOK, TpInv, UNCHANGED <<tpVars, tpEnd>>
    PROVE  TpTypeOK' /\ TpInv'
BY DEF tpVars, TpTypeOK, TpInv, NoLeakedConnection, TransportHasReader

-----------------------------------------------------------------------------
(* The AppProxy's part of the invariant. *)

\* The head of a batch is a query no goroutine has been started for.
LEMMA BatchHead ==
    ASSUME ApTypeOK, QueryOnce, NEW c \in Conn,
           handler[c] \in {"decode", "reply", "write"}
    PROVE  /\ apBatch[c] \in Seq(Query) /\ apBatch[c] # <<>>
           /\ Head(apBatch[c]) \in Query
           /\ Head(apBatch[c]) \in InSeq(apBatch[c])
           /\ Tail(apBatch[c]) \in Seq(Query)
           /\ Len(apBatch[c]) = 1 <=> Tail(apBatch[c]) = <<>>
           /\ asking[Head(apBatch[c])] = "none"
           /\ carrying[Head(apBatch[c])] = None
<1>1. apBatch[c] \in Seq(Query) /\ apBatch[c] # <<>>
  BY DEF ApTypeOK
<1>2. /\ Head(apBatch[c]) \in Query /\ Tail(apBatch[c]) \in Seq(Query)
      /\ Len(apBatch[c]) = 1 <=> Tail(apBatch[c]) = <<>>
      /\ Head(apBatch[c]) \in InSeq(apBatch[c])
  BY <1>1, HeadTailSet
<1>3. asking[Head(apBatch[c])] = "none"
  BY <1>2 DEF QueryOnce
<1>4. carrying[Head(apBatch[c])] = None
  BY <1>2, <1>3 DEF ApTypeOK
<1> QED BY <1>1, <1>2, <1>3, <1>4

LEMMA StartQueryType ==
    ASSUME ApTypeOK, QueryOnce, NEW c \in Conn,
           handler[c] \in {"decode", "reply", "write"}, StartQuery(c),
           apTransport' \in Conn \cup {None}, apLocked' \in BOOLEAN
    PROVE  ApTypeOK'
<1>1. /\ Head(apBatch[c]) \in Query /\ Tail(apBatch[c]) \in Seq(Query)
      /\ Len(apBatch[c]) = 1 <=> Tail(apBatch[c]) = <<>>
      /\ carrying[Head(apBatch[c])] = None
  BY BatchHead
<1> QED BY <1>1 DEF StartQuery, linkVars, ApTypeOK

LEMMA HandlerType ==
    ASSUME TcpOK, ApTypeOK, ApInv, QueryOnce, NEW c \in Conn, HandlerStep(c)
    PROVE  TcpOK' /\ ApTypeOK'
<1> USE DEF tcpVars, linkVars, queryVars
<1>1. CASE HandlerLinkUp(c)
  BY <1>1 DEF HandlerLinkUp, TcpOK, ApTypeOK
<1>2. CASE HandlerSetTransport(c)
  BY <1>2 DEF HandlerSetTransport, TcpOK, ApTypeOK
<1>3. CASE HandlerRead(c)
  <2>1. PICK n \in 1..Cap :
           /\ ApRead(c, n)
           /\ apBatch' = [apBatch EXCEPT ![c] = SubSeq(toAp[c], 1, n)]
    BY <1>3 DEF HandlerRead
  <2>2. /\ TcpOK'
        /\ SubSeq(toAp[c], 1, n) \in Seq(Query)
        /\ SubSeq(toAp[c], 1, n) # <<>>
    BY <2>1, ApReadType
  <2> QED BY <1>3, <2>1, <2>2 DEF HandlerRead, ApTypeOK
<1>4. CASE HandlerDecode(c)
  BY <1>4, StartQueryType DEF HandlerDecode, TcpOK, ApTypeOK
<1>5. CASE HandlerTunarr(c)
  BY <1>5 DEF HandlerTunarr, TcpOK, ApTypeOK
<1>6. CASE HandlerReplySkips(c)
  BY <1>6, StartQueryType DEF HandlerReplySkips, TcpOK, ApTypeOK
<1>7. CASE HandlerReplyLocks(c)
  BY <1>7 DEF HandlerReplyLocks, ReplyLocks, TcpOK, ApTypeOK
<1>8. CASE HandlerWriteOk(c)
  <2>1. apTransport \in Conn /\ TunarrOn
    BY <1>8 DEF HandlerWriteOk, ApInv, Mutex, HandlerWrites, ApTypeOK
  <2>2. <<Head(apBatch[c]), Tunarr>> \in Reply
    BY <1>8, <2>1, BatchHead DEF HandlerWriteOk, Reply, Source
  <2>3. TcpOK'
    BY <1>8, <2>1, <2>2, ApWriteType DEF HandlerWriteOk, ReplyWriteOk
  <2>4. ApTypeOK'
    BY <1>8, StartQueryType
       DEF HandlerWriteOk, ReplyWriteOk, ApTypeOK
  <2> QED BY <2>3, <2>4
<1>9. CASE HandlerWriteError(c)
  BY <1>9, StartQueryType
     DEF HandlerWriteError, ReplyWriteError, TcpError, TcpOK, ApTypeOK
<1>10. CASE HandlerError(c)
  BY <1>10 DEF HandlerError, TcpError, TcpOK, ApTypeOK
<1>11. CASE HandlerLinkDown(c)
  BY <1>11 DEF HandlerLinkDown, TcpOK, ApTypeOK
<1>12. CASE HandlerClear(c)
  BY <1>12, CloseApType DEF HandlerClear, ApTypeOK
<1> QED BY <1>1, <1>2, <1>3, <1>4, <1>5, <1>6, <1>7, <1>8, <1>9, <1>10,
           <1>11, <1>12 DEF HandlerStep, HandlerReply

\* Steps that neither take nor release the mutex.
LEMMA MutexFrame ==
    ASSUME Mutex, UNCHANGED <<apLocked, apTransport>>,
           \A c \in Conn : handler'[c] = "write" <=> handler[c] = "write",
           \A q \in Query : asking'[q] = "write" <=> asking[q] = "write"
    PROVE  Mutex'
BY DEF Mutex, HandlerWrites, QueryWrites

LEMMA AcceptType ==
    ASSUME TcpOK, ApTypeOK, ApInv, NEW c \in Conn, Accept(c)
    PROVE  TcpOK' /\ ApTypeOK'
<1>1. TcpOK'
  BY DEF Accept, TcpAccept, TcpOK
<1>2. handler[c] = "none"
  BY DEF Accept, TcpAccept, ApInv, ApTypeOK
<1>3. ApTypeOK'
  BY <1>2 DEF Accept, ApTypeOK, linkVars, queryVars
<1> QED BY <1>1, <1>3

LEMMA QuerierType ==
    ASSUME TcpOK, ApTypeOK, ApInv, NEW q \in Query, QueryStep(q)
    PROVE  TcpOK' /\ ApTypeOK'
<1> USE MessagesAssumption DEF tcpVars, linkVars
<1>1. CASE QuerySend(q)
  <2>1. TcpOK'
    BY <1>1 DEF QuerySend, TcpOK
  <2>2. /\ UNCHANGED <<apTransport, apLocked, apLinkUp, apLinkPeer, handler,
                       apBatch, carrying, hdhr>>
        /\ asking[q] = "send"
        /\ \E a \in {"wait", "none"} : asking' = [asking EXCEPT ![q] = a]
        /\ \E S \in SUBSET Tuner : awaiting' = [awaiting EXCEPT ![q] = S]
    BY <1>1 DEF QuerySend, QueryEnds
  <2>3. ApTypeOK'
    BY <2>2 DEF ApTypeOK
  <2> QED BY <2>1, <2>3
<1>2. ASSUME NEW t \in Tuner, QueryAnswer(q, t) PROVE TcpOK' /\ ApTypeOK'
  BY <1>2 DEF QueryAnswer, TcpOK, ApTypeOK
<1>3. CASE QueryReplySkips(q)
  BY <1>3 DEF QueryReplySkips, QueryReplied, TcpOK, ApTypeOK
<1>4. CASE QueryReplyLocks(q)
  BY <1>4 DEF QueryReplyLocks, ReplyLocks, TcpOK, ApTypeOK
<1>5. CASE QueryWriteOk(q)
  <2>1. apTransport \in Conn /\ carrying[q] \in Tuner
    BY <1>5 DEF QueryWriteOk, ApInv, Mutex, QueryWrites, ApTypeOK
  <2>2. <<q, carrying[q]>> \in Reply
    BY <2>1 DEF Reply, Source
  <2>3. TcpOK'
    BY <1>5, <2>1, <2>2, ApWriteType DEF QueryWriteOk, ReplyWriteOk
  <2>4. ApTypeOK'
    BY <1>5 DEF QueryWriteOk, QueryReplied, ReplyWriteOk, ApTypeOK
  <2> QED BY <2>3, <2>4
<1>6. CASE QueryWriteError(q)
  BY <1>6 DEF QueryWriteError, QueryReplied, ReplyWriteError, TcpError, TcpOK,
     ApTypeOK
<1>7. CASE QueryDeadline(q)
  BY <1>7 DEF QueryDeadline, QueryEnds, TcpOK, ApTypeOK
<1>8. CASE QueryReadError(q)
  BY <1>8 DEF QueryReadError, QueryEnds, TcpOK, ApTypeOK
<1> QED BY <1>1, <1>2, <1>3, <1>4, <1>5, <1>6, <1>7, <1>8
        DEF QueryStep, QueryReply

LEMMA ApActionType ==
    ASSUME TcpOK, ApTypeOK, ApInv, QueryOnce, ApAction
    PROVE  TcpOK' /\ ApTypeOK'
<1>1. CASE ApRestart
  <2>1. <<>> \in Seq(Query)
    BY EmptySeq
  <2>2. TcpOK'
    BY <1>1, CloseApType DEF ApRestart
  <2> QED BY <1>1, <2>1, <2>2 DEF ApRestart, ApTypeOK
<1> QED BY <1>1, AcceptType, HandlerType, QuerierType DEF ApAction

LEMMA HandlerInv ==
    ASSUME TcpOK, ApTypeOK, ApInv, QueryOnce, NEW c \in Conn, HandlerStep(c)
    PROVE  ApInv'
<1> USE LinkAssumption
    DEF ApInv, ApTypeOK, TransportIsServed, LinkPeerIsServed, Serving, Mutex,
        HandlerWrites, QueryWrites, linkVars, queryVars, tcpVars
<1>1. CASE HandlerLinkUp(c)
  BY <1>1 DEF HandlerLinkUp
<1>2. CASE HandlerSetTransport(c)
  BY <1>2 DEF HandlerSetTransport
<1>3. CASE HandlerRead(c)
  BY <1>3 DEF HandlerRead, ApRead
<1>4. CASE HandlerDecode(c)
  BY <1>4, BatchHead DEF HandlerDecode, StartQuery
<1>5. CASE HandlerTunarr(c)
  BY <1>5 DEF HandlerTunarr
<1>6. CASE HandlerReplySkips(c)
  BY <1>6, BatchHead DEF HandlerReplySkips, StartQuery
<1>7. CASE HandlerReplyLocks(c)
  BY <1>7 DEF HandlerReplyLocks, ReplyLocks
<1>8. CASE HandlerWriteOk(c)
  BY <1>8, BatchHead DEF HandlerWriteOk, StartQuery, ReplyWriteOk, ApWriteOk
<1>9. CASE HandlerWriteError(c)
  BY <1>9, BatchHead
     DEF HandlerWriteError, StartQuery, ReplyWriteError, TcpError
<1>10. CASE HandlerError(c)
  BY <1>10 DEF HandlerError, TcpError
<1>11. CASE HandlerLinkDown(c)
  BY <1>11 DEF HandlerLinkDown
<1>12. CASE HandlerClear(c)
  BY <1>12 DEF HandlerClear, CloseApEnds, TcpOK
<1> QED BY <1>1, <1>2, <1>3, <1>4, <1>5, <1>6, <1>7, <1>8, <1>9, <1>10,
           <1>11, <1>12 DEF HandlerStep, HandlerReply

LEMMA QuerierInv ==
    ASSUME TcpOK, ApTypeOK, ApInv, NEW q \in Query, QueryStep(q)
    PROVE  ApInv'
<1> USE LinkAssumption
    DEF ApInv, ApTypeOK, TransportIsServed, LinkPeerIsServed, Serving, Mutex,
        HandlerWrites, QueryWrites, linkVars, tcpVars
<1>1. CASE QuerySend(q)
  <2>1. /\ UNCHANGED <<handler, apEnd, apTransport, apLocked, apLinkUp,
                       apLinkPeer>>
        /\ \A p \in Query : asking'[p] = "write" <=> asking[p] = "write"
    BY <1>1 DEF QuerySend, QueryEnds
  <2> QED BY <2>1, MutexFrame
<1>2. ASSUME NEW t \in Tuner, QueryAnswer(q, t) PROVE ApInv'
  BY <1>2 DEF QueryAnswer
<1>3. CASE QueryReplySkips(q)
  BY <1>3 DEF QueryReplySkips, QueryReplied
<1>4. CASE QueryReplyLocks(q)
  BY <1>4 DEF QueryReplyLocks, ReplyLocks
<1>5. CASE QueryWriteOk(q)
  BY <1>5 DEF QueryWriteOk, QueryReplied, ReplyWriteOk, ApWriteOk
<1>6. CASE QueryWriteError(q)
  BY <1>6 DEF QueryWriteError, QueryReplied, ReplyWriteError, TcpError
<1>7. CASE QueryDeadline(q)
  BY <1>7 DEF QueryDeadline, QueryEnds
<1>8. CASE QueryReadError(q)
  BY <1>8 DEF QueryReadError, QueryEnds
<1> QED BY <1>1, <1>2, <1>3, <1>4, <1>5, <1>6, <1>7, <1>8
        DEF QueryStep, QueryReply

LEMMA ApActionInv ==
    ASSUME TcpOK, ApTypeOK, ApInv, QueryOnce, ApAction
    PROVE  ApInv'
<1> USE DEF ApInv, ApTypeOK, TransportIsServed, LinkPeerIsServed, linkVars,
            queryVars
<1>1. ASSUME NEW c \in Conn, Accept(c) PROVE ApInv'
  <2>1. /\ handler[c] = "none" /\ handler'[c] = "link"
        /\ apEnd'[c] = "open"
        /\ \A d \in Conn \ {c} :
              handler'[d] = handler[d] /\ apEnd'[d] = apEnd[d]
        /\ UNCHANGED <<apTransport, apLocked, apLinkUp, apLinkPeer, asking>>
    BY <1>1 DEF Accept, TcpAccept, TcpOK
  <2>2. TransportIsServed'
    BY <2>1 DEF Serving
  <2>3. Mutex'
    BY <2>1, MutexFrame
  <2>4. ASSUME NEW d \in Conn
        PROVE  /\ apEnd'[d] = "open" <=> handler'[d] # "none"
               /\ handler'[d] \in {"reply", "write"} => TunarrOn
    <3>1. CASE d = c
      BY <2>1, <3>1
    <3>2. CASE d # c
      BY <2>1, <3>2
    <3> QED BY <3>1, <3>2
  <2>5. (apLinkUp => apLinkPeer \in Conn)' /\ LinkPeerIsServed'
    BY <2>1
  <2> QED BY <2>2, <2>3, <2>4, <2>5
<1>2. CASE ApRestart
  BY <1>2 DEF ApRestart, CloseApEnds, TcpOK, Mutex, HandlerWrites, QueryWrites
<1> QED BY <1>1, <1>2, HandlerInv, QuerierInv DEF ApAction

\* Nothing the TunerProxy or the network does opens or closes an AppProxy's end.
LEMMA TpActionApEnd ==
    ASSUME TcpOK, TpAction \/ Cut, NEW d \in Conn
    PROVE  apEnd'[d] = "open" <=> apEnd[d] = "open"
<1> USE DEF tcpVars
<1>1. ASSUME NEW c \in Conn, DialOk(c)
      PROVE  apEnd'[d] = "open" <=> apEnd[d] = "open"
  BY <1>1 DEF DialOk, TcpDial, TcpOK
<1>2. ASSUME NEW c \in Conn, ReaderStep(c) PROVE UNCHANGED apEnd
  BY <1>2 DEF ReaderStep, ReaderRead, TpRead, ReaderDeliver, ReaderError,
     TcpError, ReaderClose, CloseTCP, CloseTpEnds
<1>3. CASE UdpStep
  BY <1>3 DEF UdpStep, UdpGetTransport, UdpWriteOk, TpWriteOk, UdpWriteError,
     TcpError, UdpClose, CloseTCP, CloseTpEnds
<1>4. CASE Tick \/ SetTCPTransport \/ DialFails \/ TpRestart
  BY <1>4 DEF Tick, SetTCPTransport, DialFails, TpRestart, CloseTpEnds
<1>5. ASSUME NEW q \in Query, UdpReceive(q) PROVE UNCHANGED apEnd
  BY <1>5 DEF UdpReceive
<1>6. CASE Cut
  BY <1>6 DEF Cut, TcpCut
<1> QED BY <1>1, <1>2, <1>3, <1>4, <1>5, <1>6 DEF TpAction

LEMMA ApFrame ==
    ASSUME ApTypeOK, ApInv, UNCHANGED apVars,
           \A c \in Conn : apEnd'[c] = "open" <=> apEnd[c] = "open"
    PROVE  ApTypeOK' /\ ApInv'
BY DEF apVars, ApTypeOK, ApInv, TransportIsServed, LinkPeerIsServed, Mutex,
   HandlerWrites, QueryWrites

-----------------------------------------------------------------------------
(* A query is in one place. *)

LEMMA Shrinks ==
    ASSUME NEW f, NEW g, NEW f2, NEW g2,
           AllDistinct(f), AllDistinct(g), Apart(f, g),
           \A c \in Conn :
              InSeq(f2[c]) \subseteq InSeq(f[c]) /\ Distinct(f2[c]),
           \A c \in Conn : InSeq(g2[c]) \subseteq InSeq(g[c]) /\ Distinct(g2[c])
    PROVE  AllDistinct(f2) /\ AllDistinct(g2) /\ Apart(f2, g2)
<1>1. ASSUME NEW c \in Conn, NEW d \in Conn
      PROVE  /\ c # d => InSeq(f2[c]) \cap InSeq(f2[d]) = {}
             /\ c # d => InSeq(g2[c]) \cap InSeq(g2[d]) = {}
             /\ InSeq(f2[c]) \cap InSeq(g2[d]) = {}
  <2>1. /\ InSeq(f2[c]) \subseteq InSeq(f[c])
        /\ InSeq(f2[d]) \subseteq InSeq(f[d])
        /\ InSeq(g2[c]) \subseteq InSeq(g[c])
        /\ InSeq(g2[d]) \subseteq InSeq(g[d])
    OBVIOUS
  <2>2. /\ c # d => InSeq(f[c]) \cap InSeq(f[d]) = {}
        /\ c # d => InSeq(g[c]) \cap InSeq(g[d]) = {}
        /\ InSeq(f[c]) \cap InSeq(g[d]) = {}
    BY DEF AllDistinct, Apart
  <2> QED BY <2>1, <2>2
<1> QED BY <1>1 DEF AllDistinct, Apart

\* One element is added that was in neither.
LEMMA Grows ==
    ASSUME NEW f, NEW g, NEW f2, NEW e \in Conn, NEW x,
           AllDistinct(f), AllDistinct(g), Apart(f, g),
           \A c \in Conn : x \notin InSeq(f[c]) \cup InSeq(g[c]),
           \A c \in Conn \ {e} : f2[c] = f[c],
           InSeq(f2[e]) = InSeq(f[e]) \cup {x}, Distinct(f2[e])
    PROVE  AllDistinct(f2) /\ Apart(f2, g)
<1>1. \A c \in Conn : Distinct(f2[c])
  BY DEF AllDistinct
<1>2. ASSUME NEW c \in Conn, NEW d \in Conn
      PROVE  /\ c # d => InSeq(f2[c]) \cap InSeq(f2[d]) = {}
             /\ InSeq(f2[c]) \cap InSeq(g[d]) = {}
  <2>1. /\ c # d => InSeq(f[c]) \cap InSeq(f[d]) = {}
        /\ InSeq(f[c]) \cap InSeq(g[d]) = {}
        /\ x \notin InSeq(f[c]) \cup InSeq(f[d]) \cup InSeq(g[d])
    BY DEF AllDistinct, Apart
  <2>2. /\ InSeq(f2[c]) \subseteq InSeq(f[c]) \cup {x}
        /\ InSeq(f2[d]) \subseteq InSeq(f[d]) \cup {x}
        /\ c # e => InSeq(f2[c]) = InSeq(f[c])
        /\ d # e => InSeq(f2[d]) = InSeq(f[d])
    OBVIOUS
  <2> QED BY <2>1, <2>2
<1> QED BY <1>1, <1>2 DEF AllDistinct, Apart

\* A Read moves elements of f[e] to g[e], which is empty.
LEMMA Moves ==
    ASSUME NEW f, NEW g, NEW f2, NEW g2, NEW e \in Conn,
           AllDistinct(f), AllDistinct(g), Apart(f, g), InSeq(g[e]) = {},
           \A c \in Conn \ {e} : f2[c] = f[c] /\ g2[c] = g[c],
           InSeq(f[e]) = InSeq(f2[e]) \cup InSeq(g2[e]),
           InSeq(f2[e]) \cap InSeq(g2[e]) = {},
           Distinct(f2[e]), Distinct(g2[e])
    PROVE  AllDistinct(f2) /\ AllDistinct(g2) /\ Apart(f2, g2)
<1>1. \A c \in Conn : Distinct(f2[c]) /\ Distinct(g2[c])
  BY DEF AllDistinct
<1>2. ASSUME NEW c \in Conn, NEW d \in Conn
      PROVE  /\ c # d => InSeq(f2[c]) \cap InSeq(f2[d]) = {}
             /\ c # d => InSeq(g2[c]) \cap InSeq(g2[d]) = {}
             /\ InSeq(f2[c]) \cap InSeq(g2[d]) = {}
  <2>1. /\ c # d => InSeq(f[c]) \cap InSeq(f[d]) = {}
        /\ c # d => InSeq(g[c]) \cap InSeq(g[d]) = {}
        /\ InSeq(f[c]) \cap InSeq(g[d]) = {}
        /\ InSeq(f[d]) \cap InSeq(g[c]) = {}
    BY DEF AllDistinct, Apart
  <2>2. /\ c # e => InSeq(f2[c]) = InSeq(f[c]) /\ InSeq(g2[c]) = InSeq(g[c])
        /\ d # e => InSeq(f2[d]) = InSeq(f[d]) /\ InSeq(g2[d]) = InSeq(g[d])
    OBVIOUS
  <2>3. CASE c = e /\ d = e
    BY <2>3
  <2>4. CASE c = e /\ d # e
    BY <2>1, <2>2, <2>4
  <2>5. CASE c # e /\ d = e
    BY <2>1, <2>2, <2>5
  <2>6. CASE c # e /\ d # e
    BY <2>1, <2>2, <2>6
  <2> QED BY <2>3, <2>4, <2>5, <2>6
<1> QED BY <1>1, <1>2 DEF AllDistinct, Apart

LEMMA QueryTypes ==
    ASSUME TcpOK, ApTypeOK, NEW c \in Conn
    PROVE  /\ toAp[c] \in Seq(Query) /\ apBatch[c] \in Seq(Query)
           /\ InSeq(toAp[c]) \subseteq Query
           /\ InSeq(apBatch[c]) \subseteq Query
           /\ None \notin InSeq(toAp[c]) \cup InSeq(apBatch[c])
<1>1. toAp[c] \in Seq(Query) /\ apBatch[c] \in Seq(Query)
  BY DEF TcpOK, ApTypeOK
<1>2. ASSUME NEW s \in Seq(Query) PROVE InSeq(s) \subseteq Query
  BY LenProperties, ElementOfSeq DEF InSeq
<1> QED BY <1>1, <1>2, MessagesAssumption

\* Steps by which queries stay where they are or are lost.
LEMMA QueryShrinks ==
    ASSUME TcpOK, ApTypeOK, QueryOnce,
           \A c \in Conn : toAp'[c] \in {toAp[c], <<>>},
           \A c \in Conn : apBatch'[c] \in {apBatch[c], <<>>},
           udp'.query \in {udp.query, None}, UNCHANGED asked,
           \A q \in Query : asking'[q] # "none" => asking[q] # "none"
    PROVE  QueryOnce'
<1>1. \A c \in Conn :
          /\ InSeq(toAp'[c]) \subseteq InSeq(toAp[c])
          /\ InSeq(apBatch'[c]) \subseteq InSeq(apBatch[c])
          /\ Distinct(toAp'[c]) /\ Distinct(apBatch'[c])
  BY EmptySeqSet DEF QueryOnce, AllDistinct
<1>2. AllDistinct(toAp') /\ AllDistinct(apBatch') /\ Apart(toAp', apBatch')
  BY <1>1, Shrinks DEF QueryOnce
<1>3. ASSUME NEW c \in Conn, NEW q \in InSeq(toAp'[c]) \cup InSeq(apBatch'[c])
      PROVE  q \in asked' /\ q # udp'.query /\ asking'[q] = "none"
  <2>1. q \in InSeq(toAp[c]) \cup InSeq(apBatch[c])
    BY <1>1, <1>3
  <2>2. q \in asked /\ q # udp.query /\ asking[q] = "none" /\ q \in Query
        /\ q # None
    BY <2>1, QueryTypes DEF QueryOnce
  <2> QED BY <2>2
<1>4. \A q \in Query : asking'[q] # "none" => q \in asked' /\ q # udp'.query
  BY MessagesAssumption DEF QueryOnce
<1>5. udp'.query # None => udp'.query \in asked'
  BY DEF QueryOnce
<1> QED BY <1>2, <1>3, <1>4, <1>5 DEF QueryOnce

LEMMA ReceiveQueryOnce ==
    ASSUME TcpOK, TpTypeOK, ApTypeOK, QueryOnce, UNCHANGED apVars,
           NEW q \in Query, UdpReceive(q)
    PROVE  QueryOnce'
<1>1. /\ UNCHANGED <<toAp, apBatch, asking>> /\ q \notin asked
      /\ asked' = asked \cup {q} /\ udp'.query \in {None, q}
  BY DEF UdpReceive, tcpVars, apVars, UdpIdle
<1> QED BY <1>1, QueryTypes, MessagesAssumption DEF QueryOnce

\* The broadcast goroutine writes the query to a buffer.
LEMMA WriteQueryOnce ==
    ASSUME TcpOK, TpTypeOK, ApTypeOK, QueryOnce, UNCHANGED apVars, UdpWriteOk
    PROVE  QueryOnce'
<1> DEFINE q == udp.query
           e == udp.conn
<1>1. /\ q \in Query /\ e \in Conn /\ TpWriteOk(e, q)
      /\ udp'.query = None /\ UNCHANGED <<asked, apBatch, asking>>
  BY DEF UdpWriteOk, TpTypeOK, UdpIdle, UdpFailed, apVars
<1>2. CASE UNCHANGED tcpVars
  BY <1>1, <1>2, QueryShrinks DEF tcpVars
<1>3. CASE toAp' = [toAp EXCEPT ![e] = Append(@, q)]
  <2>1. /\ InSeq(toAp'[e]) = InSeq(toAp[e]) \cup {q} /\ Distinct(toAp'[e])
        /\ \A c \in Conn \ {e} : toAp'[c] = toAp[c]
        /\ \A c \in Conn : q \notin InSeq(toAp[c]) \cup InSeq(apBatch[c])
        /\ q \in asked /\ asking[q] = "none"
    <3>1. /\ \A c \in Conn : q \notin InSeq(toAp[c]) \cup InSeq(apBatch[c])
          /\ q \in asked /\ asking[q] = "none" /\ Distinct(toAp[e])
      BY <1>1, MessagesAssumption DEF QueryOnce, AllDistinct
    <3>2. toAp[e] \in Seq(Query)
      BY <1>1, QueryTypes
    <3>3. /\ InSeq(Append(toAp[e], q)) = InSeq(toAp[e]) \cup {q}
          /\ Distinct(Append(toAp[e], q))
      BY <1>1, <3>1, <3>2, AppendSet
    <3>4. /\ toAp'[e] = Append(toAp[e], q)
          /\ \A c \in Conn \ {e} : toAp'[c] = toAp[c]
      BY <1>1, <1>3 DEF TcpOK
    <3> QED BY <3>1, <3>3, <3>4
  <2>2. AllDistinct(toAp') /\ Apart(toAp', apBatch)
    <3>1. AllDistinct(toAp) /\ AllDistinct(apBatch) /\ Apart(toAp, apBatch)
      BY DEF QueryOnce
    <3>2. e \in Conn
      BY <1>1
    <3> HIDE DEF q, e
    <3> QED BY <2>1, <3>1, <3>2, Grows
  <2>3. ASSUME NEW c \in Conn, NEW p \in InSeq(toAp'[c]) \cup InSeq(apBatch'[c])
        PROVE  p \in asked' /\ p # udp'.query /\ asking'[p] = "none"
    <3>1. p = q \/ p \in InSeq(toAp[c]) \cup InSeq(apBatch[c])
      BY <1>1, <2>1, <2>3
    <3>2. p # None
      BY <1>1, <3>1, QueryTypes, MessagesAssumption
    <3> QED BY <1>1, <2>1, <3>1, <3>2 DEF QueryOnce
  <2>4. \A p \in Query : asking'[p] # "none" => p \in asked' /\ p # udp'.query
    BY <1>1, MessagesAssumption DEF QueryOnce
  <2> QED BY <1>1, <2>2, <2>3, <2>4 DEF QueryOnce
<1> QED BY <1>1, <1>2, <1>3 DEF TpWriteOk

LEMMA TpActionQueryOnce ==
    ASSUME TcpOK, TpTypeOK, ApTypeOK, QueryOnce, UNCHANGED apVars, TpAction
    PROVE  QueryOnce'
<1> DEFINE Shrunk == /\ \A c \in Conn : toAp'[c] \in {toAp[c], <<>>}
                     /\ udp'.query \in {udp.query, None}
                     /\ UNCHANGED asked
<1>1. ASSUME Shrunk PROVE QueryOnce'
  BY <1>1, QueryShrinks DEF apVars
<1> USE DEF tcpVars
<1>2. ASSUME NEW c \in Conn, DialOk(c) PROVE QueryOnce'
  BY <1>1, <1>2 DEF DialOk, TcpDial, TcpOK
<1>3. ASSUME NEW c \in Conn, ReaderStep(c) PROVE QueryOnce'
  BY <1>1, <1>3 DEF ReaderStep, ReaderRead, TpRead, ReaderDeliver, ReaderError,
     TcpError, ReaderClose, CloseTCP, CloseTpEnds
<1>4. CASE UdpGetTransport \/ UdpWriteError \/ UdpClose
  BY <1>1, <1>4 DEF UdpGetTransport, UdpWriteError, TcpError, UdpClose,
     CloseTCP, CloseTpEnds, UdpIdle, UdpFailed
<1>5. CASE Tick \/ SetTCPTransport \/ DialFails \/ TpRestart
  BY <1>1, <1>5 DEF Tick, SetTCPTransport, DialFails, TpRestart, CloseTpEnds,
     UdpIdle
<1> QED BY <1>2, <1>3, <1>4, <1>5, ReceiveQueryOnce, WriteQueryOnce
        DEF TpAction, UdpStep

\* A handler's Read moves queries from the buffer to the batch.
LEMMA HandlerReadSets ==
    ASSUME TcpOK, ApTypeOK, QueryOnce, NEW c \in Conn, HandlerRead(c)
    PROVE  /\ InSeq(apBatch[c]) = {}
           /\ \A d \in Conn \ {c} :
                 toAp'[d] = toAp[d] /\ apBatch'[d] = apBatch[d]
           /\ InSeq(toAp[c]) = InSeq(toAp'[c]) \cup InSeq(apBatch'[c])
           /\ InSeq(toAp'[c]) \cap InSeq(apBatch'[c]) = {}
           /\ Distinct(toAp'[c]) /\ Distinct(apBatch'[c])
<1>1. PICK n \in 1..Cap :
         /\ ApRead(c, n)
         /\ apBatch' = [apBatch EXCEPT ![c] = SubSeq(toAp[c], 1, n)]
  BY DEF HandlerRead
<1>2. apBatch[c] = <<>>
  BY DEF HandlerRead, ApTypeOK
<1>3. toAp[c] \in Seq(Query) /\ Distinct(toAp[c]) /\ n \in 1..Len(toAp[c])
  BY <1>1, QueryTypes DEF ApRead, QueryOnce, AllDistinct
<1>4. /\ toAp'[c] = SubSeq(toAp[c], n + 1, Len(toAp[c]))
      /\ apBatch'[c] = SubSeq(toAp[c], 1, n)
      /\ \A d \in Conn \ {c} : toAp'[d] = toAp[d] /\ apBatch'[d] = apBatch[d]
  BY <1>1 DEF ApRead, TcpOK, ApTypeOK
<1>5. /\ InSeq(toAp[c]) = InSeq(toAp'[c]) \cup InSeq(apBatch'[c])
      /\ InSeq(toAp'[c]) \cap InSeq(apBatch'[c]) = {}
      /\ Distinct(toAp'[c]) /\ Distinct(apBatch'[c])
  BY <1>3, <1>4, SplitSet
<1> QED BY <1>2, <1>4, <1>5, EmptySeqSet

LEMMA ReadQueryOnce ==
    ASSUME TcpOK, ApTypeOK, QueryOnce, UNCHANGED tpVars,
           NEW c \in Conn, HandlerRead(c)
    PROVE  QueryOnce'
<1>1. UNCHANGED <<udp, asked, asking>>
  BY DEF HandlerRead, tpVars, queryVars
<1>2. AllDistinct(toAp') /\ AllDistinct(apBatch') /\ Apart(toAp', apBatch')
  <2>1. AllDistinct(toAp) /\ AllDistinct(apBatch) /\ Apart(toAp, apBatch)
    BY DEF QueryOnce
  <2> QED BY <2>1, HandlerReadSets, Moves
<1>3. \A d \in Conn : InSeq(toAp'[d]) \cup InSeq(apBatch'[d])
                            \subseteq InSeq(toAp[d]) \cup InSeq(apBatch[d])
  BY HandlerReadSets
<1> QED BY <1>1, <1>2, <1>3 DEF QueryOnce

\* The head of a batch becomes the query of a goroutine.
LEMMA StartQuerySets ==
    ASSUME TcpOK, ApTypeOK, QueryOnce, NEW c \in Conn,
           handler[c] \in {"decode", "reply", "write"}, StartQuery(c),
           NEW h, h = Head(apBatch[c])
    PROVE  /\ h \in Query /\ h \in InSeq(apBatch[c]) /\ asking'[h] = "send"
           /\ \A q \in Query \ {h} : asking'[q] = asking[q]
           /\ \A d \in Conn \ {c} : apBatch'[d] = apBatch[d]
           /\ InSeq(apBatch[c]) = {h} \cup InSeq(apBatch'[c])
           /\ \A d \in Conn : /\ InSeq(apBatch'[d]) \subseteq InSeq(apBatch[d])
                              /\ Distinct(apBatch'[d])
                              /\ h \notin InSeq(toAp[d]) \cup InSeq(apBatch'[d])
<1>1. /\ apBatch[c] \in Seq(Query) /\ apBatch[c] # <<>> /\ h \in Query
      /\ h \in InSeq(apBatch[c])
  BY BatchHead
<1>2. /\ apBatch'[c] = Tail(apBatch[c]) /\ asking'[h] = "send"
      /\ \A d \in Conn \ {c} : apBatch'[d] = apBatch[d]
      /\ \A q \in Query \ {h} : asking'[q] = asking[q]
  BY <1>1 DEF StartQuery, ApTypeOK
<1>3. /\ InSeq(apBatch[c]) = {h} \cup InSeq(apBatch'[c])
      /\ Distinct(apBatch'[c]) /\ h \notin InSeq(apBatch'[c])
  BY <1>1, <1>2, HeadTailSet DEF QueryOnce, AllDistinct
<1>4. /\ \A d \in Conn : InSeq(apBatch'[d]) \subseteq InSeq(apBatch[d])
      /\ \A d \in Conn : Distinct(apBatch'[d])
  BY <1>2, <1>3 DEF QueryOnce, AllDistinct
<1>5. ASSUME NEW d \in Conn
      PROVE  h \notin InSeq(toAp[d]) \cup InSeq(apBatch'[d])
  BY <1>1, <1>2, <1>3 DEF QueryOnce, AllDistinct, Apart
<1> QED BY <1>1, <1>2, <1>3, <1>4, <1>5

LEMMA StartQueryOnce ==
    ASSUME TcpOK, ApTypeOK, QueryOnce, UNCHANGED <<tpVars, toAp>>,
           NEW c \in Conn, handler[c] \in {"decode", "reply", "write"},
           StartQuery(c)
    PROVE  QueryOnce'
<1> DEFINE h == Head(apBatch[c])
<1> HIDE DEF h
<1>1. /\ h \in Query /\ h \in InSeq(apBatch[c]) /\ asking'[h] = "send"
      /\ \A q \in Query \ {h} : asking'[q] = asking[q]
      /\ \A d \in Conn : /\ InSeq(apBatch'[d]) \subseteq InSeq(apBatch[d])
                         /\ Distinct(apBatch'[d])
                         /\ h \notin InSeq(toAp[d]) \cup InSeq(apBatch'[d])
  BY StartQuerySets DEF h
<1>2. AllDistinct(apBatch') /\ Apart(toAp, apBatch')
  <2>1. \A d \in Conn : Distinct(toAp[d])
    BY DEF QueryOnce, AllDistinct
  <2> QED BY <1>1, <2>1, Shrinks DEF QueryOnce
<1>3. h \in asked /\ h # udp.query /\ UNCHANGED <<udp, asked>>
  BY <1>1 DEF QueryOnce, tpVars
<1>4. ASSUME NEW d \in Conn, NEW q \in InSeq(toAp[d]) \cup InSeq(apBatch'[d])
      PROVE  q \in asked /\ q # udp.query /\ asking'[q] = "none"
  <2>1. q \in InSeq(toAp[d]) \cup InSeq(apBatch[d]) /\ q \in Query \ {h}
    BY <1>1, QueryTypes
  <2> QED BY <1>1, <2>1 DEF QueryOnce
<1>5. \A q \in Query : asking'[q] # "none" => q \in asked /\ q # udp.query
  BY <1>1, <1>3 DEF QueryOnce
<1> QED BY <1>2, <1>3, <1>4, <1>5 DEF QueryOnce

LEMMA ApActionQueryOnce ==
    ASSUME TcpOK, ApTypeOK, QueryOnce, UNCHANGED tpVars, ApAction
    PROVE  QueryOnce'
<1> DEFINE Shrunk ==
           /\ \A c \in Conn : toAp'[c] \in {toAp[c], <<>>}
           /\ \A c \in Conn : apBatch'[c] \in {apBatch[c], <<>>}
           /\ \A q \in Query : asking'[q] # "none" => asking[q] # "none"
<1>1. ASSUME Shrunk PROVE QueryOnce'
  BY <1>1, QueryShrinks DEF tpVars
<1> USE DEF tcpVars, queryVars, linkVars
<1>2. ASSUME NEW c \in Conn, Accept(c) PROVE QueryOnce'
  BY <1>1, <1>2 DEF Accept, TcpAccept
<1>3. ASSUME NEW c \in Conn, HandlerStep(c) PROVE QueryOnce'
  <2>1. CASE HandlerLinkUp(c) \/ HandlerSetTransport(c) \/ HandlerTunarr(c)
             \/ HandlerLinkDown(c)
    BY <1>1, <2>1 DEF HandlerLinkUp, HandlerSetTransport, HandlerTunarr,
       HandlerLinkDown
  <2>2. CASE HandlerError(c) \/ HandlerClear(c) \/ HandlerReplyLocks(c)
    BY <1>1, <2>2 DEF HandlerError, TcpError, HandlerClear, CloseApEnds,
       HandlerReplyLocks
  <2>3. CASE HandlerDecode(c) \/ HandlerReplySkips(c)
    BY <2>3, StartQueryOnce DEF HandlerDecode, HandlerReplySkips
  <2>4. CASE HandlerWriteOk(c) \/ HandlerWriteError(c)
    BY <2>4, StartQueryOnce DEF HandlerWriteOk, HandlerWriteError,
       ReplyWriteOk, ReplyWriteError, ApWriteOk, TcpError
  <2> QED BY <1>3, <2>1, <2>2, <2>3, <2>4, ReadQueryOnce
          DEF HandlerStep, HandlerReply
<1>4. ASSUME NEW q \in Query, QueryStep(q) PROVE QueryOnce'
  <2>1. CASE QuerySend(q) \/ QueryDeadline(q) \/ QueryReadError(q)
             \/ (\E t \in Tuner : QueryAnswer(q, t))
    BY <1>1, <2>1 DEF QuerySend, QueryDeadline, QueryReadError, QueryEnds,
       QueryAnswer, ApTypeOK
  <2>2. CASE QueryReply(q)
    BY <1>1, <2>2 DEF QueryReply, QueryReplySkips, QueryReplyLocks,
       QueryWriteOk, QueryWriteError, ReplyWriteOk, ReplyWriteError, ApWriteOk,
       TcpError, QueryReplied, ApTypeOK
  <2> QED BY <1>4, <2>1, <2>2 DEF QueryStep
<1>5. CASE ApRestart
  BY <1>1, <1>5 DEF ApRestart, CloseApEnds
<1> QED BY <1>2, <1>3, <1>4, <1>5 DEF ApAction

LEMMA CutQueryOnce ==
    ASSUME QueryOnce, UNCHANGED <<tpVars, apVars>>, Cut
    PROVE  QueryOnce'
BY DEF Cut, TcpCut, tpVars, apVars, QueryOnce, AllDistinct, Apart

-----------------------------------------------------------------------------
(* An answer is in one place: once it is on its way back, its query is     *)
(* never again where it could get that answer a second time.               *)

LEMMA ReplyTypes ==
    ASSUME TcpOK, TpTypeOK, NEW c \in Conn
    PROVE  /\ toTp[c] \in Seq(Reply) /\ tpBatch[c] \in Seq(Reply)
           /\ InSeq(toTp[c]) \subseteq Reply
           /\ InSeq(tpBatch[c]) \subseteq Reply
<1>1. toTp[c] \in Seq(Reply) /\ tpBatch[c] \in Seq(Reply)
  BY DEF TcpOK, TpTypeOK
<1>2. ASSUME NEW s \in Seq(Reply) PROVE InSeq(s) \subseteq Reply
  BY LenProperties, ElementOfSeq DEF InSeq
<1> QED BY <1>1, <1>2

LEMMA ReplyParts ==
    ASSUME NEW r \in Reply
    PROVE  r[1] \in Query /\ r[2] \in Source /\ r = <<r[1], r[2]>>
BY DEF Reply

\* No query comes back into transit, except a new one.
LEMMA TpTransit ==
    ASSUME TcpOK, TpTypeOK, ApTypeOK, UNCHANGED apVars,
           TpAction \/ (Cut /\ UNCHANGED tpVars),
           NEW q \in asked, InTransit(q)'
    PROVE  InTransit(q) /\ q \in asked'
<1> USE EmptySeqSet DEF InTransit, apVars, tcpVars
<1>1. ASSUME NEW c \in Conn, DialOk(c) PROVE InTransit(q) /\ q \in asked'
  <2>1. \A d \in Conn : toAp'[d] \in {toAp[d], <<>>}
    BY <1>1 DEF DialOk, TcpDial, TcpOK
  <2> QED BY <1>1, <2>1 DEF DialOk
<1>2. ASSUME NEW c \in Conn, ReaderStep(c) PROVE InTransit(q) /\ q \in asked'
  BY <1>2 DEF ReaderStep, ReaderRead, TpRead, ReaderDeliver, ReaderError,
     TcpError, ReaderClose, CloseTCP, CloseTpEnds
<1>3. CASE UdpGetTransport \/ UdpWriteError \/ UdpClose
  <2>1. UNCHANGED <<toAp, asked>> /\ udp'.query \in {udp.query, None}
    BY <1>3 DEF UdpGetTransport, UdpWriteError, TcpError, UdpClose, CloseTCP,
       CloseTpEnds, UdpIdle, UdpFailed
  <2>2. q # None
    BY MessagesAssumption DEF TpTypeOK
  <2> QED BY <2>1, <2>2
<1>4. CASE UdpWriteOk
  <2>1. /\ udp.query \in Query /\ udp.conn \in Conn /\ UNCHANGED asked
        /\ udp'.query = None
        /\ TpWriteOk(udp.conn, udp.query)
    BY <1>4 DEF UdpWriteOk, TpTypeOK, UdpIdle, UdpFailed
  <2>2. q # None
    BY MessagesAssumption DEF TpTypeOK
  <2>3. CASE UNCHANGED toAp
    BY <2>1, <2>2, <2>3
  <2>4. CASE toAp' = [toAp EXCEPT ![udp.conn] = Append(@, udp.query)]
    <3>1. InSeq(Append(toAp[udp.conn], udp.query))
          = InSeq(toAp[udp.conn]) \cup {udp.query}
      BY <2>1, QueryTypes, AppendSet
    <3>2. ASSUME NEW d \in Conn
          PROVE  InSeq(toAp'[d]) \subseteq InSeq(toAp[d]) \cup {udp.query}
      BY <2>1, <2>4, <3>1 DEF TcpOK
    <3> QED BY <2>1, <2>2, <3>2
  <2> QED BY <2>1, <2>3, <2>4 DEF TpWriteOk
<1>5. ASSUME NEW p \in Query, UdpReceive(p)
      PROVE  InTransit(q) /\ q \in asked'
  <2>1. UNCHANGED toAp /\ udp'.query \in {None, p} /\ p # q
        /\ asked' = asked \cup {p}
    BY <1>5 DEF UdpReceive, UdpIdle
  <2>2. q # None
    BY MessagesAssumption DEF TpTypeOK
  <2> QED BY <2>1, <2>2
<1>6. CASE Tick \/ SetTCPTransport \/ DialFails \/ TpRestart
           \/ (Cut /\ UNCHANGED tpVars)
  <2>1. UNCHANGED <<toAp, asked>> /\ udp'.query \in {udp.query, None}
    BY <1>6 DEF Tick, SetTCPTransport, DialFails, TpRestart, CloseTpEnds,
       UdpIdle, Cut, TcpCut, tpVars
  <2>2. q # None
    BY MessagesAssumption DEF TpTypeOK
  <2> QED BY <2>1, <2>2
<1> QED BY <1>1, <1>2, <1>3, <1>4, <1>5, <1>6 DEF TpAction, UdpStep

LEMMA TpBack ==
    ASSUME TcpOK, TpTypeOK, ApTypeOK, UNCHANGED apVars,
           TpAction \/ (Cut /\ UNCHANGED tpVars),
           NEW r \in Reply, Back(r)
    PROVE  Back(r)'
<1>1. r[1] \in asked /\ ~InTransit(r[1])
  BY DEF Back
<1>2. r[1] \in asked' /\ ~InTransit(r[1])'
  <2>1. ASSUME NEW q \in asked, ~InTransit(q) PROVE ~InTransit(q)'
    BY <2>1, TpTransit
  <2>2. asked \subseteq asked'
    BY DEF TpAction, tpVars, Tick, SetTCPTransport, DialFails, UdpStep,
       UdpGetTransport, UdpWriteOk, UdpWriteError, UdpClose, TpRestart, DialOk,
       ReaderStep, ReaderRead, ReaderDeliver, ReaderError, ReaderClose,
       UdpReceive
  <2> QED BY <1>1, <2>1, <2>2
<1>3. UNCHANGED <<asking, awaiting, carrying>>
  BY DEF apVars
<1> QED BY <1>2, <1>3 DEF Back

LEMMA HandlerBack ==
    ASSUME TcpOK, ApTypeOK, QueryOnce, UNCHANGED tpVars,
           NEW c \in Conn, HandlerStep(c), NEW r \in Reply, Back(r)
    PROVE  Back(r)'
<1> USE DEF tpVars, tcpVars, queryVars
<1> DEFINE Sets ==
              \A d \in Conn : InSeq(toAp'[d]) \cup InSeq(apBatch'[d])
                              \subseteq InSeq(toAp[d]) \cup InSeq(apBatch[d])
<1>1. ASSUME Sets, UNCHANGED <<asking, awaiting, carrying>>
      PROVE  Back(r)'
  BY <1>1 DEF Back, InTransit
<1>2. ASSUME UNCHANGED toAp, StartQuery(c),
             handler[c] \in {"decode", "reply", "write"}
      PROVE  Back(r)'
  <2> DEFINE h == Head(apBatch[c])
  <2> HIDE DEF h
  <2>1. /\ h \in InSeq(apBatch[c])
        /\ \A q \in Query \ {h} : asking'[q] = asking[q]
        /\ \A d \in Conn : InSeq(apBatch'[d]) \subseteq InSeq(apBatch[d])
    BY <1>2, StartQuerySets DEF h
  <2>2. r[1] \in Query \ {h}
    BY <2>1, ReplyParts DEF Back, InTransit
  <2>3. UNCHANGED <<awaiting, carrying, udp, asked>>
    BY <1>2 DEF StartQuery
  <2> QED BY <1>2, <2>1, <2>2, <2>3 DEF Back, InTransit
<1>3. CASE HandlerLinkUp(c) \/ HandlerSetTransport(c) \/ HandlerTunarr(c)
           \/ HandlerLinkDown(c)
  BY <1>1, <1>3 DEF HandlerLinkUp, HandlerSetTransport, HandlerTunarr,
     HandlerLinkDown
<1>4. CASE HandlerError(c) \/ HandlerReplyLocks(c)
  BY <1>1, <1>4 DEF HandlerError, TcpError, HandlerReplyLocks
<1>5. CASE HandlerClear(c)
  <2>1. \A d \in Conn : toAp'[d] \in {toAp[d], <<>>}
    BY <1>5 DEF HandlerClear, CloseApEnds
  <2> QED BY <1>1, <1>5, <2>1, EmptySeqSet DEF HandlerClear
<1>6. CASE HandlerDecode(c) \/ HandlerReplySkips(c)
  BY <1>2, <1>6 DEF HandlerDecode, HandlerReplySkips
<1>7. CASE HandlerWriteOk(c) \/ HandlerWriteError(c)
  BY <1>2, <1>7 DEF HandlerWriteOk, HandlerWriteError, ReplyWriteOk,
     ReplyWriteError, ApWriteOk, TcpError
<1>8. CASE HandlerRead(c)
  <2>1. Sets
    BY <1>8, HandlerReadSets
  <2> QED BY <1>1, <1>8, <2>1 DEF HandlerRead
<1> QED BY <1>3, <1>4, <1>5, <1>6, <1>7, <1>8 DEF HandlerStep, HandlerReply

LEMMA QuerierBack ==
    ASSUME TcpOK, ApTypeOK, UNCHANGED tpVars,
           NEW q \in Query, QueryStep(q), NEW r \in Reply, Back(r)
    PROVE  Back(r)'
<1> USE MessagesAssumption DEF tpVars, tcpVars, Back
<1>1. r[1] \in Query /\ r[2] \in Tuner \cup {Tunarr}
  BY ReplyParts DEF Source
<1>2. InTransit(r[1])' <=> InTransit(r[1])
  <2>1. UNCHANGED <<toAp, apBatch, udp>>
    BY DEF QueryStep, QuerySend, QueryAnswer, QueryReply, QueryReplySkips,
       QueryReplyLocks, QueryWriteOk, QueryWriteError, QueryReplied,
       ReplyWriteOk, ReplyWriteError, ApWriteOk, TcpError, QueryDeadline,
       QueryReadError
  <2> QED BY <2>1 DEF InTransit
<1>3. CASE QuerySend(q)
  BY <1>1, <1>2, <1>3 DEF QuerySend, QueryEnds, ApTypeOK
<1>4. ASSUME NEW t \in Tuner, QueryAnswer(q, t) PROVE Back(r)'
  BY <1>1, <1>2, <1>4 DEF QueryAnswer, ApTypeOK
<1>5. CASE QueryReply(q)
  <2>1. /\ UNCHANGED awaiting
        /\ \A p \in Query : /\ asking'[p] = "send" <=> asking[p] = "send"
                            /\ carrying'[p] \in {carrying[p], None}
    BY <1>5 DEF QueryReply, QueryReplySkips, QueryReplyLocks, QueryWriteOk,
       QueryWriteError, QueryReplied, ApTypeOK
  <2> QED BY <1>1, <1>2, <2>1
<1>6. CASE QueryDeadline(q) \/ QueryReadError(q)
  BY <1>1, <1>2, <1>6 DEF QueryDeadline, QueryReadError, QueryEnds, ApTypeOK
<1> QED BY <1>3, <1>4, <1>5, <1>6 DEF QueryStep

LEMMA ApBack ==
    ASSUME TcpOK, ApTypeOK, QueryOnce, UNCHANGED tpVars, ApAction,
           NEW r \in Reply, Back(r)
    PROVE  Back(r)'
<1>1. ASSUME NEW c \in Conn, Accept(c) PROVE Back(r)'
  BY <1>1 DEF Accept, TcpAccept, queryVars, tpVars, Back, InTransit
<1>2. CASE ApRestart
  <2>1. /\ \A d \in Conn : toAp'[d] \in {toAp[d], <<>>} /\ apBatch'[d] = <<>>
        /\ UNCHANGED <<udp, asked>>
    BY <1>2 DEF ApRestart, CloseApEnds, tpVars
  <2>2. r[1] \in Query /\ r[2] # None
    BY ReplyParts, MessagesAssumption DEF Source
  <2>3. /\ asking'[r[1]] = "none" /\ awaiting'[r[1]] = {}
        /\ carrying'[r[1]] = None
    BY <1>2, <2>2 DEF ApRestart
  <2> QED BY <2>1, <2>2, <2>3, EmptySeqSet DEF Back, InTransit
<1> QED BY <1>1, <1>2, HandlerBack, QuerierBack DEF ApAction

\* Steps by which answers stay on their way or leave it.
LEMMA ReplyShrinks ==
    ASSUME TcpOK, TpTypeOK, ReplyOnce,
           \A c \in Conn : InSeq(toTp'[c]) \subseteq InSeq(toTp[c])
                           /\ Distinct(toTp'[c]),
           \A c \in Conn : InSeq(tpBatch'[c]) \subseteq InSeq(tpBatch[c])
                           /\ Distinct(tpBatch'[c]),
           \A r \in Reply : Back(r) => Back(r)',
           \A q \in Query : carrying'[q] \notin awaiting'[q]
    PROVE  ReplyOnce'
<1>1. AllDistinct(toTp') /\ AllDistinct(tpBatch') /\ Apart(toTp', tpBatch')
  BY Shrinks DEF ReplyOnce
<1>2. ASSUME NEW c \in Conn, NEW r \in InSeq(toTp'[c]) \cup InSeq(tpBatch'[c])
      PROVE  Back(r)'
  BY ReplyTypes DEF ReplyOnce
<1> QED BY <1>1, <1>2 DEF ReplyOnce

LEMMA WriteReplyOnce ==
    ASSUME TcpOK, TpTypeOK, ReplyOnce, UNCHANGED tpBatch,
           NEW e \in Conn, NEW m \in Reply, ApWriteOk(e, m),
           ~Back(m), Back(m)',
           \A r \in Reply : Back(r) => Back(r)',
           \A q \in Query : carrying'[q] \notin awaiting'[q]
    PROVE  ReplyOnce'
<1>1. CASE UNCHANGED tcpVars
  BY <1>1, ReplyShrinks DEF tcpVars, ReplyOnce, AllDistinct
<1>2. CASE toTp' = [toTp EXCEPT ![e] = Append(@, m)]
  <2>1. \A c \in Conn : m \notin InSeq(toTp[c]) \cup InSeq(tpBatch[c])
    BY DEF ReplyOnce
  <2>2. /\ toTp'[e] = Append(toTp[e], m)
        /\ \A c \in Conn \ {e} : toTp'[c] = toTp[c]
    BY <1>2 DEF TcpOK
  <2>3. toTp[e] \in Seq(Reply) /\ Distinct(toTp[e])
    BY ReplyTypes DEF ReplyOnce, AllDistinct
  <2>4. InSeq(toTp'[e]) = InSeq(toTp[e]) \cup {m} /\ Distinct(toTp'[e])
    BY <2>1, <2>2, <2>3, AppendSet
  <2>5. AllDistinct(toTp') /\ Apart(toTp', tpBatch)
    <3>1. AllDistinct(toTp) /\ AllDistinct(tpBatch) /\ Apart(toTp, tpBatch)
      BY DEF ReplyOnce
    <3> QED BY <2>1, <2>2, <2>4, <3>1, Grows
  <2>6. ASSUME NEW c \in Conn,
               NEW r \in InSeq(toTp'[c]) \cup InSeq(tpBatch[c])
        PROVE  Back(r)'
    <3>1. r = m \/ r \in InSeq(toTp[c]) \cup InSeq(tpBatch[c])
      BY <2>2, <2>4
    <3> QED BY <3>1, ReplyTypes DEF ReplyOnce
  <2> QED BY <2>5, <2>6 DEF ReplyOnce
<1> QED BY <1>1, <1>2 DEF ApWriteOk

\* A reader's Read moves answers from the buffer to the batch.
LEMMA ReaderReadSets ==
    ASSUME TcpOK, TpTypeOK, ReplyOnce, NEW c \in Conn, ReaderRead(c)
    PROVE  /\ InSeq(tpBatch[c]) = {}
           /\ \A d \in Conn \ {c} :
                 toTp'[d] = toTp[d] /\ tpBatch'[d] = tpBatch[d]
           /\ InSeq(toTp[c]) = InSeq(toTp'[c]) \cup InSeq(tpBatch'[c])
           /\ InSeq(toTp'[c]) \cap InSeq(tpBatch'[c]) = {}
           /\ Distinct(toTp'[c]) /\ Distinct(tpBatch'[c])
<1>1. PICK n \in 1..Cap :
         /\ TpRead(c, n)
         /\ tpBatch' = [tpBatch EXCEPT ![c] = SubSeq(toTp[c], 1, n)]
  BY DEF ReaderRead
<1>2. tpBatch[c] = <<>>
  BY DEF ReaderRead, TpTypeOK
<1>3. toTp[c] \in Seq(Reply) /\ Distinct(toTp[c]) /\ n \in 1..Len(toTp[c])
  BY <1>1, ReplyTypes DEF TpRead, ReplyOnce, AllDistinct
<1>4. /\ toTp'[c] = SubSeq(toTp[c], n + 1, Len(toTp[c]))
      /\ tpBatch'[c] = SubSeq(toTp[c], 1, n)
      /\ \A d \in Conn \ {c} : toTp'[d] = toTp[d] /\ tpBatch'[d] = tpBatch[d]
  BY <1>1 DEF TpRead, TcpOK, TpTypeOK
<1>5. /\ InSeq(toTp[c]) = InSeq(toTp'[c]) \cup InSeq(tpBatch'[c])
      /\ InSeq(toTp'[c]) \cap InSeq(tpBatch'[c]) = {}
      /\ Distinct(toTp'[c]) /\ Distinct(tpBatch'[c])
  BY <1>3, <1>4, SplitSet
<1> QED BY <1>2, <1>4, <1>5, EmptySeqSet

\* What it hands on leaves the batch.
LEMMA ReaderDeliverSets ==
    ASSUME TpTypeOK, ReplyOnce, NEW c \in Conn, ReaderDeliver(c),
           NEW r, r = Head(tpBatch[c])
    PROVE  /\ r \in Reply /\ UNCHANGED toTp
           /\ \A d \in Conn \ {c} : tpBatch'[d] = tpBatch[d]
           /\ InSeq(tpBatch[c]) = {r} \cup InSeq(tpBatch'[c])
           /\ r \notin InSeq(tpBatch'[c]) /\ Distinct(tpBatch'[c])
<1>1. tpBatch[c] \in Seq(Reply) /\ tpBatch[c] # <<>>
  BY DEF ReaderDeliver, TpTypeOK
<1>2. tpBatch'[c] = Tail(tpBatch[c]) /\ UNCHANGED toTp
      /\ \A d \in Conn \ {c} : tpBatch'[d] = tpBatch[d]
  BY DEF ReaderDeliver, TpTypeOK, tcpVars
<1> QED BY <1>1, <1>2, HeadTailSet DEF ReplyOnce, AllDistinct

LEMMA TpActionReplyOnce ==
    ASSUME TcpOK, TpTypeOK, ApTypeOK, ReplyOnce, UNCHANGED apVars,
           TpAction \/ (Cut /\ UNCHANGED tpVars)
    PROVE  ReplyOnce'
<1>1. /\ \A r \in Reply : Back(r) => Back(r)'
      /\ \A q \in Query : carrying'[q] \notin awaiting'[q]
  <2>1. UNCHANGED <<carrying, awaiting>>
    BY DEF apVars
  <2> QED BY <2>1, TpBack DEF ReplyOnce
<1>2. \A c \in Conn : Distinct(toTp[c]) /\ Distinct(tpBatch[c])
  BY DEF ReplyOnce, AllDistinct
<1>3. ASSUME \A c \in Conn : toTp'[c] \in {toTp[c], <<>>},
             \A c \in Conn : tpBatch'[c] \in {tpBatch[c], <<>>}
      PROVE  ReplyOnce'
  BY <1>1, <1>2, <1>3, ReplyShrinks, EmptySeqSet
<1>4. ASSUME NEW c \in Conn, ReaderRead(c) PROVE ReplyOnce'
  <2>1. AllDistinct(toTp) /\ AllDistinct(tpBatch) /\ Apart(toTp, tpBatch)
    BY DEF ReplyOnce
  <2>2. AllDistinct(toTp') /\ AllDistinct(tpBatch') /\ Apart(toTp', tpBatch')
    BY <1>4, <2>1, ReaderReadSets, Moves
  <2>3. ASSUME NEW d \in Conn,
               NEW r \in InSeq(toTp'[d]) \cup InSeq(tpBatch'[d])
        PROVE  Back(r)'
    <3>1. r \in InSeq(toTp[d]) \cup InSeq(tpBatch[d])
      BY <1>4, <2>3, ReaderReadSets
    <3> QED BY <1>1, <3>1, ReplyTypes DEF ReplyOnce
  <2> QED BY <1>1, <2>2, <2>3 DEF ReplyOnce
<1>5. ASSUME NEW c \in Conn, ReaderDeliver(c) PROVE ReplyOnce'
  BY <1>1, <1>2, <1>5, ReaderDeliverSets, ReplyShrinks
<1> USE DEF tcpVars
<1>6. ASSUME NEW c \in Conn, DialOk(c) PROVE ReplyOnce'
  BY <1>3, <1>6 DEF DialOk, TcpDial, TcpOK
<1>7. ASSUME NEW c \in Conn, ReaderError(c) \/ ReaderClose(c) PROVE ReplyOnce'
  BY <1>3, <1>7 DEF ReaderError, TcpError, ReaderClose, CloseTCP, CloseTpEnds
<1>8. CASE UdpStep
  BY <1>3, <1>8 DEF UdpStep, UdpGetTransport, UdpWriteOk, TpWriteOk,
     UdpWriteError, TcpError, UdpClose, CloseTCP, CloseTpEnds
<1>9. CASE Tick \/ SetTCPTransport \/ DialFails \/ TpRestart
  BY <1>3, <1>9 DEF Tick, SetTCPTransport, DialFails, TpRestart, CloseTpEnds
<1>10. CASE Cut /\ UNCHANGED tpVars
  BY <1>3, <1>10 DEF Cut, TcpCut, tpVars
<1>11. ASSUME NEW q \in Query, UdpReceive(q) PROVE ReplyOnce'
  BY <1>3, <1>11 DEF UdpReceive
<1> QED BY <1>4, <1>5, <1>6, <1>7, <1>8, <1>9, <1>10, <1>11
        DEF TpAction, ReaderStep

\* What a goroutine of the AppProxy has in hand it no longer awaits.
LEMMA ApCarrying ==
    ASSUME ApTypeOK, ReplyOnce, ApAction, NEW p \in Query
    PROVE  carrying'[p] \notin awaiting'[p]
<1> USE MessagesAssumption DEF queryVars, ApTypeOK
<1>1. ASSUME NEW c \in Conn, Accept(c) \/ HandlerStep(c)
      PROVE  UNCHANGED <<carrying, awaiting>>
  BY <1>1 DEF Accept, HandlerStep, HandlerLinkUp, HandlerSetTransport,
     HandlerRead, HandlerDecode, HandlerTunarr, HandlerReply,
     HandlerReplySkips, HandlerReplyLocks, HandlerWriteOk, HandlerWriteError,
     HandlerError, HandlerLinkDown, HandlerClear, StartQuery
<1>2. ASSUME NEW q \in Query, QueryStep(q)
      PROVE  carrying'[p] \notin awaiting'[p]
  <2>1. carrying[p] \notin awaiting[p]
    BY DEF ReplyOnce
  <2>2. CASE QuerySend(q) \/ QueryDeadline(q) \/ QueryReadError(q)
    BY <2>1, <2>2 DEF QuerySend, QueryDeadline, QueryReadError, QueryEnds
  <2>3. ASSUME NEW t \in Tuner, QueryAnswer(q, t)
        PROVE  carrying'[p] \notin awaiting'[p]
    BY <2>1, <2>3 DEF QueryAnswer
  <2>4. CASE QueryReply(q)
    BY <2>1, <2>4 DEF QueryReply, QueryReplySkips, QueryReplyLocks,
       QueryWriteOk, QueryWriteError, QueryReplied
  <2> QED BY <1>2, <2>2, <2>3, <2>4 DEF QueryStep
<1>3. CASE ApRestart
  BY <1>3 DEF ApRestart
<1> QED BY <1>1, <1>2, <1>3 DEF ApAction, ReplyOnce

LEMMA ApActionReplyOnce ==
    ASSUME TcpOK, TpTypeOK, ApTypeOK, ApInv, QueryOnce, ReplyOnce,
           UNCHANGED tpVars, ApAction
    PROVE  ReplyOnce'
<1>1. /\ \A r \in Reply : Back(r) => Back(r)'
      /\ \A q \in Query : carrying'[q] \notin awaiting'[q]
  BY ApBack, ApCarrying
<1>2. UNCHANGED <<tpBatch, udp, asked>>
  BY DEF tpVars
<1>3. ASSUME UNCHANGED toTp PROVE ReplyOnce'
  BY <1>1, <1>2, <1>3, ReplyShrinks DEF ReplyOnce, AllDistinct
<1> USE DEF tcpVars
<1>4. ASSUME NEW c \in Conn, HandlerWriteOk(c) PROVE ReplyOnce'
  <2>0. PICK h : h = Head(apBatch[c])
    OBVIOUS
  <2> DEFINE m == <<h, Tunarr>>
  <2>1. /\ apTransport \in Conn /\ TunarrOn /\ ApWriteOk(apTransport, m)
        /\ UNCHANGED <<toAp, awaiting, carrying>>
    BY <1>4, <2>0 DEF HandlerWriteOk, ApInv, Mutex, HandlerWrites, ApTypeOK,
       ReplyWriteOk, ApWriteOk, StartQuery
  <2>2. /\ h \in Query /\ h \in InSeq(apBatch[c])
        /\ \A d \in Conn : h \notin InSeq(toAp[d]) \cup InSeq(apBatch'[d])
    BY <1>4, <2>0, StartQuerySets DEF HandlerWriteOk
  <2>3. m \in Reply /\ m[1] = h /\ m[2] = Tunarr
    BY <2>1, <2>2 DEF Reply, Source
  <2>4. ~Back(m)
    BY <2>2, <2>3 DEF Back, InTransit
  <2>5. Back(m)'
    <3>1. h \in asked' /\ ~InTransit(h)'
      BY <1>2, <2>1, <2>2 DEF QueryOnce, InTransit
    <3>2. Tunarr \notin awaiting'[h] /\ carrying'[h] # Tunarr
      BY <2>1, <2>2, MessagesAssumption DEF ApTypeOK
    <3> QED BY <2>3, <3>1, <3>2 DEF Back
  <2> QED BY <1>1, <1>2, <2>1, <2>3, <2>4, <2>5, WriteReplyOnce
<1>5. ASSUME NEW q \in Query, QueryWriteOk(q) PROVE ReplyOnce'
  <2>0. PICK t : t = carrying[q]
    OBVIOUS
  <2> DEFINE m == <<q, t>>
  <2>1. /\ apTransport \in Conn /\ t \in Tuner /\ ApWriteOk(apTransport, m)
        /\ UNCHANGED <<toAp, apBatch, awaiting>>
        /\ asking'[q] = "wait" /\ carrying'[q] = None /\ asking[q] = "write"
    BY <1>5, <2>0 DEF QueryWriteOk, ApInv, Mutex, QueryWrites, ApTypeOK,
       ReplyWriteOk, ApWriteOk, QueryReplied
  <2>2. m \in Reply /\ m[1] = q /\ m[2] = t
    BY <2>1 DEF Reply, Source
  <2>3. ~Back(m)
    BY <2>0, <2>2 DEF Back
  <2>4. Back(m)'
    <3>1. q \in asked /\ ~InTransit(q)
      BY <2>1 DEF QueryOnce, InTransit
    <3>2. q \in asked' /\ ~InTransit(q)'
      BY <1>2, <2>1, <3>1 DEF InTransit
    <3>3. t \notin awaiting'[q] /\ None # t
      BY <2>0, <2>1, MessagesAssumption DEF ReplyOnce
    <3> QED BY <2>1, <2>2, <3>2, <3>3 DEF Back
  <2> QED BY <1>1, <1>2, <2>1, <2>2, <2>3, <2>4, WriteReplyOnce
<1>6. ASSUME NEW c \in Conn, Accept(c) PROVE ReplyOnce'
  BY <1>3, <1>6 DEF Accept, TcpAccept
<1>7. ASSUME NEW c \in Conn, HandlerStep(c), ~HandlerWriteOk(c)
      PROVE  ReplyOnce'
  <2>1. UNCHANGED toTp
    BY <1>7 DEF HandlerStep, HandlerLinkUp, HandlerSetTransport, HandlerRead,
       ApRead, HandlerDecode, HandlerTunarr, HandlerReply, HandlerReplySkips,
       HandlerReplyLocks, HandlerWriteError, ReplyWriteError, TcpError,
       HandlerError, HandlerLinkDown, HandlerClear, CloseApEnds
  <2> QED BY <1>3, <2>1
<1>8. ASSUME NEW q \in Query, QueryStep(q), ~QueryWriteOk(q)
      PROVE  ReplyOnce'
  <2>1. UNCHANGED toTp
    BY <1>8 DEF QueryStep, QuerySend, QueryAnswer, QueryReply,
       QueryReplySkips, QueryReplyLocks, QueryWriteError, ReplyWriteError,
       TcpError, QueryDeadline, QueryReadError
  <2> QED BY <1>3, <2>1
<1>9. CASE ApRestart
  BY <1>3, <1>9 DEF ApRestart, CloseApEnds
<1> QED BY <1>4, <1>5, <1>6, <1>7, <1>8, <1>9 DEF ApAction

-----------------------------------------------------------------------------
LEMMA InitInv == Init => IInv
<1> SUFFICES ASSUME Init PROVE IInv
  OBVIOUS
<1> USE LinkAssumption, MessagesAssumption, EmptySeqSet
    DEF Init, TcpInit, TpInit, ApInit
<1>1. TypeOK
  <2>1. <<>> \in Seq(Query) /\ <<>> \in Seq(Reply)
    BY EmptySeq
  <2> QED BY <2>1 DEF TypeOK, TpTypeOK, ApTypeOK
<1>2. TpInv
  BY DEF TpInv, NoLeakedConnection, TransportHasReader
<1>3. ApInv
  BY DEF ApInv, TransportIsServed, LinkPeerIsServed, Mutex, HandlerWrites,
     QueryWrites
<1>4. QueryOnce
  BY DEF QueryOnce, AllDistinct, Apart, UdpIdle
<1>5. ReplyOnce
  BY DEF ReplyOnce, AllDistinct, Apart
<1> QED BY <1>1, <1>2, <1>3, <1>4, <1>5 DEF IInv

LEMMA NextInv == IInv /\ [Next]_vars => IInv'
<1> SUFFICES ASSUME IInv, [Next]_vars PROVE IInv'
  OBVIOUS
<1>1. TcpOK /\ TpTypeOK /\ ApTypeOK /\ TpInv /\ ApInv /\ QueryOnce /\ ReplyOnce
  BY TypeParts DEF IInv
<1>2. CASE TpAction /\ UNCHANGED apVars
  <2>1. TcpOK' /\ TpTypeOK' /\ TpInv'
    BY <1>1, <1>2, TpActionType, TpActionInv
  <2>2. ApTypeOK' /\ ApInv'
    BY <1>1, <1>2, TpActionApEnd, ApFrame
  <2>3. QueryOnce'
    BY <1>1, <1>2, TpActionQueryOnce
  <2>4. ReplyOnce'
    BY <1>1, <1>2, TpActionReplyOnce
  <2>5. TypeOK'
    BY <2>1, <2>2 DEF TypeOK, TcpOK
  <2> QED BY <2>1, <2>2, <2>3, <2>4, <2>5 DEF IInv
<1>3. CASE ApAction /\ UNCHANGED tpVars
  <2>1. TcpOK' /\ ApTypeOK' /\ ApInv'
    BY <1>1, <1>3, ApActionType, ApActionInv
  <2>2. TpTypeOK' /\ TpInv'
    BY <1>1, <1>3, ApActionTpEnd, TpFrame
  <2>3. QueryOnce' /\ ReplyOnce'
    BY <1>1, <1>3, ApActionQueryOnce, ApActionReplyOnce
  <2>4. TypeOK'
    BY <2>1, <2>2 DEF TypeOK, TcpOK
  <2> QED BY <2>1, <2>2, <2>3, <2>4 DEF IInv
<1>4. CASE Cut /\ UNCHANGED <<tpVars, apVars>>
  <2>1. TcpOK'
    BY <1>1, <1>4, CutType
  <2>2. TpTypeOK' /\ TpInv'
    BY <1>1, <1>4, ApActionTpEnd, TpFrame
  <2>3. ApTypeOK' /\ ApInv'
    BY <1>1, <1>4, TpActionApEnd, ApFrame
  <2>4. QueryOnce' /\ ReplyOnce'
    BY <1>1, <1>4, CutQueryOnce, TpActionReplyOnce
  <2>5. TypeOK'
    BY <2>1, <2>2, <2>3 DEF TypeOK, TcpOK
  <2> QED BY <2>2, <2>3, <2>4, <2>5 DEF IInv
<1>5. CASE UNCHANGED vars
  <2>1. UNCHANGED <<tpEnd, apEnd, broken, toAp, toTp>> /\ UNCHANGED tpVars
        /\ UNCHANGED apVars
    BY <1>5 DEF vars, tcpVars
  <2>2. TpTypeOK' /\ TpInv' /\ ApTypeOK' /\ ApInv'
    BY <1>1, <2>1, TpFrame, ApFrame
  <2>3. QueryOnce' /\ ReplyOnce'
    <3>1. UNCHANGED <<udp, asked, tpBatch, apBatch, asking, awaiting, carrying>>
      BY <2>1 DEF tpVars, apVars
    <3>2. QueryOnce'
      BY <1>1, <2>1, <3>1 DEF QueryOnce, AllDistinct, Apart
    <3>3. ReplyOnce'
      BY <1>1, <2>1, <3>1 DEF ReplyOnce, AllDistinct, Apart, Back, InTransit
    <3> QED BY <3>2, <3>3
  <2>4. TypeOK'
    BY <1>1, <2>1, <2>2 DEF TypeOK, TcpOK
  <2> QED BY <2>2, <2>3, <2>4 DEF IInv
<1> QED BY <1>2, <1>3, <1>4, <1>5, NextSplit

\* The inductive invariant, from which the rest follows.
THEOREM LinkInvariant == Spec => []IInv
BY InitInv, NextInv, PTL DEF Spec

(***************************************************************************)
(* Type correctness, for any number of connections, queries and tuners; in *)
(* particular a goroutine of the AppProxy has an answer in hand exactly    *)
(* while it is replying.                                                   *)
(***************************************************************************)
THEOREM TypeCorrect == Spec => []TypeOK
<1>1. IInv => TypeOK
  BY DEF IInv
<1> QED BY <1>1, LinkInvariant, PTL

(***************************************************************************)
(* The TunerProxy never leaks a connection.                                *)
(***************************************************************************)
THEOREM ConnectionsNotLeaked == Spec => []NoLeakedConnection
<1>1. IInv => NoLeakedConnection
  BY DEF IInv, TpInv
<1> QED BY <1>1, LinkInvariant, PTL

(***************************************************************************)
(* Its current connection has a reader, which will notice that it died.    *)
(***************************************************************************)
THEOREM TransportRead == Spec => []TransportHasReader
<1>1. IInv => TransportHasReader
  BY DEF IInv, TpInv
<1> QED BY <1>1, LinkInvariant, PTL

(***************************************************************************)
(* The AppProxy answers on a connection a handler still serves.            *)
(***************************************************************************)
THEOREM TransportServed == Spec => []TransportIsServed
<1>1. IInv => TransportIsServed
  BY DEF IInv, ApInv
<1> QED BY <1>1, LinkInvariant, PTL

(***************************************************************************)
(* "Link up" names a connection whose handler has not seen its end.        *)
(***************************************************************************)
THEOREM LinkPeerServed == Spec => []LinkPeerIsServed
<1>1. IInv => LinkPeerIsServed
  BY DEF IInv, ApInv
<1> QED BY <1>1, LinkInvariant, PTL

(***************************************************************************)
(* One goroutine of the AppProxy writes at a time, to a connection that is *)
(* still the current one.                                                  *)
(***************************************************************************)
THEOREM WritesAreSerial == Spec => []OneWriter
<1>1. IInv => OneWriter
  <2>1. SUFFICES ASSUME Mutex PROVE OneWriter
    BY DEF IInv, ApInv
  <2>2. Writers # {} <=> HandlerWrites \/ QueryWrites
    BY DEF Writers, HandlerWrites, QueryWrites
  <2>3. \A w1, w2 \in Writers : w1 = w2
    BY <2>1 DEF Writers, Mutex, HandlerWrites, QueryWrites
  <2> QED BY <2>1, <2>2, <2>3 DEF OneWriter, Mutex
<1> QED BY <1>1, LinkInvariant, PTL

-----------------------------------------------------------------------------
(* The refinement of Relay, step by step. *)

\* An answer on the link, or with the reader that took it off.
OnLink(r) == \E c \in Conn : r \in InSeq(toTp[c]) \cup InSeq(tpBatch[c])

\* An answer a goroutine of the AppProxy has in hand.
InHand(r) ==
    \/ carrying[r[1]] = r[2]
    \/ \E c \in Conn : /\ handler[c] \in {"reply", "write"}
                       /\ r = <<Head(apBatch[c]), Tunarr>>

Awaited(r) ==
    \/ \E c \in Conn : /\ r[1] \in InSeq(apBatch[c])
                       /\ handler[c] \in {"reply", "write"} =>
                             r # <<Head(apBatch[c]), Tunarr>>
    \/ asking[r[1]] = "send" /\ r[2] \in Tuner
    \/ r[2] \in awaiting[r[1]]

LEMMA RelaySets ==
    /\ Returning = {r \in Reply : InHand(r) \/ OnLink(r)}
    /\ Expected = {r \in Reply : Awaited(r)}
BY DEF Returning, Expected, ExpectedIn, InHand, OnLink, Awaited

LEMMA RelaySetsNext ==
    /\ Returning' = {r \in Reply : InHand(r)' \/ OnLink(r)'}
    /\ Expected' = {r \in Reply : Awaited(r)'}
BY DEF Returning, Expected, ExpectedIn, InHand, OnLink, Awaited

\* Something is lost, or nothing that Relay knows of happens.
LEMMA Loses ==
    ASSUME Travelling' \subseteq Travelling,
           \A r \in Reply : Awaited(r)' => Awaited(r),
           \A r \in Reply : InHand(r)' \/ OnLink(r)' => InHand(r) \/ OnLink(r),
           UNCHANGED <<asked, delivered>>
    PROVE  R!Next
<1>1. Expected' \subseteq Expected /\ Returning' \subseteq Returning
  BY RelaySets, RelaySetsNext
<1> QED BY <1>1 DEF R!Next, R!Lose

\* What the TunerProxy's steps leave alone.
LEMMA TpKeeps ==
    ASSUME UNCHANGED apVars, NEW r
    PROVE  (Awaited(r)' <=> Awaited(r)) /\ (InHand(r)' <=> InHand(r))
BY DEF apVars, Awaited, InHand

LEMMA TpTravelling ==
    ASSUME TcpOK, TpTypeOK, ApTypeOK, UNCHANGED apVars, QueryOnce',
           TpAction \/ (Cut /\ UNCHANGED tpVars)
    PROVE  Travelling' \cap asked \subseteq Travelling
<1> SUFFICES ASSUME NEW q \in Travelling', q \in asked PROVE q \in Travelling
  OBVIOUS
<1>1. q \in Query /\ InTransit(q)'
  BY DEF Travelling, InTransit
<1>2. InTransit(q)
  BY <1>1, TpTransit
<1>3. \A c \in Conn : q \notin InSeq(apBatch[c])
  <2>1. \A c \in Conn : q \notin InSeq(apBatch'[c])
    BY MessagesAssumption DEF Travelling, QueryOnce, Apart
  <2> QED BY <2>1 DEF apVars
<1> QED BY <1>1, <1>2, <1>3 DEF Travelling, InTransit

\* No step of the TunerProxy puts an answer on the link.
LEMMA TpOnLink ==
    ASSUME TcpOK, TpTypeOK, ReplyOnce, TpAction \/ (Cut /\ UNCHANGED tpVars),
           NEW r \in Reply, OnLink(r)'
    PROVE  OnLink(r)
<1> USE EmptySeqSet DEF OnLink, tcpVars
<1>1. ASSUME \A c \in Conn : toTp'[c] \in {toTp[c], <<>>},
             \A c \in Conn : tpBatch'[c] \in {tpBatch[c], <<>>}
      PROVE  OnLink(r)
  BY <1>1
<1>2. ASSUME NEW c \in Conn, ReaderRead(c) PROVE OnLink(r)
  BY <1>2, ReaderReadSets
<1>3. ASSUME NEW c \in Conn, ReaderDeliver(c) PROVE OnLink(r)
  BY <1>3, ReaderDeliverSets
<1>4. ASSUME NEW c \in Conn, DialOk(c) PROVE OnLink(r)
  BY <1>1, <1>4 DEF DialOk, TcpDial, TcpOK
<1>5. ASSUME NEW c \in Conn, ReaderError(c) \/ ReaderClose(c) PROVE OnLink(r)
  BY <1>1, <1>5 DEF ReaderError, TcpError, ReaderClose, CloseTCP, CloseTpEnds
<1>6. CASE UdpStep
  BY <1>1, <1>6 DEF UdpStep, UdpGetTransport, UdpWriteOk, TpWriteOk,
     UdpWriteError, TcpError, UdpClose, CloseTCP, CloseTpEnds
<1>7. CASE Tick \/ SetTCPTransport \/ DialFails \/ TpRestart
  BY <1>1, <1>7 DEF Tick, SetTCPTransport, DialFails, TpRestart, CloseTpEnds
<1>8. CASE Cut /\ UNCHANGED tpVars
  BY <1>1, <1>8 DEF Cut, TcpCut, tpVars
<1>9. ASSUME NEW q \in Query, UdpReceive(q) PROVE OnLink(r)
  BY <1>1, <1>9 DEF UdpReceive
<1> QED BY <1>2, <1>3, <1>4, <1>5, <1>6, <1>7, <1>8, <1>9
        DEF TpAction, ReaderStep

LEMMA TpRelay ==
    ASSUME TcpOK, TpTypeOK, ApTypeOK, QueryOnce, QueryOnce', ReplyOnce,
           UNCHANGED apVars, TpAction \/ (Cut /\ UNCHANGED tpVars)
    PROVE  R!Next
<1>1. \A r \in Reply : /\ Awaited(r)' <=> Awaited(r)
                       /\ InHand(r)' <=> InHand(r)
                       /\ OnLink(r)' => OnLink(r)
  BY TpKeeps, TpOnLink
<1>2. CASE UNCHANGED <<asked, delivered>>
  <2>1. Travelling' \subseteq asked
    <3>1. Travelling' \subseteq asked'
      BY MessagesAssumption DEF Travelling, QueryOnce
    <3> QED BY <1>2, <3>1
  <2>2. Travelling' \subseteq Travelling
    BY <2>1, TpTravelling
  <2> QED BY <1>1, <1>2, <2>2, Loses
<1>3. ASSUME NEW q \in Query, UdpReceive(q) PROVE R!Next
  <2>1. /\ q \notin asked /\ asked' = asked \cup {q}
        /\ UNCHANGED <<toAp, toTp, tpBatch, delivered>>
        /\ udp.query = None /\ udp'.query \in {None, q}
    BY <1>3 DEF UdpReceive, tcpVars, UdpIdle, UdpFailed, TpTypeOK
  <2>2. Travelling' \in {Travelling, Travelling \cup {q}}
    BY <2>1, MessagesAssumption DEF Travelling
  <2>3. UNCHANGED <<Expected, Returning>>
    <3>1. \A r \in Reply : OnLink(r)' <=> OnLink(r)
      BY <2>1 DEF OnLink
    <3> QED BY <1>1, <3>1, RelaySets, RelaySetsNext
  <2> QED BY <2>1, <2>2, <2>3 DEF R!Next, R!Ask
<1>4. ASSUME NEW c \in Conn, ReaderDeliver(c) PROVE R!Next
  <2>1. PICK r : r = Head(tpBatch[c])
    OBVIOUS
  <2>2. /\ r \in Reply /\ UNCHANGED toTp
        /\ \A d \in Conn \ {c} : tpBatch'[d] = tpBatch[d]
        /\ InSeq(tpBatch[c]) = {r} \cup InSeq(tpBatch'[c])
        /\ r \notin InSeq(tpBatch'[c])
    BY <1>4, <2>1, ReaderDeliverSets
  <2>3. UNCHANGED <<toAp, asked, udp>> /\ delivered' = delivered \cup {r}
    BY <1>4, <2>1 DEF ReaderDeliver, tcpVars
  <2>4. /\ ~OnLink(r)' /\ OnLink(r) /\ ~InHand(r)
        /\ \A s \in Reply \ {r} : OnLink(s)' <=> OnLink(s)
    <3>1. OnLink(r) /\ Back(r)
      BY <2>2 DEF OnLink, ReplyOnce
    <3>2. \A d \in Conn \ {c} : r \notin InSeq(tpBatch[d])
      BY <2>2 DEF ReplyOnce, AllDistinct
    <3>3. \A d \in Conn : r \notin InSeq(toTp[d])
      BY <2>2 DEF ReplyOnce, Apart
    <3>4. ~OnLink(r)'
      BY <2>2, <3>2, <3>3 DEF OnLink
    <3>5. ~InHand(r)
      <4>1. carrying[r[1]] # r[2]
        BY <3>1 DEF Back
      <4>2. ASSUME NEW d \in Conn, handler[d] \in {"reply", "write"}
            PROVE  r # <<Head(apBatch[d]), Tunarr>>
        <5>1. Head(apBatch[d]) \in InSeq(apBatch[d])
          BY <4>2, BatchHead
        <5>2. r[1] # Head(apBatch[d])
          BY <3>1, <5>1 DEF Back, InTransit
        <5> QED BY <5>2
      <4> QED BY <4>1, <4>2 DEF InHand
    <3>6. \A s \in Reply \ {r} : OnLink(s)' <=> OnLink(s)
      BY <2>2 DEF OnLink
    <3> QED BY <3>1, <3>4, <3>5, <3>6
  <2>5. Returning' = Returning \ {r} /\ r \in Returning /\ UNCHANGED Expected
    BY <1>1, <2>2, <2>4, RelaySets, RelaySetsNext
  <2>6. UNCHANGED Travelling
    BY <2>3 DEF Travelling
  <2> QED BY <2>3, <2>5, <2>6 DEF R!Next, R!Deliver
<1>5. ASSUME ~(\E q \in Query : UdpReceive(q)),
             ~(\E c \in Conn : ReaderDeliver(c))
      PROVE  UNCHANGED <<asked, delivered>>
  BY <1>5 DEF TpAction, tpVars, Tick, SetTCPTransport, DialFails, UdpStep,
     UdpGetTransport, UdpWriteOk, UdpWriteError, UdpClose, TpRestart, DialOk,
     ReaderStep, ReaderRead, ReaderError, ReaderClose
<1> QED BY <1>2, <1>3, <1>4, <1>5

\* A handler deals with the head of its batch and starts its goroutine; what
\* it had in hand goes to the link or is lost.
LEMMA StartRelay ==
    ASSUME TcpOK, TpTypeOK, ApTypeOK, QueryOnce, UNCHANGED <<tpVars, toAp>>,
           NEW c \in Conn, handler[c] \in {"decode", "reply", "write"},
           StartQuery(c),
           NEW h, h = Head(apBatch[c]),
           \A r \in Reply :
              OnLink(r)' => OnLink(r) \/ ( /\ handler[c] = "write"
                                           /\ r = <<h, Tunarr>> )
    PROVE  R!Next
<1>1. /\ h \in Query /\ h \in InSeq(apBatch[c]) /\ asking'[h] = "send"
      /\ \A q \in Query \ {h} : asking'[q] = asking[q]
      /\ \A d \in Conn \ {c} : apBatch'[d] = apBatch[d]
      /\ InSeq(apBatch[c]) = {h} \cup InSeq(apBatch'[c])
      /\ \A d \in Conn : /\ InSeq(apBatch'[d]) \subseteq InSeq(apBatch[d])
                         /\ h \notin InSeq(toAp[d]) \cup InSeq(apBatch'[d])
  BY StartQuerySets
<1>2. /\ UNCHANGED <<awaiting, carrying, udp, asked, delivered>>
      /\ handler'[c] \in {"read", "decode"}
      /\ \A d \in Conn \ {c} : handler'[d] = handler[d]
  BY DEF StartQuery, tpVars, ApTypeOK
<1>3. ASSUME NEW r \in Reply, Awaited(r)' PROVE Awaited(r)
  <2> USE MessagesAssumption
  <2>1. r[1] \in Query /\ r[2] \in Tuner \cup {Tunarr} /\ r = <<r[1], r[2]>>
    BY ReplyParts DEF Source
  <2>2. CASE r[2] \in awaiting'[r[1]]
    BY <1>2, <2>2 DEF Awaited
  <2>3. CASE asking'[r[1]] = "send" /\ r[2] \in Tuner
    <3>1. CASE r[1] = h
      <4>1. r # <<h, Tunarr>>
        BY <2>1, <2>3
      <4> QED BY <1>1, <3>1, <4>1 DEF Awaited
    <3>2. CASE r[1] # h
      BY <1>1, <2>1, <2>3, <3>2 DEF Awaited
    <3> QED BY <3>1, <3>2
  <2>4. ASSUME NEW d \in Conn, r[1] \in InSeq(apBatch'[d]),
               handler'[d] \in {"reply", "write"} =>
                  r # <<Head(apBatch'[d]), Tunarr>>
        PROVE  Awaited(r)
    <3>1. CASE d = c
      <4>1. r[1] \in InSeq(apBatch[c]) /\ r[1] # h
        BY <1>1, <2>4, <3>1
      <4>2. r # <<h, Tunarr>>
        BY <4>1
      <4> QED BY <4>1, <4>2 DEF Awaited
    <3>2. CASE d # c
      BY <1>1, <1>2, <2>4, <3>2 DEF Awaited
    <3> QED BY <3>1, <3>2
  <2> QED BY <1>3, <2>2, <2>3, <2>4 DEF Awaited
<1>4. ASSUME NEW r \in Reply, InHand(r)' PROVE InHand(r)
  <2>1. CASE carrying'[r[1]] = r[2]
    BY <1>2, <2>1 DEF InHand
  <2>2. ASSUME NEW d \in Conn, handler'[d] \in {"reply", "write"},
               r = <<Head(apBatch'[d]), Tunarr>>
        PROVE  InHand(r)
    BY <1>1, <1>2, <2>2 DEF InHand
  <2> QED BY <1>4, <2>1, <2>2 DEF InHand
<1>5. ASSUME NEW r \in Reply, InHand(r)' \/ OnLink(r)'
      PROVE  InHand(r) \/ OnLink(r)
  BY <1>4, <1>5 DEF InHand
<1>6. Travelling' = Travelling
  BY <1>2 DEF Travelling
<1> QED BY <1>2, <1>3, <1>5, <1>6, Loses

LEMMA HandlerRelay ==
    ASSUME TcpOK, TpTypeOK, ApTypeOK, ApInv, QueryOnce, UNCHANGED tpVars,
           NEW c \in Conn, HandlerStep(c)
    PROVE  [R!Next]_(R!vars)
<1> USE DEF tcpVars, queryVars
<1>1. UNCHANGED <<tpBatch, udp, asked, delivered>>
  BY DEF tpVars
<1>2. ASSUME UNCHANGED <<toTp, apBatch, asking, awaiting, carrying>>,
             \A d \in Conn : toAp'[d] \in {toAp[d], <<>>},
             \A d \in Conn : handler'[d] \in {"reply", "write"}
                             <=> handler[d] \in {"reply", "write"}
      PROVE  R!Next
  <2>1. Travelling' \subseteq Travelling
    BY <1>1, <1>2, EmptySeqSet DEF Travelling
  <2>2. \A r \in Reply : /\ Awaited(r)' => Awaited(r)
                         /\ InHand(r)' => InHand(r)
                         /\ OnLink(r)' => OnLink(r)
    BY <1>1, <1>2 DEF Awaited, InHand, OnLink
  <2> QED BY <1>1, <2>1, <2>2, Loses
<1>3. CASE HandlerLinkUp(c) \/ HandlerSetTransport(c) \/ HandlerLinkDown(c)
  BY <1>2, <1>3 DEF HandlerLinkUp, HandlerSetTransport, HandlerLinkDown,
     ApTypeOK
<1>4. CASE HandlerError(c) \/ HandlerReplyLocks(c)
  BY <1>2, <1>4 DEF HandlerError, TcpError, HandlerReplyLocks, ApTypeOK
<1>5. CASE HandlerClear(c)
  BY <1>2, <1>5 DEF HandlerClear, CloseApEnds, ApTypeOK
<1>6. CASE HandlerDecode(c) \/ HandlerReplySkips(c)
  <2>1. UNCHANGED <<toAp, toTp>>
    BY <1>6 DEF HandlerDecode, HandlerReplySkips
  <2>2. \A r \in Reply : OnLink(r)' => OnLink(r)
    BY <1>1, <2>1 DEF OnLink
  <2>3. StartQuery(c) /\ handler[c] \in {"decode", "reply", "write"}
    BY <1>6 DEF HandlerDecode, HandlerReplySkips
  <2> QED BY <2>1, <2>2, <2>3, StartRelay
<1>7. CASE HandlerWriteOk(c) \/ HandlerWriteError(c)
  <2>1. PICK h : h = Head(apBatch[c])
    OBVIOUS
  <2>2. /\ StartQuery(c) /\ handler[c] = "write" /\ UNCHANGED toAp
        /\ apTransport \in Conn /\ h \in Query /\ TunarrOn
        /\ toTp' \in {toTp, [toTp EXCEPT ![apTransport] =
                                Append(@, <<h, Tunarr>>)]}
    BY <1>7, <2>1, BatchHead DEF HandlerWriteOk, HandlerWriteError,
       ReplyWriteOk, ReplyWriteError, ApWriteOk, TcpError, ApInv, Mutex,
       HandlerWrites, ApTypeOK
  <2>3. <<h, Tunarr>> \in Reply
    BY <2>2 DEF Reply, Source
  <2>4. ASSUME NEW d \in Conn
        PROVE  InSeq(toTp'[d]) \subseteq InSeq(toTp[d]) \cup {<<h, Tunarr>>}
    <3>1. InSeq(Append(toTp[apTransport], <<h, Tunarr>>))
          = InSeq(toTp[apTransport]) \cup {<<h, Tunarr>>}
      BY <2>2, <2>3, ReplyTypes, AppendSet
    <3> QED BY <2>2, <3>1 DEF TcpOK
  <2>5. \A r \in Reply : OnLink(r)' => OnLink(r) \/ r = <<h, Tunarr>>
    BY <1>1, <2>4 DEF OnLink
  <2> QED BY <2>1, <2>2, <2>5, StartRelay
<1>8. CASE HandlerRead(c)
  <2>1. PICK Q : Q = InSeq(apBatch'[c])
    OBVIOUS
  <2>2. /\ InSeq(apBatch[c]) = {} /\ handler'[c] = "decode"
        /\ \A d \in Conn \ {c} : /\ toAp'[d] = toAp[d]
                                 /\ apBatch'[d] = apBatch[d]
                                 /\ handler'[d] = handler[d]
        /\ InSeq(toAp[c]) = InSeq(toAp'[c]) \cup Q
        /\ InSeq(toAp'[c]) \cap Q = {}
        /\ UNCHANGED <<toTp, asking, awaiting, carrying>>
        /\ handler[c] = "read"
    BY <1>8, <2>1, HandlerReadSets DEF HandlerRead, ApRead, ApTypeOK
  <2>3. Q \subseteq Travelling
    BY <2>2, QueryTypes DEF Travelling
  <2>4. Travelling' = Travelling \ Q
    <3>1. \A d \in Conn \ {c} : InSeq(toAp[d]) \cap Q = {}
      BY <2>2 DEF QueryOnce, AllDistinct
    <3>2. udp.query \notin Q
      BY <2>2 DEF QueryOnce
    <3>3. ASSUME NEW q \in Query
          PROVE  q \in Travelling' <=> q \in Travelling \ Q
      BY <1>1, <2>2, <3>1, <3>2 DEF Travelling
    <3> QED BY <3>3 DEF Travelling
  <2>5. Expected' = Expected \cup (Q \X Source)
    <3>1. ASSUME NEW r \in Reply
          PROVE  Awaited(r)' <=> Awaited(r) \/ r[1] \in Q
      BY <2>1, <2>2 DEF Awaited
    <3>2. Q \X Source = {r \in Reply : r[1] \in Q}
      BY <2>3 DEF Reply, Travelling
    <3> QED BY <3>1, <3>2, RelaySets, RelaySetsNext
  <2>6. UNCHANGED Returning
    <3>1. \A r \in Reply : /\ InHand(r)' <=> InHand(r)
                           /\ OnLink(r)' <=> OnLink(r)
      BY <1>1, <2>2 DEF InHand, OnLink
    <3> QED BY <3>1, RelaySets, RelaySetsNext
  <2>7. R!Arrive(Q)
    BY <1>1, <2>4, <2>5, <2>6 DEF R!Arrive, R!Source, Source
  <2> QED BY <2>3, <2>7 DEF R!Next
<1>9. CASE HandlerTunarr(c)
  <2>1. PICK h : h = Head(apBatch[c])
    OBVIOUS
  <2> DEFINE m == <<h, Tunarr>>
  <2>2. /\ h \in Query /\ h \in InSeq(apBatch[c])
        /\ handler[c] = "decode" /\ handler'[c] = "reply" /\ TunarrOn
        /\ \A d \in Conn \ {c} : handler'[d] = handler[d]
        /\ UNCHANGED <<toAp, toTp, apBatch, asking, awaiting, carrying>>
    BY <1>9, <2>1, BatchHead DEF HandlerTunarr, ApTypeOK
  <2>3. m \in Reply /\ m[1] = h /\ m[2] = Tunarr
    BY <2>2 DEF Reply, Source
  <2>4. Awaited(m)
    BY <2>2, <2>3 DEF Awaited
  <2>5. ~Awaited(m)'
    <3>1. \A d \in Conn \ {c} : h \notin InSeq(apBatch[d])
      BY <2>2 DEF QueryOnce, AllDistinct
    <3>2. Tunarr \notin awaiting[h] /\ Tunarr \notin Tuner
      BY <2>2, MessagesAssumption DEF ApTypeOK
    <3> QED BY <2>1, <2>2, <2>3, <3>1, <3>2 DEF Awaited
  <2>6. ASSUME NEW r \in Reply, r # m
        PROVE  /\ Awaited(r)' <=> Awaited(r)
               /\ InHand(r)' <=> InHand(r)
    BY <2>1, <2>2, <2>6 DEF Awaited, InHand
  <2>7. InHand(m)' /\ \A r \in Reply : OnLink(r)' <=> OnLink(r)
    BY <1>1, <2>1, <2>2 DEF InHand, OnLink
  <2>8. /\ Expected' = Expected \ {m} /\ m \in Expected
        /\ Returning' = Returning \cup {m}
    BY <2>3, <2>4, <2>5, <2>6, <2>7, RelaySets, RelaySetsNext
  <2>9. UNCHANGED Travelling
    BY <1>1, <2>2 DEF Travelling
  <2> QED BY <1>1, <2>8, <2>9 DEF R!Next, R!Answer
<1> QED BY <1>3, <1>4, <1>5, <1>6, <1>7, <1>8, <1>9
        DEF HandlerStep, HandlerReply

LEMMA QuerierRelay ==
    ASSUME TcpOK, TpTypeOK, ApTypeOK, ApInv, QueryOnce, ReplyOnce,
           UNCHANGED tpVars, NEW q \in Query, QueryStep(q)
    PROVE  [R!Next]_(R!vars)
<1> USE MessagesAssumption DEF tcpVars
<1>1. /\ UNCHANGED <<tpBatch, udp, asked, delivered>>
      /\ UNCHANGED <<toAp, handler, apBatch>>
  BY DEF tpVars, QueryStep, QuerySend, QueryAnswer, QueryReply,
     QueryReplySkips, QueryReplyLocks, QueryWriteOk, QueryWriteError,
     QueryReplied, ReplyWriteOk, ReplyWriteError, ApWriteOk, TcpError,
     QueryDeadline, QueryReadError
<1>2. UNCHANGED Travelling
  BY <1>1 DEF Travelling
<1>3. ASSUME \A r \in Reply :
                /\ asking'[r[1]] = "send" => asking[r[1]] = "send"
                /\ r[2] \in awaiting'[r[1]] => Awaited(r)
                /\ carrying'[r[1]] = r[2] => carrying[r[1]] = r[2]
                /\ OnLink(r)' => OnLink(r) \/ carrying[r[1]] = r[2]
      PROVE  R!Next
  <2>1. \A r \in Reply : Awaited(r)' => Awaited(r)
    BY <1>1, <1>3 DEF Awaited
  <2>2. \A r \in Reply : InHand(r)' \/ OnLink(r)' => InHand(r) \/ OnLink(r)
    BY <1>1, <1>3 DEF InHand
  <2> QED BY <1>1, <1>2, <2>1, <2>2, Loses
<1>4. ASSUME NEW r \in Reply
      PROVE  r[1] \in Query /\ r[2] \in Tuner \cup {Tunarr} /\ r[2] # None
             /\ r = <<r[1], r[2]>>
  BY ReplyParts DEF Source
<1>5. ASSUME UNCHANGED toTp, NEW r \in Reply PROVE OnLink(r)' <=> OnLink(r)
  BY <1>1, <1>5 DEF OnLink
<1>6. CASE QuerySend(q)
  <2>1. /\ UNCHANGED <<toTp, carrying>> /\ asking[q] = "send"
        /\ asking'[q] # "send" /\ awaiting'[q] \subseteq Tuner
        /\ \A p \in Query \ {q} : /\ asking'[p] = asking[p]
                                  /\ awaiting'[p] = awaiting[p]
    BY <1>6 DEF QuerySend, QueryEnds, ApTypeOK
  <2>2. ASSUME NEW r \in Reply
        PROVE  /\ asking'[r[1]] = "send" => asking[r[1]] = "send"
               /\ r[2] \in awaiting'[r[1]] => Awaited(r)
    BY <1>4, <2>1 DEF Awaited
  <2> QED BY <1>3, <1>5, <2>1, <2>2
<1>7. CASE QueryDeadline(q) \/ QueryReadError(q)
  <2>1. /\ UNCHANGED <<toTp, carrying>>
        /\ asking'[q] # "send" /\ awaiting'[q] = {}
        /\ \A p \in Query \ {q} : /\ asking'[p] = asking[p]
                                  /\ awaiting'[p] = awaiting[p]
    BY <1>7 DEF QueryDeadline, QueryReadError, QueryEnds, ApTypeOK
  <2>2. ASSUME NEW r \in Reply
        PROVE  /\ asking'[r[1]] = "send" => asking[r[1]] = "send"
               /\ r[2] \in awaiting'[r[1]] => Awaited(r)
    BY <1>4, <2>1 DEF Awaited
  <2> QED BY <1>3, <1>5, <2>1, <2>2
<1>8. ASSUME NEW t \in Tuner, QueryAnswer(q, t) PROVE R!Next
  <2> DEFINE m == <<q, t>>
  <2>1. m \in Reply /\ m[1] = q /\ m[2] = t
    BY DEF Reply, Source
  <2>2. /\ UNCHANGED toTp
        /\ asking[q] = "wait" /\ t \in awaiting[q] /\ carrying[q] = None
        /\ asking'[q] = "reply" /\ awaiting'[q] = awaiting[q] \ {t}
        /\ carrying'[q] = t
        /\ \A p \in Query \ {q} : /\ asking'[p] = asking[p]
                                  /\ awaiting'[p] = awaiting[p]
                                  /\ carrying'[p] = carrying[p]
    BY <1>8 DEF QueryAnswer, ApTypeOK
  <2>3. Awaited(m)
    BY <2>1, <2>2 DEF Awaited
  <2>4. ~Awaited(m)'
    <3>1. \A c \in Conn : q \notin InSeq(apBatch[c])
      BY <2>2 DEF QueryOnce
    <3> QED BY <1>1, <2>1, <2>2, <3>1 DEF Awaited
  <2>5. ASSUME NEW r \in Reply, r # m
        PROVE  /\ Awaited(r)' <=> Awaited(r)
               /\ InHand(r)' <=> InHand(r)
    <3>1. /\ asking'[r[1]] = "send" <=> asking[r[1]] = "send"
          /\ r[2] \in awaiting'[r[1]] <=> r[2] \in awaiting[r[1]]
          /\ carrying'[r[1]] = r[2] <=> carrying[r[1]] = r[2]
      BY <1>4, <2>2, <2>5
    <3> QED BY <1>1, <3>1 DEF Awaited, InHand
  <2>6. InHand(m)'
    BY <2>1, <2>2 DEF InHand
  <2>7. /\ Expected' = Expected \ {m} /\ m \in Expected
        /\ Returning' = Returning \cup {m}
    BY <1>5, <2>1, <2>2, <2>3, <2>4, <2>5, <2>6, RelaySets, RelaySetsNext
  <2> QED BY <1>1, <1>2, <2>7 DEF R!Next, R!Answer
<1>9. CASE QueryReplyLocks(q)
  <2>1. /\ UNCHANGED <<toTp, awaiting, carrying>>
        /\ \A p \in Query : asking'[p] = "send" => asking[p] = "send"
    BY <1>9 DEF QueryReplyLocks, ApTypeOK
  <2> QED BY <1>3, <1>4, <1>5, <2>1 DEF Awaited
<1>10. CASE QueryReplySkips(q) \/ QueryWriteOk(q) \/ QueryWriteError(q)
  <2>1. PICK t : t = carrying[q]
    OBVIOUS
  <2>2. /\ asking'[q] = "wait" /\ carrying'[q] = None /\ UNCHANGED awaiting
        /\ \A p \in Query \ {q} : /\ asking'[p] = asking[p]
                                  /\ carrying'[p] = carrying[p]
    BY <1>10 DEF QueryReplySkips, QueryWriteOk, QueryWriteError, QueryReplied,
       ApTypeOK
  <2>3. ASSUME NEW r \in Reply, OnLink(r)'
        PROVE  OnLink(r) \/ carrying[r[1]] = r[2]
    <3>1. CASE UNCHANGED toTp
      BY <1>5, <2>3, <3>1
    <3>2. CASE QueryWriteOk(q) /\ toTp' # toTp
      <4>1. /\ apTransport \in Conn /\ t \in Tuner
            /\ toTp' = [toTp EXCEPT ![apTransport] = Append(@, <<q, t>>)]
        BY <2>1, <3>2 DEF QueryWriteOk, ReplyWriteOk, ApWriteOk, ApInv, Mutex,
           QueryWrites, ApTypeOK
      <4>2. <<q, t>> \in Reply
        BY <4>1 DEF Reply, Source
      <4>3. InSeq(Append(toTp[apTransport], <<q, t>>))
            = InSeq(toTp[apTransport]) \cup {<<q, t>>}
        BY <4>1, <4>2, ReplyTypes, AppendSet
      <4>4. \A d \in Conn :
               InSeq(toTp'[d]) \subseteq InSeq(toTp[d]) \cup {<<q, t>>}
        BY <4>1, <4>3 DEF TcpOK
      <4>5. OnLink(r) \/ r = <<q, t>>
        BY <1>1, <2>3, <4>4 DEF OnLink
      <4> QED BY <2>1, <4>5
    <3>3. QueryReplySkips(q) \/ QueryWriteError(q) => UNCHANGED toTp
      BY DEF QueryReplySkips, QueryWriteError, ReplyWriteError, TcpError
    <3> QED BY <1>10, <3>1, <3>2, <3>3
  <2>4. ASSUME NEW r \in Reply
        PROVE  /\ asking'[r[1]] = "send" => asking[r[1]] = "send"
               /\ r[2] \in awaiting'[r[1]] => Awaited(r)
               /\ carrying'[r[1]] = r[2] => carrying[r[1]] = r[2]
    BY <1>4, <2>2 DEF Awaited
  <2> QED BY <1>3, <2>3, <2>4
<1> QED BY <1>6, <1>7, <1>8, <1>9, <1>10 DEF QueryStep, QueryReply

LEMMA ApRelay ==
    ASSUME TcpOK, TpTypeOK, ApTypeOK, ApInv, QueryOnce, ReplyOnce,
           UNCHANGED tpVars, ApAction
    PROVE  [R!Next]_(R!vars)
<1>1. UNCHANGED <<tpBatch, udp, asked, delivered>>
  BY DEF tpVars
<1>2. ASSUME NEW c \in Conn, Accept(c) PROVE R!Next
  <2>1. /\ UNCHANGED <<toAp, toTp, apBatch, asking, awaiting, carrying>>
        /\ \A d \in Conn : handler'[d] \in {"reply", "write"}
                           <=> handler[d] \in {"reply", "write"}
    BY <1>2 DEF Accept, TcpAccept, queryVars, ApTypeOK, TcpOK, ApInv
  <2>2. Travelling' = Travelling
    BY <1>1, <2>1 DEF Travelling
  <2>3. \A r \in Reply : /\ Awaited(r)' => Awaited(r)
                         /\ InHand(r)' => InHand(r)
                         /\ OnLink(r)' => OnLink(r)
    BY <1>1, <2>1 DEF Awaited, InHand, OnLink
  <2> QED BY <1>1, <2>2, <2>3, Loses
<1>3. CASE ApRestart
  <2>1. /\ \A d \in Conn : toAp'[d] \in {toAp[d], <<>>}
        /\ \A d \in Conn : apBatch'[d] = <<>> /\ handler'[d] = "none"
        /\ UNCHANGED toTp
    BY <1>3 DEF ApRestart, CloseApEnds
  <2>2. \A q \in Query : asking'[q] = "none" /\ awaiting'[q] = {}
                         /\ carrying'[q] = None
    BY <1>3 DEF ApRestart
  <2>3. Travelling' \subseteq Travelling
    BY <1>1, <2>1, EmptySeqSet DEF Travelling
  <2>4. ASSUME NEW r \in Reply
        PROVE  ~Awaited(r)' /\ ~InHand(r)' /\ (OnLink(r)' => OnLink(r))
    <3>1. r[1] \in Query /\ r[2] # None
      BY ReplyParts, MessagesAssumption DEF Source
    <3> QED BY <1>1, <2>1, <2>2, <3>1, EmptySeqSet DEF Awaited, InHand, OnLink
  <2> QED BY <1>1, <2>3, <2>4, Loses
<1> QED BY <1>2, <1>3, HandlerRelay, QuerierRelay DEF ApAction

(***************************************************************************)
(* The pair implements Relay: whatever is cut, restarted, lost or left in  *)
(* a buffer, a query is put to the tuners at most once, and an answer      *)
(* reaches its app at most once.                                           *)
(***************************************************************************)
THEOREM RelayRefinement == Spec => ImplementsRelay
<1>1. Init => R!Init
  <2> SUFFICES ASSUME Init PROVE R!Init
    OBVIOUS
  <2> USE MessagesAssumption, EmptySeqSet
      DEF Init, TcpInit, TpInit, ApInit
  <2>1. Travelling = {}
    BY DEF Travelling, UdpIdle
  <2>2. ASSUME NEW r \in Reply PROVE ~Awaited(r) /\ ~InHand(r) /\ ~OnLink(r)
    <3>1. r[1] \in Query /\ r[2] # None
      BY ReplyParts DEF Source
    <3> QED BY <3>1 DEF Awaited, InHand, OnLink
  <2>3. Expected = {} /\ Returning = {}
    BY <2>2, RelaySets
  <2> QED BY <2>1, <2>3 DEF R!Init
<1>2. ASSUME IInv, IInv', [Next]_vars PROVE [R!Next]_(R!vars)
  <2>1. /\ TcpOK /\ TpTypeOK /\ ApTypeOK /\ ApInv /\ QueryOnce /\ ReplyOnce
        /\ QueryOnce'
    BY <1>2, TypeParts DEF IInv
  <2>2. CASE TpAction /\ UNCHANGED apVars
    BY <2>1, <2>2, TpRelay
  <2>3. CASE ApAction /\ UNCHANGED tpVars
    BY <2>1, <2>3, ApRelay
  <2>4. CASE Cut /\ UNCHANGED <<tpVars, apVars>>
    BY <2>1, <2>4, TpRelay
  <2>5. CASE UNCHANGED vars
    BY <2>5 DEF vars, tcpVars, tpVars, apVars, R!vars, Travelling, Expected,
       ExpectedIn, Returning
  <2> QED BY <1>2, <2>2, <2>3, <2>4, <2>5, NextSplit
<1> QED BY <1>1, <1>2, LinkInvariant, PTL DEF Spec, ImplementsRelay, R!Spec
=============================================================================
