---------------------------- MODULE AppProxyLink ----------------------------
(***************************************************************************)
(* AppProxy in tuner-proxy mode (app_proxy.go): the accept loop, one       *)
(* handler goroutine per accepted connection, and one goroutine per query  *)
(* that broadcasts it to the tuners and sends each answer back.  They      *)
(* share tcpTransport, guarded by tcpMutex, which reply holds during a     *)
(* Write that may block; and the link status, guarded by a mutex of its    *)
(* own that is never held across a blocking call.                          *)
(*                                                                         *)
(* In this mode useTunarrOnly is FALSE whenever there is a Tunarr backend  *)
(* (with both, Run chooses direct mode), so a query always goes on to the  *)
(* tuners after Tunarr's own answer.                                       *)
(***************************************************************************)
EXTENDS TcpConns, RelayMessages

VARIABLES
    apTransport,    \* tcpTransport
    apLocked,       \* tcpMutex is held by a reply that is writing
    apLinkUp,       \* backendRouter.linkUp of this process
    apLinkPeer,     \* backendRouter.linkPeer: the connection it names
    handler,        \* where the handler goroutine of each connection is
    apBatch,        \* queries it has read and not yet dealt with
    asking,         \* where the goroutine of each query is
    awaiting,       \* tuners whose answer to the query it has not read
    carrying,       \* the tuner whose answer it is sending back
    hdhr            \* backendRouter.hdhr: the HDHomeRun backend's health

apVars == <<apTransport, apLocked, apLinkUp, apLinkPeer, handler, apBatch,
            asking, awaiting, carrying, hdhr>>

queryVars == <<asking, awaiting, carrying, hdhr>>
linkVars == <<apLinkUp, apLinkPeer>>

ApInit ==
    /\ apTransport = None
    /\ apLocked = FALSE
    /\ apLinkUp = FALSE /\ apLinkPeer = None
    /\ handler = [c \in Conn |-> "none"]
    /\ apBatch = [c \in Conn |-> <<>>]
    /\ asking = [q \in Query |-> "none"]
    /\ awaiting = [q \in Query |-> {}]
    /\ carrying = [q \in Query |-> None]
    /\ hdhr = "unknown"

ApTypeOK ==
    /\ apTransport \in Conn \cup {None}
    /\ apLocked \in BOOLEAN
    /\ apLinkUp \in BOOLEAN /\ apLinkPeer \in Conn \cup {None}
    /\ handler \in [Conn -> {"none", "link", "set", "read", "decode", "reply",
                             "write", "down", "clear"}]
    /\ apBatch \in [Conn -> Seq(Query)]
    /\ \A c \in Conn :
          handler[c] \in {"decode", "reply", "write"} <=> apBatch[c] # <<>>
    /\ asking \in [Query -> {"none", "send", "wait", "reply", "write"}]
    /\ awaiting \in [Query -> SUBSET Tuner]
    /\ carrying \in [Query -> Tuner \cup {None}]
    /\ \A q \in Query : asking[q] \in {"reply", "write"} <=> carrying[q] # None
    /\ hdhr \in {"unknown", "ok", "fail"}

\* Some variable of the process still refers to connection c.
ApHolds(c) == apTransport = c \/ handler[c] # "none"

-----------------------------------------------------------------------------
(***************************************************************************)
(* reply.  Its caller has control state pc; it takes the mutex and returns *)
(* at once when there is no connection, else writes with the mutex held.   *)
(* The two last operators are also its return.                             *)
(***************************************************************************)
\* Mutant of ReplySkips: the link status is asked in place of the transport.
ReplySkipsUnlinked == ~apLocked /\ ~apLinkUp

ReplySkips == ~apLocked /\ apTransport = None

ReplyLocks == ~apLocked /\ apTransport # None /\ apLocked' = TRUE

ReplyWriteOk(m) ==
    /\ ApWriteOk(apTransport, m)
    /\ apLocked' = FALSE
    /\ UNCHANGED apTransport

\* Mutant of ReplyWriteError: the mutex stays locked.
ReplyWriteErrorKeepsLock ==
    /\ TcpError(apTransport)
    /\ apTransport' = None
    /\ UNCHANGED apLocked

ReplyWriteError ==
    /\ TcpError(apTransport)
    /\ apTransport' = None
    /\ apLocked' = FALSE

-----------------------------------------------------------------------------
(* handleTunerProxyConnection, for connection c. *)

Accept(c) ==
    /\ TcpAccept(c)
    /\ handler' = [handler EXCEPT ![c] = "link"]
    /\ UNCHANGED <<apTransport, apLocked, linkVars, apBatch, queryVars>>

\* Mutant of HandlerLinkUp: the link is not marked as up.
HandlerLinkNamed(c) ==
    /\ handler[c] = "link"
    /\ apLinkPeer' = c
    /\ handler' = [handler EXCEPT ![c] = "set"]
    /\ UNCHANGED <<tcpVars, apTransport, apLocked, apLinkUp, apBatch,
                   queryVars>>

HandlerLinkUp(c) ==
    /\ handler[c] = "link"
    /\ apLinkUp' = TRUE /\ apLinkPeer' = c
    /\ handler' = [handler EXCEPT ![c] = "set"]
    /\ UNCHANGED <<tcpVars, apTransport, apLocked, apBatch, queryVars>>

HandlerSetTransport(c) ==
    /\ handler[c] = "set" /\ ~apLocked
    /\ apTransport' = c
    /\ handler' = [handler EXCEPT ![c] = "read"]
    /\ UNCHANGED <<tcpVars, apLocked, linkVars, apBatch, queryVars>>

HandlerRead(c) ==
    /\ handler[c] = "read"
    /\ \E n \in 1..Cap :
          /\ ApRead(c, n)
          /\ apBatch' = [apBatch EXCEPT ![c] = SubSeq(toAp[c], 1, n)]
    /\ handler' = [handler EXCEPT ![c] = "decode"]
    /\ UNCHANGED <<apTransport, apLocked, linkVars, queryVars>>

\* onReceivedMessage starts the goroutine of the query at the head of the
\* batch and returns to Decode.
StartQuery(c) ==
    /\ asking' = [asking EXCEPT ![Head(apBatch[c])] = "send"]
    /\ apBatch' = [apBatch EXCEPT ![c] = Tail(@)]
    /\ handler' = [handler EXCEPT ![c] =
                      IF Len(apBatch[c]) = 1 THEN "read" ELSE "decode"]
    /\ UNCHANGED <<linkVars, awaiting, carrying, hdhr>>

\* No Tunarr, or it is down, or the query does not match its device.
HandlerDecode(c) ==
    /\ handler[c] = "decode"
    /\ StartQuery(c)
    /\ UNCHANGED <<tcpVars, apTransport, apLocked>>

\* Tunarr answers: the handler itself calls reply.
HandlerTunarr(c) ==
    /\ handler[c] = "decode" /\ TunarrOn
    /\ handler' = [handler EXCEPT ![c] = "reply"]
    /\ UNCHANGED <<tcpVars, apTransport, apLocked, linkVars, apBatch,
                   queryVars>>

HandlerReplySkips(c) ==
    /\ handler[c] = "reply" /\ ReplySkips
    /\ StartQuery(c)
    /\ UNCHANGED <<tcpVars, apTransport, apLocked>>

HandlerReplyLocks(c) ==
    /\ handler[c] = "reply" /\ ReplyLocks
    /\ handler' = [handler EXCEPT ![c] = "write"]
    /\ UNCHANGED <<tcpVars, apTransport, linkVars, apBatch, queryVars>>

HandlerWriteOk(c) ==
    /\ handler[c] = "write" /\ ReplyWriteOk(<<Head(apBatch[c]), Tunarr>>)
    /\ StartQuery(c)

HandlerWriteError(c) ==
    /\ handler[c] = "write" /\ ReplyWriteError
    /\ StartQuery(c)

HandlerError(c) ==
    /\ handler[c] = "read" /\ TcpError(c)
    /\ handler' = [handler EXCEPT ![c] = "down"]
    /\ UNCHANGED <<apTransport, apLocked, linkVars, apBatch, queryVars>>

\* Mutant of HandlerLinkDown: the status is left alone.
HandlerLinkKept(c) ==
    /\ handler[c] = "down"
    /\ handler' = [handler EXCEPT ![c] = "clear"]
    /\ UNCHANGED <<tcpVars, apTransport, apLocked, linkVars, apBatch,
                   queryVars>>

HandlerLinkDown(c) ==
    /\ handler[c] = "down"
    /\ apLinkUp' = FALSE
    /\ handler' = [handler EXCEPT ![c] = "clear"]
    /\ UNCHANGED <<tcpVars, apTransport, apLocked, apLinkPeer, apBatch,
                   queryVars>>

\* Mutant of HandlerClear: the transport is left to name a closed connection.
HandlerCloses(c) ==
    /\ handler[c] = "clear"
    /\ CloseApEnds({c})
    /\ handler' = [handler EXCEPT ![c] = "none"]
    /\ UNCHANGED <<apTransport, apLocked, linkVars, apBatch, queryVars>>

\* Mutant of HandlerClear: the transport is cleared without the mutex.
HandlerClearUnlocked(c) ==
    /\ handler[c] = "clear"
    /\ apTransport' = None
    /\ CloseApEnds({c})
    /\ handler' = [handler EXCEPT ![c] = "none"]
    /\ UNCHANGED <<apLocked, linkVars, apBatch, queryVars>>

\* Clears the transport, whichever connection it is; the deferred Close
\* follows at once.
HandlerClear(c) ==
    /\ handler[c] = "clear" /\ ~apLocked
    /\ apTransport' = None
    /\ CloseApEnds({c})
    /\ handler' = [handler EXCEPT ![c] = "none"]
    /\ UNCHANGED <<apLocked, linkVars, apBatch, queryVars>>

-----------------------------------------------------------------------------
(* The goroutine queryTuner starts for query q. *)

QueryEnds(q) ==
    /\ asking' = [asking EXCEPT ![q] = "none"]
    /\ awaiting' = [awaiting EXCEPT ![q] = {}]

QuerySend(q) ==
    /\ asking[q] = "send"
    /\ \/ /\ asking' = [asking EXCEPT ![q] = "wait"]
          /\ awaiting' = [awaiting EXCEPT ![q] = Tuner]
       \/ QueryEnds(q)      \* no socket, or the broadcast fails
    /\ UNCHANGED <<tcpVars, apTransport, apLocked, linkVars, handler, apBatch,
                   carrying, hdhr>>

\* Tuner t's answer is read before the deadline.
QueryAnswer(q, t) ==
    /\ asking[q] = "wait" /\ t \in awaiting[q]
    /\ awaiting' = [awaiting EXCEPT ![q] = @ \ {t}]
    /\ carrying' = [carrying EXCEPT ![q] = t]
    /\ asking' = [asking EXCEPT ![q] = "reply"]
    /\ hdhr' = "ok"
    /\ UNCHANGED <<tcpVars, apTransport, apLocked, linkVars, handler, apBatch>>

QueryReplied(q) ==
    /\ asking' = [asking EXCEPT ![q] = "wait"]
    /\ carrying' = [carrying EXCEPT ![q] = None]
    /\ UNCHANGED <<linkVars, handler, apBatch, awaiting, hdhr>>

QueryReplySkips(q) ==
    /\ asking[q] = "reply" /\ ReplySkips
    /\ QueryReplied(q)
    /\ UNCHANGED <<tcpVars, apTransport, apLocked>>

QueryReplyLocks(q) ==
    /\ asking[q] = "reply" /\ ReplyLocks
    /\ asking' = [asking EXCEPT ![q] = "write"]
    /\ UNCHANGED <<tcpVars, apTransport, linkVars, handler, apBatch, awaiting,
                   carrying, hdhr>>

QueryWriteOk(q) ==
    /\ asking[q] = "write" /\ ReplyWriteOk(<<q, carrying[q]>>)
    /\ QueryReplied(q)

QueryWriteError(q) ==
    /\ asking[q] = "write" /\ ReplyWriteError
    /\ QueryReplied(q)

\* The deadline passes; a silent window is recorded as the backend's failure.
QueryDeadline(q) ==
    /\ asking[q] = "wait"
    /\ QueryEnds(q)
    /\ hdhr' = IF awaiting[q] = Tuner THEN "fail" ELSE hdhr
    /\ UNCHANGED <<tcpVars, apTransport, apLocked, linkVars, handler, apBatch,
                   carrying>>

\* The socket fails with something other than a timeout.
QueryReadError(q) ==
    /\ asking[q] = "wait"
    /\ QueryEnds(q)
    /\ hdhr' = "fail"
    /\ UNCHANGED <<tcpVars, apTransport, apLocked, linkVars, handler, apBatch,
                   carrying>>

-----------------------------------------------------------------------------
\* The process stops, at any point, and is started again.
ApRestart ==
    /\ CloseApEnds({c \in Conn : apEnd[c] # "closed"})
    /\ apTransport' = None /\ apLocked' = FALSE
    /\ apLinkUp' = FALSE /\ apLinkPeer' = None
    /\ handler' = [c \in Conn |-> "none"]
    /\ apBatch' = [c \in Conn |-> <<>>]
    /\ asking' = [q \in Query |-> "none"]
    /\ awaiting' = [q \in Query |-> {}]
    /\ carrying' = [q \in Query |-> None]
    /\ hdhr' = "unknown"

HandlerReply(c) ==
    \/ HandlerReplySkips(c) \/ HandlerReplyLocks(c)
    \/ HandlerWriteOk(c) \/ HandlerWriteError(c)
HandlerStep(c) ==
    \/ HandlerLinkUp(c) \/ HandlerSetTransport(c) \/ HandlerRead(c)
    \/ HandlerDecode(c) \/ HandlerTunarr(c) \/ HandlerReply(c)
    \/ HandlerError(c) \/ HandlerLinkDown(c) \/ HandlerClear(c)
QueryReply(q) ==
    \/ QueryReplySkips(q) \/ QueryReplyLocks(q)
    \/ QueryWriteOk(q) \/ QueryWriteError(q)
QueryStep(q) ==
    \/ QuerySend(q) \/ (\E t \in Tuner : QueryAnswer(q, t))
    \/ QueryReply(q) \/ QueryDeadline(q) \/ QueryReadError(q)
=============================================================================
