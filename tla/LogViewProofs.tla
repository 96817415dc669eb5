---------------------------- MODULE LogViewProofs ----------------------------
(***************************************************************************)
(* What the terminal shows, who holds the lock of the ring, and what the   *)
(* ticker is set to, for every number of goroutines, every capacity of the *)
(* ring and every set of intervals.                                        *)
(***************************************************************************)
EXTENDS LogView, TLAPS

\* The places of Handle are known.
Places == Level \cup {"no", "append", "send"}

\* NothingUnseen is inductive but for the start of the loop, before which
\* nothing is drawn.
IInv ==
    /\ logging \in [Logger -> Places]
    /\ loop = "starting" => ready = "no"
    /\ NothingUnseen

LEMMA InitInv == Init => IInv
BY DEF Init, IInv, Places, NothingUnseen

\* A step of a goroutine in Handle.  Whoever adds a line to the ring, or
\* waits with one, makes the premise of NothingUnseen false.
LEMMA HandleInv ==
    ASSUME IInv, NEW g \in Logger, Handle(g)
    PROVE  IInv'
<1>1. CASE AppendLogEntry(g)
  <2>1. logging' = [logging EXCEPT ![g] = "append"] /\ UNCHANGED <<loop, ready>>
    BY <1>1 DEF AppendLogEntry, Logs, tuiVars
  <2> QED BY <2>1 DEF IInv, Places, NothingUnseen
<1>2. CASE Unlock(g)
  <2>1. logging' = [logging EXCEPT ![g] = "send"] /\ UNCHANGED <<loop, ready>>
    BY <1>2 DEF Unlock, Logs, tuiVars
  <2> QED BY <2>1 DEF IInv, Places, NothingUnseen
<1>3. CASE Receive(g)
  <2>1. /\ logging' = [logging EXCEPT ![g] = "no"]
        /\ loop' \in {"draw", "quit"} /\ ready' = ready
    BY <1>3 DEF Receive, Logs
  <2> QED BY <2>1 DEF IInv, Places, NothingUnseen
<1> QED BY <1>1, <1>2, <1>3 DEF Handle

\* A line that begins is not in the ring yet.
LEMMA LineInv ==
    ASSUME IInv,
           \/ \E g \in Goroutine : Line(g)
           \/ ConnLogTick
    PROVE  IInv'
<1>1. PICK g \in Logger, l \in Level \cup {"no"} :
        logging[g] = "no" /\ logging' = [logging EXCEPT ![g] = l]
  <2>1. CASE \E g \in Goroutine : Line(g)
    BY <2>1 DEF Line, Logs, Logger
  <2>2. CASE ConnLogTick
    <3>1. CASE connlog' = "ticking"
      BY <2>2, <3>1 DEF ConnLogTick, Logs, Logger, Level
    <3>2. CASE connlog' # "ticking"
      <4>1. logging' = [logging EXCEPT ![ConnLog] = "no"]
        BY <2>2, <3>2 DEF ConnLogTick, IInv
      <4> QED BY <2>2, <4>1 DEF ConnLogTick, Logger
    <3> QED BY <3>1, <3>2
  <2> QED BY <2>1, <2>2
<1>2. UNCHANGED <<ring, showDebug, loop, ready, screen>>
  BY DEF Line, ConnLogTick, tuiVars
<1>3. Visible' = Visible
  BY <1>2 DEF Visible
<1>4. \A x \in Logger : logging'[x] \notin {"append", "send"} =>
          logging[x] \notin {"append", "send"}
  BY <1>1 DEF IInv
<1> QED BY <1>1, <1>2, <1>3, <1>4 DEF IInv, Places, NothingUnseen

\* The event loop.
LEMMA LoopInv ==
    ASSUME IInv, LoopStarts \/ Draw \/ FirstSize \/ KeyDebug \/ Quit
    PROVE  IInv'
<1>1. logging' = logging /\ ring' = ring
  BY DEF LoopStarts, Draw, FirstSize, KeyDebug, Quit, logVars
<1>2. CASE Draw
  <2>1. screen' = Visible /\ showDebug' = showDebug /\ loop' = "idle"
    BY <1>2 DEF Draw
  <2>2. Visible' = Visible
    BY <1>1, <2>1 DEF Visible
  <2> QED BY <1>1, <2>1, <2>2 DEF IInv, NothingUnseen
<1>3. CASE FirstSize \/ KeyDebug \/ Quit
  <2>1. /\ ready' = "blank" \/ loop' \in {"draw", "quit"}
        /\ loop' # "starting"
    BY <1>3 DEF FirstSize, KeyDebug, Quit
  <2> QED BY <1>1, <2>1 DEF IInv, NothingUnseen
<1>4. CASE LoopStarts
  BY <1>1, <1>4 DEF LoopStarts, IInv, NothingUnseen
<1> QED BY <1>2, <1>3, <1>4

LEMMA NextInv == IInv /\ [Next]_vars => IInv'
<1> SUFFICES ASSUME IInv, [Next]_vars PROVE IInv'
  OBVIOUS
<1>1. CASE ConnLogStarts \/ SaveInterval \/ UNCHANGED vars
  <2>1. UNCHANGED <<ring, logging, loop, ready, showDebug, screen>>
    BY <1>1 DEF ConnLogStarts, SaveInterval, vars, logVars, tuiVars
  <2>2. Visible' = Visible
    BY <2>1 DEF Visible
  <2> QED BY <2>1, <2>2 DEF IInv, NothingUnseen
<1> QED BY <1>1, HandleInv, LineInv, LoopInv DEF Next

(***************************************************************************)
(* Whenever the loop is idle and no line is on its way to it, the terminal *)
(* shows the ring.                                                         *)
(***************************************************************************)
THEOREM ScreenShowsLog == Spec => []NothingUnseen
<1>1. IInv => NothingUnseen
  BY DEF IInv
<1> QED BY <1>1, InitInv, NextInv, PTL DEF Spec

-----------------------------------------------------------------------------
(* The lock of the ring *)

\* Exactly the goroutine that holds the lock is appending.
LockForAppend ==
    /\ ringLock \in Logger \cup {None}
    /\ \A g \in Logger : logging[g] = "append" <=> ringLock = g

LEMMA NoneIsNobody == None \notin Logger
BY RingAssumption DEF Logger

LEMMA HandleLock ==
    ASSUME IInv, LockForAppend, NEW g \in Logger, Handle(g)
    PROVE  LockForAppend'
<1> USE NoneIsNobody
<1>1. CASE AppendLogEntry(g)
  BY <1>1 DEF AppendLogEntry, Logs, IInv, LockForAppend
<1>2. CASE Unlock(g)
  BY <1>2 DEF Unlock, Logs, IInv, LockForAppend
<1>3. CASE Receive(g)
  BY <1>3 DEF Receive, Logs, IInv, LockForAppend
<1> QED BY <1>1, <1>2, <1>3 DEF Handle

LEMMA NextLock == IInv /\ LockForAppend /\ [Next]_vars => LockForAppend'
<1> SUFFICES ASSUME IInv, LockForAppend, [Next]_vars PROVE LockForAppend'
  OBVIOUS
<1>1. CASE \E g \in Goroutine : Line(g)
  BY <1>1 DEF Line, Logs, Level, IInv, LockForAppend
<1>2. CASE ConnLogTick
  BY <1>2 DEF ConnLogTick, Logs, IInv, LockForAppend
<1>3. CASE \/ LoopStarts \/ Draw \/ FirstSize \/ KeyDebug \/ Quit
           \/ ConnLogStarts \/ SaveInterval \/ UNCHANGED vars
  <2>1. UNCHANGED <<ringLock, logging>>
    BY <1>3 DEF LoopStarts, Draw, FirstSize, KeyDebug, Quit, ConnLogStarts,
       SaveInterval, vars, logVars
  <2> QED BY <2>1 DEF LockForAppend
<1> QED BY <1>1, <1>2, <1>3, HandleLock DEF Next

(***************************************************************************)
(* The lock of the ring is held by one goroutine at a time, and only while *)
(* it appends: whoever waits in Send for the loop has given it back, so    *)
(* the loop can draw (log_handler.go:31-38, 68-70).                        *)
(***************************************************************************)
THEOREM SendsUnlocked == Spec => []LockForAppend
<1>1. Init => LockForAppend
  BY NoneIsNobody DEF Init, LockForAppend
<1> QED BY <1>1, InitInv, NextInv, NextLock, PTL DEF Spec

-----------------------------------------------------------------------------
(***************************************************************************)
(* A ticker of the connection log that runs is set to what the conversion  *)
(* makes of the interval its goroutine knows, and that is positive,        *)
(* whatever is saved and whatever overflows (backend_router.go:286-299).   *)
(***************************************************************************)
THEOREM TickerTrue == Spec => []TickerKeepsInterval
<1>1. Init => TickerKeepsInterval
  BY DEF Init, TickerKeepsInterval
<1>2. TickerKeepsInterval /\ [Next]_vars => TickerKeepsInterval'
  <2> SUFFICES ASSUME TickerKeepsInterval, [Next]_vars
               PROVE  TickerKeepsInterval'
    OBVIOUS
  <2>1. CASE ConnLogStarts
    BY <2>1 DEF ConnLogStarts, SetTicker, TickerKeepsInterval, Duration
  <2>2. CASE ConnLogTick
    BY <2>2 DEF ConnLogTick, ConnLogChanged, SetTicker, TickerKeepsInterval,
       Duration
  <2>3. CASE ~ConnLogStarts /\ ~ConnLogTick
    <3>1. UNCHANGED tickerVars
      BY <2>3 DEF Next, Line, Handle, AppendLogEntry, Unlock, Receive,
         LoopStarts, Draw, FirstSize, KeyDebug, Quit, SaveInterval, vars
    <3> QED BY <3>1 DEF tickerVars, TickerKeepsInterval, Duration
  <2> QED BY <2>1, <2>2, <2>3
<1> QED BY <1>1, <1>2, PTL DEF Spec
=============================================================================
