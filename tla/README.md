# hdhomerun_proxy_go: specifications

TLA+ models of the proxy, the TLC instances that check them, and TLAPS proofs
about them. Source references are relative to the repository.

## 1. The system

Media apps find HDHomeRun tuners by UDP broadcast, which no router forwards.
An **AppProxy** on the tuners' network and a **TunerProxy** on the apps' network
are joined by one TCP connection. The TunerProxy relays the broadcasts it hears;
the AppProxy puts each to the HDHomeRun and to a virtual device of its own, whose
channels are those of a Tunarr server, and sends the answers back. (The names
follow the code: `app_proxy.go` listens for the connection, `tuner_proxy.go`
dials it.) Either may instead run in *direct mode*, alone.

| component | state | operations | interacts by |
|---|---|---|---|
| TunerProxy, relaying (`tuner_proxy.go`) | `tcpTransport` under `tcpMutex` | reconnect ticker, one reader goroutine per connection, broadcast goroutine, `closeTCP` | TCP with the AppProxy, UDP with apps |
| AppProxy, relaying (`app_proxy.go`) | `tcpTransport` under `tcpMutex`, link status, HDHomeRun health | accept loop, handler per connection, goroutine per query, `reply` | TCP, UDP with the HDHomeRun, the backend router |
| Message codec (`message_codec.go`) | bytes of a message begun | `Encode`, `Decode` | called with what each Read returned |
| Tuner states (`tuner_state.go`) | status, channel, client of each tuner | lock, set channel, release | stream requests, status pages |
| Stream requests (`hdhr_endpoints.go`) | place in the handler, tuner claimed | acquire, proxy or remux, release | tuner states, catalog, Tunarr |
| Tunarr catalog and health (`tunarr_catalog.go`, `backend_router.go`) | entries, index, health | refresh, check, watch | Tunarr; read by lineup and stream requests |
| Config store, web UI (`config.go`, `webui.go`) | config in memory and in the file | load, Set, ApplyLive, save | file system, every component that calls `store.Get` |
| Start (`main.go`) | flags, config, logger | merge, make credentials, persist, choose addresses | config store |
| Direct mode (`backend_router.go`) | counter of open requests, health | a goroutine per query: dial, ask, wait, reply | HDHomeRun, apps, the UIs |
| Discovery, device identity (`hdhr_discovery.go`, `device_id.go`) | none; reads the config | decode a request, match it, encode the reply | called per query; discover.json tells the same |
| Logs and terminal UI (`log_handler.go`, `tui.go`) | ring of 200 entries, screen, filter | append, send to the event loop, draw | every component that logs |
| Active connection log (`backend_router.go`) | ticker, its interval | tick, end | config store, logs |

What is hard in this code:

- **Goroutines of old connections.** A connection's reader and handler outlive
  it until their `Read` fails, and then act on shared fields that may belong to
  the next connection. `closeTCP`, `tcpTransport = nil` and `setLink` do not ask
  whose they are.
- **Blocking under a lock.** `reply` writes to the network holding `tcpMutex`.
- **A byte stream cut anywhere.** `Decode` keeps state between chunks.
- **A search that is not atomic.** `acquireTuner` locks per tuner.
- **Read, wait, write.** A save copies the config, waits for a client, and puts
  the copy back.
- **A log line may block.** Every goroutine that logs waits for the terminal's
  event loop, which needs the ring's lock to draw.
- **Outcomes in any order.** In direct mode queries run side by side and write
  one health; each of the ways out has to give its place in the counter back.
- **Faults.** Cut connections, failing dials, restarts of either process, late
  answers, a killed process half way through a write, Tunarr answering nonsense.

What makes each component correct is stated in section 3; `PROJECT.json` lists
every hazard at its line with the properties that cover it.

## 2. The modules

```
RelayMessages ── Relay                        what the pair promises the apps
      │            ▲ implemented by
      ├── TcpConns ── TunerProxyLink ─┐
      │          └─── AppProxyLink ───┴─ ProxyLink ── MCProxyLink, MCProxyLinkLive,
      │                                              ProxyLinkProofs
MessagePipe ◄── MessageCodec ── MCMessageCodec, MessageCodecProofs
TunerState ── Streams ── StreamsProofs
TunarrCatalog ── MCTunarrCatalog, TunarrCatalogProofs
Settings ── MCSettings, SettingsProofs
ProcessStart ── DirectMode ── MCDirectMode, DirectModeProofs
LogView ── LogViewProofs
Discovery ── MCDiscovery, DiscoveryProofs
```

**RelayMessages, TcpConns.** A query is a broadcast of one app; an answer is a
query and the source it is from, a tuner or Tunarr's device. A connection is a
pair of ends with a buffer of at most `Cap` messages each way, which can be in
the backlog, open or closed at the AppProxy's end, and broken. This module is
external: it stands for the kernel's TCP, as far as the two programs notice it.
A connection with both ends closed may be dialed again: `Conn` bounds how many
live at a time, not how many there ever are.

**TunerProxyLink.** `ticker` is where the loop of `runTunerProxyMode` is (it
tests the transport, dials, sets the transport and starts the reader: separate
steps, because the mutex is not held over them). `reader[c]` is where the
goroutine of connection `c` is and `tpBatch[c]` what `Decode` has still to
deliver. `udp` is the broadcast goroutine, which reads the transport, and writes
to what it read.

**AppProxyLink.** `handler[c]` and `apBatch[c]` are the goroutine of an accepted
connection; `asking[q]`, `awaiting[q]`, `carrying[q]` a query's goroutine between
its socket and its deadline. `apLocked` is `tcpMutex` while a `Write` blocks in
it; the other critical sections are one step each. `apLinkUp`, `apLinkPeer` and
`hdhr` are what the UIs show.

**ProxyLink** composes them and adds the faults: `TcpCut`, `DialFails`, and the
restarts of either process, each switched on by a member of `Faults`. `DialFails`
leaves out that the process exits when the host's name is unknown
(`tuner_proxy.go:186-190`): it is then started again, which is `TpRestart`.
MCProxyLinkLive narrows the behaviours in which liveness is checked to two scopes
(section 3); it adds no fairness of its own.

**Relay** has no connections, goroutines or restarts: queries travel, answers are
expected, return, and are delivered, each at most once, or are lost. `Travelling`,
`Expected` and `Returning` in ProxyLink are the refinement mapping: the places a
query or an answer can be in.

**MessageCodec, MessagePipe.** `stream` is every byte `Encode` has written, `read`
how many of them Read has returned, in chunks of any size, and `pos` how many
`Decode` has taken. `lengthBytesRemaining`, `msgBytesRemaining` and `msgBuffer` are
the code's; the loop of `Decode` is a step for each way through it: a byte of the
length, the bytes of a body, a complete message, no more data. `Radix` stands for
256, so that 16 bits of length are a number below `Radix^2`. The abstract pipe
carries whole messages.

**TunerState, Streams.** TunerState has the operations on one tuner as operators
on the array; Streams has the requests: `pc[r]` is where `handleStream` is,
`scan[r]` the tuner `acquireTuner` looks at.

**TunarrCatalog.** `pc` is where `checkTunarr` is, with the numbering loop one step
per channel on its own variables `newEntries` and `newByNumber`; `entries` and
`byNumber` are `tb.catalog`, swapped in one step under its lock. Apps keep the
lineup they fetched and tune by it at any time later. `useTunarrNumbers` is the
setting in the config store, which the web UI may save at any time; `cfgNumbers`
is what the check under way read of it when it began.

**Settings.** `cfg` is `configStore.cfg`, `file` the config file with the two values
no config has, `Absent` and `Torn` (truncated, not yet written); `saving[p]` is
where the save of goroutine `p` is, its body and its copy. main's own save of
generated credentials is one of them. A config is reduced to four settings that
differ in how they are treated: one flag, one section, and the web UI's address
and password.

**ProcessStart, DirectMode.** ProcessStart has what `runAppProxy` and
`runTunerProxy` make of arguments and config, as operators; DirectMode begins with
them, from every config and a set of command lines, and goes on when the outcome
is direct mode. `at[q]` is where the goroutine of a query is, `net[q]` its request
on the network, `activeDial` and `hdhr` are `activeDialConnections` and
`hdhrHealth.State`, each read or written under a mutex of its own in one step;
`shown` is what `Stats` last copied, in two steps as in the code. A slot is a
goroutine and its socket, and is used again, so `Slot` bounds how many queries are
open at once and not how many come. In linked mode ProxyLink takes over.

**LogView.** `logging[g]` is where goroutine `g` is in `tuiHandler.Handle`: about to
append a line, holding `logRingMu`, or waiting in `Send`. `loop` is the event loop,
which receives one message at a time and may have to `draw` before the next;
`ready` is `tuiModel.ready`, with the empty viewport of the first size as a value of
its own. `connlog` is the goroutine of `logActiveConnections`, which is one that logs,
`interval` the setting that a save may change at any time, `intervalSeconds` the one
the goroutine knows and `period` what its ticker is set to. `Duration` is the product
of an interval and `time.Second` as an `int64` has it, with `Second` and `Half` (half
of the numbers of an `int64`) small; `NewTicker` and `Reset` panic on what is not
positive.

**Discovery.** Pure operators, named as in the code: `Tlv` and `Tags` are the loop of
`parseDiscoverRequest`, `AppendTlv` is `appendHDHRTLV`, `Identity` is `deviceIdentity`,
`DiscoverReply` and `DiscoverJSON` the two descriptions of the device. `Half` stands for
128 and `Word` for 4, so that payloads on both sides of each boundary are short.
The state is the request being answered and the config, which saves change. A
datagram with bytes after its CRC (`hdhr_discovery.go:50` takes it) is not
represented; the code does not look at them.

Data is abstracted to what the properties tell apart: payloads, names, URLs and
hosts are model values, logging and rendering are left out.

## 3. What is checked

Runs that pass:

| run | question | bounds |
|---|---|---|
| ProxyLink | Do transport, socket, reader, handler, mutex and link status of both proxies agree in every interleaving, and does the pair implement Relay? | 2 connections of 2 messages, 2 queries, Tunarr's device and a tuner, all faults |
| ProxyLinkLive | Does the TunerProxy come back, does a broken connection's handler end, does an answer in hand arrive, do bridge and status settle unless a dial comes too early for old handlers? | 2 connections of 1 message, a tuner; one query under all faults, or two queries and one restart of either process |
| MessageCodec | Is framing right however the stream is cut? | 3 messages of 0 to 3 bytes, every cut |
| Streams | Is a tuner ever shared or lost, is a request refused that leaves a tuner behind, does a tuner come back when its client leaves? | 2 tuners, 3 requests |
| Catalog | Do list and index agree, is health evidence, is every channel listed and kept by a refresh that fails, does an app get the channel it saw, does the catalog converge? | 3 lists with shared, missing and colliding numbers, both settings, one app |
| Settings | Do file and memory agree, do saves keep what they do not name, does the password survive? | 2 savers, 5 command lines, 4 bodies, failing writes, kills |
| DirectMode | Has a direct proxy something to ask, is the counter that of the open requests, do the UIs come to show none, and health when the HDHomeRun answers? | 3 queries at once, 10 command lines, every config of 2 hosts, the HDHomeRun going and coming back |
| LogView | Is the screen the log, does every log call return, is the connection log's ticker set to the interval its goroutine knows? | 1 goroutine and the connection log, a ring of 2, intervals: none, a normal one, one that overflows to a negative period and one that overflows to a shorter one |
| Discovery | Is a payload read as what it says, do both descriptions show one device? | a byte of 8 values, all payloads up to 4 bytes, longer ones of 3 bytes' values, 14 devices |

Why the bounds are enough for the question. Every conflict in ProxyLink is
between a goroutine of an old connection and one of a new one, or between two
repliers: two connections and two queries show each, and since a connection with both ends
closed is dialed again, an answer may outlive any number of reconnections. With the
buffers of two of the run ProxyLink one Read returns two messages. In ProxyLinkLive
a buffer holds one: of two answers on one connection the first fills it, the second
blocks in its `Write` with `tcpMutex` held, and what comes after waits for the mutex,
a handler that clears the transport among it. Two queries under every fault, as often
as it likes, are beyond TLC there, so a behaviour has one query and all the faults,
or two and one restart of either process, which breaks a connection while answers
are buffered, blocked and waiting. The scopes bound only broadcasts and faults, which
owe nothing. In MessageCodec two-valued bytes reach every length the prefix can
hold, zero and the largest among them, with either byte zero or not. Three
requests for two tuners is the smallest instance in which two can hold both
while a third looks, and tuners change hands behind it. A catalog list of three channels has a
duplicate, a gap, and a number of Tunarr's that the proxy's own counter runs
into. Two savers are what a lost update takes; the second generated password
tells a regenerated one from a kept one. Of three queries
one may be timing out while one is answered and one is dialed, which is all that
one health and one counter can tell apart. Two goroutines that log are what an
append between the other's append and its `Send` takes; a ring of two overflows
with a line of either level still in it. ProxyLink and Settings use symmetry, of
queries and connections and of savers, and only in runs without liveness. The proofs of
section 4 remove the bounds for every safety property of these runs; what rests on
the bounds is liveness.

`CHECK_DEADLOCK FALSE` is said in MessageCodec, which stops when all messages
are sent and decoded, in ProxyLinkLive, where the pair rests once every query is
answered and no fault is left, and in LogView, where the process may panic.

Runs TLC refutes, each a disagreement of the code with what the repository says
of it (quoted in `PROJECT.json`, "findings"):

| run | what happens |
|---|---|
| ProxyLinkStaleHandler | The AppProxy's handler of an old connection clears the transport of the new one. Queries arrive, no answer ever leaves, and no side reconnects, because the connection is live. |
| SettingsDevice | Two overlapping saves: the second wipes the device section the first has set. |
| SettingsDebug | A save of the debug level through the web UI never changes the level, because the web UI's own log handler is exempt. |

`BridgeRecovers` and `LinkStatusSettles` are the counterpart of the first. A
`HastyDial` is one while a goroutine of an old connection has not ended, a calm one
comes when all have. A calm dial that no hasty one follows, nor a fault, makes the
bridge come back and the status right, whatever hasty dials came before. They say
nothing of a pair whose last dial was hasty, which is the case of the first run.

Seen while modelling, without a run of their own:

- The same old handler calls `setLink(false)` (`app_proxy.go:198`), which marks
  the live link as down for as long as it lives.
- The TunerProxy's reader of an old connection, or a broadcast whose Write to it
  failed, calls `closeTCP` (`tuner_proxy.go:253`, `324`), which closes the new
  one. The TunerProxy then connects again (`TunerProxyRecovers`).
- Discovery reads the device section at each request (`hdhr_endpoints.go:138`),
  and the tuners were made from it at the start (`hdhr_endpoints.go:101`): after
  a save of another model the two differ until the restart.
- A saved `use_tunarr_numbers` takes effect at the next refresh of the catalog,
  although `README.md:140` and `PRODUCT.md:25` count it among what waits for a
  restart. No property says either: `CatalogConverges` leaves the setting out.
- `acquireTuner` takes the lock once per tuner (`hdhr_endpoints.go:280`), so a
  request may get 503 although some tuner was idle at every moment: the one it
  passed was released before the next one was taken. `CONFIG.md:86` says 503 is for
  "all tuners are busy". With a tuner for every request it cannot (`EnoughForAll`).
- A kill between the two steps of `os.WriteFile` (`config.go:263`) leaves a file with
  which `LoadConfig` fails at every start (`config.go:110`), while `config.go:92` says
  it falls back to defaults.
- With `direct_mode` and `app_proxy_host` both configured and no argument,
  `runTunerProxy` takes the AppProxy's host before it asks for direct mode
  (`main.go:237`, `242`), so the address in `direct_hdhomerun_ip` is never queried.
  With `use_tunarr_only` it still refuses to start without a host it will not use.
- `logActiveConnections` reads the interval again (`backend_router.go:286`) after Run
  has found it positive (`app_proxy.go:61`, `tuner_proxy.go:61`): a save of 0 in
  between makes `time.NewTicker` panic. After a save of 0 the log has ended and
  another save starts none.
- A positive interval may overflow when it is made a duration: a saved 10000000000
  becomes negative and makes `Reset` panic in the running ticker
  (`backend_router.go:298`), a larger one may come out as a short period.
- A line logged before the first window size is known stays invisible until the
  next line or `d`: the first size makes a new, empty viewport (`tui.go:99`).
- `activeUDPConnections` is never incremented, `GetUDPReadTimeout` never called: one
  of the two counts the UIs show is always 0, and `udp_read_timeout_ms` is without
  effect.
- A `device_id` that is not 8 hex digits is 0 in the binary reply and itself in
  discover.json; a `base_url` of slashes alone is this host's address in the one
  (`backend_router.go:187`) and empty in the other (`hdhr_endpoints.go:156`).
  `SameDevice` leaves these two out.

### Fairness

- A goroutine that can go on does (weak fairness of each one's steps), as the
  Go scheduler gives it.
- The ticker fires again and again (`time.Ticker`), and a dial that nothing hinders
  succeeds: one that fails is a fault.
- Waiting for `tcpMutex` is weakly fair: each answer is written once, so the others
  cannot take the mutex for ever.
- A reader goroutine of the TunerProxy reads on while its connection lives, so a
  `Write` that blocks is one whose reader is slow, has ended, or is cut off. That a
  peer never reads and never breaks is not among the behaviours.
- Apps, tuners, faults, restarts and edits owe nothing. "Once faults stop" is
  written `[]<><<Fault>>_vars \/ ...`.
- In DirectMode goroutines go on, a socket's deadline passes, and the UIs keep
  asking (their tick or poll). "Unless it answers too late again and again" and
  "unless nobody asks" are written into the properties: the code owes nothing then.
- In LogView `Unlock` and the start of the loop are weakly fair; waiting for the
  mutex and for the loop to receive is strongly fair, as a `sync.RWMutex` and an
  unbuffered channel serve their waiters in turn.
- In Streams the handler's steps are fair, and what Tunarr and the client
  do is not a step of theirs. In Catalog the watcher is fair: its fetch has a
  timeout, so it ends one way or the other.

## 4. What is proved

TLAPS checks these for every value of the constants that satisfies the module's
assumption.

**MessageCodecProofs**: type correctness, `NoByteLost`, `NothingHeldBack`, and that
the framing implements MessagePipe. `NoByteLost` says that whenever `Decode` returns
the chunk is consumed, and that what was read of the message not complete is held
byte for byte: its length in the count, its body in the buffer. The invariant has two
parts. `Laid` says, by the index of each message sent, where its encoding lies in
the stream; that replaces a recursive concatenation. `DecoderAt` says that the
decoder works on message number `Len(delivered) + 1` and that its three variables
are functions of that message and of how far into it `pos` is. Neither
`NothingHeldBack` nor the refinement is inductive without it: in the middle of a
length the shifted byte is the only trace of what was read. Assumptions: messages
are sequences of bytes whose length two bytes can say (here an address and a
datagram of at most 4096 bytes).

**StreamsProofs**: type correctness, `OneStreamPerTuner`, `TunersAccountedFor` and
`EnoughForAll`. The invariant says that a request holds a tuner exactly when the
tuner names it, and counts: the requests that have come past tuner `i` are at most
the number of requests less `i`, since each met a holder at `i - 1` that is not
past it. That bound is what makes the search, which is not atomic, succeed when
there are tuners for all. Assumption: finitely many requests and tuners.

**TunarrCatalogProofs**: type correctness, `LineupPlayable`, `HealthHasEvidence`,
`NothingDropped` and `GivenAsListed`, for every set of lists, setting and
`ChannelStart`. The properties speak of the catalog after the
swap; the invariants are about the loop's variables after each round: the list
and the index agree, the entries made are those of the channels done
(`InOrder`), every entry anyone has, an app's old lineup too, is a channel of some list
Tunarr sent (`AllFromTunarr`). For `HealthHasEvidence` one has to know that the
first check ends before the watcher is idle.

**DirectModeProofs**: `TypeOK`, which says that the counter is the number of open
requests and that a direct proxy has something to ask. It is inductive as it
stands: each step moves one goroutine, and `Counted` says what that does to the
cardinality of the open ones. The start needs that an argument is a host, empty
or a flag, and that the empty host is none. Assumption: finitely many slots.

**LogViewProofs**: `NothingUnseen`, `TickerKeepsInterval`, and that whoever waits in
`Send` has given the ring's lock back (`SendsUnlocked`), the safety half of
`LogCallsReturn`. `NothingUnseen` is inductive once one knows where in `Handle` a
goroutine can be and that no window has a size before the loop starts: whoever
appends is from then on in `Handle` until the loop receives its line, and with that
the loop has to draw before it is idle again. `TickerKeepsInterval` needs no more
than itself; it holds for every set of intervals and every width. Assumptions: a
ring of at least one entry, intervals that are integers.

**ProxyLinkProofs**: type correctness, `NoLeakedConnection`, `TransportHasReader`,
`TransportIsServed`, `LinkPeerIsServed`, `OneWriter`, and that ProxyLink implements
Relay, for any number of connections, queries and tuners, any buffer and any of the
faults. The invariant has four parts beside the types.
`TpInv`: between the check of the reconnect loop and its setting of the transport
nobody else sets one, and the connection just dialed has no reader yet. `ApInv`: a
connection is open at the AppProxy as long as its handler runs, and `tcpMutex` is
held exactly while one goroutine is in its `Write`, with a transport. `QueryOnce`: a
query is with the broadcast goroutine, in one buffer, in one batch or with its own
goroutine, and nowhere twice. `ReplyOnce`: an answer is awaited, in the hands of a
goroutine, or in one buffer or batch on its way back; a query in transit has none.
The last two are what the refinement needs: without them a `Write` could put to the
tuners a query that Relay has already moved on. The proof has a lemma per action
and part; the steps of a reader and a handler, which act on sequences, are reduced to
what they do to the sets of what is in them (`Moves`, `HandlerReadSets`).
Assumptions: a buffer of at least one message, and `nil` is neither a connection,
a query nor a source.

**SettingsProofs**: type correctness, `FileIsMemory`, `SaveAloneKeepsUnnamed` and
`PasswordSurvives`, for any number of overlapping saves, any command lines and
bodies, with a config file and without. `trouble` says that the last write failed or
was cut off; a save that cannot open the file changes neither side and is no trouble. None is inductive: the file says nothing
between the two steps of a write and after one that failed (`TornOK`), where main
is decides who may be saving (`PhaseOK`), and memory and file are compared only
from the first `Set` on (`MemoryOK`). `CopyOK` says what a save has in its copy as
long as no other has completed, and `PassOK` where the last valid password is while
the process is down or starting. Assumption: a body names fields of a config, with
values a config may have.

**DiscoveryProofs**: `ParseAgrees` and `SameDevice`, for payloads and texts of every
length and every size of a byte. `TlvReadBack` says that what `AppendTlv` appends to
any payload `Tlv` finds there, with its tag, its value and nothing of the rest. What
`Tags` puts together is a recursion over the payload, and the library's induction
theorems cannot be instantiated by the provers here, because they have an operator
as a parameter. `SetInduction` says the same of a set of numbers, and is proved
from the pigeonhole principle: were a number missing, the successor would map the
numbers below it one to one into those of them that are not 0. With it
`ReadingExists` shows that the recursive function exists and `TagsSay` that what is
read from a place on is what the row of TLVs from there says. `TagsAppended` then
adds a TLV at the other end, where `buildDiscoverReply` adds them. Assumptions:
tags, texts and payloads are bytes; the reply fits in the 16 bits of its length and
each text in the 15 bits of a TLV's. The code does not check the latter two:
a `base_url` of 32768 bytes would make the reply malformed.

Only model-checked: every liveness property (TLAPS has no ENABLED here), that is
ProxyLinkLive, `AllDelivered`, `ClientGoneFreesTuner`, `CatalogConverges`,
`QuietShowsNone`, `HealthRecovers` and `LogCallsReturn`; and the three runs TLC
refutes.

## 5. What is not modelled

Rendering: JSON, XML, the panes of the terminal UI, the web page, the wording of
logs. Packaging. Code that only tests call: `UnlockTuner`, `SetSignalStrength`,
`SetBitRate`, `GenerateDeviceID`, `ValidateDeviceID`, `IsValidDeviceIDFormat`,
`buildDiscoverRequest`. (`calculateHDHRChecksum` adds 127 for every byte above 7F,
but the program only calls it for `101234`, whose ID is a constant of Discovery.)
HTTP itself: a request is a goroutine, an answer a step. The guide is read
whole, written unchanged, and keeps no state. The CRC of a packet is right or wrong.
Signals and the orderly end of a process: a restart forgets its state, as the
code does. Data races proper: shared fields here are read and written under their
locks, and the conflicts that matter are between critical sections.

## 6. Plan

Done: the relaying pair with its refinement, codec, streams, catalog, settings,
starts, direct mode, logs and terminal, discovery; and the proofs of all safety
properties the passing runs check. What is left is to prove what the liveness
properties rest on, step by step:

1. ProxyLink: a counterpart of `ProxyLinkStaleHandler`, that without a `HastyDial`
   no handler ever clears a transport that is not its own.
2. Streams: that a request whose client is gone is never before an unbounded wait,
   the safety half of `ClientGoneFreesTuner`.
3. Discovery: that what `discoverRequestMatches` takes names this device or all.
