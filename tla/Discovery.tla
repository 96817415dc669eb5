------------------------------ MODULE Discovery ------------------------------
(***************************************************************************)
(* The binary discovery protocol (hdhr_discovery.go) and the identity the  *)
(* emulated tuner has in it and in discover.json (backend_router.go,       *)
(* deviceIdentity; device_id.go; hdhr_endpoints.go, getDeviceConfig).      *)
(*                                                                         *)
(* The numbers are scaled down: a byte has the values 0 to 2 Half - 1,     *)
(* with Half for 128, and Word bytes make a uint32.  A packet is a record: *)
(* its type, the payload length it declares, the payload it has, and       *)
(* whether its CRC is right; no other bytes than the CRC's pass for it.    *)
(* Texts are the bytes they have, and device IDs in hex those they spell:  *)
(* one that is not 2 Word hex digits is bytes of another number.           *)
(***************************************************************************)
EXTENDS Naturals, Sequences

CONSTANTS
    Half, Word,
    Model,          \* SupportedModels: the tuner count of each model
    DefaultModel,   \* "HDFX-4K"
    RealisticID,    \* what GenerateRealisticDeviceID makes of "101234"
    LocalBase,      \* this host's address on the route to the app, :5004
    LineupPath,     \* "/lineup.json"
    Slash,
    NoAuth,         \* "00000000"
    Device,         \* device sections a config may have, with tunarr.base_url
    Packet          \* what apps send

ASSUME DiscoveryAssumption ==
    /\ Half \in Nat /\ Half > 1 /\ Word \in Nat /\ Word > 0
    /\ DefaultModel \in DOMAIN Model

Byte == 0..(2 * Half - 1)

(***************************************************************************)
(* Tags, texts and payloads are bytes.  A reply fits in the 16 bits of its *)
(* length and its texts in the 15 of theirs.                               *)
(***************************************************************************)
ASSUME BytesAssumption ==
    /\ 1..6 \subseteq Byte
    /\ {LocalBase, LineupPath, NoAuth} \subseteq Seq(Byte)
    /\ RealisticID \in Seq(Byte) /\ Len(RealisticID) = Word
    /\ \A m \in DOMAIN Model : Model[m] \in Byte
    /\ \A d \in Device : {d.id, d.auth, d.base} \subseteq Seq(Byte)
    /\ \A pkt \in Packet : pkt.payload \in Seq(Byte)

ASSUME ReplyFits ==
    \A d \in Device :
        \A auth \in {d.auth, NoAuth}, base \in {d.base, LocalBase} :
            /\ Len(auth) < 2 * Half * Half
            /\ Len(base) + Len(LineupPath) < 2 * Half * Half
            /\ 2 * Word + 1 + Len(auth) + 2 * Len(base) + Len(LineupPath) + 18
                  < 4 * Half * Half

DiscoverReq == 2
DiscoverRpy == 3

\* Tags, in the order of their values; the numbers of the first two are kept.
TagDeviceType == 1
TagDeviceID == 2
TagTunerCount == 3
TagLineupURL == 4
TagBaseURL == 5
TagDeviceAuthStr == 6

TunerType == [i \in 1..Word |-> IF i = Word THEN 1 ELSE 0]
Wildcard == [i \in 1..Word |-> 2 * Half - 1]
Zero == [i \in 1..Word |-> 0]

VARIABLES
    device,     \* the part of the config
    request,    \* the packet being answered, or the last one
    reply       \* the last answer, NoReply when there was none

vars == <<device, request, reply>>

NoReply == [type |-> 0, len |-> 0, payload |-> <<>>, crc |-> FALSE]

-----------------------------------------------------------------------------
(* TLVs *)

\* Mutant of Tlv: the second byte of a length is shifted by eight bits.
TlvWide(p, i) ==
    LET cut == [tag |-> p[i], start |-> i, end |-> Len(p) + 2]
        long == p[i + 1] >= Half
        start == IF long THEN i + 3 ELSE i + 2
        size == (p[i + 1] % Half) + (IF long THEN 2 * Half * p[i + 2] ELSE 0)
    IN  IF i + 1 > Len(p) \/ (long /\ i + 2 > Len(p)) THEN cut
        ELSE [tag |-> p[i], start |-> start, end |-> start + size]

\* The TLV at i, its value from start up to end; end is past the payload when
\* it is cut off, in its length or in its value.
Tlv(p, i) ==
    LET cut == [tag |-> p[i], start |-> i, end |-> Len(p) + 2]
        long == p[i + 1] >= Half
        start == IF long THEN i + 3 ELSE i + 2
        size == (p[i + 1] % Half) + (IF long THEN Half * p[i + 2] ELSE 0)
    IN  IF i + 1 > Len(p) \/ (long /\ i + 2 > Len(p)) THEN cut
        ELSE [tag |-> p[i], start |-> start, end |-> start + size]

Refused == [ok |-> FALSE, tags |-> <<>>]

\* tags, and tag with value v before it: of a tag that comes again, the last
\* value counts.
Preceded(tag, v, tags) ==
    [x \in DOMAIN tags \cup {tag} |-> IF x \in DOMAIN tags THEN tags[x] ELSE v]

Tags(p) ==
    LET from[i \in 1..(Len(p) + 1)] ==
            IF i = Len(p) + 1 THEN [ok |-> TRUE, tags |-> <<>>]
            ELSE LET t == Tlv(p, i)
                     rest == IF t.end <= Len(p) + 1 THEN from[t.end]
                             ELSE Refused
                     v == SubSeq(p, t.start, t.end - 1)
                 IN  IF rest.ok
                     THEN [ok |-> TRUE, tags |-> Preceded(t.tag, v, rest.tags)]
                     ELSE Refused
    IN  from[1]

\* Mutant of AppendTlv: the length's second byte is its whole quotient by 256.
AppendTlvShort(p, tag, v) ==
    LET n == Len(v)
        h == IF n < Half THEN <<tag, n>>
             ELSE <<tag, (n % Half) + Half, n \div (2 * Half)>>
    IN  p \o h \o v

AppendTlv(p, tag, v) ==
    LET n == Len(v)
        h == IF n < Half THEN <<tag, n>>
             ELSE <<tag, (n % Half) + Half, (n \div Half) % (2 * Half)>>
    IN  p \o h \o v

-----------------------------------------------------------------------------
(* Requests *)

ParseDiscoverRequest(pkt) ==
    IF pkt.type = DiscoverReq /\ pkt.len = Len(pkt.payload) /\ pkt.crc
    THEN Tags(pkt.payload)
    ELSE Refused

IdWord(id) == IF Len(id) = Word THEN id ELSE Zero

\* A value of another size than a word's is ignored.
Names(tags, tag) == tag \in DOMAIN tags /\ Len(tags[tag]) = Word

DiscoverRequestMatches(tags, id) ==
    /\ Names(tags, TagDeviceType) =>
          tags[TagDeviceType] \in {TunerType, Wildcard}
    /\ Names(tags, TagDeviceID) => tags[TagDeviceID] \in {IdWord(id), Wildcard}

-----------------------------------------------------------------------------
(* The device *)

OrDefault(v, default) == IF v # <<>> THEN v ELSE default

\* strings.TrimRight(u, "/")
TrimRight(u) ==
    LET kept == CHOOSE n \in 0..Len(u) :
                    /\ n > 0 => u[n] # Slash
                    /\ \A i \in (n + 1)..Len(u) : u[i] = Slash
    IN  SubSeq(u, 1, kept)

Identity(d) ==
    [tuners |-> Model[IF d.model \in DOMAIN Model THEN d.model
                      ELSE DefaultModel],
     id |-> OrDefault(d.id, RealisticID),
     auth |-> OrDefault(d.auth, NoAuth)]

BuildDiscoverReply(id, base) ==
    LET p1 == AppendTlv(<<>>, TagDeviceType, TunerType)
        p2 == AppendTlv(p1, TagDeviceID, IdWord(id.id))
        p3 == AppendTlv(p2, TagDeviceAuthStr, id.auth)
        p4 == AppendTlv(p3, TagBaseURL, base)
        p5 == AppendTlv(p4, TagTunerCount, <<id.tuners>>)
        p6 == AppendTlv(p5, TagLineupURL, base \o LineupPath)
    IN  [type |-> DiscoverRpy, len |-> Len(p6) % (4 * Half * Half),
         payload |-> p6, crc |-> TRUE]

\* tunarrDiscoverReply
DiscoverReply(pkt, d) ==
    LET parsed == ParseDiscoverRequest(pkt)
        id == Identity(d)
    IN  IF parsed.ok /\ DiscoverRequestMatches(parsed.tags, id.id)
        THEN BuildDiscoverReply(id, OrDefault(TrimRight(d.base), LocalBase))
        ELSE NoReply

\* getDeviceConfig, for an app that asks at the URL base of its host.
DiscoverJSON(d, host) ==
    LET base == IF d.base # <<>> THEN TrimRight(d.base) ELSE host
    IN  [DeviceID |-> Identity(d).id, DeviceAuth |-> Identity(d).auth,
         BaseURL |-> base, LineupURL |-> base \o LineupPath,
         TunerCount |-> Identity(d).tuners]

-----------------------------------------------------------------------------
NoPacket == NoReply

Init == device \in Device /\ request = NoPacket /\ reply = NoReply

\* A datagram arrives.
Receive ==
    /\ request = NoPacket
    /\ request' \in Packet
    /\ reply' = NoReply
    /\ UNCHANGED device

Respond ==
    /\ request # NoPacket
    /\ reply' = DiscoverReply(request, device)
    /\ request' = NoPacket
    /\ UNCHANGED device

\* A save of the web UI, before or after the goroutine reads the config.
Save == device' \in Device /\ reply' = NoReply /\ UNCHANGED request

Next == Receive \/ Respond \/ Save

Spec == Init /\ [][Next]_vars

-----------------------------------------------------------------------------
(***************************************************************************)
(* A payload is read as what it says: it is refused unless it is a row of  *)
(* whole TLVs, and gives each tag its last value (hdhr_discovery.go:63-82).*)
(* Pieces says it without reading from left to right: the payload is cut   *)
(* at some places into TLVs, of a length written in one byte or in two.    *)
(***************************************************************************)
WholeTlv(s) ==
    \/ Len(s) >= 2 /\ s[2] < Half /\ Len(s) = 2 + s[2]
    \/ Len(s) >= 3 /\ s[2] >= Half /\ Len(s) = 3 + (s[2] - Half) + Half * s[3]

Piece(p, ends, e) ==
    LET before == {x \in ends : x < e}
        b == CHOOSE x \in before : \A y \in before : y <= x
    IN  SubSeq(p, b + 1, e)

Pieces(p) ==
    {ends \in SUBSET (0..Len(p)) :
        /\ {0, Len(p)} \subseteq ends
        /\ \A e \in ends \ {0} : WholeTlv(Piece(p, ends, e))}

Value(s) == SubSeq(s, IF s[2] < Half THEN 3 ELSE 4, Len(s))

LastOf(p, ends, tag) ==
    LET at == {e \in ends \ {0} : Piece(p, ends, e)[1] = tag}
        last == CHOOSE e \in at : \A x \in at : x <= e
    IN  Value(Piece(p, ends, last))

ParseAgrees ==
    LET p == request.payload
        parsed == Tags(p)
    IN  /\ parsed.ok <=> Pieces(p) # {}
        /\ \A ends \in Pieces(p) :
              /\ DOMAIN parsed.tags = {Piece(p, ends, e)[1] : e \in ends \ {0}}
              /\ \A tag \in DOMAIN parsed.tags :
                    parsed.tags[tag] = LastOf(p, ends, tag)

(***************************************************************************)
(* An app sees one device, whichever way it looks: what it reads from the  *)
(* binary reply is what discover.json tells it at the URL the reply gives, *)
(* for every device ID of eight hex digits, also for the one made up when  *)
(* the config has none, and whatever the base URL, unless it is slashes    *)
(* alone (backend_router.go:157-168, hdhr_endpoints.go:138-139).           *)
(***************************************************************************)
SameDevice ==
    reply # NoReply /\ (TrimRight(device.base) = <<>> => device.base = <<>>) =>
        LET read == Tags(reply.payload)
            json == DiscoverJSON(device, read.tags[TagBaseURL])
        IN  /\ reply.len = Len(reply.payload)
            /\ read.ok
            /\ read.tags[TagBaseURL] = json.BaseURL
            /\ read.tags[TagLineupURL] = json.LineupURL
            /\ read.tags[TagDeviceAuthStr] = json.DeviceAuth
            /\ read.tags[TagTunerCount] = <<json.TunerCount>>
            /\ Len(device.id) \in {0, Word} =>
                  read.tags[TagDeviceID] = json.DeviceID
=============================================================================
