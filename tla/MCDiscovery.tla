---------------------------- MODULE MCDiscovery ----------------------------
(* Packets of all short payloads, and a few devices. *)
EXTENDS Discovery, TLC

\* The numbers of tuners of the four models; "other" is not supported.
MCModel == "HDFX-4K" :> 4 @@ "HDHR3-US" :> 3 @@ "HDHR4-2US" :> 2
           @@ "HDHOMERUN3" :> 2

MCRealisticID == <<1, 2>>
MCNoAuth == <<0, 0, 0>>
MCLocalBase == <<3, 3, 3>>
MCLineupPath == <<7>>

Text(n) == [i \in 1..n |-> 5]

Plain == [model |-> "HDFX-4K", id |-> <<1, 3>>, auth |-> <<>>, base |-> <<>>]

\* Texts on either side of Half, IDs of another length, trailing slashes.
MCDevice ==
    {Plain, [Plain EXCEPT !.id = <<>>, !.model = "other"],
     [Plain EXCEPT !.id = <<1, 3, 3>>, !.model = "HDHR3-US"],
     [Plain EXCEPT !.base = <<5, 6, 5, 6, 6>>],
     [Plain EXCEPT !.base = <<6>>]}
    \cup {[Plain EXCEPT !.auth = Text(a), !.base = Text(b)] :
             a \in {1, Half, Half + 1}, b \in {Half - 1, Half, 3 * Half}}

UpTo(S, n) == UNION {[1..k -> S] : k \in 0..n}

\* Every payload of up to four bytes, and longer ones of telling bytes.
Payload == UpTo(Byte, 4) \cup UpTo({1, 2, Half}, 7)

Sound(p) ==
    [type |-> DiscoverReq, len |-> Len(p), payload |-> p, crc |-> TRUE]

Common == {<<>>, <<1, 2, 0, 1, 2, 2, 7, 7>>, <<1, 2, 0, 5>>, <<2, 2, 1, 3>>}

MCPacket ==
    {Sound(p) : p \in Payload \cup Common}
    \cup UNION {{[Sound(p) EXCEPT !.type = DiscoverRpy],
                 [Sound(p) EXCEPT !.len = @ + 1],
                 [Sound(p) EXCEPT !.crc = FALSE]} : p \in Common}
=============================================================================
