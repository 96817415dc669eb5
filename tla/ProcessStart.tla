---------------------------- MODULE ProcessStart ----------------------------
(***************************************************************************)
(* What main makes of the arguments after the mode and of the config when  *)
(* a proxy starts (runAppProxy, runTunerProxy), and which of its two modes *)
(* the proxy's Run chooses (AppProxy.Run, TunerProxy.Run).                 *)
(*                                                                         *)
(* A config is a record of the settings that count: proxyHost, directMode  *)
(* and directIP of the tuner section, appDirectIP, direct_hdhomerun_ip of  *)
(* the app section, and tunarr: "off", "also", or "only" (enabled with     *)
(* use_tunarr_only).                                                       *)
(***************************************************************************)
EXTENDS Naturals, Sequences

CONSTANTS
    Host,       \* host names and addresses
    NoHost,     \* ""
    Flag        \* arguments that start with "-"; "-direct" is one

Config == [proxyHost : Host \cup {NoHost}, directMode : BOOLEAN,
           directIP : Host \cup {NoHost}, appDirectIP : Host \cup {NoHost},
           tunarr : {"off", "also", "only"}]

Direct(host) == [mode |-> "direct", target |-> host]
Linked == [mode |-> "linked", target |-> NoHost]
Usage == [mode |-> "exited", target |-> NoHost]

Or(host, default) == IF host # NoHost THEN host ELSE default

Arg(args, i) == IF i <= Len(args) THEN args[i] ELSE NoHost

\* args is <<bind address, HDHomeRun's address>>, or the first part of it.
AppStarts(args, c) ==
    LET ip == Or(Arg(args, 2), c.appDirectIP)
    IN  IF ip # NoHost \/ c.tunarr = "only" THEN Direct(ip) ELSE Linked

\* The AppProxy's host is taken before the config is asked for direct mode.
TunerHost(args, c) ==
    LET dashDirect == Arg(args, 2) = "-direct"
        host == Or(Arg(args, 1), IF dashDirect THEN c.directIP ELSE c.proxyHost)
    IN  IF c.directMode THEN Or(host, c.directIP) ELSE host

TunerStarts(args, c) ==
    LET host == TunerHost(args, c)
    IN  IF Len(args) > 2 \/ Arg(args, 1) \in Flag \/ host = NoHost THEN Usage
        ELSE IF Arg(args, 2) = "-direct" \/ c.directMode THEN Direct(host)
        ELSE Linked
=============================================================================
