------------------------------- MODULE Settings -------------------------------
(***************************************************************************)
(* The settings: what main makes of the config file and the flags when the *)
(* process starts (main.go, LoadConfig), the configStore that holds them   *)
(* (config.go), and the web UI's saves, each a goroutine that copies the   *)
(* config, decodes the request's body over the copy and sets the store to  *)
(* it (webui.go, handleConfig).                                            *)
(*                                                                         *)
(* A config is a record of four settings: debug; device, the device        *)
(* section; addr, whether webui.addr is set; and pass, webui.pass, which   *)
(* webui.user goes with.  The body of a save is a function from the        *)
(* settings it names to their values.                                      *)
(***************************************************************************)
CONSTANTS
    Device, NoDevice,       \* values of the device section; not set
    Chosen, NoPass,         \* passwords someone chose; ""
    Generated,              \* passwords rand.Text() makes
    Flags,                  \* command lines the process is started with
    Body,                   \* saves the clients of the web UI make
    Saver,                  \* handler goroutines of these
    Main,                   \* the main goroutine
    HasFile,                \* -config is given
    Absent, Torn,           \* the file does not exist; is cut off
    None

Pass == Chosen \cup Generated \cup {NoPass}
Config == [debug : BOOLEAN, device : Device \cup {NoDevice}, addr : BOOLEAN,
           pass : Pass]

(***************************************************************************)
(* The goroutines and the states of the file have names of their own, and  *)
(* a body gives the settings it names values of their types.               *)
(***************************************************************************)
ASSUME SettingsAssumption ==
    /\ Main \notin Saver /\ None \notin Saver \cup {Main}
    /\ Absent \notin Config /\ Torn \notin Config \cup {Absent}
    /\ HasFile \in BOOLEAN
    /\ Flags \subseteq [web : BOOLEAN, pass : Pass, reset : BOOLEAN,
                       debug : BOOLEAN, tui : BOOLEAN]
    /\ \A b \in Body : \E c \in Config :
          DOMAIN b \subseteq DOMAIN c /\ \A f \in DOMAIN b : b[f] = c[f]

DefaultConfig ==
    [debug |-> FALSE, device |-> NoDevice, addr |-> FALSE, pass |-> NoPass]

VARIABLES
    file,       \* what the config file holds
    cfg,        \* configStore.cfg
    writer,     \* who holds configStore.mu for a Set
    run,        \* where main is
    flags,      \* the command line it was started with
    served,     \* the web UI was started
    logger,     \* the handler of slog's default logger,
    level,      \* and what it lets through
    saving,     \* where each save is
    trouble,    \* history: a write failed or was cut off by Stop, and no
                \*   save has written the file since
    lastPass    \* history: the password when the process was last running

historyVars == <<trouble, lastPass>>
bootVars == <<run, flags, served>>
vars == <<file, cfg, writer, bootVars, logger, level, saving, historyVars>>

NoSave == [at |-> "none", body |-> <<>>, copy |-> DefaultConfig,
           overlapped |-> FALSE]

Init ==
    /\ file = Absent
    /\ cfg = DefaultConfig
    /\ writer = None
    /\ run = "down" /\ flags = None
    /\ logger = "text" /\ level = "info"
    /\ served = FALSE
    /\ saving = [p \in Saver \cup {Main} |-> NoSave]
    /\ trouble = FALSE /\ lastPass = NoPass

\* Kept by every step.
Observe == lastPass' = IF run' = "up" THEN cfg'.pass ELSE lastPass

LevelOf(c) == IF c.debug THEN "debug" ELSE "info"

-----------------------------------------------------------------------------
(* main *)

\* The flags count if the config has no web UI, or with -webui-reset.
FlagsCount(c, fl) == fl.web /\ (~c.addr \/ fl.reset)

WithFlags(c, fl) ==
    LET d == IF fl.debug THEN [c EXCEPT !.debug = TRUE] ELSE c
    IN  IF ~FlagsCount(c, fl) THEN d
        ELSE [d EXCEPT !.addr = TRUE,
                       !.pass = IF fl.pass = NoPass THEN @ ELSE fl.pass]

NeedsPass(c) == c.addr /\ c.pass = NoPass

\* Mutant of WebuiChanged: a generated password is not a change.
WebuiChangedByFlags(c, fl) == FlagsCount(c, fl)

WebuiChanged(c, fl) == FlagsCount(c, fl) \/ NeedsPass(WithFlags(c, fl))

Loaded == IF HasFile /\ file # Absent THEN file ELSE DefaultConfig

\* LoadConfig fails, and the process with it.
StartFails ==
    /\ run = "down" /\ HasFile /\ file = Torn
    /\ run' = "exited"
    /\ UNCHANGED <<file, cfg, writer, flags, served, logger, level, saving,
                   trouble>>

\* The web UI's goroutine starts last, when main is "up".
Start ==
    /\ run = "down" /\ ~(HasFile /\ file = Torn)
    /\ flags' \in Flags
    /\ LET c == WithFlags(Loaded, flags')
       IN  /\ IF NeedsPass(c)
              THEN \E p \in Generated \ {lastPass} :
                      cfg' = [c EXCEPT !.pass = p]
              ELSE cfg' = c
           /\ logger' = IF c.addr /\ ~flags'.tui THEN "web" ELSE "text"
           /\ level' = LevelOf(c)
           /\ served' = c.addr
           /\ IF HasFile /\ WebuiChanged(Loaded, flags')
              THEN /\ run' = "persist"
                   /\ saving' = [saving EXCEPT ![Main].at = "set",
                                               ![Main].copy = cfg']
              ELSE run' = "up" /\ UNCHANGED saving
    /\ UNCHANGED <<file, writer, trouble>>

\* runWithTUI: its handler lets everything through.
TuiStarts ==
    /\ run = "up" /\ flags.tui /\ logger # "tui"
    /\ logger' = "tui" /\ level' = "debug"
    /\ UNCHANGED <<file, cfg, writer, bootVars, saving, trouble>>

\* The process is killed at any point.
Stop ==
    /\ run # "down"
    /\ run' = "down"
    /\ writer' = None
    /\ saving' = [p \in Saver \cup {Main} |-> NoSave]
    /\ trouble' = (trouble \/ run = "persist" \/ file = Torn)
    /\ UNCHANGED <<file, cfg, flags, served, logger, level>>

-----------------------------------------------------------------------------
(* configStore.Set, by p *)

Goto(p, place) == saving' = [saving EXCEPT ![p].at = place]

\* p is done: a save is answered, main goes on.
Returns(p) ==
    /\ saving' = [saving EXCEPT ![p] = NoSave]
    /\ run' = IF p = Main THEN "up" ELSE run
    /\ UNCHANGED <<flags, served>>

\* The lock is taken, and os.WriteFile truncates the file.
SetLocks(p) ==
    /\ saving[p].at = "set" /\ writer = None
    /\ writer' = p
    /\ file' = IF HasFile THEN Torn ELSE file
    /\ Goto(p, "write")
    /\ UNCHANGED <<cfg, bootVars, logger, level, trouble>>

\* Mutant of SetOpenFails: the config in memory is set before the file.
SetOpenFailsInMemory(p) ==
    /\ saving[p].at = "set" /\ writer = None /\ HasFile
    /\ trouble' = (trouble \/ p = Main)
    /\ cfg' = saving[p].copy
    /\ Returns(p)
    /\ UNCHANGED <<file, writer, logger, level>>

\* The file cannot be opened: a save fails, and nothing has changed; main
\* goes on with a config that no file holds.
SetOpenFails(p) ==
    /\ saving[p].at = "set" /\ writer = None /\ HasFile
    /\ trouble' = (trouble \/ p = Main)
    /\ Returns(p)
    /\ UNCHANGED <<file, cfg, writer, logger, level>>

Overlap(p) ==
    saving' = [q \in DOMAIN saving |->
        IF q = p THEN [saving[q] EXCEPT !.at = "apply"]
        ELSE [saving[q] EXCEPT !.overlapped = TRUE]]

SetWrites(p) ==
    /\ saving[p].at = "write"
    /\ file' = IF HasFile THEN saving[p].copy ELSE file
    /\ cfg' = saving[p].copy
    /\ writer' = None
    /\ trouble' = (trouble /\ p = Main)
    /\ Overlap(p)
    /\ UNCHANGED <<bootVars, logger, level>>

\* Mutant of SetWriteFails: no Unlock on this path.
SetWriteFailsLocked(p) ==
    /\ saving[p].at = "write" /\ HasFile
    /\ trouble' = TRUE
    /\ Returns(p)
    /\ UNCHANGED <<file, cfg, writer, logger, level>>

\* The disk is full: the file stays cut off.
SetWriteFails(p) ==
    /\ saving[p].at = "write" /\ HasFile
    /\ writer' = None
    /\ trouble' = TRUE
    /\ Returns(p)
    /\ UNCHANGED <<file, cfg, logger, level>>

\* ApplyLive does nothing to a tuiHandler, which both UIs install.
ApplyLive(p) ==
    /\ saving[p].at = "apply"
    /\ level' = IF logger = "text" THEN LevelOf(saving[p].copy) ELSE level
    /\ Returns(p)
    /\ UNCHANGED <<file, cfg, writer, logger, trouble>>

-----------------------------------------------------------------------------
(* handleConfig, POST, by s *)

PostArrives(s, b) ==
    /\ run = "up" /\ served /\ saving[s].at = "none"
    /\ saving' = [saving EXCEPT ![s] =
          [at |-> "decode", body |-> b, copy |-> cfg, overlapped |-> FALSE]]
    /\ UNCHANGED <<file, cfg, writer, bootVars, logger, level, trouble>>

\* JSON it cannot decode, or a port that is zero: 400.
PostRejected(s) ==
    /\ saving[s].at = "decode"
    /\ Returns(s)
    /\ UNCHANGED <<file, cfg, writer, logger, level, trouble>>

\* The config c after b was decoded over it.
Decode(b, c) == [f \in DOMAIN c |-> IF f \in DOMAIN b THEN b[f] ELSE c[f]]

\* Mutant of PostDecoded: the body is decoded over an empty config.
PostDecodedAlone(s) ==
    /\ saving[s].at = "decode"
    /\ saving' = [saving EXCEPT
          ![s].at = "set",
          ![s].copy = Decode(saving[s].body, DefaultConfig)]
    /\ UNCHANGED <<file, cfg, writer, bootVars, logger, level, trouble>>

\* A body that leaves the whole web UI section empty keeps the current one.
PostDecoded(s) ==
    /\ saving[s].at = "decode"
    /\ LET c == Decode(saving[s].body, saving[s].copy)
       IN  saving' = [saving EXCEPT ![s].at = "set",
              ![s].copy = IF c.addr \/ c.pass # NoPass THEN c
                          ELSE [c EXCEPT !.addr = cfg.addr, !.pass = cfg.pass]]
    /\ UNCHANGED <<file, cfg, writer, bootVars, logger, level, trouble>>

Set(p) ==
    \/ SetLocks(p) \/ SetOpenFails(p) \/ SetWrites(p) \/ SetWriteFails(p)
    \/ ApplyLive(p)

Save(s) ==
    \/ \E b \in Body : PostArrives(s, b)
    \/ PostRejected(s) \/ PostDecoded(s)

Next ==
    /\ \/ StartFails \/ Start \/ TuiStarts \/ Stop
       \/ \E p \in Saver \cup {Main} : Set(p)
       \/ \E s \in Saver : Save(s)
    /\ Observe

Spec == Init /\ [][Next]_vars

-----------------------------------------------------------------------------
TypeOK ==
    /\ file \in Config \cup {Absent, Torn}
    /\ cfg \in Config
    /\ run \in {"down", "persist", "up", "exited"}
    /\ flags \in Flags \cup {None}
    /\ logger \in {"text", "web", "tui"} /\ level \in {"info", "debug"}
    /\ served \in BOOLEAN
    /\ trouble \in BOOLEAN /\ lastPass \in Pass
    /\ \A p \in Saver \cup {Main} :
          /\ saving[p].at \in {"none", "decode", "set", "write", "apply"}
          /\ saving[p].copy \in Config
          /\ writer = p <=> saving[p].at = "write"

(***************************************************************************)
(* One source of truth (PRODUCT.md:54): whenever no Set is under way, the  *)
(* file holds the config in memory, in whatever order concurrent saves ran *)
(* (config.go:255-272).  A save that cannot open the file changes neither, *)
(* and after one that cut the file off the next that is written makes them *)
(* one again.  Before the first save of a process they may differ by       *)
(* -debug.                                                                 *)
(***************************************************************************)
FileIsMemory ==
    run = "up" /\ HasFile /\ writer = None /\ ~trouble /\ file # Absent =>
        \/ file = cfg
        \/ flags.debug /\ [file EXCEPT !.debug = TRUE] = cfg

(***************************************************************************)
(* A save keeps every setting its body does not name (webui.go:120-122),   *)
(* if no other save completed since it copied the config.                  *)
(***************************************************************************)
KeepsUnnamed(s) ==
    \A f \in DOMAIN cfg \ DOMAIN saving[s].body : cfg'[f] = cfg[f]

SaveAloneKeepsUnnamed ==
    [][\A s \in Saver :
          SetWrites(s) /\ ~saving[s].overlapped => KeepsUnnamed(s)]_vars

(***************************************************************************)
(* "Missing credentials are generated once and persisted" (main.go:84): the*)
(* password that was valid before a restart, whoever chose it, is valid    *)
(* after it, unless the last write failed or was cut off, or the command   *)
(* line brings another one.                                                *)
(***************************************************************************)
PasswordSurvives ==
    [][run # "up" /\ run' = "up" /\ HasFile /\ ~trouble' /\ lastPass # NoPass
       /\ flags'.pass = NoPass => cfg'.pass = lastPass]_vars

-----------------------------------------------------------------------------
(***************************************************************************)
(* "Changing device_id changes the tuner that media apps see, so saves     *)
(* must never wipe it" (PRODUCT.md:36): once a device is configured, a     *)
(* save that does not name the device section does not change it.          *)
(***************************************************************************)
SavesKeepDevice ==
    [][\A s \in Saver :
          SetWrites(s) /\ "device" \notin DOMAIN saving[s].body =>
              cfg'.device = cfg.device]_vars

(***************************************************************************)
(* "Debug log level and web UI credentials update live" (README.md:140):   *)
(* when a save has been answered, the logger is at the config's level.     *)
(***************************************************************************)
DebugAppliesLive ==
    run = "up" /\ ~flags.tui /\ (\A s \in Saver : saving[s].at = "none") =>
        level = LevelOf(cfg)
=============================================================================
