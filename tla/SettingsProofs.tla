---------------------------- MODULE SettingsProofs ----------------------------
(***************************************************************************)
(* That the config file, the config in memory and the copies that saves    *)
(* work on agree as Settings promises, for every number of handlers, every *)
(* set of command lines and bodies, with and without a config file.        *)
(*                                                                         *)
(* The file says nothing while a Set is between truncating and writing it, *)
(* or after a Set that failed there; the invariant says that these are the *)
(* only times (TornOK), what it holds at every other time (MemoryOK), what *)
(* a save that nobody overtook has in its copy (CopyOK), and where the     *)
(* last valid password is while the process is down or starting (PassOK).  *)
(***************************************************************************)
EXTENDS Settings, TLAPS

Proc == Saver \cup {Main}

SaveState ==
    [at : {"none", "decode", "set", "write", "apply"},
     body : Body \cup {<<>>}, copy : Config, overlapped : BOOLEAN]

SavingOK ==
    /\ saving \in [Proc -> SaveState]
    /\ \A s \in Saver : saving[s].at # "none" => saving[s].body \in Body
    /\ writer \in Proc \cup {None}

\* Where main is decides who may be saving.
PhaseOK ==
    /\ run \in {"down", "exited"} => \A p \in Proc : saving[p].at = "none"
    /\ run = "persist" =>
          /\ saving[Main].at \in {"set", "write", "apply"}
          /\ saving[Main].at # "apply" => saving[Main].copy = cfg
          /\ \A s \in Saver : saving[s].at = "none"
    /\ run = "up" => saving[Main].at = "none"
    /\ run \in {"persist", "up"} => flags \in Flags

\* The file is cut off during a Set, and after one that failed in the write.
TornOK ==
    /\ file = Torn => writer # None \/ trouble
    /\ HasFile /\ writer # None => file = Torn
    /\ run = "exited" => file = Torn
    /\ ~HasFile => file = Absent

\* The first Set of a process, if it makes one, is done.
Ready == run = "up" \/ (run = "persist" /\ saving[Main].at = "apply")

MemoryOK ==
    Ready /\ HasFile /\ writer = None /\ ~trouble =>
        /\ file # Absent =>
              \/ file = cfg
              \/ flags.debug /\ [file EXCEPT !.debug = TRUE] = cfg
        /\ file = Absent => cfg.pass = NoPass

\* A save nobody overtook differs from the config in what it names.
CopyOK ==
    \A s \in Saver : ~saving[s].overlapped =>
        /\ saving[s].at = "decode" => saving[s].copy = cfg
        /\ saving[s].at \in {"set", "write"} =>
              \A f \in DOMAIN cfg \ DOMAIN saving[s].body :
                  saving[s].copy[f] = cfg[f]

PassOK ==
    /\ run = "up" => lastPass = cfg.pass
    /\ run = "down" /\ HasFile /\ ~trouble /\ lastPass # NoPass =>
          file \in Config /\ file.pass = lastPass
    /\ run = "persist" /\ HasFile /\ ~trouble /\ lastPass # NoPass
       /\ flags.pass = NoPass => cfg.pass = lastPass

IInv ==
    TypeOK /\ SavingOK /\ PhaseOK /\ TornOK /\ MemoryOK /\ CopyOK /\ PassOK

-----------------------------------------------------------------------------
(* Configs *)

Field == {"debug", "device", "addr", "pass"}

LEMMA ConfigFields == \A c \in Config : DOMAIN c = Field
BY DEF Config, Field

LEMMA ConfigEqual ==
    \A c, d \in Config : (\A f \in Field : c[f] = d[f]) => c = d
BY DEF Config, Field

LEMMA FileNames ==
    /\ Absent \notin Config /\ Torn \notin Config /\ Torn # Absent
    /\ Main \notin Saver /\ None \notin Proc
BY SettingsAssumption DEF Proc

\* What b names takes effect, what it does not name is kept.
LEMMA DecodeConfig ==
    ASSUME NEW b \in Body, NEW c \in Config
    PROVE  /\ Decode(b, c) \in Config
           /\ \A f \in Field \ DOMAIN b : Decode(b, c)[f] = c[f]
<1>1. PICK d \in Config :
         DOMAIN b \subseteq DOMAIN d /\ \A f \in DOMAIN b : b[f] = d[f]
  BY SettingsAssumption
<1>2. DOMAIN c = Field
  BY ConfigFields
<1>3. \A f \in Field : Decode(b, c)[f] = IF f \in DOMAIN b THEN d[f] ELSE c[f]
  BY <1>1, <1>2 DEF Decode
<1>4. Decode(b, c) = [debug |-> Decode(b, c).debug,
                      device |-> Decode(b, c).device,
                      addr |-> Decode(b, c).addr, pass |-> Decode(b, c).pass]
  BY <1>2 DEF Decode, Field
<1>5. Decode(b, c) \in Config
  BY <1>3, <1>4 DEF Config, Field
<1> QED BY <1>3, <1>5

LEMMA DefaultIsConfig == DefaultConfig \in Config
BY DEF DefaultConfig, Config, Pass

\* The flags a process is started with.
LEMMA FlagsConfig ==
    ASSUME NEW c \in Config, NEW fl \in Flags
    PROVE  /\ WithFlags(c, fl) \in Config
           /\ fl.pass = NoPass => WithFlags(c, fl).pass = c.pass
           /\ ~FlagsCount(c, fl) =>
                 \/ WithFlags(c, fl) = c
                 \/ fl.debug /\ WithFlags(c, fl) = [c EXCEPT !.debug = TRUE]
<1>1. fl.pass \in Pass
  BY SettingsAssumption
<1> QED BY <1>1 DEF WithFlags, FlagsCount, Config

LEMMA InitInv == Init => IInv
<1> SUFFICES ASSUME Init PROVE IInv
  OBVIOUS
<1>1. NoSave \in SaveState
  BY DefaultIsConfig DEF NoSave, SaveState
<1>2. /\ saving = [p \in Proc |-> NoSave]
      /\ \A p \in Proc : saving[p].at = "none"
  BY DEF Init, NoSave, Proc
<1>3. TypeOK
  <2>1. \A p \in Proc : saving[p] \in SaveState /\ writer # p
    BY <1>1, <1>2, FileNames DEF Init
  <2>2. \A p \in Proc : saving[p].copy \in Config
    BY <2>1 DEF SaveState
  <2> QED BY <1>2, <2>1, <2>2, DefaultIsConfig DEF Init, TypeOK, Pass, Proc
<1>4. SavingOK
  BY <1>1, <1>2 DEF SavingOK, Init, Proc
<1>5. PhaseOK /\ TornOK /\ MemoryOK /\ CopyOK /\ PassOK
  BY <1>2, FileNames DEF Init, PhaseOK, TornOK, MemoryOK, Ready, CopyOK, PassOK,
     Proc
<1> QED BY <1>3, <1>4, <1>5 DEF IInv

-----------------------------------------------------------------------------
(* What the steps of a save do to the saves *)

\* Only p's save goes on, by a record of its kind.
Moved(p, r) == saving' = [saving EXCEPT ![p] = r]

LEMMA NoSaveType == NoSave \in SaveState /\ NoSave.at = "none"
BY DefaultIsConfig DEF NoSave, SaveState

\* An action that moves one save keeps the saves and the lock in order, if
\* it takes the lock only to write.
LEMMA MovedInv ==
    ASSUME IInv, NEW p \in Proc, NEW r \in SaveState, Moved(p, r),
           p \in Saver /\ r.at # "none" => r.body \in Body,
           \/ r.at = "write" /\ writer' = p /\ writer = None
           \/ r.at # "write" /\ writer' = IF writer = p THEN None ELSE writer
    PROVE  /\ SavingOK'
           /\ \A q \in Proc : /\ saving'[q] = IF q = p THEN r ELSE saving[q]
                              /\ saving'[q].at \in
                                    {"none", "decode", "set", "write", "apply"}
                              /\ saving'[q].copy \in Config
                              /\ writer' = q <=> saving'[q].at = "write"
<1>1. /\ saving' \in [Proc -> SaveState]
      /\ \A q \in Proc : saving'[q] = IF q = p THEN r ELSE saving[q]
  BY DEF Moved, IInv, SavingOK
<1>2. SavingOK'
  BY <1>1, FileNames DEF IInv, SavingOK, Proc
<1>3. \A q \in Proc : saving'[q].copy \in Config
  BY <1>1 DEF SaveState
<1>4. \A q \in Proc : writer = q <=> saving[q].at = "write"
  BY DEF IInv, TypeOK, Proc
<1>5. \A q \in Proc : writer' = q <=> saving'[q].at = "write"
  BY <1>1, <1>4, FileNames
<1>6. \A q \in Proc :
         saving'[q].at \in {"none", "decode", "set", "write", "apply"}
  BY <1>1 DEF SaveState
<1> QED BY <1>1, <1>2, <1>3, <1>5, <1>6

\* Main saves while it starts, the handlers while it is up.
LEMMA Active ==
    ASSUME IInv, NEW p \in Proc, saving[p].at # "none"
    PROVE  \/ p = Main /\ run = "persist" /\ saving[Main].at # "decode"
           \/ p \in Saver /\ run = "up" /\ saving[Main].at = "none"
BY DEF IInv, TypeOK, PhaseOK, Proc

-----------------------------------------------------------------------------
(* configStore.Set *)

LEMMA SetLocksInv ==
    ASSUME IInv, Observe, NEW p \in Proc, SetLocks(p)
    PROVE  IInv'
<1> DEFINE r == [saving[p] EXCEPT !.at = "write"]
<1>1. /\ saving[p].at = "set" /\ writer = None /\ writer' = p
      /\ file' = IF HasFile THEN Torn ELSE file
      /\ UNCHANGED <<cfg, run, flags, served, logger, level, trouble>>
  BY DEF SetLocks, bootVars
<1>2. r \in SaveState /\ r.at = "write" /\ r.body = saving[p].body
      /\ r.copy = saving[p].copy /\ r.overlapped = saving[p].overlapped
  BY DEF IInv, SavingOK, SaveState
<1>3. Moved(p, r)
  BY DEF SetLocks, Goto, Moved, IInv, SavingOK
<1>4. p \in Saver => r.body \in Body
  BY <1>1, <1>2 DEF IInv, SavingOK
<1>5. /\ SavingOK'
      /\ \A q \in Proc : /\ saving'[q] = IF q = p THEN r ELSE saving[q]
                         /\ saving'[q].at \in
                               {"none", "decode", "set", "write", "apply"}
                         /\ saving'[q].copy \in Config
                         /\ writer' = q <=> saving'[q].at = "write"
  <2> HIDE DEF r
  <2> QED BY <1>1, <1>2, <1>3, <1>4, MovedInv
<1> HIDE DEF r
<1>6. lastPass' = lastPass
  BY <1>1 DEF Observe, IInv, PassOK
<1>7. TypeOK'
  BY <1>1, <1>5, <1>6 DEF IInv, TypeOK, Proc
<1>8. PhaseOK'
  BY <1>1, <1>2, <1>5, Active DEF IInv, PhaseOK, Proc
<1>9. TornOK'
  BY <1>1, FileNames DEF IInv, TornOK, PhaseOK
<1>10. MemoryOK'
  BY <1>1, FileNames DEF MemoryOK
<1>11. CopyOK'
  BY <1>1, <1>2, <1>5 DEF IInv, CopyOK, Proc
<1>12. PassOK'
  BY <1>1, <1>6, Active DEF IInv, PassOK
<1> QED BY <1>5, <1>7, <1>8, <1>9, <1>10, <1>11, <1>12 DEF IInv

\* A Set that fails ends the save, and is remembered as trouble unless it
\* left the file as it was and main's config in it.
LEMMA SetFailsInv ==
    ASSUME IInv, Observe, NEW p \in Proc, SetOpenFails(p) \/ SetWriteFails(p)
    PROVE  IInv'
<1>1. /\ saving[p].at \in {"set", "write"}
      /\ writer' = IF writer = p THEN None ELSE writer
      /\ trouble' \in BOOLEAN
      /\ trouble' \/ (~trouble /\ p # Main /\ writer = None)
      /\ saving' = [saving EXCEPT ![p] = NoSave]
      /\ run' = IF p = Main THEN "up" ELSE run
      /\ UNCHANGED <<file, cfg, flags, served, logger, level>>
  <2>1. CASE SetOpenFails(p)
    BY <2>1 DEF SetOpenFails, Returns
  <2>2. CASE SetWriteFails(p)
    <3>1. writer = p
      BY <2>2 DEF SetWriteFails, IInv, TypeOK, Proc
    <3> QED BY <2>2, <3>1 DEF SetWriteFails, Returns
  <2> QED BY <2>1, <2>2
<1>2. Moved(p, NoSave)
  BY <1>1 DEF Moved
<1>3. /\ SavingOK'
      /\ \A q \in Proc : /\ saving'[q] = IF q = p THEN NoSave ELSE saving[q]
                         /\ saving'[q].at \in
                               {"none", "decode", "set", "write", "apply"}
                         /\ saving'[q].copy \in Config
                         /\ writer' = q <=> saving'[q].at = "write"
  BY <1>1, <1>2, NoSaveType, MovedInv
<1>4. /\ run' = "up" /\ saving'[Main].at = "none" /\ flags' \in Flags
  BY <1>1, <1>3, Active, NoSaveType DEF IInv, PhaseOK, Proc
<1>5. lastPass' = cfg.pass
  BY <1>1, <1>4 DEF Observe
<1>6. TypeOK'
  <2>1. cfg.pass \in Pass
    BY DEF IInv, TypeOK, Config
  <2> QED BY <1>1, <1>3, <1>4, <1>5, <2>1 DEF IInv, TypeOK, Proc
<1>7. PhaseOK' /\ TornOK' /\ MemoryOK' /\ PassOK'
  <2>1. /\ HasFile /\ writer' # None => file' = Torn
        /\ ~HasFile => file' = Absent
    BY <1>1 DEF IInv, TornOK
  <2>2. file' = Torn => trouble'
    BY <1>1 DEF IInv, TornOK
  <2>3. MemoryOK'
    BY <1>1, Active DEF IInv, MemoryOK, Ready
  <2> QED BY <1>1, <1>4, <1>5, <2>1, <2>2, <2>3
          DEF PhaseOK, TornOK, PassOK
<1>8. CopyOK'
  BY <1>1, <1>3, NoSaveType DEF IInv, CopyOK, Proc
<1> QED BY <1>3, <1>6, <1>7, <1>8 DEF IInv

\* Whoever ends a Set has overtaken all the others.
LEMMA SetWritesInv ==
    ASSUME IInv, Observe, NEW p \in Proc, SetWrites(p)
    PROVE  IInv'
<1> DEFINE c == saving[p].copy
<1>1. /\ saving[p].at = "write" /\ writer' = None
      /\ file' = IF HasFile THEN c ELSE file
      /\ cfg' = c
      /\ trouble' = (trouble /\ p = Main)
      /\ UNCHANGED <<run, flags, served, logger, level>>
  BY DEF SetWrites, bootVars
<1>2. writer = p
  BY <1>1 DEF IInv, TypeOK, Proc
<1>3. /\ saving' \in [Proc -> SaveState]
      /\ \A q \in Proc : /\ saving'[q].body = saving[q].body
                         /\ saving'[q].copy = saving[q].copy
                         /\ saving'[q].at =
                               IF q = p THEN "apply" ELSE saving[q].at
                         /\ q # p => saving'[q].overlapped
  BY DEF SetWrites, Overlap, IInv, SavingOK, SaveState
<1>4. \A q \in Proc : /\ saving'[q].at \in
                            {"none", "decode", "set", "write", "apply"}
                      /\ saving'[q].copy \in Config
                      /\ saving'[q].at # "write"
  BY <1>2, <1>3 DEF SaveState, IInv, TypeOK, Proc
<1>5. c \in Config
  BY DEF IInv, SavingOK, SaveState
<1> HIDE DEF c
<1>6. SavingOK'
  BY <1>1, <1>2, <1>3 DEF IInv, SavingOK, Proc
<1>7. lastPass' = IF run = "up" THEN c.pass ELSE lastPass
  BY <1>1 DEF Observe
<1>8. TypeOK'
  <2>1. c.pass \in Pass
    BY <1>5 DEF Config
  <2>2. lastPass' \in Pass /\ file' \in Config \cup {Absent, Torn}
    BY <1>1, <1>5, <1>7, <2>1 DEF IInv, TypeOK
  <2> QED BY <1>1, <1>4, <1>5, <2>2, FileNames DEF IInv, TypeOK, Proc
<1>9. PhaseOK'
  BY <1>1, <1>3, Active DEF IInv, PhaseOK, Proc
<1>10. TornOK'
  <2>1. file' # Torn /\ (~HasFile => file' = Absent) /\ run # "exited"
    BY <1>1, <1>5, FileNames, Active DEF IInv, TornOK
  <2> QED BY <1>1, <2>1 DEF TornOK
<1>11. MemoryOK'
  BY <1>1, <1>5, FileNames DEF MemoryOK
<1>12. CopyOK'
  BY <1>3 DEF CopyOK, Proc
<1>13. PassOK'
  <2>1. run = "persist" => c = cfg
    BY <1>1, <1>2, Active DEF IInv, PhaseOK, c
  <2> QED BY <1>1, <1>7, <2>1, Active DEF IInv, PassOK
<1> QED BY <1>6, <1>8, <1>9, <1>10, <1>11, <1>12, <1>13 DEF IInv

\* ApplyLive: main goes on, or the request is answered.
LEMMA ApplyLiveInv ==
    ASSUME IInv, Observe, NEW p \in Proc, ApplyLive(p)
    PROVE  /\ IInv'
           /\ run # "up" /\ run' = "up" /\ HasFile /\ ~trouble'
              /\ lastPass # NoPass /\ flags'.pass = NoPass =>
                  cfg'.pass = lastPass
<1>1. /\ saving[p].at = "apply"
      /\ saving' = [saving EXCEPT ![p] = NoSave]
      /\ run' = IF p = Main THEN "up" ELSE run
      /\ level' = IF logger = "text" THEN LevelOf(saving[p].copy) ELSE level
      /\ UNCHANGED <<file, cfg, writer, flags, served, logger, trouble>>
  BY DEF ApplyLive, Returns
<1>2. writer # p
  BY <1>1 DEF IInv, TypeOK, Proc
<1>3. Moved(p, NoSave)
  BY <1>1 DEF Moved
<1>4. /\ SavingOK'
      /\ \A q \in Proc : /\ saving'[q] = IF q = p THEN NoSave ELSE saving[q]
                         /\ saving'[q].at \in
                               {"none", "decode", "set", "write", "apply"}
                         /\ saving'[q].copy \in Config
                         /\ writer' = q <=> saving'[q].at = "write"
  BY <1>1, <1>2, <1>3, NoSaveType, MovedInv
<1>5. /\ run' = "up" /\ saving'[Main].at = "none" /\ flags' \in Flags
      /\ Ready
  BY <1>1, <1>4, Active, NoSaveType DEF IInv, PhaseOK, Ready, Proc
<1>6. lastPass' = cfg.pass
  BY <1>1, <1>5 DEF Observe
<1>7. TypeOK'
  <2>1. cfg.pass \in Pass
    BY DEF IInv, TypeOK, Config
  <2>2. level' \in {"info", "debug"}
    BY <1>1 DEF IInv, TypeOK, LevelOf
  <2> QED BY <1>1, <1>4, <1>5, <1>6, <2>1, <2>2 DEF IInv, TypeOK, Proc
<1>8. PhaseOK' /\ TornOK' /\ PassOK'
  BY <1>1, <1>5, <1>6 DEF IInv, PhaseOK, TornOK, PassOK
<1>9. MemoryOK'
  BY <1>1, <1>5 DEF IInv, MemoryOK
<1>10. CopyOK'
  BY <1>1, <1>4, NoSaveType DEF IInv, CopyOK, Proc
<1>11. run # "up" /\ HasFile /\ ~trouble' /\ lastPass # NoPass
       /\ flags'.pass = NoPass => cfg'.pass = lastPass
  BY <1>1, Active DEF IInv, PassOK
<1> QED BY <1>4, <1>7, <1>8, <1>9, <1>10, <1>11 DEF IInv

LEMMA SetInv == ASSUME IInv, Observe, NEW p \in Proc, Set(p) PROVE IInv'
BY SetLocksInv, SetFailsInv, SetWritesInv, ApplyLiveInv DEF Set

-----------------------------------------------------------------------------
(* handleConfig *)

\* What the steps before Set leave alone.
LEMMA BeforeSet ==
    ASSUME IInv, Observe, NEW s \in Saver, NEW r \in SaveState, Moved(s, r),
           r.at \in {"none", "decode", "set"}, saving[s].at # "write",
           r.at # "none" => run = "up" /\ r.body \in Body,
           UNCHANGED <<file, cfg, writer, run, flags, served, logger, level,
                       trouble>>,
           ~r.overlapped =>
              /\ r.at = "decode" => r.copy = cfg
              /\ r.at = "set" => \A f \in DOMAIN cfg \ DOMAIN r.body :
                                    r.copy[f] = cfg[f]
    PROVE  IInv'
<1>1. writer # s /\ s \in Proc /\ s # Main
  BY FileNames DEF IInv, TypeOK, Proc
<1>2. /\ SavingOK'
      /\ \A q \in Proc : /\ saving'[q] = IF q = s THEN r ELSE saving[q]
                         /\ saving'[q].at \in
                               {"none", "decode", "set", "write", "apply"}
                         /\ saving'[q].copy \in Config
                         /\ writer' = q <=> saving'[q].at = "write"
  BY <1>1, MovedInv
<1>3. lastPass' = lastPass
  BY DEF Observe, IInv, PassOK
<1>4. TypeOK'
  BY <1>2, <1>3 DEF IInv, TypeOK, Proc
<1>5. saving'[Main] = saving[Main]
  BY <1>1, <1>2 DEF Proc
<1>6. PhaseOK'
  BY <1>1, <1>2, <1>5 DEF IInv, PhaseOK, Proc
<1>7. TornOK' /\ MemoryOK' /\ PassOK'
  BY <1>3, <1>5 DEF IInv, TornOK, MemoryOK, Ready, PassOK
<1>8. CopyOK'
  BY <1>2 DEF IInv, CopyOK, Proc
<1> QED BY <1>2, <1>4, <1>6, <1>7, <1>8 DEF IInv

LEMMA PostArrivesInv ==
    ASSUME IInv, Observe, NEW s \in Saver, NEW b \in Body, PostArrives(s, b)
    PROVE  IInv'
<1> DEFINE r == [at |-> "decode", body |-> b, copy |-> cfg,
                 overlapped |-> FALSE]
<1>1. r \in SaveState /\ r.at = "decode" /\ r.body \in Body /\ r.copy = cfg
  BY DEF SaveState, IInv, TypeOK
<1>2. /\ Moved(s, r) /\ run = "up" /\ saving[s].at = "none"
      /\ UNCHANGED <<file, cfg, writer, run, flags, served, logger, level,
                     trouble>>
  BY DEF PostArrives, Moved, bootVars
<1> HIDE DEF r
<1> QED BY <1>1, <1>2, BeforeSet

LEMMA PostRejectedInv ==
    ASSUME IInv, Observe, NEW s \in Saver, PostRejected(s)
    PROVE  IInv'
<1>1. /\ Moved(s, NoSave) /\ saving[s].at = "decode"
      /\ UNCHANGED <<file, cfg, writer, run, flags, served, logger, level,
                     trouble>>
  BY FileNames DEF PostRejected, Returns, Moved
<1> QED BY <1>1, NoSaveType, BeforeSet

LEMMA PostDecodedInv ==
    ASSUME IInv, Observe, NEW s \in Saver, PostDecoded(s)
    PROVE  IInv'
<1> DEFINE b == saving[s].body
           c == Decode(b, saving[s].copy)
           d == IF c.addr \/ c.pass # NoPass THEN c
                ELSE [c EXCEPT !.addr = cfg.addr, !.pass = cfg.pass]
           r == [saving[s] EXCEPT !.at = "set", !.copy = d]
<1>1. /\ saving[s].at = "decode" /\ saving[s] \in SaveState
      /\ saving[s].copy \in Config /\ b \in Body /\ cfg \in Config
      /\ run = "up"
  BY Active, FileNames DEF PostDecoded, IInv, TypeOK, SavingOK, SaveState, Proc
<1>2. c \in Config /\ \A f \in Field \ DOMAIN b : c[f] = saving[s].copy[f]
  BY <1>1, DecodeConfig
<1> HIDE DEF c, b
<1>3. d \in Config
  BY <1>1, <1>2 DEF Config
<1>4. saving[s].copy = cfg => \A f \in Field \ DOMAIN b : d[f] = cfg[f]
  <2>1. \A f \in Field : d[f] = c[f] \/ d[f] = cfg[f]
    BY <1>1, <1>2 DEF Config, Field
  <2> QED BY <1>2, <2>1
<1> HIDE DEF d
<1>5. /\ r \in SaveState /\ r.at = "set" /\ r.body = b /\ r.copy = d
      /\ r.overlapped = saving[s].overlapped
  BY <1>1, <1>3 DEF SaveState, b
<1>6. /\ Moved(s, r)
      /\ UNCHANGED <<file, cfg, writer, run, flags, served, logger, level,
                     trouble>>
  BY DEF PostDecoded, Moved, bootVars, IInv, SavingOK, b, c, d
<1>7. ~r.overlapped => \A f \in DOMAIN cfg \ DOMAIN r.body : r.copy[f] = cfg[f]
  BY <1>1, <1>4, <1>5, ConfigFields DEF IInv, CopyOK
<1> HIDE DEF r
<1> QED BY <1>1, <1>5, <1>6, <1>7, BeforeSet

LEMMA SaveInv == ASSUME IInv, Observe, NEW s \in Saver, Save(s) PROVE IInv'
BY PostArrivesInv, PostRejectedInv, PostDecodedInv DEF Save

-----------------------------------------------------------------------------
(* main *)

LEMMA StartFailsInv == IInv /\ Observe /\ StartFails => IInv'
<1> SUFFICES ASSUME IInv, Observe, StartFails PROVE IInv'
  OBVIOUS
<1>1. /\ run = "down" /\ HasFile /\ file = Torn /\ run' = "exited"
      /\ UNCHANGED <<file, cfg, writer, flags, served, logger, level, saving,
                     trouble>>
  BY DEF StartFails
<1>2. lastPass' = lastPass
  BY <1>1 DEF Observe
<1> QED BY <1>1, <1>2
           DEF IInv, TypeOK, SavingOK, PhaseOK, TornOK, MemoryOK, Ready,
               CopyOK, PassOK

LEMMA TuiStartsInv == IInv /\ Observe /\ TuiStarts => IInv'
<1> SUFFICES ASSUME IInv, Observe, TuiStarts PROVE IInv'
  OBVIOUS
<1>1. /\ logger' = "tui" /\ level' = "debug"
      /\ UNCHANGED <<file, cfg, writer, run, flags, served, saving, trouble>>
  BY DEF TuiStarts, bootVars
<1>2. lastPass' = lastPass
  BY <1>1 DEF Observe, IInv, PassOK
<1> QED BY <1>1, <1>2
           DEF IInv, TypeOK, SavingOK, PhaseOK, TornOK, MemoryOK, Ready,
               CopyOK, PassOK

\* A process that is killed leaves the file as its last Set did; if it was
\* up, that is the config it had.
LEMMA StopInv == IInv /\ Observe /\ Stop => IInv'
<1> SUFFICES ASSUME IInv, Observe, Stop PROVE IInv'
  OBVIOUS
<1>1. /\ run # "down" /\ run' = "down" /\ writer' = None
      /\ saving' = [p \in Proc |-> NoSave]
      /\ trouble' = (trouble \/ run = "persist" \/ file = Torn)
      /\ lastPass' = lastPass
      /\ UNCHANGED <<file, cfg, flags, served, logger, level>>
  BY DEF Stop, Observe, Proc
<1>2. \A p \in Proc : /\ saving'[p] = NoSave /\ saving'[p].at = "none"
                      /\ saving'[p].copy \in Config
  BY <1>1, NoSaveType DEF SaveState
<1>3. SavingOK'
  BY <1>1, <1>2, NoSaveType DEF SavingOK, Proc
<1>4. TypeOK'
  BY <1>1, <1>2, FileNames DEF IInv, TypeOK, Proc
<1>5. PhaseOK' /\ TornOK' /\ MemoryOK' /\ CopyOK'
  BY <1>1, <1>2 DEF IInv, PhaseOK, TornOK, MemoryOK, Ready, CopyOK, Proc
<1>6. PassOK'
  <2> SUFFICES ASSUME HasFile, ~trouble', lastPass # NoPass
               PROVE  file \in Config /\ file.pass = lastPass
    BY <1>1 DEF PassOK
  <2>1. file # Torn /\ writer = None /\ run = "up" /\ ~trouble
    BY <1>1 DEF IInv, TypeOK, TornOK
  <2>2. lastPass = cfg.pass
    BY <2>1 DEF IInv, PassOK
  <2>3. file # Absent /\ (file = cfg \/ [file EXCEPT !.debug = TRUE] = cfg)
    BY <2>1, <2>2 DEF IInv, MemoryOK, Ready
  <2>4. file \in Config
    BY <2>1, <2>3 DEF IInv, TypeOK
  <2> QED BY <2>2, <2>3, <2>4 DEF Config
<1> QED BY <1>3, <1>4, <1>5, <1>6 DEF IInv

\* What a process starts with, if its file is whole.
LEMMA Starts ==
    ASSUME IInv, Observe, Start
    PROVE  /\ IInv'
           /\ run # "up" /\ run' = "up" /\ HasFile /\ ~trouble'
              /\ lastPass # NoPass /\ flags'.pass = NoPass =>
                  cfg'.pass = lastPass
<1> DEFINE c == WithFlags(Loaded, flags')
           set == HasFile /\ WebuiChanged(Loaded, flags')
<1>1. /\ run = "down" /\ ~(HasFile /\ file = Torn) /\ flags' \in Flags
      /\ \/ NeedsPass(c) /\ \E p \in Generated : cfg' = [c EXCEPT !.pass = p]
         \/ ~NeedsPass(c) /\ cfg' = c
      /\ logger' \in {"web", "text"}
      /\ level' \in {"info", "debug"}
      /\ served' = c.addr
      /\ UNCHANGED <<file, writer, trouble>>
  BY DEF Start, LevelOf
<1>2. /\ run' = IF set THEN "persist" ELSE "up"
      /\ ~set => saving' = saving
      /\ set => saving' = [saving EXCEPT ![Main].at = "set",
                                         ![Main].copy = cfg']
  BY DEF Start
<1>3. /\ \A p \in Proc : saving[p].at = "none" /\ writer # p
      /\ writer = None
  BY <1>1 DEF IInv, TypeOK, PhaseOK, SavingOK, Proc
<1>4. /\ Loaded \in Config
      /\ HasFile /\ file # Absent => Loaded = file
      /\ ~(HasFile /\ file # Absent) => Loaded = DefaultConfig
  BY <1>1, DefaultIsConfig DEF Loaded, IInv, TypeOK
<1>5. /\ c \in Config
      /\ flags'.pass = NoPass => c.pass = Loaded.pass
      /\ ~FlagsCount(Loaded, flags') =>
            \/ c = Loaded
            \/ flags'.debug /\ c = [Loaded EXCEPT !.debug = TRUE]
  BY <1>1, <1>4, FlagsConfig
<1>6. ~set /\ HasFile => ~FlagsCount(Loaded, flags') /\ ~NeedsPass(c)
  BY DEF WebuiChanged
<1> HIDE DEF c, set
<1>7. /\ cfg' \in Config /\ c.addr \in BOOLEAN
      /\ ~NeedsPass(c) => cfg' = c
      /\ NeedsPass(c) => c.pass = NoPass
  <2>1. \A p \in Generated : [c EXCEPT !.pass = p] \in Config
    BY <1>5 DEF Config, Pass
  <2> QED BY <1>1, <1>5, <2>1 DEF NeedsPass, Config
<1>8. lastPass' = IF set THEN lastPass ELSE cfg'.pass
  BY <1>2 DEF Observe
\* The password the process starts with.
<1>9. HasFile /\ ~trouble /\ lastPass # NoPass /\ flags'.pass = NoPass =>
        cfg'.pass = lastPass
  <2> SUFFICES ASSUME HasFile, ~trouble, lastPass # NoPass, flags'.pass = NoPass
               PROVE  cfg'.pass = lastPass
    OBVIOUS
  <2>1. file \in Config /\ file.pass = lastPass
    BY <1>1 DEF IInv, PassOK
  <2>2. c.pass = lastPass
    BY <1>4, <1>5, <2>1, FileNames
  <2> QED BY <1>7, <2>2
\* The saves: none, but for main's first.
<1> DEFINE r == [saving[Main] EXCEPT !.at = "set", !.copy = cfg']
<1>10. r \in SaveState /\ r.at = "set" /\ r.copy = cfg'
  BY <1>7 DEF IInv, SavingOK, SaveState, Proc
<1>11. set => Moved(Main, r)
  BY <1>2 DEF Moved, IInv, SavingOK, Proc
<1> HIDE DEF r
<1>12. /\ SavingOK'
       /\ \A p \in Proc :
             /\ saving'[p].at = IF set /\ p = Main THEN "set" ELSE "none"
             /\ set /\ p = Main => saving'[p].copy = cfg'
             /\ saving'[p].copy \in Config
             /\ writer' # p
  <2>1. CASE set
    <3>1. /\ SavingOK'
          /\ \A q \in Proc : /\ saving'[q] = IF q = Main THEN r ELSE saving[q]
                             /\ saving'[q].copy \in Config
      BY <1>1, <1>3, <1>10, <1>11, <2>1, FileNames, MovedInv DEF Proc
    <3> QED BY <1>1, <1>3, <1>10, <2>1, <3>1
  <2>2. CASE ~set
    BY <1>1, <1>2, <1>3, <2>2 DEF IInv, SavingOK, SaveState, TypeOK, Proc
  <2> QED BY <2>1, <2>2
<1>13. TypeOK'
  <2>1. lastPass' \in Pass
    BY <1>7, <1>8 DEF IInv, TypeOK, Config
  <2>2. served' \in BOOLEAN /\ run' \in {"persist", "up"}
    BY <1>1, <1>2, <1>7
  <2> QED BY <1>1, <1>7, <1>12, <2>1, <2>2 DEF IInv, TypeOK, Proc
<1>14. PhaseOK' /\ CopyOK'
  BY <1>1, <1>2, <1>12, FileNames DEF PhaseOK, CopyOK, Proc
<1>15. TornOK'
  BY <1>1, <1>2 DEF IInv, TornOK
<1>16. MemoryOK'
  <2> SUFFICES ASSUME ~set, HasFile
               PROVE  /\ file # Absent =>
                            \/ file = cfg'
                            \/ /\ flags'.debug
                               /\ [file EXCEPT !.debug = TRUE] = cfg'
                      /\ file = Absent => cfg'.pass = NoPass
    BY <1>1, <1>2, <1>12 DEF MemoryOK, Ready, Proc
  <2>1. cfg' = c /\ ~FlagsCount(Loaded, flags') /\ ~NeedsPass(c)
    BY <1>6, <1>7
  <2>2. file = Absent => c.pass = NoPass
    <3> SUFFICES ASSUME file = Absent PROVE c.pass = NoPass
      OBVIOUS
    <3>1. Loaded = DefaultConfig
      BY <1>4
    <3> QED BY <1>5, <2>1, <3>1 DEF DefaultConfig
  <2> QED BY <1>4, <1>5, <2>1, <2>2
<1>17. PassOK'
  BY <1>1, <1>2, <1>8, <1>9 DEF PassOK
<1> QED BY <1>1, <1>9, <1>12, <1>13, <1>14, <1>15, <1>16, <1>17 DEF IInv

LEMMA NextInv == IInv /\ [Next]_vars => IInv'
<1> SUFFICES ASSUME IInv, [Next]_vars PROVE IInv'
  OBVIOUS
<1>1. CASE UNCHANGED vars
  BY <1>1 DEF vars, bootVars, historyVars, IInv, TypeOK, SavingOK, PhaseOK,
     TornOK, MemoryOK, Ready, CopyOK, PassOK
<1>2. CASE Next
  BY <1>2, StartFailsInv, Starts, TuiStartsInv, StopInv, SetInv, SaveInv
     DEF Next, Proc
<1> QED BY <1>1, <1>2

-----------------------------------------------------------------------------
(***************************************************************************)
(* The inductive invariant: where saves may be, when the file is cut off,  *)
(* what it holds otherwise, what a save that nobody overtook has copied,   *)
(* and where the last valid password is (config.go, webui.go, main.go).    *)
(***************************************************************************)
THEOREM SettingsInvariant == Spec => []IInv
BY InitInv, NextInv, PTL DEF Spec

(***************************************************************************)
(* The variables keep their types, and configStore.mu is held by the one   *)
(* save that writes the file, and by nobody otherwise (config.go:255-270). *)
(***************************************************************************)
THEOREM TypeCorrect == Spec => []TypeOK
<1>1. IInv => TypeOK
  BY DEF IInv
<1> QED BY <1>1, SettingsInvariant, PTL

(***************************************************************************)
(* However many saves run, in whatever order: when none writes and none    *)
(* has cut the file off since the last one that was written, the config    *)
(* file and the config in memory are the same, but for -debug              *)
(* (config.go:255-272).                                                    *)
(***************************************************************************)
THEOREM OneTruth == Spec => []FileIsMemory
<1>1. IInv => FileIsMemory
  BY DEF IInv, MemoryOK, Ready, FileIsMemory
<1> QED BY <1>1, SettingsInvariant, PTL

(***************************************************************************)
(* A save that no other one overtook changes only the settings that its    *)
(* body names (webui.go:120-138).                                          *)
(***************************************************************************)
THEOREM UnnamedKept == Spec => SaveAloneKeepsUnnamed
<1>1. IInv /\ [Next]_vars =>
        [\A s \in Saver :
            SetWrites(s) /\ ~saving[s].overlapped => KeepsUnnamed(s)]_vars
  <2> SUFFICES ASSUME IInv, NEW s \in Saver, SetWrites(s),
                      ~saving[s].overlapped
               PROVE  KeepsUnnamed(s)
    BY DEF vars
  <2>1. saving[s].at = "write" /\ cfg' = saving[s].copy
    BY DEF SetWrites
  <2> QED BY <2>1 DEF IInv, CopyOK, KeepsUnnamed
<1> QED BY <1>1, SettingsInvariant, PTL DEF Spec, SaveAloneKeepsUnnamed

(***************************************************************************)
(* The password that was valid when the process was last up, whoever chose *)
(* it, is valid when it is up again, unless the last write failed or was   *)
(* cut off, or the command line brings another one (main.go:62-117).       *)
(***************************************************************************)
THEOREM PasswordKept == Spec => PasswordSurvives
<1> DEFINE Kept ==
      run # "up" /\ run' = "up" /\ HasFile /\ ~trouble' /\ lastPass # NoPass
      /\ flags'.pass = NoPass => cfg'.pass = lastPass
<1>1. IInv /\ [Next]_vars => [Kept]_vars
  <2> SUFFICES ASSUME IInv, Next, run # "up", run' = "up", ~trouble'
               PROVE  Kept
    BY DEF vars
  <2>1. CASE Start
    BY <2>1, Starts DEF Next
  <2>2. CASE \E p \in Saver \cup {Main} : Set(p)
    <3>1. PICK p \in Proc : Set(p)
      BY <2>2 DEF Proc
    <3>2. CASE ApplyLive(p)
      BY <3>2, ApplyLiveInv DEF Next
    <3>3. CASE SetOpenFails(p) \/ SetWriteFails(p)
      BY <3>3 DEF SetOpenFails, SetWriteFails, Returns
    <3>4. CASE SetLocks(p) \/ SetWrites(p)
      BY <3>4 DEF SetLocks, SetWrites, bootVars
    <3> QED BY <3>1, <3>2, <3>3, <3>4 DEF Set
  <2>3. ~StartFails /\ ~TuiStarts /\ ~Stop
    BY DEF StartFails, TuiStarts, Stop
  <2>4. ASSUME NEW s \in Saver, Save(s) PROVE FALSE
    <3>1. run = "up" \/ run' = run \/ s = Main
      BY <2>4
         DEF Save, PostArrives, PostRejected, PostDecoded, Returns, bootVars
    <3> QED BY <3>1, FileNames
  <2> QED BY <2>1, <2>2, <2>3, <2>4 DEF Next
<1> QED BY <1>1, SettingsInvariant, PTL DEF Spec, PasswordSurvives
=============================================================================
