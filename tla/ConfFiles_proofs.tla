--------------------------- MODULE ConfFiles_proofs ---------------------------
(***************************************************************************)
(* Proofs about the files of conf: whatever conf is asked, and wherever its *)
(* runs end, the build knows what changed and no configuration is lost.     *)
(***************************************************************************)
EXTENDS ConfFiles, TLAPS

TypeOK ==
  /\ DOMAIN files \subseteq Kept /\ files \in [DOMAIN files -> Configs]
  /\ dep \subseteq Symbols /\ left \subseteq Symbols
  /\ built \in Configs /\ new \in Configs /\ Nothing \in Configs
  /\ step \in Steps

\* nothing is left to touch but while the symbols are being touched
TouchesInTurn == step # "touch" => left = {}

\* what the next auto.conf changes is touched or about to be; once it has its
\* temporary name, all of it is touched
ChangesTouched ==
  /\ step = "touch" => Differ(new, AutoConf) \subseteq dep \union left
  /\ step = "rename" => Exists("tmp_auto") /\ Differ(files["tmp_auto"], AutoConf) \subseteq dep

\* no .config is cut short, nor is tmpconfig when it is about to become one
NoneCutShort ==
  /\ Exists(".config") => files[".config"] # Nothing
  /\ step \in {"backup", "install"} => Exists("tmpconfig") /\ files["tmpconfig"] # Nothing

IInv == TypeOK /\ Settled /\ TouchesInTurn /\ ChangesTouched /\ NoneCutShort

\* Symbols that differ between two configurations differ between one of them and
\* a third, or between that one and the other.
LEMMA DifferThrough ==
  ASSUME NEW a, NEW b, NEW c
  PROVE  Differ(a, c) \subseteq Differ(a, b) \union Differ(b, c)
BY DEF Differ
-----------------------------------------------------------------------------
(* The invariant, kept by every step.                                       *)

LEMMA InitIInv == ASSUME Init PROVE IInv
BY DEF Init, IInv, TypeOK, Steps, TouchesInTurn, ChangesTouched, NoneCutShort

\* the steps of conf_write leave auto.conf and tmp_auto alone
LEMMA WriteKeepsIInv ==
  ASSUME IInv, open \/ fill \/ backup \/ install
  PROVE  IInv'
<1> USE DEF Kept
<1>0. /\ step # "touch" /\ step' # "touch" /\ step' # "rename" /\ step' \in Steps
      /\ UNCHANGED <<dep, built, left, new>>
  BY DEF open, fill, backup, install, Moves, Logs, Idle, Steps
<1>1. TypeOK /\ Settled /\ TouchesInTurn /\ NoneCutShort
  BY DEF IInv
<1>2. CASE open
  <2>1. files' = With(files, "tmpconfig", Nothing) /\ step' = "fill"
    BY <1>2 DEF open, Moves
  <2>2. /\ DOMAIN files' = DOMAIN files \union {"tmpconfig"} /\ files' \in [DOMAIN files' -> Configs]
        /\ \A g \in DOMAIN files \ {"tmpconfig"} : files'[g] = files[g]
    BY <1>1, <2>1 DEF With, TypeOK
  <2> QED BY <1>0, <1>1, <2>1, <2>2
          DEF IInv, TypeOK, Settled, TouchesInTurn, ChangesTouched, NoneCutShort, AutoConf, Differ, Exists
<1>3. CASE fill
  <2>1. /\ files' = With(files, "tmpconfig", files'["tmpconfig"]) /\ step' = "backup"
        /\ files'["tmpconfig"] \in Configs \ {Nothing}
    BY <1>3 DEF fill, Moves
  <2>2. /\ DOMAIN files' = DOMAIN files \union {"tmpconfig"} /\ files' \in [DOMAIN files' -> Configs]
        /\ \A g \in DOMAIN files \ {"tmpconfig"} : files'[g] = files[g]
    BY <1>1, <2>1 DEF With, TypeOK
  <2> QED BY <1>0, <1>1, <2>1, <2>2
          DEF IInv, TypeOK, Settled, TouchesInTurn, ChangesTouched, NoneCutShort, AutoConf, Differ, Exists
<1>4. CASE backup
  <2>1. step = "backup" /\ step' = "install"
    BY <1>4 DEF backup, Moves
  <2>2. CASE UNCHANGED files
    <3> QED BY <1>0, <1>1, <2>1, <2>2
            DEF IInv, TypeOK, Settled, TouchesInTurn, ChangesTouched, NoneCutShort, AutoConf, Differ, Exists
  <2>3. CASE Exists(".config") /\ files' = Renamed(files, ".config", ".config.old")
    <3>1. /\ DOMAIN files' = (DOMAIN files \ {".config"}) \union {".config.old"}
          /\ files' \in [DOMAIN files' -> Configs]
          /\ \A g \in DOMAIN files \ {".config", ".config.old"} : files'[g] = files[g]
      BY <1>1, <2>3 DEF Renamed, TypeOK, Exists
    <3> QED BY <1>0, <1>1, <2>1, <3>1
            DEF IInv, TypeOK, Settled, TouchesInTurn, ChangesTouched, NoneCutShort, AutoConf, Differ, Exists
  <2> QED BY <1>4, <2>2, <2>3 DEF backup
<1>5. CASE install
  <2>1. files' = Renamed(files, "tmpconfig", ".config") /\ step = "install" /\ step' \in {"run", "split"}
    BY <1>5 DEF install, Moves
  <2>2. "tmpconfig" \in DOMAIN files /\ files["tmpconfig"] # Nothing
    BY <1>1, <2>1 DEF NoneCutShort, Exists
  <2>3. /\ DOMAIN files' = (DOMAIN files \ {"tmpconfig"}) \union {".config"}
        /\ files' \in [DOMAIN files' -> Configs] /\ files'[".config"] = files["tmpconfig"]
        /\ \A g \in DOMAIN files \ {"tmpconfig", ".config"} : files'[g] = files[g]
    BY <1>1, <2>1, <2>2 DEF Renamed, TypeOK
  <2> QED BY <1>0, <1>1, <2>1, <2>2, <2>3
          DEF IInv, TypeOK, Settled, TouchesInTurn, ChangesTouched, NoneCutShort, AutoConf, Differ, Exists
<1> QED BY <1>2, <1>3, <1>4, <1>5

\* conf_split_config keeps the invariant: what the new auto.conf changes is left to
\* touch when it begins, and only a touch takes a symbol from what is left.
LEMMA TouchKeepsIInv ==
  ASSUME IInv, split \/ touch
  PROVE  IInv'
<1>1. /\ UNCHANGED <<files, built>> /\ step' = "touch" /\ new' \in Configs
      /\ dep' \subseteq Symbols /\ left' \subseteq Symbols /\ dep \subseteq dep'
      /\ Differ(new', AutoConf) \subseteq dep' \union left'
  <2>1. CASE split
    BY <2>1 DEF split, Moves, Logs, IInv, TypeOK
  <2>2. CASE touch
    BY <2>2 DEF touch, Moves, IInv, TypeOK, ChangesTouched
  <2> QED BY <2>1, <2>2
<1> QED BY <1>1 DEF IInv, TypeOK, Settled, TouchesInTurn, ChangesTouched, NoneCutShort, Steps, AutoConf, Differ, Exists

\* auto.conf may only change for what is touched
LEMMA PrintKeepsIInv ==
  ASSUME IInv, print \/ rename
  PROVE  IInv'
<1> USE DEF Kept
<1>1. TypeOK /\ Settled /\ ChangesTouched /\ NoneCutShort
  BY DEF IInv
<1>2. CASE print
  <2>1. /\ files' = With(files, "tmp_auto", new) /\ step = "touch" /\ step' = "rename"
        /\ left = {} /\ left' = {} /\ new' = Nothing /\ UNCHANGED <<dep, built>>
    BY <1>2 DEF print, Moves, Logs
  <2>2. /\ DOMAIN files' = DOMAIN files \union {"tmp_auto"} /\ files' \in [DOMAIN files' -> Configs]
        /\ files'["tmp_auto"] = new
        /\ \A g \in DOMAIN files \ {"tmp_auto"} : files'[g] = files[g]
    BY <1>1, <2>1 DEF With, TypeOK
  <2>3. AutoConf' = AutoConf
    BY <2>2 DEF AutoConf, Exists
  <2>4. TypeOK' /\ NoneCutShort'
    BY <1>1, <2>1, <2>2 DEF TypeOK, NoneCutShort, Exists, Steps
  <2>5. ChangesTouched'
    BY <1>1, <2>1, <2>2, <2>3 DEF ChangesTouched, Exists
  <2> QED BY <1>1, <2>1, <2>3, <2>4, <2>5 DEF IInv, Settled, TouchesInTurn
<1>3. CASE rename
  <2>1. /\ files' = Renamed(files, "tmp_auto", "auto.conf") /\ step = "rename" /\ step' = "run"
        /\ UNCHANGED <<dep, built, left, new>>
    BY <1>3 DEF rename, Moves, Logs, Idle
  <2>2. "tmp_auto" \in DOMAIN files /\ Differ(files["tmp_auto"], AutoConf) \subseteq dep
    BY <1>1, <2>1 DEF ChangesTouched, Exists
  <2>3. /\ DOMAIN files' = (DOMAIN files \ {"tmp_auto"}) \union {"auto.conf"}
        /\ files' \in [DOMAIN files' -> Configs] /\ files'["auto.conf"] = files["tmp_auto"]
        /\ \A g \in DOMAIN files \ {"tmp_auto", "auto.conf"} : files'[g] = files[g]
    BY <1>1, <2>1, <2>2 DEF Renamed, TypeOK
  <2>4. AutoConf' = files["tmp_auto"]
    BY <2>3 DEF AutoConf, Exists
  <2>5. Differ(AutoConf', built) \subseteq dep
    BY <1>1, <2>2, <2>4, DifferThrough DEF Settled
  <2>6. TypeOK' /\ NoneCutShort'
    BY <1>1, <2>1, <2>3 DEF TypeOK, NoneCutShort, Exists, Steps
  <2> QED BY <2>1, <2>5, <2>6 DEF IInv, Settled, TouchesInTurn, ChangesTouched
<1> QED BY <1>2, <1>3

\* what the build has read it no longer needs to be told
LEMMA OtherKeepsIInv ==
  ASSUME IInv, Go \/ End \/ Build
  PROVE  IInv'
<1>1. CASE Go
  BY <1>1 DEF Go, Moves, Logs, Idle, IInv, TypeOK, Settled, TouchesInTurn, ChangesTouched,
               NoneCutShort, Steps, AutoConf, Differ, Exists
<1>2. CASE End
  BY <1>2 DEF End, Logs, IInv, TypeOK, Settled, TouchesInTurn, ChangesTouched, NoneCutShort,
               Steps, AutoConf, Differ, Exists
<1>3. CASE Build
  <2>1. AutoConf' = AutoConf /\ built' = AutoConf /\ dep' = {} /\ built' \in Configs
    BY <1>3 DEF Build, AutoConf, Exists, IInv, TypeOK
  <2>2. Settled'
    BY <2>1 DEF Settled, Differ
  <2> QED BY <1>3, <2>1, <2>2
          DEF Build, Idle, IInv, TypeOK, TouchesInTurn, ChangesTouched, NoneCutShort, Exists
<1> QED BY <1>1, <1>2, <1>3

\* Init establishes IInv and every step keeps it, so it always holds.
THEOREM IInvHolds == FilesSpec => []IInv
<1>1. Init => IInv
  BY InitIInv
<1>2. IInv /\ [Next]_vars => IInv'
  <2> SUFFICES ASSUME IInv, [Next]_vars PROVE IInv'
    OBVIOUS
  <2>1. CASE open \/ fill \/ backup \/ install
    BY <2>1, WriteKeepsIInv
  <2>2. CASE split \/ touch
    BY <2>2, TouchKeepsIInv
  <2>3. CASE print \/ rename
    BY <2>3, PrintKeepsIInv
  <2>4. CASE Go \/ End \/ Build
    BY <2>4, OtherKeepsIInv
  <2>5. CASE UNCHANGED vars
    BY <2>5 DEF vars, IInv, TypeOK, Settled, TouchesInTurn, ChangesTouched, NoneCutShort, AutoConf, Differ, Exists
  <2> QED BY <2>1, <2>2, <2>3, <2>4, <2>5 DEF Next
<1> QED BY <1>1, <1>2, PTL DEF FilesSpec
-----------------------------------------------------------------------------
(* What it says of conf.                                                    *)

\* Whatever a run of conf changes in auto.conf, and wherever runs were killed
\* before it, the build finds the dependency files of all symbols it does not
\* know touched (conf_split_config, conf_write_autoconf).
THEOREM DependentsRebuiltThm == FilesSpec => []DependentsRebuilt
<1>1. IInv => DependentsRebuilt
  BY DEF IInv, Settled, DependentsRebuilt, AutoConf, Differ
<1> QED BY <1>1, IInvHolds, PTL

\* only conf_write changes .config and .config.old
LEMMA OthersLeaveConfig ==
  ASSUME IInv, [Next]_vars, ~backup, ~install
  PROVE  \A f \in {".config", ".config.old"} :
           /\ f \in DOMAIN files' <=> f \in DOMAIN files
           /\ f \in DOMAIN files => files'[f] = files[f]
<1>1. CASE open \/ fill \/ print
  BY <1>1 DEF open, fill, print, With
<1>2. CASE rename
  <2>1. "tmp_auto" \in DOMAIN files
    BY <1>2 DEF rename, Moves, IInv, ChangesTouched, Exists
  <2> QED BY <1>2, <2>1 DEF rename, Renamed
<1>3. CASE UNCHANGED files
  BY <1>3
<1> QED BY <1>1, <1>2, <1>3 DEF Next, Go, split, touch, End, Build, vars

\* Where a complete configuration is, there is one after every step, whatever step
\* of conf_write is the last of its run; it takes that no .config is ever empty,
\* since the backup would replace a complete .config.old by it.
THEOREM ConfigSurvivesThm == FilesSpec => ConfigSurvives
<1>1. IInv /\ [Next]_vars => [Complete(files) => Complete(files')]_vars
  <2> SUFFICES ASSUME IInv, [Next]_vars, Complete(files) PROVE Complete(files')
    OBVIOUS
  <2>1. CASE Exists(".config") /\ files' = Renamed(files, ".config", ".config.old")
    <3>1. files[".config"] # Nothing
      BY <2>1 DEF IInv, NoneCutShort
    <3>2. ".config.old" \in DOMAIN files' /\ files'[".config.old"] # Nothing
      BY <2>1, <3>1 DEF Renamed, Exists
    <3> QED BY <3>2 DEF Complete
  <2>2. CASE install
    <3>1. files' = Renamed(files, "tmpconfig", ".config") /\ files["tmpconfig"] # Nothing
      BY <2>2 DEF install, Moves, IInv, NoneCutShort
    <3>2. ".config" \in DOMAIN files' /\ files'[".config"] # Nothing
      BY <3>1 DEF Renamed
    <3> QED BY <3>2 DEF Complete
  <2>3. CASE UNCHANGED files
    BY <2>3
  <2>4. CASE ~backup /\ ~install
    BY <2>4, OthersLeaveConfig DEF Complete
  <2> QED BY <2>1, <2>2, <2>3, <2>4 DEF backup
<1> QED BY <1>1, IInvHolds, PTL DEF FilesSpec, ConfigSurvives

\* The configuration that is found, under its name or as .config.old, is replaced
\* in one step by one that is written to its end.
THEOREM SavesAtOnceThm == FilesSpec => SavesAtOnce
<1> DEFINE AtOnce == Current(files') # Current(files) =>
                       step = "install" /\ Current(files') = files["tmpconfig"] /\ Current(files') # Nothing
<1>1. IInv /\ [Next]_vars => [AtOnce]_vars
  <2> SUFFICES ASSUME IInv, [Next]_vars PROVE AtOnce
    OBVIOUS
  <2>1. CASE Exists(".config") /\ files' = Renamed(files, ".config", ".config.old")
    <3>1. ".config" \in DOMAIN files
      BY <2>1 DEF Exists
    <3>2. /\ ".config" \notin DOMAIN files' /\ ".config.old" \in DOMAIN files'
          /\ files'[".config.old"] = files[".config"]
      BY <2>1, <3>1 DEF Renamed
    <3> QED BY <3>1, <3>2 DEF Current
  <2>2. CASE install
    <3>1. /\ files' = Renamed(files, "tmpconfig", ".config") /\ files["tmpconfig"] # Nothing
          /\ step = "install"
      BY <2>2 DEF install, Moves, IInv, NoneCutShort
    <3>2. ".config" \in DOMAIN files' /\ files'[".config"] = files["tmpconfig"]
      BY <3>1 DEF Renamed
    <3> QED BY <3>1, <3>2 DEF Current
  <2>3. CASE UNCHANGED files
    BY <2>3
  <2>4. CASE ~backup /\ ~install
    BY <2>4, OthersLeaveConfig DEF Current
  <2> QED BY <2>1, <2>2, <2>3, <2>4 DEF backup
<1> QED BY <1>1, IInvHolds, PTL DEF FilesSpec, SavesAtOnce

\* The build never reads an auto.conf that is half-written, nor a new one before
\* conf_split_config has touched what is new in it.
THEOREM AutoAtOnceThm == FilesSpec => AutoAtOnce
<1> DEFINE AtOnce == AutoConf' # AutoConf =>
                       /\ step = "rename" /\ AutoConf' = files["tmp_auto"]
                       /\ Differ(AutoConf', AutoConf) \subseteq dep
<1>1. IInv /\ [Next]_vars => [AtOnce]_vars
  <2> SUFFICES ASSUME IInv, [Next]_vars PROVE AtOnce
    OBVIOUS
  <2>1. CASE rename
    <3>1. /\ files' = Renamed(files, "tmp_auto", "auto.conf") /\ step = "rename"
          /\ "tmp_auto" \in DOMAIN files /\ Differ(files["tmp_auto"], AutoConf) \subseteq dep
      BY <2>1 DEF rename, Moves, IInv, ChangesTouched, Exists
    <3>2. AutoConf' = files["tmp_auto"]
      BY <3>1 DEF AutoConf, Exists, Renamed
    <3> QED BY <3>1, <3>2
  <2>2. CASE open \/ fill \/ print
    <3>1. /\ "auto.conf" \in DOMAIN files' <=> "auto.conf" \in DOMAIN files
          /\ "auto.conf" \in DOMAIN files => files'["auto.conf"] = files["auto.conf"]
      BY <2>2 DEF open, fill, print, With
    <3> QED BY <3>1 DEF AutoConf, Exists
  <2>3. CASE backup \/ install
    <3>1. /\ "auto.conf" \in DOMAIN files' <=> "auto.conf" \in DOMAIN files
          /\ "auto.conf" \in DOMAIN files => files'["auto.conf"] = files["auto.conf"]
      BY <2>3 DEF backup, install, Moves, IInv, NoneCutShort, Exists, Renamed
    <3> QED BY <3>1 DEF AutoConf, Exists
  <2>4. CASE UNCHANGED files
    BY <2>4 DEF AutoConf, Exists
  <2> QED BY <2>1, <2>2, <2>3, <2>4 DEF Next, Go, split, touch, End, Build, vars
<1> QED BY <1>1, IInvHolds, PTL DEF FilesSpec, AutoAtOnce
=============================================================================
