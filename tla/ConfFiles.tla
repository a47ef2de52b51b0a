------------------------------ MODULE ConfFiles ------------------------------
(***************************************************************************)
(* The files conf leaves behind, without the Kconfig behind them: how       *)
(* .config is replaced (conf_write), and how auto.conf and the dependency   *)
(* files of the symbols keep step with the build (conf_write_autoconf,      *)
(* conf_split_config), by runs that may end anywhere.  What a configuration *)
(* says is left to Value.  KConf, which decides what is written and when,   *)
(* implements FilesSpec; what holds of every behaviour of FilesSpec holds   *)
(* of it.                                                                   *)
(***************************************************************************)
CONSTANTS Symbols,
          Configs,       \* what a file may hold,
          Nothing,       \* what it holds when it has only been created, one of them,
          Value(_, _)    \* and the value a configuration gives to a symbol

VARIABLES files,   \* the contents of each file that exists
          dep,     \* the dependency files touched since the last build
          built,   \* auto.conf as the last build saw it
          step,    \* what the run does next; "run" is anything that writes none
                   \* of these files, "off" is no run at all
          left,    \* the symbols conf_split_config has yet to touch
          new      \* the configuration it makes them touched for

vars == <<files, dep, built, step, left, new>>

Kept == {".config", ".config.old", "tmpconfig", "auto.conf", "tmp_auto"}
Steps == {"off", "run", "open", "fill", "backup", "install", "split", "touch", "rename"}

Exists(f) == f \in DOMAIN files
With(fs, f, lines) == [g \in DOMAIN fs \union {f} |-> IF g = f THEN lines ELSE fs[g]]
Renamed(fs, a, b) == [f \in (DOMAIN fs \ {a}) \union {b} |-> IF f = b THEN fs[a] ELSE fs[f]]

Differ(a, b) == {s \in Symbols : Value(a, s) # Value(b, s)}

\* a missing auto.conf sets no symbol, as an empty one
AutoConf == IF Exists("auto.conf") THEN files["auto.conf"] ELSE Nothing

\* The symbols whose value the last build does not know are touched.
Settled == Differ(AutoConf, built) \subseteq dep

\* what earlier runs and builds leave: no .config was cut short, by conf or by hand
Init ==
  /\ DOMAIN files \subseteq Kept /\ files \in [DOMAIN files -> Configs]
  /\ Exists(".config") => files[".config"] # Nothing
  /\ dep \subseteq Symbols /\ built \in Configs
  /\ Settled
  /\ step = "off" /\ left = {} /\ new = Nothing /\ Nothing \in Configs

Idle == UNCHANGED <<left, new>>
Logs == UNCHANGED <<dep, built>>
Moves(from, to) == step \in from /\ step' \in to

\* a run begins; a run that does something else comes to one that saves
Go == /\ Moves({"off", "run"}, {"run", "open", "split"})
      /\ UNCHANGED files /\ Logs /\ Idle

\* conf_write: a new file is made, filled, and put in the place of the old one
open == /\ Moves({"open"}, {"fill"})
        /\ files' = With(files, "tmpconfig", Nothing)
        /\ Logs /\ Idle

fill == /\ Moves({"fill"}, {"backup"})
        /\ files' = With(files, "tmpconfig", files'["tmpconfig"])
        /\ files'["tmpconfig"] \in Configs \ {Nothing}
        /\ Logs /\ Idle

\* conf_write does not look at the result of this rename
backup == /\ Moves({"backup"}, {"install"})
          /\ \/ Exists(".config") /\ files' = Renamed(files, ".config", ".config.old")
             \/ UNCHANGED files
          /\ Logs /\ Idle

install == /\ Moves({"install"}, {"run", "split"})
           /\ files' = Renamed(files, "tmpconfig", ".config")
           /\ Logs /\ Idle

\* conf_split_config: what will no longer be as auto.conf has it is to be touched
split == /\ Moves({"split"}, {"touch"})
         /\ new' \in Configs /\ left' \subseteq Symbols
         /\ Differ(new', AutoConf) \subseteq left'
         /\ UNCHANGED files /\ Logs

touch == /\ Moves({"touch"}, {"touch"})
         /\ \E s \in left : dep' = dep \union {s} /\ left' = left \ {s}
         /\ UNCHANGED <<files, built, new>>

\* conf_write_autoconf, when all are touched
print == /\ Moves({"touch"}, {"rename"})
         /\ left = {}
         /\ files' = With(files, "tmp_auto", new)
         /\ left' = {} /\ new' = Nothing /\ Logs

rename == /\ Moves({"rename"}, {"run"})
          /\ files' = Renamed(files, "tmp_auto", "auto.conf")
          /\ Logs /\ Idle

\* the run ends, fails or is killed
End == /\ step # "off" /\ step' = "off"
       /\ left' = {} /\ new' = Nothing
       /\ UNCHANGED files /\ Logs

\* what depends on a touched symbol is built again
Build == /\ step = "off" /\ Exists("auto.conf")
         /\ built' = files["auto.conf"] /\ dep' = {}
         /\ UNCHANGED <<files, step>> /\ Idle

Next == Go \/ open \/ fill \/ backup \/ install \/ split \/ touch \/ print \/ rename \/ End \/ Build

\* conf changes these files, and counts on what they hold, in this order only,
\* whatever it is asked and wherever it ends.
FilesSpec == Init /\ [][Next]_vars
-----------------------------------------------------------------------------
(* Properties.                                                              *)

\* A symbol whose value in auto.conf is no longer the one of the last build has
\* had its dependency file touched, so that its dependents are built again, also
\* after a run that was killed.
DependentsRebuilt == Exists("auto.conf") =>
  \A s \in Symbols : Value(files["auto.conf"], s) # Value(built, s) => s \in dep

\* Where there was a complete configuration there always is one, under its name
\* or as .config.old, wherever conf_write fails or is killed.
Complete(fs) == \E f \in {".config", ".config.old"} \intersect DOMAIN fs : fs[f] # Nothing
ConfigSurvives == [][Complete(files) => Complete(files')]_vars

\* The configuration, .config or in its absence .config.old, changes in one step,
\* the last of conf_write, from all of the old one to all of the new one.
Current(fs) == IF ".config" \in DOMAIN fs THEN fs[".config"]
               ELSE IF ".config.old" \in DOMAIN fs THEN fs[".config.old"] ELSE Nothing
SavesAtOnce ==
  [][Current(files') # Current(files) =>
       step = "install" /\ Current(files') = files["tmpconfig"] /\ Current(files') # Nothing]_vars

\* auto.conf changes in one step, when every symbol it changes is touched.
AutoAtOnce ==
  [][AutoConf' # AutoConf => step = "rename" /\ AutoConf' = files["tmp_auto"] /\ Differ(AutoConf', AutoConf) \subseteq dep]_vars
=============================================================================
