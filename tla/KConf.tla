------------------------------- MODULE KConf -------------------------------
(***************************************************************************)
(* conf (kconfig/conf.c), the program behind oldconfig, syncconfig,         *)
(* savedefconfig and the other targets, over the files it shares with other *)
(* runs and with the build.  A run reads a configuration, asks, and saves;  *)
(* work is what is left of its recursive functions: a sequence of tasks,    *)
(* the first being the next.  The run can be killed between any two steps,  *)
(* and the Kconfig can change between two runs.                             *)
(***************************************************************************)
EXTENDS KConfData

CONSTANTS Trees,      \* the versions of the Kconfig: a set of finalized trees
          Disks,      \* what earlier runs and builds may have left: files, built, dep
          Defconfig,  \* the configuration in the file "defconfig"
          Answers,    \* the numbers a user may enter
          Picks,      \* the random values of randconfig
          MaxStarts   \* bound: runs of conf

VARIABLES files,   \* the lines of each file that exists
          dep,     \* the dependency files touched since the last build
          built,   \* auto.conf as the last build saw it
          stale,   \* .config is newer than auto.conf
          T,       \* the version of the Kconfig
          d,       \* the symbols in memory
          mode,    \* input_mode, or "off"
          work,    \* tasks
          root,    \* rootEntry
          again,   \* conf_cnt is not 0
          starts   \* runs so far

disk == <<files, dep, built, stale>>
vars == <<files, dep, built, stale, T, d, mode, work, root, again, starts>>

Off == mode = "off"

\* the value of s in a configuration, if it has a line
Value(lines, s) == LET own == {l \in ToSet(lines) : l[1] = s}
                   IN  IF own = {} THEN Empty ELSE (CHOOSE l \in own : TRUE)[2]

\* the files as ConfFiles sees them: what the run does to them next, what it has
\* yet to touch, and for which auto.conf
Lines == UNION {{<<s, v>> : v \in Tristate \union 0..9 \union {Empty}} : s \in Symbols}
Step == IF Off THEN "off"
        ELSE IF work = <<>> THEN "run"
        ELSE CASE Head(work)[1] \in {"open", "fill", "backup", "install", "split", "rename"} -> Head(work)[1]
               [] Head(work)[1] \in {"touch", "print"} -> "touch"
               [] OTHER -> "run"
F == INSTANCE ConfFiles WITH
       Configs <- Seq(Lines), Nothing <- <<>>,
       files <- Restrict(files, DOMAIN files \intersect {".config", ".config.old", "tmpconfig", "auto.conf", "tmp_auto"}),
       step <- Step,
       left <- {t[2] : t \in {t \in ToSet(work) : t[1] = "touch"}},
       new <- IF Step = "touch" THEN Autoconf(T, d).lines ELSE <<>>

Exists(f) == f \in DOMAIN files
Renamed(fs, a, b) == F!Renamed(fs, a, b)
With(fs, f, lines) == F!With(fs, f, lines)

Asking == {"oldaskconfig", "oldconfig", "syncconfig", "listnewconfig"}
AllModes == [allnoconfig |-> "no", allyesconfig |-> "yes", allmodconfig |-> "mod",
             alldefconfig |-> "default"]
Existing == {"savedefconfig", "syncconfig", "oldaskconfig", "oldconfig", "listnewconfig", "olddefconfig"}

conf_write_tasks == <<<<"open">>, <<"fill">>, <<"backup">>, <<"install">>>>
conf_write_autoconf_tasks == <<<<"split">>, <<"print">>, <<"rename", "header">>,
                               <<"rename", "tristate">>, <<"rename", "auto.conf">>>>
FinalTasks(m) ==
  CASE m = "syncconfig" -> <<<<"sync">>>>
    [] m = "savedefconfig" -> <<<<"minimal">>>>
    [] m = "listnewconfig" -> <<>>
    [] OTHER -> conf_write_tasks

Init ==
  /\ \E disk0 \in Disks : /\ files = ("defconfig" :> Defconfig) @@ disk0.files
                          /\ built = disk0.built /\ dep = disk0.dep
  /\ stale = TRUE
  /\ T \in Trees
  /\ d = Fresh(T) /\ mode = "off" /\ work = <<>> /\ root = 1 /\ again = FALSE /\ starts = 0
-----------------------------------------------------------------------------
(* Starting: the Kconfig is read, then a configuration.                     *)

Started(m, c, tasks) ==
  /\ mode' = m /\ d' = c
  /\ work' = tasks \o FinalTasks(m)
  /\ UNCHANGED <<disk, T, root, again>>

Begin == Off /\ starts < MaxStarts /\ starts' = starts + 1

\* the Kconfig is edited between two runs
Edit ==
  /\ Off /\ starts < MaxStarts
  /\ \E K \in Trees : T' = K /\ d' = Fresh(K)
  /\ UNCHANGED <<disk, mode, work, root, again, starts>>

\* targets that start from .config; syncconfig insists on one
StartExisting(m) ==
  LET c == IF Exists(".config") THEN conf_read(T, Fresh(T), files[".config"])
           ELSE conf_read_missing(T, Fresh(T), TRUE)
  IN  /\ Begin
      /\ m = "syncconfig" => Exists(".config")
      /\ Started(m, c, CASE m = "oldaskconfig" -> <<<<"conf", 1>>, <<"loop">>>>
                         [] m \in Asking \ {"oldaskconfig"} -> <<<<"loop">>>>
                         [] OTHER -> <<>>)

AllNew(c, m) == conf_set_all_new_symbols(T, c, m, <<>>).d
StartDefconfig ==
  /\ Begin
  /\ Exists("defconfig")
  /\ Started("defconfig", AllNew(conf_read(T, Fresh(T), files["defconfig"]), "default"), <<>>)

StartAll(m) == Begin /\ Started(m, AllNew(Fresh(T), AllModes[m]), <<>>)

StartRandom == Begin /\ \E pick \in Picks : Started("randconfig", Randomized(T, Fresh(T), pick), <<>>)
-----------------------------------------------------------------------------
(* Asking.                                                                  *)

Task(name) == ~Off /\ work # <<>> /\ Head(work)[1] = name
Entry == Head(work)[2]
Node == T.node[Entry]
Rest == Tail(work)
Each(name, ks) == [k \in DOMAIN ks |-> <<name, ks[k]>>]
Kids == Each("conf", T.kids[Entry])

\* the next task is done: the state of the symbols is c, then come the tasks w
Goes(c, w) ==
  /\ d' = c /\ work' = w
  /\ UNCHANGED <<disk, T, mode, root, again, starts>>

\* conf(): what to do with an entry that can be seen
Todo ==
  LET type == T.prop[Node.prompt].type
      s == Node.sym
  IN  IF type = "MENU" /\ mode # "oldaskconfig" /\ root # Entry THEN <<<<"check", Entry>>>> \o Rest
      ELSE IF s = NoSym THEN Kids \o Rest
      ELSE IF sym_is_choice(s) THEN <<<<"choice", Entry>>, <<"rest", Entry>>>> \o Rest
      ELSE IF IsBool(s) THEN <<<<"sym", Entry>>>> \o Kids \o Rest
      ELSE <<<<"string", Entry>>>> \o Kids \o Rest

conf ==
  /\ Task("conf")
  /\ \E r \in {menu_is_visible(T, d, Entry)} : Goes(r.d, IF r.v THEN Todo ELSE Rest)

\* conf_askvalue: no question is asked of a symbol that cannot be changed, and
\* only new symbols are asked about when a configuration is updated
Asked(s) == sym_is_changable(d, s) /\ (mode = "oldaskconfig" \/ ~sym_has_value(d, s))

NotAsked ==
  /\ Task("sym") \/ Task("string")
  /\ ~Asked(Node.sym)
  /\ Goes(d, Rest)

\* conf_sym and conf_string: an answer that is not accepted is asked for again
conf_sym(v) ==
  /\ Task("sym")
  /\ Asked(Node.sym)
  /\ \E r \in {sym_set_tristate_value(T, d, Node.sym, v)} : r.ok /\ Goes(r.d, Rest)

conf_string(v) ==
  /\ Task("string")
  /\ Asked(Node.sym)
  /\ \E r \in {sym_set_string_value(T, d, Node.sym, v)} : r.ok /\ Goes(r.d, Rest)

\* a bare Enter takes the value shown
Enter ==
  /\ Task("sym") \/ Task("string")
  /\ IF Task("sym") THEN conf_sym(d.tri[Node.sym]) ELSE conf_string(d.val[Node.sym])

\* conf_choice, up to its list
Listed(c, s) == IF c.tri[s] = 2 THEN <<<<"pick", Entry, ~sym_has_value(d, s)>>>> \o Rest ELSE Rest
conf_choice ==
  LET s == Node.sym
  IN  /\ Task("choice")
      /\ Goes(d, IF sym_is_changable(d, s)
                 THEN <<<<"sym", Entry>>, <<"chosen", Entry, ~sym_has_value(d, s)>>>> \o Rest
                 ELSE Listed(d, s))

\* the mode of the choice is set
chosen ==
  /\ Task("chosen")
  /\ \E c \in {sym_calc_value(T, d, Node.sym)} :
       Goes(c, IF c.tri[Node.sym] = 2 THEN <<<<"pick", Entry, Head(work)[3]>>>> \o Rest ELSE Rest)

\* the values in the list, and the state once they are looked at
Shown == LET add(c, r, k) == [d |-> r.d, l |-> IF r.v /\ T.node[k].sym # NoSym THEN Append(c.l, k) ELSE c.l]
         IN  Through(LAMBDA c, k : add(c, menu_is_visible(T, c.d, k), k), [d |-> d, l |-> <<>>], T.kids[Entry])

\* one value is taken without asking, and so is the one already chosen unless
\* the choice is new or all is asked for
Pickable(shown) ==
  IF Len(shown.l) = 1 THEN {1}
  ELSE IF mode # "oldaskconfig" /\ ~Head(work)[3]
       THEN {x \in DOMAIN shown.l : T.node[shown.l[x]].sym = shown.d.sel[Node.sym]}
  ELSE DOMAIN shown.l

Picked(c, k) == Goes(sym_set_tristate_value(T, c, T.node[k].sym, 2).d, Each("conf", T.kids[k]) \o Rest)
pick ==
  /\ Task("pick")
  /\ \E shown \in {Shown} : \E n \in Pickable(shown) : Picked(shown.d, shown.l[n])

\* after a choice, the entries below it if it is m
rest == /\ Task("rest")
        /\ Goes(d, IF d.tri[Node.sym] = 1 THEN Kids \o Rest ELSE Rest)
-----------------------------------------------------------------------------
(* Looking for new symbols.                                                 *)

loop ==
  /\ Task("loop")
  /\ mode' = IF mode = "oldaskconfig" THEN "oldconfig" ELSE mode
  /\ again' = FALSE
  /\ work' = <<<<"check", 1>>, <<"until">>>> \o Rest
  /\ UNCHANGED <<disk, T, d, root, starts>>

\* mutant: one round is enough
until_mut == Task("until") /\ Goes(d, Rest)

until ==
  /\ Task("until")
  /\ Goes(d, IF again THEN <<<<"loop">>>> \o Rest ELSE Rest)

\* mutant: a symbol that cannot be changed is new too
New_mut(c, s) == s # NoSym /\ ~sym_has_value(c, s)

New(c, s) ==
  /\ s # NoSym
  /\ ~sym_has_value(c, s)
  /\ sym_is_changable(c, s) \/ (sym_is_choice(s) /\ c.tri[s] = 2)

\* check_conf: a new symbol restarts the questions at its menu; r says what
\* entry it is and whether it can be seen
Checks(r) ==
  LET new == r.v /\ New(r.d, Node.sym) /\ mode # "listnewconfig"
      top == menu_get_parent_menu(T, Entry)
      kids == IF r.v THEN Each("check", T.kids[Entry]) ELSE <<>>
  IN  /\ d' = r.d
      /\ work' = (IF new THEN <<<<"conf", top>>>> ELSE <<>>) \o kids \o Rest
      /\ root' = IF new THEN top ELSE root
      /\ again' = (again \/ new)
      /\ UNCHANGED <<disk, T, mode, starts>>
check_conf == Task("check") /\ \E r \in {menu_is_visible(T, d, Entry)} : Checks(r)
-----------------------------------------------------------------------------
(* Saving.                                                                  *)

\* mutant: the tasks of a run outlive it
Stop_mut == /\ mode' = "off" /\ root' = 1 /\ again' = FALSE /\ d' = Fresh(T)
            /\ UNCHANGED <<work, T, starts>>

Stop == /\ mode' = "off" /\ work' = <<>> /\ root' = 1 /\ again' = FALSE /\ d' = Fresh(T)
        /\ UNCHANGED <<T, starts>>

\* the files become fs, the symbols c, and the run goes on
Saves(fs, c) ==
  /\ files' = fs /\ d' = c /\ work' = Rest
  /\ UNCHANGED <<dep, built, T, mode, root, again, starts>>

\* mutant: the configuration is written in place
open_mut ==
  /\ Task("open")
  /\ Saves(With(files, ".config", <<>>), d)
  /\ UNCHANGED stale

open ==
  /\ Task("open")
  /\ Saves(With(files, "tmpconfig", <<>>), d)
  /\ UNCHANGED stale

fill ==
  /\ Task("fill")
  /\ \E w \in {conf_write(T, d)} : Saves(With(files, "tmpconfig", w.lines), w.d)
  /\ UNCHANGED stale

\* the old configuration is renamed, if there is one and it can be
backup ==
  /\ Task("backup")
  /\ \/ Exists(".config") /\ Saves(Renamed(files, ".config", ".config.old"), d)
     \/ Saves(files, d)
  /\ UNCHANGED stale

install ==
  /\ Task("install")
  /\ Saves(Renamed(files, "tmpconfig", ".config"), [d EXCEPT !.changed = FALSE])
  /\ stale' = TRUE

\* syncconfig: the configuration only if it changed, then the files for the build
sync ==
  /\ Task("sync")
  /\ Goes(d, (IF d.changed THEN conf_write_tasks ELSE <<>>) \o conf_write_autoconf_tasks)

\* a missing auto.conf sets no symbol, as an empty one
split ==
  LET auto == IF Exists("auto.conf") THEN files["auto.conf"] ELSE <<>>
  IN  /\ Task("split")
      /\ \E r \in {conf_split_config(T, sym_clear_all_valid(T, d), auto)} :
           Goes(r.d, Each("touch", r.touched) \o Rest)

touch ==
  /\ Task("touch")
  /\ dep' = dep \union {Entry}
  /\ work' = Rest
  /\ UNCHANGED <<files, built, stale, T, d, mode, root, again, starts>>

\* the three new files are complete before the first is renamed
Temporary == [header |-> "tmp_header", tristate |-> "tmp_tristate"] @@ ("auto.conf" :> "tmp_auto")
print ==
  LET news(lines) == ("tmp_header" :> lines) @@ ("tmp_auto" :> lines)
                     @@ ("tmp_tristate" :> TristateLines(lines))
  IN  /\ Task("print")
      /\ \E a \in {Autoconf(T, d)} : Saves(news(a.lines) @@ files, a.d)
      /\ UNCHANGED stale

rename ==
  /\ Task("rename")
  /\ Saves(Renamed(files, Temporary[Entry], Entry), d)
  /\ stale' = (stale /\ Entry # "auto.conf")

minimal ==
  /\ Task("minimal")
  /\ \E w \in {conf_write_defconfig(T, d)} : Saves(With(files, "defconfig", w.lines), w.d)
  /\ UNCHANGED stale

\* main returns
exit == ~Off /\ work = <<>> /\ Stop /\ UNCHANGED disk

\* a file cannot be created, replaced or touched: the run ends with an error
Fails ==
  /\ Task("open") \/ Task("install") \/ Task("touch") \/ Task("print") \/ Task("rename")
  /\ Stop /\ UNCHANGED disk

Kill == ~Off /\ work # <<>> /\ Stop /\ UNCHANGED disk

\* make builds once auto.conf is newer than .config
Build ==
  /\ Off /\ ~stale /\ Exists("auto.conf")
  /\ dep # {} \/ built # files["auto.conf"]
  /\ built' = files["auto.conf"] /\ dep' = {}
  /\ UNCHANGED <<files, stale, T, d, mode, work, root, again, starts>>

Answer ==
  \/ \E v \in Tristate : conf_sym(v)
  \/ \E v \in Answers : conf_string(v)
  \/ Enter
  \/ pick

Program ==
  \/ conf \/ NotAsked \/ conf_choice \/ chosen \/ rest \/ loop \/ until \/ check_conf
  \/ open \/ fill \/ backup \/ install \/ sync \/ split \/ touch \/ print \/ rename \/ minimal \/ exit

Next ==
  \/ \E m \in Existing : StartExisting(m)
  \/ StartDefconfig
  \/ \E m \in DOMAIN AllModes : StartAll(m)
  \/ StartRandom
  \/ Edit \/ Answer \/ Program \/ Fails \/ Kill \/ Build

\* a run goes on, and its questions are answered sooner or later: weak fairness
\* of Program \/ Answer, in a form that spares TLC its ENABLED
Fairness == []<>Off \/ []<><<Program \/ Answer>>_vars
Spec == Init /\ [][Next]_vars /\ Fairness
-----------------------------------------------------------------------------
(* Properties.                                                              *)

TypeOK ==
  /\ \A f \in DOMAIN files : ToSet(files[f]) \subseteq Lines
  /\ dep \subseteq Symbols
  /\ \A s \in Symbols : {d.tri[s], d.vis[s], d.rev[s], d.utri[s]} \subseteq Tristate
  /\ d.valid \union d.write \union d.user \union d.auto \union d.need \subseteq Symbols
  /\ \A c \in ChoiceSyms : {d.sel[c], d.usel[c]} \subseteq ToSet(Members(T, c)) \union {NoSym}
  /\ root \in DOMAIN T.node
  /\ Off => work = <<>>

\* The files go through the steps of ConfFiles, in its order.
FilesSpec == F!FilesSpec

\* What conf_write wrote, conf_read reads back into the same values, and finds
\* nothing to save.
Same(c, e) == \A s \in Defined(T) : c.tri[s] = e.tri[s] /\ c.val[s] = e.val[s]
                                    /\ (s \in ChoiceSyms => c.sel[s] = e.sel[s])
SavedReadsBack == Task("backup") =>
  LET same(c) == Same(c, d) /\ ~c.changed
  IN  same(conf_read(T, Fresh(T), files["tmpconfig"]))

\* The lines of a configuration, as values of the symbols: a symbol without a
\* line is n, and a choice has the highest value of its members.
EnvOf(lines) ==
  LET tri(s) == IF s \in Fixed THEN Fresh(T).tri[s] ELSE Number0(Value(lines, s))
      most(c) == Max({0} \union {tri(s) : s \in ToSet(Members(T, c))})
  IN  [tri |-> [s \in Symbols |-> IF s \in ChoiceSyms THEN IF s \in Defined(T) THEN most(s) ELSE 0
                                 ELSE IF IsBool(s) THEN tri(s) ELSE 0],
       val |-> [s \in Symbols |-> IF s \in DOMAIN Number THEN Number[s] ELSE Value(lines, s)]]

\* A configuration that is saved obeys the Kconfig, judged by its lines alone:
\* what is selected is set, what is set has its dependencies or is selected, m
\* needs modules, a number is in the first range that applies, and of a choice
\* at most one value is y.
Obeys(lines) ==
  LET env == EnvOf(lines)
      value(e, none) == IF e = NoExpr THEN none ELSE expr_calc_value(env, e)
  IN  /\ \A s \in Defined(T) \ ChoiceSyms :
           /\ IsBool(s) =>
                /\ env.tri[s] >= value(T.rev[s], 0)
                /\ env.tri[s] # 0 => value(T.dir[s], 2) # 0 \/ value(T.rev[s], 0) # 0
                /\ env.tri[s] = 1 => env.tri[modules_sym] = 2
           /\ LET ranges == SelectSeq(PropsOfType(T, s, "RANGE"), LAMBDA x : value(T.prop[x].vis, 2) # 0)
                  r == T.prop[Head(ranges)].expr
              IN  env.val[s] # Empty /\ ranges # <<>> =>
                    env.val[s] >= env.val[r.sym] /\ env.val[s] =< env.val[r.rsym]
      /\ \A c \in Defined(T) \intersect ChoiceSyms :
           \A s, t \in ToSet(Members(T, c)) : env.tri[s] = 2 /\ env.tri[t] # 0 => s = t
SavedObeys == Task("backup") => Obeys(files["tmpconfig"])

\* Updating a configuration ends with no new symbol left that can be seen and
\* changed, nor a choice without a value: answers that make earlier entries
\* visible have them asked in another round.
NewAsked ==
  (Task("open") /\ mode = "oldconfig") \/ (Task("sync") /\ mode = "syncconfig") =>
    \A i \in DOMAIN T.node :
      LET s == T.node[i].sym
          editable(c) == sym_is_changable(c, s) \/ (sym_is_choice(s) /\ c.tri[s] = 2)
          asked(c) == editable(c) => sym_has_value(c, s)
      IN  s # NoSym /\ T.node[i].prompt # 0 => asked(sym_calc_value(T, d, s))

\* An answer that is accepted is the value the symbol then has.  (Not so for a
\* string that is already remembered for the symbol, see sym_set_string_value.)
AcceptedIsSet ==
  [][/\ \A v \in Tristate : conf_sym(v) => sym_calc_value(T, d', Node.sym).tri[Node.sym] = v
     /\ \A v \in Answers : conf_string(v) /\ d.uval[Node.sym] # v => sym_calc_value(T, d', Node.sym).val[Node.sym] = v]_vars

\* A value that counts as calculated is what calculating it again gives: every
\* change to what it depends on has cleared it.  (Two exceptions: a tristate
\* choice that is y loses its user value while it is calculated, if a value of it
\* is new, and would be m the next time; and the remembered strings above.)
Dropped(c) == c \in d.valid \ d.user /\ d.tri[c] > d.rev[c]
CacheIsFresh == ~Off /\ (\A c \in ChoiceSyms : ~Dropped(c)) =>
  LET agree(c) == \A s \in d.valid \intersect Defined(T) :
                    d.tri[s] = c.tri[s] /\ (d.val[s] = c.val[s] \/ s \in d.user)
  IN  agree(CalcAll(T, [d EXCEPT !.valid = Fixed], for_all_symbols(T)))

\* A minimal configuration stands for the whole: conf --defconfig makes of it
\* the configuration it was saved from.
MinimalIsEnough == mode = "savedefconfig" /\ work = <<>> =>
  LET restored == conf_set_all_new_symbols(T, conf_read(T, Fresh(T), files["defconfig"]), "default", <<>>).d
  IN  Same(CalcAll(T, restored, for_all_symbols(T)), CalcAll(T, d, for_all_symbols(T)))

\* A symbol whose value in auto.conf is no longer the one of the last build has
\* had its dependency file touched, so that its dependents are built again, also
\* after a run that was killed.
DependentsRebuilt == F!DependentsRebuilt

\* A run ends if its questions are answered: the rounds for new symbols do not
\* go on for ever.
RunEnds == ~Off ~> Off
=============================================================================
