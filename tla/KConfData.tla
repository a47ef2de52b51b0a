----------------------------- MODULE KConfData -----------------------------
(***************************************************************************)
(* Saved configurations (kconfig/confdata.c): what reading one leaves in    *)
(* the symbols and what is written of them.  A configuration is a sequence  *)
(* of lines <<symbol, value>>; the value 0 of a bool is written as the      *)
(* comment "is not set".  The functions take a tree T and a state d of its  *)
(* symbols (KSymbol) and return the state they leave behind.                *)
(***************************************************************************)
EXTENDS KSymbol

CONSTANTS Hash  \* all symbols that are no constant, in the order of for_all_symbols

Defined(T) == {T.node[i].sym : i \in DOMAIN T.node} \ {NoSym}
for_all_symbols(T) == SelectSeq(Hash, LAMBDA s : s \in Defined(T))

\* the entries below rootmenu, in the order a configuration is written in
RECURSIVE Below(_, _)
Below(T, i) == Through(LAMBDA l, k : Append(l, k) \o Below(T, k), <<>>, T.kids[i])
-----------------------------------------------------------------------------
(* Reading.  def is "user" for a configuration and "auto" for auto.conf;    *)
(* q collects what is read: the new values, the symbols that are set, and   *)
(* whether there were warnings or symbols the Kconfig does not know.        *)

conf_set_sym_val(q, s, v) ==
  [q EXCEPT !.tri[s] = IF IsBool(s) THEN v ELSE @, !.val[s] = IF IsBool(s) THEN @ ELSE v,
            !.set = @ \union {s}]

Legal(s, v) == CASE Type[s] = "BOOLEAN" -> v \in {0, 2}
                 [] Type[s] = "TRISTATE" -> v \in Tristate
                 [] OTHER -> sym_string_valid(s, v)

\* the value of a choice value decides about its choice: the last y wins
ChoiceLine(T, q, s) ==
  LET c == ChoiceOf(T, s)
      v == q.tri[s]
      clash == v = 1 /\ q.tri[c] = 2
  IN  [q EXCEPT !.warn = @ \/ clash \/ (v = 2 /\ q.tri[c] # 0),
                !.set = IF clash THEN @ \ {c} ELSE @,
                !.sel[c] = IF v = 2 THEN s ELSE @,
                !.tri[c] = Most(@, v)]

ReadLine(T, def, q, s, v) ==
  LET known == s \in Defined(T) \/ def = "auto"
      again == [q EXCEPT !.warn = @ \/ s \in q.set]
      set == conf_set_sym_val(again, s, v)
  IN  IF ~known THEN [q EXCEPT !.unknown = TRUE]
      ELSE IF ~Legal(s, v) THEN [again EXCEPT !.warn = @ \/ def = "user"]
      ELSE IF sym_is_choice_value(T, s) THEN ChoiceLine(T, set, s)
      ELSE set

ReadLines(T, lines, def) ==
  LET none == [tri |-> [s \in Symbols |-> 0], val |-> [s \in Symbols |-> Empty],
               sel |-> [c \in ChoiceSyms |-> NoSym], set |-> ChoiceSyms \intersect Defined(T),
               warn |-> FALSE, unknown |-> FALSE]
  IN  Through(LAMBDA q, l : ReadLine(T, def, q, l[1], l[2]), none, lines)

\* the state after reading, and whether there were warnings
conf_read_simple(T, d, lines, def) ==
  LET q == ReadLines(T, lines, def)
      c == [d EXCEPT !.valid = Fixed]
  IN  [warn |-> q.warn,
       d |-> IF def = "auto" THEN [c EXCEPT !.atri = q.tri, !.aval = q.val, !.auto = q.set]
             ELSE [c EXCEPT !.utri = q.tri, !.uval = q.val, !.usel = q.sel, !.user = q.set,
                            !.changed = @ \/ q.unknown]]

\* the saved value is not what is calculated, or only one of them is there
Unsaved(d, s) ==
  LET stored == sym_has_value(d, s)
      written == s \in d.write
  IN  /\ ~sym_is_choice(s)
      /\ IF stored /\ written THEN IF IsBool(s) THEN d.utri[s] # d.tri[s] ELSE d.uval[s] # d.val[s]
         ELSE stored \/ written

\* a value out of range is dropped; so is one that cannot be seen, if the
\* configuration agrees with the Kconfig so far
ResetValue(T, c, s) ==
  LET hidden == c.d.vis[s] = 0 /\ ~c.unsaved
      h == IF hidden THEN [c.d EXCEPT !.user = @ \ {s}] ELSE c.d
      drop(r) == IF r.ok THEN [c EXCEPT !.d = r.d]
                 ELSE [c EXCEPT !.d = [r.d EXCEPT !.valid = @ \ {s}, !.user = @ \ {s}], !.unsaved = TRUE]
  IN  IF ~sym_has_value(c.d, s) \/ sym_is_choice_value(T, s) THEN c
      ELSE IF IsBool(s) THEN [c EXCEPT !.d = h]
      ELSE drop(sym_string_within_range(T, h, s, h.uval[s]))

Checked(T, c, s) ==
  LET with(e) == [c EXCEPT !.d = e, !.unsaved = @ \/ Unsaved(e, s)]
  IN  with(sym_calc_value(T, c.d, s))

\* what was read, r, against what is calculated
CheckAll(T, r) ==
  Through(LAMBDA c, s : Checked(T, c, s),
          [d |-> sym_calc_value(T, r.d, modules_sym), unsaved |-> FALSE, warn |-> r.warn], for_all_symbols(T))
ResetAll(T, c) == Through(LAMBDA e, s : ResetValue(T, e, s), c, for_all_symbols(T))

\* a configuration that was found is read into the symbols
conf_read(T, d, lines) ==
  LET count(c) == [c.d EXCEPT !.changed = @ \/ c.warn \/ c.unsaved]
  IN  count(ResetAll(T, CheckAll(T, conf_read_simple(T, [d EXCEPT !.changed = FALSE], lines, "user"))))

\* without a configuration: .config missing counts as a change, another file
\* missing clears the change count and nothing else
conf_read_missing(T, d, default) == sym_calc_value(T, [d EXCEPT !.changed = default], modules_sym)
-----------------------------------------------------------------------------
(* Writing: the result has the lines written.                               *)

conf_write_symbol(c, s) == [c EXCEPT !.lines = Append(@, <<s, sym_get_string_value(c.d, s)>>)]

\* mutant: symbols that cannot be seen are not written
Written_mut(c, d, s) ==
  IF s \notin d.write \/ d.vis[s] = 0 THEN [c EXCEPT !.d = d]
  ELSE conf_write_symbol([c EXCEPT !.d = [d EXCEPT !.write = @ \ {s}]], s)

\* a symbol is written if it is to be, and only once
Written(c, d, s) ==
  IF s \notin d.write THEN [c EXCEPT !.d = d]
  ELSE conf_write_symbol([c EXCEPT !.d = [d EXCEPT !.write = @ \ {s}]], s)

\* an entry without a symbol is written as a comment, if it can be seen
WriteEntry(T, c, i) ==
  LET s == T.node[i].sym
      comment(r) == [c EXCEPT !.d = r.d]
  IN  IF s = NoSym THEN comment(menu_is_visible(T, c.d, i))
      ELSE IF sym_is_choice(s) THEN c
      ELSE Written(c, sym_calc_value(T, c.d, s), s)

\* a configuration that has not changed is calculated anew, to set its write flags
conf_write(T, d) ==
  Through(LAMBDA c, i : WriteEntry(T, c, i),
           [d |-> IF d.changed THEN d ELSE sym_clear_all_valid(T, d), lines |-> <<>>], Below(T, 1))

\* mutant: the default of a choice is skipped for an optional choice too
DefaultOfChoice_mut(T, s, def) == s = def.sym /\ Type[s] = "BOOLEAN" /\ def.d.tri[s] = 2

\* the y of a choice is its default, def
DefaultOfChoice(T, s, def) ==
  /\ ~sym_is_optional(T, ChoiceOf(T, s))
  /\ s = def.sym /\ Type[s] = "BOOLEAN" /\ def.d.tri[s] = 2

\* what is not the default of the symbol, def, is written, but for the default of a choice
NoDefault(T, c, s, def) ==
  LET unless(r) == IF DefaultOfChoice(T, s, r) THEN [c EXCEPT !.d = r.d]
                   ELSE conf_write_symbol([c EXCEPT !.d = r.d], s)
  IN  IF sym_get_string_value(def.d, s) = def.v THEN [c EXCEPT !.d = def.d]
      ELSE IF sym_is_choice_value(T, s) THEN unless(sym_choice_default(T, def.d, ChoiceOf(T, s)))
      ELSE conf_write_symbol([c EXCEPT !.d = def.d], s)

\* a minimal configuration leaves out what cannot be changed and the defaults;
\* d has the symbol s calculated
Minimal(T, c, d, s) ==
  LET e == [d EXCEPT !.write = @ \ {s}]
  IN  IF s \notin d.write THEN [c EXCEPT !.d = d]
      ELSE IF ~sym_is_changable(d, s) THEN [c EXCEPT !.d = e]
      ELSE NoDefault(T, c, s, sym_get_string_default(T, e, s))
DefEntry(T, c, i) ==
  LET s == T.node[i].sym
      comment(r) == [c EXCEPT !.d = r.d]
  IN  IF s = NoSym THEN comment(menu_is_visible(T, c.d, i))
      ELSE IF sym_is_choice(s) THEN c
      ELSE Minimal(T, c, sym_calc_value(T, c.d, s), s)

conf_write_defconfig(T, d) ==
  Through(LAMBDA c, i : DefEntry(T, c, i), [d |-> sym_clear_all_valid(T, d), lines |-> <<>>], Below(T, 1))
-----------------------------------------------------------------------------
(* The files for the build.                                                 *)

\* mutant: a symbol that is gone from the Kconfig is not touched
Touched_mut(d, s) ==
  IF s \in d.write
  THEN IF s \in d.auto THEN IF IsBool(s) THEN d.tri[s] # d.atri[s] ELSE d.val[s] # d.aval[s]
       ELSE ~IsBool(s) \/ d.tri[s] # 0
  ELSE FALSE

\* the value of s is not the one in auto.conf, where n is not written
Touched(d, s) ==
  IF s \in d.write
  THEN IF s \in d.auto THEN IF IsBool(s) THEN d.tri[s] # d.atri[s] ELSE d.val[s] # d.aval[s]
       ELSE ~IsBool(s) \/ d.tri[s] # 0
  ELSE s \in d.auto

All(T, d) == SelectSeq(Hash, LAMBDA s : s \in Defined(T) \union d.auto)
CalcAll(T, d, ss) == Through(LAMBDA c, s : sym_calc_value(T, c, s), d, ss)

\* auto is the old auto.conf; reading it adds the symbols the Kconfig lost
conf_split_config(T, d, auto) ==
  LET modules(r) == sym_calc_value(T, r.d, modules_sym)
      touches(c) == [d |-> c, touched |-> SelectSeq(All(T, c), LAMBDA s : ~sym_is_choice(s) /\ Touched(c, s))]
      all(c) == touches(CalcAll(T, c, All(T, c)))
  IN  all(modules(conf_read_simple(T, d, auto, "auto")))

\* auto.conf and the header; the file of tristates has only those
Autoconf(T, d) ==
  LET print(e, s) == IF s \notin e.d.write \/ sym_is_choice(s) THEN e ELSE conf_write_symbol(e, s)
      set(out) == [out EXCEPT !.lines = SelectSeq(@, LAMBDA l : ~(IsBool(l[1]) /\ l[2] = 0))]
  IN  set(Through(print, [d |-> CalcAll(T, d, All(T, d)), lines |-> <<>>], All(T, d)))
TristateLines(lines) == SelectSeq(lines, LAMBDA l : Type[l[1]] = "TRISTATE")
-----------------------------------------------------------------------------
(* Values for all symbols that have none.                                   *)

\* one value of a choice that is y, pick, is set and the others are not
randomize_choice_values(T, d, c, pick) ==
  LET all == ToSet(Members(T, c))
  IN  IF d.tri[c] # 2 THEN d
      ELSE [d EXCEPT !.utri = [s \in Symbols |-> IF s \notin all THEN @[s] ELSE IF s = pick THEN 2 ELSE 0],
                     !.usel[c] = pick, !.user = @ \union all \union {c}, !.valid = @ \ (all \union {c})]

\* the answer to a new symbol; pick.tri has the random ones, pick.sel those to choices
NewValue(mode, pick, s) ==
  CASE mode = "yes" -> 2 [] mode = "mod" -> 1 [] mode = "no" -> 0 [] mode = "random" -> pick.tri[s]

\* all symbols without a value are answered, but for those calculated already
Answered(c, mode, pick, s) ==
  IF sym_has_value(c.d, s) \/ s \in c.d.valid \/ ~IsBool(s) THEN c
  ELSE IF mode = "default" THEN [c EXCEPT !.more = TRUE]
  ELSE [d |-> [c.d EXCEPT !.utri[s] = NewValue(mode, pick, s),
                          !.user = IF mode = "random" /\ sym_is_choice(s) THEN @ ELSE @ \union {s}],
        more |-> TRUE]

\* then the choices; .more says whether anything was answered
AnsweredChoice(T, c, mode, pick, s) ==
  LET set(d) == IF mode = "random"
                THEN [d |-> randomize_choice_values(T, d, s, pick.sel[s]), more |-> d.tri[s] = 2]
                ELSE [d |-> set_all_choice_values(T, d, s), more |-> TRUE]
  IN  IF sym_has_value(c.d, s) \/ ~sym_is_choice(s) THEN c ELSE set(sym_calc_value(T, c.d, s))

conf_set_all_new_symbols(T, d, mode, pick) ==
  LET needy(e) == {s \in Defined(T) : (sym_is_choice(s) /\ ~sym_has_value(e, s)) \/ sym_is_choice_value(T, s)}
      needing(e) == IF mode = "random" THEN e ELSE [e EXCEPT !.need = @ \union needy(e)]
      cleared(c) == [c EXCEPT !.d = needing(sym_clear_all_valid(T, @))]
  IN  Through(LAMBDA c, s : AnsweredChoice(T, c, mode, pick, s),
              cleared(Through(LAMBDA c, s : Answered(c, mode, pick, s), [d |-> d, more |-> FALSE], for_all_symbols(T))),
              for_all_symbols(T))

\* randconfig answers until nothing was left to answer
RECURSIVE Randomized(_, _, _)
Randomized(T, d, pick) ==
  LET again(r) == IF r.more THEN Randomized(T, r.d, pick) ELSE r.d
  IN  again(conf_set_all_new_symbols(T, d, "random", pick))
=============================================================================
