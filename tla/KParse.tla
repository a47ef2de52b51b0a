------------------------------ MODULE KParse ------------------------------
(***************************************************************************)
(* conf_parse (kconfig/zconf.y): the rules of the grammar, one action each, *)
(* feed a Kconfig statement by statement into the menu tree, then the tree  *)
(* is finalized and searched for recursive dependencies.  The Kconfigs are  *)
(* the members of Sources: sequences of statements the grammar accepts, a   *)
(* statement being a tuple of its keyword and its operands.                 *)
(***************************************************************************)
EXTENDS KMenu

CONSTANTS Sources,  \* the Kconfigs
          Configs,  \* the symbols that are no choice and no constant
          Hash      \* all symbols, in the order of for_all_symbols

VARIABLES src,     \* the statements that are still to be read
          b,       \* the tree
          raw,     \* the tree as it was before menu_finalize
          check    \* what sym_check_deps found

vars == <<src, b, raw, check>>

Init ==
  /\ src \in Sources
  /\ b = RootMenu
  /\ raw = <<>>
  /\ check = Unchecked

\* the next statement is of the kind k and leaves the tree c
Statement(k, c) ==
  /\ src # <<>>
  /\ Head(src)[1] = k
  /\ b' = c
  /\ src' = Tail(src)
  /\ UNCHANGED <<raw, check>>

Operand1 == Head(src)[2]
Operand2 == Head(src)[3]
Config(c, s) == menu_add_entry([c EXCEPT !.optional = @ \union {s}], s)

config_entry_start == Statement("config", Config(b, Operand1))

\* the prompt of a menuconfig becomes a menu
menuconfig_stmt ==
  Statement("menuconfig", LET c == menu_add_prompt(Config(b, Operand1), "PROMPT", Operand2)
                          IN  [c EXCEPT !.prop[Len(c.prop)].type = "MENU"])

endmenuconfig == Statement("endmenuconfig", menu_add_entry(b, NoSym))
config_prompt == Statement("prompt", menu_add_prompt(b, "PROMPT", Operand1))
depends == Statement("depends", menu_add_dep(b, Operand1))
config_default == Statement("default", menu_add_expr(b, "DEFAULT", Operand1, Operand2))
config_select == Statement("select", menu_add_symbol(b, "SELECT", Operand1, Operand2))
config_imply == Statement("imply", menu_add_symbol(b, "IMPLY", Operand1, Operand2))

choice == Statement("choice", menu_add_expr(menu_add_entry(b, Operand1), "CHOICE", NoExpr, NoExpr))
choice_optional == Statement("optional", [b EXCEPT !.optional = @ \union {b.node[b.entry].sym}])

\* the options of a choice, a menu or an if end where its block begins
block == Statement("block", menu_add_menu(b))
if_entry == Statement("if", menu_add_menu(menu_add_dep(menu_add_entry(b, NoSym), Operand1)))
menu == Statement("menu", menu_add_prompt(menu_add_entry(b, NoSym), "MENU", NoExpr))
visible == Statement("visible", menu_add_visibility(b, Operand1))
end == Statement("end", menu_end_menu(b))
comment == Statement("comment", menu_add_prompt(menu_add_entry(b, NoSym), "COMMENT", NoExpr))

\* the end of the input
conf_parse ==
  /\ src = <<>> /\ raw = <<>>
  /\ raw' = b
  /\ b' = Finalized(b)
  /\ check' = Through(LAMBDA c, s : [sym_check_deps(b', c, s) EXCEPT !.ret = NoSym],
                       Unchecked, Hash)
  /\ UNCHANGED src

Next ==
  \/ config_entry_start \/ menuconfig_stmt \/ endmenuconfig
  \/ config_prompt \/ depends \/ config_default \/ config_select \/ config_imply
  \/ choice \/ choice_optional \/ block \/ if_entry \/ menu \/ visible \/ end \/ comment
  \/ conf_parse

Spec == Init /\ [][Next]_vars
-----------------------------------------------------------------------------
(* What the tree means, read from the statements.                           *)

Parsed == raw # <<>>

Values(s) == CASE s \in Consts -> {CHOOSE v \in Tristate : s = <<"n", "m", "y">>[v + 1]}
               [] Type[s] = "BOOLEAN" -> {0, 2}
               [] OTHER -> Tristate
\* all values of the symbols that the Kconfig names, the others being n
Named == UNION ({ToSet(SymbolsOf(raw.prop[x].vis)) \union {raw.prop[x].sym} : x \in DOMAIN raw.prop}
                \union {ToSet(SymbolsOf(raw.node[i].dep)) : i \in DOMAIN raw.node}) \ {NoSym}
Envs == LET over(s) == IF s \in Named \union Consts THEN Values(s) ELSE {0}
            tris == {f \in [Named \ Consts -> Tristate] : \A s \in Named \ Consts : f[s] \in Values(s)}
        IN  {[tri |-> [s \in Symbols |-> IF s \in DOMAIN f THEN f[s] ELSE CHOOSE v \in over(s) : TRUE],
              val |-> [s \in Symbols |-> Empty]] : f \in tris}

Written(env, e) == expr_calc_value(env, rewrite_m(modules_sym, e))

\* a condition written at entry i counts with the dependencies of the entry and
\* of everything around it, up to a choice, whose mode stands for the rest
RECURSIVE Around(_, _)
Around(env, i) ==
  LET own == Written(env, raw.node[i].dep)
      p == raw.up[i]
  IN  IF p = NoEntry THEN own
      ELSE IF raw.node[p].sym # NoSym THEN Least(own, env.tri[raw.node[p].sym])
      ELSE Least(own, Least(Around(env, p), Written(env, PromptDep(raw, p))))

\* a bool in a tristate choice also needs the choice to be y
InSetChoice(env, i) ==
  \A c \in ChoiceSyms :
    (/\ Type[c] = "TRISTATE" /\ Type[raw.node[i].sym] # "TRISTATE"
     /\ \E x \in DOMAIN b.prop : b.prop[x].menu = i /\ b.prop[x].type = "CHOICE"
                               /\ b.prop[x].expr = Sym(c) /\ x > Len(raw.prop))
    => env.tri[c] = 2

Meant(env, x) ==
  LET i == raw.prop[x].menu
      v == Least(Around(env, i), Written(env, raw.prop[x].vis))
  IN  IF raw.node[i].sym = NoSym \/ InSetChoice(env, i) THEN v ELSE 0

\* only "n or not" of a condition of a symbol that is no tristate counts
Agree(s, v, w) == IF s # NoSym /\ Type[s] # "TRISTATE" THEN (v = 0) = (w = 0) ELSE v = w
-----------------------------------------------------------------------------
(* Properties.                                                              *)

TypeOK ==
  /\ {b.entry, b.menu} \subseteq DOMAIN b.node
  /\ \A i \in DOMAIN b.node : /\ b.node[i].sym \in Symbols \union {NoSym}
                              /\ b.node[i].prompt \in {0} \union DOMAIN b.prop
  /\ \A i \in DOMAIN b.up : b.up[i] \in DOMAIN b.node \union {NoEntry}
  /\ \A i \in DOMAIN b.kids : ToSet(b.kids[i]) \subseteq DOMAIN b.node
  /\ check.on = {} /\ check.stack = <<>>
  /\ Parsed => \A env \in Envs : Environment(env)

\* Propagating, rewriting and simplifying (menu_finalize with expr_transform,
\* expr_eliminate_dups and expr_trans_bool) leave every condition with the
\* value that what was written around it gives it, for all values of symbols.
KeepsMeaning == Parsed => \A env \in Envs, x \in DOMAIN raw.prop :
  raw.prop[x].menu # 1 =>
    Agree(raw.prop[x].sym, expr_calc_value(env, b.prop[x].vis), Meant(env, x))

\* The reverse dependency of a symbol is what its selects, at their written
\* conditions, ask for; for a choice it also holds m where it can be seen.
SelectsGathered == Parsed => \A env \in Envs, s \in Configs :
  LET asked(x) == Least(env.tri[raw.prop[x].sym], Meant(env, x))
      by(type) == {x \in DOMAIN raw.prop : raw.prop[x].type = type /\ raw.prop[x].expr = Sym(s)}
      value(e) == IF e = NoExpr THEN 0 ELSE expr_calc_value(env, e)
      most(xs) == IF xs = {} THEN 0 ELSE CHOOSE v \in {asked(x) : x \in xs} : \A x \in xs : asked(x) =< v
      exact(xs) == \A x \in xs : Type[raw.prop[x].sym] = "TRISTATE"
      same(e, xs) == IF exact(xs) THEN value(e) = most(xs) ELSE (value(e) = 0) = (most(xs) = 0)
  IN  same(b.rev[s], by("SELECT")) /\ same(b.imp[s], by("IMPLY"))

\* Creating submenus and flattening lose, double or reorder no entry: the tree
\* read from the top is the order of the source, and parents match lists.
RECURSIVE Preorder(_, _)
Preorder(t, i) == <<i>> \o Through(LAMBDA l, k : l \o Preorder(t, k), <<>>, t.kids[i])
SourceOrder ==
  /\ Preorder(b, 1) = [i \in 1..Len(b.node) |-> i]
  /\ \A i \in DOMAIN b.node, k \in DOMAIN b.node : k \in ToSet(b.kids[i]) => b.up[k] = i

\* An entry that was moved into the submenu of a symbol can be seen only where
\* the symbol can be seen or is set: otherwise no menu would show it.
SubmenuReached == Parsed => \A i \in DOMAIN b.node \ {1} :
  LET p == b.up[i]
      moved == p # raw.up[i] /\ b.node[p].sym \in Configs
      shown(env, k) == expr_calc_value(env, IF b.node[k].prompt # 0 THEN PromptDep(b, k) ELSE b.node[k].dep) # 0
  IN  moved => \A env \in Envs : shown(env, i) => shown(env, p) \/ env.tri[b.node[p].sym] # 0

\* The dependencies between symbols; the values of a choice count as the choice.
Group(s) == IF sym_is_choice_value(b, s) THEN ChoiceOf(b, s) ELSE s
Reads(s) ==
  LET own == {b.prop[x] : x \in {y \in DOMAIN b.prop : b.prop[y].sym = s}}
      conditions == {p.vis : p \in {q \in own : q.type \notin {"SELECT", "CHOICE"}}}
      defaults == {p.expr : p \in {q \in own : q.type = "DEFAULT" /\ s \notin ChoiceSyms}}
  IN  UNION {ToSet(SymbolsOf(e)) : e \in conditions \union defaults \union {b.rev[s]}}
Edges == UNION {{<<s, d>> : d \in {t \in Reads(s) : ~(/\ t \in ChoiceSyms
                                                      /\ sym_is_choice_value(b, s) /\ ChoiceOf(b, s) = t)}} :
                s \in Symbols}
Links == {<<Group(e[1]), Group(e[2])>> : e \in Edges}
RECURSIVE Reach(_, _)
Reach(links, ss) == LET more == ss \union {l[2] : l \in {k \in links : k[1] \in ss}}
                    IN  IF more = ss THEN ss ELSE Reach(links, more)
Cyclic(links) == \E s \in Symbols : s \in Reach(links, {l[2] : l \in {k \in links : k[1] = s}})

\* sym_check_deps reports a recursive dependency exactly when there is one, and
\* the chain it prints is one: each symbol depends on, or is grouped with, the
\* next.
CycleReported == Parsed =>
  LET c == check.chain
      links == Links
      next(k) == IF k = Len(c) THEN c[1] ELSE c[k + 1]
  IN  /\ check.printed <=> Cyclic(links)
      /\ check.printed =>
           /\ c # <<>>
           /\ \A k \in DOMAIN c : Group(c[k]) = Group(next(k)) \/ <<Group(c[k]), Group(next(k))>> \in links

\* Printed with the parentheses of expr_print, a condition reads back as one of
\* the same value; the three lists of expr_print_revdep show every operand of a
\* reverse dependency once, and the highest that is not empty is its value.
PrintsBack == Parsed =>
  /\ \A e \in {b.prop[x].vis : x \in DOMAIN b.prop} :
       LET read == Parse(expr_print(e, "NONE"), "OR")
       IN  /\ read.rest = <<>>
           /\ \A env \in Envs : expr_calc_value(env, read.e) = expr_calc_value(env, e)
  /\ \A s \in Configs, env \in Envs :
       LET listed(v) == expr_print_revdep(env, b.rev[s], v)
           shown == {v \in Tristate : listed(v) # <<>>}
       IN  b.rev[s] # NoExpr =>
             /\ Len(listed(0)) + Len(listed(1)) + Len(listed(2)) = Len(Leaves("OR", b.rev[s]))
             /\ \A v \in shown : v =< expr_calc_value(env, b.rev[s])
             /\ expr_calc_value(env, b.rev[s]) \in shown
=============================================================================
