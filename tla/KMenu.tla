------------------------------- MODULE KMenu -------------------------------
(***************************************************************************)
(* The menu tree of a Kconfig (kconfig/menu.c): the statements of the       *)
(* parser append entries and properties to it, menu_finalize propagates the *)
(* dependencies and arranges the submenus, and sym_check_deps (symbol.c)    *)
(* looks for recursive dependencies.                                        *)
(*                                                                          *)
(* A tree b is a record: entries are numbered in the order of the source    *)
(* (1 is rootmenu); b.node[i] has the entry's symbol, the number of its     *)
(* prompt property, its dependency and its visibility; b.up[i] is its       *)
(* parent and b.kids[i] its list; b.prop is the sequence of all properties, *)
(* and b.own[s] has the numbers of those of symbol s.                       *)
(***************************************************************************)
EXTENDS KExpr, FiniteSets

CONSTANTS ChoiceSyms,   \* the symbols that stand for a choice
          modules_sym   \* the symbol with option modules, "n" when there is none

NoSym == "none"
NoEntry == 0
sym_is_choice(s) == s \in ChoiceSyms

NewEntry(s) == [sym |-> s, prompt |-> 0, dep |-> NoExpr, visibility |-> NoExpr]

EmptyTree ==
  [node |-> <<NewEntry(NoSym)>>, up |-> <<NoEntry>>, kids |-> [i \in {1} |-> <<>>],
   prop |-> <<>>, rev |-> [s \in Symbols |-> NoExpr], imp |-> [s \in Symbols |-> NoExpr],
   dir |-> [s \in Symbols |-> NoExpr], own |-> [s \in Symbols |-> <<>>], optional |-> {},
   choice |-> [s \in Symbols |-> NoSym], members |-> [s \in ChoiceSyms |-> <<>>],
   entry |-> 1, menu |-> 1]

PropsOf(b, i) == SelectSeq([x \in 1..Len(b.prop) |-> x], LAMBDA x : b.prop[x].menu = i)
SymProps(b, s) == b.own[s]
sym_is_choice_value(b, s) == b.choice[s] # NoSym
PromptDep(b, i) == IF b.node[i].prompt = 0 THEN NoExpr ELSE b.prop[b.node[i].prompt].vis
-----------------------------------------------------------------------------
(* The calls of the parser.                                                 *)

\* the menus above entry i, the nearest first
RECURSIVE Above(_, _)
Above(b, i) == IF b.up[i] = NoEntry THEN <<>> ELSE <<b.up[i]>> \o Above(b, b.up[i])

\* a prompt is bound by the visibility of every menu above it
menu_add_prop(b, type, prompted, expr, dep) ==
  LET i == b.entry
      bound(e, m) == IF b.node[m].visibility = NoExpr THEN e
                     ELSE expr_alloc_and(e, b.node[m].visibility)
      vis == IF prompted /\ type = "PROMPT" THEN Through(bound, dep, Above(b, i)) ELSE dep
      p == [sym |-> b.node[i].sym, menu |-> i, type |-> type, expr |-> expr, vis |-> vis]
      c == IF p.sym = NoSym THEN b ELSE [b EXCEPT !.own[p.sym] = Append(@, Len(b.prop) + 1)]
  IN  [c EXCEPT !.prop = Append(@, p),
                !.node[i].prompt = IF prompted THEN Len(b.prop) + 1 ELSE @]

menu_add_prompt(b, type, dep) == menu_add_prop(b, type, TRUE, NoExpr, dep)
menu_add_expr(b, type, expr, dep) == menu_add_prop(b, type, FALSE, expr, dep)
menu_add_symbol(b, type, s, dep) == menu_add_expr(b, type, Sym(s), dep)

menu_add_entry(b, s) ==
  LET i == Len(b.node) + 1
      c == [b EXCEPT !.node = Append(@, NewEntry(s)), !.up = Append(@, b.menu),
                     !.kids = [@ EXCEPT ![b.menu] = Append(@, i)] @@ (i :> <<>>), !.entry = i]
  IN  IF s = NoSym THEN c ELSE menu_add_symbol(c, "SYMBOL", s, NoExpr)

menu_add_menu(b) == [b EXCEPT !.menu = b.entry]
menu_end_menu(b) == [b EXCEPT !.menu = b.up[b.menu]]
menu_add_dep(b, dep) ==
  [b EXCEPT !.node[b.entry].dep = expr_alloc_and(@, dep)]
menu_add_visibility(b, e) ==
  [b EXCEPT !.node[b.entry].visibility = expr_alloc_and(@, e)]

RootMenu == menu_add_prompt(EmptyTree, "MENU", NoExpr)
-----------------------------------------------------------------------------
(* menu_finalize.                                                           *)

\* own, below outer, rewritten and simplified
Bounded(outer, own) ==
  expr_eliminate_dups(expr_alloc_and(outer, expr_transform(rewrite_m(modules_sym, own))))

\* what the entries below p depend on
ParentDep(b, p) ==
  IF b.node[p].sym # NoSym /\ sym_is_choice(b.node[p].sym) THEN Sym(b.node[p].sym)
  ELSE IF b.node[p].prompt # 0 THEN PromptDep(b, p)
  ELSE b.node[p].dep

\* the condition of a property of entry i
Condition(b, i, x) ==
  LET s == b.node[i].sym
      bool(e) == IF s # NoSym /\ Type[s] # "TRISTATE" THEN expr_trans_bool(e) ELSE e
  IN  bool(Bounded(b.node[i].dep, b.prop[x].vis))

\* mutant: a select counts whenever the selecting symbol is set
SetCondition_mut(b, x, dep) ==
  LET raised(e) == expr_alloc_or(e, Sym(b.prop[x].sym))
      c == [b EXCEPT !.prop[x].vis = dep]
  IN  CASE b.prop[x].type = "SELECT" -> [c EXCEPT !.rev[b.prop[x].expr.sym] = raised(@)]
        [] b.prop[x].type = "IMPLY" -> [c EXCEPT !.imp[b.prop[x].expr.sym] = raised(@)]
        [] OTHER -> c

\* property x has the condition dep, and so has what it selects or implies
SetCondition(b, x, dep) ==
  LET raised(e) == expr_alloc_or(e, expr_alloc_and(Sym(b.prop[x].sym), dep))
      c == [b EXCEPT !.prop[x].vis = dep]
  IN  CASE b.prop[x].type = "SELECT" -> [c EXCEPT !.rev[b.prop[x].expr.sym] = raised(@)]
        [] b.prop[x].type = "IMPLY" -> [c EXCEPT !.imp[b.prop[x].expr.sym] = raised(@)]
        [] OTHER -> c

BoundEntry(b, i) ==
  Through(LAMBDA c, x : SetCondition(c, x, Condition(c, i, x)), b, PropsOf(b, i))

Propagate(b, p) ==
  LET outer == ParentDep(b, p)
  IN  Through(LAMBDA c, i : BoundEntry([c EXCEPT !.node[i].dep = Bounded(outer, @)], i), b, b.kids[p])

\* dep holds only where base does: once compared with "n", every operand of
\* base is one of dep's
Superset(base, dep) ==
  LET compared(e) == expr_eliminate_dups(expr_transform(expr_trans_compare(e, "UNEQUAL", "n")))
  IN  expr_is_yes(expr_eliminate_eq(compared(dep), compared(base))[2])

\* mutant: any mention of the symbol puts the entry below it
Belongs_mut(b, p, i) ==
  LET s == b.node[p].sym
      dep == IF b.node[i].prompt # 0 THEN PromptDep(b, i) ELSE b.node[i].dep
  IN  expr_contains_symbol(dep, s)

\* entry i goes into the submenu of the symbol of entry p
Belongs(b, p, i) ==
  LET s == b.node[p].sym
      dep == IF b.node[i].prompt # 0 THEN PromptDep(b, i) ELSE b.node[i].dep
      quits == /\ b.node[p].prompt # 0 /\ b.prop[b.node[p].prompt].type = "MENU"
               /\ b.node[i].prompt = 0 /\ b.node[i].sym = NoSym /\ b.node[i].dep = NoExpr
  IN  /\ ~quits
      /\ expr_contains_symbol(dep, s)
      /\ expr_depends_symbol(dep, s) \/ Superset(PromptDep(b, p), dep)

\* choice values: members of their choice; a bool in a tristate choice needs it to be y
AddChoiceValue(b, p, i) ==
  LET c == b.node[p].sym
      s == b.node[i].sym
      set == Comp("EQUAL", c, "y")
      needs == IF Type[c] = "TRISTATE" /\ Type[s] # "TRISTATE"
               THEN Through(LAMBDA d, x : [d EXCEPT !.prop[x].vis = expr_alloc_and(set, @)],
                             [b EXCEPT !.node[i].dep = expr_alloc_and(set, @)], PropsOf(b, i))
               ELSE b
      choice == menu_add_symbol([needs EXCEPT !.entry = i], "CHOICE", c, NoExpr)
  IN  [choice EXCEPT !.members[c] = Append(@, s), !.choice[s] = c]

\* mutant: the entries go to the end of the list
Flattened_mut(c, p, j, i) ==
  [c EXCEPT !.kids[p] = @ \o c.kids[i], !.kids[i] = <<>>,
            !.up = [x \in DOMAIN @ |-> IF x \in ToSet(c.kids[i]) THEN p ELSE @[x]]]

\* the entries below entry i move up, behind it, into the list of p
Flattened(c, p, j, i) ==
  [c EXCEPT !.kids[p] = SubSeq(@, 1, j) \o c.kids[i] \o SubSeq(@, j + 1, Len(@)), !.kids[i] = <<>>,
            !.up = [x \in DOMAIN @ |-> IF x \in ToSet(c.kids[i]) THEN p ELSE @[x]]]

\* the list of p, from position j on: choice values are registered, and the
\* entries below an entry without a prompt move up
RECURSIVE Settle(_, _, _)
Settle(b, p, j) ==
  IF j > Len(b.kids[p]) THEN b
  ELSE LET i == b.kids[p][j]
           own == b.node[p].sym
           s == b.node[i].sym
           isvalue == own # NoSym /\ sym_is_choice(own) /\ s # NoSym /\ ~sym_is_choice_value(b, s)
           value == IF isvalue THEN AddChoiceValue(b, p, i) ELSE b
           flat(c) == IF c.kids[i] = <<>> \/ c.node[i].prompt # 0 THEN c ELSE Flattened(c, p, j, i)
       IN  Settle(flat(value), p, j + 1)

\* a choice that is not optional is at least m where it is visible
Require(b, p) ==
  LET s == b.node[p].sym
  IN  IF s = NoSym \/ s \in b.optional \/ b.node[p].prompt = 0 THEN b
      ELSE [b EXCEPT !.rev[s] = expr_alloc_or(@, expr_alloc_and(PromptDep(b, p), Sym("m")))]

RECURSIVE menu_finalize(_, _, _), FinalizeList(_, _, _), Submenu(_, _, _, _)

FinalizeList(b, p, j) ==
  IF j > Len(b.kids[p]) THEN b ELSE FinalizeList(menu_finalize(b, p, j), p, j + 1)

\* the entries after position j of the list of q, up to position k, go below it
Submenu(b, q, j, k) ==
  LET p == b.kids[q][j]
      taken == SubSeq(b.kids[q], j + 1, k - 1)
  IN  IF k =< Len(b.kids[q]) /\ Belongs(b, p, b.kids[q][k])
      THEN Submenu(menu_finalize(b, q, k), q, j, k + 1)
      ELSE [b EXCEPT !.kids[q] = SubSeq(@, 1, j) \o SubSeq(@, k, Len(@)), !.kids[p] = taken,
                     !.up = [x \in DOMAIN @ |-> IF x \in ToSet(taken) THEN p ELSE @[x]],
                     !.dir[b.node[p].sym] = expr_alloc_or(@, b.node[p].dep)]

\* the entry at position j of the list of q
menu_finalize(b, q, j) ==
  LET p == b.kids[q][j]
  IN  Require(Settle(IF b.kids[p] # <<>> THEN FinalizeList(Propagate(b, p), p, 1)
                     ELSE IF b.node[p].sym # NoSym THEN Submenu(b, q, j, j + 1)
                     ELSE b, p, 1), p)

\* conf_parse: the list above rootmenu holds rootmenu alone
Finalized(b) ==
  LET without(top) == [top EXCEPT !.kids = [i \in DOMAIN b.kids |-> @[i]]]
  IN  without(menu_finalize([b EXCEPT !.kids = @ @@ (0 :> <<1>>)], 0, 1))
-----------------------------------------------------------------------------
(* sym_check_deps (symbol.c): a depth-first search.  c.on and c.seen are the *)
(* flags CHECK and CHECKED, c.stack the stack of symbols under examination,  *)
(* c.ret the symbol returned (NoSym for NULL) and c.chain the chain of the   *)
(* first error that is printed.                                              *)

Unchecked == [on |-> {}, seen |-> {}, stack |-> <<>>, ret |-> NoSym, chain |-> <<>>, printed |-> FALSE]

ChoiceOf(b, s) == b.choice[s]

\* the chain starts where its last symbol is on the stack; a choice value
\* stands for its choice
sym_check_print_recursive(b, c, s) ==
  LET isvalue == sym_is_choice_value(b, s)
      stack == IF isvalue THEN Append(c.stack, s) ELSE c.stack
      last == IF isvalue THEN ChoiceOf(b, s) ELSE s
      at == {x \in 1..Len(stack) : stack[x] = last}
  IN  IF c.printed THEN c
      ELSE [c EXCEPT !.printed = TRUE,
                     !.chain = IF at = {} THEN <<>>
                               ELSE SubSeq(stack, CHOOSE x \in at : \A y \in at : y =< x, Len(stack))]

\* the expressions of a symbol that are searched, in order
CheckedExprs(b, s) ==
  LET of(x) == IF b.prop[x].type \in {"CHOICE", "SELECT"} THEN <<>>
               ELSE IF b.prop[x].type # "DEFAULT" \/ sym_is_choice(s) THEN <<b.prop[x].vis>>
               ELSE <<b.prop[x].vis, b.prop[x].expr>>
  IN  <<b.rev[s]>> \o Through(LAMBDA l, x : l \o of(x), <<>>, SymProps(b, s))

RECURSIVE sym_check_deps(_, _, _)

\* mutant: the flag CHECK stays set when the search leaves a symbol
Left_mut(r, s) == r
Left(r, s) == [r EXCEPT !.on = @ \ {s}]

\* mutant: choice values are not flagged while the choice is examined
ChoiceStart_mut(b, c, s) ==
  [c EXCEPT !.stack = Append(@, s), !.on = @ \union {s}, !.seen = @ \union {s}]
ChoiceStart(b, c, s) ==
  LET all == ToSet(b.members[s]) \union {s}
  IN  [c EXCEPT !.stack = Append(@, s), !.on = @ \union all, !.seen = @ \union all]

\* one symbol after the other, up to the first that is found
sym_check_expr_deps(b, c, e) ==
  Through(LAMBDA d, s : IF d.ret # NoSym THEN d ELSE sym_check_deps(b, d, s), c, SymbolsOf(e))

sym_check_sym_deps(b, c, s) ==
  LET left(d) == [d EXCEPT !.stack = c.stack]
  IN  left(Through(LAMBDA d, e : sym_check_expr_deps(b, d, e),
                   [c EXCEPT !.stack = Append(@, s)], CheckedExprs(b, s)))

sym_check_choice_deps(b, c, s) ==
  LET values == ToSet(b.members[s])
      own(d) == [d EXCEPT !.on = @ \ {s}]
      left(d) == [d EXCEPT !.stack = c.stack, !.on = @ \ values, !.ret = IF @ \in values THEN s ELSE @]
  IN  left(Through(LAMBDA d, x : IF d.ret # NoSym THEN d ELSE sym_check_sym_deps(b, d, x),
                   own(sym_check_sym_deps(b, ChoiceStart(b, c, s), s)), b.members[s]))

sym_check_deps(b, c, s) ==
  LET found(d) == [d EXCEPT !.ret = s]
      left(d) == [d EXCEPT !.stack = c.stack, !.ret = IF @ = s THEN NoSym ELSE @]
  IN  IF s \in c.on THEN found(sym_check_print_recursive(b, c, s))
      ELSE IF s \in c.seen THEN c
      ELSE left(IF sym_is_choice_value(b, s)
                THEN sym_check_deps(b, [c EXCEPT !.stack = Append(@, s)], ChoiceOf(b, s))
                ELSE IF sym_is_choice(s) THEN sym_check_choice_deps(b, c, s)
                ELSE Left(sym_check_sym_deps(b, [c EXCEPT !.on = @ \union {s}, !.seen = @ \union {s}], s), s))
=============================================================================
