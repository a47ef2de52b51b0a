------------------------------ MODULE KSymbol ------------------------------
(***************************************************************************)
(* Values of symbols (kconfig/symbol.c, lkc.h).  T is a finalized menu tree *)
(* and d the state of its symbols:                                          *)
(*   tri, val, sel    curr: the tristate, the number and, of a choice, the  *)
(*                    chosen symbol                                         *)
(*   vis, rev, imp, dir   the values of the visibility and the dependencies *)
(*   utri, uval, usel def[S_DEF_USER];  atri, aval  def[S_DEF_AUTO]         *)
(*   valid, write, user, auto, need   the symbols with the flags VALID,     *)
(*                    WRITE, DEF_USER, DEF_AUTO, NEED_SET_CHOICE_VALUES     *)
(*   shown            visible.tri of the prompts, by property               *)
(*   modules, changed modules_val, and whether the change count is not 0    *)
(* Every function returns the state it leaves behind, since reading a value *)
(* calculates it.  The flag CHANGED, which only redraws, is left out.       *)
(***************************************************************************)
EXTENDS KMenu

IsBool(s) == Type[s] \in {"BOOLEAN", "TRISTATE"}
Fixed == Consts \union DOMAIN Number

Fresh(T) ==
  LET all(v) == [s \in Symbols |-> v]
      tris == [s \in Symbols |-> IF s = "m" THEN 1 ELSE IF s = "y" THEN 2 ELSE 0]
      vals == [s \in Symbols |-> IF s \in DOMAIN Number THEN Number[s] ELSE Empty]
  IN  [tri |-> tris, val |-> vals, sel |-> [c \in ChoiceSyms |-> NoSym],
       vis |-> all(0), rev |-> all(0), imp |-> all(0), dir |-> all(0),
       utri |-> all(0), uval |-> all(Empty), usel |-> [c \in ChoiceSyms |-> NoSym],
       atri |-> all(0), aval |-> all(Empty),
       valid |-> Fixed, write |-> {}, user |-> {}, auto |-> {}, need |-> {},
       shown |-> [x \in DOMAIN T.prop |-> 0], modules |-> 0, changed |-> TRUE]

Members(T, c) == T.members[c]
Prompts(T, s) == SelectSeq(SymProps(T, s), LAMBDA x : T.prop[x].type \in {"PROMPT", "MENU"})
PropsOfType(T, s, t) == SelectSeq(SymProps(T, s), LAMBDA x : T.prop[x].type = t)

sym_has_value(d, s) == s \in d.user
sym_is_changable(d, s) == d.vis[s] > d.rev[s]
sym_is_optional(T, s) == s \in T.optional

sym_get_type(T, d, s) ==
  IF /\ Type[s] = "TRISTATE"
     /\ \/ sym_is_choice_value(T, s) /\ d.vis[s] = 2
        \/ d.modules = 0
  THEN "BOOLEAN" ELSE Type[s]

RECURSIVE sym_calc_value(_, _, _), FirstShown(_, _, _)

\* d once the symbols of e are calculated; the value of e is then Of(d, e)
Calc(T, d, e) == Through(LAMBDA c, s : sym_calc_value(T, c, s), d, SymbolsOf(e))
Of(d, e) == expr_calc_value(d, e)

\* the first of the properties xs whose condition holds, 0 for none; d has the
\* condition of the first calculated
HeadOrLater(T, d, xs) ==
  IF Of(d, T.prop[Head(xs)].vis) # 0 THEN [d |-> d, x |-> Head(xs)] ELSE FirstShown(T, d, Tail(xs))
FirstShown(T, d, xs) ==
  IF xs = <<>> THEN [d |-> d, x |-> 0] ELSE HeadOrLater(T, Calc(T, d, T.prop[Head(xs)].vis), xs)
sym_get_default_prop(T, d, s) == FirstShown(T, d, PropsOfType(T, s, "DEFAULT"))
sym_get_range_prop(T, d, s) == FirstShown(T, d, PropsOfType(T, s, "RANGE"))
-----------------------------------------------------------------------------
(* Ranges: an empty string counts as 0.                                     *)

Number0(v) == IF v < 0 THEN 0 ELSE v

\* the bounds that hold for s: none, or a pair
Pair(d, e) == [d |-> d, some |-> TRUE, lo |-> Number0(d.val[e.sym]), hi |-> Number0(d.val[e.rsym])]
BoundsOf(T, d, e) == Pair(sym_calc_value(T, sym_calc_value(T, d, e.sym), e.rsym), e)
PropBounds(T, r) == IF r.x = 0 THEN [d |-> r.d, some |-> FALSE] ELSE BoundsOf(T, r.d, T.prop[r.x].expr)
Bounds(T, d, s) == PropBounds(T, IF Type[s] = "INT" THEN sym_get_range_prop(T, d, s) ELSE [d |-> d, x |-> 0])

sym_validate_range(T, d, s) ==
  LET v == Number0(d.val[s])
      within(b) == IF ~b.some THEN b.d
                   ELSE IF v < b.lo THEN [b.d EXCEPT !.val[s] = b.lo]
                   ELSE IF v > b.hi THEN [b.d EXCEPT !.val[s] = b.hi]
                   ELSE b.d
  IN  within(Bounds(T, d, s))

\* Bad is what no number is written like
Bad == -2
sym_string_valid(s, v) == Type[s] = "STRING" \/ (Type[s] = "INT" /\ v >= 0)

sym_string_within_range(T, d, s, v) ==
  LET within(b) == [d |-> b.d, ok |-> ~b.some \/ (v >= b.lo /\ v =< b.hi)]
  IN  IF ~sym_string_valid(s, v) THEN [d |-> d, ok |-> FALSE] ELSE within(Bounds(T, d, s))
-----------------------------------------------------------------------------
(* Visibility and dependencies.                                             *)

\* without modules, m counts as y for a symbol that is bool
Promote(T, d, s, v) == IF v = 1 /\ sym_get_type(T, d, s) = "BOOLEAN" THEN 2 ELSE v

\* the value v of the condition of prompt x of s; a tristate choice value that is
\* m cannot be seen in a choice that is y
Shows(T, d, s, x, v) ==
  LET hidden == /\ sym_is_choice_value(T, s) /\ Type[s] = "TRISTATE"
                /\ v = 1 /\ d.tri[ChoiceOf(T, s)] = 2
  IN  [d EXCEPT !.shown[x] = IF hidden THEN 0 ELSE v]
PromptShows(T, d, s, x) == Shows(T, d, s, x, Of(d, T.prop[x].vis))
PromptVisibility(T, d, s, x) == PromptShows(T, Calc(T, d, T.prop[x].vis), s, x)

\* the most visible prompt counts; m is y for what is not tristate
Visible(d, s, v) == [d EXCEPT !.vis[s] = IF v = 1 /\ (Type[s] # "TRISTATE" \/ d.modules = 0) THEN 2 ELSE v]
MostVisible(d, s, xs) == Visible(d, s, Max({0} \union {d.shown[x] : x \in ToSet(xs)}))
Visibility(T, d, s) ==
  MostVisible(Through(LAMBDA c, x : PromptVisibility(T, c, s, x), d, Prompts(T, s)), s, Prompts(T, s))

\* the field f of s: the value of the dependency e, calculated in d, or none
DepValue(T, d, s, f, e, none) ==
  [d EXCEPT ![f][s] = IF e = NoExpr THEN none ELSE Promote(T, d, s, Of(d, e))]
Depend(T, d, s, f, e, none) == DepValue(T, Calc(T, d, e), s, f, e, none)

\* the dependencies of s, its selects and its implies; an imply counts where
\* the dependencies hold
Implied(T, d, s) == Depend(T, d, s, "imp", IF d.dir[s] # 0 THEN T.imp[s] ELSE NoExpr, 0)
Dependencies(T, d, s) ==
  Implied(T, Depend(T, Depend(T, d, s, "dir", T.dir[s], 2), s, "rev", T.rev[s], 0), s)

Dependent(T, d, s) == IF sym_is_choice_value(T, s) THEN d ELSE Dependencies(T, d, s)
sym_calc_visibility(T, d, s) == Dependent(T, Visibility(T, d, s), s)

\* the first default that applies and can be seen, or the first value that can
DefaultChoice(T, r, visible) ==
  [d |-> r.d, sym |-> IF r.x # 0 THEN T.prop[r.x].expr.sym
                      ELSE IF visible # <<>> THEN Head(visible) ELSE NoSym]
sym_choice_default(T, d, c) ==
  LET ofvisible == SelectSeq(PropsOfType(T, c, "DEFAULT"), LAMBDA x : d.vis[T.prop[x].expr.sym] # 0)
  IN  DefaultChoice(T, FirstShown(T, d, ofvisible), SelectSeq(Members(T, c), LAMBDA s : d.vis[s] # 0))

\* the choice counts as set by the user only if all its visible values are
VisibleMembers(T, d, c) == {s \in ToSet(Members(T, c)) : d.vis[s] # 0}
Chosen(T, d, c) ==
  LET default(e) == [e.d EXCEPT !.sel[c] = e.sym, !.tri[c] = IF e.sym = NoSym THEN 0 ELSE @]
  IN  IF d.usel[c] \in VisibleMembers(T, d, c) THEN [d EXCEPT !.sel[c] = d.usel[c]]
      ELSE default(sym_choice_default(T, d, c))
sym_calc_choice(T, d, c) ==
  LET user(v) == IF VisibleMembers(T, v, c) \subseteq v.user THEN v ELSE [v EXCEPT !.user = @ \ {c}]
  IN  Chosen(T, user(Through(LAMBDA v, s : sym_calc_visibility(T, v, s), d, Members(T, c))), c)
-----------------------------------------------------------------------------
(* sym_calc_value.                                                          *)

set_all_choice_values(T, d, c) ==
  [d EXCEPT !.utri = [s \in Symbols |-> IF s \in ToSet(Members(T, c)) \ d.user THEN 0 ELSE @[s]],
            !.user = @ \union {c}, !.valid = @ \ {c}, !.need = @ \ {c}]

\* the first default that applies, and its value
ValueOfProp(T, d, x) ==
  [d |-> d, x |-> x, v |-> IF x = 0 THEN 0 ELSE Least(Of(d, T.prop[x].expr), Of(d, T.prop[x].vis))]
CalcProp(T, p) == ValueOfProp(T, IF p.x = 0 THEN p.d ELSE Calc(T, p.d, T.prop[p.x].expr), p.x)
DefaultValue(T, d, s) == CalcProp(T, sym_get_default_prop(T, d, s))

\* the default of a bool or tristate that the user has not set or cannot see
CalcDefault(T, d, s) ==
  LET w == IF d.rev[s] # 0 THEN [d EXCEPT !.write = @ \union {s}] ELSE d
      default(p) == [d |-> IF p.v # 0 \/ p.d.imp[s] # 0 THEN [p.d EXCEPT !.write = @ \union {s}] ELSE p.d,
                     v |-> Most(p.v, p.d.imp[s])]
  IN  IF sym_is_choice(s) THEN [d |-> w, v |-> 0] ELSE default(DefaultValue(T, w, s))

\* the user's value, as far as it can be seen
UserOrDefault(T, d, s) ==
  IF d.vis[s] # 0 /\ sym_has_value(d, s) THEN [d |-> d, v |-> Least(d.utri[s], d.vis[s])]
  ELSE CalcDefault(T, d, s)

\* m is y for what is bool here, or implied y
SetBool(T, d, s, v) ==
  [d EXCEPT !.tri[s] = IF v = 1 /\ (sym_get_type(T, d, s) = "BOOLEAN" \/ d.imp[s] = 2) THEN 2 ELSE v]

\* mutant: a select does not raise the value of the user
CalcBool_mut(T, d, s) ==
  LET set(c) == SetBool(T, c.d, s, c.v)  \* not Most(c.v, c.d.rev[s])
  IN  IF sym_is_choice_value(T, s) /\ d.vis[s] = 2
      THEN [d EXCEPT !.tri[s] = IF d.sel[ChoiceOf(T, s)] = s THEN 2 ELSE 0]
      ELSE set(UserOrDefault(T, d, s))

CalcBool(T, d, s) ==
  LET set(c) == SetBool(T, c.d, s, Most(c.v, c.d.rev[s]))
  IN  IF sym_is_choice_value(T, s) /\ d.vis[s] = 2
      THEN [d EXCEPT !.tri[s] = IF d.sel[ChoiceOf(T, s)] = s THEN 2 ELSE 0]
      ELSE set(UserOrDefault(T, d, s))

\* the value of a number: the user's, or that of the symbol that is its default
CopyValue(T, d, s, ds) == [d EXCEPT !.val[s] = d.val[ds], !.write = @ \union {s}]
CopyDefault(T, p, s) ==
  IF p.x = 0 THEN p.d
  ELSE CopyValue(T, sym_calc_value(T, p.d, T.prop[p.x].expr.sym), s, T.prop[p.x].expr.sym)
CalcString(T, d, s) ==
  IF d.vis[s] # 0 /\ sym_has_value(d, s) THEN [d EXCEPT !.val[s] = d.uval[s]]
  ELSE CopyDefault(T, sym_get_default_prop(T, d, s), s)

\* the values of a choice that is written are written, the choice itself is not
FinishChoice(T, d, c) ==
  LET w == [d EXCEPT !.write = (IF c \in @ THEN @ \union VisibleMembers(T, d, c) ELSE @) \ {c}]
  IN  IF c \in w.need THEN set_all_choice_values(T, w, c) ELSE w

\* the values of a choice need it to be calculated first, once
NeededChoice(T, d, s) ==
  IF sym_is_choice_value(T, s) /\ s \in d.need
  THEN sym_calc_value(T, [d EXCEPT !.need = @ \ {s}], ChoiceOf(T, s)) ELSE d

Cleared(d, s) ==
  [d EXCEPT !.write = IF d.vis[s] # 0 THEN @ \union {s} ELSE @,
            !.tri[s] = 0, !.val[s] = Empty,
            !.sel = IF s \in ChoiceSyms THEN [@ EXCEPT ![s] = NoSym] ELSE @]

CalcBase(T, d, s) == IF IsBool(s) THEN CalcBool(T, d, s) ELSE CalcString(T, d, s)
Narrowed(T, d, s) == IF sym_is_choice(s) /\ d.tri[s] = 2 THEN sym_calc_choice(T, d, s)
                     ELSE sym_validate_range(T, d, s)

sym_calc_value(T, d, s) ==
  LET starts(c) == [c EXCEPT !.valid = @ \union {s}, !.write = @ \ {s}]
      modules(c) == IF s = modules_sym THEN [c EXCEPT !.modules = c.tri[s]] ELSE c
      finished(c) == IF sym_is_choice(s) THEN FinishChoice(T, c, s) ELSE c
  IN  IF s \in d.valid THEN d
      ELSE finished(modules(Narrowed(T, CalcBase(T, Cleared(
             sym_calc_visibility(T, starts(NeededChoice(T, d, s)), s), s), s), s)))

sym_clear_all_valid(T, d) ==
  sym_calc_value(T, [d EXCEPT !.valid = Fixed, !.changed = TRUE], modules_sym)

\* what is printed of a symbol: m is n without modules
sym_get_string_value(d, s) ==
  IF ~IsBool(s) THEN d.val[s]
  ELSE IF d.tri[s] = 1 /\ d.tri[modules_sym] = 0 THEN 0 ELSE d.tri[s]
-----------------------------------------------------------------------------
(* Setting values: the result is the new state and whether it was accepted. *)

\* mutant: what is selected can be answered n
sym_tristate_within_range_mut(T, d, s, v) ==
  LET type == sym_get_type(T, d, s)
  IN  /\ d.vis[s] # 0
      /\ type \in {"BOOLEAN", "TRISTATE"}
      /\ ~(type = "BOOLEAN" /\ v = 1)
      /\ d.vis[s] > d.rev[s]
      /\ ~(d.imp[s] = 2 /\ v = 1)
      /\ IF sym_is_choice_value(T, s) /\ d.vis[s] = 2 THEN v = 2 ELSE v =< d.vis[s]

sym_tristate_within_range(T, d, s, v) ==
  LET type == sym_get_type(T, d, s)
  IN  /\ d.vis[s] # 0
      /\ type \in {"BOOLEAN", "TRISTATE"}
      /\ ~(type = "BOOLEAN" /\ v = 1)
      /\ d.vis[s] > d.rev[s]
      /\ ~(d.imp[s] = 2 /\ v = 1)
      /\ IF sym_is_choice_value(T, s) /\ d.vis[s] = 2 THEN v = 2
         ELSE d.rev[s] =< v /\ v =< d.vis[s]

\* a choice value that is set is the choice's, and none of its values is new
SetChoice(T, d, s) ==
  LET c == ChoiceOf(T, s)
  IN  [d EXCEPT !.usel[c] = s,
                !.user = @ \union {c} \union {x \in ToSet(Members(T, c)) : d.vis[x] # 0}]

\* mutant: only the symbol itself is calculated again
sym_set_tristate_value_mut(T, d, s, v) ==
  LET old == d.tri[s]
      c == [d EXCEPT !.user = @ \union {s}]
      e == IF sym_is_choice_value(T, s) /\ v = 2 THEN SetChoice(T, c, s) ELSE c
      f == [e EXCEPT !.utri[s] = v]
  IN  IF old # v /\ ~sym_tristate_within_range(T, d, s, v) THEN [d |-> d, ok |-> FALSE]
      ELSE [d |-> IF old # v THEN [f EXCEPT !.valid = @ \ {s}, !.changed = TRUE] ELSE f, ok |-> TRUE]

sym_set_tristate_value(T, d, s, v) ==
  LET old == d.tri[s]
      c == [d EXCEPT !.user = @ \union {s}]
      e == IF sym_is_choice_value(T, s) /\ v = 2 THEN SetChoice(T, c, s) ELSE c
      f == [e EXCEPT !.utri[s] = v]
  IN  IF old # v /\ ~sym_tristate_within_range(T, d, s, v) THEN [d |-> d, ok |-> FALSE]
      ELSE [d |-> IF old # v THEN sym_clear_all_valid(T, f) ELSE f, ok |-> TRUE]

\* n -> m -> y -> n, up to the first value that is accepted
RECURSIVE Toggle(_, _, _, _)
Toggle(T, d, s, v) ==
  LET next == (v + 1) % 3
      stop(r) == IF r.ok \/ d.tri[s] = next THEN r.d ELSE Toggle(T, d, s, next)
  IN  stop(sym_set_tristate_value(T, d, s, next))
sym_toggle_tristate_value(T, d, s) == Toggle(T, d, s, d.tri[s])

\* a string that was already set is taken for granted, without recalculation
SetString(T, d, s, v) ==
  [d |-> IF d.uval[s] = v THEN d ELSE sym_clear_all_valid(T, [d EXCEPT !.uval[s] = v]), ok |-> TRUE]
AcceptString(T, r, s, v) ==
  IF r.ok THEN SetString(T, [r.d EXCEPT !.user = @ \union {s}], s, v) ELSE [d |-> r.d, ok |-> FALSE]
sym_set_string_value(T, d, s, v) ==
  IF IsBool(s) THEN IF v \in Tristate THEN sym_set_tristate_value(T, d, s, v) ELSE [d |-> d, ok |-> FALSE]
  ELSE AcceptString(T, sym_string_within_range(T, d, s, v), s, v)

sym_get_string_default(T, d, s) ==
  LET bool(c) == (~sym_is_choice_value(T, s) /\ c.tri[modules_sym] = 0) \/ Type[s] = "BOOLEAN"
      printed(c, v) == Most(IF v = 1 /\ bool(c) THEN 2 ELSE v, c.imp[s])
      default(p) == [d |-> p.d, v |-> IF IsBool(s) THEN printed(p.d, Most(p.v, p.d.rev[s]))
                                      ELSE IF p.x = 0 THEN Empty ELSE p.d.val[T.prop[p.x].expr.sym]]
  IN  default(DefaultValue(T, sym_calc_value(T, sym_calc_visibility(T, d, s), modules_sym), s))
-----------------------------------------------------------------------------
(* Which menus are visible (kconfig/menu.c).  A symbol that is only shown   *)
(* because of what is below it counts as set by the user.                   *)

RECURSIVE menu_is_visible(_, _, _), AnyVisible(_, _, _)

\* some entry of the list ks is visible; they are tried up to the first
HeadOrAny(T, r, ks) == IF r.v THEN r ELSE AnyVisible(T, r.d, Tail(ks))
AnyVisible(T, d, ks) ==
  IF ks = <<>> THEN [d |-> d, v |-> FALSE] ELSE HeadOrAny(T, menu_is_visible(T, d, Head(ks)), ks)

\* the prompt of entry i, calculated in d, can be seen, or something below it
PromptVisible(T, d, i) ==
  LET s == T.node[i].sym
      bysub(r) == [r EXCEPT !.d.user = IF r.v THEN @ \union {s} ELSE @]
  IN  IF d.shown[T.node[i].prompt] # 0 THEN [d |-> d, v |-> TRUE]
      ELSE IF s = NoSym THEN [d |-> d, v |-> FALSE]
      ELSE IF d.tri[s] = 0 THEN [d |-> d, v |-> FALSE]
      ELSE bysub(AnyVisible(T, d, T.kids[i]))

PromptValue(T, d, x) == [d EXCEPT !.shown[x] = Of(d, T.prop[x].vis)]
CalcPrompt(T, d, x) == PromptValue(T, Calc(T, d, T.prop[x].vis), x)
CalcEntry(T, d, i) ==
  IF T.node[i].sym # NoSym THEN sym_calc_value(T, d, T.node[i].sym) ELSE CalcPrompt(T, d, T.node[i].prompt)

\* first the "visible if" of the entry, calculated in d
VisibleIf(T, d, i) ==
  IF T.node[i].visibility # NoExpr /\ Of(d, T.node[i].visibility) = 0 THEN [d |-> d, v |-> FALSE]
  ELSE PromptVisible(T, CalcEntry(T, d, i), i)
menu_is_visible(T, d, i) ==
  IF T.node[i].prompt = 0 THEN [d |-> d, v |-> FALSE]
  ELSE VisibleIf(T, Calc(T, d, T.node[i].visibility), i)

menu_is_empty(T, d, i) == [AnyVisible(T, d, T.kids[i]) EXCEPT !.v = ~@]

\* the nearest entry at or above i whose prompt is a menu, or rootmenu
RECURSIVE menu_get_parent_menu(_, _)
menu_get_parent_menu(T, i) ==
  IF i = 1 \/ (T.node[i].prompt # 0 /\ T.prop[T.node[i].prompt].type = "MENU") THEN i
  ELSE menu_get_parent_menu(T, T.up[i])
=============================================================================
