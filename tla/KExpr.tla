------------------------------- MODULE KExpr -------------------------------
(***************************************************************************)
(* Dependency expressions of Kconfig (kconfig/expr.c): what recurses over   *)
(* their trees.  The C code rewrites trees in place: here each function     *)
(* returns the tree it leaves behind.                                       *)
(***************************************************************************)
EXTENDS KOperand, Sequences, SequencesExt

\* FoldLeft of SequencesExt, in time linear in the length of the sequence; the
\* sets of one element make TLC evaluate each result before the next
Through(op(_, _), base, seq) ==
  LET f[k \in 0..Len(seq)] ==
        IF k = 0 THEN base
        ELSE CHOOSE r \in {op(p, seq[k]) : p \in {f[k - 1]}} : TRUE
  IN  f[Len(seq)]

RECURSIVE expr_calc_value(_, _)
expr_calc_value(env, e) ==
  CASE e = NoExpr -> 2
    [] e.type = "AND" -> Least(expr_calc_value(env, e.left), expr_calc_value(env, e.right))
    [] e.type = "OR" -> Most(expr_calc_value(env, e.left), expr_calc_value(env, e.right))
    [] e.type = "NOT" -> 2 - expr_calc_value(env, e.left)
    [] e.type = "SYMBOL" \/ IsComp(e) -> LeafValue(env, e)

\* the symbols an expression evaluates, in the order it does
RECURSIVE SymbolsOf(_)
SymbolsOf(e) ==
  CASE e = NoExpr -> <<>>
    [] e.type = "SYMBOL" -> <<e.sym>>
    [] e.type = "NOT" -> SymbolsOf(e.left)
    [] IsTwo(e) -> SymbolsOf(e.left) \o SymbolsOf(e.right)
    [] IsComp(e) -> <<e.sym, e.rsym>>
-----------------------------------------------------------------------------
(* Elimination of operands.  A tree of one operator is the sequence of its  *)
(* operands (Leaves); Rebuild puts changed operands back into the tree.     *)

RECURSIVE Leaves(_, _)
Leaves(t, e) == IF e.type = t THEN Leaves(t, e.left) \o Leaves(t, e.right) ELSE <<e>>

RECURSIVE Rebuild(_, _, _)
Rebuild(t, e, ls) ==
  IF e.type # t THEN ls[1]
  ELSE LET n == Len(Leaves(t, e.left))
       IN  Two(t, Rebuild(t, e.left, SubSeq(ls, 1, n)), Rebuild(t, e.right, SubSeq(ls, n + 1, Len(ls))))

\* all pairs of operands, in the order the recursions of the C code meet them
Pairs(n, m) == [k \in 1..(n * m) |-> <<((k - 1) \div m) + 1, ((k - 1) % m) + 1>>]

RECURSIVE expr_eliminate_yn(_)
expr_eliminate_yn(e) ==
  IF ~IsTwo(e) THEN e
  ELSE Reduced(e.type, expr_eliminate_yn(e.left), expr_eliminate_yn(e.right))

RECURSIVE expr_eq(_, _)

\* __expr_eliminate_eq: equal operands of the two trees both become the unit;
\* s has the operands of both, and p says which two
Match(t, s, p) ==
  LET a == s.l[p[1]]  b == s.r[p[2]]
  IN  IF (a = b /\ a \in {Sym("y"), Sym("n")}) \/ ~expr_eq(a, b) THEN s
      ELSE [l |-> [s.l EXCEPT ![p[1]] = Unit(t)], r |-> [s.r EXCEPT ![p[2]] = Unit(t)]]

EliminateEq1(t, e, f) ==
  LET le == Leaves(t, e)
      lf == Leaves(t, f)
      back(s) == <<Rebuild(t, e, s.l), Rebuild(t, f, s.r)>>
  IN  back(Through(LAMBDA s, p : Match(t, s, p), [l |-> le, r |-> lf], Pairs(Len(le), Len(lf))))

expr_eliminate_eq(e, f) ==
  LET first == IF IsTwo(e) THEN EliminateEq1(e.type, e, f) ELSE <<e, f>>
      second(p) == IF p[1].type # p[2].type /\ IsTwo(p[2]) THEN EliminateEq1(p[2].type, p[1], p[2]) ELSE p
      tidy(p) == <<expr_eliminate_yn(p[1]), expr_eliminate_yn(p[2])>>
  IN  IF e = NoExpr \/ f = NoExpr THEN <<e, f>> ELSE tidy(second(first))

expr_eq(e, f) ==
  LET same(r) == r[1].type = "SYMBOL" /\ r[1] = r[2]
  IN  /\ e.type = f.type
      /\ CASE e.type = "SYMBOL" \/ IsComp(e) -> e = f
           [] e.type = "NOT" -> expr_eq(e.left, f.left)
           [] IsTwo(e) -> same(expr_eliminate_eq(e, f))
-----------------------------------------------------------------------------
(* Joining two operands into one: Nothing when they do not join.            *)

Join(t, e, f) ==
  LET s == IF e.type = "NOT" THEN e.left.sym ELSE e.sym
  IN  IF expr_eq(e, f) THEN e
      ELSE IF ~Joinable(e, f) THEN Nothing
      ELSE IF t = "OR" THEN expr_join_or(e, f, s) ELSE expr_join_and(e, f, s)

\* expr_eliminate_dups1: every operand of e against every other; .n counts joins
RECURSIVE EliminateDups1(_, _)
EliminateDups1(t, e) ==
  LET without(a) == IF IsTwo(a) THEN EliminateDups1(a.type, a) ELSE [e |-> a, n |-> 0]
      with(s, p, d) == Joined(t, s, p, d, Join(t, d.e, s.l[p[2]]))
      le == Leaves(t, e)
      back(s) == [e |-> Rebuild(t, e, s.l), n |-> s.n]
  IN  back(Through(LAMBDA s, p : IF p[1] = p[2] THEN s ELSE with(s, p, without(s.l[p[1]])),
                   [l |-> le, n |-> 0], Pairs(Len(le), Len(le))))

RECURSIVE expr_eliminate_dups(_)
expr_eliminate_dups(e) ==
  LET again(d) == IF d.n = 0 THEN d.e ELSE expr_eliminate_dups(expr_eliminate_yn(d.e))
  IN  IF e = NoExpr \/ ~IsTwo(e) THEN e ELSE again(EliminateDups1(e.type, e))
-----------------------------------------------------------------------------
(* Normal forms and tests.                                                  *)

RECURSIVE expr_transform(_)
expr_transform(e) ==
  CASE e = NoExpr \/ e.type = "SYMBOL" -> e
    [] IsComp(e) -> TransformComp(e)
    [] IsTwo(e) -> Two(e.type, expr_transform(e.left), expr_transform(e.right))
    [] e.type = "NOT" ->
         LET l == expr_transform(e.left)
         IN  CASE l.type = "NOT" -> expr_transform(l.left)
               [] IsComp(l) -> Comp(Opposite(l.type), l.sym, l.rsym)
               [] IsTwo(l) -> expr_transform(Two(IF l.type = "OR" THEN "AND" ELSE "OR",
                                                 Not(l.left), Not(l.right)))
               [] l = Sym("y") -> Sym("n")
               [] l = Sym("n") -> Sym("y")
               [] l = Sym("m") -> l
               [] OTHER -> Not(l)

\* an expression as it is wanted where only n or not n matters
RECURSIVE expr_trans_bool(_)
expr_trans_bool(e) ==
  CASE IsTwo(e) -> Two(e.type, expr_trans_bool(e.left), expr_trans_bool(e.right))
    [] e.type = "NOT" -> Not(expr_trans_bool(e.left))
    [] OTHER -> BoolOperand(e)

expr_contains_symbol(e, s) == s \in ToSet(SymbolsOf(e))

RECURSIVE expr_depends_symbol(_, _)
expr_depends_symbol(e, s) ==
  CASE e.type = "AND" -> expr_depends_symbol(e.left, s) \/ expr_depends_symbol(e.right, s)
    [] e.type = "SYMBOL" -> e.sym = s
    [] e.type = "EQUAL" -> e.sym = s /\ e.rsym \in {"y", "m"}
    [] e.type = "UNEQUAL" -> e.sym = s /\ e.rsym = "n"
    [] OTHER -> FALSE

\* e compared with a constant, the comparison pushed down to the symbols; for
\* AND and OR and the constant m the tree is returned as it was
RECURSIVE expr_trans_compare(_, _, _)
expr_trans_compare(e, t, c) ==
  LET negated(x) == IF t = "UNEQUAL" THEN Not(x) ELSE x
      two(u) == Two(u, expr_trans_compare(e.left, "EQUAL", c), expr_trans_compare(e.right, "EQUAL", c))
  IN  CASE e = NoExpr -> negated(Sym(c))
        [] IsTwo(e) -> negated(CASE c = "m" -> e
                                 [] c = "y" -> two(e.type)
                                 [] c = "n" -> two(IF e.type = "AND" THEN "OR" ELSE "AND"))
        [] e.type = "NOT" -> expr_trans_compare(e.left, Opposite(t), c)
        [] e.type = "SYMBOL" -> Comp(t, e.sym, c)
        [] IsComp(e) -> CASE c = "m" -> Sym(IF t = "EQUAL" THEN "n" ELSE "y")
                          [] c = "y" -> negated(e)
                          [] c = "n" -> IF t = "EQUAL" THEN Not(e) ELSE e

\* m -> m && MODULES, so that it counts as n without modules
RECURSIVE rewrite_m(_, _)
rewrite_m(modules, e) ==
  CASE e.type = "NOT" -> Not(rewrite_m(modules, e.left))
    [] IsTwo(e) -> Two(e.type, rewrite_m(modules, e.left), rewrite_m(modules, e.right))
    [] e = Sym("m") -> expr_alloc_and(e, Sym(modules))
    [] OTHER -> e
-----------------------------------------------------------------------------
(* Printing, to a sequence of tokens.                                       *)

\* the tokens bind in this order; parentheses go around what binds less than
\* the operator it stands under
Binding(t) ==
  CASE t = "NONE" -> 0
    [] t = "OR" -> 1
    [] t = "AND" -> 2
    [] t = "NOT" -> 3
    [] t \in {"EQUAL", "UNEQUAL"} -> 4
    [] t \in Relations \ {"EQUAL", "UNEQUAL"} -> 5
    [] t = "SYMBOL" -> 6

\* mutant: no parentheses under an operator of the next precedence
expr_compare_type_mut(prev, t) == IF prev # "SYMBOL" /\ Binding(prev) > Binding(t) + 1 THEN 1 ELSE 0

expr_compare_type(prev, t) == IF prev # "SYMBOL" /\ Binding(prev) > Binding(t) THEN 1 ELSE 0

RECURSIVE expr_print(_, _)
expr_print(e, prev) ==
  LET body == CASE e.type = "SYMBOL" -> <<e.sym>>
                [] e.type = "NOT" -> <<"NOT">> \o expr_print(e.left, "NOT")
                [] IsComp(e) -> <<e.sym, e.type, e.rsym>>
                [] IsTwo(e) -> expr_print(e.left, e.type) \o <<e.type>> \o expr_print(e.right, e.type)
  IN  IF e = NoExpr THEN <<"y">>
      ELSE IF expr_compare_type(prev, e.type) > 0 THEN <<"(">> \o body \o <<")">>
      ELSE body

\* the operands of a reverse dependency that have the value v, one per line
RECURSIVE expr_print_revdep(_, _, _)
expr_print_revdep(env, e, v) ==
  IF e.type = "OR" THEN expr_print_revdep(env, e.left, v) \o expr_print_revdep(env, e.right, v)
  ELSE IF expr_calc_value(env, e) = v THEN <<expr_print(e, "NONE")>> ELSE <<>>

\* The grammar of expressions (zconf.y), as a parser: Parse(s, t) reads a tree
\* of operator t or tighter from the tokens s and returns it with the rest.
RECURSIVE Parse(_, _), ParseOperand(_)
ParseOperand(s) ==
  IF s[1] = "NOT" THEN LET r == Parse(Tail(s), "NOT") IN [e |-> Not(r.e), rest |-> r.rest]
  ELSE IF s[1] = "(" THEN LET r == Parse(Tail(s), "OR") IN [e |-> r.e, rest |-> Tail(r.rest)]
  ELSE IF Len(s) > 2 /\ s[2] \in Relations
       THEN [e |-> Comp(s[2], s[1], s[3]), rest |-> SubSeq(s, 4, Len(s))]
  ELSE [e |-> Sym(s[1]), rest |-> Tail(s)]
Parse(s, t) ==
  IF t = "NOT" THEN ParseOperand(s)
  ELSE LET tighter == IF t = "OR" THEN "AND" ELSE "NOT"
           RECURSIVE go(_)
           go(r) == IF r.rest # <<>> /\ r.rest[1] = t
                    THEN LET n == Parse(Tail(r.rest), tighter)
                         IN  go([e |-> Two(t, r.e, n.e), rest |-> n.rest])
                    ELSE r
       IN  go(Parse(s, tighter))
=============================================================================
