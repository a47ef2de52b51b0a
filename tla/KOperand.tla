------------------------------ MODULE KOperand ------------------------------
(***************************************************************************)
(* Operands of the dependency expressions of Kconfig (kconfig/expr.c): how  *)
(* trees are made, what a symbol and a comparison are worth, and what two   *)
(* operands join to.  NoExpr is the NULL pointer, which stands for "y".  A  *)
(* symbol is its name; Type gives its type, and "n", "m", "y" are the       *)
(* constant symbols.  What recurses over trees is in KExpr.                 *)
(***************************************************************************)
EXTENDS Integers

CONSTANTS Type,     \* symbol -> "BOOLEAN", "TRISTATE", "INT", "STRING" or "UNKNOWN"
          Number    \* a constant symbol written in digits -> its number

Symbols == DOMAIN Type
Consts == {"n", "m", "y"}

\* what is written in digits is no bool and no tristate
ASSUME KOperandAssumption ==
  /\ Consts \subseteq Symbols
  /\ DOMAIN Number \subseteq Symbols
  /\ \A s \in DOMAIN Number : Number[s] \in Int /\ Type[s] \notin {"BOOLEAN", "TRISTATE"}

Tristate == 0..2
Least(a, b) == IF a < b THEN a ELSE b
Most(a, b) == IF a < b THEN b ELSE a

NoExpr == [type |-> "NONE"]
Sym(s) == [type |-> "SYMBOL", sym |-> s]
Not(e) == [type |-> "NOT", left |-> e]
Two(t, e, f) == [type |-> t, left |-> e, right |-> f]
Comp(t, s, r) == [type |-> t, sym |-> s, rsym |-> r]

Relations == {"EQUAL", "UNEQUAL", "GEQ", "GTH", "LEQ", "LTH"}
IsComp(e) == e.type \in Relations
IsTwo(e) == e.type \in {"AND", "OR"}
\* what an operand that was joined or matched is replaced with
Unit(t) == IF t = "OR" THEN Sym("n") ELSE Sym("y")

expr_is_yes(e) == e = NoExpr \/ e = Sym("y")

expr_alloc_and(e, f) == IF e = NoExpr THEN f ELSE IF f = NoExpr THEN e ELSE Two("AND", e, f)
expr_alloc_or(e, f) == IF e = NoExpr THEN f ELSE IF f = NoExpr THEN e ELSE Two("OR", e, f)
-----------------------------------------------------------------------------
(* Values.  env gives every symbol its tristate value, env.tri, and the     *)
(* value its string stands for, env.val: a number, or Empty.                *)

Empty == -1

\* the values symbols can have: the constants stand for themselves, a bool is
\* never m
Environment(env) ==
  /\ env.tri["n"] = 0 /\ env.tri["m"] = 1 /\ env.tri["y"] = 2
  /\ \A s \in Symbols : /\ env.tri[s] \in Tristate
                        /\ Type[s] = "BOOLEAN" => env.tri[s] # 1
                        /\ env.val[s] \in Int

\* What the comparison reads of a symbol: lit when its string is no number
\* (a letter), ord where the string sorts ("m" < "n" < "y", digits before
\* letters), num the number it stands for ("n", "m", "y" of a bool: 0, 1, 2).
Letter(v) == <<1, 0, 2>>[v + 1]
Operand(env, s) ==
  LET ord == Letter(env.tri[s])
  IN  IF s \in Consts THEN [lit |-> TRUE, ord |-> ord, num |-> 0]
      ELSE IF s \in DOMAIN Number THEN [lit |-> FALSE, ord |-> -1, num |-> Number[s]]
      ELSE IF Type[s] \in {"BOOLEAN", "TRISTATE"} THEN [lit |-> FALSE, ord |-> ord, num |-> env.tri[s]]
      ELSE [lit |-> FALSE, ord |-> -1, num |-> env.val[s]]

\* numbers are compared as numbers, anything else as strings
Compare(a, b) == IF a.lit \/ b.lit THEN a.ord - b.ord ELSE a.num - b.num

Holds(t, d) ==
  \/ t = "EQUAL" /\ d = 0
  \/ t = "UNEQUAL" /\ d # 0
  \/ t = "GEQ" /\ d >= 0
  \/ t = "GTH" /\ d > 0
  \/ t = "LEQ" /\ d =< 0
  \/ t = "LTH" /\ d < 0

Compared(env, e) == Holds(e.type, Compare(Operand(env, e.sym), Operand(env, e.rsym)))

\* the value of a symbol or a comparison
LeafValue(env, e) == IF e.type = "SYMBOL" THEN env.tri[e.sym] ELSE IF Compared(env, e) THEN 2 ELSE 0
-----------------------------------------------------------------------------
(* Simplifying.                                                             *)

\* two operands with a constant among them, joined by t
Reduced(t, l, r) ==
  LET u == Unit(t)
      z == Unit(IF t = "OR" THEN "AND" ELSE "OR")
  IN  IF z \in {l, r} THEN z
      ELSE IF l = u THEN r
      ELSE IF r = u THEN l
      ELSE Two(t, l, r)

\* the result for two operands that do not join
Nothing == [type |-> "NULL"]

\* the symbol both operands are about, when they are simple enough to join
Joinable(e, f) ==
  LET simple == {"SYMBOL", "EQUAL", "UNEQUAL"}
      about(x) == IF x.type = "NOT" THEN x.left.sym ELSE x.sym
  IN  /\ e.type \in simple \/ (e.type = "NOT" /\ e.left.type \in simple)
      /\ f.type \in simple \/ (f.type = "NOT" /\ f.left.type = "SYMBOL")
      /\ about(e) = about(f)
      /\ Type[about(e)] \in {"BOOLEAN", "TRISTATE"}

Third(e, f) == CHOOSE c \in Consts : c \notin {e.rsym, f.rsym}

\* a = x || a = z -> a != the third value; a || !a -> y
expr_join_or(e, f, s) ==
  IF /\ Type[s] = "TRISTATE"
     /\ e.type = "EQUAL" /\ f.type = "EQUAL"
     /\ {e.rsym, f.rsym} \subseteq Consts
  THEN Comp("UNEQUAL", s, Third(e, f))
  ELSE IF Type[s] = "BOOLEAN" /\ {e, f} = {Sym(s), Not(Sym(s))} THEN Sym("y")
  ELSE Nothing

\* a && a = y, a && a != m -> a = y; a && a != n -> a; two comparisons of a
\* tristate with constants -> the one that is left, or n
expr_join_and(e, f, s) ==
  LET is(t, c) == {e, f} = {Sym(s), Comp(t, s, c)}
  IN  IF is("EQUAL", "y") \/ is("UNEQUAL", "m") THEN Comp("EQUAL", s, "y")
      ELSE IF is("UNEQUAL", "n") THEN Sym(s)
      ELSE IF \/ Type[s] # "TRISTATE"
              \/ ~{e.type, f.type} \subseteq {"EQUAL", "UNEQUAL"}
              \/ ~{e.rsym, f.rsym} \subseteq Consts
              \/ e.type = "EQUAL" /\ f.type = "EQUAL" THEN Nothing
      ELSE IF e.type = f.type THEN Comp("EQUAL", s, Third(e, f))
      ELSE IF e.rsym = f.rsym THEN Sym("n")
      ELSE IF e.type = "EQUAL" THEN e ELSE f

\* the operands s once the first of the pair p, become d, and j are joined
Joined(t, s, p, d, j) ==
  IF j = Nothing THEN [l |-> [s.l EXCEPT ![p[1]] = d.e], n |-> s.n + d.n]
  ELSE [l |-> [s.l EXCEPT ![p[1]] = Unit(t), ![p[2]] = j], n |-> s.n + d.n + 1]

Opposite(t) ==
  CASE t = "EQUAL" -> "UNEQUAL" [] t = "UNEQUAL" -> "EQUAL"
    [] t = "LEQ" -> "GTH" [] t = "GTH" -> "LEQ"
    [] t = "GEQ" -> "LTH" [] t = "LTH" -> "GEQ"

\* mutant: the constants n and y are swapped
TransformComp_mut(e) ==
  IF Type[e.sym] # "BOOLEAN" \/ e.rsym \notin Consts \/ e.type \notin {"EQUAL", "UNEQUAL"} THEN e
  ELSE IF e.rsym = "m" THEN Sym(IF e.type = "EQUAL" THEN "n" ELSE "y")
  ELSE IF (e.type = "EQUAL") = (e.rsym = "n") THEN Sym(e.sym) ELSE Not(Sym(e.sym))

\* a comparison of a bool with a constant is the symbol, its negation or a constant
TransformComp(e) ==
  IF Type[e.sym] # "BOOLEAN" \/ e.rsym \notin Consts \/ e.type \notin {"EQUAL", "UNEQUAL"} THEN e
  ELSE IF e.rsym = "m" THEN Sym(IF e.type = "EQUAL" THEN "n" ELSE "y")
  ELSE IF (e.type = "EQUAL") = (e.rsym = "y") THEN Sym(e.sym) ELSE Not(Sym(e.sym))

\* tristate != n -> the symbol: for a symbol that is bool, which m satisfies too
BoolOperand(e) ==
  IF e.type = "UNEQUAL" /\ Type[e.sym] = "TRISTATE" /\ e.rsym = "n" THEN Sym(e.sym) ELSE e
=============================================================================
