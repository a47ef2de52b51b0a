--------------------------- MODULE KOperand_proofs ---------------------------
(***************************************************************************)
(* Rewriting an operand of a dependency expression, or two operands into    *)
(* one, keeps its value: for every set of symbols, with any types, in every *)
(* environment.                                                             *)
(***************************************************************************)
EXTENDS KOperand, SequenceTheorems, NaturalsInduction, WellFoundedInduction, TLAPS

Leafs == {Sym(s) : s \in Symbols} \cup {Comp(t, s, r) : t \in Relations, s \in Symbols, r \in Symbols}
Operands == Leafs \cup {Not(e) : e \in Leafs}

\* the value of a leaf or a leaf under a negation
OperandValue(env, e) == IF e.type = "NOT" THEN 2 - LeafValue(env, e.left) ELSE LeafValue(env, e)
-----------------------------------------------------------------------------
(* Leaves.                                                                  *)

\* A leaf has one of the three values, and a comparison never the middle one.
LEMMA LeafIsTristate ==
  ASSUME NEW env, Environment(env), NEW e \in Leafs
  PROVE  /\ LeafValue(env, e) \in Tristate
         /\ e.type # "SYMBOL" => LeafValue(env, e) \in {0, 2}
<1>1. CASE e.type = "SYMBOL"
  <2>1. e.sym \in Symbols
    BY <1>1 DEF Leafs, Sym, Comp, Relations
  <2>2. env.tri[e.sym] \in Tristate
    BY <2>1 DEF Environment, Tristate
  <2>3. QED
    BY <1>1, <2>2 DEF LeafValue
<1>2. CASE e.type # "SYMBOL"
  BY <1>2 DEF LeafValue, Tristate
<1>3. QED
  BY <1>1, <1>2

\* What a comparison compares are numbers, for constants and symbols alike.
LEMMA OperandIsNumber ==
  ASSUME KOperandAssumption, NEW env, Environment(env), NEW s \in Symbols
  PROVE  Operand(env, s).ord \in Int /\ Operand(env, s).num \in Int
<1>1. \A v \in 0..2 : Letter(v) \in Int
  BY DEF Letter
<1>2. env.tri[s] \in 0..2
  BY DEF Environment, Tristate
<1>3. s \in DOMAIN Number => Number[s] \in Int
  BY DEF KOperandAssumption
<1>4. env.val[s] \in Int
  BY DEF Environment
<1>5. CASE s \in Consts
  BY <1>1, <1>2, <1>5 DEF Operand
<1>6. CASE s \notin Consts /\ s \in DOMAIN Number
  BY <1>3, <1>6 DEF Operand
<1>7. CASE s \notin Consts /\ s \notin DOMAIN Number
  BY <1>1, <1>2, <1>4, <1>7 DEF Operand
<1>8. QED
  BY <1>5, <1>6, <1>7

\* A comparison of a bool or a tristate with a constant compares their values.
LEMMA ComparedWithConst ==
  ASSUME KOperandAssumption, NEW env, Environment(env), NEW c \in Consts,
         NEW s \in Symbols, Type[s] \in {"BOOLEAN", "TRISTATE"}
  PROVE  /\ LeafValue(env, Comp("EQUAL", s, c)) = IF env.tri[s] = env.tri[c] THEN 2 ELSE 0
         /\ LeafValue(env, Comp("UNEQUAL", s, c)) = IF env.tri[s] = env.tri[c] THEN 0 ELSE 2
<1> DEFINE d == Compare(Operand(env, s), Operand(env, c))
<1>1. env.tri[s] \in 0..2 /\ env.tri[c] \in 0..2
  BY DEF Environment, Tristate, Consts
<1>2. Operand(env, c).lit = TRUE /\ Operand(env, c).ord = Letter(env.tri[c])
  BY DEF Operand
<1>3. Operand(env, s).ord = Letter(env.tri[s])
  <2>1. s \notin DOMAIN Number
    BY DEF KOperandAssumption
  <2>2. QED
    BY <2>1 DEF Operand
<1>4. \A v \in 0..2 : Letter(v) = IF v = 0 THEN 1 ELSE IF v = 1 THEN 0 ELSE 2
  BY DEF Letter
<1>5. d = Letter(env.tri[s]) - Letter(env.tri[c])
  BY <1>2, <1>3 DEF Compare
<1>6. (d = 0) <=> (env.tri[s] = env.tri[c])
  <2> HIDE DEF d
  <2>1. QED
    BY <1>1, <1>4, <1>5
<1>7. \A t : Comp(t, s, c).type = t /\ Compared(env, Comp(t, s, c)) = Holds(t, d)
  BY DEF Compared, Comp
<1>8. QED
  BY <1>6, <1>7 DEF LeafValue, Holds
-----------------------------------------------------------------------------
(* One operand.                                                             *)

\* expr_transform replaces a comparison of a bool with a constant by the bool,
\* its negation or a constant: the value stays.
THEOREM TransformKeepsValue ==
  ASSUME KOperandAssumption, NEW env, Environment(env),
         NEW t \in Relations, NEW s \in Symbols, NEW r \in Symbols
  PROVE  OperandValue(env, TransformComp(Comp(t, s, r))) = LeafValue(env, Comp(t, s, r))
<1> DEFINE e == Comp(t, s, r)
<1>1. e.type = t /\ e.sym = s /\ e.rsym = r /\ t # "NOT"
  BY DEF Comp, Relations
<1>2. CASE Type[s] # "BOOLEAN" \/ r \notin Consts \/ t \notin {"EQUAL", "UNEQUAL"}
  <2>1. TransformComp(e) = e
    BY <1>1, <1>2 DEF TransformComp
  <2>2. QED
    BY <1>1, <2>1 DEF OperandValue
<1>3. CASE Type[s] = "BOOLEAN" /\ r \in Consts /\ t \in {"EQUAL", "UNEQUAL"}
  <2> DEFINE v == env.tri[s]
             same == v = env.tri[r]
  <2>1. v \in {0, 2}
    BY <1>3 DEF Environment, Tristate
  <2>2. LeafValue(env, e) = IF (t = "EQUAL") = same THEN 2 ELSE 0
    <3>1. /\ LeafValue(env, Comp("EQUAL", s, r)) = IF same THEN 2 ELSE 0
          /\ LeafValue(env, Comp("UNEQUAL", s, r)) = IF same THEN 0 ELSE 2
      BY <1>3, ComparedWithConst
    <3>2. CASE t = "EQUAL"
      BY <3>1, <3>2
    <3>3. CASE t = "UNEQUAL"
      BY <3>1, <3>3
    <3>4. QED
      BY <1>3, <3>2, <3>3
  <2>3. /\ \A c \in Symbols : OperandValue(env, Sym(c)) = env.tri[c]
        /\ OperandValue(env, Not(Sym(s))) = 2 - v
    BY DEF OperandValue, LeafValue, Sym, Not
  <2>4. CASE r = "m"
    <3>1. TransformComp(e) = Sym(IF t = "EQUAL" THEN "n" ELSE "y")
      BY <1>1, <1>3, <2>4 DEF TransformComp
    <3>2. same = FALSE /\ env.tri["n"] = 0 /\ env.tri["y"] = 2
      BY <2>1, <2>4 DEF Environment
    <3>3. {"n", "y"} \subseteq Symbols
      BY DEF KOperandAssumption, Consts
    <3>4. QED
      BY <2>2, <2>3, <3>1, <3>2, <3>3
  <2>5. CASE r # "m"
    <3>1. TransformComp(e) = IF (t = "EQUAL") = (r = "y") THEN Sym(s) ELSE Not(Sym(s))
      BY <1>1, <1>3, <2>5 DEF TransformComp
    <3>2. env.tri[r] = IF r = "y" THEN 2 ELSE 0
      BY <1>3, <2>5 DEF Consts, Environment
    <3>4. CASE v = 2
      BY <1>3, <2>2, <2>3, <2>5, <3>1, <3>2, <3>4
    <3>5. CASE v = 0
      BY <1>3, <2>2, <2>3, <2>5, <3>1, <3>2, <3>5
    <3>6. QED
      BY <2>1, <3>4, <3>5
  <2>6. QED
    BY <2>4, <2>5
<1>4. QED
  BY <1>2, <1>3

\* expr_transform takes a negation into a comparison: Opposite is the relation
\* that holds where this one does not.
THEOREM OppositeNegates ==
  ASSUME KOperandAssumption, NEW env, Environment(env),
         NEW t \in Relations, NEW s \in Symbols, NEW r \in Symbols
  PROVE  LeafValue(env, Comp(Opposite(t), s, r)) = OperandValue(env, Not(Comp(t, s, r)))
<1> DEFINE d == Compare(Operand(env, s), Operand(env, r))
<1>1. d \in Int
  <2>1. \A a \in Symbols : Operand(env, a).ord \in Int /\ Operand(env, a).num \in Int
    BY OperandIsNumber
  <2>2. QED
    BY <2>1 DEF Compare
<1>2. Opposite(t) \in Relations
  BY DEF Opposite, Relations
<1>3. Holds(Opposite(t), d) <=> ~Holds(t, d)
  <2> HIDE DEF d
  <2>1. QED
    <3>1. \/ t = "EQUAL" \/ t = "UNEQUAL" \/ t = "GEQ" \/ t = "GTH" \/ t = "LEQ" \/ t = "LTH"
      BY DEF Relations
    <3>2. /\ Opposite("EQUAL") = "UNEQUAL" /\ Opposite("UNEQUAL") = "EQUAL"
          /\ Opposite("LEQ") = "GTH" /\ Opposite("GTH") = "LEQ"
          /\ Opposite("GEQ") = "LTH" /\ Opposite("LTH") = "GEQ"
      BY DEF Opposite
    <3>3. /\ (Holds("EQUAL", d) <=> d = 0) /\ (Holds("UNEQUAL", d) <=> d # 0)
          /\ (Holds("GEQ", d) <=> d >= 0) /\ (Holds("GTH", d) <=> d > 0)
          /\ (Holds("LEQ", d) <=> d =< 0) /\ (Holds("LTH", d) <=> d < 0)
      BY DEF Holds
    <3>4. QED
      BY <1>1, <3>1, <3>2, <3>3
<1>4. \A u \in Relations : LeafValue(env, Comp(u, s, r)) = IF Holds(u, d) THEN 2 ELSE 0
  BY DEF LeafValue, Compared, Comp, Relations
<1>5. OperandValue(env, Not(Comp(t, s, r))) = 2 - LeafValue(env, Comp(t, s, r))
  BY DEF OperandValue, Not
<1>6. /\ LeafValue(env, Comp(t, s, r)) = IF Holds(t, d) THEN 2 ELSE 0
      /\ LeafValue(env, Comp(Opposite(t), s, r)) = IF Holds(t, d) THEN 0 ELSE 2
  <2> HIDE DEF d
  <2>1. QED
    BY <1>2, <1>3, <1>4
<1>7. QED
  BY <1>5, <1>6

\* Where only n or not n matters, expr_trans_bool may take a comparison of a
\* tristate with n for the tristate.
THEOREM BoolOperandAgrees ==
  ASSUME KOperandAssumption, NEW env, Environment(env), NEW e \in Leafs
  PROVE  LeafValue(env, BoolOperand(e)) = 0 <=> LeafValue(env, e) = 0
<1>1. CASE e.type = "UNEQUAL" /\ Type[e.sym] = "TRISTATE" /\ e.rsym = "n"
  <2>1. e.sym \in Symbols /\ e = Comp("UNEQUAL", e.sym, "n")
    BY <1>1 DEF Leafs, Sym, Comp
  <2>2. LeafValue(env, e) = IF env.tri[e.sym] = env.tri["n"] THEN 0 ELSE 2
    BY <1>1, <2>1, ComparedWithConst DEF Symbols, Consts
  <2>3. LeafValue(env, BoolOperand(e)) = env.tri[e.sym]
    BY <1>1 DEF BoolOperand, LeafValue, Sym
  <2>4. QED
    BY <2>2, <2>3 DEF Environment
<1>2. CASE ~(e.type = "UNEQUAL" /\ Type[e.sym] = "TRISTATE" /\ e.rsym = "n")
  BY <1>2 DEF BoolOperand
<1>3. QED
  BY <1>1, <1>2
-----------------------------------------------------------------------------
(* Two operands.                                                            *)

About(e) == IF e.type = "NOT" THEN e.left.sym ELSE e.sym

\* an operand that joins is about a symbol s, which is a bool or a tristate
LEMMA JoinableShape ==
  ASSUME NEW e \in Operands, NEW f \in Operands, Joinable(e, f), NEW s, s = About(e)
  PROVE  /\ s \in Symbols /\ Type[s] \in {"BOOLEAN", "TRISTATE"}
         /\ \A g \in {e, f} : /\ g.type = "SYMBOL" => g = Sym(s)
                              /\ g.type \in {"EQUAL", "UNEQUAL"} => g = Comp(g.type, s, g.rsym)
                              /\ g.type \in {"SYMBOL", "NOT", "EQUAL", "UNEQUAL"}
<1>1. About(f) = s /\ Type[s] \in {"BOOLEAN", "TRISTATE"}
  BY DEF Joinable, About
<1>2. \A g \in {e, f} : g.type \in {"SYMBOL", "NOT", "EQUAL", "UNEQUAL"}
  BY DEF Joinable
<1>3. \A g \in Leafs : /\ g.sym \in Symbols /\ g.type # "NOT"
                       /\ g.type = "SYMBOL" => g = Sym(g.sym)
                       /\ g.type # "SYMBOL" => g = Comp(g.type, g.sym, g.rsym)
  BY DEF Leafs, Sym, Comp, Relations
<1>4. \A g \in Operands \ Leafs : g.type = "NOT" /\ g.left \in Leafs
  BY DEF Operands, Not
<1>5. \A g \in {e, f} : g.type # "NOT" => g \in Leafs /\ g.sym = s
  BY <1>1, <1>4 DEF About
<1>6. s \in Symbols
  <2>1. CASE e \in Leafs
    BY <1>3, <2>1 DEF About
  <2>2. CASE e \notin Leafs
    BY <1>3, <1>4, <2>2 DEF About
  <2>3. QED
    BY <2>1, <2>2
<1>7. QED
  BY <1>1, <1>2, <1>3, <1>5, <1>6

\* the values of operands about a bool or a tristate
LEMMA ValuesAbout ==
  ASSUME KOperandAssumption, NEW env, Environment(env),
         NEW s \in Symbols, Type[s] \in {"BOOLEAN", "TRISTATE"}
  PROVE  /\ env.tri[s] \in Tristate
         /\ Type[s] = "BOOLEAN" => env.tri[s] # 1
         /\ OperandValue(env, Sym(s)) = env.tri[s]
         /\ OperandValue(env, Not(Sym(s))) = 2 - env.tri[s]
         /\ \A c \in Consts :
              /\ OperandValue(env, Comp("EQUAL", s, c)) = IF env.tri[s] = env.tri[c] THEN 2 ELSE 0
              /\ OperandValue(env, Comp("UNEQUAL", s, c)) = IF env.tri[s] = env.tri[c] THEN 0 ELSE 2
<1>1. \A t, c : Comp(t, s, c).type = t
  BY DEF Comp
<1>2. \A c \in Consts : /\ OperandValue(env, Comp("EQUAL", s, c)) = LeafValue(env, Comp("EQUAL", s, c))
                        /\ OperandValue(env, Comp("UNEQUAL", s, c)) = LeafValue(env, Comp("UNEQUAL", s, c))
  BY <1>1 DEF OperandValue
<1>3. /\ OperandValue(env, Sym(s)) = env.tri[s]
      /\ OperandValue(env, Not(Sym(s))) = 2 - env.tri[s]
  BY DEF OperandValue, LeafValue, Sym, Not
<1>4. env.tri[s] \in Tristate /\ (Type[s] = "BOOLEAN" => env.tri[s] # 1)
  BY DEF Environment
<1>5. QED
  BY <1>2, <1>3, <1>4, ComparedWithConst

\* expr_join_or: joining two different operands of an or keeps its value.
THEOREM JoinOrKeepsValue ==
  ASSUME KOperandAssumption, NEW env, Environment(env),
         NEW e \in Operands, NEW f \in Operands, e # f, Joinable(e, f),
         expr_join_or(e, f, About(e)) # Nothing
  PROVE  OperandValue(env, expr_join_or(e, f, About(e))) = Most(OperandValue(env, e), OperandValue(env, f))
<1> DEFINE s == About(e)
           v == env.tri[s]
<1>1. /\ s \in Symbols /\ Type[s] \in {"BOOLEAN", "TRISTATE"}
      /\ \A g \in {e, f} : g.type = "EQUAL" => g = Comp("EQUAL", s, g.rsym)
  BY JoinableShape
<1> HIDE DEF s
<1>2. CASE /\ Type[s] = "TRISTATE"
           /\ e.type = "EQUAL" /\ f.type = "EQUAL"
           /\ {e.rsym, f.rsym} \subseteq Consts
  <2> DEFINE c == e.rsym
             d == f.rsym
             x == Third(e, f)
  <2>1. c \in Consts /\ d \in Consts /\ c # d /\ e = Comp("EQUAL", s, c) /\ f = Comp("EQUAL", s, d)
    BY <1>1, <1>2
  <2>2. x \in Consts /\ x # c /\ x # d
    <3>1. \E a \in Consts : a \notin {e.rsym, f.rsym}
      BY DEF Consts
    <3>2. QED
      BY <3>1 DEF Third
  <2>3. expr_join_or(e, f, s) = Comp("UNEQUAL", s, x)
    BY <1>2 DEF expr_join_or
  <2> HIDE DEF c, d, x
  <2>4. /\ OperandValue(env, e) = IF v = env.tri[c] THEN 2 ELSE 0
        /\ OperandValue(env, f) = IF v = env.tri[d] THEN 2 ELSE 0
        /\ OperandValue(env, Comp("UNEQUAL", s, x)) = IF v = env.tri[x] THEN 0 ELSE 2
    BY <1>1, <2>1, <2>2, ValuesAbout
  <2>5. v \in {env.tri[c], env.tri[d], env.tri[x]}
        /\ env.tri[c] # env.tri[x] /\ env.tri[d] # env.tri[x]
    BY <1>1, <2>1, <2>2, ValuesAbout DEF Environment, Tristate, Consts
  <2>6. QED
    BY <2>3, <2>4, <2>5 DEF Most, s
<1>3. CASE ~(/\ Type[s] = "TRISTATE"
             /\ e.type = "EQUAL" /\ f.type = "EQUAL"
             /\ {e.rsym, f.rsym} \subseteq Consts)
  <2>1. Type[s] = "BOOLEAN" /\ {e, f} = {Sym(s), Not(Sym(s))} /\ expr_join_or(e, f, s) = Sym("y")
    BY <1>3 DEF expr_join_or, s
  <2>2. OperandValue(env, Sym("y")) = 2
    BY DEF OperandValue, LeafValue, Sym, Environment
  <2>3. v \in {0, 2} /\ {OperandValue(env, e), OperandValue(env, f)} = {v, 2 - v}
    <3>1. v \in {0, 2} /\ OperandValue(env, Sym(s)) = v /\ OperandValue(env, Not(Sym(s))) = 2 - v
      BY <1>1, <2>1, ValuesAbout DEF Tristate
    <3>2. QED
      BY <2>1, <3>1
  <2>4. QED
    BY <2>1, <2>2, <2>3 DEF Most, s
<1>4. QED
  BY <1>2, <1>3

\* expr_join_and: so does joining two different operands of an and.
THEOREM JoinAndKeepsValue ==
  ASSUME KOperandAssumption, NEW env, Environment(env),
         NEW e \in Operands, NEW f \in Operands, e # f, Joinable(e, f),
         expr_join_and(e, f, About(e)) # Nothing
  PROVE  OperandValue(env, expr_join_and(e, f, About(e))) = Least(OperandValue(env, e), OperandValue(env, f))
<1> DEFINE s == About(e)
           v == env.tri[s]
           value(g) == OperandValue(env, g)
           is(t, c) == {e, f} = {Sym(s), Comp(t, s, c)}
           j == expr_join_and(e, f, s)
<1>1. /\ s \in Symbols /\ Type[s] \in {"BOOLEAN", "TRISTATE"}
      /\ \A g \in {e, f} : g.type \in {"EQUAL", "UNEQUAL"} => g = Comp(g.type, s, g.rsym)
  BY JoinableShape
<1> HIDE DEF s
<1>2. /\ v \in 0..2 /\ value(Sym(s)) = v /\ value(Sym("n")) = 0
      /\ \A c \in Consts : /\ value(Comp("EQUAL", s, c)) = IF v = env.tri[c] THEN 2 ELSE 0
                           /\ value(Comp("UNEQUAL", s, c)) = IF v = env.tri[c] THEN 0 ELSE 2
  <2>1. value(Sym("n")) = 0
    BY DEF OperandValue, LeafValue, Sym, Environment
  <2>2. QED
    BY <1>1, <2>1, ValuesAbout DEF Tristate
<1>3. env.tri["n"] = 0 /\ env.tri["m"] = 1 /\ env.tri["y"] = 2 /\ Consts = {"n", "m", "y"}
  BY DEF Environment, Consts
<1>4. \A a, b \in 0..2 : {value(e), value(f)} = {a, b} => Least(value(e), value(f)) = Least(a, b)
  BY DEF Least
<1> HIDE DEF value
<1>5. CASE is("EQUAL", "y") \/ is("UNEQUAL", "m")
  <2>1. j = Comp("EQUAL", s, "y")
    BY <1>5 DEF expr_join_and
  <2>2. value(j) = IF v = 2 THEN 2 ELSE 0
    BY <1>2, <1>3, <2>1
  <2>3. \E u \in 0..2 : /\ {value(e), value(f)} = {v, u}
                        /\ v = 2 => u = 2
                        /\ v = 1 => u = 0
    <3>1. CASE is("EQUAL", "y")
      BY <1>2, <1>3, <3>1
    <3>2. CASE is("UNEQUAL", "m")
      BY <1>2, <1>3, <3>2
    <3>3. QED
      BY <1>5, <3>1, <3>2
  <2>4. QED
    BY <1>2, <1>4, <2>2, <2>3 DEF Least, s, value
<1>6. CASE ~(is("EQUAL", "y") \/ is("UNEQUAL", "m")) /\ is("UNEQUAL", "n")
  <2>1. j = Sym(s)
    BY <1>6 DEF expr_join_and
  <2>2. \E u \in 0..2 : {value(e), value(f)} = {v, u} /\ u = IF v = 0 THEN 0 ELSE 2
    BY <1>2, <1>3, <1>6
  <2>3. QED
    BY <1>2, <1>4, <2>1, <2>2 DEF Least, s, value
<1>7. CASE ~(is("EQUAL", "y") \/ is("UNEQUAL", "m") \/ is("UNEQUAL", "n"))
  <2> DEFINE c == e.rsym
             d == f.rsym
             x == Third(e, f)
  <2>1. /\ Type[s] = "TRISTATE" /\ c \in Consts /\ d \in Consts
        /\ e.type \in {"EQUAL", "UNEQUAL"} /\ f.type \in {"EQUAL", "UNEQUAL"}
        /\ ~(e.type = "EQUAL" /\ f.type = "EQUAL")
        /\ j = IF e.type = f.type THEN Comp("EQUAL", s, x)
               ELSE IF c = d THEN Sym("n")
               ELSE IF e.type = "EQUAL" THEN e ELSE f
    BY <1>7 DEF expr_join_and, s
  <2>2. e = Comp(e.type, s, c) /\ f = Comp(f.type, s, d)
    BY <1>1, <2>1
  <2> HIDE DEF c, d, x, j
  <2>3. CASE e.type = "UNEQUAL" /\ f.type = "UNEQUAL"
    <3>1. c # d
      BY <2>2, <2>3
    <3>2. x \in Consts /\ x # c /\ x # d
      <4>1. \E a \in Consts : a \notin {e.rsym, f.rsym}
        BY DEF Consts
      <4>2. QED
        BY <4>1 DEF Third, x, c, d
    <3>3. /\ value(e) = IF v = env.tri[c] THEN 0 ELSE 2
          /\ value(f) = IF v = env.tri[d] THEN 0 ELSE 2
          /\ value(j) = IF v = env.tri[x] THEN 2 ELSE 0
      BY <1>2, <2>1, <2>2, <2>3, <3>2
    <3>4. v \in {env.tri[c], env.tri[d], env.tri[x]}
          /\ env.tri[c] # env.tri[x] /\ env.tri[d] # env.tri[x]
      BY <1>2, <1>3, <2>1, <3>1, <3>2
    <3>5. QED
      BY <3>3, <3>4 DEF Least, s, value, j
  <2>4. CASE e.type = "EQUAL" /\ f.type = "UNEQUAL"
    <3>1. /\ value(e) = IF v = env.tri[c] THEN 2 ELSE 0
          /\ value(f) = IF v = env.tri[d] THEN 0 ELSE 2
      BY <1>2, <2>1, <2>2, <2>4
    <3>2. c # d => env.tri[c] # env.tri[d]
      BY <1>3, <2>1
    <3>3. value(j) = IF c = d THEN 0 ELSE value(e)
      BY <1>2, <2>1, <2>4
    <3>4. QED
      BY <3>1, <3>2, <3>3 DEF Least, s, value, j
  <2>5. CASE e.type = "UNEQUAL" /\ f.type = "EQUAL"
    <3>1. /\ value(e) = IF v = env.tri[c] THEN 0 ELSE 2
          /\ value(f) = IF v = env.tri[d] THEN 2 ELSE 0
      BY <1>2, <2>1, <2>2, <2>5
    <3>2. c # d => env.tri[c] # env.tri[d]
      BY <1>3, <2>1
    <3>3. value(j) = IF c = d THEN 0 ELSE value(f)
      BY <1>2, <2>1, <2>5
    <3>4. QED
      BY <3>1, <3>2, <3>3 DEF Least, s, value, j
  <2>6. QED
    BY <2>1, <2>3, <2>4, <2>5
<1>8. QED
  BY <1>5, <1>6, <1>7
-----------------------------------------------------------------------------
(* Whole trees.  What recurses over trees is a RECURSIVE operator in KExpr;  *)
(* here it is any function that satisfies the equation of that operator.     *)

\* X is a set of expressions of finite depth that has its parts and the trees
\* that can be made of them
Trees(X, depth) ==
  /\ \A e \in X : depth[e] \in Nat
  /\ Leafs \subseteq X
  /\ \A t \in {"AND", "OR"}, l \in X, r \in X : Two(t, l, r) \in X
  /\ \A e \in X : e.type = "NOT" => Not(e.left) = e /\ e.left \in X /\ depth[e.left] < depth[e]
  /\ \A e \in X : IsTwo(e) => /\ Two(e.type, e.left, e.right) = e
                              /\ e.left \in X /\ depth[e.left] < depth[e]
                              /\ e.right \in X /\ depth[e.right] < depth[e]
  /\ \A e \in X : e \in Leafs \/ e.type = "NOT" \/ IsTwo(e)

\* expr_calc_value on X
Valuation(env, X, V) ==
  /\ \A e \in X : V[e] \in Tristate
  /\ \A e \in X : V[e] = CASE e.type = "AND" -> Least(V[e.left], V[e.right])
                        [] e.type = "OR" -> Most(V[e.left], V[e.right])
                        [] e.type = "NOT" -> 2 - V[e.left]
                        [] OTHER -> LeafValue(env, e)

\* A set of sizes that is not empty has a least one.
LEMMA LeastOf ==
  ASSUME NEW T \in SUBSET Nat, T # {}
  PROVE  \E x \in T : \A y \in T : x <= y
<1> DEFINE R == {ss \in Nat \X Nat : ss[1] < ss[2]}
<1>1. R = OpToRel(<, Nat)
  BY DEF OpToRel
<1>2. IsWellFoundedOn(R, Nat)
  BY <1>1, NatLessThanWellFounded
<1>3. PICK x \in T : \A y \in T : ~(<<y, x>> \in R)
  <2> HIDE DEF R
  <2>1. QED
    BY <1>2, WFMin
<1>4. \A y \in T : ~(y < x)
  BY <1>3
<1>5. QED
  BY <1>4

\* Induction over trees by what is smaller than each, for any size that is a number.
LEMMA SizeInduction ==
  ASSUME NEW X, NEW size, \A e \in X : size[e] \in Nat, NEW S,
         \A e \in X : (\A g \in X : size[g] < size[e] => g \in S) => e \in S
  PROVE  X \subseteq S
<1> DEFINE Bad == {e \in X : e \notin S}
           T == {size[e] : e \in Bad}
<1>1. SUFFICES ASSUME Bad # {} PROVE FALSE
  OBVIOUS
<1>2. T \in SUBSET Nat /\ T # {}
  BY <1>1
<1>3. PICK n \in T : \A k \in T : n <= k
  <2> HIDE DEF T
  <2>1. QED
    BY <1>2, LeastOf
<1>4. PICK e \in Bad : size[e] = n
  OBVIOUS
<1>5. \A g \in X : size[g] < size[e] => g \in S
  <2> SUFFICES ASSUME NEW g \in X, size[g] < size[e], g \notin S PROVE FALSE
    OBVIOUS
  <2>1. size[g] \in Nat /\ size[e] \in Nat /\ size[g] \in T
    OBVIOUS
  <2> HIDE DEF T
  <2>2. QED
    BY <1>3, <1>4, <2>1
<1>6. e \in S
  BY <1>5
<1>7. QED
  BY <1>6

\* Induction over trees: a set that has every tree whose parts it has is X.
LEMMA TreeInduction ==
  ASSUME NEW X, NEW depth, Trees(X, depth), NEW S,
         \A e \in X : (/\ e.type = "NOT" => e.left \in S
                       /\ IsTwo(e) => e.left \in S /\ e.right \in S)
                     => e \in S
  PROVE  X \subseteq S
<1>1. \A e \in X : depth[e] \in Nat
  BY DEF Trees
<1>2. \A e \in X : (\A g \in X : depth[g] < depth[e] => g \in S) => e \in S
  BY DEF Trees
<1>3. QED
  BY <1>1, <1>2, SizeInduction

\* what the equations of expr_calc_value say of constants and of new trees
LEMMA ValueOfTwo ==
  ASSUME KOperandAssumption, NEW env, Environment(env),
         NEW X, NEW depth, Trees(X, depth), NEW V, Valuation(env, X, V)
  PROVE  /\ Sym("n") \in X /\ V[Sym("n")] = 0 /\ ~IsTwo(Sym("n"))
         /\ Sym("y") \in X /\ V[Sym("y")] = 2 /\ ~IsTwo(Sym("y"))
         /\ \A l \in X, r \in X :
              /\ Two("AND", l, r) \in X /\ V[Two("AND", l, r)] = Least(V[l], V[r])
              /\ Two("OR", l, r) \in X /\ V[Two("OR", l, r)] = Most(V[l], V[r])
<1> DEFINE n == Sym("n")
           y == Sym("y")
<1>1. n \in X /\ y \in X /\ V[n] = 0 /\ V[y] = 2 /\ ~IsTwo(n) /\ ~IsTwo(y)
  <2>1. n \in X /\ y \in X
    BY DEF Trees, Leafs, KOperandAssumption, Consts
  <2>2. n.type = "SYMBOL" /\ y.type = "SYMBOL" /\ n.sym = "n" /\ y.sym = "y"
    BY DEF Sym
  <2>3. V[n] = LeafValue(env, n) /\ V[y] = LeafValue(env, y)
    BY <2>1, <2>2 DEF Valuation
  <2>4. QED
    BY <2>1, <2>2, <2>3 DEF LeafValue, Environment, IsTwo
<1>2. \A l \in X, r \in X :
        /\ Two("AND", l, r) \in X /\ V[Two("AND", l, r)] = Least(V[l], V[r])
        /\ Two("OR", l, r) \in X /\ V[Two("OR", l, r)] = Most(V[l], V[r])
  <2> TAKE l \in X, r \in X
  <2>1. ASSUME NEW t \in {"AND", "OR"}
        PROVE  LET g == Two(t, l, r)
               IN  g \in X /\ g.type = t /\ g.left = l /\ g.right = r
    BY DEF Trees, Two
  <2>2. V[Two("AND", l, r)] = Least(V[l], V[r])
    BY <2>1 DEF Valuation
  <2>3. V[Two("OR", l, r)] = Most(V[l], V[r])
    BY <2>1 DEF Valuation
  <2>4. QED
    BY <2>1, <2>2, <2>3
<1>3. QED
  BY <1>1, <1>2

\* C has every tree that neither n nor y is an operand in
Clean(X, C) == \A e \in X : (IsTwo(e) => /\ e.left \in C \ {Sym("n"), Sym("y")}
                                         /\ e.right \in C \ {Sym("n"), Sym("y")})
                             => e \in C

\* expr_eliminate_yn keeps the value of every tree, and leaves no n and no y
\* as an operand anywhere in it.
THEOREM EliminateYnKeepsValue ==
  ASSUME KOperandAssumption, NEW env, Environment(env),
         NEW X, NEW depth, Trees(X, depth), NEW V, Valuation(env, X, V),
         NEW C, Clean(X, C),
         NEW F, \A e \in X : F[e] = IF ~IsTwo(e) THEN e ELSE Reduced(e.type, F[e.left], F[e.right])
  PROVE  \A e \in X : F[e] \in X /\ V[F[e]] = V[e] /\ F[e] \in C
<1> DEFINE S == {e \in X : F[e] \in X /\ V[F[e]] = V[e] /\ F[e] \in C}
           n == Sym("n")
           y == Sym("y")
<1>1. n \in X /\ y \in X /\ V[n] = 0 /\ V[y] = 2 /\ ~IsTwo(n) /\ ~IsTwo(y)
  BY ValueOfTwo
<1>2. \A l \in X, r \in X :
        /\ Two("AND", l, r) \in X /\ V[Two("AND", l, r)] = Least(V[l], V[r])
        /\ Two("OR", l, r) \in X /\ V[Two("OR", l, r)] = Most(V[l], V[r])
  BY ValueOfTwo
<1>3. \A e \in X : ~IsTwo(e) => e \in S
  BY DEF Clean
<1>4. ASSUME NEW e \in X, IsTwo(e), e.left \in S, e.right \in S
      PROVE  e \in S
  <2> DEFINE l == F[e.left]
             r == F[e.right]
             a == V[l]
             b == V[r]
             g == Reduced(e.type, l, r)
  <2>1. F[e] = g
    BY <1>4
  <2>2. l \in X /\ r \in X /\ l \in C /\ r \in C /\ a = V[e.left] /\ b = V[e.right]
    BY <1>4
  <2>3. a \in 0..2 /\ b \in 0..2
    BY <2>2 DEF Valuation, Tristate
  <2>4. V[e] = IF e.type = "OR" THEN Most(a, b) ELSE Least(a, b)
    BY <1>4, <2>2 DEF Valuation, IsTwo
  <2>5. n \in C /\ y \in C
    BY <1>1 DEF Clean
  <2> HIDE DEF l, r
  <2>6. g \in X /\ V[g] = V[e] /\ g \in C
    <3>1. CASE e.type = "OR"
      <4>1. g = IF y \in {l, r} THEN y ELSE IF l = n THEN r ELSE IF r = n THEN l ELSE Two("OR", l, r)
        BY <3>1 DEF Reduced, Unit
      <4>2. CASE y \in {l, r}
        BY <1>1, <2>3, <2>4, <2>5, <3>1, <4>1, <4>2 DEF Most
      <4>3. CASE y \notin {l, r} /\ n \in {l, r}
        BY <1>1, <2>2, <2>3, <2>4, <3>1, <4>1, <4>3 DEF Most
      <4>4. CASE y \notin {l, r} /\ n \notin {l, r}
        <5>1. g = Two("OR", l, r) /\ g \in X /\ V[g] = Most(a, b)
          BY <1>2, <2>2, <4>1, <4>4
        <5>2. g.left = l /\ g.right = r
          BY <5>1 DEF Two
        <5>3. QED
          BY <2>2, <2>4, <3>1, <4>4, <5>1, <5>2 DEF Clean
      <4>5. QED
        BY <4>2, <4>3, <4>4
    <3>2. CASE e.type = "AND"
      <4>1. g = IF n \in {l, r} THEN n ELSE IF l = y THEN r ELSE IF r = y THEN l ELSE Two("AND", l, r)
        BY <3>2 DEF Reduced, Unit
      <4>2. CASE n \in {l, r}
        BY <1>1, <2>3, <2>4, <2>5, <3>2, <4>1, <4>2 DEF Least
      <4>3. CASE n \notin {l, r} /\ y \in {l, r}
        BY <1>1, <2>2, <2>3, <2>4, <3>2, <4>1, <4>3 DEF Least
      <4>4. CASE n \notin {l, r} /\ y \notin {l, r}
        <5>1. g = Two("AND", l, r) /\ g \in X /\ V[g] = Least(a, b)
          BY <1>2, <2>2, <4>1, <4>4
        <5>2. g.left = l /\ g.right = r
          BY <5>1 DEF Two
        <5>3. QED
          BY <2>2, <2>4, <3>2, <4>4, <5>1, <5>2 DEF Clean
      <4>5. QED
        BY <4>2, <4>3, <4>4
    <3>3. QED
      BY <1>4, <3>1, <3>2 DEF IsTwo
  <2>7. QED
    BY <2>1, <2>6
<1>5. X \subseteq S
  <2> HIDE DEF S
  <2>1. \A e \in X : (/\ e.type = "NOT" => e.left \in S
                      /\ IsTwo(e) => e.left \in S /\ e.right \in S)
                     => e \in S
    BY <1>3, <1>4
  <2>2. QED
    BY <2>1, TreeInduction
<1>6. QED
  BY <1>5

\* the trees in which only symbols are negated
NegatesSymbols(X, P) ==
  /\ P \subseteq X
  /\ \A e \in X : e \in P <=> /\ e.type = "NOT" => e.left.type = "SYMBOL"
                              /\ IsTwo(e) => e.left \in P /\ e.right \in P

\* The size expr_transform does not increase: a negation counts twice what it
\* has to be moved into.
Weighted(X, w) ==
  /\ \A e \in Leafs : w[e] = IF e.type = "SYMBOL" THEN 0 ELSE 1
  /\ \A e \in X : Not(e) \in X /\ w[Not(e)] = 2 * w[e] + 1
  /\ \A t \in {"AND", "OR"}, l \in X, r \in X : w[Two(t, l, r)] = Most(w[l], w[r]) + 1

\* expr_transform on X
Transforms(X, F) ==
  \A e \in X :
    F[e] = CASE e.type = "SYMBOL" -> e
             [] IsComp(e) -> TransformComp(e)
             [] IsTwo(e) -> Two(e.type, F[e.left], F[e.right])
             [] e.type = "NOT" ->
                  LET l == F[e.left]
                  IN  CASE l.type = "NOT" -> F[l.left]
                        [] IsComp(l) -> Comp(Opposite(l.type), l.sym, l.rsym)
                        [] IsTwo(l) -> F[Two(IF l.type = "OR" THEN "AND" ELSE "OR",
                                             Not(l.left), Not(l.right))]
                        [] l = Sym("y") -> Sym("n")
                        [] l = Sym("n") -> Sym("y")
                        [] l = Sym("m") -> l
                        [] OTHER -> Not(l)

\* the leaves in X, and what a negation is there
LEMMA LeafsAndNots ==
  ASSUME NEW env, NEW X, NEW w, Trees(X, w), Weighted(X, w), NEW V, Valuation(env, X, V),
         NEW P, NegatesSymbols(X, P)
  PROVE  /\ \A e \in Leafs : /\ e \in X /\ e \in P /\ V[e] = LeafValue(env, e)
                             /\ e.type # "NOT" /\ ~IsTwo(e) /\ (IsComp(e) <=> e.type # "SYMBOL")
                             /\ w[e] = IF e.type = "SYMBOL" THEN 0 ELSE 1
         /\ \A e \in X : /\ Not(e) \in X /\ Not(e).type = "NOT" /\ Not(e).left = e /\ ~IsTwo(Not(e))
                         /\ V[Not(e)] = 2 - V[e] /\ w[Not(e)] = 2 * w[e] + 1
                         /\ e.type = "SYMBOL" => Not(e) \in P
         /\ \A e \in X : V[e] \in 0..2 /\ w[e] \in Nat
<1>1. ASSUME NEW e \in Leafs
      PROVE  /\ e \in X /\ e \in P /\ V[e] = LeafValue(env, e)
             /\ e.type # "NOT" /\ ~IsTwo(e) /\ (IsComp(e) <=> e.type # "SYMBOL")
             /\ w[e] = IF e.type = "SYMBOL" THEN 0 ELSE 1
  <2>1. e \in X /\ w[e] = IF e.type = "SYMBOL" THEN 0 ELSE 1
    BY DEF Trees, Weighted
  <2>2. e.type = "SYMBOL" \/ e.type \in Relations
    BY DEF Leafs, Sym, Comp
  <2>3. e.type # "NOT" /\ ~IsTwo(e) /\ (IsComp(e) <=> e.type # "SYMBOL")
    BY <2>2 DEF IsTwo, IsComp, Relations
  <2>4. V[e] = LeafValue(env, e)
    BY <2>1, <2>3 DEF Valuation, IsTwo
  <2>5. QED
    BY <2>1, <2>3, <2>4 DEF NegatesSymbols
<1>2. ASSUME NEW e \in X
      PROVE  /\ Not(e) \in X /\ Not(e).type = "NOT" /\ Not(e).left = e /\ ~IsTwo(Not(e))
             /\ V[Not(e)] = 2 - V[e] /\ w[Not(e)] = 2 * w[e] + 1
             /\ e.type = "SYMBOL" => Not(e) \in P
  <2>1. Not(e) \in X /\ w[Not(e)] = 2 * w[e] + 1
    BY DEF Weighted
  <2>2. Not(e).type = "NOT" /\ Not(e).left = e /\ ~IsTwo(Not(e))
    BY DEF Not, IsTwo
  <2>3. V[Not(e)] = 2 - V[e]
    BY <2>1, <2>2 DEF Valuation
  <2>4. e.type = "SYMBOL" => Not(e) \in P
    BY <2>1, <2>2 DEF NegatesSymbols
  <2>5. QED
    BY <2>1, <2>2, <2>3, <2>4
<1>3. \A e \in X : V[e] \in 0..2 /\ w[e] \in Nat
  BY DEF Valuation, Tristate, Trees
<1>4. QED
  BY <1>1, <1>2, <1>3

\* expr_transform keeps the value of every tree, and what it makes negates
\* symbols only.
THEOREM TransformTreeKeepsValue ==
  ASSUME KOperandAssumption, NEW env, Environment(env),
         NEW X, NEW w, Trees(X, w), Weighted(X, w), NEW V, Valuation(env, X, V),
         NEW P, NegatesSymbols(X, P), NEW F, Transforms(X, F)
  PROVE  \A e \in X : F[e] \in P /\ V[F[e]] = V[e] /\ w[F[e]] =< w[e]
<1> DEFINE S == {e \in X : F[e] \in P /\ V[F[e]] = V[e] /\ w[F[e]] =< w[e]}
<1>1. /\ \A e \in Leafs : /\ e \in X /\ e \in P /\ V[e] = LeafValue(env, e)
                          /\ e.type # "NOT" /\ ~IsTwo(e) /\ (IsComp(e) <=> e.type # "SYMBOL")
                          /\ w[e] = IF e.type = "SYMBOL" THEN 0 ELSE 1
      /\ \A e \in X : /\ Not(e) \in X /\ Not(e).type = "NOT" /\ Not(e).left = e /\ ~IsTwo(Not(e))
                      /\ V[Not(e)] = 2 - V[e] /\ w[Not(e)] = 2 * w[e] + 1
                      /\ e.type = "SYMBOL" => Not(e) \in P
      /\ \A e \in X : V[e] \in 0..2 /\ w[e] \in Nat
  BY LeafsAndNots
<1>2. \A t \in {"AND", "OR"}, l \in X, r \in X :
        LET g == Two(t, l, r)
        IN  /\ g \in X /\ g.type = t /\ g.left = l /\ g.right = r /\ IsTwo(g)
            /\ V[g] = IF t = "AND" THEN Least(V[l], V[r]) ELSE Most(V[l], V[r])
            /\ w[g] = Most(w[l], w[r]) + 1
            /\ l \in P /\ r \in P => g \in P
  <2> TAKE t \in {"AND", "OR"}, l \in X, r \in X
  <2> DEFINE g == Two(t, l, r)
  <2>1. g \in X /\ g.type = t /\ g.left = l /\ g.right = r /\ IsTwo(g)
    BY DEF Two, IsTwo, Trees
  <2>2. V[g] = IF t = "AND" THEN Least(V[l], V[r]) ELSE Most(V[l], V[r])
    BY ValueOfTwo
  <2>3. w[g] = Most(w[l], w[r]) + 1
    BY DEF Weighted
  <2>4. l \in P /\ r \in P => g \in P
    BY <2>1 DEF NegatesSymbols
  <2>5. QED
    BY <2>1, <2>2, <2>3, <2>4
<1>3. \A e \in X : e.type = "SYMBOL" => e \in Leafs /\ F[e] = e /\ e \in S
  <2> SUFFICES ASSUME NEW e \in X, e.type = "SYMBOL" PROVE e \in Leafs /\ F[e] = e /\ e \in S
    OBVIOUS
  <2>1. e \in Leafs
    BY DEF Trees, IsTwo
  <2>2. F[e] = e
    BY DEF Transforms, IsComp, IsTwo, Relations
  <2>3. QED
    BY <1>1, <2>1, <2>2
<1>4. \A e \in X : IsComp(e) => e \in S
  <2> SUFFICES ASSUME NEW e \in X, IsComp(e) PROVE e \in S
    OBVIOUS
  <2>1. e \in Leafs /\ e.type \in Relations /\ e.type # "SYMBOL"
    BY DEF Trees, IsTwo, IsComp, Relations
  <2>2. PICK t \in Relations, s \in Symbols, r \in Symbols : e = Comp(t, s, r)
    BY <2>1 DEF Leafs, Sym
  <2>3. F[e] = TransformComp(e)
    BY <2>1 DEF Transforms, IsComp, IsTwo, Relations
  <2>4. OperandValue(env, F[e]) = V[e]
    BY <1>1, <2>1, <2>2, <2>3, TransformKeepsValue
  <2>5. F[e] \in Leafs \/ \E c \in Symbols : F[e] = Not(Sym(c))
    <3>1. Sym("n") \in Leafs /\ Sym("y") \in Leafs /\ Sym(s) \in Leafs
      BY DEF Leafs, KOperandAssumption, Consts
    <3>2. e.sym = s
      BY <2>2 DEF Comp
    <3>3. QED
      BY <2>1, <2>3, <3>1, <3>2 DEF TransformComp
  <2>6. CASE F[e] \in Leafs
    <3>1. F[e] \in P /\ V[F[e]] = V[e]
      <4>1. OperandValue(env, F[e]) = LeafValue(env, F[e])
        BY <1>1, <2>6 DEF OperandValue
      <4>2. QED
        BY <1>1, <2>4, <2>6, <4>1
    <3>2. w[F[e]] \in {0, 1} /\ w[e] = 1
      BY <1>1, <2>1, <2>6
    <3>3. QED
      BY <3>1, <3>2
  <2>7. ASSUME NEW c \in Symbols, F[e] = Not(Sym(c)) PROVE e \in S
    <3>1. Sym(c) \in Leafs /\ Sym(c).type = "SYMBOL"
      BY DEF Leafs, Sym
    <3>2. OperandValue(env, F[e]) = 2 - LeafValue(env, Sym(c))
      BY <2>7 DEF OperandValue, Not
    <3>3. w[e] = 1 /\ w[Sym(c)] = 0 /\ w[F[e]] = 2 * 0 + 1
      BY <1>1, <2>1, <2>7, <3>1
    <3>4. F[e] \in P /\ V[F[e]] = V[e]
      BY <1>1, <2>4, <2>7, <3>1, <3>2
    <3>5. QED
      BY <3>3, <3>4
  <2>8. QED
    BY <2>5, <2>6, <2>7
<1>5. ASSUME NEW e \in X, IsTwo(e), e.left \in S, e.right \in S
      PROVE  e \in S
  <2> DEFINE l == F[e.left]
             r == F[e.right]
  <2>1. e.type \in {"AND", "OR"} /\ e.left \in X /\ e.right \in X /\ e = Two(e.type, e.left, e.right)
    BY <1>5 DEF IsTwo, Trees
  <2>2. F[e] = Two(e.type, l, r)
    BY <1>5, <2>1 DEF Transforms, IsTwo, IsComp, Relations
  <2>3. /\ l \in P /\ r \in P /\ l \in X /\ r \in X
        /\ V[l] = V[e.left] /\ V[r] = V[e.right]
        /\ w[l] =< w[e.left] /\ w[r] =< w[e.right]
    BY <1>5 DEF NegatesSymbols
  <2> HIDE DEF l, r
  <2>4. F[e] \in P /\ V[F[e]] = V[e]
    BY <1>2, <2>1, <2>2, <2>3
  <2>5. w[F[e]] = Most(w[l], w[r]) + 1 /\ w[e] = Most(w[e.left], w[e.right]) + 1
    BY <1>2, <2>1, <2>2, <2>3
  <2>6. w[F[e]] =< w[e]
    BY <1>1, <2>1, <2>3, <2>5 DEF Most
  <2>7. QED
    BY <2>4, <2>6
<1>6. ASSUME NEW e \in X, e.type = "NOT", \A g \in X : w[g] < w[e] => g \in S
      PROVE  e \in S
  <2> DEFINE l == F[e.left]
             turned == Two(IF l.type = "OR" THEN "AND" ELSE "OR", Not(l.left), Not(l.right))
  <2>1. e.left \in X /\ e = Not(e.left) /\ V[e] = 2 - V[e.left] /\ w[e] = 2 * w[e.left] + 1
    <3>1. e.left \in X /\ e = Not(e.left)
      BY <1>6 DEF Trees
    <3>2. QED
      BY <1>1, <3>1
  <2>2. w[e.left] \in Nat /\ w[e.left] < w[e]
    BY <1>1, <2>1
  <2>3. l \in P /\ l \in X /\ V[l] = V[e.left] /\ w[l] =< w[e.left] /\ w[l] \in Nat
    <3>1. e.left \in S
      BY <1>6, <2>1, <2>2
    <3>2. QED
      BY <1>1, <3>1 DEF NegatesSymbols
  <2>4. F[e] = CASE l.type = "NOT" -> F[l.left]
                 [] IsComp(l) -> Comp(Opposite(l.type), l.sym, l.rsym)
                 [] IsTwo(l) -> F[turned]
                 [] l = Sym("y") -> Sym("n")
                 [] l = Sym("n") -> Sym("y")
                 [] l = Sym("m") -> l
                 [] OTHER -> Not(l)
    BY <1>6 DEF Transforms, IsComp, IsTwo, Relations
  <2> HIDE DEF l
  <2>5. CASE l.type = "NOT"
    <3>1. l.left \in X /\ l.left.type = "SYMBOL" /\ l = Not(l.left)
      BY <2>3, <2>5 DEF NegatesSymbols, Trees
    <3>2. F[e] = F[l.left]
      BY <2>4, <2>5 DEF IsComp, IsTwo, Relations, Sym
    <3>3. l.left \in Leafs /\ F[l.left] = l.left
      BY <1>3, <3>1
    <3>4. V[l] = 2 - V[l.left] /\ w[l.left] = 0 /\ l.left \in P /\ V[l.left] \in 0..2
      BY <1>1, <3>1, <3>3
    <3>5. F[e] \in P /\ V[F[e]] = V[e]
      BY <2>1, <2>3, <3>2, <3>3, <3>4
    <3>6. w[F[e]] = 0 /\ w[e] \in Nat
      BY <2>1, <2>2, <3>2, <3>3, <3>4
    <3>7. QED
      BY <3>5, <3>6
  <2>6. CASE IsComp(l)
    <3>1. l.type # "NOT" /\ l \in Leafs /\ l.type \in Relations /\ l.type # "SYMBOL"
      BY <2>3, <2>6 DEF Trees, IsComp, IsTwo, Relations
    <3>2. PICK t \in Relations, s \in Symbols, r \in Symbols : l = Comp(t, s, r)
      BY <3>1 DEF Leafs, Sym
    <3>3. F[e] = Comp(Opposite(t), s, r)
      <4>1. l.type = t /\ l.sym = s /\ l.rsym = r
        BY <3>2 DEF Comp
      <4>2. QED
        BY <2>4, <2>6, <3>1, <4>1 DEF IsComp, IsTwo, Relations, Sym
    <3>4. F[e] \in Leafs /\ F[e].type # "SYMBOL"
      <4>1. Opposite(t) \in Relations
        BY DEF Opposite, Relations
      <4>2. QED
        BY <3>3, <4>1 DEF Leafs, Comp, Relations
    <3>5. LeafValue(env, F[e]) = 2 - LeafValue(env, l)
      <4>1. OperandValue(env, Not(l)) = 2 - LeafValue(env, l)
        BY DEF OperandValue, Not
      <4>2. QED
        BY <3>2, <3>3, <4>1, OppositeNegates
    <3>6. V[F[e]] = V[e] /\ F[e] \in P /\ w[F[e]] = 1
      BY <1>1, <2>1, <2>3, <3>1, <3>4, <3>5
    <3>7. QED
      BY <2>1, <2>2, <3>6
  <2>7. CASE IsTwo(l)
    <3>1. /\ l.type \in {"AND", "OR"} /\ l.left \in X /\ l.right \in X
          /\ l = Two(l.type, l.left, l.right)
      BY <2>3, <2>7 DEF IsTwo, Trees
    <3>2. F[e] = F[turned]
      BY <2>4, <2>7, <3>1 DEF IsTwo, IsComp, Relations, Sym
    <3>3. /\ Not(l.left) \in X /\ Not(l.right) \in X
          /\ V[Not(l.left)] = 2 - V[l.left] /\ V[Not(l.right)] = 2 - V[l.right]
          /\ w[Not(l.left)] = 2 * w[l.left] + 1 /\ w[Not(l.right)] = 2 * w[l.right] + 1
          /\ w[l.left] \in Nat /\ w[l.right] \in Nat
          /\ V[l.left] \in 0..2 /\ V[l.right] \in 0..2
      BY <1>1, <3>1
    <3>4. /\ w[l] = Most(w[l.left], w[l.right]) + 1
          /\ V[l] = IF l.type = "AND" THEN Least(V[l.left], V[l.right]) ELSE Most(V[l.left], V[l.right])
      BY <1>2, <3>1
    <3>5. /\ turned \in X
          /\ w[turned] = Most(2 * w[l.left] + 1, 2 * w[l.right] + 1) + 1
          /\ V[turned] = IF l.type = "OR" THEN Least(2 - V[l.left], 2 - V[l.right])
                         ELSE Most(2 - V[l.left], 2 - V[l.right])
      <4>1. CASE l.type = "OR"
        BY <1>2, <3>3, <4>1
      <4>2. CASE l.type = "AND"
        BY <1>2, <3>3, <4>2
      <4>3. QED
        BY <3>1, <4>1, <4>2
    <3>6. V[turned] = 2 - V[l]
      BY <3>1, <3>3, <3>4, <3>5 DEF Least, Most
    <3>7. w[turned] < w[e] /\ w[turned] \in Nat
      BY <2>1, <2>2, <2>3, <3>3, <3>4, <3>5 DEF Most
    <3>8. turned \in S
      BY <1>6, <3>5, <3>7
    <3>9. F[e] \in P /\ V[F[e]] = V[e] /\ w[F[e]] =< w[turned] /\ w[F[e]] \in Nat
      <4>1. F[turned] \in P /\ V[F[turned]] = V[turned] /\ w[F[turned]] =< w[turned]
        BY <3>8
      <4>2. F[turned] \in X
        BY <4>1 DEF NegatesSymbols
      <4> HIDE DEF turned
      <4>3. QED
        BY <1>1, <2>1, <2>3, <3>2, <3>6, <4>1, <4>2
    <3>10. w[F[e]] =< w[e]
      BY <2>1, <2>2, <3>7, <3>9
    <3>11. QED
      BY <3>9, <3>10
  <2>8. CASE l.type = "SYMBOL"
    <3>1. l \in Leafs /\ ~IsComp(l) /\ ~IsTwo(l) /\ V[l] = env.tri[l.sym] /\ w[l] = 0
      BY <1>1, <1>3, <2>3, <2>8 DEF LeafValue
    <3>2. /\ Sym("n") \in Leafs /\ Sym("y") \in Leafs /\ Sym("m") \in Leafs
          /\ V[Sym("n")] = 0 /\ V[Sym("m")] = 1 /\ V[Sym("y")] = 2
      <4>1. /\ Sym("n") \in Leafs /\ Sym("y") \in Leafs /\ Sym("m") \in Leafs
        BY DEF Leafs, KOperandAssumption, Consts
      <4>2. \A c \in Consts : LeafValue(env, Sym(c)) = env.tri[c]
        BY DEF LeafValue, Sym
      <4>3. QED
        BY <1>1, <4>1, <4>2 DEF Consts, Environment
    <3>3. \A c : Sym(c).type = "SYMBOL"
      BY DEF Sym
    <3>4. F[e] = IF l = Sym("y") THEN Sym("n") ELSE IF l = Sym("n") THEN Sym("y")
                 ELSE IF l = Sym("m") THEN l ELSE Not(l)
      <4>1. Sym("y") # Sym("n") /\ Sym("y") # Sym("m") /\ Sym("n") # Sym("m")
        BY <3>2
      <4>2. QED
        BY <2>4, <2>8, <3>1, <4>1
    <3>5. CASE l \in {Sym("y"), Sym("n"), Sym("m")}
      <4>1. F[e] \in Leafs /\ F[e].type = "SYMBOL" /\ V[F[e]] = 2 - V[l]
        BY <3>2, <3>3, <3>4, <3>5
      <4>2. QED
        BY <1>1, <2>1, <2>2, <2>3, <4>1
    <3>6. CASE l \notin {Sym("y"), Sym("n"), Sym("m")}
      <4>1. F[e] = Not(l)
        BY <3>4, <3>6
      <4>2. F[e] \in P /\ V[F[e]] = 2 - V[l] /\ w[F[e]] = 1
        BY <1>1, <2>3, <2>8, <3>1, <4>1
      <4>3. QED
        BY <2>1, <2>2, <2>3, <4>2
    <3>7. QED
      BY <3>5, <3>6
  <2>9. QED
    <3>1. l.type = "NOT" \/ IsTwo(l) \/ l \in Leafs
      BY <2>3 DEF Trees
    <3>2. l \in Leafs => IsComp(l) \/ l.type = "SYMBOL"
      BY <1>1
    <3>3. QED
      BY <2>5, <2>6, <2>7, <2>8, <3>1, <3>2
<1>7. X \subseteq S
  <2>1. \A e \in X : (\A g \in X : w[g] < w[e] => g \in S) => e \in S
    <3> SUFFICES ASSUME NEW e \in X, \A g \in X : w[g] < w[e] => g \in S PROVE e \in S
      OBVIOUS
    <3> HIDE DEF S
    <3>1. e \in Leafs => e.type = "SYMBOL" \/ IsComp(e)
      BY <1>1
    <3>2. IsTwo(e) => e.left \in S /\ e.right \in S
      BY DEF Trees
    <3>3. QED
      BY <1>3, <1>4, <1>5, <1>6, <3>1, <3>2 DEF Trees
  <2>2. \A e \in X : w[e] \in Nat
    BY DEF Trees
  <2> HIDE DEF S
  <2>3. QED
    BY <2>1, <2>2, SizeInduction
<1>8. QED
  BY <1>7

\* expr_trans_bool on X
TransBool(X, F) ==
  \A e \in X : F[e] = IF IsTwo(e) THEN Two(e.type, F[e.left], F[e.right])
                      ELSE IF e.type = "NOT" THEN Not(F[e.left])
                      ELSE BoolOperand(e)

\* expr_trans_bool keeps whether a tree is n, when only symbols are negated, as
\* expr_transform leaves it: !(A != n) with A = m is n, and !A is not.
THEOREM TransBoolAgrees ==
  ASSUME KOperandAssumption, NEW env, Environment(env),
         NEW X, NEW depth, Trees(X, depth), NEW V, Valuation(env, X, V),
         NEW F, TransBool(X, F), NEW P, NegatesSymbols(X, P)
  PROVE  \A e \in P : F[e] \in X /\ (V[F[e]] = 0 <=> V[e] = 0)
<1> DEFINE S == {e \in X : e \in P => F[e] \in X /\ (V[F[e]] = 0 <=> V[e] = 0)}
<1> USE DEF NegatesSymbols, TransBool
<1>1. \A e \in X : V[e] \in 0..2
  BY DEF Valuation, Tristate
<1>2. ASSUME NEW e \in P, IsTwo(e), e.left \in S, e.right \in S
      PROVE  F[e] \in X /\ (V[F[e]] = 0 <=> V[e] = 0)
  <2> DEFINE l == F[e.left]
             r == F[e.right]
  <2>1. F[e] = Two(e.type, l, r)
    BY <1>2
  <2>2. /\ l \in X /\ r \in X /\ e.left \in X /\ e.right \in X
        /\ V[l] = 0 <=> V[e.left] = 0
        /\ V[r] = 0 <=> V[e.right] = 0
    BY <1>2
  <2>3. /\ V[l] \in 0..2 /\ V[r] \in 0..2 /\ V[e.left] \in 0..2 /\ V[e.right] \in 0..2
    BY <1>1, <2>2
  <2> HIDE DEF l, r
  <2>4. CASE e.type = "AND"
    <3>1. V[F[e]] = Least(V[l], V[r]) /\ F[e] \in X
      BY <2>1, <2>2, <2>4, ValueOfTwo
    <3>2. V[e] = Least(V[e.left], V[e.right])
      BY <2>4 DEF Valuation
    <3>3. QED
      BY <2>2, <2>3, <3>1, <3>2 DEF Least
  <2>5. CASE e.type = "OR"
    <3>1. V[F[e]] = Most(V[l], V[r]) /\ F[e] \in X
      BY <2>1, <2>2, <2>5, ValueOfTwo
    <3>2. V[e] = Most(V[e.left], V[e.right])
      BY <2>5 DEF Valuation
    <3>3. QED
      BY <2>2, <2>3, <3>1, <3>2 DEF Most
  <2>6. QED
    BY <1>2, <2>4, <2>5 DEF IsTwo
<1>3. ASSUME NEW e \in P, e.type = "NOT"
      PROVE  F[e] = e
  <2>1. e.left \in X /\ e.left.type = "SYMBOL" /\ Not(e.left) = e
    BY <1>3 DEF Trees
  <2>2. F[e.left] = e.left
    BY <2>1 DEF IsTwo, BoolOperand
  <2>3. QED
    BY <1>3, <2>1, <2>2 DEF IsTwo
<1>4. ASSUME NEW e \in P, ~IsTwo(e), e.type # "NOT"
      PROVE  F[e] \in X /\ (V[F[e]] = 0 <=> V[e] = 0)
  <2>1. e \in Leafs /\ F[e] = BoolOperand(e)
    BY <1>4 DEF Trees
  <2>2. BoolOperand(e) \in Leafs
    BY <2>1 DEF BoolOperand, Leafs, Sym, Comp
  <2>3. \A g \in Leafs : g \in X /\ V[g] = LeafValue(env, g)
    <3> TAKE g \in Leafs
    <3>1. g \in X /\ g.type \notin {"AND", "OR", "NOT"}
      BY DEF Trees, Leafs, Sym, Comp, Relations
    <3>2. QED
      BY <3>1 DEF Valuation
  <2>4. QED
    BY <2>1, <2>2, <2>3, BoolOperandAgrees
<1>5. X \subseteq S
  <2>1. \A e \in X : (/\ e.type = "NOT" => e.left \in S
                      /\ IsTwo(e) => e.left \in S /\ e.right \in S)
                     => e \in S
    BY <1>2, <1>3, <1>4
  <2> HIDE DEF S
  <2>2. QED
    BY <2>1, TreeInduction
<1>6. QED
  BY <1>5

\* rewrite_m on X
RewritesM(X, modules, F) ==
  \A e \in X : F[e] = IF e.type = "NOT" THEN Not(F[e.left])
                      ELSE IF IsTwo(e) THEN Two(e.type, F[e.left], F[e.right])
                      ELSE IF e = Sym("m") THEN expr_alloc_and(e, Sym(modules))
                      ELSE e

\* the values that trees have where a lone m is worth no more than MODULES
BoundedValuation(env, modules, X, U) ==
  /\ U \in [X -> Tristate]
  /\ \A e \in X : U[e] = IF e.type = "AND" THEN Least(U[e.left], U[e.right])
                         ELSE IF e.type = "OR" THEN Most(U[e.left], U[e.right])
                         ELSE IF e.type = "NOT" THEN 2 - U[e.left]
                         ELSE IF e = Sym("m") THEN Least(1, env.tri[modules])
                         ELSE LeafValue(env, e)

\* rewrite_m: an m is n without modules, and what it was with them, wherever it
\* stands in a tree, also below a negation.
THEOREM RewriteMBounds ==
  ASSUME KOperandAssumption, NEW env, Environment(env), NEW modules \in Symbols,
         NEW X, NEW depth, Trees(X, depth), \A e \in X : Not(e) \in X,
         NEW V, Valuation(env, X, V), NEW U, BoundedValuation(env, modules, X, U),
         NEW F, RewritesM(X, modules, F)
  PROVE  \A e \in X : F[e] \in X /\ V[F[e]] = U[e]
<1> DEFINE S == {e \in X : F[e] \in X /\ V[F[e]] = U[e]}
<1>1. /\ \A l \in X, r \in X :
           /\ Two("AND", l, r) \in X /\ V[Two("AND", l, r)] = Least(V[l], V[r])
           /\ Two("OR", l, r) \in X /\ V[Two("OR", l, r)] = Most(V[l], V[r])
      /\ \A e \in X : Not(e) \in X /\ V[Not(e)] = 2 - V[e]
  <2>1. \A e \in X : Not(e) \in X /\ V[Not(e)] = 2 - V[e]
    BY DEF Not, Valuation
  <2>2. QED
    BY <2>1, ValueOfTwo
<1>2. ASSUME NEW e \in X, e.type = "NOT", e.left \in S
      PROVE  e \in S
  <2>1. F[e] = Not(F[e.left]) /\ U[e] = 2 - U[e.left]
    BY <1>2 DEF RewritesM, BoundedValuation
  <2>2. QED
    BY <1>1, <1>2, <2>1
<1>3. ASSUME NEW e \in X, IsTwo(e), e.left \in S, e.right \in S
      PROVE  e \in S
  <2>1. e.type \in {"AND", "OR"}
    BY <1>3 DEF IsTwo
  <2>2. F[e] = Two(e.type, F[e.left], F[e.right])
    BY <1>3, <2>1 DEF RewritesM
  <2>3. U[e] = IF e.type = "AND" THEN Least(U[e.left], U[e.right]) ELSE Most(U[e.left], U[e.right])
    BY <2>1 DEF BoundedValuation
  <2>4. F[e.left] \in X /\ F[e.right] \in X /\ V[F[e.left]] = U[e.left] /\ V[F[e.right]] = U[e.right]
    BY <1>3
  <2>5. CASE e.type = "AND"
    BY <1>1, <2>2, <2>3, <2>4, <2>5
  <2>6. CASE e.type = "OR"
    BY <1>1, <2>2, <2>3, <2>4, <2>6
  <2>7. QED
    BY <2>1, <2>5, <2>6
<1>4. ASSUME NEW e \in X, e.type # "NOT", ~IsTwo(e)
      PROVE  e \in S
  <2>1. V[e] = LeafValue(env, e)
    BY <1>4 DEF Valuation, IsTwo
  <2>2. CASE e = Sym("m")
    <3>1. Sym(modules) \in X /\ V[Sym(modules)] = env.tri[modules] /\ V[e] = 1
      <4>1. Sym(modules) \in X
        BY DEF Trees, Leafs
      <4>2. \A s : Sym(s).type = "SYMBOL" /\ Sym(s).sym = s
        BY DEF Sym
      <4>3. V[Sym(modules)] = LeafValue(env, Sym(modules))
        BY <4>1, <4>2 DEF Valuation
      <4>4. QED
        BY <2>1, <2>2, <4>1, <4>2, <4>3 DEF LeafValue, Environment
    <3>2. F[e] = Two("AND", e, Sym(modules))
      <4>1. F[e] = expr_alloc_and(e, Sym(modules))
        BY <1>4, <2>2 DEF RewritesM
      <4>2. e # NoExpr /\ Sym(modules) # NoExpr
        BY <2>2 DEF Sym, NoExpr
      <4>3. QED
        BY <4>1, <4>2 DEF expr_alloc_and
    <3>3. U[e] = Least(1, env.tri[modules])
      BY <1>4, <2>2 DEF BoundedValuation, IsTwo
    <3>4. QED
      BY <1>1, <3>1, <3>2, <3>3
  <2>3. CASE e # Sym("m")
    <3>1. F[e] = e /\ U[e] = LeafValue(env, e)
      BY <1>4, <2>3 DEF RewritesM, BoundedValuation, IsTwo
    <3>2. QED
      BY <2>1, <3>1
  <2>4. QED
    BY <2>2, <2>3
<1>5. X \subseteq S
  <2>1. \A e \in X : (/\ e.type = "NOT" => e.left \in S
                      /\ IsTwo(e) => e.left \in S /\ e.right \in S)
                     => e \in S
    BY <1>2, <1>3, <1>4
  <2> HIDE DEF S
  <2>2. QED
    BY <2>1, TreeInduction
<1>6. QED
  BY <1>5

\* expr_trans_compare on X with the constant n, for = (F) and != (G)
ComparesWithN(X, F, G) ==
  \A e \in X :
    IF IsTwo(e)
    THEN LET both == Two(IF e.type = "AND" THEN "OR" ELSE "AND", F[e.left], F[e.right])
         IN  F[e] = both /\ G[e] = Not(both)
    ELSE IF e.type = "NOT" THEN F[e] = G[e.left] /\ G[e] = F[e.left]
    ELSE IF e.type = "SYMBOL" THEN F[e] = Comp("EQUAL", e.sym, "n") /\ G[e] = Comp("UNEQUAL", e.sym, "n")
    ELSE F[e] = Not(e) /\ G[e] = e

\* the trees about symbols that are bool or tristate, in which nothing that is
\* negated is m
NegatesNoM(X, V, P) ==
  /\ P \subseteq X
  /\ \A e \in P : /\ e.type = "SYMBOL" => Type[e.sym] \in {"BOOLEAN", "TRISTATE"}
                  /\ e.type = "NOT" => e.left \in P /\ V[e.left] # 1
                  /\ IsTwo(e) => e.left \in P /\ e.right \in P

\* expr_trans_compare with n says whether a tree is n, as menu_finalize takes it
\* to, of the trees in which no part that is negated is m: of such a part, !A,
\* it makes A = n, which is n, although !A is m.
THEOREM TransCompareSaysN ==
  ASSUME KOperandAssumption, NEW env, Environment(env),
         NEW X, NEW depth, Trees(X, depth), \A e \in X : Not(e) \in X,
         NEW V, Valuation(env, X, V), NEW P, NegatesNoM(X, V, P),
         NEW F, NEW G, ComparesWithN(X, F, G)
  PROVE  \A e \in P : /\ F[e] \in X /\ V[F[e]] = IF V[e] = 0 THEN 2 ELSE 0
                      /\ G[e] \in X /\ V[G[e]] = IF V[e] = 0 THEN 0 ELSE 2
<1> DEFINE Says(e) == /\ F[e] \in X /\ V[F[e]] = IF V[e] = 0 THEN 2 ELSE 0
                      /\ G[e] \in X /\ V[G[e]] = IF V[e] = 0 THEN 0 ELSE 2
           S == {e \in X : e \in P => Says(e)}
<1>1. /\ \A l \in X, r \in X :
           /\ Two("AND", l, r) \in X /\ V[Two("AND", l, r)] = Least(V[l], V[r])
           /\ Two("OR", l, r) \in X /\ V[Two("OR", l, r)] = Most(V[l], V[r])
      /\ \A e \in X : Not(e) \in X /\ V[Not(e)] = 2 - V[e] /\ V[e] \in 0..2
  <2>1. \A e \in X : Not(e) \in X /\ V[Not(e)] = 2 - V[e] /\ V[e] \in 0..2
    BY DEF Not, Valuation, Tristate
  <2>2. QED
    BY <2>1, ValueOfTwo
<1>2. ASSUME NEW e \in P, IsTwo(e), e.left \in S, e.right \in S
      PROVE  Says(e)
  <2> DEFINE l == F[e.left]
             r == F[e.right]
             both == Two(IF e.type = "AND" THEN "OR" ELSE "AND", l, r)
  <2>1. e \in X /\ e.type \in {"AND", "OR"} /\ F[e] = both /\ G[e] = Not(both)
    BY <1>2 DEF ComparesWithN, NegatesNoM, IsTwo
  <2>2. /\ l \in X /\ V[l] = IF V[e.left] = 0 THEN 2 ELSE 0
        /\ r \in X /\ V[r] = IF V[e.right] = 0 THEN 2 ELSE 0
        /\ V[e.left] \in 0..2 /\ V[e.right] \in 0..2
    BY <1>1, <1>2 DEF NegatesNoM
  <2> HIDE DEF l, r
  <2>3. both \in X /\ V[both] = IF V[e] = 0 THEN 2 ELSE 0
    <3>1. CASE e.type = "AND"
      <4>1. V[e] = Least(V[e.left], V[e.right])
        BY <2>1, <3>1 DEF Valuation
      <4>2. both \in X /\ V[both] = Most(V[l], V[r])
        BY <1>1, <2>2, <3>1
      <4> HIDE DEF both
      <4>3. QED
        BY <2>2, <4>1, <4>2 DEF Least, Most
    <3>2. CASE e.type = "OR"
      <4>1. V[e] = Most(V[e.left], V[e.right])
        BY <2>1, <3>2 DEF Valuation
      <4>2. both \in X /\ V[both] = Least(V[l], V[r])
        BY <1>1, <2>2, <3>2
      <4> HIDE DEF both
      <4>3. QED
        BY <2>2, <4>1, <4>2 DEF Least, Most
    <3>3. QED
      BY <2>1, <3>1, <3>2
  <2> HIDE DEF both
  <2>4. QED
    BY <1>1, <2>1, <2>3
<1>3. ASSUME NEW e \in P, e.type = "NOT", e.left \in S
      PROVE  Says(e)
  <2>1. e \in X /\ e.left \in P /\ V[e.left] \in {0, 2} /\ Says(e.left)
    BY <1>1, <1>3 DEF NegatesNoM
  <2>2. F[e] = G[e.left] /\ G[e] = F[e.left] /\ V[e] = 2 - V[e.left]
    BY <1>3, <2>1 DEF ComparesWithN, Valuation, IsTwo
  <2>3. QED
    BY <2>1, <2>2
<1>4. ASSUME NEW e \in P, e \in Leafs
      PROVE  Says(e)
  <2>1. e \in X /\ (e.type = "SYMBOL" \/ e.type \in Relations) /\ e.type # "NOT" /\ ~IsTwo(e)
    BY <1>4 DEF Leafs, Sym, Comp, Relations, IsTwo, NegatesNoM
  <2>2. \A g \in Leafs : g \in X /\ V[g] = LeafValue(env, g)
    <3> TAKE g \in Leafs
    <3>1. g \in X /\ g.type \notin {"AND", "OR", "NOT"}
      BY DEF Trees, Leafs, Sym, Comp, Relations
    <3>2. QED
      BY <3>1 DEF Valuation
  <2>3. CASE e.type = "SYMBOL"
    <3>1. PICK s \in Symbols : e = Sym(s)
      BY <1>4, <2>3 DEF Leafs, Comp, Relations
    <3>2. e.sym = s /\ Type[s] \in {"BOOLEAN", "TRISTATE"}
      BY <2>3, <3>1 DEF NegatesNoM, Sym
    <3>3. F[e] = Comp("EQUAL", s, "n") /\ G[e] = Comp("UNEQUAL", s, "n")
      BY <2>1, <2>3, <3>2 DEF ComparesWithN
    <3>4. F[e] \in Leafs /\ G[e] \in Leafs
      BY <3>3 DEF Leafs, Relations, KOperandAssumption, Consts
    <3>5. /\ LeafValue(env, F[e]) = IF env.tri[s] = 0 THEN 2 ELSE 0
          /\ LeafValue(env, G[e]) = IF env.tri[s] = 0 THEN 0 ELSE 2
      <4>1. ~(s \in DOMAIN Number) /\ env.tri[s] \in 0..2
        BY <3>2 DEF KOperandAssumption, Environment, Tristate
      <4>2. Operand(env, s).ord = Letter(env.tri[s])
        BY <3>2, <4>1 DEF Operand
      <4>3. Operand(env, "n").ord = 1 /\ Operand(env, "n").lit
        BY DEF Operand, Consts, Letter, Environment
      <4>4. Letter(env.tri[s]) = IF env.tri[s] = 0 THEN 1 ELSE IF env.tri[s] = 1 THEN 0 ELSE 2
        BY <4>1 DEF Letter
      <4>5. Compare(Operand(env, s), Operand(env, "n")) = 0 <=> env.tri[s] = 0
        BY <4>1, <4>2, <4>3, <4>4 DEF Compare
      <4>6. \A t : /\ Comp(t, s, "n").type = t /\ Comp(t, s, "n").sym = s /\ Comp(t, s, "n").rsym = "n"
        BY DEF Comp
      <4>7. QED
        BY <3>3, <4>5, <4>6 DEF LeafValue, Compared, Holds
    <3>6. V[e] = env.tri[s]
      BY <1>4, <2>2, <2>3, <3>2 DEF LeafValue
    <3>7. QED
      BY <2>2, <3>4, <3>5, <3>6
  <2>4. CASE e.type \in Relations
    <3>1. F[e] = Not(e) /\ G[e] = e
      BY <2>1, <2>4 DEF ComparesWithN, Relations
    <3>2. V[e] \in {0, 2}
      BY <1>4, <2>2, <2>4 DEF LeafValue, Relations
    <3>3. QED
      BY <1>1, <2>1, <3>1, <3>2
  <2>5. QED
    BY <2>1, <2>3, <2>4
<1>5. X \subseteq S
  <2>1. \A e \in X : (/\ e.type = "NOT" => e.left \in S
                      /\ IsTwo(e) => e.left \in S /\ e.right \in S)
                     => e \in S
    <3>1. \A e \in X : e \in Leafs \/ e.type = "NOT" \/ IsTwo(e)
      BY DEF Trees
    <3> HIDE DEF Says
    <3>2. QED
      BY <1>2, <1>3, <1>4, <3>1
  <2> HIDE DEF S
  <2>2. QED
    BY <2>1, TreeInduction
<1>6. QED
  BY <1>5 DEF NegatesNoM

-----------------------------------------------------------------------------
(* Lists of operands, from a tree and back.                                 *)

\* the value of a tree of operator t whose operands are l is at most c (for an
\* or), or at least c (for an and)
Within(t, V, l, c) ==
  IF t = "OR" THEN \A k \in DOMAIN l : V[l[k]] =< c ELSE \A k \in DOMAIN l : V[l[k]] >= c

\* joining two of the operands l of a tree of operator t keeps its value
JoinedKeep(X, V, t) ==
  \A N \in Nat : \A l \in [1..N -> X], n \in Nat, a \in 1..N, b \in 1..N : \A d, j :
    (/\ a # b /\ d.e \in X /\ V[d.e] = V[l[a]]
     /\ j # Nothing => j \in X /\ V[j] = IF t = "OR" THEN Most(V[d.e], V[l[b]]) ELSE Least(V[d.e], V[l[b]]))
    => LET r == Joined(t, [l |-> l, n |-> n], <<a, b>>, d, j).l
       IN  r \in [1..N -> X] /\ \A v \in Tristate : Within(t, V, l, v) <=> Within(t, V, r, v)

\* the greatest value of the operands stays as it is for an or, the least for an and
LEMMA JoinedKeepsValue ==
  ASSUME KOperandAssumption, NEW env, Environment(env),
         NEW X, NEW depth, Trees(X, depth), NEW V, Valuation(env, X, V),
         NEW t \in {"AND", "OR"}
  PROVE  JoinedKeep(X, V, t)
<1> SUFFICES \A N \in Nat : \A l \in [1..N -> X], n \in Nat, a \in 1..N, b \in 1..N : \A d, j :
               (/\ a # b /\ d.e \in X /\ V[d.e] = V[l[a]]
                /\ j # Nothing => j \in X /\ V[j] = IF t = "OR" THEN Most(V[d.e], V[l[b]]) ELSE Least(V[d.e], V[l[b]]))
               => LET r == Joined(t, [l |-> l, n |-> n], <<a, b>>, d, j).l
                  IN  r \in [1..N -> X] /\ \A v \in Tristate : Within(t, V, l, v) <=> Within(t, V, r, v)
  BY Zenon DEF JoinedKeep
<1> TAKE N \in Nat
<1> TAKE l \in [1..N -> X], n \in Nat, a \in 1..N, b \in 1..N
<1> TAKE d, j
<1> HAVE /\ a # b /\ d.e \in X /\ V[d.e] = V[l[a]]
         /\ j # Nothing => j \in X /\ V[j] = IF t = "OR" THEN Most(V[d.e], V[l[b]]) ELSE Least(V[d.e], V[l[b]])
<1> DEFINE r == Joined(t, [l |-> l, n |-> n], <<a, b>>, d, j).l
<1>1. r = IF j = Nothing THEN [l EXCEPT ![a] = d.e] ELSE [l EXCEPT ![a] = Unit(t), ![b] = j]
  BY DEF Joined
<1>2. /\ Unit(t) \in X
      /\ V[Unit(t)] = IF t = "OR" THEN 0 ELSE 2
  BY ValueOfTwo DEF Unit
<1>3. \A k \in 1..N : l[k] \in X /\ V[l[k]] \in 0..2
  BY DEF Valuation, Tristate
<1>4. r \in [1..N -> X]
  BY <1>1, <1>2
<1>5. /\ \A k \in 1..N : k \notin {a, b} => r[k] = l[k]
      /\ j = Nothing => V[r[a]] = V[l[a]] /\ r[b] = l[b]
      /\ j # Nothing => /\ V[r[a]] = IF t = "OR" THEN 0 ELSE 2
                        /\ V[r[b]] = IF t = "OR" THEN Most(V[l[a]], V[l[b]]) ELSE Least(V[l[a]], V[l[b]])
  BY <1>1, <1>2
<1> HIDE DEF r
<1>6. DOMAIN l = 1..N /\ DOMAIN r = 1..N
  BY <1>4
<1>7. ASSUME t = "OR", NEW v \in Tristate
      PROVE  (\A k \in 1..N : V[l[k]] =< v) <=> (\A k \in 1..N : V[r[k]] =< v)
  <2>1. V[l[a]] =< v /\ V[l[b]] =< v <=> V[r[a]] =< v /\ V[r[b]] =< v
    BY <1>3, <1>5, <1>7 DEF Most, Tristate
  <2>2. QED
    BY <1>5, <2>1
<1>8. ASSUME t = "AND", NEW v \in Tristate
      PROVE  (\A k \in 1..N : V[l[k]] >= v) <=> (\A k \in 1..N : V[r[k]] >= v)
  <2>1. V[l[a]] >= v /\ V[l[b]] >= v <=> V[r[a]] >= v /\ V[r[b]] >= v
    BY <1>3, <1>5, <1>8 DEF Least, Tristate
  <2>2. QED
    BY <1>5, <2>1
<1>9. \A v \in Tristate : Within(t, V, l, v) <=> Within(t, V, r, v)
  BY <1>6, <1>7, <1>8 DEF Within
<1>10. QED
  BY <1>4, <1>9 DEF r
\* Leaves and Rebuild (KExpr) on X
Flattens(X, t, L) ==
  /\ L \in [X -> Seq(X)]
  /\ \A e \in X : L[e] = IF e.type = t THEN L[e.left] \o L[e.right] ELSE <<e>>
Rebuilds(X, t, L, R) ==
  \A e \in X, ls \in Seq(X) : Len(ls) = Len(L[e]) =>
    R[e][ls] = IF e.type # t THEN ls[1]
               ELSE Two(t, R[e.left][SubSeq(ls, 1, Len(L[e.left]))],
                           R[e.right][SubSeq(ls, Len(L[e.left]) + 1, Len(ls))])

\* both parts of a sequence are within what it is within
LEMMA WithinBoth ==
  ASSUME NEW X, NEW a \in Seq(X), NEW b \in Seq(X), NEW t, NEW V, NEW c
  PROVE  Within(t, V, a \o b, c) <=> Within(t, V, a, c) /\ Within(t, V, b, c)
<1> DEFINE G == {x \in X : IF t = "OR" THEN V[x] =< c ELSE V[x] >= c}
           s == a \o b
<1>1. \A l \in Seq(X) : Within(t, V, l, c) <=> \A k \in 1..Len(l) : l[k] \in G
  BY DEF Within
<1> HIDE DEF G, s
<1>2. s \in Seq(X) /\ Len(s) = Len(a) + Len(b) /\ Len(a) \in Nat /\ Len(b) \in Nat
  BY ConcatProperties DEF s
<1>3. \A k \in 1..Len(s) : s[k] = IF k =< Len(a) THEN a[k] ELSE b[k - Len(a)]
  BY <1>2, ConcatProperties DEF s
<1>4. ASSUME \A k \in 1..Len(s) : s[k] \in G
      PROVE  /\ \A k \in 1..Len(a) : a[k] \in G
             /\ \A k \in 1..Len(b) : b[k] \in G
  <2>1. \A k \in 1..Len(a) : k \in 1..Len(s) /\ s[k] = a[k]
    BY <1>2, <1>3
  <2>2. \A k \in 1..Len(b) : Len(a) + k \in 1..Len(s) /\ s[Len(a) + k] = b[k]
    <3> TAKE k \in 1..Len(b)
    <3>1. Len(a) + k \in 1..Len(s) /\ ~(Len(a) + k =< Len(a)) /\ (Len(a) + k) - Len(a) = k
      BY <1>2
    <3>2. QED
      BY <1>3, <3>1
  <2>3. QED
    BY <1>4, <2>1, <2>2
<1>5. ASSUME \A k \in 1..Len(a) : a[k] \in G, \A k \in 1..Len(b) : b[k] \in G
      PROVE  \A k \in 1..Len(s) : s[k] \in G
  <2> TAKE k \in 1..Len(s)
  <2>1. k \in 1..Len(a) \/ (~(k =< Len(a)) /\ k - Len(a) \in 1..Len(b))
    BY <1>2
  <2>2. QED
    BY <1>2, <1>3, <1>5, <2>1
<1>6. QED
  BY <1>1, <1>2, <1>4, <1>5 DEF s

\* A function on 1..n is a sequence of length n: the array of the operands, as
\* the recursion over the tree takes it.
LEMMA FunctionIsSeq ==
  ASSUME NEW X, NEW n \in Nat, NEW f \in [1..n -> X]
  PROVE  f \in Seq(X) /\ Len(f) = n
OBVIOUS

\* A sequence is its beginning followed by the rest of it: the operands of the left
\* tree, then those of the right.
LEMMA SplitSequence ==
  ASSUME NEW X, NEW s \in Seq(X), NEW n \in 0..Len(s)
  PROVE  LET a == SubSeq(s, 1, n)
             b == SubSeq(s, n + 1, Len(s))
         IN  a \in Seq(X) /\ b \in Seq(X) /\ Len(a) = n /\ Len(b) = Len(s) - n /\ s = a \o b
<1> DEFINE a == SubSeq(s, 1, n)
           b == SubSeq(s, n + 1, Len(s))
<1>1. Len(s) \in Nat /\ n \in Nat /\ n =< Len(s) /\ \A i \in 1..Len(s) : s[i] \in X
  OBVIOUS
<1>2. a \in Seq(X) /\ Len(a) = n
  <2>1. \A i \in 1..n : s[i] \in X
    BY <1>1
  <2>2. QED
    BY <1>1, <2>1, SubSeqProperties
<1>3. b \in Seq(X) /\ Len(b) = Len(s) - n
  <2>1. (\A i \in n + 1..Len(s) : s[i] \in X) /\ n + 1 \in Int /\ Len(s) \in Int
    BY <1>1
  <2>2. b \in Seq(X) /\ Len(b) = IF n + 1 <= Len(s) THEN Len(s) - (n + 1) + 1 ELSE 0
    BY <2>1, SubSeqProperties
  <2> HIDE DEF b
  <2>3. QED
    BY <1>1, <2>2
<1>4. s = a \o b
  <2>1. 1 \in 1..Len(s) + 1 /\ n \in 1 - 1..Len(s) /\ Len(s) \in n..Len(s)
    BY <1>1
  <2>2. a \o b = SubSeq(s, 1, Len(s))
    BY <2>1, ConcatAdjacentSubSeq
  <2>3. QED
    BY <2>2, SubSeqFull
<1>5. QED
  BY <1>2, <1>3, <1>4

\* a tree is worth what its operands are
LEMMA LeavesKeepValue ==
  ASSUME KOperandAssumption, NEW env, Environment(env),
         NEW X, NEW depth, Trees(X, depth), NEW V, Valuation(env, X, V),
         NEW t \in {"AND", "OR"}, NEW L, Flattens(X, t, L), NEW c \in Tristate
  PROVE  \A e \in X : Within(t, V, <<e>>, c) <=> Within(t, V, L[e], c)
<1> DEFINE S == {e \in X : Within(t, V, <<e>>, c) <=> Within(t, V, L[e], c)}
<1>1. ASSUME NEW e \in X, e.type = t, e.left \in S, e.right \in S
      PROVE  e \in S
  <2>1. L[e] = L[e.left] \o L[e.right] /\ L[e.left] \in Seq(X) /\ L[e.right] \in Seq(X)
    BY <1>1 DEF Flattens
  <2>2. Within(t, V, L[e], c) <=> Within(t, V, L[e.left], c) /\ Within(t, V, L[e.right], c)
    BY <2>1, WithinBoth
  <2>3. V[e] = IF t = "AND" THEN Least(V[e.left], V[e.right]) ELSE Most(V[e.left], V[e.right])
    BY <1>1 DEF Valuation
  <2>4. V[e.left] \in 0..2 /\ V[e.right] \in 0..2 /\ c \in 0..2
    BY <1>1 DEF Valuation, Tristate
  <2>5. Within(t, V, <<e>>, c) <=> Within(t, V, <<e.left>>, c) /\ Within(t, V, <<e.right>>, c)
    BY <2>3, <2>4 DEF Within, Least, Most
  <2>6. QED
    BY <1>1, <2>2, <2>5
<1>2. ASSUME NEW e \in X, e.type # t
      PROVE  e \in S
  BY <1>2 DEF Flattens
<1>3. X \subseteq S
  <2>1. \A e \in X : (/\ e.type = "NOT" => e.left \in S
                      /\ IsTwo(e) => e.left \in S /\ e.right \in S)
                     => e \in S
    BY <1>1, <1>2 DEF IsTwo
  <2> HIDE DEF S
  <2>2. QED
    BY <2>1, TreeInduction
<1>4. QED
  BY <1>3

\* and so is one that other operands are put into
LEMMA RebuildKeepsValue ==
  ASSUME KOperandAssumption, NEW env, Environment(env),
         NEW X, NEW depth, Trees(X, depth), NEW V, Valuation(env, X, V),
         NEW t \in {"AND", "OR"}, NEW L, Flattens(X, t, L), NEW R, Rebuilds(X, t, L, R), NEW c \in Tristate
  PROVE  \A e \in X, ls \in Seq(X) : Len(ls) = Len(L[e]) =>
           R[e][ls] \in X /\ (Within(t, V, <<R[e][ls]>>, c) <=> Within(t, V, ls, c))
<1> DEFINE Good(e, ls) == R[e][ls] \in X /\ (Within(t, V, <<R[e][ls]>>, c) <=> Within(t, V, ls, c))
           S == {e \in X : \A ls \in Seq(X) : Len(ls) = Len(L[e]) => Good(e, ls)}
<1>1. ASSUME NEW e \in X, e.type = t, e.left \in S, e.right \in S
      PROVE  e \in S
  <2> SUFFICES ASSUME NEW ls \in Seq(X), Len(ls) = Len(L[e]) PROVE Good(e, ls)
    OBVIOUS
  <2> DEFINE n == Len(L[e.left])
             a == SubSeq(ls, 1, n)
             b == SubSeq(ls, n + 1, Len(ls))
  <2>1. /\ L[e] = L[e.left] \o L[e.right] /\ L[e.left] \in Seq(X) /\ L[e.right] \in Seq(X)
        /\ e.left \in X /\ e.right \in X
    BY <1>1 DEF Flattens
  <2>2. /\ a \in Seq(X) /\ b \in Seq(X) /\ Len(a) = n /\ Len(b) = Len(L[e.right]) /\ ls = a \o b
    <3>1. Len(L[e]) = n + Len(L[e.right]) /\ n \in Nat /\ Len(L[e.right]) \in Nat
      BY <2>1, ConcatProperties
    <3> HIDE DEF n
    <3>2. n \in 0..Len(ls) /\ Len(ls) - n = Len(L[e.right])
      BY <3>1
    <3>3. QED
      BY <3>2, SplitSequence
  <2>3. R[e][ls] = Two(t, R[e.left][a], R[e.right][b])
    BY <1>1 DEF Rebuilds
  <2> HIDE DEF a, b, n
  <2>4. Good(e.left, a) /\ Good(e.right, b)
    BY <1>1, <2>2 DEF n
  <2> DEFINE l == R[e.left][a]
             r == R[e.right][b]
  <2>5. /\ l \in X /\ r \in X /\ V[l] \in 0..2 /\ V[r] \in 0..2 /\ c \in 0..2
        /\ Within(t, V, <<l>>, c) <=> Within(t, V, a, c)
        /\ Within(t, V, <<r>>, c) <=> Within(t, V, b, c)
    BY <2>4 DEF Valuation, Tristate
  <2>6. R[e][ls] = Two(t, l, r)
    BY <2>3
  <2> HIDE DEF l, r
  <2>7. R[e][ls] \in X /\ V[R[e][ls]] = IF t = "AND" THEN Least(V[l], V[r]) ELSE Most(V[l], V[r])
    <3>1. /\ \A x \in X, y \in X :
               /\ Two("AND", x, y) \in X /\ V[Two("AND", x, y)] = Least(V[x], V[y])
               /\ Two("OR", x, y) \in X /\ V[Two("OR", x, y)] = Most(V[x], V[y])
      BY ValueOfTwo
    <3>2. CASE t = "AND"
      BY <2>5, <2>6, <3>1, <3>2
    <3>3. CASE t = "OR"
      BY <2>5, <2>6, <3>1, <3>3
    <3>4. QED
      BY <3>2, <3>3
  <2>8. Within(t, V, <<R[e][ls]>>, c) <=> Within(t, V, <<l>>, c) /\ Within(t, V, <<r>>, c)
    <3>1. \A x : Within(t, V, <<x>>, c) <=> IF t = "OR" THEN V[x] =< c ELSE V[x] >= c
      BY DEF Within
    <3>2. QED
      BY <2>5, <2>7, <3>1 DEF Least, Most
  <2>9. Within(t, V, ls, c) <=> Within(t, V, a, c) /\ Within(t, V, b, c)
    BY <2>2, WithinBoth
  <2>10. QED
    BY <2>5, <2>7, <2>8, <2>9
<1>2. ASSUME NEW e \in X, e.type # t
      PROVE  e \in S
  <2> SUFFICES ASSUME NEW ls \in Seq(X), Len(ls) = Len(L[e]) PROVE Good(e, ls)
    OBVIOUS
  <2>1. L[e] = <<e>> /\ R[e][ls] = ls[1]
    BY <1>2 DEF Flattens, Rebuilds
  <2>2. Len(ls) = 1
    BY <2>1
  <2>3. ls = <<ls[1]>> /\ ls[1] \in X
    BY <2>2, SeqEqual
  <2>4. QED
    BY <2>1, <2>3
<1>3. X \subseteq S
  <2>1. \A e \in X : (/\ e.type = "NOT" => e.left \in S
                      /\ IsTwo(e) => e.left \in S /\ e.right \in S)
                     => e \in S
    <3> HIDE DEF S
    <3>1. QED
      BY <1>1, <1>2 DEF IsTwo
  <2> HIDE DEF S
  <2>2. QED
    BY <2>1, TreeInduction
<1>4. QED
  BY <1>3
-----------------------------------------------------------------------------
(* expr_eliminate_dups1.                                                    *)

\* expr_eq, as far as the joins count on it: what is equal has the same value,
\* and an operand equals itself
EqualKeeps(X, V, Eq) ==
  /\ \A e \in X, f \in X : <<e, f>> \in Eq => V[e] = V[f]
  /\ \A e \in Operands : <<e, e>> \in Eq

\* Join (KExpr), with the pairs Eq for expr_eq
JoinOf(t, Eq, e, f) ==
  IF <<e, f>> \in Eq THEN e
  ELSE IF ~Joinable(e, f) THEN Nothing
  ELSE IF t = "OR" THEN expr_join_or(e, f, About(e)) ELSE expr_join_and(e, f, About(e))

\* a tree that is simple enough to join is an operand
LEMMA OperandsOf ==
  ASSUME NEW env, NEW X, NEW depth, Trees(X, depth), NEW V, Valuation(env, X, V),
         NEW e \in X, NEW f \in X, Joinable(e, f)
  PROVE  e \in Operands /\ f \in Operands
<1>1. \A g \in X : g.type \in {"SYMBOL", "EQUAL", "UNEQUAL"} => g \in Leafs
  BY DEF Trees, IsTwo
<1>2. \A g \in X : g.type = "NOT" => g = Not(g.left) /\ g.left \in X
  BY DEF Trees
<1>3. \A g \in {e, f} : \/ g.type \in {"SYMBOL", "EQUAL", "UNEQUAL"}
                        \/ g.type = "NOT" /\ g.left.type \in {"SYMBOL", "EQUAL", "UNEQUAL"}
  BY DEF Joinable
<1>4. QED
  BY <1>1, <1>2, <1>3 DEF Operands

\* Where trees and operands are the same, so are their values.
LEMMA ValueOfOperand ==
  ASSUME NEW env, NEW X, NEW depth, Trees(X, depth), NEW V, Valuation(env, X, V),
         NEW e \in X, e \in Operands
  PROVE  V[e] = OperandValue(env, e)
<1>1. ASSUME NEW g \in Leafs
      PROVE  g \in X /\ V[g] = LeafValue(env, g) /\ g.type # "NOT"
  <2>1. g \in X /\ g.type \notin {"AND", "OR", "NOT"}
    BY DEF Trees, Leafs, Sym, Comp, Relations
  <2>2. QED
    BY <2>1 DEF Valuation
<1>2. CASE e \in Leafs
  BY <1>1, <1>2 DEF OperandValue
<1>3. ASSUME NEW g \in Leafs, e = Not(g)
      PROVE  V[e] = OperandValue(env, e)
  <2>1. e.type = "NOT" /\ e.left = g
    BY <1>3 DEF Not
  <2>2. V[e] = 2 - V[g] /\ OperandValue(env, e) = 2 - LeafValue(env, g)
    BY <2>1 DEF Valuation, OperandValue
  <2>3. QED
    BY <1>1, <2>2
<1>4. QED
  BY <1>2, <1>3 DEF Operands

\* what two operands join to is a leaf, or one of them
LEMMA JoinIsOperand ==
  ASSUME KOperandAssumption, NEW e \in Operands, NEW f \in Operands, Joinable(e, f)
  PROVE  /\ expr_join_or(e, f, About(e)) \in Leafs \union {Nothing}
         /\ expr_join_and(e, f, About(e)) \in Leafs \union {e, f, Nothing}
<1> DEFINE s == About(e)
<1>1. s \in Symbols
  BY JoinableShape
<1> HIDE DEF s
<1>2. Consts \subseteq Symbols /\ "y" \in Consts /\ "n" \in Consts
  BY DEF KOperandAssumption, Consts
<1>3. {e.rsym, f.rsym} \subseteq Consts => Third(e, f) \in Consts
  <2> SUFFICES ASSUME {e.rsym, f.rsym} \subseteq Consts PROVE \E c \in Consts : c \notin {e.rsym, f.rsym}
    BY DEF Third
  <2>1. QED
    BY DEF Consts
<1>4. \A t \in Relations, c \in Consts : Comp(t, s, c) \in Leafs /\ Sym(c) \in Leafs /\ Sym(s) \in Leafs
  BY <1>1, <1>2 DEF Leafs
<1>5. expr_join_or(e, f, s) \in Leafs \union {Nothing}
  BY <1>2, <1>3, <1>4 DEF expr_join_or, Relations
<1>6. expr_join_and(e, f, s) \in Leafs \union {e, f, Nothing}
  BY <1>2, <1>3, <1>4 DEF expr_join_and, Relations
<1>7. QED
  BY <1>5, <1>6 DEF s

\* two trees have the value of what they join to
LEMMA JoinKeepsValue ==
  ASSUME KOperandAssumption, NEW env, Environment(env),
         NEW X, NEW depth, Trees(X, depth), NEW V, Valuation(env, X, V),
         NEW Eq, EqualKeeps(X, V, Eq), NEW t \in {"AND", "OR"},
         NEW e \in X, NEW f \in X, NEW j, j = JoinOf(t, Eq, e, f), j # Nothing
  PROVE  j \in X /\ V[j] = IF t = "OR" THEN Most(V[e], V[f]) ELSE Least(V[e], V[f])
<1>1. CASE <<e, f>> \in Eq
  <2>1. j = e /\ V[e] = V[f]
    BY <1>1 DEF JoinOf, EqualKeeps
  <2>2. QED
    BY <2>1 DEF Most, Least
<1>2. CASE <<e, f>> \notin Eq
  <2>1. Joinable(e, f) /\ j = IF t = "OR" THEN expr_join_or(e, f, About(e)) ELSE expr_join_and(e, f, About(e))
    BY <1>2 DEF JoinOf
  <2>2. e \in Operands /\ f \in Operands
    BY <2>1, OperandsOf
  <2>3. e # f
    BY <1>2, <2>2 DEF EqualKeeps
  <2>4. j \in Leafs \union {e, f}
    BY <2>1, <2>2, JoinIsOperand
  <2>5. j \in X /\ j \in Operands
    BY <2>2, <2>4 DEF Trees, Operands
  <2>6. V[j] = OperandValue(env, j) /\ V[e] = OperandValue(env, e) /\ V[f] = OperandValue(env, f)
    BY <2>2, <2>5, ValueOfOperand
  <2>7. CASE t = "OR"
    BY <2>1, <2>2, <2>3, <2>5, <2>6, <2>7, JoinOrKeepsValue
  <2>8. CASE t = "AND"
    BY <2>1, <2>2, <2>3, <2>5, <2>6, <2>8, JoinAndKeepsValue
  <2>9. QED
    BY <2>7, <2>8
<1>3. QED
  BY <1>1, <1>2

\* What the loops of expr_eliminate_dups1 do to the operands l of a tree of
\* operator t: nothing, or the first of two is simplified, to d, and joined with
\* the other.
Eliminates(X, V, Eq, t, l, r) ==
  \/ r = l
  \/ \E a \in DOMAIN l, b \in DOMAIN l, d \in X :
       /\ a # b /\ V[d] = V[l[a]]
       /\ r = Joined(t, [l |-> l, n |-> 0], <<a, b>>, [e |-> d, n |-> 0], JoinOf(t, Eq, d, l[b])).l

EliminatesKeeps(X, V, Eq, t) ==
  \A N \in Nat : \A l \in [1..N -> X], r \in [1..N -> X], c \in Tristate :
    Eliminates(X, V, Eq, t, l, r) => (Within(t, V, l, c) <=> Within(t, V, r, c))

\* One turn of the loops bounds the operands as before.
LEMMA EliminatesKeepsValue ==
  ASSUME KOperandAssumption, NEW env, Environment(env),
         NEW X, NEW depth, Trees(X, depth), NEW V, Valuation(env, X, V),
         NEW Eq, EqualKeeps(X, V, Eq), NEW t \in {"AND", "OR"}
  PROVE  EliminatesKeeps(X, V, Eq, t)
<1> SUFFICES ASSUME NEW N \in Nat, NEW l \in [1..N -> X], NEW r \in [1..N -> X], NEW c \in Tristate,
                    Eliminates(X, V, Eq, t, l, r)
             PROVE  Within(t, V, l, c) <=> Within(t, V, r, c)
  BY DEF EliminatesKeeps
<1>1. CASE r = l
  BY <1>1
<1>2. ASSUME NEW a \in 1..N, NEW b \in 1..N, NEW d \in X, a # b, V[d] = V[l[a]],
             r = Joined(t, [l |-> l, n |-> 0], <<a, b>>, [e |-> d, n |-> 0], JoinOf(t, Eq, d, l[b])).l
      PROVE  Within(t, V, l, c) <=> Within(t, V, r, c)
  <2> DEFINE j == JoinOf(t, Eq, d, l[b])
             x == [e |-> d, n |-> 0]
  <2>1. j # Nothing => j \in X /\ V[j] = IF t = "OR" THEN Most(V[d], V[l[b]]) ELSE Least(V[d], V[l[b]])
    BY JoinKeepsValue
  <2> HIDE DEF j
  <2>2. x.e = d
    OBVIOUS
  <2> HIDE DEF x
  <2>3. x.e \in X /\ V[x.e] = V[l[a]] /\ (j # Nothing => j \in X /\ V[j] = IF t = "OR" THEN Most(V[x.e], V[l[b]]) ELSE Least(V[x.e], V[l[b]]))
    BY <1>2, <2>1, <2>2
  <2>4. r = Joined(t, [l |-> l, n |-> 0], <<a, b>>, x, j).l
    BY <1>2 DEF x, j
  <2>5. JoinedKeep(X, V, t)
    BY JoinedKeepsValue
  <2>6. \A y, i :
          (/\ a # b /\ y.e \in X /\ V[y.e] = V[l[a]]
           /\ i # Nothing => i \in X /\ V[i] = IF t = "OR" THEN Most(V[y.e], V[l[b]]) ELSE Least(V[y.e], V[l[b]]))
          => LET q == Joined(t, [l |-> l, n |-> 0], <<a, b>>, y, i).l
             IN  q \in [1..N -> X] /\ \A v \in Tristate : Within(t, V, l, v) <=> Within(t, V, q, v)
    <3>1. 0 \in Nat
      OBVIOUS
    <3>2. QED
      BY <2>5, <3>1, Zenon DEF JoinedKeep
  <2>7. QED
    BY <1>2, <2>3, <2>4, <2>6, Zenon
<1>3. QED
  BY <1>1, <1>2 DEF Eliminates

EliminateDups1Keeps(X, V, Eq, t, L, R) ==
  \A e \in X, K \in Nat : \A s \in [0..K -> [1..Len(L[e]) -> X]] :
    s[0] = L[e] /\ (\A k \in 1..K : Eliminates(X, V, Eq, t, s[k - 1], s[k]))
    => R[e][s[K]] \in X /\ V[R[e][s[K]]] = V[e]

\* expr_eliminate_dups1 keeps the value of every tree, whatever its shape and its
\* number of operands, and in whatever order it meets them, if it keeps that of
\* the operands it is called for in turn.
THEOREM EliminateDups1KeepsValue ==
  ASSUME KOperandAssumption, NEW env, Environment(env),
         NEW X, NEW depth, Trees(X, depth), NEW V, Valuation(env, X, V),
         NEW Eq, EqualKeeps(X, V, Eq), NEW t \in {"AND", "OR"},
         NEW L, Flattens(X, t, L), NEW R, Rebuilds(X, t, L, R)
  PROVE  EliminateDups1Keeps(X, V, Eq, t, L, R)
<1> SUFFICES ASSUME NEW e \in X, NEW K \in Nat, NEW s \in [0..K -> [1..Len(L[e]) -> X]], s[0] = L[e],
                    \A k \in 1..K : Eliminates(X, V, Eq, t, s[k - 1], s[k])
             PROVE  R[e][s[K]] \in X /\ V[R[e][s[K]]] = V[e]
  BY DEF EliminateDups1Keeps
<1> DEFINE N == Len(L[e])
           Y == 0..K
           size == [k \in Y |-> k]
           S == {k \in Y : \A c \in Tristate : Within(t, V, s[k], c) <=> Within(t, V, L[e], c)}
<1>1. L[e] \in Seq(X) /\ N \in Nat
  BY DEF Flattens
<1>2. Y \subseteq S
  <2>1. \A k \in Y : size[k] \in Nat /\ size[k] = k
    OBVIOUS
  <2>2. ASSUME NEW k \in Y, \A g \in Y : size[g] < size[k] => g \in S
        PROVE  k \in S
    <3>1. CASE k = 0
      BY <3>1
    <3>2. CASE k # 0
      <4>1. k - 1 \in Y /\ k - 1 < k /\ k \in 1..K
        BY <3>2
      <4>2. k - 1 \in S
        BY <2>1, <2>2, <4>1
      <4>3. s[k - 1] \in [1..N -> X] /\ s[k] \in [1..N -> X] /\ Eliminates(X, V, Eq, t, s[k - 1], s[k])
        BY <4>1
      <4> HIDE DEF N
      <4>4. \A c \in Tristate : Within(t, V, s[k - 1], c) <=> Within(t, V, s[k], c)
        <5>1. EliminatesKeeps(X, V, Eq, t)
          BY EliminatesKeepsValue
        <5>2. QED
          BY <1>1, <4>3, <5>1 DEF EliminatesKeeps
      <4>5. QED
        BY <4>2, <4>4
    <3>3. QED
      BY <3>1, <3>2
  <2> HIDE DEF S, Y, size
  <2>3. QED
    BY <2>1, <2>2, SizeInduction
<1>3. \A c \in Tristate : Within(t, V, s[K], c) <=> Within(t, V, L[e], c)
  BY <1>2
<1>4. s[K] \in Seq(X) /\ Len(s[K]) = N
  <2>1. s[K] \in [1..N -> X]
    OBVIOUS
  <2> HIDE DEF N
  <2>2. QED
    BY <1>1, <2>1, FunctionIsSeq
<1> DEFINE g == R[e][s[K]]
<1>5. g \in X /\ \A c \in Tristate : Within(t, V, <<g>>, c) <=> Within(t, V, s[K], c)
  <2>1. \A c \in Tristate : g \in X /\ (Within(t, V, <<g>>, c) <=> Within(t, V, s[K], c))
    BY <1>4, RebuildKeepsValue
  <2>2. 0 \in Tristate
    BY DEF Tristate
  <2>3. QED
    BY <2>1, <2>2
<1>6. \A c \in Tristate : Within(t, V, <<e>>, c) <=> Within(t, V, L[e], c)
  BY LeavesKeepValue
<1> HIDE DEF g
<1>7. V[g] \in 0..2 /\ V[e] \in 0..2 /\ \A x : x \in Tristate <=> x \in 0..2
  BY <1>5 DEF Valuation, Tristate
<1>8. \A c \in 0..2 : Within(t, V, <<g>>, c) <=> Within(t, V, <<e>>, c)
  BY <1>3, <1>5, <1>6, <1>7
<1>9. V[g] = V[e]
  <2>1. \A x, c : Within(t, V, <<x>>, c) <=> IF t = "OR" THEN V[x] =< c ELSE V[x] >= c
    BY DEF Within
  <2>2. QED
    BY <1>7, <1>8, <2>1
<1>10. QED
  BY <1>5, <1>9 DEF g
-----------------------------------------------------------------------------
(* The conditions menu_finalize makes.                                      *)

\* expr_eliminate_yn on X
EliminatesYn(X, F) == \A e \in X : F[e] = IF ~IsTwo(e) THEN e ELSE Reduced(e.type, F[e.left], F[e.right])

\* one turn of the loop of expr_eliminate_dups, from e to g: its operands are
\* joined, and n and y are taken out if any were
Turns(X, V, Eq, L, R, Y, e, g) ==
  \E t \in {"AND", "OR"}, K \in Nat :
    /\ e.type = t
    /\ \E s \in [0..K -> [1..Len(L[t][e]) -> X]] :
         /\ s[0] = L[t][e] /\ \A k \in 1..K : Eliminates(X, V, Eq, t, s[k - 1], s[k])
         /\ g \in {R[t][e][s[K]], Y[R[t][e][s[K]]]}

\* the trees in which only symbols are negated are trees of their own
LEMMA NegatesSymbolsTrees ==
  ASSUME NEW env, NEW X, NEW depth, Trees(X, depth), NEW V, Valuation(env, X, V),
         NEW P, NegatesSymbols(X, P)
  PROVE  Trees(P, depth) /\ Valuation(env, P, V)
<1>1. Leafs \subseteq P
  <2> SUFFICES ASSUME NEW e \in Leafs PROVE e \in P
    OBVIOUS
  <2>1. e \in X /\ e.type # "NOT" /\ ~IsTwo(e)
    BY DEF Trees, Leafs, Sym, Comp, Relations, IsTwo
  <2>2. QED
    BY <2>1 DEF NegatesSymbols
<1>2. \A t \in {"AND", "OR"}, l \in P, r \in P : Two(t, l, r) \in P
  <2> TAKE t \in {"AND", "OR"}, l \in P, r \in P
  <2>1. Two(t, l, r) \in X
    BY DEF Trees, NegatesSymbols
  <2>2. Two(t, l, r).type # "NOT" /\ Two(t, l, r).left = l /\ Two(t, l, r).right = r
    BY DEF Two
  <2>3. QED
    BY <2>1, <2>2 DEF NegatesSymbols
<1>3. ASSUME NEW e \in P, e.type = "NOT"
      PROVE  Not(e.left) = e /\ e.left \in P /\ depth[e.left] < depth[e]
  <2>1. e \in X /\ e.left.type = "SYMBOL"
    BY <1>3 DEF NegatesSymbols
  <2>2. Not(e.left) = e /\ e.left \in X /\ depth[e.left] < depth[e]
    BY <1>3, <2>1 DEF Trees
  <2>3. e.left \in P
    BY <2>1, <2>2 DEF NegatesSymbols, IsTwo
  <2>4. QED
    BY <2>2, <2>3
<1>4. P \subseteq X /\ \A e \in P : IsTwo(e) => e.left \in P /\ e.right \in P
  BY DEF NegatesSymbols
<1>5. Trees(P, depth)
  BY <1>1, <1>2, <1>3, <1>4 DEF Trees
<1>6. Valuation(env, P, V)
  BY <1>4 DEF Valuation
<1>7. QED
  BY <1>5, <1>6

\* One turn of the loop of expr_eliminate_dups keeps the value of the tree.
LEMMA TurnsKeepValue ==
  ASSUME KOperandAssumption, NEW env, Environment(env),
         NEW X, NEW depth, Trees(X, depth), NEW V, Valuation(env, X, V), NEW Eq, EqualKeeps(X, V, Eq),
         NEW L, NEW R, \A t \in {"AND", "OR"} : Flattens(X, t, L[t]) /\ Rebuilds(X, t, L[t], R[t]),
         NEW Y, EliminatesYn(X, Y), NEW e \in X, NEW g, Turns(X, V, Eq, L, R, Y, e, g)
  PROVE  g \in X /\ V[g] = V[e]
<1>1. PICK t \in {"AND", "OR"}, K \in Nat :
        /\ e.type = t
        /\ \E s \in [0..K -> [1..Len(L[t][e]) -> X]] :
             /\ s[0] = L[t][e] /\ \A k \in 1..K : Eliminates(X, V, Eq, t, s[k - 1], s[k])
             /\ g \in {R[t][e][s[K]], Y[R[t][e][s[K]]]}
  BY Zenon DEF Turns
<1>2. PICK s \in [0..K -> [1..Len(L[t][e]) -> X]] :
        /\ s[0] = L[t][e] /\ \A k \in 1..K : Eliminates(X, V, Eq, t, s[k - 1], s[k])
        /\ g \in {R[t][e][s[K]], Y[R[t][e][s[K]]]}
  BY <1>1
<1> DEFINE Lt == L[t]
           Rt == R[t]
           x == Rt[e][s[K]]
<1>3. /\ Flattens(X, t, Lt) /\ Rebuilds(X, t, Lt, Rt)
      /\ s \in [0..K -> [1..Len(Lt[e]) -> X]] /\ s[0] = Lt[e]
      /\ \A k \in 1..K : Eliminates(X, V, Eq, t, s[k - 1], s[k])
      /\ g \in {x, Y[x]}
  BY <1>2
<1> HIDE DEF Lt, Rt
<1>4. x \in X /\ V[x] = V[e]
  <2>1. EliminateDups1Keeps(X, V, Eq, t, Lt, Rt)
    BY <1>3, EliminateDups1KeepsValue
  <2>2. QED
    BY <1>3, <2>1, Zenon DEF EliminateDups1Keeps
<1>5. Y[x] \in X /\ V[Y[x]] = V[x]
  <2>1. Clean(X, X)
    BY DEF Clean
  <2>2. \A a \in X : Y[a] \in X /\ V[Y[a]] = V[a]
    BY <2>1, EliminateYnKeepsValue DEF EliminatesYn
  <2> HIDE DEF x
  <2>3. QED
    BY <1>4, <2>2
<1>6. QED
  BY <1>3, <1>4, <1>5

\* The condition menu_finalize gives to an entry or a property (Bounded of KMenu),
\* from its own condition and that of what it is in: after rewrite_m,
\* expr_transform, any number of turns of expr_eliminate_dups and, for a bool,
\* expr_trans_bool, it is worth the lesser of the two, with every m bounded by
\* MODULES; for a bool, it is n just when that is.
THEOREM BoundedConditionMeans ==
  ASSUME KOperandAssumption, NEW env, Environment(env), NEW modules \in Symbols,
         NEW X, NEW w, Trees(X, w), Weighted(X, w), NEW V, Valuation(env, X, V),
         NEW U, BoundedValuation(env, modules, X, U), NEW P, NegatesSymbols(X, P),
         NEW M, RewritesM(X, modules, M), NEW T, Transforms(X, T), NEW Eq, EqualKeeps(P, V, Eq),
         NEW L, NEW R, \A t \in {"AND", "OR"} : Flattens(P, t, L[t]) /\ Rebuilds(P, t, L[t], R[t]),
         NEW Y, EliminatesYn(P, Y), NEW B, TransBool(X, B),
         NEW outer \in P, NEW own \in X,
         NEW N \in Nat, NEW q, q[0] = Two("AND", outer, T[M[own]]),
         \A i \in 1..N : Turns(P, V, Eq, L, R, Y, q[i - 1], q[i])
  PROVE  /\ V[q[N]] = Least(V[outer], U[own])
         /\ V[B[q[N]]] = 0 <=> V[outer] = 0 \/ U[own] = 0
<1> DEFINE Z == 0..N
           size == [i \in Z |-> i]
           S == {i \in Z : q[i] \in P /\ V[q[i]] = Least(V[outer], U[own])}
           c == T[M[own]]
<1>1. P \subseteq X /\ Trees(P, w) /\ Valuation(env, P, V)
  <2>1. Trees(P, w) /\ Valuation(env, P, V)
    BY NegatesSymbolsTrees
  <2>2. QED
    BY <2>1 DEF NegatesSymbols
<1>2. c \in P /\ V[c] = U[own]
  <2>1. \A e \in X : Not(e) \in X
    BY DEF Weighted
  <2>2. \A e \in X : M[e] \in X /\ V[M[e]] = U[e]
    BY <2>1, RewriteMBounds
  <2>3. \A e \in X : T[e] \in P /\ V[T[e]] = V[e]
    BY TransformTreeKeepsValue
  <2>4. QED
    BY <2>2, <2>3
<1> HIDE DEF c
<1>3. q[0] \in P /\ V[q[0]] = Least(V[outer], U[own])
  <2>1. q[0] = Two("AND", outer, c)
    BY DEF c
  <2>2. \A l \in P, r \in P : Two("AND", l, r) \in P /\ V[Two("AND", l, r)] = Least(V[l], V[r])
    BY <1>1, ValueOfTwo
  <2>3. QED
    BY <1>2, <2>1, <2>2
<1>4. Z \subseteq S
  <2>1. \A i \in Z : size[i] \in Nat /\ size[i] = i
    OBVIOUS
  <2>2. ASSUME NEW i \in Z, \A h \in Z : size[h] < size[i] => h \in S
        PROVE  i \in S
    <3>1. CASE i = 0
      BY <1>3, <3>1
    <3>2. CASE i # 0
      <4>1. i - 1 \in Z /\ i - 1 < i /\ i \in 1..N
        BY <3>2
      <4>2. i - 1 \in S
        BY <2>1, <2>2, <4>1
      <4> DEFINE e == q[i - 1]
                 g == q[i]
      <4>3. e \in P /\ V[e] = Least(V[outer], U[own]) /\ Turns(P, V, Eq, L, R, Y, e, g)
        BY <4>1, <4>2
      <4> HIDE DEF e, g
      <4>4. g \in P /\ V[g] = V[e]
        BY <1>1, <4>3, TurnsKeepValue
      <4>5. QED
        BY <4>3, <4>4 DEF g
    <3>3. QED
      BY <3>1, <3>2
  <2> HIDE DEF S, Z, size
  <2>3. QED
    BY <2>1, <2>2, SizeInduction
<1>5. q[N] \in P /\ V[q[N]] = Least(V[outer], U[own])
  BY <1>4
<1>6. V[B[q[N]]] = 0 <=> V[q[N]] = 0
  <2>1. \A e \in P : B[e] \in X /\ (V[B[e]] = 0 <=> V[e] = 0)
    BY TransBoolAgrees
  <2>2. QED
    BY <1>5, <2>1
<1>7. V[outer] \in 0..2 /\ U[own] \in 0..2
  BY <1>1 DEF Valuation, BoundedValuation, Tristate
<1>8. QED
  BY <1>5, <1>6, <1>7 DEF Least
=============================================================================
