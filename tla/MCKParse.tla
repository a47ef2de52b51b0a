------------------------------ MODULE MCKParse ------------------------------
(* Kconfigs for conf_parse: each template has a hole or two, which take all  *)
(* the expressions of a set.  A is a tristate, B and R are bool, CH is the   *)
(* symbol of a choice with the values V and W.                               *)
EXTENDS KParse

const_Type == [s \in {"A", "B", "R", "CH", "V", "W", "n", "m", "y"} |->
                 IF s \in {"B", "R", "V"} THEN "BOOLEAN" ELSE "TRISTATE"]
const_Number == [s \in {} |-> 0]
const_Hash == <<"A", "B", "CH", "R", "V", "W">>

Atoms == {Sym("A"), Sym("R"), Comp("EQUAL", "A", "m"), Comp("UNEQUAL", "A", "n"),
          Comp("EQUAL", "R", "n"), Sym("m")}
Signed == Atoms \union {Not(e) : e \in Atoms}
Pairs2 == {Two(t, e, f) : t \in {"AND", "OR"}, e \in Signed, f \in Signed}
Deep == {Two("AND", Two("OR", e, f), g) : e \in Atoms, f \in Signed, g \in {Sym("R"), Comp("EQUAL", "A", "m")}}
        \union {Not(Two(t, e, f)) : t \in {"AND", "OR"}, e \in Atoms, f \in Signed}
Few == {NoExpr, Sym("R"), Two("OR", Sym("A"), Sym("R")), Not(Sym("A")), Comp("EQUAL", "A", "m")}

Entry(s, p, d) == <<<<"config", s>>, <<"prompt", p>>, <<"depends", d>>>>

\* one condition, of any form
Single == {Entry("B", NoExpr, e) : e \in Pairs2 \union Deep}

\* an entry that may go below the one before it
Submenus == {Entry("A", NoExpr, d) \o Entry("B", e, f) : d \in Few, e \in Few, f \in Signed \union Deep}

\* an if, an entry without a prompt and a menu that can be hidden
Blocks ==
  {<<<<"if", d>>>> \o Entry("A", NoExpr, NoExpr) \o <<<<"config", "R">>, <<"depends", Sym("A")>>,
     <<"menu">>, <<"visible", e>>, <<"depends", f>>, <<"block">>>> \o Entry("B", Sym("R"), Sym("A"))
     \o <<<<"end">>, <<"end">>, <<"comment">>, <<"depends", Sym("A")>>>> : d \in Few, e \in Few, f \in Few}

\* a menuconfig whose entries end at endmenuconfig
Menuconfigs ==
  {<<<<"menuconfig", "A", d>>>> \o Entry("B", NoExpr, e) \o <<<<"endmenuconfig">>>> \o Entry("R", NoExpr, f)
     : d \in {NoExpr, Sym("R")}, e \in Atoms, f \in Atoms}

\* selects, and dependencies that may be recursive
Selects ==
  {<<<<"config", "A">>, <<"prompt", NoExpr>>, <<"depends", d>>, <<k, "B", e>>>>
     \o <<<<"config", "B">>, <<"default", f, NoExpr>>, <<"select", "R", NoExpr>>>> :
     d \in Few \union {Sym("B")}, e \in Few, f \in Few \union {Sym("B")}, k \in {"select", "imply"}}

\* a choice with two values, in a block or not
ChoiceSources ==
  {<<<<"choice", "CH">>, <<"prompt", d>>, <<"depends", e>>>> \o o \o <<<<"block">>, <<"if", f>>>>
     \o Entry("V", NoExpr, NoExpr) \o <<<<"end">>>> \o Entry("W", g, NoExpr) \o <<<<"end">>>>
     \o Entry("A", NoExpr, h) :
     d \in {NoExpr, Sym("R")}, e \in {NoExpr, Sym("A")}, o \in {<<>>, <<<<"optional">>>>},
     f \in {Sym("R"), Sym("A")}, g \in {NoExpr, Sym("V")}, h \in {NoExpr, Sym("V"), Sym("CH")}}

Plain(ts) == SelectSeq(ts, LAMBDA t : t # <<"depends", NoExpr>>)
const_Sources == {Plain(s) : s \in Single \union Submenus \union Blocks \union Menuconfigs
                                    \union Selects \union ChoiceSources}
=============================================================================
