------------------------------ MODULE MCKConf ------------------------------
(* Three versions of a Kconfig, with modules, choices, a select, an imply and *)
(* ranges, and configurations saved by any of them, or edited by hand.        *)
EXTENDS KConf, MCKconfig

\* the value of Trees: a constant of its own, since TLC computes what replaces a
\* constant once, but what that is defined by at every use
CONSTANT Versions

const_Type == [s \in {"MODULES", "A", "B", "R", "N", "CH", "V", "W", "X", "CB", "P", "Q", "n", "m", "y", "1", "2", "3"} |->
                 CASE s \in {"MODULES", "B", "R", "X"} -> "BOOLEAN"
                   [] s \in {"CB", "P", "Q"} -> "BOOLEAN"
                   [] s \in {"N", "1", "2", "3"} -> "INT"
                   [] OTHER -> "TRISTATE"]
const_Number == [s \in {"1", "2", "3"} |-> CHOOSE v \in 1..3 : s = <<"1", "2", "3">>[v]]
const_Hash == <<"CH", "W", "A", "N", "B", "MODULES", "R", "X", "V", "Q", "CB", "P">>

Texts ==
  <<Prompted("MODULES")
            \o Choice("CH", <<>>, Prompted("V") \o Prompted("W") \o <<<<"depends", Sym("A")>>>>)
            \o Prompted("A") \o <<<<"select", "R", NoExpr>>>>
            \o Prompted("R")
            \o <<<<"menu">>, <<"depends", Sym("R")>>, <<"block">>>>
            \o Prompted("N") \o <<<<"range", "1", "3", Sym("A")>>, <<"range", "1", "2", NoExpr>>, <<"default", Sym("2"), NoExpr>>>>
            \o <<<<"end">>>>,
    Prompted("MODULES")
            \o Prompted("A")
            \o <<<<"config", "R">>, <<"default", Sym("y"), Sym("A")>>>>
            \o Prompted("B") \o <<<<"depends", Sym("A")>>>>
            \o Prompted("X") \o <<<<"depends", Sym("B")>>, <<"default", Sym("y"), NoExpr>>>>
            \o Prompted("N") \o <<<<"range", "2", "3", Sym("A")>>, <<"default", Sym("3"), NoExpr>>>>
            \o Choice("CH", <<<<"default", Sym("V"), Sym("B")>>>>, Prompted("W") \o Prompted("V")),
    Prompted("MODULES")
            \o Prompted("X") \o <<<<"depends", Sym("A")>>, <<"imply", "B", NoExpr>>>>
            \o Choice("CB", <<<<"optional">>, <<"default", Sym("Q"), NoExpr>>>>, Prompted("P") \o Prompted("Q"))
            \o Prompted("A") \o <<<<"default", Sym("m"), Sym("P")>>>>
            \o Prompted("B") \o <<<<"default", Sym("y"), Sym("Q")>>>>>>
const_Versions == {Kconfig(Texts[v]) : v \in DOMAIN Texts}

\* .config, and auto.conf as conf and the build left it; the dependency files a
\* run touched before it was killed
After(config, auto, touched) ==
  [files |-> (".config" :> config) @@ ("auto.conf" :> auto), built |-> auto, dep |-> touched]
Modular == <<<<"MODULES", 2>>, <<"V", 1>>, <<"W", 0>>, <<"A", 1>>, <<"R", 2>>, <<"N", 3>>>>
\* two values of the choice, a number out of range
Edited == <<<<"MODULES", 0>>, <<"A", 2>>, <<"B", 0>>, <<"N", 1>>, <<"W", 2>>, <<"V", 2>>>>
const_Disks ==
  {[files |-> <<>>, built |-> <<>>, dep |-> {}],
   After(Modular, <<<<"MODULES", 2>>, <<"V", 1>>, <<"A", 1>>, <<"R", 2>>, <<"N", 3>>>>, {}),
   After(Edited, <<<<"A", 2>>, <<"R", 2>>, <<"B", 2>>, <<"X", 2>>, <<"N", 2>>>>, {"B"}),
   \* A is new, and X can only be seen once it is answered
   After(<<<<"MODULES", 0>>, <<"P", 0>>, <<"Q", 2>>, <<"B", 0>>>>, <<<<"Q", 2>>>>, {}),
   \* killed between the two renames of conf_write
   [files |-> (".config.old" :> Modular) @@ ("tmpconfig" :> Edited), built |-> <<>>, dep |-> {}]}
const_Defconfig == <<<<"MODULES", 2>>, <<"A", 2>>, <<"W", 2>>>>
const_Picks == {[tri |-> [s \in Symbols |-> IF s = "MODULES" \/ (s \in ChoiceSyms) = b THEN 2 ELSE 0],
                 sel |-> "CH" :> "V" @@ "CB" :> "P"] : b \in BOOLEAN}
const_Trees == const_Versions
=============================================================================
