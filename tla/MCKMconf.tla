----------------------------- MODULE MCKMconf -----------------------------
(* A Kconfig with modules, a choice with an entry below a value, a menu, a    *)
(* menuconfig with a number, and a comment.                                   *)
EXTENDS KMconf, MCKconfig

\* the value of Starts: a constant of its own, since TLC computes what replaces a
\* constant once, but what that is defined by at every use
CONSTANT Runs

const_Type == [s \in {"MODULES", "A", "B", "N", "CH", "V", "W", "X", "P", "n", "m", "y", "1", "3"} |->
                 CASE s \in {"N", "1", "3"} -> "INT"
                   [] s \in {"MODULES", "B", "X", "P"} -> "BOOLEAN"
                   [] OTHER -> "TRISTATE"]
const_Number == [s \in {"1", "3"} |-> IF s = "1" THEN 1 ELSE 3]
const_Hash == <<"CH", "W", "A", "N", "B", "MODULES", "X", "V", "P">>

\* to look around in
Large ==
  Prompted("MODULES")
  \o Prompted("A")
  \o Choice("CH", <<>>, Prompted("V") \o Prompted("X") \o <<<<"depends", Sym("V")>>>> \o Prompted("W"))
  \o <<<<"menuconfig", "B">>, <<"select", "A", NoExpr>>>>
  \o Prompted("N") \o <<<<"depends", Sym("B")>>, <<"range", "1", "3", NoExpr>>, <<"default", Sym("3"), NoExpr>>>>
  \o <<<<"menu">>, <<"depends", Sym("A")>>, <<"block">>>>
  \o Prompted("P") \o <<<<"comment">>>>
  \o <<<<"end">>>>

\* to change and save
Small ==
  <<<<"menuconfig", "A">>>>
  \o Prompted("N") \o <<<<"depends", Sym("A")>>, <<"range", "1", "3", NoExpr>>, <<"default", Sym("3"), NoExpr>>>>
  \o Prompted("P") \o <<<<"depends", Sym("A")>>, <<"depends", Sym("B")>>>>
  \o Prompted("B")

\* to save and load
Tiny ==
  <<<<"config", "MODULES">>, <<"default", Sym("y"), NoExpr>>>>
  \o Prompted("A") \o <<<<"depends", Sym("m")>>>>

\* to choose from
Few == Choice("CH", <<>>, Prompted("V") \o Prompted("X"))

Size(lines, cols) == [lines |-> lines, cols |-> cols]
const_Terminals == {Size(19, 80), Size(21, 80), Size(15, 70), Size(9, 60)}
Modular == <<1>> :> <<<<"MODULES", 2>>, <<"A", 1>>, <<"V", 1>>, <<"W", 0>>, <<"B", 0>>, <<"P", 0>>>>
Whole == <<1>> :> <<<<"MODULES", 0>>, <<"A", 2>>, <<"V", 2>>, <<"X", 2>>, <<"B", 2>>, <<"N", 1>>, <<"P", 0>>>>
Half == <<1>> :> <<<<"A", 2>>, <<"N", 3>>, <<"B", 0>>>>
NoFiles == [f \in {} |-> <<>>]
Start(text, files1, lines, single1, work1) ==
  [tree |-> Kconfig(text), files |-> files1, term |-> Size(lines, 80), single |-> single1, work |-> work1]
const_Runs ==
  {Start(Large, Modular, 19, FALSE, 0), Start(Large, Whole, 21, TRUE, 0),
   Start(Small, Half, 21, FALSE, 1), Start(Tiny, NoFiles, 21, FALSE, 2), Start(Few, NoFiles, 21, FALSE, 1)}
const_Starts == const_Runs
const_Initial == [i \in 1..12 |-> <<"a", "e", "z", "a">>[1 + (i % 4)]]
const_Searches == {<<"X", "P">>, <<"N">>}
=============================================================================
