----------------------------- MODULE MCKconfig -----------------------------
(* Kconfigs as sequences of statements (KParse has them one by one).          *)
EXTENDS KMenu

\* a symbol
Configured(b, s) == menu_add_entry([b EXCEPT !.optional = @ \union {s}], s)

\* the tree of a sequence of statements
Feed(b, t) ==
  CASE t[1] = "config" -> Configured(b, t[2])
    [] t[1] = "prompt" -> menu_add_prompt(b, "PROMPT", t[2])
    [] t[1] = "menuconfig" -> menu_add_prompt(Configured(b, t[2]), "MENU", NoExpr)
    [] t[1] = "comment" -> menu_add_prompt(menu_add_entry(b, NoSym), "COMMENT", NoExpr)
    [] t[1] = "depends" -> menu_add_dep(b, t[2])
    [] t[1] = "default" -> menu_add_expr(b, "DEFAULT", t[2], t[3])
    [] t[1] = "range" -> menu_add_expr(b, "RANGE", Comp("RANGE", t[2], t[3]), t[4])
    [] t[1] = "select" -> menu_add_symbol(b, "SELECT", t[2], t[3])
    [] t[1] = "choice" -> menu_add_expr(menu_add_entry(b, t[2]), "CHOICE", NoExpr, NoExpr)
    [] t[1] = "optional" -> [b EXCEPT !.optional = @ \union {b.node[b.entry].sym}]
    [] t[1] = "imply" -> menu_add_symbol(b, "IMPLY", t[2], t[3])
    [] t[1] = "block" -> menu_add_menu(b)
    [] t[1] = "menu" -> menu_add_prompt(menu_add_entry(b, NoSym), "MENU", NoExpr)
    [] t[1] = "end" -> menu_end_menu(b)
Kconfig(ts) == Finalized(Through(Feed, RootMenu, ts))

Prompted(s) == <<<<"config", s>>, <<"prompt", NoExpr>>>>
Choice(c, options, values) ==
  <<<<"choice", c>>, <<"prompt", NoExpr>>>> \o options \o <<<<"block">>>> \o values \o <<<<"end">>>>
=============================================================================
