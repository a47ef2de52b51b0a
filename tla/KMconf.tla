------------------------------- MODULE KMconf -------------------------------
(***************************************************************************)
(* mconf (kconfig/mconf.c), the program behind menuconfig: menus over the   *)
(* tree of a Kconfig, drawn with the boxes of lxdialog, the questions about *)
(* values, loading and saving, the search, and the exit.                    *)
(*                                                                          *)
(* stack holds the loops of the C functions that have not returned, the     *)
(* innermost first; dlg is the box that waits for a key.  Without a box the *)
(* innermost loop goes on to its next one.                                  *)
(***************************************************************************)
EXTENDS KConfData, Dialogs

CONSTANTS Starts,        \* what a run may find: a finalized tree, the files, the
                         \* terminal's size, the mode, and the bound for the run
          Initial,       \* the letter an entry's prompt begins with
          Letters,       \* the letters that are typed
          Searches,      \* the results a search may have: sequences of symbols
          HelpLines      \* lines of a help text

VARIABLES files,      \* the lines of each file that exists
          filename,   \* the file to save to
          T,          \* the Kconfig
          single,     \* single_menu_mode
          d,          \* the symbols in memory
          adrift,     \* history: edits or write flags were dropped without being saved
          show_all,   \* show_all_options
          opened,     \* the menus that are open in single menu mode
          leaving,    \* save_and_exit
          stack,
          work        \* bound: values set, searches, loads, saves and resizes still to come

store == <<files, filename, adrift>>
setup == <<T, single>>
shown == <<show_all, opened, leaving>>
vars == <<store, setup, term, d, shown, stack, dlg, work>>

\* file names and numbers are texts over Chars; .config is <<1>>
Config == <<1>>
Old(name) == Append(name, 0)
Texts == UNION {[1..n -> Chars] : n \in 0..MaxLen}
Digits(v) == IF v = Empty THEN <<>> ELSE IF v < 10 THEN <<v>> ELSE <<v \div 10, v % 10>>
Entered(text) == IF text = <<>> THEN Empty ELSE FoldLeft(LAMBDA v, c : 10 * v + c, 0, text)

Conf(menu, active) == [is |-> "conf", menu |-> menu, active |-> active, scroll |-> 0]
Loop(name) == [is |-> name]

Top == Head(stack)
Turn(name) == On("none") /\ stack # <<>> /\ Top.is = name
InLoop(names) == stack # <<>> /\ Top.is \in names

\* the boxes are opened and keys are read, the symbols become c
Go(c, loops, box) ==
  /\ d' = c /\ stack' = loops /\ dlg' = box
  /\ UNCHANGED <<store, setup, term, shown>>
Free == UNCHANGED work
Spend == work > 0 /\ work' = work - 1

\* the Kconfig and .config are read before the terminal is looked at
Init ==
  /\ \E start \in Starts :
       /\ T = start.tree /\ files = start.files /\ term = start.term
       /\ single = start.single /\ work = start.work
  /\ ScreenFits(term) /\ filename = Config
  /\ d = IF Config \in DOMAIN files THEN conf_read(T, Fresh(T), files[Config])
         ELSE conf_read_missing(T, Fresh(T), TRUE)
  /\ adrift = FALSE /\ show_all = FALSE /\ opened = {} /\ leaving = FALSE
  /\ stack = <<Conf(1, NoEntry)>> /\ dlg = NoBox
-----------------------------------------------------------------------------
(* The list of a menu.                                                      *)

Listing(c, tag, i) == [c EXCEPT !.items = Append(@, [tag |-> tag, k |-> i])]
IsMenu(i) == T.prop[T.node[i].prompt].type = "MENU"

RECURSIVE build_conf(_, _, _)
Kids(c, i, current) == Through(LAMBDA e, k : build_conf(e, k, current), c, T.kids[i])

\* what follows an entry: nothing, the entries below it, or below another one
Following(c, i, current, how) ==
  IF how = "kids" THEN Kids(c, i, current)
  ELSE IF how = "none" THEN c
  ELSE build_conf(c, i, current)

\* a menu or a comment; looking for entries in a menu calculates them
PlainItem(c, i, current) ==
  LET fold == IsMenu(i) /\ i # current
      look == fold /\ ~single
      put(e) == IF i = current THEN e ELSE Listing(e, IF fold THEN "m" ELSE ":", i)
  IN  [c |-> put(c), i |-> i, look |-> look,
       how |-> IF fold /\ ~(single /\ i \in opened) THEN "none" ELSE "kids"]

\* mutant: the entries below the chosen value are left out
ChoiceItem_mut(c, i) ==
  [c |-> Listing(c, "t", i), i |-> i, look |-> FALSE,
   how |-> IF c.d.tri[T.node[i].sym] # 2 THEN "kids" ELSE "none"]

\* a choice: of one that is y only the chosen value can have entries below it
ChoiceItem(c, i) ==
  LET s == T.node[i].sym
      defs == {k \in ToSet(T.kids[i]) : k \in c.seen /\ T.node[k].sym = c.d.sel[s]}
      list == Listing(c, IF sym_is_changable(c.d, s) \/ defs # {} THEN "t" ELSE ":", i)
  IN  IF c.d.tri[s] # 2 THEN [c |-> list, i |-> i, look |-> FALSE, how |-> "kids"]
      ELSE IF \E k \in defs : T.kids[k] # <<>>
      THEN [c |-> list, i |-> CHOOSE k \in defs : T.kids[k] # <<>>, look |-> FALSE, how |-> "entry"]
      ELSE [c |-> list, i |-> i, look |-> FALSE, how |-> "none"]

SymbolItem(c, i, current) ==
  LET s == T.node[i].sym
      held == sym_is_choice_value(T, s) /\ c.d.tri[s] = 2
      tag == IF i = current \/ (held /\ IsBool(s)) THEN ":" ELSE IF IsBool(s) THEN "t" ELSE "s"
      alone == i # current /\ IsBool(s) /\ IsMenu(i)
  IN  [c |-> Listing(c, tag, i), i |-> i, look |-> alone, how |-> IF alone THEN "none" ELSE "kids"]

\* the visible values of a choice, and what looking at them calculates
Looked(c, i) ==
  LET look(e, r, k) == [e EXCEPT !.d = r.d, !.seen = IF r.v THEN @ \union {k} ELSE @]
  IN  Through(LAMBDA e, k : look(e, menu_is_visible(T, e.d, k), k), c, T.kids[i])

\* the entries of a menu are looked at up to the first that is visible
LookedInto(x) == IF x.look THEN [x EXCEPT !.c.d = menu_is_empty(T, x.c.d, x.i).d] ELSE x

Item(c, i, current) ==
  IF T.node[i].sym = NoSym THEN PlainItem(c, i, current)
  ELSE IF sym_is_choice(T.node[i].sym) THEN ChoiceItem(Looked(c, i), i)
  ELSE SymbolItem(c, i, current)

Built(c, v, i, current) ==
  LET next(x) == Following(x.c, x.i, current, x.how)
  IN  IF T.node[i].prompt = 0 \/ (~show_all /\ ~v) THEN c ELSE next(LookedInto(Item(c, i, current)))

\* c has the symbols, the items so far and the choice values that were seen
build_conf(c, i, current) ==
  LET built(r) == Built([c EXCEPT !.d = r.d], r.v, i, current)
  IN  built(menu_is_visible(T, c.d, i))

Items(menu) == build_conf([d |-> d, items |-> <<>>, seen |-> {}], menu, menu)

\* the last item of an entry, -1 for none
Place(items, k) == Max({x - 1 : x \in {y \in DOMAIN items : items[y].k = k}} \union {-1})
-----------------------------------------------------------------------------
(* The menu box.                                                            *)

OpenMenu ==
  /\ Turn("conf") /\ Free
  /\ IF MenuFits(term)
     THEN \E c \in {Items(Top.menu)} :
            Go(c.d, stack, MenuOf(MenuOpen(Len(c.items), MenuHeight(term),
                                           Greater(Place(c.items, Top.active), 0), Top.scroll), c.items, FALSE))
     ELSE Go(d, Tail(stack), NoBox)

\* the rows whose item begins with the letter
RowsWith(l) == {r \in 0..Box.max-1 : Initial[dlg.items[Box.scroll + r + 1].k] = l}

MenuKey ==
  /\ On("menu") /\ Free
  /\ \E b \in MenuMoves({RowsWith(l) : l \in Letters}) : Go(d, stack, [dlg EXCEPT !.box = b])

\* the box returns res: Select, Exit, Help, Save and Load are buttons; h, e and
\* the other letters are keys, unless an item on the screen begins with them
Returns(res) ==
  /\ On("menu")
  /\ res \in {0, 3, 4} => Box.button = res
  /\ res = 10 => RowsWith("z") = {}

Selected == IF dlg.items = <<>> THEN [k |-> NoEntry, tag |-> "none"] ELSE dlg.items[MenuItem(Box) + 1]
Entry == Selected.k
Symbol == IF Entry = NoEntry THEN NoSym ELSE T.node[Entry].sym
Back == <<[Top EXCEPT !.active = Entry, !.scroll = Box.scroll]>> \o Tail(stack)

\* the loop that Select starts
Opens ==
  CASE Selected.tag = "m" -> <<Conf(Entry, NoEntry)>>
    [] Selected.tag = "s" -> <<[is |-> "string", menu |-> Entry]>>
    [] Selected.tag = "t" /\ sym_is_choice(Symbol) /\ d.tri[Symbol] = 2 ->
         <<[is |-> "choice", menu |-> Entry, active |-> d.sel[Symbol]]>>
    [] Selected.tag = "t" /\ IsMenu(Entry) /\ (sym_is_optional(T, Symbol) => d.tri[Symbol] = 2) ->
         <<Conf(Entry, NoEntry)>>
    [] OTHER -> <<>>

Select ==
  /\ Returns(0) /\ ~(single /\ Selected.tag = "m") /\ Free
  /\ Go(d, Opens \o Back, NoBox)

\* in single menu mode a menu is opened and closed in its place
Fold ==
  /\ Returns(0) /\ single /\ Selected.tag = "m" /\ Free
  /\ opened' = IF Entry \in opened THEN opened \ {Entry} ELSE opened \union {Entry}
  /\ stack' = Back /\ dlg' = NoBox
  /\ UNCHANGED <<store, setup, term, d, show_all, leaving>>

Leave == Returns(1) /\ Free /\ Go(d, Tail(stack), NoBox)

\* y, n and m: y falls back to m
Values(res) ==
  CASE res = 5 -> IF d.tri[Symbol] # 2 /\ ~sym_tristate_within_range(T, d, Symbol, 2) THEN 1 ELSE 2
    [] res = 6 -> 0
    [] res = 7 -> 1

\* a change calculates anew, and with that what is to be written
Changes(c, loops, box) ==
  /\ d' = c /\ stack' = loops /\ dlg' = box
  /\ adrift' = (adrift /\ d.valid \subseteq c.valid)
  /\ UNCHANGED <<files, filename, setup, term, shown>>

\* a message of a few lines, and the lines a function prints
Message(n, initial) ==
  TextBox(TextOpen(n, FALSE, initial - 4, FALSE, 0, 0), initial - 4, initial, <<>>, FALSE)
HelpText ==
  LET h == TextHeight(term, 0) IN TextBox(TextOpen(HelpLines, TRUE, h, FALSE, 0, 0), h, 0, <<>>, FALSE)

SetValue(res) ==
  /\ Returns(res) /\ Selected.tag = "t" /\ Spend
  /\ \E v \in {Values(res)} : \E r \in {sym_set_tristate_value(T, d, Symbol, v)} :
       Changes(r.d, Back, IF res = 5 /\ v = 1 /\ r.ok THEN Message(2, 6) ELSE NoBox)

Space ==
  /\ Returns(8)
  /\ \/ Selected.tag = "t" /\ Spend /\ Changes(sym_toggle_tristate_value(T, d, Symbol), Back, NoBox)
     \/ Selected.tag = "m" /\ Free /\ Go(d, Opens \o Back, NoBox)

\* a value key on an item that has none: only the cursor is kept
NoValue ==
  /\ \/ Returns(8) /\ Selected.tag \notin {"t", "m"}
     \/ Returns(5) /\ Selected.tag # "t"
  /\ Free /\ Go(d, Back, NoBox)

Ask(res, name) == Returns(res) /\ Free /\ Go(d, <<Loop(name)>> \o Back, NoBox)

ShowAll ==
  /\ Returns(10) /\ Free
  /\ show_all' = ~show_all /\ stack' = Back /\ dlg' = NoBox
  /\ UNCHANGED <<store, setup, term, d, opened, leaving>>
-----------------------------------------------------------------------------
(* The search.                                                              *)

Ancestors(i) == SelectSeq(Above(T, i), LAMBDA k : k # 1)

\* the visible ones among the menus around entry i; i is only looked at where
\* there is one
Accessible(c, i) ==
  LET add(a, r, k) == [d |-> r.d, seen |-> IF r.v THEN Append(a.seen, k) ELSE a.seen]
  IN  Through(LAMBDA a, k : IF k = i /\ a.seen = <<>> THEN a ELSE add(a, menu_is_visible(T, a.d, k), k),
              [d |-> c, seen |-> <<>>], Append(Ancestors(i), i))

\* mutant: the entry itself is offered, seen or not
JumpTo_mut(a, i) == i

\* where the key of a result leads: the entry, or the nearest menu that is visible
JumpTo(a, i) == IF a.seen[Len(a.seen)] = i THEN i ELSE Head(a.seen)

\* the lines of a prompt: the menus around it, the outermost first; the key
\* stands where the nearest visible one is printed
PromptLines(c, a, i) ==
  LET ups == Ancestors(i)
      near == CHOOSE x \in DOMAIN ups : ups[x] = Head(a.seen)
      jump == [line |-> c.lines + 2 + Len(ups) - near, target |-> JumpTo(a, i)]
  IN  [d |-> a.d, lines |-> c.lines + (IF ups = <<>> THEN 1 ELSE 2 + Len(ups)),
       jumps |-> IF a.seen = <<>> THEN c.jumps ELSE Append(c.jumps, jump)]
get_prompt_str(c, i) == LET lines(a) == PromptLines(c, a, i) IN lines(Accessible(c.d, i))

\* a symbol has two lines before its prompts and three after them
get_symbol_str(c, s) ==
  LET after(e) == [e EXCEPT !.lines = @ + 3]
  IN  after(Through(LAMBDA e, x : get_prompt_str(e, T.prop[x].menu), [c EXCEPT !.lines = @ + 2], Prompts(T, s)))

get_relations_str(c, ss) ==
  LET none(r) == IF ss = <<>> THEN [r EXCEPT !.lines = 1] ELSE r
  IN  none(Through(get_symbol_str, [d |-> c, lines |-> 0, jumps |-> <<>>], ss))

\* the symbols found are calculated; a search for nothing finds nothing
sym_re_search(ss) == Through(LAMBDA c, s : sym_calc_value(T, c, s), d, ss)

Found(ss) == [is |-> "found", syms |-> ss, vscroll |-> 0, hscroll |-> 0]

OpenResults ==
  LET h == TextHeight(term, 0)
  IN  /\ Turn("found") /\ Free
      /\ \E r \in {get_relations_str(d, Top.syms)} :
           Go(r.d, stack, TextBox(TextOpen(r.lines, TRUE, h, TRUE, Top.vscroll, Top.hscroll),
                                  h, 0, r.jumps, TRUE))

\* help on an item: that of its symbol looks at the menus around it
ShowHelp(s, loops) ==
  IF s = NoSym THEN Go(d, loops, HelpText)
  ELSE \E r \in {get_relations_str(d, <<s>>)} : Go(r.d, loops, HelpText)
-----------------------------------------------------------------------------
(* Text boxes.                                                              *)

TextMove ==
  /\ On("text") /\ Free
  /\ \E key \in TextKeys :
       Go(d, stack, [dlg EXCEPT !.box = TextKey(Box, key, dlg.height, dlg.found, MaxLen)])

\* the results keep their position for the next time they are shown
Positioned == [Top EXCEPT !.vscroll = VScroll(Box), !.hscroll = Box.hscroll]

\* mutant: after a jump the results are shown once more, whatever the key
TextEnd_mut == On("text") /\ Free /\ Go(d, IF dlg.found THEN <<Positioned>> \o Tail(stack) ELSE stack, NoBox)

TextEnd == On("text") /\ Free /\ Go(d, IF dlg.found THEN Tail(stack) ELSE stack, NoBox)

\* the keys 1 to 9 of the results on the screen
Jump ==
  /\ On("text") /\ Free
  /\ \E j \in DOMAIN dlg.jumps :
       /\ dlg.jumps[j].line \in Box.top..Box.page-1
       /\ Go(d, <<Conf(T.up[dlg.jumps[j].target], dlg.jumps[j].target), Positioned>> \o Tail(stack), NoBox)
-----------------------------------------------------------------------------
(* A choice.                                                                *)

\* the visible values and comments of a choice
Options(i) ==
  LET add(c, r, k) == [d |-> r.d, l |-> IF r.v THEN Append(c.l, k) ELSE c.l]
  IN  Through(LAMBDA c, k : add(c, menu_is_visible(T, c.d, k), k), [d |-> d, l |-> <<>>], T.kids[i])

\* the highlighted one: the active symbol's, or else the value's
Highlighted(ks, active, value) ==
  LET of(s) == {x - 1 : x \in {y \in DOMAIN ks : T.node[ks[y]].sym = s}}
  IN  IF of(active) # {} THEN Min(of(active)) ELSE Max(of(value) \union {0})

OpenChoice ==
  /\ Turn("choice") /\ Free
  /\ \E c \in {Options(Top.menu)} :
       IF FitsList(term)
       THEN Go(c.d, stack, ListOf(ListOpen(Len(c.l), CheckListHeight,
                 Highlighted(c.l, Top.active, c.d.sel[T.node[Top.menu].sym])), c.l))
       ELSE Go(c.d, Tail(stack), NoBox)

ListRows(l) == {r \in 0..Box.max-1 : Initial[dlg.items[Box.scroll + r + 1]] = l}
ListKey ==
  /\ On("list") /\ Free
  /\ \E b \in ListMoves({ListRows(l) : l \in Letters}) : Go(d, stack, [dlg EXCEPT !.box = b])

Option == dlg.items[ListItem(Box) + 1]

\* a comment cannot be chosen: the list is shown again
ChooseValue ==
  /\ On("list") /\ Box.button = 0
  /\ LET s == T.node[Option].sym
     IN  \/ s = NoSym /\ Free /\ Go(d, stack, NoBox)
         \/ s # NoSym /\ Spend /\ Changes(sym_set_tristate_value(T, d, s, 2).d, Tail(stack), NoBox)

ListHelp ==
  /\ On("list") /\ Free
  /\ LET s == T.node[Option].sym
     IN  ShowHelp(s, <<[Top EXCEPT !.active = s]>> \o Tail(stack))

ListEscape == On("list") /\ Free /\ Go(d, Tail(stack), NoBox)
-----------------------------------------------------------------------------
(* The input boxes: a number, a file to load or to save to, a search.       *)

Height(loop) == IF loop \in {"load", "save"} THEN 11 ELSE 10
Width(loop) == IF loop \in {"load", "save"} THEN 55 ELSE 75
Fits(t, loop) == InputFits(t, Height(loop), Width(loop))

\* a box that does not fit is opened again for ever, but for a search
Unfit(loop) == IF loop = "search" THEN Go(d, Tail(stack), NoBox) ELSE Go(d, stack, Hung)

Prefilled == CASE Top.is = "string" -> Digits(d.val[T.node[Top.menu].sym])
               [] Top.is = "search" -> <<>>
               [] OTHER -> filename

Inputs == {"string", "load", "save", "search"}
OpenInput ==
  /\ \E name \in Inputs : Turn(name)
  /\ Free
  /\ IF Fits(term, Top.is) THEN Go(d, stack, InputOf(InputOpen(Prefilled, InputWidth, -1)))
     ELSE Unfit(Top.is)

\* mutant: letters go into the text while a button is selected
InputKey_mut ==
  /\ On("input") /\ Free
  /\ \E b \in InputMoves \union Edits : Go(d, stack, InputOf(b))

InputKey ==
  /\ On("input") /\ Free
  /\ \E b \in InputMoves : Go(d, stack, InputOf(b))

\* OK can always be reached, Help is a button
Accepts(loop) == On("input") /\ Top.is = loop
Again(box) == Go(d, stack, box)

InputHelp ==
  /\ On("input") /\ Box.button # -1 /\ Free
  /\ IF Top.is = "string" THEN ShowHelp(T.node[Top.menu].sym, stack) ELSE Again(HelpText)
InputEscape == On("input") /\ Free /\ Go(d, Tail(stack), NoBox)

conf_string ==
  /\ Accepts("string") /\ Spend
  /\ \E r \in {sym_set_string_value(T, d, T.node[Top.menu].sym, Entered(Box.text))} :
       IF r.ok THEN Changes(r.d, Tail(stack), NoBox) ELSE Go(r.d, stack, Message(1, 5))

search_conf ==
  /\ Accepts("search") /\ Spend
  /\ \E ss \in IF Box.text = <<>> THEN {<<>>} ELSE Searches :
       Go(sym_re_search(ss), <<Found(ss)>> \o Tail(stack), NoBox)

\* mutant: an empty name is a name
Named_mut == TRUE

\* an empty name does nothing
Named == Box.text # <<>>

\* a file that is loaded counts as a change; one that is not there clears the
\* change count and nothing else
conf_load ==
  /\ Accepts("load") /\ Named /\ Box.text \in DOMAIN files /\ Spend
  /\ d' = [conf_read(T, d, files[Box.text]) EXCEPT !.changed = TRUE]
  /\ filename' = Box.text /\ adrift' = FALSE
  /\ stack' = Tail(stack) /\ dlg' = NoBox
  /\ UNCHANGED <<files, setup, term, shown>>

NoFile ==
  /\ Accepts("load") /\ Named /\ Box.text \notin DOMAIN files /\ Spend
  /\ d' = conf_read_missing(T, d, FALSE)
  /\ adrift' = (adrift \/ d.changed)
  /\ dlg' = Message(1, 5)
  /\ UNCHANGED <<files, filename, setup, term, shown, stack>>

NoName == InLoop({"load", "save"}) /\ On("input") /\ ~Named /\ Free /\ Go(d, Tail(stack), NoBox)
-----------------------------------------------------------------------------
(* Saving.                                                                  *)

BackedUp(name) ==
  IF name \in DOMAIN files
  THEN [f \in (DOMAIN files \ {name}) \union {Old(name)} |-> IF f = Old(name) THEN files[name] ELSE files[f]]
  ELSE files
Saved(name, lines) == (name :> lines) @@ BackedUp(name)

\* whether what is written is complete: only if the change count is clear are
\* the flags set anew of what was written already
Complete == d.changed => ~adrift

\* the message comes before the change count is cleared, which the look at what
\* to write has raised; the loop "wrote" is the rest of conf_write
conf_save ==
  /\ Accepts("save") /\ Named /\ Spend
  /\ \E w \in {conf_write(T, d)} :
       /\ files' = Saved(Box.text, w.lines) /\ d' = w.d
       /\ stack' = <<[is |-> "wrote", name |-> Box.text, good |-> Complete]>> \o Tail(stack)
  /\ dlg' = IF leaving THEN NoBox ELSE Message(1, 6)
  /\ adrift' = TRUE
  /\ UNCHANGED <<filename, setup, term, shown>>

\* mutant: the file to save to stays the same
wrote_mut ==
  /\ Turn("wrote") /\ Free
  /\ d' = [d EXCEPT !.changed = FALSE] /\ adrift' = ~Top.good
  /\ stack' = Tail(stack)
  /\ UNCHANGED <<files, filename, setup, term, shown, dlg>>

wrote ==
  /\ Turn("wrote") /\ Free
  /\ d' = [d EXCEPT !.changed = FALSE] /\ filename' = Top.name /\ adrift' = ~Top.good
  /\ stack' = Tail(stack)
  /\ UNCHANGED <<files, setup, term, shown, dlg>>

\* the file cannot be created, or not renamed once it is written
NotCreated == Accepts("save") /\ Named /\ Spend /\ Again(Message(1, 5))
NotRenamed ==
  /\ Accepts("save") /\ Named /\ Spend
  /\ files' = BackedUp(Box.text) /\ d' = conf_write(T, d).d
  /\ adrift' = TRUE
  /\ dlg' = Message(1, 5)
  /\ UNCHANGED <<filename, setup, term, shown, stack>>
-----------------------------------------------------------------------------
(* The end.                                                                 *)

\* handle_exit, from main or from the handler of SIGINT
handle_exit(handler) ==
  LET ask == d.changed /\ YesNoFits(term, 6, 60)
  IN  /\ leaving' = TRUE /\ stack' = <<>>
      /\ dlg' = IF ask THEN YesNo(0, handler) ELSE Over(IF d.changed THEN "unsaved" ELSE "end")
      /\ UNCHANGED <<store, setup, term, d, show_all, opened>>

MainLoop == On("none") /\ stack = <<>> /\ Free /\ handle_exit(FALSE)
sig_handler == ~On("none") /\ ~On("over") /\ (On("yesno") => ~dlg.handler) /\ Free /\ handle_exit(TRUE)

ExitTurn == On("yesno") /\ Free /\ Go(d, stack, YesNo(1 - dlg.button, dlg.handler))

Yes ==
  /\ On("yesno") /\ dlg.button = 0 /\ Free
  /\ \E w \in {conf_write(T, d)} :
       /\ d' = [w.d EXCEPT !.changed = FALSE]
       /\ files' = Saved(filename, w.lines)
  /\ adrift' = ~Complete /\ dlg' = Over("saved")
  /\ UNCHANGED <<filename, setup, term, shown, stack>>
YesFails == On("yesno") /\ dlg.button = 0 /\ Free /\ Go(d, stack, Over("unsaved"))
No == On("yesno") /\ Free /\ Go(d, stack, Over("unsaved"))

\* ESC continues, unless the question came from a signal
ExitEscape ==
  /\ On("yesno") /\ Free
  /\ IF dlg.handler THEN Go(d, stack, Over("unsaved")) ELSE Go(d, <<Conf(1, NoEntry)>>, NoBox)
-----------------------------------------------------------------------------
(* The terminal has another size: the box on the screen is drawn again, or  *)
(* gives up.                                                                *)

Redrawn(t) ==
  CASE On("menu") -> IF MenuFits(t)
                     THEN LET b == MenuResized(Box, MenuHeight(t), Place(dlg.items, Top.active), Top.scroll)
                          IN  [stack |-> stack, dlg |-> IF MenuCrashes(b) THEN Over("crash") ELSE MenuOf(b, dlg.items, TRUE)]
                     ELSE [stack |-> Tail(stack), dlg |-> NoBox]
    [] On("list") -> IF FitsList(t) THEN [stack |-> stack, dlg |-> dlg]
                     ELSE [stack |-> Tail(stack), dlg |-> NoBox]
    [] On("input") -> IF Fits(t, Top.is)
                      THEN [stack |-> stack, dlg |-> InputOf(InputOpen(Box.text, InputWidth, Box.button))]
                      ELSE IF Top.is = "search" THEN [stack |-> Tail(stack), dlg |-> NoBox]
                      ELSE [stack |-> stack, dlg |-> Hung]
    [] On("yesno") -> [stack |-> stack, dlg |-> IF YesNoFits(t, 6, 60) THEN dlg ELSE Over("unsaved")]
    [] On("text") -> LET h == TextHeight(t, dlg.initial)
                     IN  [stack |-> stack, dlg |-> [dlg EXCEPT !.height = h,
                                 !.box = TextResized(Box, dlg.height, h, dlg.found)]]

Resize ==
  /\ dlg.kind \in {"menu", "list", "input", "yesno", "text"} /\ Spend
  /\ \E t \in Terminals \ {term} :
       /\ term' = t
       /\ stack' = Redrawn(t).stack /\ dlg' = Redrawn(t).dlg
  /\ UNCHANGED <<store, setup, d, shown>>
-----------------------------------------------------------------------------
Open == OpenMenu \/ OpenResults \/ OpenChoice \/ OpenInput \/ wrote \/ MainLoop

Move == MenuKey \/ TextMove \/ ListKey \/ InputKey \/ ExitTurn

Act ==
  \/ Select \/ Fold \/ Space \/ NoValue \/ ShowAll
  \/ \E res \in 5..7 : SetValue(res)
  \/ Ask(3, "save") \/ Ask(4, "load") \/ Ask(9, "search")
  \/ Returns(2) /\ Free /\ ShowHelp(Symbol, Back)
  \/ Jump \/ ChooseValue \/ ListHelp \/ InputHelp
  \/ conf_string \/ search_conf \/ conf_load \/ NoFile \/ NoName
  \/ conf_save \/ NotCreated \/ NotRenamed
  \/ Yes \/ YesFails

\* what leads out: ESC, and No to the question at the end
Escape == Leave \/ TextEnd \/ ListEscape \/ InputEscape \/ No

Next == Open \/ Move \/ Act \/ Escape \/ ExitEscape \/ sig_handler \/ Resize
Spec == Init /\ [][Next]_vars
-----------------------------------------------------------------------------
(* Properties.                                                              *)

TypeOK ==
  /\ DOMAIN files \subseteq Texts \union {Old(name) : name \in Texts}
  /\ filename \in Texts \ {<<>>}
  /\ term \in Terminals /\ work >= 0
  /\ opened \subseteq DOMAIN T.node
  /\ \A x \in DOMAIN stack : stack[x].is \in Inputs \union {"conf", "choice", "found", "wrote"}
  /\ dlg.kind \in {"input", "list", "menu"} => stack # <<>>
  /\ On("menu") => Top.menu \in DOMAIN T.node /\ Box.button \in 0..4

\* Every entry that can be seen can be found: it stands in the list of the menu
\* around it, or in the list of a choice that stands there.
Listed(c, m) == LET of(items) == {items[x].k : x \in DOMAIN items}
                IN  of(build_conf([d |-> c, items |-> <<>>, seen |-> {}], m, m).items)
Around(i) == menu_get_parent_menu(T, T.up[i])
EntriesReachable == Turn("conf") =>
  LET seen(c) == {i \in DOMAIN T.node \ {1} : menu_is_visible(T, c, i).v}
      inchoice(c, i, list) == LET p == T.up[i] s == T.node[p].sym
                              IN  sym_is_choice(s) /\ c.tri[s] = 2 /\ p \in list
      found(c, i, list) == i \in list \/ inchoice(c, i, list)
      all(c) == \A i \in seen(c) : found(c, i, Listed(c, Around(i)))
  IN  all(CalcAll(T, d, for_all_symbols(T)))

\* The keys of the results lead to menus that show what was searched for.  (Not
\* for the values of a choice: the menu of a choice does not list them.)
JumpLands == On("text") =>
  \A x \in DOMAIN dlg.jumps :
    LET i == dlg.jumps[x].target
        m == T.up[i]
    IN  sym_is_choice(T.node[m].sym) \/ i \in Listed(d, m)

\* If the end comes without a question, the file that is to be saved to reads
\* back into the values in memory.  (Not after a file that could not be loaded,
\* or a save that failed or was interrupted, see adrift.)
CleanIsSaved ==
  (On("none") \/ On("over")) /\ ~d.changed /\ ~adrift =>
    LET same(c, e) == \A s \in Defined(T) : c.tri[s] = e.tri[s] /\ c.val[s] = e.val[s]
    IN  /\ filename \in DOMAIN files
        /\ same(conf_read(T, Fresh(T), files[filename]), CalcAll(T, d, for_all_symbols(T)))

\* Who presses only ESC, and No at the end, gets out: from any menu, list, text
\* or input box, in any nesting.
Ended == On("over") \/ On("hung")
EscapeLeaves ==
  <>[][Open \/ Escape]_vars /\ []<><<Open \/ Escape>>_vars => <>Ended
=============================================================================
