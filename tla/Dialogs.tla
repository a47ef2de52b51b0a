------------------------------- MODULE Dialogs -------------------------------
(***************************************************************************)
(* What menuconfig puts on the screen, without the Kconfig behind it: one   *)
(* box at a time, opened by the functions of lxdialog with any contents at  *)
(* any position, changed by its keys and by resizes only.  KMconf, which    *)
(* decides what is in the boxes, implements ScreenSpec; what holds of every *)
(* behaviour of ScreenSpec holds of it.                                     *)
(***************************************************************************)
EXTENDS LxDialog

CONSTANTS Terminals,            \* the sizes a terminal may have
          Chars,                \* the characters that are typed into an input box
          InputWidth, MaxLen    \* width of the input boxes and MAX_LEN

ASSUME DialogsAssumption ==
  /\ \A t \in Terminals : t.lines \in Nat /\ t.lines >= 9
  /\ Chars \subseteq Nat
  /\ InputWidth \in Nat \ {0} /\ MaxLen \in Nat

VARIABLES term,    \* the terminal's size
          dlg      \* the box that waits for a key, or why there is none

screen == <<term, dlg>>

NoBox == [kind |-> "none"]
Hung == [kind |-> "hung"]        \* a loop that opens a box that does not fit
Over(how) == [kind |-> "over", how |-> how]
MenuOf(box, items, redrawn) == [kind |-> "menu", box |-> box, items |-> items, redrawn |-> redrawn]
ListOf(box, items) == [kind |-> "list", box |-> box, items |-> items]
InputOf(box) == [kind |-> "input", box |-> box]
YesNo(button, handler) == [kind |-> "yesno", button |-> button, handler |-> handler]

\* a text box: found says that it has the results of a search, which put keys
\* into the page; initial is the height the caller asks for, 0 for all there is
TextBox(b, height, initial, jumps, found) ==
  [kind |-> "text", box |-> b, height |-> height, initial |-> initial, jumps |-> jumps, found |-> found]
TextHeight(t, initial) == (IF initial = 0 THEN t.lines - 4 ELSE initial) - 4

CheckListHeight == 6
FitsList(t) == ListFits(t, 15, 65)

On(kind) == dlg.kind = kind
Box == dlg.box
-----------------------------------------------------------------------------
(* The keys; those that are letters go to the rows of one of matches.       *)

MenuMoves(matches) ==
  {MenuTurn(Box, 1), MenuTurn(Box, 4)} \union
  IF Box.count = 0 THEN {}
  ELSE {MenuUp(Box), MenuDown(Box), MenuPageUp(Box), MenuPageDown(Box)}
       \union UNION {MenuJumps(Box, rows) : rows \in matches}

ListMoves(matches) ==
  {ListUp(Box), ListDown(Box), ListTurn(Box)} \union UNION {ListJumps(Box, rows) : rows \in matches}

\* letters and the arrows sideways belong to the text while it is selected
Edits == {InputErase(Box), InputLeft(Box), InputRight(Box, InputWidth)}
         \union {InputType(Box, c, InputWidth, MaxLen) : c \in Chars}
InputMoves == {InputTurn(Box, 1), InputTurn(Box, 2)} \union (IF Box.button = -1 THEN Edits ELSE {})

TextKeys == {"HOME", "END", "UP", "PPAGE", "DOWN", "NPAGE", "0", "LEFT", "RIGHT"}

AnyRow == {{r} : r \in 0..Box.max-1}

Key ==
  /\ UNCHANGED term
  /\ \/ On("menu") /\ \E b \in MenuMoves(AnyRow) : dlg' = MenuOf(b, dlg.items, dlg.redrawn)
     \/ On("list") /\ \E b \in ListMoves(AnyRow) : dlg' = ListOf(b, dlg.items)
     \/ On("input") /\ \E b \in InputMoves : dlg' = InputOf(b)
     \/ On("text") /\ \E key \in TextKeys :
          dlg' = TextBox(TextKey(Box, key, dlg.height, dlg.found, MaxLen),
                         dlg.height, dlg.initial, dlg.jumps, dlg.found)
-----------------------------------------------------------------------------
(* The boxes x that are opened.                                             *)

\* any position may be saved; those that are not in the menu are all one
OpensMenu(x) ==
  /\ x.kind = "menu" /\ x = MenuOf(x.box, x.items, FALSE)
  /\ MenuFits(term) /\ x.box.count \in Nat
  /\ \E at \in 0..Greater(x.box.count - 1, 0), saved \in -1..x.box.count :
       x.box = MenuOpen(x.box.count, MenuHeight(term), at, saved)

OpensList(x) ==
  /\ x.kind = "list" /\ x = ListOf(x.box, x.items)
  /\ x.box.count \in Nat
  /\ \E at \in 0..x.box.count-1 : x.box = ListOpen(x.box.count, CheckListHeight, at)

OpensInput(x) ==
  /\ x.kind = "input" /\ x.box.text \in Seq(Nat)
  /\ x = InputOf(InputOpen(x.box.text, InputWidth, -1))

\* the results of a search, where they were left
OpensResults(x) ==
  LET h == TextHeight(term, 0)
  IN  /\ x.kind = "text" /\ x = TextBox(x.box, h, 0, x.jumps, TRUE)
      /\ x.box.n \in Nat /\ x.box.hscroll \in Nat
      /\ \E vscroll \in 0..x.box.n :
           x.box = TextOpen(x.box.n, TRUE, h, TRUE, vscroll, x.box.hscroll)

\* a help text, or a message of 5 or 6 lines in all, which nothing closes
OpensText(x) ==
  /\ x.kind = "text" /\ x.initial \in {0, 5, 6} /\ x.box.n \in Nat
  /\ LET h == TextHeight(term, x.initial)
     IN  x = TextBox(TextOpen(x.box.n, x.initial = 0, h, FALSE, 0, 0), h, x.initial, x.jumps, FALSE)

\* help and messages come over the box they are about; all others come when
\* the one before has returned
Opening ==
  /\ UNCHANGED term
  /\ \/ On("none") /\ (OpensMenu(dlg') \/ OpensList(dlg') \/ OpensInput(dlg') \/ OpensResults(dlg'))
     \/ ~On("text") /\ OpensText(dlg')

\* the box returns, a question, or the end
Return == UNCHANGED term /\ dlg'.kind \in {"none", "hung", "over", "yesno"}

\* the box is drawn again or gives up; a menu may lose its place
Redraw ==
  /\ term' \in Terminals
  /\ \/ dlg'.kind \in {"none", "hung", "over", "yesno"}
     \/ On("menu") /\ dlg' = MenuOf(dlg'.box, dlg.items, TRUE)
     \/ On("list") /\ UNCHANGED dlg
     \/ On("input") /\ dlg' = InputOf(InputOpen(Box.text, InputWidth, Box.button))
     \/ On("text") /\ LET h == TextHeight(term', dlg.initial)
                      IN  dlg' = TextBox(TextResized(Box, dlg.height, h, dlg.found),
                                         h, dlg.initial, dlg.jumps, dlg.found)

ScreenInit == term \in Terminals /\ dlg = NoBox
ScreenNext == Key \/ Opening \/ Return \/ Redraw

\* mconf puts boxes on the screen through lxdialog only, and lets only their own
\* keys and resizes change them.
ScreenSpec == ScreenInit /\ [][ScreenNext]_screen
-----------------------------------------------------------------------------
(* Properties.                                                              *)

\* A key acts on what the screen shows: every row of a menu or a list shows the
\* item it stands for, however it was scrolled, and the highlighted row is one of
\* them; the cursor of an input box stands where the next key edits the text.
\* (Not so for a menu that is drawn again for another size, see Redraw.)
ShownIsActedOn ==
  /\ On("menu") /\ ~dlg.redrawn => MenuSound(Box)
  /\ On("list") => ListSound(Box)
  /\ On("input") => InputSound(Box, InputWidth)

\* The page of a text stays when the text is shown again where it was left, as
\* the results of a search are after a jump from them.
PageStays == On("text") => TextSound(Box)

\* A help text or the results of a search that are shifted sideways keep the
\* lines they show.
ShiftKeepsPage ==
  [][On("text") /\ dlg'.kind = "text" /\ Box.closed /\ dlg'.box.hscroll # Box.hscroll
       => dlg'.box.top = Box.top]_screen
=============================================================================
