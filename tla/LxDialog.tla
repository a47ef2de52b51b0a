------------------------------ MODULE LxDialog ------------------------------
(***************************************************************************)
(* The dialog boxes of menuconfig (kconfig/lxdialog).  A box is a record:   *)
(* an operator opens it, and each key gives the box it leaves, or the       *)
(* result the dialog function returns.  What is drawn is left out, except   *)
(* which item stands on which row of a menu and which line is the first of  *)
(* a text: the keys act on what these programs believe to be there.         *)
(*                                                                          *)
(* Items, rows, lines and positions count from 0, as in the code.           *)
(***************************************************************************)
EXTENDS Integers, Sequences

Lesser(a, b) == IF a < b THEN a ELSE b
Greater(a, b) == IF a > b THEN a ELSE b

\* the smallest terminals, t.lines by t.cols
ScreenFits(t) == t.lines >= 19 /\ t.cols >= 80
MenuFits(t) == t.lines >= 15 /\ t.cols >= 65
ListFits(t, height, width) == t.lines >= height + 6 /\ t.cols >= width + 6
InputFits(t, height, width) == t.lines > height - 2 /\ t.cols > width - 2
YesNoFits(t, height, width) == t.lines >= height + 4 /\ t.cols >= width + 4
-----------------------------------------------------------------------------
(* The menu box: count items, the first max rows of the screen, the         *)
(* highlighted row, the item on row 0 as scroll says, and the item printed  *)
(* on every row.                                                            *)

MenuHeight(t) == t.lines - 14

Menu(count, max, choice, scroll, button, first, screen) ==
  [count |-> count, max |-> max, choice |-> choice, scroll |-> scroll, button |-> button,
   first |-> first, screen |-> screen]

\* the saved scroll position still shows the item at
Kept(count, max, at, saved) ==
  saved >= 0 /\ saved =< at /\ at < saved + max /\ saved + max =< count

\* where the rows start that show the item at
Scroll(count, max, at, saved) ==
  IF Kept(count, max, at, saved) THEN saved
  ELSE IF at < max THEN 0
  ELSE IF at >= count - max \div 2 THEN count - max
  ELSE at - max \div 2

\* the box drawn for the item at; first is the first item of the last drawing
\* with a scroll position, and stays where scroll goes back to 0
MenuDraw(count, height, at, saved, button, first) ==
  LET max == Lesser(height, count)
      scroll == Scroll(count, max, at, saved)
      top == IF Kept(count, max, at, saved) \/ at >= max THEN scroll ELSE first
  IN  Menu(count, max, at - scroll, scroll, button, top, [r \in 0..max-1 |-> top + r])

MenuOpen(count, height, at, saved) == MenuDraw(count, height, at, saved, 0, 0)

\* the terminal has another size: without the item the box was opened for, the
\* number of the row is taken for that of an item
MenuResized(b, height, at, saved) ==
  MenuDraw(b.count, height, IF at >= 0 THEN at ELSE b.choice, saved, b.button, b.first)

\* the program prints an item that does not exist, and ends there
MenuCrashes(b) == b.max > 0 /\ b.first + b.max > b.count

\* mutant: a row that comes up is not printed
MenuMove_mut(b, n, choice) ==
  Menu(b.count, b.max, choice, b.scroll + n, b.button, b.first,
       [r \in 0..b.max-1 |-> IF r = choice THEN b.scroll + n + r
                              ELSE b.screen[IF r + n \in 0..b.max-1 THEN r + n ELSE r]])

\* the rows move by n items, those that come up and the old and the new choice
\* are printed
MenuMove(b, n, choice) ==
  Menu(b.count, b.max, choice, b.scroll + n, b.button, b.first,
       [r \in 0..b.max-1 |-> IF r = choice \/ r + n = b.choice \/ r + n \notin 0..b.max-1
                              THEN b.scroll + n + r ELSE b.screen[r + n]])

MenuUp(b) == IF b.choice < 2 /\ b.scroll > 0 THEN MenuMove(b, -1, b.choice)
             ELSE MenuMove(b, 0, Greater(b.choice - 1, 0))

MenuDown(b) == IF b.choice > b.max - 3 /\ b.scroll + b.max < b.count THEN MenuMove(b, 1, b.choice)
               ELSE MenuMove(b, 0, Lesser(b.choice + 1, b.max - 1))

\* max steps: each scrolls as long as there are items, then moves the choice
MenuPageUp(b) == LET n == Lesser(b.max, b.scroll)
                 IN  MenuMove(b, -n, Greater(b.choice - (b.max - n), 0))

MenuPageDown(b) == LET n == Lesser(b.max, b.count - b.max - b.scroll)
                   IN  MenuMove(b, n, Lesser(b.choice + (b.max - n), b.max - 1))

\* the first of the rows, if there is one
First(rows) == {r \in rows : \A q \in rows : r =< q}

\* the row a letter goes to: the first below the choice whose item has it, or
\* the first of all
MenuJumps(b, rows) ==
  LET below == {r \in rows : r > b.choice}
  IN  {MenuMove(b, 0, r) : r \in First(IF below # {} THEN below ELSE rows)}

\* the five buttons in a circle
MenuTurn(b, n) == Menu(b.count, b.max, b.choice, b.scroll, (b.button + n) % 5, b.first, b.screen)

MenuItem(b) == b.scroll + b.choice
-----------------------------------------------------------------------------
(* The check list.                                                          *)

List(count, max, choice, scroll, button) ==
  [count |-> count, max |-> max, choice |-> choice, scroll |-> scroll, button |-> button]

\* the box for the item at; a resize opens it anew where it is
ListOpen(count, height, at) ==
  LET scroll == IF at >= height THEN at - height + 1 ELSE 0
  IN  List(count, Lesser(height, count), at - scroll, scroll, 0)

ListMove(b, n, choice) == List(b.count, b.max, choice, b.scroll + n, b.button)

ListUp(b) == IF b.choice > 0 THEN ListMove(b, 0, b.choice - 1)
             ELSE ListMove(b, IF b.scroll > 0 THEN -1 ELSE 0, b.choice)

ListDown(b) ==
  IF b.choice # b.max - 1 THEN ListMove(b, 0, b.choice + 1)
  ELSE ListMove(b, IF b.scroll + b.choice < b.count - 1 THEN 1 ELSE 0, b.choice)

\* the first row from the top whose item begins with the letter
ListJumps(b, rows) == {ListMove(b, 0, r) : r \in First(rows)}

ListTurn(b) == List(b.count, b.max, b.choice, b.scroll, 1 - b.button)
ListItem(b) == b.scroll + b.choice
-----------------------------------------------------------------------------
(* The input box: the text, the position in it, its column on the screen,   *)
(* the first character shown, and what is selected: the text (-1), OK (0)   *)
(* or Help (1).                                                             *)

Input(text, pos, x, show, button) ==
  [text |-> text, pos |-> pos, x |-> x, show |-> show, button |-> button]

InputOpen(text, width, button) ==
  LET len == Len(text)
  IN  IF len >= width THEN Input(text, len, width - 1, len - width + 1, button)
      ELSE Input(text, len, len, 0, button)

\* the character before the position goes; at column 0 the text is shifted
Erased(b) ==
  LET text == SubSeq(b.text, 1, b.pos - 1) \o SubSeq(b.text, b.pos + 1, Len(b.text))
  IN  IF b.x = 0 THEN Input(text, b.pos - 1, b.x, b.show - 1, b.button)
      ELSE Input(text, b.pos - 1, b.x - 1, b.show, b.button)
InputErase(b) == IF b.pos = 0 THEN b ELSE Erased(b)

InputLeft(b) ==
  IF b.pos = 0 THEN b
  ELSE IF b.x > 0 THEN Input(b.text, b.pos - 1, b.x - 1, b.show, b.button)
  ELSE Input(b.text, b.pos - 1, b.x, b.show - 1, b.button)

\* the column after one more character, and what is shown then
Advanced(b, text, width) ==
  IF b.x < width - 1 THEN Input(text, b.pos + 1, b.x + 1, b.show, b.button)
  ELSE Input(text, b.pos + 1, b.x, b.show + 1, b.button)

InputRight(b, width) == IF b.pos < Len(b.text) THEN Advanced(b, b.text, width) ELSE b

InputType(b, c, width, maxlen) ==
  IF Len(b.text) < maxlen
  THEN Advanced(b, SubSeq(b.text, 1, b.pos) \o <<c>> \o SubSeq(b.text, b.pos + 1, Len(b.text)), width)
  ELSE b

\* text, OK, Help in a circle
InputTurn(b, n) == Input(b.text, b.pos, b.x, b.show, ((b.button + 1 + n) % 3) - 1)
-----------------------------------------------------------------------------
(* The text box.  A text has n lines, the last closed by a newline or not;  *)
(* page is the line after those displayed, n the end of the text; top is    *)
(* the first line displayed.                                                *)

Text(n, closed, page, length, begin, end, hscroll, top) ==
  [n |-> n, closed |-> closed, page |-> page, length |-> length, begin |-> begin, end |-> end,
   hscroll |-> hscroll, top |-> top]

\* get_line so many times: the end is reached by reading at it, or by a last
\* line that nothing closes
Reads(b, lines) == IF b.closed THEN b.page + lines > b.n ELSE b.page + lines >= b.n
get_lines(b, lines) ==
  Text(b.n, b.closed, Lesser(b.page + lines, b.n), b.length, b.begin,
       IF lines > 0 THEN Reads(b, lines) ELSE b.end, b.hscroll, b.top)

\* mutant: the end of the text counts as a line to go back over
Moves_mut(b, lines) == Greater(lines, 0)

\* the step over the end of the text does not move the page
Moves(b, lines) == IF lines > 0 /\ b.page = b.n /\ b.end THEN lines - 1 ELSE Greater(lines, 0)
back_lines(b, lines) ==
  Text(b.n, b.closed, Greater(b.page - Moves(b, lines), 0), b.length,
       Moves(b, lines) > 0 /\ b.page =< Moves(b, lines),
       IF lines > 0 /\ b.page = b.n THEN FALSE ELSE b.end, b.hscroll, b.top)

\* the number of lines displayed: the end of a closed text is one of them
Length(b, height) ==
  Lesser(height, IF b.closed THEN b.n - b.page + 1 ELSE Greater(1, b.n - b.page))
Printed(b, height) ==
  Text(b.n, b.closed, Lesser(b.page + height, b.n), Length(b, height), b.begin,
       Reads(b, height), b.hscroll, b.page)

\* print_page; update is TRUE if the caller puts keys into the page
print_page(b, height, update) ==
  Printed(IF update THEN back_lines(get_lines(b, height), height) ELSE b, height)

TextOpen(n, closed, height, update, vscroll, hscroll) ==
  print_page(Text(n, closed, Lesser(vscroll, n), 0, vscroll = 0, FALSE, hscroll, 0), height, update)

At(b, page, begin, end) == Text(b.n, b.closed, page, b.length, begin, end, b.hscroll, b.top)

Shifted(b, hscroll) == Text(b.n, b.closed, b.page, b.length, b.begin, b.end, hscroll, b.top)

\* the box after a key, printed again where the key does something
TextKey(b, key, height, update, maxlen) ==
  LET again(c) == print_page(c, height, update)
  IN  CASE key = "HOME" /\ ~b.begin -> again(At(b, 0, TRUE, b.end))
        [] key = "END" -> again(back_lines(At(b, b.n, b.begin, TRUE), height))
        [] key = "UP" /\ ~b.begin -> again(back_lines(b, b.length + 1))
        [] key = "PPAGE" /\ ~b.begin -> again(back_lines(b, b.length + height))
        [] key = "DOWN" /\ ~b.end -> again(back_lines(b, b.length - 1))
        [] key = "NPAGE" /\ ~b.end -> again(At(b, b.page, FALSE, b.end))
        [] key = "0" /\ b.hscroll > 0 -> again(back_lines(Shifted(b, 0), b.length))
        [] key = "LEFT" /\ b.hscroll > 0 -> again(back_lines(Shifted(b, b.hscroll - 1), b.length))
        [] key = "RIGHT" /\ b.hscroll < maxlen -> again(back_lines(Shifted(b, b.hscroll + 1), b.length))
        [] OTHER -> b

\* a resize goes back by the lines of the dialog, its borders included
TextResized(b, was, height, update) == print_page(back_lines(b, was + 4), height, update)

\* the line the box is to open at the next time
VScroll(b) == back_lines(b, b.length).page
-----------------------------------------------------------------------------
(* What holds of the boxes.                                                 *)

\* The rows show the items the keys act on, and the choice is one of them.
MenuSound(b) ==
  /\ 0 =< b.scroll /\ b.scroll + b.max =< b.count
  /\ \A r \in 0..b.max-1 : b.screen[r] = b.scroll + r
  /\ b.count > 0 => b.choice \in 0..b.max-1

\* The choice of a list is on the screen, and the screen is in the list.
ListSound(b) ==
  /\ 0 =< b.scroll /\ b.scroll + b.max =< b.count
  /\ b.choice \in 0..b.max-1

\* The cursor stands on the screen, at the position the keys act on.
InputSound(b, width) ==
  /\ b.pos = b.show + b.x /\ b.show >= 0
  /\ b.x \in 0..width-1
  /\ b.pos =< Len(b.text)

\* Going back by the lines displayed leads to the first of them: so the page
\* stays when it is shifted sideways, and where it is opened again.
TextSound(b) == b.closed => VScroll(b) = b.top
=============================================================================
