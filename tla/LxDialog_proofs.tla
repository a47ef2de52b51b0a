--------------------------- MODULE LxDialog_proofs ---------------------------
(***************************************************************************)
(* Proofs about the dialog boxes, for texts, lists and screens of any size. *)
(* A box is opened sound, and every key leaves a sound one; so what is on   *)
(* the screen of Dialogs is sound at all times.                             *)
(***************************************************************************)
EXTENDS Dialogs, TLAPS, SequenceTheorems

\* The smaller and the greater of two numbers.
LEMMA LesserFact ==
  ASSUME NEW a \in Int, NEW b \in Int
  PROVE  /\ Lesser(a, b) \in {a, b} /\ Lesser(a, b) =< a /\ Lesser(a, b) =< b
         /\ Greater(a, b) \in {a, b} /\ Greater(a, b) >= a /\ Greater(a, b) >= b
BY DEF Lesser, Greater
-----------------------------------------------------------------------------
(* The menu box.                                                            *)

\* what the keys need of a menu besides its soundness
MenuType(b) ==
  /\ b.count \in Nat /\ b.max \in Nat /\ b.scroll \in Nat /\ b.choice \in Nat
  /\ b.count > 0 => b.max > 0

MenuInv(b) == MenuType(b) /\ MenuSound(b)

\* A menu opens where the item at is on the screen.
LEMMA ScrollFact ==
  ASSUME NEW count \in Nat, NEW max \in Nat, max =< count,
         NEW at \in Nat, at < count, max > 0, NEW saved \in Int
  PROVE  /\ Scroll(count, max, at, saved) \in Nat
         /\ Scroll(count, max, at, saved) + max =< count
         /\ at - Scroll(count, max, at, saved) \in 0..max-1
         /\ ~Kept(count, max, at, saved) /\ at < max => Scroll(count, max, at, saved) = 0
<1>1. CASE Kept(count, max, at, saved)
  BY <1>1 DEF Scroll, Kept
<1>2. CASE ~Kept(count, max, at, saved) /\ at < max
  BY <1>2 DEF Scroll
<1>3. CASE ~Kept(count, max, at, saved) /\ at >= max
  <2> DEFINE half == max \div 2
  <2>1. half \in Nat /\ 2 * half =< max /\ max =< 2 * half + 1
    OBVIOUS
  <2>2. Scroll(count, max, at, saved) = IF at >= count - half THEN count - max ELSE at - half
    BY <1>3 DEF Scroll
  <2> HIDE DEF half
  <2>3. QED
    BY <1>3, <2>1, <2>2
<1>4. QED
  BY <1>1, <1>2, <1>3

\* dialog_menu opens sound: whatever position was saved and however many rows
\* there are, the rows show the items the keys will act on.
THEOREM MenuOpensSound ==
  ASSUME NEW count \in Nat, NEW height \in Nat \ {0}, NEW at \in Nat, NEW saved \in Int,
         count > 0 => at < count, count = 0 => at = 0
  PROVE  MenuInv(MenuOpen(count, height, at, saved))
<1> DEFINE max == Lesser(height, count)
           scroll == Scroll(count, max, at, saved)
           top == IF Kept(count, max, at, saved) \/ at >= max THEN scroll ELSE 0
<1>1. max \in Nat /\ max =< count /\ (count > 0 => max > 0) /\ (count = 0 => max = 0)
  BY LesserFact
<1>2. MenuOpen(count, height, at, saved)
        = Menu(count, max, at - scroll, scroll, 0, top, [r \in 0..max-1 |-> top + r])
  BY DEF MenuOpen, MenuDraw
<1> HIDE DEF max, scroll, top
<1>3. CASE count > 0
  <2>1. scroll \in Nat /\ scroll + max =< count /\ at - scroll \in 0..max-1 /\ top = scroll
    BY <1>1, <1>3, ScrollFact DEF scroll, top
  <2>2. QED
    BY <1>1, <1>2, <1>3, <2>1 DEF MenuInv, MenuType, MenuSound, Menu
<1>4. CASE count = 0
  <2>0. max = 0 /\ at = 0 /\ max \div 2 = 0
    BY <1>1, <1>4
  <2>1. scroll = 0
    BY <1>4, <2>0 DEF scroll, Scroll, Kept
  <2>2. QED
    BY <1>1, <1>2, <1>4, <2>1 DEF MenuInv, MenuType, MenuSound, Menu
<1>5. QED
  BY <1>3, <1>4

\* Moving the rows by n items leaves every row with its own item.
LEMMA MoveFact ==
  ASSUME NEW b, MenuInv(b), b.count > 0,
         NEW n \in Int, b.scroll + n >= 0, b.scroll + n + b.max =< b.count,
         NEW choice \in 0..b.max-1
  PROVE  MenuInv(MenuMove(b, n, choice))
<1> DEFINE c == MenuMove(b, n, choice)
<1>1. /\ c.count = b.count /\ c.max = b.max /\ c.choice = choice /\ c.scroll = b.scroll + n
      /\ c.screen = [r \in 0..b.max-1 |->
            IF r = choice \/ r + n = b.choice \/ r + n \notin 0..b.max-1
            THEN b.scroll + n + r ELSE b.screen[r + n]]
  BY DEF MenuMove, Menu
<1> HIDE DEF c
<1>2. MenuType(c)
  BY <1>1 DEF MenuInv, MenuType
<1>3. ASSUME NEW r \in 0..c.max-1 PROVE c.screen[r] = c.scroll + r
  <2>1. r + n \in 0..b.max-1 => b.screen[r + n] = b.scroll + (r + n)
    BY DEF MenuInv, MenuSound
  <2>2. QED
    BY <1>1, <1>3, <2>1 DEF MenuInv, MenuType
<1>4. MenuSound(c)
  BY <1>1, <1>3 DEF MenuInv, MenuType, MenuSound
<1>5. QED
  BY <1>2, <1>4 DEF MenuInv, c

\* Every key of dialog_menu leaves a sound box: the arrows, the pages, a letter
\* and the turn to another button.
THEOREM MenuKeysSound ==
  ASSUME NEW b, MenuInv(b), b.count > 0, b.button \in 0..4,
         NEW rows \in SUBSET (0..b.max-1), NEW n \in Nat,
         NEW c \in {MenuUp(b), MenuDown(b), MenuPageUp(b), MenuPageDown(b), MenuTurn(b, n)}
                    \union MenuJumps(b, rows)
  PROVE  MenuInv(c)
<1> USE DEF MenuInv, MenuType
<1>0. b.choice \in 0..b.max-1 /\ b.scroll + b.max =< b.count
  BY DEF MenuSound
<1>1. MenuInv(MenuUp(b))
  <2>1. Greater(b.choice - 1, 0) \in 0..b.max-1
    BY <1>0, LesserFact
  <2>2. QED
    BY <1>0, <2>1, MoveFact DEF MenuUp
<1>2. MenuInv(MenuDown(b))
  <2>1. Lesser(b.choice + 1, b.max - 1) \in 0..b.max-1
    BY <1>0, LesserFact
  <2>2. QED
    BY <1>0, <2>1, MoveFact DEF MenuDown
<1>3. MenuInv(MenuPageUp(b))
  <2> DEFINE k == Lesser(b.max, b.scroll)
             to == Greater(b.choice - (b.max - k), 0)
  <2>1. k \in Nat /\ k =< b.max /\ k =< b.scroll
    BY LesserFact
  <2>2. MenuPageUp(b) = MenuMove(b, -k, to)
    BY DEF MenuPageUp
  <2> HIDE DEF k
  <2>3. to \in 0..b.max-1
    BY <1>0, <2>1, LesserFact
  <2> HIDE DEF to
  <2>4. -k \in Int /\ b.scroll + (-k) >= 0 /\ b.scroll + (-k) + b.max =< b.count
    BY <1>0, <2>1
  <2>5. QED
    BY <2>2, <2>3, <2>4, MoveFact
<1>4. MenuInv(MenuPageDown(b))
  <2> DEFINE k == Lesser(b.max, b.count - b.max - b.scroll)
             to == Lesser(b.choice + (b.max - k), b.max - 1)
  <2>1. k \in Nat /\ k =< b.max /\ k =< b.count - b.max - b.scroll
    BY <1>0, LesserFact
  <2>2. MenuPageDown(b) = MenuMove(b, k, to)
    BY DEF MenuPageDown
  <2> HIDE DEF k
  <2>3. to \in 0..b.max-1
    BY <1>0, <2>1, LesserFact
  <2> HIDE DEF to
  <2>4. b.scroll + k >= 0 /\ b.scroll + k + b.max =< b.count
    BY <1>0, <2>1
  <2>5. QED
    BY <2>1, <2>2, <2>3, <2>4, MoveFact
<1>5. MenuInv(MenuTurn(b, n))
  BY DEF MenuTurn, Menu, MenuSound
<1>6. ASSUME NEW j \in MenuJumps(b, rows) PROVE MenuInv(j)
  <2>1. PICK r \in rows : j = MenuMove(b, 0, r)
    BY <1>6 DEF MenuJumps, First
  <2>2. QED
    BY <1>0, <2>1, MoveFact
<1>7. QED
  BY <1>1, <1>2, <1>3, <1>4, <1>5, <1>6
-----------------------------------------------------------------------------
(* The check list.                                                          *)

ListInv(b) ==
  /\ b.count \in Nat /\ b.max \in Nat /\ b.scroll \in Nat
  /\ ListSound(b)

\* dialog_checklist opens with the highlighted value on the screen, for lists
\* longer than the screen too.
THEOREM ListOpensSound ==
  ASSUME NEW count \in Nat, NEW height \in Nat \ {0}, NEW at \in Nat, at < count
  PROVE  ListInv(ListOpen(count, height, at))
BY DEF ListOpen, List, ListInv, ListSound, Lesser

\* Every key of dialog_checklist leaves a sound list.
THEOREM ListKeysSound ==
  ASSUME NEW b, ListInv(b), NEW rows \in SUBSET (0..b.max-1),
         NEW c \in {ListUp(b), ListDown(b), ListTurn(b)} \union ListJumps(b, rows)
  PROVE  ListInv(c)
<1> USE DEF ListInv, ListSound, List, ListMove
<1>1. ListInv(ListUp(b))
  BY DEF ListUp
<1>2. ListInv(ListDown(b))
  BY DEF ListDown
<1>3. ListInv(ListTurn(b))
  BY DEF ListTurn
<1>4. ASSUME NEW j \in ListJumps(b, rows) PROVE ListInv(j)
  <2>1. PICK r \in rows : j = ListMove(b, 0, r)
    BY <1>4 DEF ListJumps, First
  <2>2. QED
    BY <2>1
<1>5. QED
  BY <1>1, <1>2, <1>3, <1>4
-----------------------------------------------------------------------------
(* The input box.                                                           *)

InputTyped(b, S) == b.text \in Seq(S) /\ b.pos \in Nat /\ b.show \in Int /\ b.x \in Int
InputInv(b, S, width) == InputTyped(b, S) /\ InputSound(b, width)

\* A text without the character before the position is shorter by one.
LEMMA ErasedLength ==
  ASSUME NEW S, NEW t \in Seq(S), NEW pos \in 1..Len(t)
  PROVE  /\ SubSeq(t, 1, pos - 1) \o SubSeq(t, pos + 1, Len(t)) \in Seq(S)
         /\ Len(SubSeq(t, 1, pos - 1) \o SubSeq(t, pos + 1, Len(t))) = Len(t) - 1
<1> DEFINE head == SubSeq(t, 1, pos - 1)
           tail == SubSeq(t, pos + 1, Len(t))
<1>1. Len(t) \in Nat /\ pos \in Nat
  BY LenProperties
<1>2. head \in Seq(S) /\ Len(head) = pos - 1
  BY <1>1, SubSeqProperties
<1>3. tail \in Seq(S) /\ Len(tail) = Len(t) - pos
  BY <1>1, SubSeqProperties
<1> HIDE DEF head, tail
<1>4. head \o tail \in Seq(S) /\ Len(head \o tail) = Len(head) + Len(tail)
  BY <1>2, <1>3, ConcatProperties, Zenon
<1>5. head \o tail \in Seq(S) /\ Len(head \o tail) = Len(t) - 1
  BY <1>1, <1>2, <1>3, <1>4
<1>6. QED
  BY <1>5 DEF head, tail

\* A text with one more character at the position is longer by one.
LEMMA TypedLength ==
  ASSUME NEW S, NEW t \in Seq(S), NEW pos \in 0..Len(t), NEW c \in S
  PROVE  /\ SubSeq(t, 1, pos) \o <<c>> \o SubSeq(t, pos + 1, Len(t)) \in Seq(S)
         /\ Len(SubSeq(t, 1, pos) \o <<c>> \o SubSeq(t, pos + 1, Len(t))) = Len(t) + 1
<1> DEFINE head == SubSeq(t, 1, pos)
           tail == SubSeq(t, pos + 1, Len(t))
<1>1. Len(t) \in Nat /\ pos \in Nat
  BY LenProperties
<1>2. head \in Seq(S) /\ Len(head) = pos
  BY <1>1, SubSeqProperties
<1>3. tail \in Seq(S) /\ Len(tail) = Len(t) - pos
  BY <1>1, SubSeqProperties
<1>4. <<c>> \in Seq(S) /\ Len(<<c>>) = 1
  OBVIOUS
<1> HIDE DEF head, tail
<1>5. head \o <<c>> \in Seq(S) /\ Len(head \o <<c>>) = Len(head) + Len(<<c>>)
  BY <1>2, <1>4, ConcatProperties, Zenon
<1>6. /\ head \o <<c>> \o tail \in Seq(S)
      /\ Len(head \o <<c>> \o tail) = Len(head \o <<c>>) + Len(tail)
  BY <1>3, <1>5, ConcatProperties, Zenon
<1>7. head \o <<c>> \o tail \in Seq(S) /\ Len(head \o <<c>> \o tail) = Len(t) + 1
  BY <1>1, <1>2, <1>3, <1>4, <1>5, <1>6
<1>8. QED
  BY <1>7 DEF head, tail

\* What makes an input box sound.
LEMMA MadeSound ==
  ASSUME NEW S, NEW width \in Nat \ {0}, NEW t \in Seq(S), NEW pos, NEW x \in 0..width-1,
         NEW show \in Nat, NEW button, pos = show + x, pos =< Len(t)
  PROVE  InputInv(Input(t, pos, x, show, button), S, width)
BY DEF Input, InputInv, InputTyped, InputSound

\* One step back, at the first column of the screen and elsewhere.
LEMMA BackOne ==
  ASSUME NEW width \in Nat \ {0}, NEW pos, NEW x \in 0..width-1, NEW show \in Nat,
         NEW len \in Nat, pos = show + x, pos =< len, pos > 0
  PROVE  /\ pos - 1 =< len - 1 /\ pos - 1 =< len
         /\ x = 0 => show - 1 \in Nat /\ pos - 1 = (show - 1) + x
         /\ x # 0 => x - 1 \in 0..width-1 /\ pos - 1 = show + (x - 1)
OBVIOUS

\* dialog_inputbox opens with the cursor at the end of the text, however long.
THEOREM InputOpensSound ==
  ASSUME NEW S, NEW t \in Seq(S), NEW width \in Nat \ {0}, NEW button \in -1..1
  PROVE  InputInv(InputOpen(t, width, button), S, width)
<1>1. Len(t) \in Nat
  BY LenProperties
<1>2. CASE Len(t) >= width
  <2>1. InputOpen(t, width, button) = Input(t, Len(t), width - 1, Len(t) - width + 1, button)
    BY <1>2 DEF InputOpen
  <2>2. width - 1 \in 0..width-1 /\ Len(t) - width + 1 \in Nat
        /\ Len(t) = (Len(t) - width + 1) + (width - 1) /\ Len(t) =< Len(t)
    BY <1>1, <1>2
  <2>3. QED
    BY <2>1, <2>2, MadeSound
<1>3. CASE Len(t) < width
  <2>1. InputOpen(t, width, button) = Input(t, Len(t), Len(t), 0, button)
    BY <1>1, <1>3 DEF InputOpen
  <2>2. Len(t) \in 0..width-1 /\ 0 \in Nat /\ Len(t) = 0 + Len(t) /\ Len(t) =< Len(t)
    BY <1>1, <1>3
  <2>3. QED
    BY <2>1, <2>2, MadeSound
<1>4. QED
  BY <1>1, <1>2, <1>3

\* Every key leaves the cursor on the screen, at the position the next key acts on.
THEOREM InputKeysSound ==
  ASSUME NEW S, NEW width \in Nat \ {0}, NEW maxlen \in Nat, NEW c \in S, NEW n \in Nat,
         NEW b, InputInv(b, S, width), b.button \in -1..1,
         NEW e \in {InputErase(b), InputLeft(b), InputRight(b, width),
                    InputType(b, c, width, maxlen), InputTurn(b, n)}
  PROVE  InputInv(e, S, width)
<1>0. /\ b.text \in Seq(S) /\ Len(b.text) \in Nat /\ b.pos \in 0..Len(b.text)
      /\ b.x \in 0..width-1 /\ b.show \in Nat /\ b.pos = b.show + b.x
  BY LenProperties DEF InputInv, InputTyped, InputSound
<1>1. InputInv(InputErase(b), S, width)
  <2> DEFINE less == SubSeq(b.text, 1, b.pos - 1) \o SubSeq(b.text, b.pos + 1, Len(b.text))
  <2>1. CASE b.pos = 0
    BY <2>1 DEF InputErase
  <2>2. CASE b.pos > 0
    <3>1. less \in Seq(S) /\ Len(less) = Len(b.text) - 1
      <4>1. b.text \in Seq(S) /\ b.pos \in 1..Len(b.text)
        BY <1>0, <2>2
      <4>2. QED
        BY <4>1, ErasedLength, Zenon
    <3>2. InputErase(b) = IF b.x = 0 THEN Input(less, b.pos - 1, b.x, b.show - 1, b.button)
                          ELSE Input(less, b.pos - 1, b.x - 1, b.show, b.button)
      BY <2>2 DEF InputErase, Erased
    <3> HIDE DEF less
    <3>0. /\ b.x \in 0..width-1 /\ b.show \in Nat /\ b.pos - 1 =< Len(b.text) - 1
          /\ b.x = 0 => b.show - 1 \in Nat /\ b.pos - 1 = (b.show - 1) + b.x
          /\ b.x # 0 => b.x - 1 \in 0..width-1 /\ b.pos - 1 = b.show + (b.x - 1)
      BY <1>0, <2>2, BackOne
    <3>3. CASE b.x = 0
      <4>1. InputErase(b) = Input(less, b.pos - 1, b.x, b.show - 1, b.button)
        BY <3>2, <3>3
      <4>2. b.x \in 0..width-1 /\ b.show - 1 \in Nat
           /\ b.pos - 1 = (b.show - 1) + b.x /\ b.pos - 1 =< Len(less)
        BY <3>0, <3>1, <3>3
      <4>3. QED
        BY <1>0, <3>1, <4>1, <4>2, MadeSound
    <3>4. CASE b.x # 0
      <4>1. InputErase(b) = Input(less, b.pos - 1, b.x - 1, b.show, b.button)
        BY <3>2, <3>4
      <4>2. b.x - 1 \in 0..width-1 /\ b.show \in Nat
           /\ b.pos - 1 = b.show + (b.x - 1) /\ b.pos - 1 =< Len(less)
        BY <3>0, <3>1, <3>4
      <4>3. QED
        BY <1>0, <3>1, <4>1, <4>2, MadeSound
    <3>5. QED
      BY <3>3, <3>4
  <2>3. QED
    BY <1>0, <2>1, <2>2
<1>2. InputInv(InputLeft(b), S, width)
  <2>1. CASE b.pos = 0
    BY <2>1 DEF InputLeft
  <2>2. CASE b.pos > 0 /\ b.x > 0
    <3>1. InputLeft(b) = Input(b.text, b.pos - 1, b.x - 1, b.show, b.button)
      BY <1>0, <2>2 DEF InputLeft
    <3>2. b.x - 1 \in 0..width-1 /\ b.show \in Nat
         /\ b.pos - 1 = b.show + (b.x - 1) /\ b.pos - 1 =< Len(b.text)
      BY <1>0, <2>2
    <3>3. QED
      BY <1>0, <3>1, <3>2, MadeSound
  <2>3. CASE b.pos > 0 /\ b.x = 0
    <3>1. InputLeft(b) = Input(b.text, b.pos - 1, b.x, b.show - 1, b.button)
      BY <1>0, <2>3 DEF InputLeft
    <3>2. b.x \in 0..width-1 /\ b.show - 1 \in Nat
         /\ b.pos - 1 = (b.show - 1) + b.x /\ b.pos - 1 =< Len(b.text)
      BY <1>0, <2>3
    <3>3. QED
      BY <1>0, <3>1, <3>2, MadeSound
  <2>4. QED
    BY <1>0, <2>1, <2>2, <2>3
<1>3. ASSUME NEW t \in Seq(S), b.pos < Len(t) PROVE InputInv(Advanced(b, t, width), S, width)
  <2>0. Len(t) \in Nat
    BY LenProperties
  <2>1. CASE b.x < width - 1
    <3>1. Advanced(b, t, width) = Input(t, b.pos + 1, b.x + 1, b.show, b.button)
      BY <1>0, <2>1 DEF Advanced
    <3>2. b.x + 1 \in 0..width-1 /\ b.show \in Nat
         /\ b.pos + 1 = b.show + (b.x + 1) /\ b.pos + 1 =< Len(t)
      BY <1>0, <1>3, <2>0, <2>1
    <3>3. QED
      BY <1>3, <3>1, <3>2, MadeSound
  <2>2. CASE b.x >= width - 1
    <3>1. Advanced(b, t, width) = Input(t, b.pos + 1, b.x, b.show + 1, b.button)
      BY <1>0, <2>2 DEF Advanced
    <3>2. b.x \in 0..width-1 /\ b.show + 1 \in Nat /\ b.pos + 1 = (b.show + 1) + b.x
      BY <1>0
    <3>3. b.pos + 1 =< Len(t)
      BY <1>0, <1>3, <2>0
    <3>4. InputInv(Input(t, b.pos + 1, b.x, b.show + 1, b.button), S, width)
      BY <1>3, <3>2, <3>3, MadeSound
    <3>5. QED
      BY <3>1, <3>4
  <2>3. QED
    BY <1>0, <2>1, <2>2
<1>4. InputInv(InputRight(b, width), S, width)
  BY <1>0, <1>3 DEF InputRight
<1>5. InputInv(InputType(b, c, width, maxlen), S, width)
  <2> DEFINE more == SubSeq(b.text, 1, b.pos) \o <<c>> \o SubSeq(b.text, b.pos + 1, Len(b.text))
  <2>1. more \in Seq(S) /\ Len(more) = Len(b.text) + 1
    <3>1. b.text \in Seq(S) /\ b.pos \in 0..Len(b.text) /\ c \in S
      BY <1>0
    <3>2. QED
      BY <3>1, TypedLength, Zenon
  <2>2. InputType(b, c, width, maxlen) = IF Len(b.text) < maxlen THEN Advanced(b, more, width) ELSE b
    BY DEF InputType
  <2> HIDE DEF more
  <2>3. QED
    BY <1>0, <1>3, <2>1, <2>2
<1>6. InputInv(InputTurn(b, n), S, width)
  BY <1>0, MadeSound DEF InputTurn
<1>7. QED
  BY <1>1, <1>2, <1>4, <1>5, <1>6
-----------------------------------------------------------------------------
(* The text box, for texts whose last line is closed.                       *)

\* what a text box needs to be printed, and what it is when it was
TextTyped(b) == b.closed = TRUE /\ b.n \in Nat /\ b.page \in 0..b.n
TextInv(b, height, update) ==
  /\ TextTyped(b) /\ TextSound(b)
  /\ b.top \in 0..b.n /\ b.length \in Nat /\ b.hscroll \in Nat
  /\ update => b.top = 0 \/ b.top + height =< b.n + 1

\* Going back by any number of lines stays in the text.
LEMMA BackFact ==
  ASSUME NEW b, TextTyped(b), NEW k \in Int
  PROVE  /\ TextTyped(back_lines(b, k)) /\ back_lines(b, k).n = b.n
         /\ back_lines(b, k).page = Greater(b.page - Moves(b, k), 0)
         /\ back_lines(b, k).hscroll = b.hscroll
         /\ Moves(b, k) = IF k > 0 /\ b.page = b.n /\ b.end THEN k - 1 ELSE Greater(k, 0)
<1>1. Moves(b, k) = IF k > 0 /\ b.page = b.n /\ b.end THEN k - 1 ELSE Greater(k, 0)
  BY DEF Moves
<1>2. Moves(b, k) \in Nat
  BY <1>1, LesserFact DEF Greater
<1>3. Greater(b.page - Moves(b, k), 0) \in 0..b.n
  BY <1>2 DEF TextTyped, Greater
<1>4. /\ back_lines(b, k).n = b.n /\ back_lines(b, k).closed = b.closed
      /\ back_lines(b, k).page = Greater(b.page - Moves(b, k), 0)
      /\ back_lines(b, k).hscroll = b.hscroll
  BY DEF back_lines, Text
<1>5. QED
  BY <1>1, <1>3, <1>4 DEF TextTyped

\* What a page that was just printed looks like.
LEMMA PrintedFact ==
  ASSUME NEW b, TextTyped(b), NEW height \in Nat \ {0}
  PROVE  LET p == Printed(b, height)
         IN  /\ TextTyped(p) /\ p.n = b.n /\ p.top = b.page /\ p.hscroll = b.hscroll
             /\ p.page = IF b.page + height =< b.n THEN b.page + height ELSE b.n
             /\ (p.end <=> b.page + height > b.n)
             /\ p.length = IF b.page + height =< b.n THEN height ELSE b.n - b.page + 1
<1>1. Reads(b, height) = (b.page + height > b.n)
  BY DEF Reads, TextTyped
<1>2. Lesser(b.page + height, b.n) = IF b.page + height =< b.n THEN b.page + height ELSE b.n
  BY DEF Lesser, TextTyped
<1>3. Length(b, height) = IF b.page + height =< b.n THEN height ELSE b.n - b.page + 1
  BY DEF Length, Lesser, TextTyped
<1> DEFINE p == Printed(b, height)
<1>4. /\ p.n = b.n /\ p.closed = b.closed /\ p.top = b.page /\ p.hscroll = b.hscroll
      /\ p.page = Lesser(b.page + height, b.n)
      /\ p.end = Reads(b, height) /\ p.length = Length(b, height)
  BY DEF Printed, Text
<1> HIDE DEF p
<1>5. p.page \in 0..b.n
  BY <1>2, <1>4 DEF TextTyped
<1>6. TextTyped(p)
  BY <1>4, <1>5 DEF TextTyped
<1>7. QED
  BY <1>1, <1>2, <1>3, <1>4, <1>6 DEF p

\* Wherever a page is printed from, going back by its lines leads to its first.
LEMMA PrintedSound ==
  ASSUME NEW b, TextTyped(b), NEW height \in Nat \ {0}
  PROVE  VScroll(Printed(b, height)) = b.page
<1> DEFINE p == Printed(b, height)
<1>1. /\ TextTyped(p) /\ p.n = b.n
      /\ p.page = IF b.page + height =< b.n THEN b.page + height ELSE b.n
      /\ (p.end <=> b.page + height > b.n)
      /\ p.length = IF b.page + height =< b.n THEN height ELSE b.n - b.page + 1
  BY PrintedFact
<1> HIDE DEF p
<1>2. p.length \in Int /\ p.length > 0 /\ b.page \in Nat /\ b.n \in Nat /\ b.page =< b.n
  BY <1>1 DEF TextTyped
<1>3. /\ VScroll(p) = Greater(p.page - Moves(p, p.length), 0)
      /\ Moves(p, p.length) = IF p.length > 0 /\ p.page = p.n /\ p.end THEN p.length - 1
                              ELSE Greater(p.length, 0)
  BY <1>1, <1>2, BackFact DEF VScroll
<1>4. p.page - Moves(p, p.length) = b.page
  <2>1. CASE b.page + height =< b.n
    <3>1. p.page = b.page + height /\ p.length = height /\ ~p.end
      BY <1>1, <1>2, <2>1
    <3>2. Moves(p, p.length) = height
      BY <1>3, <3>1 DEF Greater
    <3>3. QED
      BY <1>2, <3>1, <3>2
  <2>2. CASE b.page + height > b.n
    <3>1. p.page = b.n /\ p.n = b.n /\ p.length = b.n - b.page + 1 /\ p.end
      BY <1>1, <1>2, <2>2
    <3>2. Moves(p, p.length) = b.n - b.page
      BY <1>2, <1>3, <3>1
    <3>3. QED
      BY <1>2, <3>1, <3>2
  <2>3. QED
    BY <1>2, <2>1, <2>2
<1>5. QED
  BY <1>2, <1>3, <1>4 DEF Greater, p

\* What print_page displays: the page it is called at, or with update the last
\* full page if less than a page is left.
LEMMA PageFact ==
  ASSUME NEW b, TextTyped(b), b.hscroll \in Nat, NEW height \in Nat \ {0}, NEW update \in BOOLEAN
  PROVE  LET q == print_page(b, height, update)
         IN  /\ TextInv(q, height, update) /\ q.n = b.n /\ q.hscroll = b.hscroll
             /\ ~update => q.top = b.page
             /\ update => q.top = IF b.page + height =< b.n THEN b.page
                                  ELSE Greater(b.n - height + 1, 0)
<1> DEFINE g == get_lines(b, height)
           k == back_lines(g, height)
           from == IF update THEN k ELSE b
<1>1. /\ TextTyped(g) /\ g.n = b.n /\ g.hscroll = b.hscroll
      /\ g.page = IF b.page + height =< b.n THEN b.page + height ELSE b.n
      /\ g.end <=> b.page + height > b.n
  <2>1. /\ g.n = b.n /\ g.closed = b.closed /\ g.hscroll = b.hscroll
        /\ g.page = Lesser(b.page + height, b.n)
        /\ g.end = Reads(b, height)
    BY DEF get_lines, Text
  <2>2. Reads(b, height) <=> b.page + height > b.n
    BY DEF Reads, TextTyped
  <2>3. Lesser(b.page + height, b.n) = IF b.page + height =< b.n THEN b.page + height ELSE b.n
    BY DEF Lesser, TextTyped
  <2> HIDE DEF g
  <2>4. g.page \in 0..b.n
    BY <2>1, <2>3 DEF TextTyped
  <2>5. QED
    BY <2>1, <2>2, <2>3, <2>4 DEF TextTyped
<1> HIDE DEF g
<1>2. /\ TextTyped(k) /\ k.n = b.n /\ k.hscroll = b.hscroll
      /\ k.page = Greater(g.page - Moves(g, height), 0)
      /\ Moves(g, height) = IF height > 0 /\ g.page = g.n /\ g.end THEN height - 1
                            ELSE Greater(height, 0)
  <2>1. TextTyped(g) /\ height \in Int
    BY <1>1
  <2>2. /\ TextTyped(back_lines(g, height)) /\ back_lines(g, height).n = g.n
        /\ back_lines(g, height).page = Greater(g.page - Moves(g, height), 0)
        /\ back_lines(g, height).hscroll = g.hscroll
        /\ Moves(g, height) = IF height > 0 /\ g.page = g.n /\ g.end THEN height - 1
                              ELSE Greater(height, 0)
    BY <2>1, BackFact
  <2>3. QED
    BY <1>1, <2>2, Zenon
<1>3. k.page = IF b.page + height =< b.n THEN b.page ELSE Greater(b.n - height + 1, 0)
  <2>0. b.page \in Nat /\ b.n \in Nat
    BY DEF TextTyped
  <2>1. CASE b.page + height =< b.n
    <3>1. g.page = b.page + height /\ ~g.end
      BY <1>1, <2>0, <2>1
    <3>2. Moves(g, height) = height
      BY <1>2, <3>1 DEF Greater
    <3>3. QED
      BY <1>2, <2>0, <2>1, <3>1, <3>2 DEF Greater
  <2>2. CASE b.page + height > b.n
    <3>1. g.page = b.n /\ g.n = b.n /\ g.end
      BY <1>1, <2>0, <2>2
    <3>2. Moves(g, height) = height - 1
      BY <1>2, <3>1
    <3>3. b.n - (height - 1) = b.n - height + 1
      BY <2>0
    <3>4. QED
      BY <1>2, <2>0, <2>2, <3>1, <3>2, <3>3
  <2>3. QED
    BY <2>0, <2>1, <2>2
<1> HIDE DEF k
<1>4. /\ TextTyped(from) /\ from.n = b.n /\ from.hscroll = b.hscroll
      /\ print_page(b, height, update) = Printed(from, height)
  BY <1>2 DEF print_page, k, g
<1>5. /\ ~update => from.page = b.page
      /\ update => from.page = IF b.page + height =< b.n THEN b.page ELSE Greater(b.n - height + 1, 0)
  BY <1>3
<1> HIDE DEF from
<1> DEFINE q == Printed(from, height)
<1>6. /\ TextTyped(q) /\ q.n = b.n /\ q.top = from.page /\ q.hscroll = b.hscroll
      /\ q.length = IF from.page + height =< b.n THEN height ELSE b.n - from.page + 1
      /\ VScroll(q) = from.page
  BY <1>4, PrintedFact, PrintedSound
<1> HIDE DEF q
<1>7. q.top \in 0..b.n /\ q.length \in Nat
  BY <1>4, <1>6 DEF TextTyped
<1>8. update => q.top = 0 \/ q.top + height =< b.n + 1
  BY <1>5, <1>6 DEF TextTyped, Greater
<1>9. TextInv(q, height, update)
  BY <1>6, <1>7, <1>8 DEF TextInv, TextSound
<1>10. QED
  BY <1>4, <1>5, <1>6, <1>9 DEF q

\* Every key of dialog_textbox leaves a page that can be gone back over: the
\* positions its callers keep lead to what was seen.
THEOREM TextKeysSound ==
  ASSUME NEW b, NEW height \in Nat \ {0}, NEW update \in BOOLEAN, TextInv(b, height, update),
         NEW maxlen \in Nat, NEW key
  PROVE  TextInv(TextKey(b, key, height, update, maxlen), height, update)
<1>0. TextTyped(b) /\ b.length \in Int /\ b.hscroll \in Nat /\ height \in Int
  BY DEF TextInv
<1>1. ASSUME NEW c, TextTyped(c), c.hscroll \in Nat
      PROVE  TextInv(print_page(c, height, update), height, update)
  BY <1>1, PageFact
<1>2. ASSUME NEW c, TextTyped(c), c.hscroll \in Nat, NEW k \in Int
      PROVE  TextInv(print_page(back_lines(c, k), height, update), height, update)
  <2>1. TextTyped(back_lines(c, k)) /\ back_lines(c, k).hscroll \in Nat
    BY <1>2, BackFact
  <2>2. QED
    BY <1>1, <2>1
<1>3. ASSUME NEW page \in {0, b.n, b.page}, NEW begin, NEW end
      PROVE  TextTyped(At(b, page, begin, end)) /\ At(b, page, begin, end).hscroll \in Nat
  BY <1>0, <1>3 DEF At, Text, TextTyped
<1>4. ASSUME NEW h \in Nat PROVE TextTyped(Shifted(b, h)) /\ Shifted(b, h).hscroll \in Nat
  BY <1>0, <1>4 DEF Shifted, Text, TextTyped
<1>5. TextInv(print_page(At(b, 0, TRUE, b.end), height, update), height, update)
  BY <1>1, <1>3
<1>6. TextInv(print_page(back_lines(At(b, b.n, b.begin, TRUE), height), height, update), height, update)
  BY <1>0, <1>2, <1>3
<1>7. ASSUME NEW k \in Int
      PROVE  TextInv(print_page(back_lines(b, k), height, update), height, update)
  BY <1>0, <1>2
<1>8. TextInv(print_page(At(b, b.page, FALSE, b.end), height, update), height, update)
  BY <1>1, <1>3
<1>9. ASSUME NEW h \in Nat
      PROVE  TextInv(print_page(back_lines(Shifted(b, h), b.length), height, update), height, update)
  BY <1>0, <1>2, <1>4
<1>10. b.length + 1 \in Int /\ b.length + height \in Int /\ b.length - 1 \in Int
  BY <1>0
<1>11. b.hscroll > 0 => b.hscroll - 1 \in Nat
  BY <1>0
<1>12. 0 \in Nat /\ b.hscroll + 1 \in Nat
  BY <1>0
<1>13. QED
  BY <1>5, <1>6, <1>7, <1>8, <1>9, <1>10, <1>11, <1>12 DEF TextKey

\* dialog_textbox opens with such a page, at whatever position.
THEOREM TextOpensSound ==
  ASSUME NEW n \in Nat, NEW height \in Nat \ {0}, NEW update \in BOOLEAN,
         NEW vscroll \in Nat, NEW hscroll \in Nat
  PROVE  TextInv(TextOpen(n, TRUE, height, update, vscroll, hscroll), height, update)
<1> DEFINE b == Text(n, TRUE, Lesser(vscroll, n), 0, vscroll = 0, FALSE, hscroll, 0)
<1>1. TextTyped(b) /\ b.hscroll \in Nat
  BY LesserFact DEF Text, TextTyped
<1> HIDE DEF b
<1>2. TextInv(print_page(b, height, update), height, update)
  BY <1>1, PageFact
<1>3. QED
  BY <1>2 DEF TextOpen, b

\* The page stays one when the screen has another size, though dialog_textbox goes
\* back by the lines of the whole box.
THEOREM TextResizesSound ==
  ASSUME NEW b, NEW was \in Nat, NEW height \in Nat \ {0}, NEW update \in BOOLEAN,
         TextTyped(b), b.hscroll \in Nat
  PROVE  TextInv(TextResized(b, was, height, update), height, update)
<1>1. TextTyped(back_lines(b, was + 4)) /\ back_lines(b, was + 4).hscroll \in Nat
  BY BackFact
<1>2. QED
  BY <1>1, PageFact DEF TextResized

\* A text that is shifted sideways shows the lines it showed before.
THEOREM SidewaysStays ==
  ASSUME NEW b, NEW height \in Nat \ {0}, NEW update \in BOOLEAN, TextInv(b, height, update),
         NEW maxlen \in Nat, NEW key \in {"0", "LEFT", "RIGHT"}
  PROVE  TextKey(b, key, height, update, maxlen).top = b.top
<1>0. /\ TextTyped(b) /\ b.length \in Int /\ b.hscroll \in Nat /\ VScroll(b) = b.top
      /\ b.top \in 0..b.n /\ b.n \in Nat
      /\ update => b.top = 0 \/ b.top + height =< b.n + 1
  BY DEF TextInv, TextTyped, TextSound
<1>1. ASSUME NEW c, TextTyped(c), c.hscroll \in Nat, c.n = b.n, c.page = b.top
      PROVE  print_page(c, height, update).top = b.top
  <2>1. /\ ~update => print_page(c, height, update).top = c.page
        /\ update => print_page(c, height, update).top
                       = IF c.page + height =< c.n THEN c.page ELSE Greater(c.n - height + 1, 0)
    BY <1>1, PageFact
  <2>2. update /\ b.top + height > b.n => Greater(b.n - height + 1, 0) = b.top
    BY <1>0 DEF Greater
  <2>3. QED
    BY <1>0, <1>1, <2>1, <2>2
<1>2. ASSUME NEW h \in Nat
      PROVE  print_page(back_lines(Shifted(b, h), b.length), height, update).top = b.top
  <2> DEFINE s == Shifted(b, h)
             k == back_lines(s, b.length)
  <2>1. /\ s.n = b.n /\ s.page = b.page /\ s.end = b.end /\ s.hscroll = h /\ TextTyped(s)
    BY <1>0 DEF Shifted, Text, TextTyped
  <2>2. Moves(s, b.length) = Moves(b, b.length)
    BY <2>1 DEF Moves
  <2>3. TextTyped(k) /\ k.n = b.n /\ k.hscroll = h /\ k.page = Greater(b.page - Moves(b, b.length), 0)
    <3>1. /\ TextTyped(k) /\ k.n = s.n /\ k.hscroll = s.hscroll
          /\ k.page = Greater(s.page - Moves(s, b.length), 0)
      BY <1>0, <2>1, BackFact
    <3>2. QED
      BY <2>1, <2>2, <3>1
  <2>4. VScroll(b) = Greater(b.page - Moves(b, b.length), 0)
    BY <1>0, BackFact DEF VScroll
  <2> HIDE DEF k
  <2>5. QED
    BY <1>0, <1>1, <1>2, <2>3, <2>4 DEF k
<1>3. (b.hscroll > 0 => b.hscroll - 1 \in Nat) /\ 0 \in Nat /\ b.hscroll + 1 \in Nat
  BY <1>0
<1>4. QED
  BY <1>2, <1>3 DEF TextKey

\* The results of a search show the page they showed before a jump from them.
THEOREM ReopenedStays ==
  ASSUME NEW b, NEW height \in Nat \ {0}, TextInv(b, height, TRUE), NEW hscroll \in Nat
  PROVE  TextOpen(b.n, TRUE, height, TRUE, VScroll(b), hscroll).top = b.top
<1>0. /\ VScroll(b) = b.top /\ b.top \in 0..b.n /\ b.n \in Nat
      /\ b.top = 0 \/ b.top + height =< b.n + 1
  BY DEF TextInv, TextTyped, TextSound
<1> DEFINE c == Text(b.n, TRUE, Lesser(b.top, b.n), 0, b.top = 0, FALSE, hscroll, 0)
<1>1. c.n = b.n /\ c.page = Lesser(b.top, b.n) /\ c.hscroll = hscroll /\ c.closed = TRUE
  BY DEF Text
<1>2. Lesser(b.top, b.n) = b.top
  BY <1>0 DEF Lesser
<1>3. TextOpen(b.n, TRUE, height, TRUE, VScroll(b), hscroll) = print_page(c, height, TRUE)
  BY <1>0 DEF TextOpen
<1> HIDE DEF c
<1>4. TextTyped(c)
  BY <1>0, <1>1, <1>2 DEF TextTyped
<1>5. print_page(c, height, TRUE).top
        = IF c.page + height =< c.n THEN c.page ELSE Greater(c.n - height + 1, 0)
  BY <1>1, <1>4, PageFact
<1>6. c.page = b.top /\ c.n = b.n
  BY <1>1, <1>2
<1>7. CASE b.top + height =< b.n
  BY <1>3, <1>5, <1>6, <1>7
<1>8. CASE b.top + height > b.n
  <2>1. Greater(b.n - height + 1, 0) = b.top
    BY <1>0, <1>8 DEF Greater
  <2>2. ~(b.top + height =< b.n)
    BY <1>0, <1>8
  <2>3. QED
    BY <1>3, <1>5, <1>6, <2>1, <2>2
<1>9. b.top + height =< b.n \/ b.top + height > b.n
  BY <1>0
<1>10. QED
  BY <1>7, <1>8, <1>9, Zenon
-----------------------------------------------------------------------------
(* The screen.                                                              *)

Plain == {"none", "hung", "over", "yesno"}

\* A menu that was not drawn again for another size is sound, and so are lists,
\* input boxes and texts that end with a newline; messages do not.
MenuPart == On("menu") /\ dlg.redrawn # TRUE => MenuInv(Box) /\ Box.button \in 0..4
ListPart == On("list") => ListInv(Box)
InputPart == On("input") => InputInv(Box, Nat, InputWidth) /\ Box.button \in -1..1
TextPart == On("text") =>
  /\ dlg.initial \in {0, 5, 6} /\ dlg.height = TextHeight(term, dlg.initial)
  /\ dlg.found \in BOOLEAN
  /\ Box.closed = FALSE \/ TextInv(Box, dlg.height, dlg.found)
ScreenInv == term \in Terminals /\ MenuPart /\ ListPart /\ InputPart /\ TextPart

\* Every key of a menu leaves its button one of the five, and turns an empty menu
\* into a sound one.
LEMMA MenuButtons ==
  ASSUME NEW b, b.button \in 0..4, MenuInv(b), NEW n \in Nat, NEW r
  PROVE  /\ MenuTurn(b, n).button \in 0..4
         /\ b.count = 0 => MenuInv(MenuTurn(b, n))
         /\ \A k : MenuMove(b, k, r).button \in 0..4
<1>1. MenuTurn(b, n).button \in 0..4
  BY DEF MenuTurn, Menu
<1>2. b.count = 0 => MenuInv(MenuTurn(b, n))
  BY DEF MenuTurn, Menu, MenuInv, MenuType, MenuSound
<1>3. \A k : MenuMove(b, k, r).button \in 0..4
  BY DEF MenuMove, Menu
<1>4. QED
  BY <1>1, <1>2, <1>3

\* The keys of a menu, and a jump to any of its rows, leave it sound.
LEMMA MenuMovesSound ==
  ASSUME MenuInv(Box), Box.button \in 0..4, NEW c \in MenuMoves(AnyRow)
  PROVE  MenuInv(c) /\ c.button \in 0..4
<1>1. CASE c \in {MenuTurn(Box, 1), MenuTurn(Box, 4)}
  <2>1. PICK n \in Nat : c = MenuTurn(Box, n)
    BY <1>1
  <2>2. Box.count = 0 => MenuInv(c)
    BY <2>1, MenuButtons
  <2>3. Box.count # 0 => MenuInv(c)
    <3>1. Box.count # 0 => Box.count > 0
      BY DEF MenuInv, MenuType
    <3>2. c \in {MenuUp(Box), MenuDown(Box), MenuPageUp(Box), MenuPageDown(Box), MenuTurn(Box, n)}
                \union MenuJumps(Box, {})
      BY <2>1
    <3>3. QED
      BY <3>1, <3>2, MenuKeysSound
  <2>4. c.button \in 0..4
    BY <2>1, MenuButtons
  <2>5. QED
    BY <2>2, <2>3, <2>4
<1>2. CASE /\ Box.count # 0
           /\ c \in {MenuUp(Box), MenuDown(Box), MenuPageUp(Box), MenuPageDown(Box)}
                    \union UNION {MenuJumps(Box, rows) : rows \in AnyRow}
  <2>1. Box.count > 0
    BY <1>2 DEF MenuInv, MenuType
  <2>2. PICK rows \in SUBSET (0..Box.max-1) :
           c \in {MenuUp(Box), MenuDown(Box), MenuPageUp(Box), MenuPageDown(Box)} \union MenuJumps(Box, rows)
    BY <1>2 DEF AnyRow
  <2>3. MenuInv(c)
    BY <2>1, <2>2, MenuKeysSound
  <2>4. \E k, r : c = MenuMove(Box, k, r)
    BY <2>2 DEF MenuUp, MenuDown, MenuPageUp, MenuPageDown, MenuJumps
  <2>5. QED
    BY <2>3, <2>4, MenuButtons
<1>3. QED
  BY <1>1, <1>2 DEF MenuMoves

\* The keys of a list leave it sound.
LEMMA ListMovesSound ==
  ASSUME ListInv(Box), NEW c \in ListMoves(AnyRow)
  PROVE  ListInv(c)
<1>1. PICK rows \in SUBSET (0..Box.max-1) :
         c \in {ListUp(Box), ListDown(Box), ListTurn(Box)} \union ListJumps(Box, rows)
  BY DEF ListMoves, AnyRow
<1>2. QED
  BY <1>1, ListKeysSound

\* The keys of an input box leave it sound and one of its three parts selected.
LEMMA InputMovesSound ==
  ASSUME DialogsAssumption, InputInv(Box, Nat, InputWidth), Box.button \in -1..1, NEW c \in InputMoves
  PROVE  InputInv(c, Nat, InputWidth) /\ c.button \in -1..1
<1>1. InputWidth \in Nat \ {0} /\ MaxLen \in Nat /\ Chars \subseteq Nat
  BY DEF DialogsAssumption
<1>2. PICK n \in Nat, ch \in Nat :
         c \in {InputErase(Box), InputLeft(Box), InputRight(Box, InputWidth),
                InputType(Box, ch, InputWidth, MaxLen), InputTurn(Box, n)}
  BY <1>1 DEF InputMoves, Edits
<1>3. InputInv(c, Nat, InputWidth)
  <2> DEFINE b == Box
  <2>1. InputInv(b, Nat, InputWidth) /\ b.button \in -1..1
    OBVIOUS
  <2>2. c \in {InputErase(b), InputLeft(b), InputRight(b, InputWidth),
              InputType(b, ch, InputWidth, MaxLen), InputTurn(b, n)}
    BY <1>2
  <2> HIDE DEF b
  <2>3. QED
    BY <1>1, <2>1, <2>2, InputKeysSound
<1>4. InputTurn(Box, n).button \in -1..1
  BY DEF InputTurn, Input
<1>5. /\ InputErase(Box).button = Box.button /\ InputLeft(Box).button = Box.button
      /\ InputRight(Box, InputWidth).button = Box.button
      /\ InputType(Box, ch, InputWidth, MaxLen).button = Box.button
  BY DEF InputErase, Erased, InputLeft, InputRight, InputType, Advanced, Input
<1>6. QED
  BY <1>2, <1>3, <1>4, <1>5

\* Only the keys sideways shift a text.
LEMMA OthersDoNotShift ==
  ASSUME NEW b, NEW height \in Nat \ {0}, NEW update \in BOOLEAN, TextInv(b, height, update),
         NEW maxlen, NEW key, key \notin {"0", "LEFT", "RIGHT"}
  PROVE  TextKey(b, key, height, update, maxlen).hscroll = b.hscroll
<1>1. ASSUME NEW c, NEW k
      PROVE  back_lines(c, k).hscroll = c.hscroll
  BY DEF back_lines, Text
<1>2. ASSUME NEW c PROVE print_page(c, height, update).hscroll = c.hscroll
  BY DEF print_page, Printed, back_lines, get_lines, Text
<1>3. ASSUME NEW page, NEW begin, NEW end
      PROVE  print_page(At(b, page, begin, end), height, update).hscroll = b.hscroll
  BY <1>2 DEF At, Text
<1>4. ASSUME NEW k PROVE print_page(back_lines(b, k), height, update).hscroll = b.hscroll
  BY <1>1, <1>2
<1>5. print_page(back_lines(At(b, b.n, b.begin, TRUE), height), height, update).hscroll = b.hscroll
  BY <1>1, <1>2 DEF At, Text
<1>6. QED
  BY <1>3, <1>4, <1>5 DEF TextKey

\* A text that no newline closes stays one.
LEMMA StaysOpen ==
  ASSUME NEW b, b.closed = FALSE, NEW height, NEW update, NEW maxlen, NEW key, NEW was
  PROVE  /\ TextKey(b, key, height, update, maxlen).closed = FALSE
         /\ TextResized(b, was, height, update).closed = FALSE
<1>1. ASSUME NEW c, NEW k PROVE back_lines(c, k).closed = c.closed
  BY DEF back_lines, Text
<1>2. ASSUME NEW c PROVE print_page(c, height, update).closed = c.closed
  BY DEF print_page, Printed, back_lines, get_lines, Text
<1>3. ASSUME NEW page, NEW begin, NEW end
      PROVE  /\ print_page(At(b, page, begin, end), height, update).closed = FALSE
             /\ print_page(back_lines(At(b, page, begin, end), height), height, update).closed = FALSE
  BY <1>1, <1>2 DEF At, Text
<1>4. ASSUME NEW h, NEW k
      PROVE  print_page(back_lines(Shifted(b, h), k), height, update).closed = FALSE
  BY <1>1, <1>2 DEF Shifted, Text
<1>5. ASSUME NEW k PROVE print_page(back_lines(b, k), height, update).closed = FALSE
  BY <1>1, <1>2
<1>6. TextResized(b, was, height, update).closed = FALSE
  BY <1>1, <1>2 DEF TextResized
<1>7. QED
  BY <1>3, <1>4, <1>5, <1>6 DEF TextKey

\* A text box has a line, in every terminal that the program runs in.
LEMMA HeightFact ==
  ASSUME DialogsAssumption, NEW t \in Terminals, NEW initial \in {0, 5, 6}
  PROVE  TextHeight(t, initial) \in Nat \ {0}
BY DEF DialogsAssumption, TextHeight

\* A box that is opened is sound, whatever is in it and wherever it was left.
LEMMA OpeningSound ==
  ASSUME DialogsAssumption, ScreenInv, Opening
  PROVE  ScreenInv'
<1>1. term' = term /\ term' \in Terminals
  BY DEF Opening, ScreenInv
<1>2. CASE OpensMenu(dlg')
  <2>1. dlg'.kind = "menu" /\ dlg'.box.count \in Nat
    BY <1>2 DEF OpensMenu
  <2>2. MenuHeight(term) \in Nat \ {0}
    BY <1>1, <1>2 DEF OpensMenu, MenuFits, MenuHeight, DialogsAssumption
  <2>3. PICK at \in 0..Greater(dlg'.box.count - 1, 0), saved \in -1..dlg'.box.count :
           dlg'.box = MenuOpen(dlg'.box.count, MenuHeight(term), at, saved)
    BY <1>2 DEF OpensMenu
  <2>4. /\ at \in Nat /\ saved \in Int
        /\ dlg'.box.count > 0 => at < dlg'.box.count
        /\ dlg'.box.count = 0 => at = 0
    BY <2>1 DEF Greater
  <2> DEFINE count == dlg'.box.count
             height == MenuHeight(term)
  <2>5. count \in Nat /\ height \in Nat \ {0} /\ (count > 0 => at < count) /\ (count = 0 => at = 0)
    BY <2>1, <2>2, <2>4
  <2>6. dlg'.box = MenuOpen(count, height, at, saved)
    BY <2>3
  <2> HIDE DEF count, height
  <2>7. MenuInv(MenuOpen(count, height, at, saved))
    BY <2>4, <2>5, MenuOpensSound
  <2>8. MenuInv(dlg'.box)
    BY <2>6, <2>7
  <2>9. dlg'.box.button \in 0..4
    BY <2>6 DEF MenuOpen, MenuDraw, Menu
  <2>10. QED
    BY <1>1, <2>1, <2>8, <2>9 DEF ScreenInv, MenuPart, ListPart, InputPart, TextPart, On, Box
<1>3. CASE OpensList(dlg')
  <2>1. dlg'.kind = "list" /\ dlg'.box.count \in Nat
    BY <1>3 DEF OpensList
  <2>2. PICK at \in 0..dlg'.box.count-1 : dlg'.box = ListOpen(dlg'.box.count, CheckListHeight, at)
    BY <1>3 DEF OpensList
  <2> DEFINE count == dlg'.box.count
  <2>3. count \in Nat /\ at \in Nat /\ at < count /\ CheckListHeight \in Nat \ {0}
    BY <2>1, <2>2 DEF CheckListHeight
  <2>4. dlg'.box = ListOpen(count, CheckListHeight, at)
    BY <2>2
  <2> HIDE DEF count
  <2>5. ListInv(dlg'.box)
    BY <2>3, <2>4, ListOpensSound
  <2>6. QED
    BY <1>1, <2>1, <2>5 DEF ScreenInv, MenuPart, ListPart, InputPart, TextPart, On, Box
<1>4. CASE OpensInput(dlg')
  <2> DEFINE text == dlg'.box.text
  <2>1. /\ text \in Seq(Nat) /\ dlg'.kind = "input"
        /\ dlg' = InputOf(InputOpen(text, InputWidth, -1))
    BY <1>4 DEF OpensInput
  <2>2. InputWidth \in Nat \ {0}
    BY DEF DialogsAssumption
  <2> HIDE DEF text
  <2>3. dlg'.box = InputOpen(text, InputWidth, -1)
    BY <2>1 DEF InputOf
  <2>4. -1 \in -1..1
    OBVIOUS
  <2>5. InputInv(dlg'.box, Nat, InputWidth)
    BY <2>1, <2>2, <2>3, <2>4, InputOpensSound
  <2>6. dlg'.box.button \in -1..1
    BY <2>3 DEF InputOpen, Input
  <2>7. QED
    BY <1>1, <2>1, <2>5, <2>6 DEF ScreenInv, MenuPart, ListPart, InputPart, TextPart, On, Box
<1>5. CASE OpensResults(dlg')
  <2> DEFINE h == TextHeight(term, 0)
             n == dlg'.box.n
             hscroll == dlg'.box.hscroll
  <2>1. /\ dlg'.kind = "text" /\ dlg' = TextBox(dlg'.box, h, 0, dlg'.jumps, TRUE)
        /\ n \in Nat /\ hscroll \in Nat
    BY <1>5 DEF OpensResults
  <2>2. PICK vscroll \in 0..n : dlg'.box = TextOpen(n, TRUE, h, TRUE, vscroll, hscroll)
    BY <1>5 DEF OpensResults
  <2>3. h \in Nat \ {0}
    BY <1>1, HeightFact
  <2>4. h = TextHeight(term', 0)
    BY <1>1
  <2> HIDE DEF h, n, hscroll
  <2>5. vscroll \in Nat
    BY <2>1, <2>2
  <2>6. TextInv(dlg'.box, h, TRUE)
    BY <2>1, <2>2, <2>3, <2>5, TextOpensSound
  <2>7. dlg'.initial = 0 /\ dlg'.height = h /\ dlg'.found = TRUE
    BY <2>1 DEF TextBox
  <2>8. QED
    BY <1>1, <2>1, <2>4, <2>6, <2>7 DEF ScreenInv, MenuPart, ListPart, InputPart, TextPart, On, Box
<1>6. CASE OpensText(dlg')
  <2> DEFINE initial == dlg'.initial
             h == TextHeight(term, initial)
             n == dlg'.box.n
             closed == initial = 0
  <2>1. /\ dlg'.kind = "text" /\ initial \in {0, 5, 6} /\ n \in Nat
        /\ dlg' = TextBox(TextOpen(n, closed, h, FALSE, 0, 0), h, initial, dlg'.jumps, FALSE)
    BY <1>6 DEF OpensText
  <2>2. h \in Nat \ {0}
    BY <1>1, <2>1, HeightFact
  <2>3. h = TextHeight(term', initial)
    BY <1>1
  <2>4. closed \in BOOLEAN
    OBVIOUS
  <2>5. initial = dlg'.initial
    OBVIOUS
  <2> DEFINE opened == TextOpen(n, closed, h, FALSE, 0, 0)
  <2> HIDE DEF h, n, closed, initial
  <2>6. dlg'.box = opened /\ dlg'.height = h /\ dlg'.found = FALSE
    <3> HIDE DEF opened
    <3>1. dlg' = TextBox(opened, h, initial, dlg'.jumps, FALSE)
      BY <2>1 DEF opened
    <3>2. QED
      BY <3>1 DEF TextBox
  <2>7. CASE closed = TRUE
    <3>1. TextInv(dlg'.box, h, FALSE)
      BY <2>1, <2>2, <2>6, <2>7, TextOpensSound
    <3>2. QED
      BY <1>1, <2>1, <2>3, <2>5, <2>6, <3>1
      DEF ScreenInv, MenuPart, ListPart, InputPart, TextPart, On, Box
  <2>8. CASE closed = FALSE
    <3>1. TextOpen(n, FALSE, h, FALSE, 0, 0).closed = FALSE
      BY DEF TextOpen, print_page, Printed, Text
    <3>2. dlg'.box.closed = FALSE
      BY <2>6, <2>8, <3>1
    <3>3. QED
      BY <1>1, <2>1, <2>3, <2>5, <2>6, <3>2
      DEF ScreenInv, MenuPart, ListPart, InputPart, TextPart, On, Box
  <2>9. QED
    BY <2>4, <2>7, <2>8
<1>7. QED
  BY <1>2, <1>3, <1>4, <1>5, <1>6 DEF Opening

\* A key leaves a sound box.
LEMMA KeySound ==
  ASSUME DialogsAssumption, ScreenInv, Key
  PROVE  ScreenInv'
<1>1. term' = term /\ term' \in Terminals
  BY DEF Key, ScreenInv
<1>2. CASE On("menu") /\ \E b \in MenuMoves(AnyRow) : dlg' = MenuOf(b, dlg.items, dlg.redrawn)
  <2>1. PICK b \in MenuMoves(AnyRow) : dlg' = MenuOf(b, dlg.items, dlg.redrawn)
    BY <1>2
  <2>2. dlg'.kind = "menu" /\ dlg'.box = b /\ dlg'.redrawn = dlg.redrawn
    BY <2>1 DEF MenuOf
  <2>3. dlg.redrawn # TRUE => MenuInv(b) /\ b.button \in 0..4
    BY <1>2, <2>1, MenuMovesSound DEF ScreenInv, MenuPart
  <2>4. QED
    BY <1>1, <2>2, <2>3 DEF ScreenInv, MenuPart, ListPart, InputPart, TextPart, On, Box
<1>3. CASE On("list") /\ \E b \in ListMoves(AnyRow) : dlg' = ListOf(b, dlg.items)
  <2>1. PICK b \in ListMoves(AnyRow) : dlg' = ListOf(b, dlg.items)
    BY <1>3
  <2>2. dlg'.kind = "list" /\ dlg'.box = b
    BY <2>1 DEF ListOf
  <2>3. ListInv(b)
    BY <1>3, <2>1, ListMovesSound DEF ScreenInv, ListPart
  <2>4. QED
    BY <1>1, <2>2, <2>3 DEF ScreenInv, MenuPart, ListPart, InputPart, TextPart, On, Box
<1>4. CASE On("input") /\ \E b \in InputMoves : dlg' = InputOf(b)
  <2>1. PICK b \in InputMoves : dlg' = InputOf(b)
    BY <1>4
  <2>2. dlg'.kind = "input" /\ dlg'.box = b
    BY <2>1 DEF InputOf
  <2>3. InputInv(b, Nat, InputWidth) /\ b.button \in -1..1
    BY <1>4, <2>1, InputMovesSound DEF ScreenInv, InputPart
  <2>4. QED
    BY <1>1, <2>2, <2>3 DEF ScreenInv, MenuPart, ListPart, InputPart, TextPart, On, Box
<1>5. CASE /\ On("text")
           /\ \E key \in TextKeys :
                dlg' = TextBox(TextKey(Box, key, dlg.height, dlg.found, MaxLen),
                               dlg.height, dlg.initial, dlg.jumps, dlg.found)
  <2> DEFINE h == dlg.height
             update == dlg.found
             b == Box
  <2>0. PICK key \in TextKeys :
          dlg' = TextBox(TextKey(b, key, h, update, MaxLen), h, dlg.initial, dlg.jumps, update)
    BY <1>5
  <2>1. /\ dlg.initial \in {0, 5, 6} /\ h = TextHeight(term, dlg.initial) /\ update \in BOOLEAN
        /\ b.closed = FALSE \/ TextInv(b, h, update)
    BY <1>5 DEF ScreenInv, TextPart
  <2>2. h \in Nat \ {0} /\ MaxLen \in Nat
    BY <1>1, <2>1, HeightFact DEF DialogsAssumption
  <2>3. dlg.height = h /\ dlg.found = update
    OBVIOUS
  <2> HIDE DEF h, update, b
  <2>4. /\ dlg'.kind = "text" /\ dlg'.box = TextKey(b, key, h, update, MaxLen)
        /\ dlg'.height = h /\ dlg'.initial = dlg.initial /\ dlg'.found = update
    BY <2>0 DEF TextBox
  <2>5. dlg'.box.closed = FALSE \/ TextInv(dlg'.box, h, update)
    <3>1. b.closed = FALSE => TextKey(b, key, h, update, MaxLen).closed = FALSE
      BY StaysOpen, Zenon
    <3>2. TextInv(b, h, update) => TextInv(TextKey(b, key, h, update, MaxLen), h, update)
      BY <2>1, <2>2, TextKeysSound
    <3>3. QED
      BY <2>1, <2>4, <3>1, <3>2
  <2>6. QED
    BY <1>1, <2>1, <2>4, <2>5 DEF ScreenInv, MenuPart, ListPart, InputPart, TextPart, On, Box
<1>6. QED
  BY <1>2, <1>3, <1>4, <1>5 DEF Key

\* A resize leaves a sound box, but for menus.
LEMMA RedrawSound ==
  ASSUME DialogsAssumption, ScreenInv, Redraw
  PROVE  ScreenInv'
<1>1. term' \in Terminals /\ InputWidth \in Nat \ {0}
  BY DEF Redraw, DialogsAssumption
<1>2. CASE dlg'.kind \in Plain
  BY <1>1, <1>2 DEF Plain, ScreenInv, MenuPart, ListPart, InputPart, TextPart, On
<1>3. CASE On("menu") /\ dlg' = MenuOf(dlg'.box, dlg.items, TRUE)
  <2>1. dlg'.kind = "menu" /\ dlg'.redrawn = TRUE
    BY <1>3 DEF MenuOf
  <2>2. QED
    BY <1>1, <2>1 DEF ScreenInv, MenuPart, ListPart, InputPart, TextPart, On
<1>4. CASE On("list") /\ UNCHANGED dlg
  BY <1>1, <1>4 DEF ScreenInv, MenuPart, ListPart, InputPart, TextPart, On, Box
<1>5. CASE On("input") /\ dlg' = InputOf(InputOpen(Box.text, InputWidth, Box.button))
  <2> DEFINE text == Box.text
             button == Box.button
  <2>1. text \in Seq(Nat) /\ button \in -1..1
    BY <1>5 DEF ScreenInv, InputPart, InputInv, InputTyped
  <2> HIDE DEF text, button
  <2>2. dlg'.kind = "input" /\ dlg'.box = InputOpen(text, InputWidth, button)
    BY <1>5 DEF InputOf, text, button
  <2>3. InputInv(dlg'.box, Nat, InputWidth)
    BY <1>1, <2>1, <2>2, InputOpensSound
  <2>4. dlg'.box.button \in -1..1
    BY <2>1, <2>2 DEF InputOpen, Input
  <2>5. QED
    BY <1>1, <2>2, <2>3, <2>4 DEF ScreenInv, MenuPart, ListPart, InputPart, TextPart, On, Box
<1>6. CASE On("text") /\ LET h == TextHeight(term', dlg.initial)
                         IN  dlg' = TextBox(TextResized(Box, dlg.height, h, dlg.found),
                                            h, dlg.initial, dlg.jumps, dlg.found)
  <2> DEFINE h == TextHeight(term', dlg.initial)
             was == dlg.height
             update == dlg.found
             b == Box
  <2>1. dlg' = TextBox(TextResized(b, was, h, update), h, dlg.initial, dlg.jumps, update)
    BY <1>6
  <2>2. /\ dlg.initial \in {0, 5, 6} /\ was = TextHeight(term, dlg.initial) /\ update \in BOOLEAN
        /\ b.closed = FALSE \/ TextInv(b, was, update)
    BY <1>6 DEF ScreenInv, TextPart
  <2>3. was \in Nat \ {0}
    BY <2>2, HeightFact DEF ScreenInv
  <2>4. h \in Nat \ {0}
    BY <1>1, <2>2, HeightFact
  <2>5. h = TextHeight(term', dlg.initial)
    OBVIOUS
  <2> HIDE DEF h, was, update, b
  <2>6. /\ dlg'.kind = "text" /\ dlg'.box = TextResized(b, was, h, update)
        /\ dlg'.height = h /\ dlg'.initial = dlg.initial /\ dlg'.found = update
    BY <2>1 DEF TextBox
  <2>7. CASE b.closed = FALSE
    <3>1. TextResized(b, was, h, update).closed = FALSE
      BY <2>7, StaysOpen, Zenon
    <3>2. QED
      BY <1>1, <2>2, <2>5, <2>6, <3>1 DEF ScreenInv, MenuPart, ListPart, InputPart, TextPart, On, Box
  <2>8. CASE TextInv(b, was, update)
    <3>1. TextTyped(b) /\ b.hscroll \in Nat
      BY <2>8 DEF TextInv
    <3>2. TextInv(dlg'.box, h, update)
      BY <2>2, <2>3, <2>4, <2>6, <3>1, TextResizesSound
    <3>3. QED
      BY <1>1, <2>2, <2>5, <2>6, <3>2 DEF ScreenInv, MenuPart, ListPart, InputPart, TextPart, On, Box
  <2>9. QED
    BY <2>2, <2>7, <2>8
<1>7. QED
  BY <1>2, <1>3, <1>4, <1>5, <1>6 DEF Redraw, Plain

\* What is on the screen of menuconfig is sound at all times.
THEOREM ScreenInvHolds == ScreenSpec => []ScreenInv
<1>1. DialogsAssumption
  BY DialogsAssumption
<1>2. ScreenInit => ScreenInv
  BY DEF ScreenInit, NoBox, ScreenInv, MenuPart, ListPart, InputPart, TextPart, On
<1>3. ScreenInv /\ [ScreenNext]_screen => ScreenInv'
  <2> SUFFICES ASSUME ScreenInv, [ScreenNext]_screen PROVE ScreenInv'
    OBVIOUS
  <2>1. CASE Key
    BY <1>1, <2>1, KeySound
  <2>2. CASE Opening
    BY <1>1, <2>2, OpeningSound
  <2>3. CASE Return
    BY <2>3 DEF Return, ScreenInv, MenuPart, ListPart, InputPart, TextPart, On
  <2>4. CASE Redraw
    BY <1>1, <2>4, RedrawSound
  <2>5. CASE UNCHANGED screen
    BY <2>5 DEF screen, ScreenInv, MenuPart, ListPart, InputPart, TextPart, On, Box
  <2>6. QED
    BY <2>1, <2>2, <2>3, <2>4, <2>5 DEF ScreenNext
<1>4. QED
  BY <1>2, <1>3, PTL DEF ScreenSpec

\* Whatever menus, lists and input boxes mconf shows, at whatever positions it
\* opens them and whatever keys and resizes follow, their rows show the items that
\* the keys act on, unless a resize has a menu drawn again, and the cursor stands
\* where the next key edits the text.
THEOREM ShownIsActedOnThm == ScreenSpec => []ShownIsActedOn
<1>1. ScreenInv => ShownIsActedOn
  BY DEF ScreenInv, MenuPart, ListPart, InputPart, ShownIsActedOn, MenuInv, ListInv, InputInv
<1>2. QED
  BY <1>1, ScreenInvHolds, PTL

\* The position that mconf keeps for the results of a search leads back to the
\* page that was left, after any keys and resizes.
THEOREM PageStaysThm == ScreenSpec => []PageStays
<1>1. ScreenInv => PageStays
  BY DEF ScreenInv, TextPart, PageStays, TextInv, TextSound
<1>2. QED
  BY <1>1, ScreenInvHolds, PTL

\* Shifting a text sideways never moves it up or down.
THEOREM ShiftKeepsPageThm == ScreenSpec => ShiftKeepsPage
<1>1. ASSUME ScreenInv, [ScreenNext]_screen, On("text"), dlg'.kind = "text", Box.closed,
             dlg'.box.hscroll # Box.hscroll
      PROVE  dlg'.box.top = Box.top
  <2> DEFINE h == dlg.height
             update == dlg.found
             b == Box
  <2>1. /\ term \in Terminals /\ dlg.initial \in {0, 5, 6}
        /\ h = TextHeight(term, dlg.initial) /\ update \in BOOLEAN
        /\ TextInv(b, h, update)
    BY <1>1 DEF ScreenInv, TextPart
  <2>2. h \in Nat \ {0} /\ MaxLen \in Nat
    BY <2>1, HeightFact, DialogsAssumption DEF DialogsAssumption
  <2>3. CASE Key
    <3>1. PICK key : dlg' = TextBox(TextKey(b, key, h, update, MaxLen), h, dlg.initial, dlg.jumps, update)
      BY <1>1, <2>3 DEF Key, On
    <3> HIDE DEF h, update, b
    <3>2. dlg'.box = TextKey(b, key, h, update, MaxLen)
      BY <3>1 DEF TextBox
    <3>3. CASE key \in {"0", "LEFT", "RIGHT"}
      <4>1. TextKey(b, key, h, update, MaxLen).top = b.top
        BY <2>1, <2>2, <3>3, SidewaysStays
      <4>2. QED
        BY <3>2, <4>1 DEF b
    <3>4. CASE key \notin {"0", "LEFT", "RIGHT"}
      <4>1. TextKey(b, key, h, update, MaxLen).hscroll = b.hscroll
        BY <2>1, <2>2, <3>4, OthersDoNotShift
      <4>2. QED
        BY <1>1, <3>2, <4>1 DEF b
    <3>5. QED
      BY <3>3, <3>4
  <2>4. CASE Opening
    BY <1>1, <2>4 DEF Opening, On, OpensMenu, OpensList, OpensInput, OpensResults, OpensText
  <2>5. CASE Return
    BY <1>1, <2>5 DEF Return
  <2>6. CASE Redraw
    <3> DEFINE to == TextHeight(term', dlg.initial)
    <3>1. dlg' = TextBox(TextResized(b, h, to, update), to, dlg.initial, dlg.jumps, update)
      BY <1>1, <2>6 DEF Redraw, On
    <3> HIDE DEF h, update, b, to
    <3>2. dlg'.box = TextResized(b, h, to, update)
      BY <3>1 DEF TextBox
    <3>3. TextResized(b, h, to, update).hscroll = b.hscroll
      BY DEF TextResized, print_page, Printed, back_lines, get_lines, Text
    <3>4. QED
      BY <1>1, <3>2, <3>3 DEF b
  <2>7. CASE UNCHANGED screen
    BY <1>1, <2>7 DEF screen, Box
  <2>8. QED
    BY <1>1, <2>3, <2>4, <2>5, <2>6, <2>7 DEF ScreenNext
<1>2. QED
  BY <1>1, ScreenInvHolds, PTL DEF ScreenSpec, ShiftKeepsPage
=============================================================================
