--------------------------- MODULE KeyboardProofs ---------------------------
(***************************************************************************)
(* Proofs about Console and Keyboard, for any size of the console, any     *)
(* keys and any length of the queue.                                       *)
(*                                                                         *)
(* The console: each function keeps the screen up to date, and keeps the   *)
(* cursor on the screen as long as the user has not scrolled.              *)
(*                                                                         *)
(* The keyboard: the bytes on the way form a chain.  Each byte says what   *)
(* the flags of the handler have to be when it is read (Before) and what   *)
(* they are afterwards (After); neighbours agree, and the chain begins     *)
(* with the flags as they are and ends with no flag set.                   *)
(***************************************************************************)
EXTENDS Keyboard, TLAPS

-----------------------------------------------------------------------------
\* Arithmetic.
LEMMA ModRange == ASSUME NEW m \in Nat \ {0}, NEW a \in Int
                  PROVE  a % m \in 0 .. (m - 1)
OBVIOUS

LEMMA ModSmall == ASSUME NEW m \in Nat \ {0}, NEW a \in 0 .. (m - 1)
                  PROVE  a % m = a
OBVIOUS

\* The sizes of the console.
LEMMA Sizes == /\ Width \in Nat /\ Width > 1
               /\ Visible \in Nat /\ Visible > 0
               /\ Height \in Nat /\ Height > Visible
               /\ Modulus \in Nat /\ Modulus > 2 * Height /\ Modulus > Height
               /\ Column \in Nat /\ TextLength \in Nat /\ Column + TextLength < Width
BY ConsoleAssumption, KeyboardAssumption

\* A console that shows its history; and one whose cursor is on the screen, with
\* no access outside the arrays so far.
Current(c)  == c \in ConsoleType /\ c.stale = {}
OnScreen(c) == /\ c.wild = {}
               /\ c.scroll <= c.y /\ c.y < c.scroll + Visible
               /\ c.scroll + Visible <= Height

\* Each function of console.c keeps both.
LEMMA UpdateKeeps ==
    ASSUME NEW c \in ConsoleType
    PROVE  LET d == console_update_screen(c) IN
           /\ Current(d)
           /\ c.scroll + Visible <= Height => d.wild = c.wild
           /\ d.x = c.x /\ d.y = c.y /\ d.scroll = c.scroll
<1> DEFINE d == console_update_screen(c)
<1>1. /\ d = [c EXCEPT !.stale = {}, !.wild = d.wild]
      /\ d.wild = IF c.scroll + Visible > Height THEN c.wild \cup {"read"} ELSE c.wild
  BY DEF console_update_screen, ConsoleType
<1>2. d.wild \subseteq {"history", "video", "read"} BY <1>1 DEF ConsoleType
<1>3. c.scroll \in 0 .. (Height - 1) BY DEF ConsoleType
<1>4. c.scroll + Visible <= Height => d.wild = c.wild BY <1>1, <1>3, Sizes
<1> HIDE DEF d
<1>5. d \in ConsoleType /\ d.stale = {} /\ d.x = c.x /\ d.y = c.y /\ d.scroll = c.scroll
  BY <1>1, <1>2 DEF ConsoleType
<1> QED BY <1>4, <1>5 DEF Current, d

LEMMA ScrollToKeeps ==
    ASSUME NEW c \in ConsoleType, NEW s \in 0 .. (Height - 1)
    PROVE  LET d == ScrollTo(c, s) IN
           /\ d \in ConsoleType
           /\ d.x = c.x /\ d.y = c.y /\ d.wild = c.wild /\ d.scroll = s
BY DEF ScrollTo, ConsoleType

LEMMA ClearKeeps ==
    ASSUME NEW c \in ConsoleType
    PROVE  /\ Current(console_clear(c))
           /\ console_clear(c).x = 0 /\ console_clear(c).y = 0 /\ console_clear(c).scroll = 0
           /\ c.wild = {} => OnScreen(console_clear(c))
<1> DEFINE d == [c EXCEPT !.x = 0, !.y = 0]
<1>1. d \in ConsoleType /\ d.x = 0 /\ d.y = 0 /\ d.wild = c.wild
  <2>1. 0 \in 0 .. (Width - 1) /\ 0 \in 0 .. (Modulus - 1) BY Sizes
  <2> QED BY <2>1 DEF ConsoleType
<1>2. 0 \in 0 .. (Height - 1) BY ConsoleAssumption
<1> HIDE DEF d
<1> DEFINE e == ScrollTo(d, 0)
<1>3. e \in ConsoleType /\ e.x = 0 /\ e.y = 0 /\ e.scroll = 0 /\ e.wild = c.wild
  BY <1>1, <1>2, ScrollToKeeps
<1> HIDE DEF e
<1>4. console_clear(c) = console_update_screen(e) BY DEF console_clear, d, e
<1>5. QED BY <1>3, <1>4, UpdateKeeps, Sizes DEF OnScreen

LEMMA NewLineKeeps ==
    ASSUME NEW c, Current(c)
    PROVE  LET d == console_new_line(c) IN
           Current(d) /\ d.x = 0 /\ (OnScreen(c) => OnScreen(d))
<1> DEFINE n == [c EXCEPT !.y = (c.y + 1) % Modulus]
           m == IF n.y >= Height THEN console_clear(n) ELSE n
           z == [m EXCEPT !.x = 0]
           s == z.scroll + 1
           d == IF z.y >= z.scroll + Visible /\ z.scroll < Height - 1
                THEN console_update_screen(ScrollTo(z, s)) ELSE z
<1>1. console_new_line(c) = d BY DEF console_new_line
<1>2. /\ c \in ConsoleType /\ c.stale = {}
      /\ c.y \in 0 .. (Modulus - 1) /\ c.scroll \in 0 .. (Height - 1)
  BY DEF Current, ConsoleType
<1>3. (c.y + 1) % Modulus \in 0 .. (Modulus - 1)
  <2>1. c.y + 1 \in Int /\ Modulus \in Nat \ {0} BY <1>2, Sizes
  <2> QED BY <2>1, ModRange
<1>4. Current(n) /\ n.scroll = c.scroll /\ n.wild = c.wild /\ n.y = (c.y + 1) % Modulus
  BY <1>2, <1>3 DEF Current, ConsoleType
<1>5. OnScreen(c) => n.y = c.y + 1
  <2>1. OnScreen(c) => c.y + 1 \in 0 .. (Modulus - 1) BY <1>2, Sizes DEF OnScreen
  <2> QED BY <2>1, <1>4, ModSmall, Sizes
<1> HIDE DEF n
<1>6. Current(m) /\ (n.y < Height => m = n)
      /\ (n.y >= Height => m.y = 0 /\ m.scroll = 0 /\ (n.wild = {} => OnScreen(m)))
  <2>1. n.y \in Int BY <1>4 DEF Current, ConsoleType
  <2>2. CASE n.y >= Height
    <3>1. m = console_clear(n) BY <2>2
    <3>2. n \in ConsoleType BY <1>4 DEF Current
    <3> HIDE DEF m
    <3> QED BY <3>1, <3>2, <2>1, <2>2, ClearKeeps, Sizes
  <2>3. CASE ~(n.y >= Height) BY <2>3, <1>4 DEF Current
  <2> QED BY <2>1, <2>2, <2>3, Sizes
<1>7. OnScreen(c) => /\ m.wild = {} /\ m.scroll <= m.y /\ m.y <= m.scroll + Visible
                     /\ m.y < Height /\ m.scroll + Visible <= Height
  <2>1. SUFFICES ASSUME OnScreen(c)
                 PROVE  /\ m.wild = {} /\ m.scroll <= m.y /\ m.y <= m.scroll + Visible
                        /\ m.y < Height /\ m.scroll + Visible <= Height
    OBVIOUS
  <2>2. n.wild = {} /\ n.scroll <= n.y /\ n.y <= n.scroll + Visible /\ n.scroll + Visible <= Height
    BY <2>1, <1>2, <1>4, <1>5, Sizes DEF OnScreen
  <2> QED BY <2>2, <1>4, <1>6, Sizes DEF OnScreen, Current, ConsoleType
<1> HIDE DEF m
<1>8. Current(z) /\ z.x = 0 /\ z.y = m.y /\ z.scroll = m.scroll /\ z.wild = m.wild
  BY <1>6, Sizes DEF Current, ConsoleType
<1>9. z.y \in 0 .. (Modulus - 1) /\ z.scroll \in 0 .. (Height - 1)
  BY <1>8 DEF Current, ConsoleType
<1> HIDE DEF z
<1>10. CASE z.y >= z.scroll + Visible /\ z.scroll < Height - 1
  <2>1. s \in 0 .. (Height - 1) BY <1>10, <1>9, Sizes
  <2> DEFINE e == ScrollTo(z, s)
  <2>2. e \in ConsoleType /\ e.x = 0 /\ e.y = z.y /\ e.wild = z.wild /\ e.scroll = s
    BY <2>1, <1>8, ScrollToKeeps DEF Current
  <2> HIDE DEF e
  <2>3. d = console_update_screen(e) BY <1>10 DEF e
  <2> HIDE DEF d
  <2>4. Current(d) /\ d.x = 0 /\ d.y = z.y /\ d.scroll = s
        /\ (s + Visible <= Height => d.wild = z.wild)
    BY <2>2, <2>3, UpdateKeeps
  <2>5. OnScreen(c) => OnScreen(d)
    BY <2>4, <1>7, <1>8, <1>9, <1>10, Sizes DEF OnScreen
  <2> QED BY <1>1, <2>4, <2>5
<1>11. CASE ~(z.y >= z.scroll + Visible /\ z.scroll < Height - 1)
  <2>1. d = z BY <1>11
  <2>2. OnScreen(c) => OnScreen(z) BY <1>7, <1>8, <1>9, <1>11, Sizes DEF OnScreen
  <2> QED BY <1>1, <1>8, <2>1, <2>2
<1> QED BY <1>10, <1>11

\* console_print_char, n times within a line.
LEMMA InLineKeeps ==
    ASSUME NEW c, Current(c), NEW n \in Nat, c.x + n <= Width
    PROVE  LET d == PrintInLine(c, n) IN
           /\ Current(d)
           /\ OnScreen(c) => OnScreen(d)
           /\ c.x + n >= Width => d.x = 0
           /\ c.x + n < Width => d.x = c.x + n /\ d.y = c.y /\ d.scroll = c.scroll
<1> DEFINE shown == c.y >= c.scroll /\ c.y < c.scroll + Height
           cells == {<<k, c.y - c.scroll>> : k \in c.x .. (c.x + n - 1)}
           stale == IF shown THEN c.stale \ cells ELSE c.stale \cup (cells \cap Screen)
           wild  == (c.wild \cup (IF c.y >= Height THEN {"history"} ELSE {}))
                       \cup (IF shown /\ ~(cells \subseteq Screen) THEN {"video"} ELSE {})
           w == [c EXCEPT !.stale = stale, !.wild = wild]
<1>1. PrintInLine(c, n) = IF c.x + n >= Width THEN console_new_line(w) ELSE [w EXCEPT !.x = c.x + n]
  BY DEF PrintInLine, Current, ConsoleType
<1>2. /\ c \in ConsoleType /\ c.stale = {} /\ c.wild \subseteq {"history", "video", "read"}
      /\ c.x \in 0 .. (Width - 1) /\ c.y \in 0 .. (Modulus - 1) /\ c.scroll \in 0 .. (Height - 1)
  BY DEF Current, ConsoleType
<1>3. stale = {}
  <2>1. ASSUME ~shown, NEW k \in c.x .. (c.x + n - 1) PROVE <<k, c.y - c.scroll>> \notin Screen
    BY <2>1, <1>2, Sizes DEF Screen
  <2> QED BY <2>1, <1>2
<1>4. wild \subseteq {"history", "video", "read"} BY <1>2
<1>5. OnScreen(c) => wild = {}
  <2>1. SUFFICES ASSUME OnScreen(c) PROVE wild = {} OBVIOUS
  <2>2. c.y < Height BY <2>1, <1>2, Sizes DEF OnScreen
  <2>3. cells \subseteq Screen
    <3>1. c.y - c.scroll \in 0 .. (Visible - 1) BY <2>1, <1>2, Sizes DEF OnScreen
    <3>2. \A k \in c.x .. (c.x + n - 1) : k \in 0 .. (Width - 1) BY <1>2, Sizes
    <3> QED BY <3>1, <3>2 DEF Screen
  <2>4. c.wild = {} /\ ~(c.y >= Height) BY <2>1, <2>2, <1>2, Sizes DEF OnScreen
  <2> HIDE DEF cells, shown
  <2> QED BY <2>3, <2>4
<1> HIDE DEF stale, wild
<1>6. /\ w \in ConsoleType /\ w.stale = stale /\ w.wild = wild
      /\ w.x = c.x /\ w.y = c.y /\ w.scroll = c.scroll
  BY <1>2, <1>3, <1>4 DEF ConsoleType
<1>7. Current(w) /\ (OnScreen(c) => OnScreen(w))
  BY <1>3, <1>5, <1>6 DEF Current, OnScreen
<1> HIDE DEF w
<1>8. CASE c.x + n >= Width BY <1>8, <1>1, <1>2, <1>7, NewLineKeeps, Sizes
<1>9. CASE ~(c.x + n >= Width)
  <2> DEFINE d == [w EXCEPT !.x = c.x + n]
  <2>1. c.x + n \in 0 .. (Width - 1) BY <1>2, <1>9, Sizes
  <2>2. /\ d \in ConsoleType /\ d.stale = w.stale /\ d.wild = w.wild /\ d.x = c.x + n
        /\ d.y = c.y /\ d.scroll = c.scroll
    BY <2>1, <1>6 DEF ConsoleType
  <2>3. PrintInLine(c, n) = d BY <1>1, <1>9
  <2> HIDE DEF d
  <2> QED BY <2>2, <2>3, <1>2, <1>6, <1>7, <1>9, Sizes DEF Current, OnScreen
<1> QED BY <1>8, <1>9

LEMMA PrintKeeps ==
    ASSUME NEW c, Current(c), NEW n \in Nat, n < Width
    PROVE  LET d == console_print(c, n) IN
           /\ Current(d)
           /\ OnScreen(c) => OnScreen(d)
           /\ c.x + n < Width => d.x = c.x + n /\ d.y = c.y /\ d.scroll = c.scroll
<1> DEFINE first == Width - c.x
           e == PrintInLine(c, first)
<1>1. console_print(c, n) = IF n <= first THEN PrintInLine(c, n) ELSE PrintInLine(e, n - first)
  BY DEF console_print
<1>2. c.x \in 0 .. (Width - 1) BY DEF Current, ConsoleType
<1>3. first \in Nat /\ c.x + first = Width BY <1>2, Sizes
<1>4. CASE n <= first
  <2>1. c.x + n <= Width BY <1>2, <1>4, Sizes
  <2> QED BY <2>1, <1>1, <1>4, InLineKeeps
<1>5. CASE ~(n <= first)
  <2>1. Current(e) /\ (OnScreen(c) => OnScreen(e)) /\ e.x = 0 BY <1>3, InLineKeeps, Sizes
  <2>2. n - first \in Nat /\ e.x + (n - first) <= Width /\ ~(c.x + n < Width)
    BY <2>1, <1>2, <1>3, <1>5, Sizes
  <2>3. console_print(c, n) = PrintInLine(e, n - first) BY <1>1, <1>5
  <2> HIDE DEF e, first
  <2> QED BY <2>1, <2>2, <2>3, InLineKeeps
<1> QED BY <1>4, <1>5

LEMMA PrintCharKeeps ==
    ASSUME NEW c, Current(c)
    PROVE  LET d == console_print_char(c) IN
           /\ Current(d)
           /\ OnScreen(c) => OnScreen(d)
           /\ c.x + 1 < Width => d.x = c.x + 1 /\ d.y = c.y /\ d.scroll = c.scroll
<1>1. c.x + 1 <= Width BY Sizes DEF Current, ConsoleType
<1> QED BY <1>1, InLineKeeps DEF console_print_char

LEMMA SetCursorKeeps ==
    ASSUME NEW c, Current(c), NEW x \in 0 .. (Width - 1), NEW y \in Int
    PROVE  LET d == console_set_cursor(c, x, y) IN
           /\ Current(d)
           /\ OnScreen(c) /\ y \in 0 .. (Visible - 1) => OnScreen(d)
           /\ d.x = x /\ d.scroll = c.scroll
           /\ y + c.scroll \in 0 .. (Modulus - 1) => d.y = y + c.scroll
<1> DEFINE z == (y + c.scroll) % Modulus
           d == [c EXCEPT !.x = x, !.y = z]
<1>1. c.scroll \in 0 .. (Height - 1) /\ Modulus \in Nat \ {0} BY Sizes DEF Current, ConsoleType
<1>2. z \in 0 .. (Modulus - 1)
  <2>1. y + c.scroll \in Int BY <1>1
  <2> QED BY <2>1, <1>1, ModRange
<1>3. y + c.scroll \in 0 .. (Modulus - 1) => z = y + c.scroll BY <1>1, ModSmall
<1> HIDE DEF z
<1>4. Current(d) /\ d.x = x /\ d.y = z /\ d.scroll = c.scroll /\ d.wild = c.wild
  BY <1>2 DEF Current, ConsoleType
<1>5. d = console_set_cursor(c, x, y) BY DEF console_set_cursor, z
<1> HIDE DEF d
<1>6. ASSUME OnScreen(c), y \in 0 .. (Visible - 1) PROVE OnScreen(d)
  <2>1. y + c.scroll \in 0 .. (Modulus - 1) BY <1>1, <1>6, Sizes
  <2> QED BY <2>1, <1>1, <1>3, <1>4, <1>6, Sizes DEF OnScreen
<1> QED BY <1>3, <1>4, <1>5, <1>6

LEMMA GetCursorType ==
    ASSUME NEW c, Current(c)
    PROVE  LET at == console_get_cursor(c) IN
           /\ at.x = c.x /\ at.x \in 0 .. (Width - 1) /\ at.y \in Nat
           /\ c.scroll <= c.y => at.y = c.y - c.scroll
           /\ OnScreen(c) => at.y \in 0 .. (Visible - 1)
<1> DEFINE z == (c.y - c.scroll) % Modulus
<1>1. /\ c.x \in 0 .. (Width - 1) /\ c.y \in 0 .. (Modulus - 1) /\ c.scroll \in 0 .. (Height - 1)
      /\ Modulus \in Nat \ {0}
  BY Sizes DEF Current, ConsoleType
<1>2. z \in 0 .. (Modulus - 1)
  <2>1. c.y - c.scroll \in Int BY <1>1
  <2> QED BY <2>1, <1>1, ModRange
<1>3. c.scroll <= c.y => z = c.y - c.scroll
  <2>1. c.scroll <= c.y => c.y - c.scroll \in 0 .. (Modulus - 1) BY <1>1
  <2> QED BY <2>1, <1>1, ModSmall
<1> HIDE DEF z
<1>4. console_get_cursor(c) = [x |-> c.x, y |-> z] BY DEF console_get_cursor, z
<1>5. OnScreen(c) => z \in 0 .. (Visible - 1) BY <1>1, <1>2, <1>3, Sizes DEF OnScreen
<1> QED BY <1>1, <1>2, <1>3, <1>4, <1>5

LEMMA ScrollKeeps ==
    ASSUME NEW c, Current(c), NEW amount \in Int
    PROVE  Current(console_scroll(c, amount))
<1> DEFINE s == IF c.scroll + amount < 0 THEN 0
                ELSE IF c.scroll + amount >= Height THEN Height - 1 ELSE c.scroll + amount
<1>1. s \in 0 .. (Height - 1) BY Sizes DEF Current, ConsoleType
<1>2. console_scroll(c, amount) = console_update_screen(ScrollTo(c, s)) BY DEF console_scroll
<1> HIDE DEF s
<1>3. ScrollTo(c, s) \in ConsoleType BY <1>1, ScrollToKeeps DEF Current
<1> QED BY <1>2, <1>3, UpdateKeeps
-----------------------------------------------------------------------------
\* What the handler does with the console.  The second row is on the screen only if
\* the screen has two lines.
LEMMA ShowKeeps ==
    ASSUME NEW c, Current(c), NEW row \in {0, 1}
    PROVE  LET d == Show(c, row) IN
           /\ Current(d)
           /\ OnScreen(c) /\ row < Visible => OnScreen(d)
           /\ c.scroll <= c.y => d.x = c.x /\ d.y = c.y /\ d.scroll = c.scroll
<1> DEFINE at == console_get_cursor(c)
           a == console_set_cursor(c, Column, row)
           b == console_print(a, TextLength)
           d == console_set_cursor(b, at.x, at.y)
<1>1. d = Show(c, row) BY DEF Show
<1>2. /\ at.x = c.x /\ at.x \in 0 .. (Width - 1) /\ at.y \in Nat
      /\ c.scroll <= c.y => at.y = c.y - c.scroll
      /\ OnScreen(c) => at.y \in 0 .. (Visible - 1)
  BY GetCursorType
<1> HIDE DEF at
<1>3. Column \in 0 .. (Width - 1) /\ TextLength \in Nat /\ TextLength < Width BY Sizes
<1>4. /\ Current(a) /\ a.x = Column /\ a.scroll = c.scroll
      /\ OnScreen(c) /\ row < Visible => OnScreen(a)
  BY <1>3, SetCursorKeeps, Sizes
<1> HIDE DEF a
<1>5. Current(b) /\ b.scroll = c.scroll /\ (OnScreen(a) => OnScreen(b))
  BY <1>3, <1>4, PrintKeeps, Sizes
<1> HIDE DEF b
<1>6. /\ Current(d) /\ d.x = at.x /\ d.scroll = b.scroll
      /\ OnScreen(b) /\ at.y \in 0 .. (Visible - 1) => OnScreen(d)
      /\ at.y + b.scroll \in 0 .. (Modulus - 1) => d.y = at.y + b.scroll
  <2>1. at.y \in Int BY <1>2
  <2> QED BY <2>1, <1>2, <1>5, SetCursorKeeps
<1> HIDE DEF d
<1>7. ASSUME c.scroll <= c.y PROVE d.y = c.y
  <2>1. c.y \in 0 .. (Modulus - 1) /\ c.scroll \in 0 .. (Height - 1)
    BY DEF Current, ConsoleType
  <2>2. at.y + b.scroll = c.y BY <2>1, <1>2, <1>5, <1>7, Sizes
  <2> QED BY <2>1, <2>2, <1>6
<1> QED BY <1>1, <1>2, <1>4, <1>5, <1>6, <1>7

LEMMA TypeKeeps ==
    ASSUME NEW c, Current(c), NEW key
    PROVE  Current(Type(c, key)) /\ (OnScreen(c) => OnScreen(Type(c, key)))
<1>1. EntryLength(key) \in Nat /\ EntryLength(key) < Width BY Sizes DEF EntryLength
<1> QED BY <1>1, PrintKeeps DEF Type

LEMMA EraseKeeps ==
    ASSUME NEW c, Current(c)
    PROVE  Current(Erase(c)) /\ (OnScreen(c) => OnScreen(Erase(c)))
<1> DEFINE at == console_get_cursor(c)
           back(d) == console_set_cursor(console_print_char(d), at.x - 1, at.y)
<1>1. Erase(c) = IF at.x > 0 THEN back(back(c))
                 ELSE IF at.y > 0
                 THEN console_set_cursor(console_print_char(c), Width - 1, at.y - 1)
                 ELSE c
  BY DEF Erase
<1>2. /\ at.x \in 0 .. (Width - 1) /\ at.y \in Nat
      /\ OnScreen(c) => at.y \in 0 .. (Visible - 1)
  BY GetCursorType
<1> HIDE DEF at
<1>3. ASSUME at.x > 0, NEW d, Current(d)
      PROVE  Current(back(d)) /\ (OnScreen(c) /\ OnScreen(d) => OnScreen(back(d)))
  <2> DEFINE e == console_print_char(d)
  <2>1. Current(e) /\ (OnScreen(d) => OnScreen(e)) BY <1>3, PrintCharKeeps
  <2> HIDE DEF e
  <2>2. at.x - 1 \in 0 .. (Width - 1) BY <1>2, <1>3, Sizes
  <2>3. back(d) = console_set_cursor(e, at.x - 1, at.y) BY DEF e
  <2> HIDE DEF back
  <2>4. at.y \in Int BY <1>2
  <2> DEFINE f == console_set_cursor(e, at.x - 1, at.y)
  <2>5. Current(f) /\ (OnScreen(e) /\ at.y \in 0 .. (Visible - 1) => OnScreen(f))
    BY <2>1, <2>2, <2>4, SetCursorKeeps
  <2> HIDE DEF f
  <2>6. back(d) = f BY <2>3 DEF f
  <2> QED BY <2>1, <2>5, <2>6, <1>2
<1>4. CASE at.x > 0
  <2> HIDE DEF back
  <2>1. Current(back(c)) /\ (OnScreen(c) => OnScreen(back(c))) BY <1>3, <1>4
  <2> QED BY <2>1, <1>1, <1>3, <1>4
<1>5. CASE ~(at.x > 0) /\ at.y > 0
  <2> DEFINE e == console_print_char(c)
  <2>1. Current(e) /\ (OnScreen(c) => OnScreen(e)) BY PrintCharKeeps
  <2>2. Erase(c) = console_set_cursor(e, Width - 1, at.y - 1) BY <1>1, <1>5
  <2> HIDE DEF e
  <2>3. /\ Width - 1 \in 0 .. (Width - 1) /\ at.y - 1 \in Int
        /\ OnScreen(c) => at.y - 1 \in 0 .. (Visible - 1)
    BY <1>2, <1>5, Sizes
  <2> QED BY <2>1, <2>2, <2>3, SetCursorKeeps
<1>6. CASE ~(at.x > 0) /\ ~(at.y > 0) BY <1>1, <1>6
<1> QED BY <1>4, <1>5, <1>6
-----------------------------------------------------------------------------
\* A byte as the keyboard sends it.
WellFormed(b) ==
    \/ b = Ack
    \/ /\ b.event \in EventType
       /\ \/ b.code = "E0" /\ b.event.extended /\ ~b.last
          \/ b.code = "F0" /\ ~b.event.make /\ ~b.last
          \/ b.code = b.event.key /\ b.last

Bytes == {b \in [code : KeyCodes \cup {"F0", "E0"}, event : EventType \cup {NoEvent},
                 last : BOOLEAN] : WellFormed(b)}

\* The flags extended and releasing before and after b is read.
ExtBefore(b) == IF b.code \in {"FA", "E0"} \/ ~b.event.extended THEN 0 ELSE 1
RelBefore(b) == IF b.code \in {"FA", "E0", "F0"} \/ b.event.make THEN 0 ELSE 1
ExtAfter(b)  == IF b.code = "E0" \/ (b.code = "F0" /\ b.event.extended) THEN 1 ELSE 0
RelAfter(b)  == IF b.code = "F0" THEN 1 ELSE 0

\* The bytes of q fit each other, the flags x and r, and the beginning of a new key
\* behind them.
Chained(q, x, r) ==
    /\ q = <<>> => x = 0 /\ r = 0
    /\ q # <<>> => /\ ExtBefore(q[1]) = x /\ RelBefore(q[1]) = r
                   /\ ExtAfter(q[Len(q)]) = 0 /\ RelAfter(q[Len(q)]) = 0
    /\ \A k \in 1 .. (Len(q) - 1) :
           ExtAfter(q[k]) = ExtBefore(q[k + 1]) /\ RelAfter(q[k]) = RelBefore(q[k + 1])

\* The value v that shift has after q is read, when it is s before.
IsShift(b) == b.code \in ShiftKeys
Sets(b)    == IF b.event.make THEN 1 ELSE 0
ShiftAfter(q, s, v) ==
    /\ (\A k \in 1 .. Len(q) : ~IsShift(q[k])) => v = s
    /\ \A j \in 1 .. Len(q) :
           IsShift(q[j]) /\ (\A k \in 1 .. Len(q) : k > j => ~IsShift(q[k])) => v = Sets(q[j])

\* Polling, the handler has already done with the flags.
Ext == IF pc = "idle" THEN extended ELSE 0
Rel == IF pc = "idle" THEN releasing ELSE 0

KeyType == /\ releasing \in {0, 1} /\ shift \in {0, 1} /\ caps_lock \in {0, 1} /\ extended \in {0, 1}
           /\ queue \in Seq(Bytes) /\ Len(queue) <= QueueLength + 1
           /\ polled \in Seq(Bytes) /\ Len(polled) <= 1
           /\ pc \in {"idle", "command", "data"}
           /\ pc # "idle" => releasing = 0
           /\ pressed \subseteq ShiftKeys
           /\ both \in BOOLEAN /\ mixed \in BOOLEAN /\ scrolled \in BOOLEAN

\* As long as the handler has taken nothing but acknowledgements for acknowledgements.
ChainInv == ~mixed => Chained(queue, Ext, Rel) /\ (polled # <<>> => polled[1] = Ack)

\* The shift flag fits the keys held down once all bytes are read.
Fits(v)  == (v = 1 => pressed # {}) /\ (pressed # {} => v = 1 \/ both)
ShiftInv == /\ pressed = ShiftKeys => both
            /\ ~mixed => \E v \in {0, 1} : ShiftAfter(queue, shift, v) /\ Fits(v)

KeyInv == KeyType /\ ChainInv /\ ShiftInv /\ DecodedRight

\* The console, all the time, and until the user scrolls.
ConsoleInv == Current(con)
ScreenInv  == scrolled \/ OnScreen(con)
-----------------------------------------------------------------------------
\* What the bytes of an acknowledgement and of a key event are like.
LEMMA AckIsByte == Ack \in Bytes /\ Ack.code = "FA" /\ Ack.event = NoEvent /\ Ack.last = FALSE
BY DEF Ack, Byte, Bytes, WellFormed, KeyCodes

LEMMA JoinOne ==
    ASSUME NEW S, NEW f \in Seq(S), NEW a \in S
    PROVE  LET q == f \o <<a>> IN
           /\ q \in Seq(S) /\ Len(q) = Len(f) + 1 /\ q[Len(f) + 1] = a
           /\ \A k \in 1 .. Len(f) : q[k] = f[k]
<1>1. <<a>> \in Seq(S) /\ Len(<<a>>) = 1 /\ <<a>>[1] = a OBVIOUS
<1>2. Len(f) \in Nat OBVIOUS
<1> QED BY <1>1, <1>2

\* Every byte of a key event is well formed, they form a chain, and a shift key is
\* seen in the last of them.
LEMMA BytesOfType ==
    ASSUME NEW e \in EventType
    PROVE  LET q == BytesOf(e) IN
           /\ q \in Seq(Bytes) /\ Len(q) \in {1, 2, 3}
           /\ q[Len(q)] = Byte(e.key, e, TRUE)
           /\ \A k \in 1 .. (Len(q) - 1) : ~IsShift(q[k])
           /\ Chained(q, 0, 0)
<1> DEFINE q == BytesOf(e)
           x == Byte("E0", e, FALSE)
           r == Byte("F0", e, FALSE)
           l == Byte(e.key, e, TRUE)
<1>1. e.extended \in BOOLEAN /\ e.make \in BOOLEAN /\ e.key \in Keys BY DEF EventType
<1>2. /\ x.code = "E0" /\ x.event = e /\ x.last = FALSE
      /\ r.code = "F0" /\ r.event = e /\ r.last = FALSE
      /\ l.code = e.key /\ l.event = e /\ l.last = TRUE
  BY DEF Byte
<1>3. l \in Bytes /\ (e.extended => x \in Bytes) /\ (~e.make => r \in Bytes)
  BY <1>1 DEF Bytes, WellFormed, Byte, KeyCodes
<1>4. /\ ExtBefore(l) = (IF e.extended THEN 1 ELSE 0) /\ RelBefore(l) = (IF e.make THEN 0 ELSE 1)
      /\ ExtAfter(l) = 0 /\ RelAfter(l) = 0
  BY <1>1, <1>2 DEF ExtBefore, RelBefore, ExtAfter, RelAfter, Keys, ShiftKeys
<1>5. ExtBefore(x) = 0 /\ RelBefore(x) = 0 /\ ExtAfter(x) = 1 /\ RelAfter(x) = 0 /\ ~IsShift(x)
  BY <1>2 DEF ExtBefore, RelBefore, ExtAfter, RelAfter, IsShift, ShiftKeys
<1>6. /\ ExtBefore(r) = (IF e.extended THEN 1 ELSE 0) /\ RelBefore(r) = 0
      /\ ExtAfter(r) = (IF e.extended THEN 1 ELSE 0) /\ RelAfter(r) = 1 /\ ~IsShift(r)
  BY <1>1, <1>2 DEF ExtBefore, RelBefore, ExtAfter, RelAfter, IsShift, ShiftKeys
<1>7. q = ((IF e.extended THEN <<x>> ELSE <<>>) \o (IF e.make THEN <<>> ELSE <<r>>)) \o <<l>>
  BY DEF BytesOf
<1> HIDE DEF q, x, r, l
<1>8. CASE e.extended /\ e.make
  <2> DEFINE f == <<x>> \o <<>>
  <2>1. f \in Seq(Bytes) /\ Len(f) = 1 /\ f[1] = x BY <1>3, <1>8
  <2>2. q = f \o <<l>> BY <1>7, <1>8
  <2> HIDE DEF f
  <2>3. q \in Seq(Bytes) /\ Len(q) = 2 /\ q[1] = x /\ q[2] = l
    <3>1. q \in Seq(Bytes) /\ Len(q) = Len(f) + 1 /\ q[Len(f) + 1] = l
          /\ \A k \in 1 .. Len(f) : q[k] = f[k]
      <4>1. f \in Seq(Bytes) /\ l \in Bytes BY <2>1, <1>3
      <4> QED BY <4>1, <2>2, JoinOne, Zenon
    <3> QED BY <3>1, <2>1
  <2>4. Chained(q, 0, 0) BY <2>3, <1>4, <1>5, <1>8 DEF Chained
  <2>5. \A k \in 1 .. (Len(q) - 1) : ~IsShift(q[k]) BY <2>3, <1>5, <1>8
  <2> QED BY <2>3, <2>4, <2>5 DEF q, l
<1>9. CASE e.extended /\ ~e.make
  <2> DEFINE f == <<x>> \o <<r>>
  <2>1. f \in Seq(Bytes) /\ Len(f) = 2 /\ f[1] = x /\ f[2] = r BY <1>3, <1>9
  <2>2. q = f \o <<l>> BY <1>7, <1>9
  <2> HIDE DEF f
  <2>3. q \in Seq(Bytes) /\ Len(q) = 3 /\ q[1] = x /\ q[2] = r /\ q[3] = l
    <3>1. q \in Seq(Bytes) /\ Len(q) = Len(f) + 1 /\ q[Len(f) + 1] = l
          /\ \A k \in 1 .. Len(f) : q[k] = f[k]
      <4>1. f \in Seq(Bytes) /\ l \in Bytes BY <2>1, <1>3
      <4> QED BY <4>1, <2>2, JoinOne, Zenon
    <3> QED BY <3>1, <2>1
  <2>4. Chained(q, 0, 0) BY <2>3, <1>4, <1>5, <1>6, <1>9 DEF Chained
  <2>5. \A k \in 1 .. (Len(q) - 1) : ~IsShift(q[k]) BY <2>3, <1>5, <1>6, <1>9
  <2> QED BY <2>3, <2>4, <2>5 DEF q, l
<1>10. CASE ~e.extended /\ e.make
  <2> DEFINE f == <<>> \o <<>>
  <2>1. f \in Seq(Bytes) /\ Len(f) = 0 BY <1>3, <1>10
  <2>2. q = f \o <<l>> BY <1>7, <1>10
  <2> HIDE DEF f
  <2>3. q \in Seq(Bytes) /\ Len(q) = 1 /\ q[1] = l
    <3>1. q \in Seq(Bytes) /\ Len(q) = Len(f) + 1 /\ q[Len(f) + 1] = l
          /\ \A k \in 1 .. Len(f) : q[k] = f[k]
      <4>1. f \in Seq(Bytes) /\ l \in Bytes BY <2>1, <1>3
      <4> QED BY <4>1, <2>2, JoinOne, Zenon
    <3> QED BY <3>1, <2>1
  <2>4. Chained(q, 0, 0) BY <2>3, <1>4, <1>10 DEF Chained
  <2>5. \A k \in 1 .. (Len(q) - 1) : ~IsShift(q[k]) BY <2>3, <1>10
  <2> QED BY <2>3, <2>4, <2>5 DEF q, l
<1>11. CASE ~e.extended /\ ~e.make
  <2> DEFINE f == <<>> \o <<r>>
  <2>1. f \in Seq(Bytes) /\ Len(f) = 1 /\ f[1] = r BY <1>3, <1>11
  <2>2. q = f \o <<l>> BY <1>7, <1>11
  <2> HIDE DEF f
  <2>3. q \in Seq(Bytes) /\ Len(q) = 2 /\ q[1] = r /\ q[2] = l
    <3>1. q \in Seq(Bytes) /\ Len(q) = Len(f) + 1 /\ q[Len(f) + 1] = l
          /\ \A k \in 1 .. Len(f) : q[k] = f[k]
      <4>1. f \in Seq(Bytes) /\ l \in Bytes BY <2>1, <1>3
      <4> QED BY <4>1, <2>2, JoinOne, Zenon
    <3> QED BY <3>1, <2>1
  <2>4. Chained(q, 0, 0) BY <2>3, <1>4, <1>6, <1>11 DEF Chained
  <2>5. \A k \in 1 .. (Len(q) - 1) : ~IsShift(q[k]) BY <2>3, <1>6, <1>11
  <2> QED BY <2>3, <2>4, <2>5 DEF q, l
<1> QED BY <1>1, <1>8, <1>9, <1>10, <1>11

LEMMA AckChained == Chained(<<Ack>>, 0, 0) /\ ~IsShift(Ack)
BY AckIsByte DEF Chained, ExtBefore, RelBefore, ExtAfter, RelAfter, IsShift, ShiftKeys

\* Reading a byte leaves a chain that fits the flags after it.
LEMMA ChainTail ==
    ASSUME NEW q \in Seq(Bytes), q # <<>>, NEW x, NEW r, Chained(q, x, r)
    PROVE  /\ ExtBefore(Head(q)) = x /\ RelBefore(Head(q)) = r
           /\ Chained(Tail(q), ExtAfter(Head(q)), RelAfter(Head(q)))
<1> DEFINE t == Tail(q)
<1>1. /\ Head(q) = q[1] /\ t \in Seq(Bytes) /\ Len(t) = Len(q) - 1 /\ Len(q) \in Nat
      /\ \A k \in 1 .. Len(t) : t[k] = q[k + 1]
  OBVIOUS
<1>2. t = <<>> => Len(q) = 1 BY <1>1
<1>3. t # <<>> => Len(t) > 0 /\ t[1] = q[2] /\ t[Len(t)] = q[Len(q)]
  <2>1. t # <<>> => Len(t) > 0 BY <1>1
  <2> QED BY <2>1, <1>1
<1> HIDE DEF t
<1>4. ASSUME NEW k \in 1 .. (Len(t) - 1)
      PROVE  ExtAfter(t[k]) = ExtBefore(t[k + 1]) /\ RelAfter(t[k]) = RelBefore(t[k + 1])
  <2>1. k + 1 \in 1 .. (Len(q) - 1) /\ k \in 1 .. Len(t) /\ k + 1 \in 1 .. Len(t) BY <1>1
  <2>2. t[k] = q[k + 1] /\ t[k + 1] = q[(k + 1) + 1] BY <2>1, <1>1
  <2> QED BY <2>1, <2>2 DEF Chained
<1>5. t = <<>> => ExtAfter(q[1]) = 0 /\ RelAfter(q[1]) = 0 BY <1>2 DEF Chained
<1>6. t # <<>> => ExtBefore(t[1]) = ExtAfter(q[1]) /\ RelBefore(t[1]) = RelAfter(q[1])
  <2>1. t # <<>> => 1 \in 1 .. (Len(q) - 1) BY <1>1, <1>3
  <2> QED BY <2>1, <1>3 DEF Chained
<1>7. t # <<>> => ExtAfter(t[Len(t)]) = 0 /\ RelAfter(t[Len(t)]) = 0 BY <1>3 DEF Chained
<1>8. Chained(t, ExtAfter(q[1]), RelAfter(q[1])) BY <1>4, <1>5, <1>6, <1>7 DEF Chained
<1> QED BY <1>1, <1>8 DEF Chained, t

\* What is sent goes behind what is on the way.
LEMMA ChainJoin ==
    ASSUME NEW q \in Seq(Bytes), NEW p \in Seq(Bytes), NEW x, NEW r,
           Chained(q, x, r), Chained(p, 0, 0)
    PROVE  Chained(q \o p, x, r)
<1> DEFINE t == q \o p
<1>1. /\ t \in Seq(Bytes) /\ Len(q) \in Nat /\ Len(p) \in Nat /\ Len(t) = Len(q) + Len(p)
      /\ \A k \in 1 .. Len(q) : t[k] = q[k]
      /\ \A k \in 1 .. Len(p) : t[Len(q) + k] = p[k]
  OBVIOUS
<1>2. CASE q = <<>>
  <2>1. t = p BY <1>2
  <2> QED BY <2>1, <1>2 DEF Chained
<1>3. CASE p = <<>>
  <2>1. t = q BY <1>3
  <2> QED BY <2>1
<1>4. CASE q # <<>> /\ p # <<>>
  <2>1. Len(q) > 0 /\ Len(p) > 0 BY <1>4
  <2> HIDE DEF t
  <2>2. t[1] = q[1] /\ t[Len(t)] = p[Len(p)] /\ t # <<>> BY <2>1, <1>1
  <2>3. ASSUME NEW k \in 1 .. (Len(t) - 1)
        PROVE  ExtAfter(t[k]) = ExtBefore(t[k + 1]) /\ RelAfter(t[k]) = RelBefore(t[k + 1])
    <3>1. CASE k < Len(q)
      <4>1. k \in 1 .. (Len(q) - 1) /\ k \in 1 .. Len(q) /\ k + 1 \in 1 .. Len(q)
        BY <3>1, <1>1
      <4> QED BY <4>1, <1>1 DEF Chained
    <3>2. CASE k = Len(q)
      <4>1. t[k] = q[Len(q)] /\ t[k + 1] = p[1] BY <3>2, <2>1, <1>1
      <4> QED BY <4>1, <1>4 DEF Chained
    <3>3. CASE k > Len(q)
      <4> DEFINE j == k - Len(q)
      <4>1. j \in 1 .. (Len(p) - 1) /\ j \in 1 .. Len(p) /\ j + 1 \in 1 .. Len(p)
        BY <3>3, <1>1
      <4>2. Len(q) + j = k /\ Len(q) + (j + 1) = k + 1 BY <1>1
      <4> HIDE DEF j
      <4>3. t[Len(q) + j] = p[j] /\ t[Len(q) + (j + 1)] = p[j + 1] BY <4>1, <1>1
      <4> QED BY <4>1, <4>2, <4>3 DEF Chained
    <3> QED BY <3>1, <3>2, <3>3, <1>1
  <2> QED BY <2>2, <2>3, <1>4 DEF Chained, t
<1> QED BY <1>2, <1>3, <1>4

\* The same for the shift keys.
LEMMA ShiftTail ==
    ASSUME NEW q \in Seq(Bytes), q # <<>>, NEW s, NEW v, ShiftAfter(q, s, v)
    PROVE  ShiftAfter(Tail(q), IF IsShift(Head(q)) THEN Sets(Head(q)) ELSE s, v)
<1> DEFINE t == Tail(q)
           u == IF IsShift(q[1]) THEN Sets(q[1]) ELSE s
<1>1. /\ Head(q) = q[1] /\ t \in Seq(Bytes) /\ Len(t) = Len(q) - 1 /\ Len(q) \in Nat /\ Len(q) > 0
      /\ \A k \in 1 .. Len(t) : t[k] = q[k + 1]
  OBVIOUS
<1> HIDE DEF t
<1>2. ASSUME \A k \in 1 .. Len(t) : ~IsShift(t[k]) PROVE v = u
  <2>1. \A k \in 1 .. Len(q) : k > 1 => ~IsShift(q[k])
    <3> SUFFICES ASSUME NEW k \in 1 .. Len(q), k > 1 PROVE ~IsShift(q[k]) OBVIOUS
    <3>1. k - 1 \in 1 .. Len(t) /\ (k - 1) + 1 = k BY <1>1
    <3>2. t[k - 1] = q[k] BY <3>1, <1>1
    <3> QED BY <3>1, <3>2, <1>2
  <2>2. 1 \in 1 .. Len(q) BY <1>1
  <2>3. CASE IsShift(q[1]) BY <2>1, <2>2, <2>3 DEF ShiftAfter
  <2>4. CASE ~IsShift(q[1])
    <3>1. \A k \in 1 .. Len(q) : ~IsShift(q[k]) BY <2>1, <2>4, <1>1
    <3> QED BY <3>1, <2>4 DEF ShiftAfter
  <2> QED BY <2>3, <2>4
<1>3. ASSUME NEW j \in 1 .. Len(t), IsShift(t[j]),
             \A k \in 1 .. Len(t) : k > j => ~IsShift(t[k])
      PROVE  v = Sets(t[j])
  <2>1. j + 1 \in 1 .. Len(q) /\ t[j] = q[j + 1] BY <1>1
  <2>2. \A k \in 1 .. Len(q) : k > j + 1 => ~IsShift(q[k])
    <3> SUFFICES ASSUME NEW k \in 1 .. Len(q), k > j + 1 PROVE ~IsShift(q[k]) OBVIOUS
    <3>1. k - 1 \in 1 .. Len(t) /\ k - 1 > j /\ (k - 1) + 1 = k BY <1>1
    <3>2. t[k - 1] = q[k] BY <3>1, <1>1
    <3> QED BY <3>1, <3>2, <1>3
  <2> QED BY <2>1, <2>2, <1>3 DEF ShiftAfter
<1> HIDE DEF u
<1>4. ShiftAfter(t, u, v) BY <1>2, <1>3 DEF ShiftAfter
<1> QED BY <1>1, <1>4 DEF t, u

LEMMA ShiftJoin ==
    ASSUME NEW q \in Seq(Bytes), NEW p \in Seq(Bytes), NEW s, NEW v
    PROVE  /\ ShiftAfter(q, s, v) /\ (\A k \in 1 .. Len(p) : ~IsShift(p[k]))
                  => ShiftAfter(q \o p, s, v)
           /\ p # <<>> /\ IsShift(p[Len(p)]) => ShiftAfter(q \o p, s, Sets(p[Len(p)]))
<1> DEFINE t == q \o p
<1>1. /\ t \in Seq(Bytes) /\ Len(q) \in Nat /\ Len(p) \in Nat /\ Len(t) = Len(q) + Len(p)
      /\ \A k \in 1 .. Len(q) : t[k] = q[k]
      /\ \A k \in 1 .. Len(p) : t[Len(q) + k] = p[k]
  OBVIOUS
<1>2. p # <<>> => Len(p) > 0 OBVIOUS
<1> HIDE DEF t
<1>3. ASSUME ShiftAfter(q, s, v), \A k \in 1 .. Len(p) : ~IsShift(p[k])
      PROVE  ShiftAfter(t, s, v)
  <2>1. ASSUME NEW k \in 1 .. Len(t), k > Len(q) PROVE ~IsShift(t[k])
    <3>1. k - Len(q) \in 1 .. Len(p) /\ Len(q) + (k - Len(q)) = k BY <2>1, <1>1
    <3>2. t[k] = p[k - Len(q)] BY <3>1, <1>1
    <3> QED BY <3>1, <3>2, <1>3
  <2>2. (\A k \in 1 .. Len(t) : ~IsShift(t[k])) => v = s
    <3>1. \A k \in 1 .. Len(q) : k \in 1 .. Len(t) /\ t[k] = q[k] BY <1>1
    <3> QED BY <3>1, <1>3 DEF ShiftAfter
  <2>3. ASSUME NEW j \in 1 .. Len(t), IsShift(t[j]),
               \A k \in 1 .. Len(t) : k > j => ~IsShift(t[k])
        PROVE  v = Sets(t[j])
    <3>1. j \in 1 .. Len(q) /\ t[j] = q[j] BY <2>1, <2>3, <1>1
    <3>2. \A k \in 1 .. Len(q) : k > j => ~IsShift(q[k])
      <4>1. \A k \in 1 .. Len(q) : k \in 1 .. Len(t) /\ t[k] = q[k] BY <1>1
      <4> QED BY <4>1, <2>3
    <3> QED BY <3>1, <3>2, <2>3, <1>3 DEF ShiftAfter
  <2> QED BY <2>2, <2>3 DEF ShiftAfter
<1>4. ASSUME p # <<>>, IsShift(p[Len(p)]) PROVE ShiftAfter(t, s, Sets(p[Len(p)]))
  <2>1. Len(t) \in 1 .. Len(t) /\ t[Len(t)] = p[Len(p)] BY <1>1, <1>2, <1>4
  <2>2. ASSUME NEW j \in 1 .. Len(t), \A k \in 1 .. Len(t) : k > j => ~IsShift(t[k])
        PROVE  j = Len(t)
    BY <2>1, <2>2, <1>1, <1>4
  <2> QED BY <2>1, <2>2, <1>4 DEF ShiftAfter
<1> QED BY <1>3, <1>4 DEF t
-----------------------------------------------------------------------------
\* The console in every step.
LEMMA ConsoleStep ==
    ASSUME ConsoleInv, [Next]_vars
    PROVE  ConsoleInv' /\ (Visible > 1 /\ ScreenInv => ScreenInv')
<1> DEFINE Kept == Current(con') /\ (Visible > 1 /\ (scrolled \/ OnScreen(con)) => scrolled' \/ OnScreen(con'))
<1>1. SUFFICES Kept BY DEF ConsoleInv, ScreenInv
<1>2. Current(con) BY DEF ConsoleInv
<1>3. con' = con /\ scrolled' = scrolled => Kept BY <1>2
<1>4. /\ Current(Shown) /\ (Visible > 1 /\ OnScreen(con) => OnScreen(Shown))
  <2>1. Visible > 0 BY Sizes
  <2> QED BY <1>2, <2>1, ShowKeeps DEF Shown
<1>5. ASSUME NEW c, con' = c, Current(c), OnScreen(Shown) => OnScreen(c),
             scrolled' = scrolled
      PROVE  Kept
  BY <1>4, <1>5
<1>6. ASSUME NEW e \in Events, UserEvent(e) PROVE Kept BY <1>3, <1>6 DEF UserEvent
<1>7. CASE KernelPrint
  <2>1. /\ Current(console_print_char(con)) /\ Current(console_new_line(con))
        /\ OnScreen(con) => OnScreen(console_print_char(con)) /\ OnScreen(console_new_line(con))
    BY <1>2, PrintCharKeeps, NewLineKeeps
  <2> QED BY <1>7, <2>1 DEF KernelPrint
<1>8. CASE BeginRelease BY <1>3, <1>8 DEF BeginRelease
<1>9. CASE BeginExtended BY <1>3, <1>9 DEF BeginExtended
<1>10. CASE Release BY <1>3, <1>10 DEF Release
<1>11. CASE PressShift BY <1>4, <1>5, <1>11 DEF PressShift, Press
<1>12. CASE PressUp
  <2>1. Current(console_scroll(Shown, -1)) BY <1>4, ScrollKeeps
  <2> QED BY <2>1, <1>12 DEF PressUp, Press
<1>13. CASE PressDown
  <2>1. Current(console_scroll(Shown, 1)) BY <1>4, ScrollKeeps
  <2> QED BY <2>1, <1>13 DEF PressDown, Press
<1>14. CASE PressNothing BY <1>4, <1>5, <1>14 DEF PressNothing, Press
<1>15. CASE PressLetter
  <2>1. PICK key \in {"letter", "space"} : con' = Type(Shown, key) /\ scrolled' = scrolled
    BY <1>15 DEF PressLetter, Press
  <2> QED BY <2>1, <1>4, <1>5, TypeKeeps
<1>16. CASE PressBackspace
  <2>1. con' = Erase(Shown) /\ scrolled' = scrolled BY <1>16 DEF PressBackspace, Press
  <2> QED BY <2>1, <1>4, <1>5, EraseKeeps
<1>17. CASE PressEnter
  <2> DEFINE d == console_print_char(Shown)
             z == console_clear(d)
  <2>1. Current(d) /\ (OnScreen(Shown) => OnScreen(d)) BY <1>4, PrintCharKeeps
  <2>2. Current(z) /\ (OnScreen(d) => OnScreen(z))
    BY <2>1, ClearKeeps DEF Current, OnScreen
  <2>3. con' \in {NewLine(Shown), ClearAll(Shown)} /\ scrolled' = scrolled
    BY <1>17 DEF PressEnter, Press
  <2>4. NewLine(Shown) = console_new_line(d) /\ ClearAll(Shown) = console_set_cursor(z, 0, 0)
    BY DEF NewLine, ClearAll
  <2> HIDE DEF d, z
  <2>5. Current(console_new_line(d)) /\ (OnScreen(d) => OnScreen(console_new_line(d)))
    BY <2>1, NewLineKeeps
  <2>6. /\ Current(console_set_cursor(z, 0, 0))
        /\ OnScreen(z) => OnScreen(console_set_cursor(z, 0, 0))
    <3>1. 0 \in 0 .. (Width - 1) /\ 0 \in 0 .. (Visible - 1) BY Sizes
    <3> QED BY <3>1, <2>2, SetCursorKeeps
  <2> QED BY <2>1, <2>2, <2>3, <2>4, <2>5, <2>6, <1>5
<1>18. CASE PressCaps BY <1>4, <1>5, <1>18 DEF PressCaps
<1>19. CASE Poll
  <2>1. Current(Show(con, 1)) /\ (Visible > 1 /\ OnScreen(con) => OnScreen(Show(con, 1)))
    BY <1>2, ShowKeeps
  <2>2. (con' = con \/ con' = Show(con, 1)) /\ scrolled' = scrolled BY <1>19 DEF Poll
  <2> QED BY <2>1, <2>2, <1>2
<1>20. CASE UNCHANGED vars BY <1>3, <1>20 DEF vars
<1> QED
  BY <1>6, <1>7, <1>8, <1>9, <1>10, <1>11, <1>12, <1>13, <1>14, <1>15, <1>16, <1>17, <1>18,
     <1>19, <1>20 DEF Next, Handle

LEMMA ConsoleInit == Init => ConsoleInv /\ ScreenInv
BY Sizes DEF Init, ConsoleInv, ScreenInv, Current, OnScreen, Cleared, ConsoleType

\* console.c: after every call the screen shows the history, on a console of any size,
\* wherever the cursor and the scroll offset are.
THEOREM ScreenStaysCurrent == Spec => []ScreenCurrent
<1>1. Init => ConsoleInv BY ConsoleInit
<1>2. ConsoleInv /\ [Next]_vars => ConsoleInv' BY ConsoleStep
<1>3. ConsoleInv => ScreenCurrent BY DEF ConsoleInv, Current, ScreenCurrent
<1> QED BY <1>1, <1>2, <1>3, PTL DEF Spec

\* console.c: until the user scrolls, no character is written outside the history and
\* the video memory.  The handler's second row has to be on the screen.
THEOREM WritesStayInside ==
    ASSUME Visible > 1
    PROVE  Spec => []WritesInside
<1>1. Init => ConsoleInv /\ ScreenInv BY ConsoleInit
<1>2. ConsoleInv /\ ScreenInv /\ [Next]_vars => ConsoleInv' /\ ScreenInv' BY ConsoleStep
<1>3. ScreenInv => WritesInside BY DEF ScreenInv, OnScreen, WritesInside
<1> QED BY <1>1, <1>2, <1>3, PTL DEF Spec
-----------------------------------------------------------------------------
\* What is known of a byte from its code.
LEMMA ByteCases ==
    ASSUME NEW b \in Bytes
    PROVE  /\ b.code \in KeyCodes \cup {"F0", "E0"}
           /\ b.last \in BOOLEAN
           /\ b.code = "FA" => b = Ack /\ ~b.last /\ b.event = NoEvent
           /\ b.code \in {"E0", "F0"} => ~b.last /\ b.event \in EventType
           /\ b.code = "E0" => b.event.extended
           /\ b.code = "F0" => ~b.event.make
           /\ b.code \in Keys => b.last /\ b.event \in EventType /\ b.event.key = b.code
<1>1. Ack.code = "FA" /\ Ack.event = NoEvent /\ Ack.last = FALSE BY AckIsByte
<1>2. "FA" \notin Keys /\ "E0" \notin Keys /\ "F0" \notin Keys BY DEF Keys, ShiftKeys
<1>3. b.event \in EventType => b.event.key \in Keys BY DEF EventType
<1> QED BY <1>1, <1>2, <1>3 DEF Bytes, WellFormed

\* The flags that a byte needs and leaves.
LEMMA ByteFlags ==
    ASSUME NEW b \in Bytes
    PROVE  /\ b.code = "FA" => ExtBefore(b) = 0 /\ RelBefore(b) = 0 /\ ExtAfter(b) = 0 /\ RelAfter(b) = 0
           /\ b.code = "E0" => RelBefore(b) = 0 /\ ExtAfter(b) = 1 /\ RelAfter(b) = 0
           /\ b.code = "F0" => ExtBefore(b) = ExtAfter(b) /\ RelBefore(b) = 0 /\ RelAfter(b) = 1
           /\ b.code \in Keys => /\ ExtBefore(b) = (IF b.event.extended THEN 1 ELSE 0)
                                 /\ RelBefore(b) = (IF b.event.make THEN 0 ELSE 1)
                                 /\ ExtAfter(b) = 0 /\ RelAfter(b) = 0
           /\ IsShift(b) => b.code \in Keys
BY ByteCases DEF ExtBefore, RelBefore, ExtAfter, RelAfter, IsShift, Keys, ShiftKeys

\* What a key event means.
LEMMA MeaningOf ==
    ASSUME NEW e \in EventType
    PROVE  /\ ~e.make => Meaning(e) = {"none"}
           /\ e.make /\ e.key \in {"up", "down"}
                  => Meaning(e) = IF e.extended THEN {e.key} ELSE {"none"}
           /\ e.make /\ e.key \in {"letter", "space"} => Meaning(e) = {"type"}
           /\ e.make /\ e.key = "enter" => Meaning(e) = {"new line", "clear"}
           /\ e.make /\ e.key \in ShiftKeys => Meaning(e) = {"shift"}
           /\ e.make /\ e.key \in {"caps", "backspace"} => Meaning(e) = {e.key}
<1>1. e # NoEvent
  <2>1. e.key \in Keys BY DEF EventType
  <2>2. NoEvent.key \notin Keys BY DEF NoEvent, Keys, ShiftKeys
  <2> QED BY <2>1, <2>2
<1>2. e.make \in BOOLEAN BY DEF EventType
<1>3. CASE ~e.make BY <1>1, <1>3 DEF Meaning
<1>4. CASE e.make /\ e.key \in {"up", "down"} BY <1>1, <1>4 DEF Meaning, ShiftKeys
<1>5. CASE e.make /\ e.key \in {"letter", "space"} BY <1>1, <1>5 DEF Meaning, ShiftKeys
<1>6. CASE e.make /\ e.key = "enter" BY <1>1, <1>6 DEF Meaning, ShiftKeys
<1>7. CASE e.make /\ e.key \in ShiftKeys BY <1>1, <1>7 DEF Meaning, ShiftKeys
<1>8. CASE e.make /\ e.key \in {"caps", "backspace"} BY <1>1, <1>8 DEF Meaning, ShiftKeys
<1>9. e.key \in ShiftKeys => e.key \notin {"up", "down", "letter", "space", "enter", "caps", "backspace"}
  BY DEF ShiftKeys
<1> QED BY <1>2, <1>3, <1>4, <1>5, <1>6, <1>7, <1>8, <1>9

LEMMA MeaningOfNothing == Meaning(NoEvent) = {"prefix", "none", "caps", "idle"}
BY DEF Meaning

LEMMA ShiftNothing == ASSUME NEW s, NEW v PROVE ShiftAfter(<<>>, s, v) <=> v = s
BY DEF ShiftAfter

\* The byte that the handler reads, and what is left.
LEMMA ReadFacts ==
    ASSUME KeyInv, NEW codes, NEW effect, Read(codes, effect)
    PROVE  LET b == Head(Input) IN
           /\ b \in Bytes /\ b.code \in codes
           /\ Rest \in Seq(Bytes) /\ Len(Rest) <= QueueLength
           /\ ~mixed => /\ ExtBefore(b) = extended /\ RelBefore(b) = releasing
                        /\ Chained(Rest, ExtAfter(b), RelAfter(b))
                        /\ \E v \in {0, 1} :
                               /\ ShiftAfter(Rest, IF IsShift(b) THEN Sets(b) ELSE shift, v)
                               /\ Fits(v)
<1> DEFINE b == Head(Input)
<1>0. QueueLength \in Nat BY KeyboardAssumption
<1>1. pc = "idle" /\ Input # <<>> /\ b.code \in codes BY DEF Read
<1>2. /\ queue \in Seq(Bytes) /\ Len(queue) <= QueueLength + 1 /\ polled \in Seq(Bytes)
      /\ Len(polled) <= 1
  BY DEF KeyInv, KeyType
<1>3. Ext = extended /\ Rel = releasing BY <1>1 DEF Ext, Rel
<1>4. CASE queue # <<>>
  <2>1. Input = queue /\ Rest = Tail(queue) BY <1>4 DEF Input, Rest
  <2>2. b \in Bytes /\ Rest \in Seq(Bytes) /\ Len(Rest) <= QueueLength
    BY <2>1, <1>0, <1>2, <1>4
  <2>3. ~mixed => /\ ExtBefore(b) = extended /\ RelBefore(b) = releasing
                  /\ Chained(Rest, ExtAfter(b), RelAfter(b))
    <3>1. ~mixed => Chained(queue, extended, releasing) BY <1>3 DEF KeyInv, ChainInv
    <3> QED BY <3>1, <2>1, <1>2, <1>4, ChainTail
  <2>4. ~mixed => \E v \in {0, 1} :
            ShiftAfter(Rest, IF IsShift(b) THEN Sets(b) ELSE shift, v) /\ Fits(v)
    <3> SUFFICES ASSUME ~mixed
                 PROVE  \E v \in {0, 1} :
                          ShiftAfter(Rest, IF IsShift(b) THEN Sets(b) ELSE shift, v) /\ Fits(v)
      OBVIOUS
    <3>1. PICK v \in {0, 1} : ShiftAfter(queue, shift, v) /\ Fits(v) BY DEF KeyInv, ShiftInv
    <3>2. ShiftAfter(Rest, IF IsShift(b) THEN Sets(b) ELSE shift, v)
      BY <3>1, <2>1, <1>2, <1>4, ShiftTail
    <3> QED BY <3>1, <3>2
  <2> QED BY <2>2, <2>3, <2>4, <1>1
<1>5. CASE queue = <<>>
  <2>1. Input = polled /\ Rest = <<>> BY <1>5 DEF Input, Rest
  <2>2. b \in Bytes /\ Rest \in Seq(Bytes) /\ Len(Rest) <= QueueLength /\ b = polled[1]
    BY <2>1, <1>0, <1>1, <1>2
  <2>3. ASSUME ~mixed
        PROVE  /\ ExtBefore(b) = extended /\ RelBefore(b) = releasing
               /\ Chained(Rest, ExtAfter(b), RelAfter(b))
               /\ \E v \in {0, 1} :
                      ShiftAfter(Rest, IF IsShift(b) THEN Sets(b) ELSE shift, v) /\ Fits(v)
    <3>1. b = Ack BY <2>1, <2>2, <2>3, <1>1 DEF KeyInv, ChainInv
    <3>2. extended = 0 /\ releasing = 0 BY <2>3, <1>3, <1>5 DEF KeyInv, ChainInv, Chained
    <3>3. /\ ExtBefore(b) = 0 /\ RelBefore(b) = 0 /\ ExtAfter(b) = 0 /\ RelAfter(b) = 0
          /\ ~IsShift(b)
      BY <3>1, AckIsByte, ByteFlags, AckChained
    <3>4. Chained(<<>>, 0, 0) BY DEF Chained
    <3>5. PICK v \in {0, 1} : ShiftAfter(queue, shift, v) /\ Fits(v) BY <2>3 DEF KeyInv, ShiftInv
    <3>6. ShiftAfter(Rest, shift, v) BY <3>5, <2>1, <1>5
    <3> QED BY <3>2, <3>3, <3>4, <3>5, <3>6, <2>1
  <2> QED BY <2>2, <2>3, <1>1
<1> QED BY <1>4, <1>5

\* The handler returns, having set the flags as the byte asks for, and having done what
\* the byte means.
LEMMA DoneKeeps ==
    ASSUME KeyInv, NEW codes, NEW effect, Read(codes, effect), Done,
           extended' \in {0, 1}, releasing' \in {0, 1}, shift' \in {0, 1}, caps_lock' \in {0, 1},
           scrolled' \in BOOLEAN,
           LET b == Head(Input) IN
           ~mixed => /\ extended' = ExtAfter(b) /\ releasing' = RelAfter(b)
                     /\ shift' = IF IsShift(b) THEN Sets(b) ELSE shift
                     /\ effect \in Meaning(IF b.last THEN b.event ELSE NoEvent)
    PROVE  KeyInv'
<1> DEFINE b == Head(Input)
<1>1. /\ pc' = "idle" /\ queue' = Rest /\ polled' = <<>> /\ mixed' = mixed
      /\ pressed' = pressed /\ both' = both
      /\ did' = [effect |-> effect, event |-> IF b.last THEN b.event ELSE NoEvent]
  BY DEF Read, Done, user
<1>2. /\ b \in Bytes /\ Rest \in Seq(Bytes) /\ Len(Rest) <= QueueLength
      /\ ~mixed => /\ Chained(Rest, ExtAfter(b), RelAfter(b))
                   /\ \E v \in {0, 1} :
                          /\ ShiftAfter(Rest, IF IsShift(b) THEN Sets(b) ELSE shift, v)
                          /\ Fits(v)
  BY ReadFacts
<1>3. ~mixed => /\ extended' = ExtAfter(b) /\ releasing' = RelAfter(b)
                /\ shift' = IF IsShift(b) THEN Sets(b) ELSE shift
                /\ effect \in Meaning(IF b.last THEN b.event ELSE NoEvent)
  OBVIOUS
<1> HIDE DEF b
<1>4. KeyType'
  <2>1. QueueLength \in Nat BY KeyboardAssumption
  <2>2. Len(Rest) \in Nat BY <1>2
  <2>3. <<>> \in Seq(Bytes) /\ Len(<<>>) = 0 OBVIOUS
  <2>4. /\ pressed \subseteq ShiftKeys /\ both \in BOOLEAN /\ mixed \in BOOLEAN
    BY DEF KeyInv, KeyType
  <2>5. Len(Rest) <= QueueLength + 1 BY <2>1, <2>2, <1>2
  <2> QED BY <2>3, <2>4, <2>5, <1>1, <1>2 DEF KeyType
<1>5. ChainInv'
  <2>1. Ext' = extended' /\ Rel' = releasing' BY <1>1 DEF Ext, Rel
  <2> QED BY <2>1, <1>1, <1>2, <1>3 DEF ChainInv
<1>6. ShiftInv'
  <2>1. \A v : Fits(v)' <=> Fits(v) BY <1>1 DEF Fits
  <2>2. pressed' = ShiftKeys => both' BY <1>1 DEF KeyInv, ShiftInv
  <2>3. ~mixed' => \E v \in {0, 1} : ShiftAfter(queue', shift', v) /\ Fits(v)'
    BY <2>1, <1>1, <1>2, <1>3
  <2> QED BY <2>2, <2>3 DEF ShiftInv
<1>7. DecodedRight' BY <1>1, <1>3 DEF DecodedRight
<1> QED BY <1>4, <1>5, <1>6, <1>7 DEF KeyInv

LEMMA UserKeeps == ASSUME KeyInv, NEW e \in Events, UserEvent(e) PROVE KeyInv'
<1> DEFINE p == BytesOf(e)
<1>1. e \in EventType BY KeyboardAssumption
<1>2. /\ p \in Seq(Bytes) /\ Len(p) \in {1, 2, 3} /\ p[Len(p)] = Byte(e.key, e, TRUE)
      /\ \A k \in 1 .. (Len(p) - 1) : ~IsShift(p[k])
      /\ Chained(p, 0, 0)
  BY <1>1, BytesOfType
<1>3. /\ ~e.make /\ e.key \in ShiftKeys => e.key \in pressed
      /\ Len(queue) + Len(p) <= QueueLength
      /\ queue' = queue \o p
      /\ pressed' = IF e.make THEN pressed \cup ({e.key} \cap ShiftKeys) ELSE pressed \ {e.key}
      /\ both' = (pressed' # {} /\ (both \/ ShiftKeys = pressed'))
      /\ did' = Idle
      /\ polled' = polled /\ pc' = pc /\ mixed' = mixed /\ scrolled' = scrolled
      /\ releasing' = releasing /\ shift' = shift /\ caps_lock' = caps_lock /\ extended' = extended
  BY DEF UserEvent, flags
<1> HIDE DEF p
<1>4. KeyType BY DEF KeyInv
<1>5. e.make \in BOOLEAN /\ e.key \in Keys BY <1>1 DEF EventType
<1>6. KeyType'
  <2>1. queue \o p \in Seq(Bytes) /\ Len(queue \o p) = Len(queue) + Len(p)
    BY <1>2, <1>4 DEF KeyType
  <2>2. Len(queue \o p) <= QueueLength + 1
    <3>1. Len(queue) \in Nat /\ Len(p) \in Nat /\ QueueLength \in Nat
      BY <1>2, <1>4, KeyboardAssumption DEF KeyType
    <3> QED BY <3>1, <2>1, <1>3
  <2>3. pressed' \subseteq ShiftKeys BY <1>3, <1>4 DEF KeyType
  <2>4. both' \in BOOLEAN BY <1>3
  <2> QED BY <2>1, <2>2, <2>3, <2>4, <1>3, <1>4 DEF KeyType
<1>7. ChainInv'
  <2>1. Ext' = Ext /\ Rel' = Rel BY <1>3 DEF Ext, Rel
  <2>2. ~mixed => Chained(queue \o p, Ext, Rel)
    BY <1>2, <1>4, ChainJoin DEF KeyInv, ChainInv, KeyType
  <2> QED BY <2>1, <2>2, <1>3 DEF KeyInv, ChainInv
<1>8. pressed' = ShiftKeys => both'
  BY <1>3 DEF ShiftKeys
<1>9. ASSUME ~mixed PROVE \E v \in {0, 1} : ShiftAfter(queue', shift', v) /\ Fits(v)'
  <2>1. p # <<>> /\ Len(p) \in Nat /\ Len(p) > 0 BY <1>2
  <2>2. p[Len(p)].code = e.key /\ p[Len(p)].event = e BY <1>2 DEF Byte
  <2>3. CASE e.key \in ShiftKeys
    <3>1. IsShift(p[Len(p)]) BY <2>2, <2>3 DEF IsShift
    <3> DEFINE v == Sets(p[Len(p)])
    <3>2. v = IF e.make THEN 1 ELSE 0 BY <2>2 DEF Sets
    <3>3. ShiftAfter(queue', shift', v)
      BY <3>1, <2>1, <1>2, <1>3, <1>4, ShiftJoin DEF KeyType
    <3> HIDE DEF v
    <3>4. Fits(v)'
      <4>1. CASE e.make
        <5>1. e.key \in pressed' /\ v = 1 BY <4>1, <3>2, <2>3, <1>3
        <5> QED BY <5>1 DEF Fits
      <4>2. CASE ~e.make
        <5>1. v = 0 /\ pressed' = pressed \ {e.key} /\ e.key \in pressed
          BY <4>2, <3>2, <2>3, <1>3
        <5>2. pressed' # {} => pressed = ShiftKeys
          BY <5>1, <1>4 DEF KeyType, ShiftKeys
        <5>3. pressed' # {} => both BY <5>2 DEF KeyInv, ShiftInv
        <5>4. pressed' # {} => both' BY <5>3, <1>3
        <5> QED BY <5>1, <5>4 DEF Fits
      <4> QED BY <4>1, <4>2, <1>5
    <3> QED BY <3>2, <3>3, <3>4
  <2>4. CASE e.key \notin ShiftKeys
    <3>1. \A k \in 1 .. Len(p) : ~IsShift(p[k])
      <4>1. ~IsShift(p[Len(p)]) BY <2>2, <2>4 DEF IsShift
      <4>2. \A k \in 1 .. Len(p) : k = Len(p) \/ k \in 1 .. (Len(p) - 1) BY <2>1
      <4> QED BY <4>1, <4>2, <1>2
    <3>2. pressed' = pressed BY <2>4, <1>3, <1>4 DEF KeyType
    <3>3. PICK v \in {0, 1} : ShiftAfter(queue, shift, v) /\ Fits(v)
      BY <1>9 DEF KeyInv, ShiftInv
    <3>4. ShiftAfter(queue', shift', v) BY <3>1, <3>3, <1>2, <1>3, <1>4, ShiftJoin DEF KeyType
    <3>5. Fits(v)' BY <3>2, <3>3, <1>3 DEF Fits
    <3> QED BY <3>4, <3>5
  <2> QED BY <2>3, <2>4
<1>10. ShiftInv' BY <1>3, <1>8, <1>9 DEF ShiftInv
<1>11. DecodedRight' BY <1>3, MeaningOfNothing DEF DecodedRight, Idle
<1> QED BY <1>6, <1>7, <1>10, <1>11 DEF KeyInv

\* The acknowledgement of a byte that is sent goes behind what is on the way, q.
LEMMA AckSent ==
    ASSUME NEW q \in Seq(Bytes)
    PROVE  LET p == keyboard_write_data(q) IN
           /\ p \in Seq(Bytes) /\ Len(p) = Len(q) + 1
           /\ Chained(q, 0, 0) => Chained(p, 0, 0)
           /\ \A s, v : ShiftAfter(q, s, v) => ShiftAfter(p, s, v)
<1>1. Ack \in Bytes /\ <<Ack>> \in Seq(Bytes) BY AckIsByte
<1>2. keyboard_write_data(q) = q \o <<Ack>> BY <1>1 DEF keyboard_write_data
<1>3. q \o <<Ack>> \in Seq(Bytes) /\ Len(q \o <<Ack>>) = Len(q) + 1 BY <1>1, JoinOne
<1>4. Chained(q, 0, 0) => Chained(q \o <<Ack>>, 0, 0) BY <1>1, AckChained, ChainJoin
<1>5. \A k \in 1 .. Len(<<Ack>>) : ~IsShift(<<Ack>>[k]) BY AckChained
<1>6. ASSUME NEW s, NEW v, ShiftAfter(q, s, v) PROVE ShiftAfter(q \o <<Ack>>, s, v)
  BY <1>1, <1>5, <1>6, ShiftJoin
<1> QED BY <1>2, <1>3, <1>4, <1>6

LEMMA CapsKeeps == ASSUME KeyInv, PressCaps PROVE KeyInv'
<1> DEFINE b == Head(Input)
           p == keyboard_write_data(Rest)
<1>1. /\ releasing = 0 /\ Read({"caps"}, "caps") /\ caps_lock' = 1 - caps_lock
      /\ queue' = p /\ pc' = "command" /\ releasing' = releasing /\ shift' = shift
      /\ extended' = extended /\ scrolled' = scrolled
  BY DEF PressCaps
<1>2. /\ polled' = <<>> /\ mixed' = mixed /\ pressed' = pressed /\ both' = both
      /\ did' = [effect |-> "caps", event |-> IF b.last THEN b.event ELSE NoEvent]
  BY <1>1 DEF Read, user
<1>3. /\ b \in Bytes /\ b.code = "caps" /\ Rest \in Seq(Bytes) /\ Len(Rest) <= QueueLength
      /\ ~mixed => /\ RelBefore(b) = releasing /\ Chained(Rest, ExtAfter(b), RelAfter(b))
                   /\ \E v \in {0, 1} :
                          /\ ShiftAfter(Rest, IF IsShift(b) THEN Sets(b) ELSE shift, v)
                          /\ Fits(v)
  BY <1>1, ReadFacts
<1> HIDE DEF b
<1>4. /\ b.last /\ b.event \in EventType /\ b.event.key = "caps"
      /\ RelBefore(b) = (IF b.event.make THEN 0 ELSE 1) /\ ExtAfter(b) = 0 /\ RelAfter(b) = 0
      /\ ~IsShift(b)
  BY <1>3, ByteCases, ByteFlags DEF Keys, ShiftKeys, IsShift
<1>5. /\ p \in Seq(Bytes) /\ Len(p) = Len(Rest) + 1
      /\ Chained(Rest, 0, 0) => Chained(p, 0, 0)
      /\ \A s, v : ShiftAfter(Rest, s, v) => ShiftAfter(p, s, v)
  BY <1>3, AckSent
<1> HIDE DEF p
<1>6. KeyType'
  <2>1. Len(p) <= QueueLength + 1
    <3>1. Len(Rest) \in Nat /\ QueueLength \in Nat BY <1>3, KeyboardAssumption
    <3> QED BY <3>1, <1>3, <1>5
  <2>2. <<>> \in Seq(Bytes) /\ Len(<<>>) = 0 OBVIOUS
  <2> QED BY <2>1, <2>2, <1>1, <1>2, <1>5 DEF KeyInv, KeyType
<1>7. ChainInv'
  <2>1. Ext' = 0 /\ Rel' = 0 BY <1>1 DEF Ext, Rel
  <2> QED BY <2>1, <1>1, <1>2, <1>3, <1>4, <1>5 DEF ChainInv
<1>8. ShiftInv'
  <2>1. \A v : Fits(v)' <=> Fits(v) BY <1>2 DEF Fits
  <2>2. ~mixed => \E v \in {0, 1} : ShiftAfter(p, shift, v) /\ Fits(v)
    BY <1>3, <1>4, <1>5
  <2> QED BY <2>1, <2>2, <1>1, <1>2 DEF KeyInv, ShiftInv
<1>9. DecodedRight'
  <2>1. ~mixed => b.event.make BY <1>1, <1>3, <1>4
  <2>2. ~mixed => "caps" \in Meaning(b.event) BY <2>1, <1>4, MeaningOf
  <2> QED BY <2>2, <1>2, <1>4 DEF DecodedRight
<1> QED BY <1>6, <1>7, <1>8, <1>9 DEF KeyInv

LEMMA PollKeeps == ASSUME KeyInv, Poll PROVE KeyInv'
<1> DEFINE b == Head(queue)
           t == Tail(queue)
<1>1. /\ pc \in {"command", "data"} /\ queue # <<>>
      /\ mixed' = (mixed \/ b.code # "FA") /\ polled' = <<b>>
      /\ IF pc = "command"
         THEN pc' = "data" /\ queue' = keyboard_write_data(t) /\ extended' = extended
         ELSE pc' = "idle" /\ queue' = t /\ extended' = 0
      /\ did' = [effect |-> "caps", event |-> NoEvent]
      /\ releasing' = releasing /\ shift' = shift /\ caps_lock' = caps_lock
      /\ pressed' = pressed /\ both' = both /\ scrolled' = scrolled
  BY DEF Poll, keyboard_read_data, user
<1>2. KeyType /\ releasing = 0 /\ Ext = 0 /\ Rel = 0 BY <1>1 DEF KeyInv, KeyType, Ext, Rel
<1>3. b \in Bytes /\ t \in Seq(Bytes) /\ Len(t) = Len(queue) - 1 /\ Len(queue) \in Nat
  BY <1>1, <1>2 DEF KeyType
<1>4. ~mixed => /\ Chained(t, ExtAfter(b), RelAfter(b))
                /\ \E v \in {0, 1} :
                       ShiftAfter(t, IF IsShift(b) THEN Sets(b) ELSE shift, v) /\ Fits(v)
  <2>1. ~mixed => Chained(queue, 0, 0) BY <1>2 DEF KeyInv, ChainInv
  <2>2. ~mixed => Chained(t, ExtAfter(b), RelAfter(b))
    BY <2>1, <1>1, <1>2, ChainTail DEF KeyType
  <2>3. ~mixed => \E v \in {0, 1} : ShiftAfter(queue, shift, v) /\ Fits(v)
    BY DEF KeyInv, ShiftInv
  <2>4. queue \in Seq(Bytes) BY <1>2 DEF KeyType
  <2>5. \A v : ShiftAfter(queue, shift, v)
                 => ShiftAfter(t, IF IsShift(b) THEN Sets(b) ELSE shift, v)
    BY <2>4, <1>1, ShiftTail
  <2> QED BY <2>2, <2>3, <2>5
<1> HIDE DEF b, t
<1>5. b.code = "FA" => b = Ack /\ ExtAfter(b) = 0 /\ RelAfter(b) = 0 /\ ~IsShift(b)
  BY <1>3, ByteCases, ByteFlags, AckChained
<1>6. /\ keyboard_write_data(t) \in Seq(Bytes) /\ Len(keyboard_write_data(t)) = Len(t) + 1
      /\ Chained(t, 0, 0) => Chained(keyboard_write_data(t), 0, 0)
      /\ \A s, v : ShiftAfter(t, s, v) => ShiftAfter(keyboard_write_data(t), s, v)
  BY <1>3, AckSent
<1>7. KeyType'
  <2>1. queue' \in Seq(Bytes) /\ Len(queue') <= QueueLength + 1
    <3>1. QueueLength \in Nat /\ Len(queue) <= QueueLength + 1
      BY <1>2, KeyboardAssumption DEF KeyType
    <3> QED BY <3>1, <1>1, <1>3, <1>6
  <2>2. <<b>> \in Seq(Bytes) /\ Len(<<b>>) = 1 BY <1>3
  <2>3. mixed' \in BOOLEAN /\ pc' \in {"idle", "command", "data"} /\ extended' \in {0, 1}
    BY <1>1, <1>2 DEF KeyType
  <2> QED BY <2>1, <2>2, <2>3, <1>1, <1>2 DEF KeyType
<1>8. ChainInv'
  <2>1. Ext' = 0 /\ Rel' = 0 BY <1>1, <1>2 DEF Ext, Rel
  <2>2. ~mixed' => b = Ack /\ Chained(t, 0, 0) BY <1>1, <1>4, <1>5
  <2>3. ~mixed' => Chained(queue', 0, 0) BY <2>2, <1>1, <1>6
  <2>4. ~mixed' => polled'[1] = Ack BY <2>2, <1>1
  <2> QED BY <2>1, <2>3, <2>4 DEF ChainInv
<1>9. ShiftInv'
  <2>1. \A v : Fits(v)' <=> Fits(v) BY <1>1 DEF Fits
  <2>2. ~mixed' => \E v \in {0, 1} : ShiftAfter(t, shift, v) /\ Fits(v) BY <1>1, <1>4, <1>5
  <2>3. \A v : ShiftAfter(t, shift, v) => ShiftAfter(queue', shift', v) BY <1>1, <1>6
  <2> QED BY <2>1, <2>2, <2>3, <1>1 DEF KeyInv, ShiftInv
<1>10. DecodedRight' BY <1>1, MeaningOfNothing DEF DecodedRight
<1> QED BY <1>7, <1>8, <1>9, <1>10 DEF KeyInv

\* Before a key's last byte the flags say whether the event is a press, and of which of
\* the two keys with its code.
LEMMA KeyRead ==
    ASSUME KeyInv, NEW codes, NEW effect, Read(codes, effect)
    PROVE  LET b == Head(Input) IN
           /\ b \in Bytes /\ b.code \in codes
           /\ b.code \in Keys
                => /\ b.last /\ b.event \in EventType /\ b.event.key = b.code
                   /\ ExtAfter(b) = 0 /\ RelAfter(b) = 0
                   /\ ~mixed => /\ releasing = (IF b.event.make THEN 0 ELSE 1)
                                /\ extended = (IF b.event.extended THEN 1 ELSE 0)
           /\ b.code = "FA" => /\ ~b.last /\ ExtAfter(b) = 0 /\ RelAfter(b) = 0
                               /\ ~mixed => releasing = 0 /\ extended = 0
           /\ IsShift(b) <=> b.code \in ShiftKeys
           /\ Sets(b) = IF b.event.make THEN 1 ELSE 0
<1> DEFINE b == Head(Input)
<1>1. /\ b \in Bytes /\ b.code \in codes
      /\ ~mixed => ExtBefore(b) = extended /\ RelBefore(b) = releasing
  BY ReadFacts
<1> HIDE DEF b
<1>2. /\ IsShift(b) <=> b.code \in ShiftKeys
      /\ Sets(b) = IF b.event.make THEN 1 ELSE 0
  BY DEF IsShift, Sets
<1> QED BY <1>1, <1>2, ByteCases, ByteFlags DEF b

\* A key is released, or an acknowledgement is read after F0.
LEMMA ReleaseKeeps == ASSUME KeyInv, Release PROVE KeyInv'
<1> DEFINE b == Head(Input)
<1>1. /\ releasing = 1 /\ Read(KeyCodes, "none") /\ Done /\ releasing' = 0
      /\ shift' = (IF b.code \in ShiftKeys THEN 0 ELSE shift) /\ extended' = 0
      /\ caps_lock' = caps_lock /\ scrolled' = scrolled
  BY DEF Release
<1>2. KeyType BY DEF KeyInv
<1>3. /\ shift' \in {0, 1} /\ caps_lock' \in {0, 1} /\ scrolled' \in BOOLEAN
      /\ extended' \in {0, 1} /\ releasing' \in {0, 1}
  BY <1>1, <1>2 DEF KeyType
<1>4. /\ b.code \in Keys \cup {"FA"}
      /\ b.code \in Keys
           => /\ b.last /\ b.event \in EventType
              /\ ExtAfter(b) = 0 /\ RelAfter(b) = 0
              /\ ~mixed => releasing = (IF b.event.make THEN 0 ELSE 1)
      /\ b.code = "FA" => (~mixed => releasing = 0)
      /\ IsShift(b) <=> b.code \in ShiftKeys
      /\ Sets(b) = IF b.event.make THEN 1 ELSE 0
  BY <1>1, KeyRead DEF KeyCodes
<1> HIDE DEF b
<1>5. ASSUME ~mixed
      PROVE  /\ extended' = ExtAfter(b) /\ releasing' = RelAfter(b)
             /\ shift' = IF IsShift(b) THEN Sets(b) ELSE shift
             /\ "none" \in Meaning(IF b.last THEN b.event ELSE NoEvent)
  <2>1. b.code \in Keys /\ b.last /\ b.event \in EventType /\ ~b.event.make
    BY <1>1, <1>4, <1>5
  <2>2. Meaning(b.event) = {"none"} BY <2>1, MeaningOf
  <2> QED BY <2>1, <2>2, <1>1, <1>4
<1> QED BY <1>1, <1>3, <1>5, DoneKeeps DEF b

\* A key is pressed, or an acknowledgement is read.
LEMMA PressKeeps ==
    ASSUME KeyInv, NEW codes, NEW effect, NEW c, Press(codes, effect, c),
           codes \subseteq KeyCodes,
           shift' = (IF Head(Input).code \in ShiftKeys THEN 1 ELSE shift),
           scrolled' \in BOOLEAN,
           Head(Input).code = "FA" => effect = "none",
           ASSUME NEW e \in EventType, e.make, e.key \in codes,
                  extended = (IF e.extended THEN 1 ELSE 0)
           PROVE  effect \in Meaning(e)
    PROVE  KeyInv'
<1> DEFINE b == Head(Input)
<1>1. /\ releasing = 0 /\ Read(codes, effect) /\ Done /\ extended' = 0
      /\ releasing' = releasing /\ caps_lock' = caps_lock
  BY DEF Press
<1>2. KeyType BY DEF KeyInv
<1>3. /\ shift' = (IF b.code \in ShiftKeys THEN 1 ELSE shift)
      /\ b.code = "FA" => effect = "none"
  OBVIOUS
<1>4. /\ b.code \in codes
      /\ b.code \in Keys
           => /\ b.last /\ b.event \in EventType /\ b.event.key = b.code
              /\ ExtAfter(b) = 0 /\ RelAfter(b) = 0
              /\ ~mixed => /\ releasing = (IF b.event.make THEN 0 ELSE 1)
                           /\ extended = (IF b.event.extended THEN 1 ELSE 0)
      /\ b.code = "FA" => ~b.last /\ ExtAfter(b) = 0 /\ RelAfter(b) = 0
      /\ IsShift(b) <=> b.code \in ShiftKeys
      /\ Sets(b) = IF b.event.make THEN 1 ELSE 0
  BY <1>1, KeyRead
<1> HIDE DEF b
<1>5. /\ shift' \in {0, 1} /\ caps_lock' \in {0, 1} /\ scrolled' \in BOOLEAN
      /\ extended' \in {0, 1} /\ releasing' \in {0, 1}
  BY <1>1, <1>2, <1>3 DEF KeyType
<1>6. ASSUME ~mixed
      PROVE  /\ extended' = ExtAfter(b) /\ releasing' = RelAfter(b)
             /\ shift' = IF IsShift(b) THEN Sets(b) ELSE shift
             /\ effect \in Meaning(IF b.last THEN b.event ELSE NoEvent)
  <2>1. CASE b.code \in Keys
    <3>1. /\ b.last /\ b.event \in EventType /\ b.event.key \in codes
          /\ releasing = (IF b.event.make THEN 0 ELSE 1)
          /\ extended = (IF b.event.extended THEN 1 ELSE 0)
      BY <2>1, <1>4, <1>6
    <3>2. b.event.make BY <3>1, <1>1
    <3>3. effect \in Meaning(b.event) BY <3>1, <3>2
    <3> QED BY <3>1, <3>2, <3>3, <2>1, <1>1, <1>3, <1>4
  <2>2. CASE b.code = "FA"
    <3>1. b.code \notin ShiftKeys BY <2>2 DEF ShiftKeys
    <3> QED BY <3>1, <2>2, <1>1, <1>3, <1>4, MeaningOfNothing
  <2> QED BY <2>1, <2>2, <1>4 DEF KeyCodes
<1> QED BY <1>1, <1>5, <1>6, DoneKeeps DEF b

\* Every step keeps the keyboard's part of the invariant.
LEMMA KeyStep == ASSUME KeyInv, [Next]_vars PROVE KeyInv'
<1>0. KeyType BY DEF KeyInv
<1>1. ASSUME NEW e \in Events, UserEvent(e) PROVE KeyInv' BY <1>1, UserKeeps
<1>2. ASSUME UNCHANGED <<flags, queue, polled, pc, user, mixed, scrolled>>,
             did' = did \/ did' = Idle
      PROVE  KeyInv'
  <2>1. KeyType' BY <1>2, <1>0 DEF KeyType, flags, user
  <2>2. ChainInv' BY <1>2 DEF KeyInv, ChainInv, Ext, Rel, flags
  <2>3. ShiftInv'
    <3>1. \A v : Fits(v)' <=> Fits(v) BY <1>2 DEF Fits, user
    <3> QED BY <3>1, <1>2 DEF KeyInv, ShiftInv, flags, user
  <2>4. DecodedRight' BY <1>2, MeaningOfNothing DEF KeyInv, DecodedRight, Idle
  <2> QED BY <2>1, <2>2, <2>3, <2>4 DEF KeyInv
<1>3. CASE KernelPrint BY <1>2, <1>3 DEF KernelPrint
<1>4. CASE BeginRelease
  <2> DEFINE b == Head(Input)
  <2>1. /\ Read({"F0"}, "prefix") /\ Done /\ releasing' = 1 /\ shift' = shift
        /\ caps_lock' = caps_lock /\ extended' = extended /\ scrolled' = scrolled
    BY <1>4 DEF BeginRelease
  <2>2. b \in Bytes /\ b.code = "F0" /\ (~mixed => ExtBefore(b) = extended) BY <2>1, ReadFacts
  <2> HIDE DEF b
  <2>3. /\ ~b.last /\ ExtAfter(b) = ExtBefore(b) /\ RelAfter(b) = 1 /\ ~IsShift(b)
    BY <2>2, ByteCases, ByteFlags DEF IsShift, ShiftKeys
  <2>4. /\ extended' \in {0, 1} /\ releasing' \in {0, 1} /\ shift' \in {0, 1}
        /\ caps_lock' \in {0, 1} /\ scrolled' \in BOOLEAN
    BY <2>1, <1>0 DEF KeyType
  <2>5. ~mixed => /\ extended' = ExtAfter(b) /\ releasing' = RelAfter(b)
                  /\ shift' = IF IsShift(b) THEN Sets(b) ELSE shift
                  /\ "prefix" \in Meaning(IF b.last THEN b.event ELSE NoEvent)
    BY <2>1, <2>2, <2>3, MeaningOfNothing
  <2> QED BY <2>1, <2>4, <2>5, DoneKeeps DEF b
<1>5. CASE BeginExtended
  <2> DEFINE b == Head(Input)
  <2>1. /\ Read({"E0"}, "prefix") /\ Done /\ extended' = 1 /\ shift' = shift
        /\ caps_lock' = caps_lock /\ releasing' = releasing /\ scrolled' = scrolled
    BY <1>5 DEF BeginExtended
  <2>2. b \in Bytes /\ b.code = "E0" /\ (~mixed => RelBefore(b) = releasing) BY <2>1, ReadFacts
  <2> HIDE DEF b
  <2>3. /\ ~b.last /\ ExtAfter(b) = 1 /\ RelBefore(b) = 0 /\ RelAfter(b) = 0 /\ ~IsShift(b)
    BY <2>2, ByteCases, ByteFlags DEF IsShift, ShiftKeys
  <2>4. /\ extended' \in {0, 1} /\ releasing' \in {0, 1} /\ shift' \in {0, 1}
        /\ caps_lock' \in {0, 1} /\ scrolled' \in BOOLEAN
    BY <2>1, <1>0 DEF KeyType
  <2>5. ~mixed => /\ extended' = ExtAfter(b) /\ releasing' = RelAfter(b)
                  /\ shift' = IF IsShift(b) THEN Sets(b) ELSE shift
                  /\ "prefix" \in Meaning(IF b.last THEN b.event ELSE NoEvent)
    BY <2>1, <2>2, <2>3, MeaningOfNothing
  <2> QED BY <2>1, <2>4, <2>5, DoneKeeps DEF b
<1>6. CASE Release BY <1>6, ReleaseKeeps
<1>7. CASE PressShift
  <2>1. Press(ShiftKeys, "shift", Shown) /\ shift' = 1 /\ scrolled' = scrolled
    BY <1>7 DEF PressShift
  <2>2. Head(Input).code \in ShiftKeys BY <2>1 DEF Press, Read
  <2>3. "FA" \notin ShiftKeys /\ ShiftKeys \subseteq KeyCodes BY DEF ShiftKeys, KeyCodes, Keys
  <2>4. ASSUME NEW e \in EventType, e.make, e.key \in ShiftKeys PROVE "shift" \in Meaning(e)
    BY <2>4, MeaningOf
  <2> QED BY <2>1, <2>2, <2>3, <2>4, <1>0, PressKeeps DEF KeyType
<1>8. ASSUME NEW key \in {"up", "down", "letter", "space", "backspace", "enter", "FA"},
             NEW effect, NEW c, Press({key}, effect, c), shift' = shift, scrolled' \in BOOLEAN,
             key = "FA" => effect = "none",
             ASSUME NEW e \in EventType, e.make, e.key = key,
                    extended = (IF e.extended THEN 1 ELSE 0)
             PROVE  effect \in Meaning(e)
      PROVE  KeyInv'
  <2>1. Head(Input).code \in {key} BY <1>8 DEF Press, Read
  <2>2. key \notin ShiftKeys /\ {key} \subseteq KeyCodes BY DEF ShiftKeys, KeyCodes, Keys
  <2>3. ASSUME NEW e \in EventType, e.make, e.key \in {key},
               extended = (IF e.extended THEN 1 ELSE 0)
        PROVE  effect \in Meaning(e)
    BY <2>3, <1>8
  <2>4. shift' = (IF Head(Input).code \in ShiftKeys THEN 1 ELSE shift) BY <2>1, <2>2, <1>8
  <2>5. Head(Input).code = "FA" => effect = "none" BY <2>1, <1>8
  <2> QED BY <2>2, <2>3, <2>4, <2>5, <1>8, PressKeeps
<1>9. CASE PressUp
  <2>1. extended = 1 /\ Press({"up"}, "up", console_scroll(Shown, -1)) /\ scrolled' \in BOOLEAN
        /\ shift' = shift
    BY <1>9 DEF PressUp
  <2>2. ASSUME NEW e \in EventType, e.make, e.key = "up", extended = (IF e.extended THEN 1 ELSE 0)
        PROVE  "up" \in Meaning(e)
    <3>1. e.extended BY <2>1, <2>2
    <3>2. Meaning(e) = IF e.extended THEN {e.key} ELSE {"none"} BY <2>2, MeaningOf
    <3> QED BY <3>1, <3>2, <2>2
  <2> QED BY <2>1, <2>2, <1>8
<1>10. CASE PressDown
  <2>1. extended = 1 /\ Press({"down"}, "down", console_scroll(Shown, 1)) /\ scrolled' \in BOOLEAN
        /\ shift' = shift
    BY <1>10 DEF PressDown
  <2>2. ASSUME NEW e \in EventType, e.make, e.key = "down",
               extended = (IF e.extended THEN 1 ELSE 0)
        PROVE  "down" \in Meaning(e)
    <3>1. e.extended BY <2>1, <2>2
    <3>2. Meaning(e) = IF e.extended THEN {e.key} ELSE {"none"} BY <2>2, MeaningOf
    <3> QED BY <3>1, <3>2, <2>2
  <2> QED BY <2>1, <2>2, <1>8
<1>11. CASE PressNothing
  <2>1. shift' = shift /\ scrolled' \in BOOLEAN BY <1>11, <1>0 DEF PressNothing, KeyType
  <2>2. ASSUME NEW e \in EventType, e.make, e.key \in {"up", "down"}, extended = 0,
               extended = (IF e.extended THEN 1 ELSE 0)
        PROVE  "none" \in Meaning(e)
    <3>1. ~e.extended BY <2>2
    <3>2. Meaning(e) = IF e.extended THEN {e.key} ELSE {"none"} BY <2>2, MeaningOf
    <3> QED BY <3>1, <3>2
  <2>3. CASE extended = 0 /\ Press({"up", "down"}, "none", Shown)
    <3>1. Head(Input).code \in {"up", "down"} BY <2>3 DEF Press, Read
    <3>2. Head(Input).code \notin ShiftKeys /\ {"up", "down"} \subseteq KeyCodes
      BY <3>1 DEF ShiftKeys, KeyCodes, Keys
    <3> QED BY <3>2, <2>1, <2>2, <2>3, PressKeeps
  <2>4. CASE Press({"FA"}, "none", Shown)
    <3>1. ASSUME NEW e \in EventType, e.key = "FA" PROVE FALSE
      BY <3>1 DEF EventType, Keys, ShiftKeys
    <3> QED BY <3>1, <2>1, <2>4, <1>8
  <2> QED BY <2>3, <2>4, <1>11 DEF PressNothing
<1>12. CASE PressLetter
  <2>1. shift' = shift /\ scrolled' \in BOOLEAN BY <1>12, <1>0 DEF PressLetter, KeyType
  <2>2. PICK key \in {"letter", "space"} : Press({key}, "type", Type(Shown, key))
    BY <1>12 DEF PressLetter
  <2>3. ASSUME NEW e \in EventType, e.make, e.key = key PROVE "type" \in Meaning(e)
    BY <2>3, MeaningOf
  <2> QED BY <2>1, <2>2, <2>3, <1>8
<1>13. CASE PressBackspace
  <2>1. /\ shift' = shift /\ scrolled' \in BOOLEAN
        /\ Press({"backspace"}, "backspace", Erase(Shown))
    BY <1>13, <1>0 DEF PressBackspace, KeyType
  <2>2. ASSUME NEW e \in EventType, e.make, e.key = "backspace" PROVE "backspace" \in Meaning(e)
    BY <2>2, MeaningOf
  <2> QED BY <2>1, <2>2, <1>8
<1>14. CASE PressEnter
  <2>1. shift' = shift /\ scrolled' \in BOOLEAN BY <1>14, <1>0 DEF PressEnter, KeyType
  <2>2. ASSUME NEW e \in EventType, e.make, e.key = "enter"
        PROVE  "new line" \in Meaning(e) /\ "clear" \in Meaning(e)
    BY <2>2, MeaningOf
  <2>3. CASE Press({"enter"}, "new line", NewLine(Shown)) BY <2>1, <2>2, <2>3, <1>8
  <2>4. CASE Press({"enter"}, "clear", ClearAll(Shown)) BY <2>1, <2>2, <2>4, <1>8
  <2> QED BY <2>3, <2>4, <1>14 DEF PressEnter
<1>15. CASE PressCaps BY <1>15, CapsKeeps
<1>16. CASE Poll BY <1>16, PollKeeps
<1>17. CASE UNCHANGED vars BY <1>2, <1>17 DEF vars
<1> QED
  BY <1>1, <1>3, <1>4, <1>5, <1>6, <1>7, <1>9, <1>10, <1>11, <1>12, <1>13, <1>14, <1>15,
     <1>16, <1>17 DEF Next, Handle

LEMMA KeyInit == Init => KeyInv
<1> SUFFICES ASSUME Init PROVE KeyInv OBVIOUS
<1>1. KeyType
  <2>1. <<>> \in Seq(Bytes) /\ Len(<<>>) = 0 OBVIOUS
  <2>2. 0 <= QueueLength + 1 /\ 0 <= 1 BY KeyboardAssumption
  <2>3. releasing = 0 /\ shift = 0 /\ caps_lock = 0 /\ extended = 0 BY DEF Init
  <2>4. queue = <<>> /\ polled = <<>> /\ pc = "idle" /\ pressed = {} BY DEF Init
  <2>5. both = FALSE /\ mixed = FALSE /\ scrolled = FALSE BY DEF Init
  <2> QED BY <2>1, <2>2, <2>3, <2>4, <2>5 DEF KeyType
<1>2. ChainInv BY DEF Init, ChainInv, Ext, Rel, Chained
<1>3. ShiftInv
  <2>1. ShiftAfter(queue, shift, 0) BY ShiftNothing DEF Init
  <2>2. Fits(0) /\ pressed # ShiftKeys BY DEF Init, Fits, ShiftKeys
  <2> QED BY <2>1, <2>2 DEF ShiftInv
<1>4. DecodedRight BY MeaningOfNothing DEF Init, DecodedRight, Idle
<1> QED BY <1>1, <1>2, <1>3, <1>4 DEF KeyInv
-----------------------------------------------------------------------------
\* keyboard.c: whatever keys the user presses and releases, and however slowly the bytes
\* are read, the handler does for each event what the event means: F0 and E0 never
\* reach the next key.
THEOREM EventsDecodedRight == Spec => []DecodedRight
<1>1. KeyInv => DecodedRight BY DEF KeyInv
<1> QED BY <1>1, KeyInit, KeyStep, PTL DEF Spec

\* keyboard.c: once all bytes are read the shift flag agrees with the keys that are down.
THEOREM ShiftFlagFollows == Spec => []ShiftFollows
<1>1. KeyInv => ShiftFollows
  <2> SUFFICES ASSUME KeyInv, ~mixed, queue = <<>>
               PROVE  (shift = 1 => pressed # {}) /\ (pressed # {} => shift = 1 \/ both)
    BY DEF ShiftFollows
  <2>1. PICK v \in {0, 1} : ShiftAfter(queue, shift, v) /\ Fits(v) BY DEF KeyInv, ShiftInv
  <2>2. v = shift BY <2>1, ShiftNothing
  <2> QED BY <2>1, <2>2 DEF Fits
<1> QED BY <1>1, KeyInit, KeyStep, PTL DEF Spec

\* Every variable has its type; at most one byte more than QueueLength is on the way.
THEOREM TypeCorrect == Spec => []TypeOK
<1>1. ConsoleInv /\ KeyInv => TypeOK
  <2> SUFFICES ASSUME ConsoleInv, KeyInv PROVE TypeOK OBVIOUS
  <2>1. con \in ConsoleType BY DEF ConsoleInv, Current
  <2>2. KeyType BY DEF KeyInv
  <2>3. \A f \in {releasing, shift, caps_lock, extended} : f \in {0, 1} BY <2>2 DEF KeyType
  <2>4. \A i \in DOMAIN queue : queue[i].code \in KeyCodes \cup {"F0", "E0"}
    <3>1. \A i \in DOMAIN queue : queue[i] \in Bytes BY <2>2 DEF KeyType
    <3> QED BY <3>1, ByteCases
  <2> QED BY <2>1, <2>2, <2>3, <2>4 DEF TypeOK, KeyType
<1> QED BY <1>1, ConsoleInit, ConsoleStep, KeyInit, KeyStep, PTL DEF Spec
-----------------------------------------------------------------------------
\* Backspace, with the cursor on the screen or below it, and not in the last column.
LEMMA ErasePosition ==
    ASSUME NEW c, Current(c), c.scroll <= c.y, c.x < Width - 1
    PROVE  LET d == Erase(c) IN
           /\ c.x > 0 => d.x = c.x - 1 /\ d.y = c.y
           /\ c.x = 0 /\ c.y > c.scroll => d.x = Width - 1 /\ d.y = c.y - 1
           /\ c.x = 0 /\ c.y = c.scroll => d = c
<1> DEFINE at == console_get_cursor(c)
           back(d) == console_set_cursor(console_print_char(d), at.x - 1, at.y)
<1>1. Erase(c) = IF at.x > 0 THEN back(back(c))
                 ELSE IF at.y > 0
                 THEN console_set_cursor(console_print_char(c), Width - 1, at.y - 1)
                 ELSE c
  BY DEF Erase
<1>2. at.x = c.x /\ at.y = c.y - c.scroll /\ at.y \in Nat BY GetCursorType
<1> HIDE DEF at
<1>3. c.x \in 0 .. (Width - 1) /\ c.y \in 0 .. (Modulus - 1) /\ c.scroll \in 0 .. (Height - 1)
  BY DEF Current, ConsoleType
<1>4. ASSUME NEW d, Current(d), d.x + 1 < Width, d.scroll = c.scroll, c.x > 0
      PROVE  /\ Current(back(d)) /\ back(d).x = c.x - 1 /\ back(d).y = c.y
             /\ back(d).scroll = c.scroll
  <2> DEFINE e == console_print_char(d)
  <2>1. Current(e) /\ e.scroll = c.scroll BY <1>4, PrintCharKeeps
  <2> HIDE DEF e
  <2>2. at.x - 1 \in 0 .. (Width - 1) /\ at.y \in Int BY <1>2, <1>3, <1>4, Sizes
  <2>3. at.y + e.scroll = c.y /\ at.y + e.scroll \in 0 .. (Modulus - 1) BY <2>1, <1>2, <1>3
  <2>4. back(d) = console_set_cursor(e, at.x - 1, at.y) BY DEF e
  <2> HIDE DEF back
  <2> DEFINE k == at.x - 1
  <2>5. k \in 0 .. (Width - 1) /\ k = c.x - 1 /\ back(d) = console_set_cursor(e, k, at.y)
    BY <2>2, <2>4, <1>2
  <2> HIDE DEF k
  <2>6. LET z == console_set_cursor(e, k, at.y) IN
        /\ Current(z) /\ z.x = k /\ z.scroll = e.scroll
        /\ at.y + e.scroll \in 0 .. (Modulus - 1) => z.y = at.y + e.scroll
    BY <2>1, <2>2, <2>5, SetCursorKeeps
  <2> QED BY <2>1, <2>3, <2>5, <2>6
<1>5. CASE c.x > 0
  <2>1. c.x + 1 < Width BY <1>3, Sizes
  <2>2. Current(back(c)) /\ back(c).x = c.x - 1 /\ back(c).scroll = c.scroll
    BY <2>1, <1>4, <1>5
  <2> DEFINE f == back(c)
  <2>3. f.x + 1 < Width BY <2>2, <1>3, Sizes
  <2>4. Erase(c) = back(f) BY <1>1, <1>2, <1>5
  <2>5. Current(f) /\ f.scroll = c.scroll BY <2>2
  <2> HIDE DEF f, back
  <2>6. back(f).x = c.x - 1 /\ back(f).y = c.y BY <2>3, <2>5, <1>4, <1>5
  <2> QED BY <2>4, <2>6, <1>3, <1>5
<1>6. CASE c.x = 0 /\ c.y > c.scroll
  <2> DEFINE e == console_print_char(c)
  <2>1. c.x + 1 < Width BY <1>6, Sizes
  <2>2. Current(e) /\ e.scroll = c.scroll BY <2>1, PrintCharKeeps
  <2>3. Erase(c) = console_set_cursor(e, Width - 1, at.y - 1) BY <1>1, <1>2, <1>3, <1>6
  <2> HIDE DEF e
  <2> DEFINE k == Width - 1
             j == at.y - 1
  <2>4. k \in 0 .. (Width - 1) /\ j \in Int BY <1>2, Sizes
  <2>5. j + e.scroll = c.y - 1
    <3>1. j = c.y - c.scroll - 1 BY <1>2
    <3> QED BY <3>1, <2>2, <1>3
  <2>6. c.y - 1 \in 0 .. (Modulus - 1) BY <1>3, <1>6, Sizes
  <2>7. k = Width - 1 /\ Erase(c) = console_set_cursor(e, k, j) BY <2>3
  <2> HIDE DEF k, j
  <2>8. LET z == console_set_cursor(e, k, j) IN
        /\ z.x = k
        /\ j + e.scroll \in 0 .. (Modulus - 1) => z.y = j + e.scroll
    BY <2>2, <2>4, SetCursorKeeps
  <2> QED BY <2>5, <2>6, <2>7, <2>8, <1>3, <1>6
<1>7. CASE c.x = 0 /\ c.y = c.scroll BY <1>1, <1>2, <1>3, <1>7
<1> QED BY <1>3, <1>5, <1>6, <1>7

\* keyboard.c: backspace goes back one cell, over the border of a line too: on a console
\* of any size, although the key's code is printed first and two spaces are on the way.
THEOREM BackspaceStepsBack == Spec => BackspaceGoesBack
<1> DEFINE Goes == /\ did'.effect = "backspace" /\ con.x < Width - 1 /\ con.y >= con.scroll
                   => Position(con') = Position(con)
                          - (IF con.x = 0 /\ con.y = con.scroll THEN 0 ELSE 1)
<1>1. ConsoleInv /\ [Next]_vars => [Goes]_vars
  <2> SUFFICES ASSUME ConsoleInv, Next, did'.effect = "backspace",
                      con.x < Width - 1, con.y >= con.scroll
               PROVE  Position(con') = Position(con)
                          - (IF con.x = 0 /\ con.y = con.scroll THEN 0 ELSE 1)
    OBVIOUS
  <2>1. PressBackspace
    <3>1. ASSUME NEW codes, NEW effect, Read(codes, effect) PROVE effect = "backspace"
      BY <3>1 DEF Read
    <3>2. ~BeginRelease BY <3>1 DEF BeginRelease
    <3>3. ~BeginExtended BY <3>1 DEF BeginExtended
    <3>4. ~Release BY <3>1 DEF Release
    <3>5. ~PressShift BY <3>1 DEF PressShift, Press
    <3>6. ~PressUp BY <3>1 DEF PressUp, Press
    <3>7. ~PressDown BY <3>1 DEF PressDown, Press
    <3>8. ~PressNothing BY <3>1 DEF PressNothing, Press
    <3>9. ~PressLetter BY <3>1 DEF PressLetter, Press
    <3>10. ~PressEnter BY <3>1 DEF PressEnter, Press
    <3>11. ~PressCaps BY <3>1 DEF PressCaps
    <3>12. ~Poll BY DEF Poll
    <3>13. ~KernelPrint BY DEF KernelPrint, Idle
    <3>14. \A e \in Events : ~UserEvent(e) BY DEF UserEvent, Idle
    <3> QED BY <3>2, <3>3, <3>4, <3>5, <3>6, <3>7, <3>8, <3>9, <3>10, <3>11, <3>12, <3>13, <3>14
            DEF Next, Handle
  <2>2. con' = Erase(Shown) BY <2>1 DEF PressBackspace, Press
  <2>3. Current(con) BY DEF ConsoleInv
  <2>4. /\ con.x \in 0 .. (Width - 1) /\ con.y \in 0 .. (Modulus - 1)
        /\ con.scroll \in 0 .. (Height - 1)
    BY <2>3 DEF Current, ConsoleType
  <2>5. con.scroll <= con.y BY <2>4
  <2>6. Current(Shown) /\ Shown.x = con.x /\ Shown.y = con.y /\ Shown.scroll = con.scroll
    BY <2>3, <2>5, ShowKeeps DEF Shown
  <2>7. /\ con.x > 0 => con'.x = con.x - 1 /\ con'.y = con.y
        /\ con.x = 0 /\ con.y > con.scroll => con'.x = Width - 1 /\ con'.y = con.y - 1
        /\ con.x = 0 /\ con.y = con.scroll => con'.x = con.x /\ con'.y = con.y
    BY <2>2, <2>5, <2>6, ErasePosition
  <2>8. (con.y - 1) * Width + (Width - 1) = (con.y * Width + 0) - 1 BY <2>4, Sizes
  <2>9. con.y * Width \in Int BY <2>4, Sizes
  <2>10. CASE con.x > 0 BY <2>4, <2>7, <2>9, <2>10 DEF Position
  <2>11. CASE con.x = 0 /\ con.y > con.scroll BY <2>4, <2>7, <2>8, <2>9, <2>11 DEF Position
  <2>12. CASE con.x = 0 /\ con.y = con.scroll BY <2>4, <2>7, <2>9, <2>12 DEF Position
  <2> QED BY <2>4, <2>10, <2>11, <2>12
<1> QED BY <1>1, ConsoleInit, ConsoleStep, PTL DEF Spec, BackspaceGoesBack
=============================================================================
