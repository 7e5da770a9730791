------------------------------ MODULE Console ------------------------------
(***************************************************************************)
(* The text console, console.c: a history of Height lines, of which the    *)
(* Visible lines from scroll on are copied to the video memory.  Each      *)
(* function is an operator from the console before the call to the console *)
(* after it.                                                               *)
(*                                                                         *)
(* What the cells contain is left out.  A console records instead which    *)
(* cells of the screen do not show their history (stale), and which kinds  *)
(* of access have gone outside an array (wild): "history" and "video" are  *)
(* writes, "read" is a read of the history.                                *)
(***************************************************************************)
EXTENDS Integers

CONSTANTS Width,     \* CONSOLE_BUFFER_WIDTH
          Height,    \* CONSOLE_BUFFER_HEIGHT
          Visible,   \* CONSOLE_VISIBLE_HEIGHT
          Modulus    \* 2^32: x and y are unsigned ints

ASSUME ConsoleAssumption == /\ Width \in Nat \ {0, 1}
                            /\ Visible \in Nat \ {0}
                            /\ Height \in Nat /\ Height > Visible
                            /\ Modulus \in Nat /\ Modulus > 2 * Height

Screen == (0 .. (Width - 1)) \X (0 .. (Visible - 1))

ConsoleType == [x : 0 .. (Width - 1), y : 0 .. (Modulus - 1), scroll : 0 .. (Height - 1),
                stale : SUBSET Screen, wild : SUBSET {"history", "video", "read"}]

\* After console_clear, the first thing kernel_main does.
Cleared == [x |-> 0, y |-> 0, scroll |-> 0, stale |-> {}, wild |-> {}]

\* The lines that are shown change: nothing on the screen is up to date.
ScrollTo(c, s) == [c EXCEPT !.scroll = s, !.stale = Screen]

console_update_screen(c) ==
    [c EXCEPT !.stale = {},
              !.wild = IF c.scroll + Visible > Height THEN @ \cup {"read"} ELSE @]

console_clear(c) == console_update_screen(ScrollTo([c EXCEPT !.x = 0, !.y = 0], 0))

\* Mistake: the line behind the last one of the history is used.
NewLineForever(c) ==
    LET z == [c EXCEPT !.x = 0, !.y = (@ + 1) % Modulus]
    IN  IF z.y >= z.scroll + Visible /\ z.scroll < Height - 1
        THEN console_update_screen(ScrollTo(z, z.scroll + 1)) ELSE z

\* The end of the history clears it; the screen follows by one line.
console_new_line(c) ==
    LET n == [c EXCEPT !.y = (@ + 1) % Modulus]
        z == [IF n.y >= Height THEN console_clear(n) ELSE n EXCEPT !.x = 0]
    IN  IF z.y >= z.scroll + Visible /\ z.scroll < Height - 1
        THEN console_update_screen(ScrollTo(z, z.scroll + 1)) ELSE z

\* console_print_char for n characters, none of them a new line, that end in the
\* line they begin in.  A line counts as shown up to Height lines, not Visible
\* lines, below scroll.
PrintInLine(c, n) ==
    LET shown == c.y >= c.scroll /\ c.y < c.scroll + Height
        cells == {<<i, c.y - c.scroll>> : i \in c.x .. (c.x + n - 1)}
        w == [c EXCEPT
                !.stale = IF shown THEN @ \ cells ELSE @ \cup (cells \cap Screen),
                !.wild = @ \cup (IF c.y >= Height THEN {"history"} ELSE {})
                           \cup (IF shown /\ ~(cells \subseteq Screen) THEN {"video"} ELSE {})]
    IN  IF c.x + n >= Width THEN console_new_line(w) ELSE [w EXCEPT !.x = @ + n]

console_print_char(c) == PrintInLine(c, 1)

\* console_print of a text of n characters, which is shorter than a line.
console_print(c, n) ==
    LET first == Width - c.x
    IN  IF n <= first THEN PrintInLine(c, n)
        ELSE PrintInLine(PrintInLine(c, first), n - first)

\* The cursor is given relative to the screen, modulo 2^32.
console_set_cursor(c, new_x, new_y) ==
    [c EXCEPT !.x = new_x, !.y = (new_y + c.scroll) % Modulus]
console_get_cursor(c) == [x |-> c.x, y |-> (c.y - c.scroll) % Modulus]

\* Mistake: the screen is not redrawn.
ScrollOnly(c, amount) ==
    ScrollTo(c, IF c.scroll + amount < 0 THEN 0
                ELSE IF c.scroll + amount >= Height THEN Height - 1 ELSE c.scroll + amount)

console_scroll(c, amount) ==
    console_update_screen(
        ScrollTo(c, IF c.scroll + amount < 0 THEN 0
                    ELSE IF c.scroll + amount >= Height THEN Height - 1 ELSE c.scroll + amount))
=============================================================================
