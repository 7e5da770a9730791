----------------------------- MODULE Keyboard -----------------------------
(***************************************************************************)
(* The PS/2 keyboard, keyboard.c, and the console its interrupt handler    *)
(* writes to.  The keyboard sends one to three bytes for a key: E0 before  *)
(* the code of an extended key, F0 before the code of a key released.  The *)
(* handler reads one byte at each interrupt and keeps what it has seen in  *)
(* statics; for caps lock it also sends commands and polls for their       *)
(* acknowledgement, which arrives behind the bytes sent before it.         *)
(*                                                                         *)
(* Kernel code prints between interrupts.  A call of the console is one    *)
(* step; so is an interrupt, except where it polls.  Each byte in the      *)
(* queue carries the key event it belongs to, for the properties only.     *)
(***************************************************************************)
EXTENDS Console, Sequences

CONSTANTS Events,       \* what the user does: the keys, pressed or released
          QueueLength,  \* bound: bytes on the way
          Column,       \* 70: where the handler shows the key and the caps lock
          TextLength    \* 8: the length of what it shows there, and of the longer
                        \* entries of the tables of scan codes

\* The kinds of key that the tables of scan codes and the handler tell apart.
ShiftKeys == {"shift", "right shift"}
Keys == ShiftKeys \cup {"letter", "space", "up", "down", "caps", "enter", "backspace"}
EventType == [key : Keys, extended : BOOLEAN, make : BOOLEAN]

ASSUME KeyboardAssumption == /\ Events \subseteq EventType
                             /\ QueueLength \in Nat
                             /\ Column \in Nat /\ TextLength \in Nat
                             /\ Column + TextLength < Width

VARIABLES con,                                     \* the console
          releasing, shift, caps_lock, extended,   \* the statics of keyboard.c
          queue,     \* bytes from the keyboard that have not been read
          polled,    \* a byte that was polled, if its interrupt is still pending
          pc,        \* "idle", or the acknowledgement the handler polls for
          pressed,   \* history: the shift keys held down
          both,      \* history: both shift keys were down, and one still is
          did,       \* history: what the handler did in this step, for which event
          mixed,     \* history: something else was read as an acknowledgement
          scrolled   \* history: the user has scrolled

flags == <<releasing, shift, caps_lock, extended>>
user  == <<pressed, both>>
vars  == <<con, flags, queue, polled, pc, user, did, mixed, scrolled>>

Byte(code, e, last) == [code |-> code, event |-> e, last |-> last]
NoEvent == [key |-> "none", extended |-> FALSE, make |-> FALSE]
Ack     == Byte("FA", NoEvent, FALSE)
Idle    == [effect |-> "idle", event |-> NoEvent]

\* What the keyboard sends for an event.
BytesOf(e) == (IF e.extended THEN <<Byte("E0", e, FALSE)>> ELSE <<>>)
           \o (IF e.make THEN <<>> ELSE <<Byte("F0", e, FALSE)>>)
           \o <<Byte(e.key, e, TRUE)>>

Init == /\ con = Cleared
        /\ releasing = 0 /\ shift = 0 /\ caps_lock = 0 /\ extended = 0
        /\ queue = <<>> /\ polled = <<>>
        /\ pc = "idle"
        /\ pressed = {} /\ both = FALSE
        /\ did = Idle
        /\ mixed = FALSE
        /\ scrolled = FALSE

\* The user presses a key, holds it down, or releases it.
UserEvent(e) ==
    /\ ~e.make /\ e.key \in ShiftKeys => e.key \in pressed
    /\ Len(queue) + Len(BytesOf(e)) <= QueueLength
    /\ queue' = queue \o BytesOf(e)
    /\ pressed' = IF e.make THEN pressed \cup ({e.key} \cap ShiftKeys) ELSE pressed \ {e.key}
    /\ both' = (pressed' # {} /\ (both \/ ShiftKeys = pressed'))
    /\ did' = Idle
    /\ UNCHANGED <<con, flags, polled, pc, mixed, scrolled>>

\* Kernel code prints a character, or a new line.
KernelPrint == /\ pc = "idle"
               /\ con' \in {console_print_char(con), console_new_line(con)}
               /\ did' = Idle
               /\ UNCHANGED <<flags, queue, polled, pc, user, mixed, scrolled>>
-----------------------------------------------------------------------------
\* An interrupt: the handler reads a byte with one of the codes, does what effect
\* says and, but for caps lock, returns.  When the byte whose interrupt it serves
\* was polled and no other has come, port 0x60 still holds that byte.
Input == IF queue # <<>> THEN queue ELSE polled
Rest  == IF queue # <<>> THEN Tail(queue) ELSE <<>>
Read(codes, effect) ==
    /\ pc = "idle"
    /\ Input # <<>>
    /\ Head(Input).code \in codes
    /\ did' = [effect |-> effect,
               event |-> IF Head(Input).last THEN Head(Input).event ELSE NoEvent]
    /\ polled' = <<>>
    /\ UNCHANGED <<user, mixed>>
Done == pc' = "idle" /\ queue' = Rest

KeyCodes == Keys \cup {"FA"}

BeginRelease == /\ Read({"F0"}, "prefix") /\ Done
                /\ releasing' = 1
                /\ UNCHANGED <<con, shift, caps_lock, extended, scrolled>>

BeginExtended == /\ Read({"E0"}, "prefix") /\ Done
                 /\ extended' = 1
                 /\ UNCHANGED <<con, releasing, shift, caps_lock, scrolled>>

\* Mistake: the flag is not reset.
ReleaseForever ==
    /\ releasing = 1
    /\ Read(KeyCodes, "none") /\ Done
    /\ shift' = IF Head(Input).code \in ShiftKeys THEN 0 ELSE shift
    /\ extended' = 0
    /\ UNCHANGED <<con, releasing, caps_lock, scrolled>>

\* Mistake: the release of a key with a prefix leaves the prefix behind.
ReleaseKeepsPrefix ==
    /\ releasing = 1
    /\ Read(KeyCodes, "none") /\ Done
    /\ releasing' = 0
    /\ shift' = IF Head(Input).code \in ShiftKeys THEN 0 ELSE shift
    /\ UNCHANGED <<con, extended, caps_lock, scrolled>>

Release ==
    /\ releasing = 1
    /\ Read(KeyCodes, "none") /\ Done
    /\ releasing' = 0
    /\ shift' = IF Head(Input).code \in ShiftKeys THEN 0 ELSE shift
    /\ extended' = 0
    /\ UNCHANGED <<con, caps_lock, scrolled>>

\* The code of the key, or the state of caps lock, at the right of the screen;
\* then the cursor goes back.
Show(c, row) ==
    LET at == console_get_cursor(c)
    IN  console_set_cursor(console_print(console_set_cursor(c, Column, row), TextLength),
                           at.x, at.y)

\* A key is pressed: its code is shown, and then the console becomes c.
Shown == Show(con, 0)
Press(codes, effect, c) ==
    /\ releasing = 0
    /\ Read(codes, effect) /\ Done
    /\ con' = c
    /\ extended' = 0
    /\ UNCHANGED <<releasing, caps_lock>>

\* The length of a key's entry in scancodes_shift or scancodes_normal: the space
\* is " " in the one and "Shift+Space" in the other.
EntryLength(key) == IF key = "space" /\ (shift = 1 \/ caps_lock = 1) THEN TextLength ELSE 1
Type(c, key) == console_print(c, EntryLength(key))

\* Mistake: the cursor is not set again behind the second space.
EraseOne(c) ==
    LET at == console_get_cursor(c)
    IN  IF at.x > 0
        THEN console_print_char(console_set_cursor(console_print_char(c), at.x - 1, at.y))
        ELSE IF at.y > 0
        THEN console_set_cursor(console_print_char(c), Width - 1, at.y - 1)
        ELSE c

\* Backspace; above the screen at.y is a very large number.
Erase(c) ==
    LET at == console_get_cursor(c)
        back(d) == console_set_cursor(console_print_char(d), at.x - 1, at.y)
    IN  IF at.x > 0 THEN back(back(c))
        ELSE IF at.y > 0
        THEN console_set_cursor(console_print_char(c), Width - 1, at.y - 1)
        ELSE c

NewLine(c)  == console_new_line(console_print_char(c))
ClearAll(c) == console_set_cursor(console_clear(console_print_char(c)), 0, 0)

PressShift == /\ Press(ShiftKeys, "shift", Shown)
              /\ shift' = 1
              /\ UNCHANGED scrolled

PressUp   == /\ extended = 1
             /\ Press({"up"}, "up", console_scroll(Shown, -1))
             /\ scrolled' = TRUE
             /\ UNCHANGED shift
PressDown == /\ extended = 1
             /\ Press({"down"}, "down", console_scroll(Shown, 1))
             /\ scrolled' = TRUE
             /\ UNCHANGED shift

\* These have no entry in the tables of scan codes: the arrows of the number
\* pad, and an acknowledgement.
PressNothing == /\ \/ extended = 0 /\ Press({"up", "down"}, "none", Shown)
                   \/ Press({"FA"}, "none", Shown)
                /\ UNCHANGED <<shift, scrolled>>

PressLetter    == /\ \E key \in {"letter", "space"} : Press({key}, "type", Type(Shown, key))
                  /\ UNCHANGED <<shift, scrolled>>
PressBackspace == Press({"backspace"}, "backspace", Erase(Shown)) /\ UNCHANGED <<shift, scrolled>>
PressEnter     == /\ \/ shift = 0 /\ Press({"enter"}, "new line", NewLine(Shown))
                     \/ shift = 1 /\ Press({"enter"}, "clear", ClearAll(Shown))
                  /\ UNCHANGED <<shift, scrolled>>

\* A byte sent to the keyboard is acknowledged behind all that is on the way.
keyboard_write_data(q) == Append(q, Ack)

\* Polls for a byte and takes it, whatever it is.  Its interrupt is pending until
\* the handler has returned.
keyboard_read_data == /\ queue # <<>>
                      /\ mixed' = (mixed \/ Head(queue).code # "FA")
                      /\ polled' = <<Head(queue)>>

\* Caps lock: send the command ED.
PressCaps == /\ releasing = 0
             /\ Read({"caps"}, "caps")
             /\ con' = Shown
             /\ caps_lock' = 1 - caps_lock
             /\ queue' = keyboard_write_data(Rest)
             /\ pc' = "command"
             /\ UNCHANGED <<releasing, shift, extended, scrolled>>

\* Mistake: the second byte is not sent, its acknowledgement is waited for.
PollOnce ==
    /\ pc \in {"command", "data"}
    /\ keyboard_read_data
    /\ pc' = IF pc = "command" THEN "data" ELSE "idle"
    /\ queue' = Tail(queue)
    /\ con' = IF pc = "data" THEN Show(con, 1) ELSE con
    /\ extended' = IF pc = "data" THEN 0 ELSE extended
    /\ did' = [effect |-> "caps", event |-> NoEvent]
    /\ UNCHANGED <<releasing, shift, caps_lock, user, scrolled>>

\* The two acknowledgements of caps lock.  After the first, the state of the
\* lights is sent; after the second, the handler shows the state and returns.
Poll ==
    /\ pc \in {"command", "data"}
    /\ keyboard_read_data
    /\ IF pc = "command"
       THEN /\ pc' = "data"
            /\ queue' = keyboard_write_data(Tail(queue))
            /\ UNCHANGED <<con, extended>>
       ELSE /\ pc' = "idle"
            /\ queue' = Tail(queue)
            /\ con' = Show(con, 1)
            /\ extended' = 0
    /\ did' = [effect |-> "caps", event |-> NoEvent]
    /\ UNCHANGED <<releasing, shift, caps_lock, user, scrolled>>

Handle == \/ BeginRelease \/ BeginExtended \/ Release
          \/ PressShift \/ PressUp \/ PressDown \/ PressNothing \/ PressLetter
          \/ PressBackspace \/ PressEnter \/ PressCaps \/ Poll

Next == (\E e \in Events : UserEvent(e)) \/ KernelPrint \/ Handle

Spec == Init /\ [][Next]_vars

\* The handler goes on polling.
FairSpec == Spec /\ WF_vars(Poll)
-----------------------------------------------------------------------------
TypeOK == /\ con \in ConsoleType
          /\ \A f \in {releasing, shift, caps_lock, extended} : f \in {0, 1}
          /\ \A i \in DOMAIN queue : queue[i].code \in KeyCodes \cup {"F0", "E0"}
          /\ Len(queue) <= QueueLength + 1
          /\ pc \in {"idle", "command", "data"}
          /\ Len(polled) <= 1
          /\ pressed \subseteq ShiftKeys
          /\ both \in BOOLEAN /\ mixed \in BOOLEAN /\ scrolled \in BOOLEAN

\* console.c: between calls, every cell of the screen shows its history.
ScreenCurrent == con.stale = {}

\* console.c: as long as the user has not scrolled, nothing is written outside
\* the history and the screen, however the kernel's output, the keys and the
\* handler's own texts mix.
WritesInside == con.wild # {} => scrolled

\* What an event means.
Meaning(e) ==
    IF e = NoEvent THEN {"prefix", "none", "caps", "idle"}
    ELSE IF ~e.make THEN {"none"}
    ELSE CASE e.key \in {"up", "down"} -> IF e.extended THEN {e.key} ELSE {"none"}
           [] e.key \in {"letter", "space"} -> {"type"}
           [] e.key = "enter" -> {"new line", "clear"}
           [] e.key \in ShiftKeys -> {"shift"}
           [] OTHER -> {e.key}

\* keyboard.c: the handler does for each event what it means, although it sees
\* the event byte by byte: prefixes never reach the next key.
DecodedRight == mixed \/ did.effect \in Meaning(did.event)

\* keyboard.c: once all bytes are read, shift is set only while one of the shift
\* keys is down, and it is set all that time unless both were down at once: then
\* the release of the one resets the flag.
ShiftFollows == ~mixed /\ queue = <<>> =>
                    /\ shift = 1 => pressed # {}
                    /\ pressed # {} => shift = 1 \/ both

\* keyboard.c: backspace goes back one cell, over the border of a line too, when
\* the cursor is on the screen and not in the last column.
Position(c) == c.y * Width + c.x
BackspaceGoesBack ==
    [][/\ did'.effect = "backspace"
       /\ con.x < Width - 1
       /\ con.y >= con.scroll
       => Position(con') = Position(con)
              - (IF con.x = 0 /\ con.y = con.scroll THEN 0 ELSE 1)]_vars

\* keyboard.c: "Wait for ACK": what the handler reads then is the
\* acknowledgement.
AckIsAck == ~mixed

\* keyboard.c: the handler always returns from its polling loops.
HandlerReturns == pc # "idle" ~> pc = "idle"
=============================================================================
