---------------------------- MODULE MCKeyboard ----------------------------
(***************************************************************************)
(* The keys the user presses: keys of each kind and their release, to check *)
(* how bytes become keys, or the keys that write and scroll, to check the  *)
(* console.                                                                *)
(***************************************************************************)
EXTENDS Keyboard

Key(k)      == [key |-> k, extended |-> FALSE, make |-> TRUE]
Extended(e) == [e EXCEPT !.extended = TRUE]
Up(e)       == [e EXCEPT !.make = FALSE]

ReleaseEvents == {Key(k) : k \in Keys \ {"space", "down", "backspace"}}
             \cup {Up(Key(k)) : k \in ShiftKeys}
             \cup {Extended(Key("up")), Up(Extended(Key("up")))}

WritingEvents == {Key("space"), Key("backspace"), Key("enter"), Key("caps"),
                  Extended(Key("up")), Extended(Key("down"))}
=============================================================================
