---------------------------------- MODULE Pen ----------------------------------
(***************************************************************************)
(* The modes and colours of c/common/Console.cpp: what the terminal draws  *)
(* with, and the fields in which Console believes it.  A pen is a record   *)
(* of both, transformed by the methods of Console.  The cursor, which      *)
(* set_mode shows or hides as well, is in the module Console.              *)
(***************************************************************************)
Modes   == {"bold", "underscore", "blink", "inverse", "concealed"}
Colours == {"black", "red", "green", "yellow", "blue", "magenta", "cyan", "white"}
Unset   == "default"

Ink  == [modes : SUBSET Modes, bg : Colours \cup {Unset}, fg : Colours \cup {Unset}]
Pens == [tty : Ink, modes : SUBSET Modes,
         background : Colours \cup {Unset}, foreground : Colours \cup {Unset}]

Plain == [modes |-> {}, bg |-> Unset, fg |-> Unset]
Fresh == [tty |-> Plain, modes |-> {}, background |-> Unset, foreground |-> Unset]

\* Mutant: attribute 0 turns modes off and leaves colours on.
SetModeOffKeeps(p) == [p EXCEPT !.tty.modes = {}, !.modes = {}]

\* set_mode(ATTR_OFF, true): the terminal drops colours too, the fields of the
\* colours keep theirs.
SetModeOff(p) == [p EXCEPT !.tty = Plain, !.modes = {}]

\* set_mode of another attribute; a terminal takes no notice of CSI = n l.
SetMode(p, mode, on) ==
  IF on THEN [p EXCEPT !.tty.modes = @ \cup {mode}, !.modes = @ \cup {mode}]
        ELSE [p EXCEPT !.modes = @ \ {mode}]

\* set_color of the terminal, and the methods bg_black .. bg_white and
\* fg_black .. fg_white, which keep the colour in a field as well.
SetColour(p, ground, c) ==
  IF ground = "bg" THEN [p EXCEPT !.tty.bg = c] ELSE [p EXCEPT !.tty.fg = c]

Background(p, c) == [SetColour(p, "bg", c) EXCEPT !.background = c]
Foreground(p, c) == [SetColour(p, "fg", c) EXCEPT !.foreground = c]

\* reset, which forgets the colours too.
ResetPen(p) == [SetModeOff(p) EXCEPT !.background = Unset, !.foreground = Unset]
=============================================================================
