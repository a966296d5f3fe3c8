------------------------------- MODULE Console -------------------------------
(***************************************************************************)
(* The console of systat (c/common/Console.cpp) and the terminal it draws  *)
(* on, as operators on one record c:                                       *)
(*                                                                         *)
(*   screen, at, visible   the terminal: the text of each row, the row of  *)
(*                         the cursor and whether the cursor is shown      *)
(*   height, hidden,       the fields of class Console that the program    *)
(*   aborting              reads back: height, cursor_hidden and aborting  *)
(*                                                                         *)
(* A row holds one value, the line last written to it.  Columns, colours   *)
(* and the write-only fields row, col and width are abstracted.  win is    *)
(* the height of the user's window, which Console::height may lag behind.  *)
(***************************************************************************)
EXTENDS Integers

CONSTANTS MaxRows      \* the tallest window

ASSUME MaxRowsAssumption == MaxRows \in Nat \ {0}

Rows == 1..MaxRows

Blank   == <<"blank", 0>>
Shell   == <<"shell", 0>>       \* what the shell left on the screen
Message == <<"message", 0>>     \* an error message

Titles == {"blank", "shell", "message", "platform", "processor", "memory",
           "disk", "virtual_memory", "network"}
Texts == Titles \X Nat

Consoles == [screen : [Rows -> Texts], at : Rows, visible : BOOLEAN,
             height : 0..MaxRows, hidden : BOOLEAN, aborting : BOOLEAN]

-----------------------------------------------------------------------------
(* The terminal: what the escape sequences do.                             *)

\* CSI row;1 H.  Rows count from 1; a 0 means 1; the window bounds the cursor.
CursorTo(c, row, win) ==
  [c EXCEPT !.at = IF row = 0 THEN 1 ELSE IF row > win THEN win ELSE row]

\* CSI 2 J leaves the cursor where it is.
Erase(c) == [c EXCEPT !.screen = [r \in Rows |-> Blank]]

\* Characters written on the row of the cursor.
Put(c, text) == [c EXCEPT !.screen[c.at] = text]

\* A newline on the last row of the window scrolls the screen by one row.
LineFeed(c, win) ==
  IF c.at < win
  THEN [c EXCEPT !.at = @ + 1]
  ELSE [c EXCEPT !.screen = [r \in Rows |->
                               IF r < win THEN c.screen[r + 1] ELSE Blank]]

\* The user changes the window: rows that no longer exist are lost.
Reshape(c, win) ==
  [c EXCEPT !.screen = [r \in Rows |-> IF r <= win THEN c.screen[r] ELSE Blank],
            !.at = IF @ > win THEN win ELSE @]

\* A message and a newline, as printf and perror write them.
Complain(c, win) == LineFeed(Put(c, Message), win)

-----------------------------------------------------------------------------
(* The methods of class Console.                                           *)

ShowCursor(c, on) == [c EXCEPT !.visible = on, !.hidden = ~on]

MoveTo(c, row, win) == CursorTo(c, row, win)

\* Console::clear erases the screen and homes the cursor.
Clear(c) == MoveTo(Erase(c), 0, 1)

\* CSI K from the first column, as blank_line and newline use it.
ClearEol(c) == Put(c, Blank)

\* set_mode(ATTR_OFF) shows the cursor again unless it was hidden on purpose.
ModeClear(c) == ShowCursor(c, ~c.hidden)

Reset(c) == ShowCursor(ModeClear(c), TRUE)

\* Mutant: the size is read the first time only.
ResizeOnce(c, win) == Clear([c EXCEPT !.height = IF @ = 0 THEN win ELSE @])

Resize(c, win) == Clear([c EXCEPT !.height = win])

\* Console::abort: despite its comment it returns to its caller.
Abort(c) ==
  Put(ShowCursor(Clear(Reset([c EXCEPT !.aborting = TRUE])), TRUE), Message)

\* Mutant: after an abort the destructor leaves the terminal alone.
DestroyUnlessAborting(c) ==
  IF c.aborting THEN c ELSE ShowCursor(Clear(Reset(c)), TRUE)

\* Console::~Console, run by exit() and by the return from main.
Destroy(c) ==
  ShowCursor(IF c.aborting THEN c ELSE Clear(Reset(c)), TRUE)
=============================================================================
