-------------------------------- MODULE Heading --------------------------------
(***************************************************************************)
(* The colours of a frame and the heading of platform.print, step by step, *)
(* with SIGWINCH between any two of them: what Systat, which follows rows, *)
(* leaves out.  One section stands for the five below the heading.  The    *)
(* window has a width and a height; a SIGWINCH handler erases with the     *)
(* background the pen has at that moment, and tint says that rows nobody   *)
(* draws on have a colour left.                                            *)
(***************************************************************************)
EXTENDS Pen, Integers, Sequences

CONSTANTS
  Title,      \* columns of "systat/1 [host/Linux 4.9]"
  Clock,      \* columns of the time of day
  Widths,     \* widths the window may take; 0 when there is no terminal
  Heights,    \* heights the window may take
  MaxJunk     \* a bound: bytes of old stack read as text

ASSUME HeadingAssumption ==
  /\ Title \in Nat /\ Clock \in Nat /\ MaxJunk \in Nat
  /\ Widths \subseteq Nat /\ Heights \subseteq Nat

VARIABLES
  system,         \* "linux" or "mac"
  console,        \* width and height as Console knows them
  pen,            \* see Pen
  tint,           \* rows below the frame have a background
  pc,             \* "update", "size", "title", "fill", "draw", "check",
                  \* "sleep", "end", or "overrun": written behind out
  at,             \* the next call of Frame
  out,            \* the buffer: width it was sized with, columns written
  junk,           \* bytes of old stack in the text
  draws,          \* frames still to draw before the check
  alive,          \* FALSE after ^C
  last_height,    \* of main
  calm,           \* no window change since out was sized
  before,         \* last_height when main went to its check
  tinted_at       \* height of the window at the last tint

vars == <<system, console, pen, tint, pc, at, out, junk, draws, alive,
          last_height, calm, before, tinted_at>>
ghosts == <<calm, before, tinted_at>>

Windows == [width : Widths, height : Heights]
None    == [width |-> 0, columns |-> 0]

-----------------------------------------------------------------------------
(* The time since boot                                                     *)

Days(s)    == s \div 86400
Hours(s)   == (s % 86400) \div 3600
Minutes(s) == ((s % 86400) - Hours(s) * 3600) \div 60

-----------------------------------------------------------------------------
(* The calls of a frame                                                    *)

\* inverseln; then uptime and load average, their labels bold, and newline;
\* then inverseln and println of a section.
Frame ==
  <<"bg_white", "fg_black", "text", "clear_eol", "mode_clear", "newline",
    "bold", "text", "mode_clear", "text",
    "bold", "text", "mode_clear", "text", "clear_eol", "newline",
    "bg_white", "fg_black", "text", "clear_eol", "mode_clear", "newline",
    "text", "clear_eol", "newline">>

Draw(call, p) ==
  CASE call = "bg_white"   -> Background(p, "white")
    [] call = "fg_black"   -> Foreground(p, "black")
    [] call = "bold"       -> SetMode(p, "bold", TRUE)
    [] call = "mode_clear" -> SetModeOff(p)
    [] OTHER               -> p

-----------------------------------------------------------------------------
(* The main program                                                        *)

Init ==
  /\ system \in {"linux", "mac"}
  /\ console \in Windows
  /\ pen = Fresh /\ tint = FALSE
  /\ pc = "update" /\ at = 1 /\ out = None /\ junk = 0 /\ draws = 0
  /\ alive = TRUE /\ last_height = 0
  /\ calm = TRUE /\ before = 0 /\ tinted_at = 0

\* The counters are sampled; MacOS draws every frame twice.
Update ==
  /\ pc = "update"
  /\ IF alive THEN pc' = "size" ELSE pc' = "end"
  /\ draws' = IF system = "mac" THEN 2 ELSE 1
  /\ IF alive THEN UNCHANGED <<pen, tint>> ELSE pen' = ResetPen(pen) /\ tint' = FALSE
  /\ UNCHANGED <<system, console, at, out, junk, alive, last_height, ghosts>>

\* out[width + 1], in Linux straight from console.width.
Size ==
  /\ pc = "size"
  /\ out' = [width |-> IF system = "mac" /\ console.width = 0 THEN 80 ELSE console.width,
             columns |-> 0]
  /\ pc' = "title" /\ calm' = TRUE /\ junk' = 0
  /\ UNCHANGED <<system, console, pen, tint, at, draws, alive, last_height,
                 before, tinted_at>>

PrintTitle ==
  /\ pc = "title"
  /\ out' = [out EXCEPT !.columns = Title]
  /\ pc' = IF Title > out.width THEN "overrun" ELSE "fill"
  /\ UNCHANGED <<system, console, pen, tint, at, junk, draws, alive, last_height, ghosts>>

\* Mutants: no column is left free; MacOS reads console.width again.
FillAll(width)   == width - Title - Clock
FillAgain(width) == console.width - Title - Clock - 1

\* Spaces between title and clock; the type is size_t, below zero it is huge.
Spaces(width) ==
  (IF system = "mac" THEN width ELSE console.width) - Title - Clock - 1

\* The fill has covered the terminating 0, and strcat looks for another: what
\* the stack holds up to there becomes text.
Fill ==
  /\ pc = "fill"
  /\ LET n == Spaces(out.width) IN
     /\ junk' \in IF n > 0 THEN 0 .. MaxJunk ELSE {0}
     /\ out' = [out EXCEPT !.columns = @ + (IF n >= 0 THEN n ELSE 0) + junk' + Clock]
     /\ pc' = IF n >= 0 /\ out'.columns <= out.width THEN "draw" ELSE "overrun"
  /\ at' = 1
  /\ UNCHANGED <<system, console, pen, tint, draws, alive, last_height, ghosts>>

Call ==
  /\ pc = "draw" /\ at <= Len(Frame)
  /\ pen' = Draw(Frame[at], pen)
  /\ at' = at + 1
  /\ UNCHANGED <<system, console, tint, pc, out, junk, draws, alive, last_height, ghosts>>

\* Mutant: one frame too many.
EndFrameLate ==
  /\ pc = "draw" /\ at > Len(Frame)
  /\ draws' = draws - 1
  /\ pc' = IF draws = 0 THEN "check" ELSE "size"
  /\ at' = 1
  /\ UNCHANGED <<system, console, pen, tint, out, junk, alive, last_height, ghosts>>

EndFrame ==
  /\ pc = "draw" /\ at > Len(Frame)
  /\ draws' = draws - 1
  /\ pc' = IF draws' = 0 THEN "check" ELSE "size"
  /\ at' = 1
  /\ UNCHANGED <<system, console, pen, tint, out, junk, alive, last_height, ghosts>>

\* Mutant: the frame is not cleared for a new height.
CheckNever ==
  /\ pc = "check"
  /\ last_height' = console.height /\ UNCHANGED tint
  /\ before' = last_height /\ pc' = "sleep"
  /\ UNCHANGED <<system, console, pen, at, out, junk, draws, alive, calm, tinted_at>>

\* Clear for a new height.  The test that the frame is too high for the window
\* clears as well; here every frame fits.
Check ==
  /\ pc = "check"
  /\ IF console.height # last_height
     THEN last_height' = console.height /\ tint' = (pen.tty.bg # Unset)
     ELSE UNCHANGED <<last_height, tint>>
  /\ before' = last_height /\ pc' = "sleep"
  /\ UNCHANGED <<system, console, pen, at, out, junk, draws, alive, calm, tinted_at>>

Wake ==
  /\ pc = "sleep" /\ pc' = "update"
  /\ UNCHANGED <<system, console, pen, tint, at, out, junk, draws, alive,
                 last_height, ghosts>>

-----------------------------------------------------------------------------
(* Signals                                                                 *)

Running == pc \notin {"end", "overrun"}

\* The window changes and the handler runs: resize, and its clear.
Winch(w) ==
  /\ Running /\ w # console
  /\ console' = w
  /\ tint' = (pen.tty.bg # Unset)
  /\ tinted_at' = IF tint' THEN w.height ELSE tinted_at
  /\ calm' = FALSE
  /\ pc' = IF pc = "sleep" THEN "update" ELSE pc
  /\ UNCHANGED <<system, pen, at, out, junk, draws, alive, last_height, before>>

Interrupt ==
  /\ Running /\ alive
  /\ alive' = FALSE
  /\ pc' = IF pc = "sleep" THEN "update" ELSE pc
  /\ UNCHANGED <<system, console, pen, tint, at, out, junk, draws, last_height, ghosts>>

Step == Update \/ Size \/ PrintTitle \/ Fill \/ Call \/ EndFrame \/ Check \/ Wake

Next == Step \/ Interrupt \/ \E w \in Windows : Winch(w)

Spec == Init /\ [][Next]_vars

-----------------------------------------------------------------------------
(* Properties                                                              *)

\* Every variable has its type.
TypeOK ==
  /\ system \in {"linux", "mac"}
  /\ console \in Windows /\ pen \in Pens /\ tint \in BOOLEAN
  /\ pc \in {"update", "size", "title", "fill", "draw", "check", "sleep", "end", "overrun"}
  /\ at \in 1 .. Len(Frame) + 1
  /\ out \in [width : Nat, columns : Nat] /\ junk \in 0 .. MaxJunk
  /\ draws \in 0 .. 2 /\ alive \in BOOLEAN
  /\ last_height \in Heights \cup {0} /\ before \in Heights \cup {0}
  /\ tinted_at \in Heights \cup {0} /\ calm \in BOOLEAN

\* No colour and no mode outlives its line: the pen of the terminal is the
\* default one at every newline, in the sleep and at the end, whenever ^C and
\* SIGWINCH came (Console.cpp:358-370, Platform.cpp:71-82).
PenIsPlain ==
  pc # "draw" \/ at > Len(Frame) \/ Frame[at] = "newline" => pen.tty = Plain

\* The heading leaves the last column of the window free, unless the window
\* changed since out was sized or old stack got into the text.
HeadingInRow ==
  pc = "draw" /\ calm /\ junk = 0 => out.columns + 1 = out.width

\* What goes wrong in the heading has one of three causes: a window narrower
\* than the heading, old stack behind the fill, and, on Linux alone, a window
\* change between the two reads of console.width (linux/Platform.cpp:59,62;
\* MacOS reads it in one expression, mac/Platform.cpp:96).
OverrunHasCause ==
  pc = "overrun" =>
    \/ out.width < Title + Clock + 1
    \/ junk > 0
    \/ system = "linux" /\ ~calm

\* A handler in the middle of a heading erases the window in its colour.  That
\* outlives the frame only if the window kept its height: main clears for a
\* new height with a plain pen.
TintKeptHeight == pc = "sleep" /\ tint => tinted_at = before
=============================================================================
