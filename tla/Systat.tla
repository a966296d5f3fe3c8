-------------------------------- MODULE Systat --------------------------------
(***************************************************************************)
(* The main program of systat (c/linux/main.cpp, and c/mac/main.cpp with   *)
(* the MacOS values of the constants): the static constructors in the      *)
(* order the Makefile links them, the once-a-second loop update / fit /    *)
(* render / clear / sleep, the SIGWINCH and SIGINT handlers, which may run *)
(* between any two writes to the terminal, and the exit paths.             *)
(*                                                                         *)
(* The screen is a list of sections.  Every section draws its lines from   *)
(* the row y it is given and returns the number of rows it claims; the     *)
(* next section starts at the sum of the claims so far.  A handler runs    *)
(* between two steps: the move to a section, the text of a line, its end   *)
(* (mode_clear and the newline), a blank line (moveTo and clear_eol), the  *)
(* comparison of the heights, each write of the clear, the assignment to   *)
(* last_height.  Each pass of render(true), which only moves the cursor,   *)
(* and reset, abort, resize and the destructor are one step.               *)
(***************************************************************************)
EXTENDS Console, Sequences

CONSTANTS
  WindowHeights,    \* heights the user's window may take
  CpuLines,         \* lines of processor.delta: "cpu" and one per core
  DiskLines,        \* lines of disk.delta
  MaxIfaces,        \* most interfaces with traffic at a time
  MemoryLines,      \* lines drawn by memory.print: 3 on Linux, 8 on MacOS
  DrawsPerFrame,    \* calls of render(false) per frame: 1 on Linux, 2 on MacOS
  Faults,           \* what may fail: a file of /proc cannot be opened,
                    \* /proc/net/dev has no header, the log cannot be opened
  MaxResizes        \* bound on the window changes of a behaviour

ASSUME SystatAssumption ==
  /\ WindowHeights \subseteq Rows
  /\ CpuLines \in Nat \ {0} /\ DiskLines \in Nat /\ MaxIfaces \in Nat
  /\ MemoryLines \in Nat \ {0, 1, 2} /\ DrawsPerFrame \in Nat \ {0}
  /\ Faults \subseteq {"open", "netdev", "log"}
  /\ MaxResizes \in Nat

Sections == <<"platform", "processor", "memory",
              "disk", "virtual_memory", "network">>

VARIABLES
  win, winch,       \* the user's window; SIGWINCH is pending
  con,              \* the console and the terminal (module Console)
  alive, condensed, lastHeight,       \* main.cpp
  cpuCondensed,     \* processor.condensed
  ifaces,           \* interfaces network.print shows after the last update
  pc, sec, line, y, draws,            \* where main is
  calm,             \* no window change and no SIGWINCH since the last update
  missed,           \* a window change that raised no signal is unrepaired
  resizes           \* window changes so far, at most MaxResizes

env == <<win, resizes>>
flags == <<alive, condensed, cpuCondensed, lastHeight>>
place == <<sec, line, y, draws>>
vars == <<win, winch, con, alive, condensed, lastHeight, cpuCondensed, ifaces,
          pc, sec, line, y, draws, calm, missed, resizes>>

-----------------------------------------------------------------------------
(* What the print methods draw, and what they return.                      *)

PlatformLines       == 2
ProcessorLines(few) == 1 + (IF few THEN 1 ELSE CpuLines)
DiskSection         == 1 + DiskLines
VirtualMemoryLines  == 4
NetworkLines        == 1 + ifaces

Lines(s, few) ==
  CASE s = "platform"       -> PlatformLines
    [] s = "processor"      -> ProcessorLines(few)
    [] s = "memory"         -> MemoryLines
    [] s = "disk"           -> DiskSection
    [] s = "virtual_memory" -> VirtualMemoryLines
    [] s = "network"        -> NetworkLines

\* Mutant: every section claims the lines it draws.
ClaimDrawn(s, few) == Lines(s, few)

Claim(s, few) ==
  CASE s = "platform" -> 3
    [] s = "memory"   -> 3
    [] OTHER          -> Lines(s, few)

\* Lines of a section that end with mode_clear: headings and the uptime.  The
\* fifth line of memory is the second heading of MacOS.
Styled(s) ==
  CASE s \in {"platform", "virtual_memory"} -> {1, 2}
    [] s = "memory" -> {1, 5}
    [] OTHER -> {1}

\* render(true) moves the cursor from section to section, down to the
\* network, and returns the rows the frame would claim.
NetworkRow(tight, few) ==
  Claim("platform", few) + Claim("processor", few) + Claim("memory", few)
  + Claim("disk", few) + Claim("virtual_memory", few)
  + (IF tight THEN 0 ELSE 5)

\* Mutant: render(true) forgets the last blank line.
FrameHeightNoTail(tight, few) == NetworkRow(tight, few) + Claim("network", few)

FrameHeight(tight, few) ==
  NetworkRow(tight, few) + Claim("network", few) + (IF tight THEN 0 ELSE 1)

-----------------------------------------------------------------------------
\* No SIGWINCH handler yet; no SIGINT handler yet.
Starting == pc \in {"statics", "construct", "install"}
Mortal   == Starting \/ pc \in {"log", "main"}
Stopped  == pc \in {"exited", "killed"}

Init ==
  /\ win \in WindowHeights
  /\ con = [screen |-> [r \in Rows |-> IF r <= win THEN Shell ELSE Blank],
            at |-> win, visible |-> TRUE,
            height |-> 0, hidden |-> FALSE, aborting |-> FALSE]
  /\ winch = FALSE
  /\ alive = TRUE /\ condensed = FALSE /\ cpuCondensed = FALSE
  /\ lastHeight = 0 /\ ifaces = 0
  /\ pc = "statics" /\ sec = 1 /\ line = 1 /\ y = 0 /\ draws = 0
  /\ calm = FALSE /\ missed = FALSE /\ resizes = 0

\* /proc is read, here by the constructors and there by update.
ReadProc ==
  /\ ifaces' \in 0..MaxIfaces
  /\ \/ con' = con
     \/ "netdev" \in Faults /\ con' = Abort(con)

\* The objects of c/linux are linked before those of c/common: platform to
\* network are constructed, and read /proc, before console is.
Statics ==
  /\ pc = "statics"
  /\ ReadProc
  /\ pc' = "construct"
  /\ UNCHANGED <<env, winch, flags, place, calm, missed>>

\* Console::Console: resize, reset and clear.
Construct ==
  /\ pc = "construct"
  /\ con' = Clear(Reset(Resize([con EXCEPT !.aborting = FALSE], win)))
  /\ pc' = "install"
  /\ missed' = FALSE
  /\ UNCHANGED <<env, winch, flags, ifaces, place, calm>>

\* The constructor ends by installing the SIGWINCH handler.
InstallWinch ==
  /\ pc = "install"
  /\ pc' = "log"
  /\ UNCHANGED <<env, winch, con, flags, ifaces, place, calm, missed>>

\* Log::Log; when the log cannot be opened it says so and calls exit(1).
OpenLog ==
  /\ pc = "log"
  /\ \/ pc' = "main" /\ UNCHANGED con
     \/ "log" \in Faults /\ pc' = "exit" /\ con' = Complain(con, win)
  /\ UNCHANGED <<env, winch, flags, ifaces, place, calm, missed>>

\* main installs the SIGINT handler and enters the loop.
EnterMain ==
  /\ pc = "main"
  /\ lastHeight' = 0
  /\ pc' = "while"
  /\ UNCHANGED <<env, winch, con, alive, condensed, cpuCondensed, ifaces,
                 place, calm, missed>>

\* Mutant: the loop does not look at alive.
RefreshAlways ==
  /\ pc = "while"
  /\ ReadProc
  /\ pc' = "hide"
  /\ calm' = TRUE
  /\ UNCHANGED <<env, winch, flags, place, missed>>

\* The update methods.
Refresh ==
  /\ pc = "while" /\ alive
  /\ ReadProc
  /\ pc' = "hide"
  /\ calm' = TRUE
  /\ UNCHANGED <<env, winch, flags, place, missed>>

\* Mutant: the cursor stays as Console::abort left it.
HideCursorUnlessAborting ==
  /\ pc = "hide"
  /\ con' = IF con.aborting THEN con ELSE ShowCursor(con, FALSE)
  /\ pc' = "fit"
  /\ UNCHANGED <<env, winch, flags, ifaces, place, calm, missed>>

HideCursor ==
  /\ pc = "hide"
  /\ con' = ShowCursor(con, FALSE)
  /\ pc' = "fit"
  /\ UNCHANGED <<env, winch, flags, ifaces, place, calm, missed>>

\* A Parser that cannot open its file prints a message and calls exit(1),
\* which destroys the console if it has been constructed.
OpenFails ==
  /\ "open" \in Faults
  /\ \/ pc = "statics" /\ pc' = "exited"
     \/ pc = "while" /\ alive /\ pc' = "exit"
  /\ con' = Complain(con, win)
  /\ UNCHANGED <<env, winch, flags, ifaces, place, calm, missed>>

LeaveLoop ==
  /\ pc = "while" /\ ~alive
  /\ pc' = "exit"
  /\ UNCHANGED <<env, winch, con, flags, ifaces, place, calm, missed>>

\* The destructor of console; the process ends.
Exit ==
  /\ pc = "exit"
  /\ con' = Destroy(con)
  /\ pc' = "exited"
  /\ UNCHANGED <<env, winch, flags, ifaces, place, calm, missed>>

StartFrame == pc' = "move" /\ sec' = 1 /\ line' = 1 /\ y' = 0 /\ draws' = 1

\* fit: everything, else one processor line, else no blank lines either.
Fit ==
  /\ pc = "fit"
  /\ condensed' = FALSE /\ cpuCondensed' = FALSE
  /\ con' = MoveTo(con, NetworkRow(FALSE, FALSE), win)
  /\ IF FrameHeight(FALSE, FALSE) <= con.height
     THEN StartFrame
     ELSE pc' = "fitCondensed" /\ UNCHANGED place
  /\ UNCHANGED <<env, winch, alive, lastHeight, ifaces, calm, missed>>

FitCondensed ==
  /\ pc = "fitCondensed"
  /\ cpuCondensed' = TRUE
  /\ con' = MoveTo(con, NetworkRow(condensed, TRUE), win)
  /\ condensed' = (FrameHeight(condensed, TRUE) > con.height)
  /\ StartFrame
  /\ UNCHANGED <<env, winch, alive, lastHeight, ifaces, calm, missed>>

-----------------------------------------------------------------------------
(* render(false)                                                           *)

MoveToSection ==
  /\ pc = "move"
  /\ con' = MoveTo(con, y, win)
  /\ line' = 1
  /\ pc' = "text"
  /\ UNCHANGED <<env, winch, flags, ifaces, sec, y, draws, calm, missed>>

\* The text of a line, before the newline that ends it.
DrawText ==
  /\ pc = "text"
  /\ con' = Put(con, <<Sections[sec], line>>)
  /\ pc' = "newline"
  /\ UNCHANGED <<env, winch, flags, ifaces, place, calm, missed>>

EndLine ==
  LET s == Sections[sec] IN
  /\ pc = "newline"
  /\ con' = LineFeed(IF line \in Styled(s) THEN ModeClear(con) ELSE con, win)
  /\ IF line < Lines(s, cpuCondensed)
     THEN line' = line + 1 /\ pc' = "text" /\ y' = y
     ELSE line' = line /\ pc' = "blank" /\ y' = y + Claim(s, cpuCondensed)
  /\ UNCHANGED <<env, winch, flags, ifaces, sec, draws, calm, missed>>

\* Mutant: main draws once more than it should.
BlankLineAgain ==
  /\ pc = "blank"
  /\ con' = IF condensed THEN con ELSE ClearEol(MoveTo(con, y, win))
  /\ LET total == IF condensed THEN y ELSE y + 1 IN
       \/ /\ sec < Len(Sections)
          /\ sec' = sec + 1 /\ y' = total /\ pc' = "move" /\ draws' = draws
       \/ /\ sec = Len(Sections) /\ draws <= DrawsPerFrame
          /\ sec' = 1 /\ y' = 0 /\ pc' = "move" /\ draws' = draws + 1
       \/ /\ sec = Len(Sections) /\ draws > DrawsPerFrame
          /\ sec' = sec /\ y' = total /\ pc' = "check" /\ draws' = draws
  /\ UNCHANGED <<env, winch, flags, ifaces, line, calm, missed>>

\* blank_line, and on to the next section.
BlankLine ==
  /\ pc = "blank"
  /\ con' = IF condensed THEN con ELSE ClearEol(MoveTo(con, y, win))
  /\ LET total == IF condensed THEN y ELSE y + 1 IN
       \/ /\ sec < Len(Sections)
          /\ sec' = sec + 1 /\ y' = total /\ pc' = "move" /\ draws' = draws
       \/ /\ sec = Len(Sections) /\ draws < DrawsPerFrame
          /\ sec' = 1 /\ y' = 0 /\ pc' = "move" /\ draws' = draws + 1
       \/ /\ sec = Len(Sections) /\ draws = DrawsPerFrame
          /\ sec' = sec /\ y' = total /\ pc' = "check" /\ draws' = draws
  /\ UNCHANGED <<env, winch, flags, ifaces, line, calm, missed>>

\* The frame is drawn: it goes when it is too tall or the height is new.
Check ==
  /\ pc = "check"
  /\ pc' = IF con.height # lastHeight \/ y > con.height THEN "erase" ELSE "sleep"
  /\ UNCHANGED <<env, winch, con, flags, ifaces, place, calm, missed>>

\* Console::clear, one write after the other.
EraseFrame ==
  /\ pc = "erase" /\ pc' = "home"
  /\ con' = Erase(con)
  /\ UNCHANGED <<env, winch, flags, ifaces, place, calm, missed>>

HomeCursor ==
  /\ pc = "home" /\ pc' = "remember"
  /\ con' = MoveTo(con, 0, win)
  /\ UNCHANGED <<env, winch, flags, ifaces, place, calm, missed>>

\* Mutant: the height of the last frame is not kept.
RememberNot ==
  /\ pc = "remember" /\ pc' = "sleep"
  /\ UNCHANGED <<env, winch, con, flags, ifaces, place, calm, missed>>

\* The height may be newer than the one the comparison saw.
Remember ==
  /\ pc = "remember" /\ pc' = "sleep"
  /\ lastHeight' = con.height
  /\ UNCHANGED <<env, winch, con, alive, condensed, cpuCondensed, ifaces, place,
                 calm, missed>>

\* sleep(1) lasts its second.
Wake ==
  /\ pc = "sleep"
  /\ pc' = "while"
  /\ UNCHANGED <<env, winch, con, flags, ifaces, place, calm, missed>>

-----------------------------------------------------------------------------
(* Signals and the user.                                                   *)

\* A handler that runs during sleep(1) ends it early.
Resume == IF pc = "sleep" THEN "while" ELSE pc

\* resize_handler: Console::resize reads the window and clears the screen.
HandleWinch ==
  /\ winch /\ ~Stopped
  /\ con' = Resize(con, win)
  /\ pc' = Resume
  /\ winch' = FALSE /\ calm' = FALSE /\ missed' = FALSE
  /\ UNCHANGED <<env, flags, ifaces, place>>

\* ^C: sigint_handler once main has installed it, death by default before.
Interrupt ==
  /\ alive /\ ~Stopped
  /\ IF Mortal
     THEN pc' = "killed" /\ alive' = alive
     ELSE pc' = Resume /\ alive' = FALSE
  /\ UNCHANGED <<env, winch, con, condensed, cpuCondensed, lastHeight, ifaces,
                 place, calm, missed>>

\* The window takes height h, or a new width at the same height.
UserResize(h) ==
  /\ resizes < MaxResizes /\ ~Stopped
  /\ win' = h
  /\ con' = Reshape(con, h)
  /\ winch' = ~Starting
  /\ missed' = (missed \/ Starting)
  /\ calm' = FALSE
  /\ resizes' = resizes + 1
  /\ UNCHANGED <<flags, ifaces, place, pc>>

-----------------------------------------------------------------------------
Render == MoveToSection \/ DrawText \/ EndLine \/ BlankLine
Repair == Check \/ EraseFrame \/ HomeCursor \/ Remember

Main ==
  \/ Statics \/ Construct \/ InstallWinch \/ OpenLog \/ EnterMain
  \/ Refresh \/ HideCursor \/ OpenFails \/ LeaveLoop \/ Exit
  \/ Fit \/ FitCondensed \/ Render \/ Repair \/ Wake

\* The process has ended; nothing happens any more.
Ended == Stopped /\ UNCHANGED vars

Next ==
  \/ Main \/ HandleWinch \/ Interrupt
  \/ \E h \in WindowHeights : UserResize(h)
  \/ Ended

\* The program is never stopped by the scheduler and a pending signal is
\* delivered; the user owes nobody a ^C or a resize.
Spec == Init /\ [][Next]_vars /\ WF_vars(Main) /\ WF_vars(HandleWinch)

-----------------------------------------------------------------------------
(* Properties                                                              *)

\* Every variable has its type.
TypeOK ==
  /\ win \in WindowHeights
  /\ con \in Consoles
  /\ winch \in BOOLEAN /\ alive \in BOOLEAN
  /\ condensed \in BOOLEAN /\ cpuCondensed \in BOOLEAN
  /\ lastHeight \in 0..MaxRows
  /\ ifaces \in 0..MaxIfaces
  /\ pc \in {"statics", "construct", "install", "log", "main",
             "while", "hide", "fit", "fitCondensed",
             "move", "text", "newline", "blank",
             "check", "erase", "home", "remember", "sleep",
             "exit", "exited", "killed"}
  /\ sec \in DOMAIN Sections /\ line \in Nat /\ y \in Nat
  /\ draws \in 0..DrawsPerFrame
  /\ calm \in BOOLEAN /\ missed \in BOOLEAN
  /\ resizes \in 0..MaxResizes

\* Whatever window changes, faults and ^C happened, the process leaves the
\* cursor shown: the destructor of console runs on the way out
\* (Console.cpp:79-87), and before the SIGINT handler is installed nothing
\* has hidden it.
TtySane == Stopped => con.visible

\* From show_cursor(false) to the end of the second the cursor is hidden,
\* although mode_clear, after every heading, shows it unless the field
\* cursor_hidden agrees with the terminal (Console.cpp:152-165).
Drawing == pc \in {"fit", "fitCondensed", "move", "text", "newline", "blank",
                   "check", "erase", "home", "remember", "sleep"}
CursorHidden == Drawing => con.hidden /\ ~con.visible

\* Once the console is constructed, its height is the window's unless a
\* SIGWINCH is on its way or one was lost while no handler was installed.
HeightKnown ==
  pc \in {"statics", "construct"} \/ Stopped \/ winch \/ missed
  \/ con.height = win

\* render(false) returns what render(true) promised for the same flags: fit
\* chose the frame by the height that the loop then compares (main.cpp:109).
RenderAgrees == pc = "check" => y = FrameHeight(condensed, cpuCondensed)

\* ^C ends the process: no sleep, frame or window change keeps it alive.
InterruptEnds == ~alive ~> pc = "exited"
=============================================================================
