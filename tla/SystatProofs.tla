----------------------------- MODULE SystatProofs -----------------------------
(***************************************************************************)
(* What holds of the main program for every window, number of processors,  *)
(* disks and interfaces, every fault and every number of window changes.   *)
(***************************************************************************)
EXTENDS SystatScreen, TLAPS

(* The operators of module Console keep the type of the console.           *)

LEMMA TerminalType ==
  ASSUME NEW c \in Consoles, NEW w \in Rows, NEW row \in Nat,
         NEW text \in Texts
  PROVE  /\ CursorTo(c, row, w) \in Consoles
         /\ Erase(c) \in Consoles
         /\ Put(c, text) \in Consoles
         /\ LineFeed(c, w) \in Consoles
         /\ Reshape(c, w) \in Consoles
<1>0. Blank \in Texts
  BY DEF Blank, Texts, Titles
<1>1. CursorTo(c, row, w) \in Consoles
  <2>1. (IF row = 0 THEN 1 ELSE IF row > w THEN w ELSE row) \in Rows
    BY MaxRowsAssumption DEF Rows
  <2> QED BY <2>1 DEF CursorTo, Consoles
<1>2. Erase(c) \in Consoles
  BY <1>0 DEF Erase, Consoles
<1>3. Put(c, text) \in Consoles
  BY DEF Put, Consoles
<1>4. LineFeed(c, w) \in Consoles
  <2>1. CASE c.at < w
    <3>1. c.at + 1 \in Rows
      BY <2>1, MaxRowsAssumption DEF Consoles, Rows
    <3> QED BY <2>1, <3>1 DEF LineFeed, Consoles
  <2>2. CASE ~(c.at < w)
    <3>1. [r \in Rows |-> IF r < w THEN c.screen[r + 1] ELSE Blank]
            \in [Rows -> Texts]
      BY <1>0, MaxRowsAssumption DEF Consoles, Rows
    <3> QED BY <2>2, <3>1 DEF LineFeed, Consoles
  <2> QED BY <2>1, <2>2
<1>5. Reshape(c, w) \in Consoles
  BY <1>0, MaxRowsAssumption DEF Reshape, Consoles, Rows
<1> QED BY <1>1, <1>2, <1>3, <1>4, <1>5

LEMMA MethodType ==
  ASSUME NEW c \in Consoles, NEW w \in Rows, NEW on \in BOOLEAN
  PROVE  /\ ShowCursor(c, on) \in Consoles
         /\ Clear(c) \in Consoles
         /\ ClearEol(c) \in Consoles
         /\ ModeClear(c) \in Consoles
         /\ Reset(c) \in Consoles
         /\ Resize(c, w) \in Consoles
         /\ Abort(c) \in Consoles
         /\ Complain(c, w) \in Consoles
         /\ Destroy(c) \in Consoles
<1>0. 1 \in Rows /\ 0 \in Nat /\ Message \in Texts /\ Blank \in Texts
  BY MaxRowsAssumption DEF Rows, Message, Blank, Texts, Titles
<1>1. \A d \in Consoles, b \in BOOLEAN : ShowCursor(d, b) \in Consoles
  BY DEF ShowCursor, Consoles
<1>2. \A d \in Consoles : Clear(d) \in Consoles
  BY <1>0, TerminalType DEF Clear, MoveTo
<1>3. ClearEol(c) \in Consoles
  BY <1>0, TerminalType DEF ClearEol
<1>4. \A d \in Consoles : (~d.hidden) \in BOOLEAN
  <2> TAKE d \in Consoles
  <2> QED BY Zenon
<1>5. \A d \in Consoles : ModeClear(d) \in Consoles /\ Reset(d) \in Consoles
  BY <1>1, <1>4 DEF ModeClear, Reset
<1>6. Resize(c, w) \in Consoles
  <2>1. [c EXCEPT !.height = w] \in Consoles
    BY MaxRowsAssumption DEF Consoles, Rows
  <2> QED BY <1>2, <2>1 DEF Resize
<1>7. Abort(c) \in Consoles
  <2>1. [c EXCEPT !.aborting = TRUE] \in Consoles
    BY DEF Consoles
  <2> QED BY <1>0, <1>1, <1>2, <1>5, <2>1, TerminalType DEF Abort
<1>8. Complain(c, w) \in Consoles
  BY <1>0, TerminalType DEF Complain
<1>9. Destroy(c) \in Consoles
  BY <1>1, <1>2, <1>5 DEF Destroy
<1> QED BY <1>1, <1>2, <1>3, <1>5, <1>6, <1>7, <1>8, <1>9

(* The lines and claims of the sections are numbers of lines.              *)

LEMMA ClaimType ==
  ASSUME NEW s \in {"platform", "processor", "memory",
                    "disk", "virtual_memory", "network"},
         NEW few \in BOOLEAN, ifaces \in Nat
  PROVE  Lines(s, few) \in Nat /\ Claim(s, few) \in Nat
BY SystatAssumption DEF Lines, Claim, PlatformLines, ProcessorLines,
       DiskSection, VirtualMemoryLines, NetworkLines

LEMMA RowType ==
  ASSUME NEW tight \in BOOLEAN, NEW few \in BOOLEAN, ifaces \in Nat
  PROVE  /\ NetworkRow(tight, few) \in Nat
         /\ FrameHeight(tight, few) \in Nat
BY SystatAssumption DEF NetworkRow, FrameHeight, Lines, Claim, PlatformLines, ProcessorLines,
       DiskSection, VirtualMemoryLines, NetworkLines

LEMMA SectionsType ==
  /\ DOMAIN Sections = 1..6 /\ Len(Sections) = 6
  /\ \A i \in 1..6 : /\ Sections[i] \in {"platform", "processor", "memory",
                                        "disk", "virtual_memory", "network"}
                     /\ Sections[i] \in Titles
BY DEF Sections, Titles

-----------------------------------------------------------------------------
(* Type correctness                                                        *)

LEMMA InitType == Init => TypeOK
<1> SUFFICES ASSUME Init PROVE TypeOK
  OBVIOUS
<1>1. win \in WindowHeights /\ win \in Rows
  BY SystatAssumption DEF Init
<1>2. Shell \in Texts /\ Blank \in Texts
  BY DEF Shell, Blank, Texts, Titles
<1>3. con \in Consoles
  BY <1>1, <1>2, MaxRowsAssumption DEF Init, Consoles
<1>4. sec \in DOMAIN Sections
  BY SectionsType DEF Init
<1>5. /\ ifaces \in 0..MaxIfaces /\ lastHeight \in 0..MaxRows
      /\ line \in Nat /\ y \in Nat /\ draws \in 0..DrawsPerFrame
      /\ resizes \in 0..MaxResizes
  BY SystatAssumption, MaxRowsAssumption DEF Init
<1>6. /\ winch \in BOOLEAN /\ alive \in BOOLEAN /\ condensed \in BOOLEAN
      /\ cpuCondensed \in BOOLEAN /\ calm \in BOOLEAN /\ missed \in BOOLEAN
      /\ pc = "statics"
  BY DEF Init
<1>7. QED
  BY <1>1, <1>3, <1>4, <1>5, <1>6 DEF TypeOK

\* Every step keeps the type of the variables.
LEMMA NextType == TypeOK /\ [Next]_vars => TypeOK'
<1> SUFFICES ASSUME TypeOK, [Next]_vars PROVE TypeOK'
  OBVIOUS
<1>0. /\ con \in Consoles /\ win \in Rows /\ win \in WindowHeights
      /\ ifaces \in Nat /\ sec \in 1..6 /\ line \in Nat /\ y \in Nat
      /\ 1 \in Rows /\ draws \in 0..DrawsPerFrame
      /\ Message \in Texts
  BY SystatAssumption, MaxRowsAssumption, SectionsType
     DEF TypeOK, Rows, Message, Texts, Titles
<1>1. CASE Statics
  <2>1. con' \in Consoles
    BY <1>0, <1>1, MethodType DEF Statics, ReadProc
  <2> QED BY <1>1, <2>1 DEF Statics, ReadProc, TypeOK, env, flags, place
<1>2. CASE Construct
  <2>1. [con EXCEPT !.aborting = FALSE] \in Consoles
    BY <1>0 DEF Consoles
  <2>2. con' \in Consoles
    BY <1>0, <1>2, <2>1, MethodType DEF Construct
  <2> QED BY <1>2, <2>2 DEF Construct, TypeOK, env, flags, place
<1>3. CASE InstallWinch
  BY <1>3 DEF InstallWinch, TypeOK, env, flags, place
<1>4. CASE OpenLog
  <2>1. con' \in Consoles
    BY <1>0, <1>4, MethodType DEF OpenLog
  <2> QED BY <1>4, <2>1 DEF OpenLog, TypeOK, env, flags, place
<1>5. CASE EnterMain
  BY <1>5, MaxRowsAssumption DEF EnterMain, TypeOK, env, place
<1>6. CASE Refresh
  <2>1. con' \in Consoles
    BY <1>0, <1>6, MethodType DEF Refresh, ReadProc
  <2> QED BY <1>6, <2>1 DEF Refresh, ReadProc, TypeOK, env, flags, place
<1>7. CASE HideCursor
  <2>1. con' \in Consoles
    BY <1>0, <1>7, MethodType DEF HideCursor
  <2> QED BY <1>7, <2>1 DEF HideCursor, TypeOK, env, flags, place
<1>8. CASE OpenFails
  <2>1. con' \in Consoles
    BY <1>0, <1>8, MethodType DEF OpenFails
  <2> QED BY <1>8, <2>1 DEF OpenFails, TypeOK, env, flags, place
<1>9. CASE LeaveLoop
  BY <1>9 DEF LeaveLoop, TypeOK, env, flags, place
<1>10. CASE Exit
  <2>1. con' \in Consoles
    BY <1>0, <1>10, MethodType DEF Exit
  <2> QED BY <1>10, <2>1 DEF Exit, TypeOK, env, flags, place
<1>11. CASE Fit
  <2>1. NetworkRow(FALSE, FALSE) \in Nat
    BY <1>0, RowType
  <2>2. con' \in Consoles
    BY <1>0, <1>11, <2>1, TerminalType DEF Fit, MoveTo
  <2>3. /\ pc' \in {"move", "fitCondensed"} /\ sec' \in 1..6
        /\ line' \in Nat /\ y' \in Nat /\ draws' \in 0..DrawsPerFrame
    <3>1. CASE FrameHeight(FALSE, FALSE) <= con.height
      BY <1>11, <3>1, SystatAssumption DEF Fit, StartFrame
    <3>2. CASE ~(FrameHeight(FALSE, FALSE) <= con.height)
      BY <1>0, <1>11, <3>2 DEF Fit, place
    <3> QED BY <3>1, <3>2
  <2>4. condensed' \in BOOLEAN /\ cpuCondensed' \in BOOLEAN
    BY <1>11 DEF Fit
  <2> QED BY <1>11, <2>2, <2>3, <2>4, SectionsType DEF Fit, TypeOK, env
<1>12. CASE FitCondensed
  <2>1. NetworkRow(condensed, TRUE) \in Nat
    BY <1>0, RowType DEF TypeOK
  <2>2. con' \in Consoles
    BY <1>0, <1>12, <2>1, TerminalType DEF FitCondensed, MoveTo
  <2>3. /\ pc' = "move" /\ sec' \in 1..6
        /\ line' \in Nat /\ y' \in Nat /\ draws' \in 0..DrawsPerFrame
    BY <1>12, SystatAssumption DEF FitCondensed, StartFrame
  <2>4. condensed' \in BOOLEAN /\ cpuCondensed' \in BOOLEAN
    <3>1. FrameHeight(condensed, TRUE) \in Nat /\ con.height \in Nat
      <4>1. condensed \in BOOLEAN
        BY DEF TypeOK
      <4>2. con.height \in Nat
        BY <1>0, MaxRowsAssumption DEF Consoles
      <4> QED BY <1>0, <4>1, <4>2, RowType
    <3> QED BY <1>12, <3>1 DEF FitCondensed
  <2> QED BY <1>12, <2>2, <2>3, <2>4, SectionsType DEF FitCondensed, TypeOK, env
<1>13. CASE MoveToSection
  <2>1. con' \in Consoles
    BY <1>0, <1>13, TerminalType DEF MoveToSection, MoveTo
  <2> QED BY <1>13, <2>1 DEF MoveToSection, TypeOK, env, flags
<1>14. CASE DrawText
  <2>1. <<Sections[sec], line>> \in Texts
    BY <1>0, SectionsType DEF Texts
  <2>2. con' \in Consoles
    BY <1>0, <1>14, <2>1, TerminalType DEF DrawText
  <2> QED BY <1>14, <2>2 DEF DrawText, TypeOK, env, flags, place
<1>15. CASE EndLine
  <2>1. con' \in Consoles
    BY <1>0, <1>15, TerminalType, MethodType, Zenon DEF EndLine
  <2>2. Claim(Sections[sec], cpuCondensed) \in Nat
    BY <1>0, SectionsType, ClaimType DEF TypeOK
  <2>3. pc' \in {"text", "blank"} /\ line' \in Nat /\ y' \in Nat
    BY <1>0, <1>15, <2>2 DEF EndLine
  <2> QED BY <1>15, <2>1, <2>3 DEF EndLine, TypeOK, env, flags
<1>16. CASE BlankLine
  <2>1. con' \in Consoles
    BY <1>0, <1>16, TerminalType, MethodType DEF BlankLine, MoveTo
  <2>2. /\ pc' \in {"move", "check"} /\ sec' \in 1..6
        /\ y' \in Nat /\ draws' \in 0..DrawsPerFrame
    BY <1>0, <1>16, SectionsType, SystatAssumption DEF BlankLine
  <2> QED BY <1>16, <2>1, <2>2, SectionsType DEF BlankLine, TypeOK, env, flags
<1>17. CASE Repair
  <2>1. CASE Check
    <3>1. pc' \in {"erase", "sleep"}
      BY <2>1 DEF Check
    <3> QED BY <2>1, <3>1 DEF Check, TypeOK, env, flags, place
  <2>2. CASE EraseFrame
    <3>1. con' \in Consoles
      BY <1>0, <2>2, TerminalType DEF EraseFrame
    <3> QED BY <2>2, <3>1 DEF EraseFrame, TypeOK, env, flags, place
  <2>3. CASE HomeCursor
    <3>1. con' \in Consoles
      BY <1>0, <2>3, TerminalType DEF HomeCursor, MoveTo
    <3> QED BY <2>3, <3>1 DEF HomeCursor, TypeOK, env, flags, place
  <2>4. CASE Remember
    <3>1. lastHeight' \in 0..MaxRows
      BY <1>0, <2>4 DEF Remember, Consoles
    <3> QED BY <2>4, <3>1 DEF Remember, TypeOK, env, place
  <2> QED BY <1>17, <2>1, <2>2, <2>3, <2>4 DEF Repair
<1>18. CASE Wake
  BY <1>18 DEF Wake, TypeOK, env, flags, place
<1>19. CASE HandleWinch
  <2>1. con' \in Consoles
    BY <1>0, <1>19, MethodType DEF HandleWinch
  <2> QED BY <1>19, <2>1 DEF HandleWinch, Resume, TypeOK, env, flags, place
<1>20. CASE Interrupt
  <2>1. /\ win' = win /\ resizes' = resizes /\ winch' = winch /\ con' = con
        /\ condensed' = condensed /\ cpuCondensed' = cpuCondensed
        /\ lastHeight' = lastHeight /\ ifaces' = ifaces
        /\ sec' = sec /\ line' = line /\ y' = y /\ draws' = draws
        /\ calm' = calm /\ missed' = missed
    BY <1>20 DEF Interrupt, env, place
  <2>2. pc' \in {pc, "killed", "while"} /\ alive' \in {alive, FALSE}
    <3>1. CASE Mortal
      BY <1>20, <3>1 DEF Interrupt
    <3>2. CASE ~Mortal
      BY <1>20, <3>2 DEF Interrupt, Resume
    <3> QED BY <3>1, <3>2
  <2>3. alive' \in BOOLEAN
    BY <2>2, Zenon DEF TypeOK
  <2> QED BY <2>1, <2>2, <2>3 DEF TypeOK
<1>21. ASSUME NEW h \in WindowHeights, UserResize(h) PROVE TypeOK'
  <2>1. h \in Rows
    BY SystatAssumption
  <2>2. con' \in Consoles
    BY <1>0, <1>21, <2>1, TerminalType DEF UserResize
  <2>3. winch' \in BOOLEAN /\ missed' \in BOOLEAN
    BY <1>21, Zenon DEF UserResize, TypeOK
  <2>4. resizes' \in 0..MaxResizes
    BY <1>21, SystatAssumption DEF UserResize, TypeOK
  <2> QED BY <1>21, <2>2, <2>3, <2>4 DEF UserResize, TypeOK, flags, place
<1>22. CASE UNCHANGED vars
  BY <1>22 DEF TypeOK, vars
<1> QED
  BY <1>1, <1>2, <1>3, <1>4, <1>5, <1>6, <1>7, <1>8, <1>9, <1>10, <1>11, <1>12,
     <1>13, <1>14, <1>15, <1>16, <1>17, <1>18, <1>19, <1>20, <1>21, <1>22
     DEF Next, Main, Render, Ended

\* Every variable keeps its type, whatever the window, the files and the user
\* do; in particular the cursor never leaves the terminal.
THEOREM TypeCorrect == Spec => []TypeOK
BY InitType, NextType, PTL DEF Spec

-----------------------------------------------------------------------------
(* The height of the console                                               *)

LEMMA ConsoleHeight ==
  ASSUME NEW c \in Consoles, NEW w \in Rows
  PROVE  /\ Resize(c, w).height = w
         /\ \A b \in BOOLEAN : ShowCursor(c, b).height = c.height
         /\ Clear(c).height = c.height
         /\ ModeClear(c).height = c.height
         /\ Reset(c).height = c.height
         /\ Abort(c).height = c.height
         /\ LineFeed(c, w).height = c.height
         /\ Complain(c, w).height = c.height
         /\ \A row \in Nat : MoveTo(c, row, w).height = c.height
         /\ \A text \in Texts : Put(c, text).height = c.height
         /\ ClearEol(c).height = c.height
         /\ Reshape(c, w).height = c.height
BY DEF Resize, ShowCursor, Clear, ModeClear, Reset, Abort, LineFeed, Complain,
       MoveTo, Put, ClearEol, Reshape, Erase, CursorTo, Consoles

\* What the SIGWINCH handler reads is what the loop compares: no path but a
\* signal lost before the handler was installed leaves the height behind.
THEOREM HeightIsKnown == Spec => []HeightKnown
<1>1. Init => HeightKnown
  BY DEF Init, HeightKnown
<1>2. TypeOK /\ HeightKnown /\ [Next]_vars => HeightKnown'
  <2> SUFFICES ASSUME TypeOK, HeightKnown, [Next]_vars PROVE HeightKnown'
    OBVIOUS
  <2>0. con \in Consoles /\ win \in Rows /\ y \in Nat /\ sec \in 1..6
        /\ line \in Nat /\ ifaces \in Nat /\ Message \in Texts
    BY SystatAssumption, SectionsType DEF TypeOK, Message, Texts, Titles
  <2>1. CASE Statics
    BY <2>1 DEF Statics, HeightKnown
  <2>2. CASE Construct
    <3>1. [con EXCEPT !.aborting = FALSE] \in Consoles
      BY <2>0 DEF Consoles
    <3>2. Resize([con EXCEPT !.aborting = FALSE], win) \in Consoles
      BY <2>0, <3>1, MethodType
    <3>3. Reset(Resize([con EXCEPT !.aborting = FALSE], win)) \in Consoles
      BY <2>0, <3>2, MethodType
    <3>4. con'.height = win
      BY <2>0, <2>2, <3>1, <3>2, <3>3, ConsoleHeight DEF Construct
    <3> QED BY <2>2, <3>4 DEF Construct, HeightKnown, env
  <2>3. CASE InstallWinch
    BY <2>3 DEF InstallWinch, HeightKnown, Stopped, env
  <2>4. CASE OpenLog
    <3>1. con'.height = con.height
      BY <2>0, <2>4, ConsoleHeight DEF OpenLog
    <3> QED BY <2>4, <3>1 DEF OpenLog, HeightKnown, Stopped, env
  <2>5. CASE EnterMain
    BY <2>5 DEF EnterMain, HeightKnown, Stopped, env
  <2>6. CASE Refresh
    <3>1. con'.height = con.height
      BY <2>0, <2>6, ConsoleHeight DEF Refresh, ReadProc
    <3> QED BY <2>6, <3>1 DEF Refresh, HeightKnown, Stopped, env
  <2>7. CASE HideCursor
    <3>1. con'.height = con.height
      BY <2>0, <2>7, ConsoleHeight DEF HideCursor
    <3> QED BY <2>7, <3>1 DEF HideCursor, HeightKnown, Stopped, env
  <2>8. CASE OpenFails
    <3>1. con'.height = con.height
      BY <2>0, <2>8, ConsoleHeight DEF OpenFails
    <3> QED BY <2>8, <3>1 DEF OpenFails, HeightKnown, Stopped, env
  <2>9. CASE LeaveLoop
    BY <2>9 DEF LeaveLoop, HeightKnown, Stopped, env
  <2>10. CASE Exit
    BY <2>10 DEF Exit, HeightKnown, Stopped
  <2>11. CASE Fit
    <3>1. NetworkRow(FALSE, FALSE) \in Nat
      BY <2>0, RowType
    <3>2. con' = MoveTo(con, NetworkRow(FALSE, FALSE), win)
      BY <2>11 DEF Fit
    <3>3. \A row \in Nat : MoveTo(con, row, win).height = con.height
      BY <2>0, ConsoleHeight
    <3>4. con'.height = con.height
      BY <3>1, <3>2, <3>3
    <3> QED BY <2>11, <3>4 DEF Fit, StartFrame, HeightKnown, Stopped, env
  <2>12. CASE FitCondensed
    <3>1. NetworkRow(condensed, TRUE) \in Nat
      BY <2>0, RowType DEF TypeOK
    <3>2. con' = MoveTo(con, NetworkRow(condensed, TRUE), win)
      BY <2>12 DEF FitCondensed
    <3>3. \A row \in Nat : MoveTo(con, row, win).height = con.height
      BY <2>0, ConsoleHeight
    <3>4. con'.height = con.height
      BY <3>1, <3>2, <3>3
    <3> QED BY <2>12, <3>4 DEF FitCondensed, StartFrame, HeightKnown, Stopped, env
  <2>13. CASE MoveToSection
    <3>1. con'.height = con.height
      BY <2>0, <2>13, ConsoleHeight DEF MoveToSection
    <3> QED BY <2>13, <3>1 DEF MoveToSection, HeightKnown, Stopped, env
  <2>14. CASE DrawText
    <3>1. <<Sections[sec], line>> \in Texts
      BY <2>0, SectionsType DEF Texts
    <3>2. con'.height = con.height
      BY <2>0, <2>14, <3>1, ConsoleHeight DEF DrawText
    <3> QED BY <2>14, <3>2 DEF DrawText, HeightKnown, Stopped, env
  <2>15. CASE EndLine
    <3>1. ModeClear(con) \in Consoles
      BY <2>0, MethodType, TRUE \in BOOLEAN
    <3>2. con'.height = con.height
      BY <2>0, <2>15, <3>1, ConsoleHeight DEF EndLine
    <3> QED BY <2>15, <3>2 DEF EndLine, HeightKnown, Stopped, env
  <2>16. CASE BlankLine
    <3>1. MoveTo(con, y, win) \in Consoles
      BY <2>0, TerminalType, Message \in Texts DEF MoveTo
    <3>2. con'.height = con.height
      BY <2>0, <2>16, <3>1, ConsoleHeight DEF BlankLine
    <3> QED BY <2>16, <3>2 DEF BlankLine, HeightKnown, Stopped, env
  <2>17. CASE Repair
    <3>1. con'.height = con.height
      <4>1. Erase(con).height = con.height /\ MoveTo(con, 0, win).height = con.height
        BY <2>0, ConsoleHeight DEF Erase, Consoles
      <4> QED BY <2>17, <4>1 DEF Repair, Check, EraseFrame, HomeCursor, Remember
    <3>2. pc' \in {"erase", "home", "remember", "sleep"}
      BY <2>17 DEF Repair, Check, EraseFrame, HomeCursor, Remember
    <3>3. UNCHANGED <<win, winch, missed>>
      BY <2>17 DEF Repair, Check, EraseFrame, HomeCursor, Remember, env
    <3>4. pc \in {"check", "erase", "home", "remember"}
      BY <2>17 DEF Repair, Check, EraseFrame, HomeCursor, Remember
    <3> QED BY <3>1, <3>2, <3>3, <3>4 DEF HeightKnown, Stopped
  <2>18. CASE Wake
    BY <2>18 DEF Wake, HeightKnown, Stopped, env
  <2>19. CASE HandleWinch
    BY <2>0, <2>19, ConsoleHeight DEF HandleWinch, HeightKnown, env
  <2>20. CASE Interrupt
    BY <2>20 DEF Interrupt, Resume, HeightKnown, Stopped, env
  <2>21. ASSUME NEW h \in WindowHeights, UserResize(h) PROVE HeightKnown'
    BY <2>21 DEF UserResize, HeightKnown, Starting
  <2>22. CASE UNCHANGED vars
    BY <2>22 DEF HeightKnown, Stopped, vars
  <2> QED
    BY <2>1, <2>2, <2>3, <2>4, <2>5, <2>6, <2>7, <2>8, <2>9, <2>10, <2>11,
       <2>12, <2>13, <2>14, <2>15, <2>16, <2>17, <2>18, <2>19, <2>20, <2>21,
       <2>22 DEF Next, Main, Render, Ended
<1> QED BY <1>1, <1>2, TypeCorrect, PTL DEF Spec

-----------------------------------------------------------------------------
(* The cursor of the terminal                                              *)

LEMMA ConsoleCursor ==
  ASSUME NEW c \in Consoles, NEW w \in Rows
  PROVE  /\ \A on \in BOOLEAN : /\ ShowCursor(c, on).visible = on
                               /\ ShowCursor(c, on).hidden = ~on
         /\ Clear(c).visible = c.visible /\ Clear(c).hidden = c.hidden
         /\ c.hidden => ModeClear(c).hidden /\ ~ModeClear(c).visible
         /\ Reset(c).visible /\ Abort(c).visible /\ Destroy(c).visible
         /\ Resize(c, w).visible = c.visible /\ Resize(c, w).hidden = c.hidden
         /\ LineFeed(c, w).visible = c.visible
         /\ LineFeed(c, w).hidden = c.hidden
         /\ Complain(c, w).visible = c.visible
         /\ \A row \in Nat : /\ MoveTo(c, row, w).visible = c.visible
                            /\ MoveTo(c, row, w).hidden = c.hidden
         /\ \A text \in Texts : /\ Put(c, text).visible = c.visible
                               /\ Put(c, text).hidden = c.hidden
         /\ ClearEol(c).visible = c.visible /\ ClearEol(c).hidden = c.hidden
         /\ Reshape(c, w).visible = c.visible /\ Reshape(c, w).hidden = c.hidden
BY DEF Resize, ShowCursor, Clear, ModeClear, Reset, Abort, LineFeed, Complain,
       Destroy, MoveTo, Put, ClearEol, Reshape, Erase, CursorTo, Consoles

\* TtySane is not inductive: it needs that nothing has hidden the cursor while
\* ^C still kills the process, before main installs its handler.
CursorInv == TtySane /\ CursorHidden /\ (Mortal => con.visible)

LEMMA CursorStep == TypeOK /\ CursorInv /\ [Next]_vars => CursorInv'
<1> SUFFICES ASSUME TypeOK, CursorInv, [Next]_vars PROVE CursorInv'
  OBVIOUS
<1> USE DEF CursorInv, TtySane, CursorHidden, Mortal, Starting, Stopped, Drawing
<1>0. con \in Consoles /\ win \in Rows /\ y \in Nat /\ sec \in 1..6
      /\ line \in Nat /\ ifaces \in Nat /\ Message \in Texts
  BY SystatAssumption, SectionsType DEF TypeOK, Message, Texts, Titles
<1>1. CASE Statics
  BY <1>0, <1>1, ConsoleCursor DEF Statics, ReadProc
<1>2. CASE Construct
  <2>1. [con EXCEPT !.aborting = FALSE] \in Consoles
    BY <1>0 DEF Consoles
  <2>2. Resize([con EXCEPT !.aborting = FALSE], win) \in Consoles
    BY <1>0, <2>1, MethodType
  <2>3. Reset(Resize([con EXCEPT !.aborting = FALSE], win)) \in Consoles
    BY <1>0, <2>2, MethodType
  <2>4. con'.visible
    BY <1>0, <1>2, <2>2, <2>3, ConsoleCursor DEF Construct
  <2> QED BY <1>2, <2>4 DEF Construct
<1>3. CASE InstallWinch
  BY <1>3 DEF InstallWinch
<1>4. CASE OpenLog
  BY <1>0, <1>4, ConsoleCursor DEF OpenLog
<1>5. CASE EnterMain
  BY <1>5 DEF EnterMain
<1>6. CASE Refresh
  BY <1>6 DEF Refresh
<1>7. CASE HideCursor
  BY <1>0, <1>7, ConsoleCursor DEF HideCursor
<1>8. CASE OpenFails
  BY <1>0, <1>8, ConsoleCursor DEF OpenFails
<1>9. CASE LeaveLoop
  BY <1>9 DEF LeaveLoop
<1>10. CASE Exit
  BY <1>0, <1>10, ConsoleCursor DEF Exit
<1>11. CASE Fit
  <2>1. NetworkRow(FALSE, FALSE) \in Nat
    BY <1>0, RowType
  <2>2. con'.hidden = con.hidden /\ con'.visible = con.visible
    <3>1. con' = MoveTo(con, NetworkRow(FALSE, FALSE), win)
      BY <1>11 DEF Fit
    <3>2. /\ MoveTo(con, NetworkRow(FALSE, FALSE), win).hidden = con.hidden
          /\ MoveTo(con, NetworkRow(FALSE, FALSE), win).visible = con.visible
      BY <1>0, <2>1 DEF MoveTo, CursorTo, Consoles
    <3> QED BY <3>1, <3>2
  <2>3. pc' \in {"move", "fitCondensed"}
    BY <1>11 DEF Fit, StartFrame
  <2> QED BY <1>11, <2>2, <2>3 DEF Fit
<1>12. CASE FitCondensed
  <2>1. NetworkRow(condensed, TRUE) \in Nat
    BY <1>0, RowType DEF TypeOK
  <2>2. con'.hidden = con.hidden /\ con'.visible = con.visible
    <3>1. con' = MoveTo(con, NetworkRow(condensed, TRUE), win)
      BY <1>12 DEF FitCondensed
    <3>2. /\ MoveTo(con, NetworkRow(condensed, TRUE), win).hidden = con.hidden
          /\ MoveTo(con, NetworkRow(condensed, TRUE), win).visible = con.visible
      BY <1>0, <2>1 DEF MoveTo, CursorTo, Consoles
    <3> QED BY <3>1, <3>2
  <2> QED BY <1>12, <2>2 DEF FitCondensed, StartFrame
<1>13. CASE MoveToSection
  BY <1>0, <1>13, ConsoleCursor DEF MoveToSection
<1>14. CASE DrawText
  <2>1. <<Sections[sec], line>> \in Texts
    BY <1>0, SectionsType DEF Texts
  <2> QED BY <1>0, <1>14, <2>1, ConsoleCursor DEF DrawText
<1>15. CASE EndLine
  <2>1. ModeClear(con) \in Consoles
    BY <1>0, MethodType, TRUE \in BOOLEAN
  <2> QED BY <1>0, <1>15, <2>1, ConsoleCursor DEF EndLine
<1>16. CASE BlankLine
  <2>1. MoveTo(con, y, win) \in Consoles
    BY <1>0, TerminalType DEF MoveTo
  <2>2. con'.hidden = con.hidden /\ con'.visible = con.visible
    BY <1>0, <1>16, <2>1, ConsoleCursor DEF BlankLine
  <2> QED BY <1>16, <2>2 DEF BlankLine
<1>17. CASE Repair
  <2>1. con'.hidden = con.hidden /\ con'.visible = con.visible
    <3>1. /\ Erase(con).hidden = con.hidden /\ Erase(con).visible = con.visible
          /\ MoveTo(con, 0, win).hidden = con.hidden
          /\ MoveTo(con, 0, win).visible = con.visible
      BY <1>0, ConsoleCursor DEF Erase, Consoles
    <3> QED BY <1>17, <3>1 DEF Repair, Check, EraseFrame, HomeCursor, Remember
  <2>2. /\ pc \in {"check", "erase", "home", "remember"}
        /\ pc' \in {"erase", "home", "remember", "sleep"}
    BY <1>17 DEF Repair, Check, EraseFrame, HomeCursor, Remember
  <2> QED BY <2>1, <2>2
<1>18. CASE Wake
  BY <1>18 DEF Wake
<1>19. CASE HandleWinch
  BY <1>0, <1>19, ConsoleCursor DEF HandleWinch, Resume
<1>20. CASE Interrupt
  BY <1>20 DEF Interrupt, Resume
<1>21. ASSUME NEW h \in WindowHeights, UserResize(h) PROVE CursorInv'
  BY <1>0, <1>21, SystatAssumption, ConsoleCursor DEF UserResize
<1>22. CASE UNCHANGED vars
  BY <1>22 DEF vars
<1> QED
  BY <1>1, <1>2, <1>3, <1>4, <1>5, <1>6, <1>7, <1>8, <1>9, <1>10, <1>11, <1>12,
     <1>13, <1>14, <1>15, <1>16, <1>17, <1>18, <1>19, <1>20, <1>21, <1>22
     DEF Next, Main, Render, Ended

LEMMA CursorSafe == Spec => []CursorInv
<1>1. Init => CursorInv
  BY MaxRowsAssumption DEF Init, CursorInv, TtySane, CursorHidden, Mortal,
                           Starting, Stopped, Drawing
<1> QED BY <1>1, TypeCorrect, CursorStep, PTL DEF Spec

\* However the process ends, the terminal has its cursor back.
THEOREM TtyIsSane == Spec => []TtySane
BY CursorSafe, PTL DEF CursorInv

\* While a frame is drawn and looked at the cursor stays hidden.
THEOREM CursorIsHidden == Spec => []CursorHidden
BY CursorSafe, PTL DEF CursorInv

-----------------------------------------------------------------------------
(* The rows of a frame                                                     *)

\* A blank line when the frame is not condensed.
Gap(tight) == IF tight THEN 0 ELSE 1

ClaimOf(i, few) == Claim(Sections[i], few)

\* The row main has counted when section i of a frame starts.
RowOf(i, tight, few) ==
  CASE i = 1 -> 0
    [] i = 2 -> ClaimOf(1, few) + Gap(tight)
    [] i = 3 -> ClaimOf(1, few) + ClaimOf(2, few) + 2 * Gap(tight)
    [] i = 4 -> ClaimOf(1, few) + ClaimOf(2, few) + ClaimOf(3, few)
                + 3 * Gap(tight)
    [] i = 5 -> ClaimOf(1, few) + ClaimOf(2, few) + ClaimOf(3, few)
                + ClaimOf(4, few) + 4 * Gap(tight)
    [] i = 6 -> ClaimOf(1, few) + ClaimOf(2, few) + ClaimOf(3, few)
                + ClaimOf(4, few) + ClaimOf(5, few) + 5 * Gap(tight)

\* RenderAgrees holds because y is at every point of the frame the row that
\* the sections before it claim.
FrameInv ==
  /\ pc \in {"move", "text", "newline"} => y = RowOf(sec, condensed, cpuCondensed)
  /\ pc = "blank" =>
       y = RowOf(sec, condensed, cpuCondensed) + ClaimOf(sec, cpuCondensed)
  /\ RenderAgrees

LEMMA ClaimsOfFrame ==
  ASSUME NEW tight \in BOOLEAN, NEW few \in BOOLEAN, ifaces \in Nat
  PROVE  /\ \A i \in 1..6 : ClaimOf(i, few) \in Nat
         /\ Gap(tight) \in 0..1
         /\ FrameHeight(tight, few) =
              ClaimOf(1, few) + ClaimOf(2, few) + ClaimOf(3, few)
              + ClaimOf(4, few) + ClaimOf(5, few) + ClaimOf(6, few)
              + 6 * Gap(tight)
<1>1. \A i \in 1..6 : ClaimOf(i, few) \in Nat
  BY SectionsType, ClaimType DEF ClaimOf
<1>2. /\ ClaimOf(1, few) = Claim("platform", few)
      /\ ClaimOf(2, few) = Claim("processor", few)
      /\ ClaimOf(3, few) = Claim("memory", few)
      /\ ClaimOf(4, few) = Claim("disk", few)
      /\ ClaimOf(5, few) = Claim("virtual_memory", few)
      /\ ClaimOf(6, few) = Claim("network", few)
  BY DEF ClaimOf, Sections
<1> QED BY <1>1, <1>2 DEF Gap, FrameHeight, NetworkRow

LEMMA RowsOfFrame ==
  ASSUME NEW tight \in BOOLEAN, NEW few \in BOOLEAN, ifaces \in Nat
  PROVE  /\ RowOf(1, tight, few) = 0
         /\ \A i \in 1..6 : RowOf(i, tight, few) \in Nat
         /\ \A i \in 1..5 : RowOf(i + 1, tight, few) =
              RowOf(i, tight, few) + ClaimOf(i, few) + Gap(tight)
         /\ FrameHeight(tight, few) =
              RowOf(6, tight, few) + ClaimOf(6, few) + Gap(tight)
<1> USE ClaimsOfFrame
<1>1. RowOf(1, tight, few) = 0
  BY DEF RowOf
<1>2. \A i \in 1..6 : RowOf(i, tight, few) \in Nat
  <2> SUFFICES ASSUME NEW i \in 1..6 PROVE RowOf(i, tight, few) \in Nat
    OBVIOUS
  <2>1. CASE i \in {1, 2, 3}
    BY <2>1 DEF RowOf
  <2>2. CASE i \in {4, 5, 6}
    BY <2>2 DEF RowOf
  <2> QED BY <2>1, <2>2
<1>3. \A i \in 1..5 : RowOf(i + 1, tight, few) =
        RowOf(i, tight, few) + ClaimOf(i, few) + Gap(tight)
  <2> SUFFICES ASSUME NEW i \in 1..5
               PROVE  RowOf(i + 1, tight, few) =
                        RowOf(i, tight, few) + ClaimOf(i, few) + Gap(tight)
    OBVIOUS
  <2>1. CASE i = 1
    BY <2>1 DEF RowOf
  <2>2. CASE i = 2
    BY <2>2 DEF RowOf
  <2>3. CASE i = 3
    BY <2>3 DEF RowOf
  <2>4. CASE i = 4
    BY <2>4 DEF RowOf
  <2>5. CASE i = 5
    BY <2>5 DEF RowOf
  <2> QED BY <2>1, <2>2, <2>3, <2>4, <2>5
<1>4. FrameHeight(tight, few) =
        RowOf(6, tight, few) + ClaimOf(6, few) + Gap(tight)
  BY DEF RowOf
<1> QED BY <1>1, <1>2, <1>3, <1>4

\* The rows depend on the flags of fit and on the interfaces alone.
LEMMA RowsKept ==
  ASSUME UNCHANGED <<condensed, cpuCondensed, ifaces>>
  PROVE  /\ \A i \in 1..6 :
              /\ ClaimOf(i, cpuCondensed)' = ClaimOf(i, cpuCondensed)
              /\ RowOf(i, condensed, cpuCondensed)'
                   = RowOf(i, condensed, cpuCondensed)
         /\ FrameHeight(condensed, cpuCondensed)'
              = FrameHeight(condensed, cpuCondensed)
<1>1. \A s : Claim(s, cpuCondensed)' = Claim(s, cpuCondensed)
  BY DEF Claim, Lines, PlatformLines, ProcessorLines,
       DiskSection, VirtualMemoryLines, NetworkLines
<1>2. Gap(condensed)' = Gap(condensed)
  BY DEF Gap
<1>3. \A i \in 1..6 : ClaimOf(i, cpuCondensed)' = ClaimOf(i, cpuCondensed)
  BY <1>1 DEF ClaimOf
<1>4. \A i \in 1..6 : RowOf(i, condensed, cpuCondensed)'
                        = RowOf(i, condensed, cpuCondensed)
  BY <1>2, <1>3 DEF RowOf
<1>5. FrameHeight(condensed, cpuCondensed)'
        = FrameHeight(condensed, cpuCondensed)
  BY DEF FrameHeight, NetworkRow, Claim, Lines, PlatformLines, ProcessorLines,
       DiskSection, VirtualMemoryLines, NetworkLines
<1> QED BY <1>3, <1>4, <1>5

LEMMA FrameStep == TypeOK /\ FrameInv /\ [Next]_vars => FrameInv'
<1> SUFFICES ASSUME TypeOK, FrameInv, [Next]_vars PROVE FrameInv'
  OBVIOUS
<1>0. /\ sec \in 1..6 /\ y \in Nat /\ ifaces \in Nat /\ Len(Sections) = 6
      /\ condensed \in BOOLEAN /\ cpuCondensed \in BOOLEAN
  BY SectionsType, SystatAssumption DEF TypeOK
<1>g. /\ Gap(condensed) \in Nat
      /\ (condensed => Gap(condensed) = 0) /\ (~condensed => Gap(condensed) = 1)
  BY DEF Gap
<1> DEFINE Kept == UNCHANGED <<condensed, cpuCondensed, ifaces>>
\* The frame is not touched, or it is over.
<1>a. ASSUME Kept, UNCHANGED <<sec, y>>, pc' = pc PROVE FrameInv'
  <2>1. /\ ClaimOf(sec, cpuCondensed)' = ClaimOf(sec, cpuCondensed)
        /\ RowOf(sec, condensed, cpuCondensed)' = RowOf(sec, condensed, cpuCondensed)
        /\ FrameHeight(condensed, cpuCondensed)'
             = FrameHeight(condensed, cpuCondensed)
    BY <1>0, <1>a, RowsKept DEF RowOf, ClaimOf
  <2> QED BY <1>a, <2>1 DEF FrameInv, RenderAgrees
<1>b. ASSUME pc' \notin {"move", "text", "newline", "blank", "check"}
      PROVE  FrameInv'
  BY <1>b DEF FrameInv, RenderAgrees
<1>c. RowOf(1, condensed, cpuCondensed)' = 0
  BY DEF RowOf
<1>d. ASSUME StartFrame PROVE FrameInv'
  BY <1>c, <1>d DEF StartFrame, FrameInv, RenderAgrees, RowOf
<1>1. CASE Statics \/ Construct \/ InstallWinch \/ OpenLog \/ EnterMain
  BY <1>1, <1>b DEF Statics, Construct, InstallWinch, OpenLog, EnterMain
<1>2. CASE Refresh \/ HideCursor \/ OpenFails \/ LeaveLoop \/ Exit
  BY <1>2, <1>b DEF Refresh, HideCursor, OpenFails, LeaveLoop, Exit
<1>3. CASE Repair \/ Wake
  BY <1>3, <1>b DEF Repair, Check, EraseFrame, HomeCursor, Remember, Wake
<1>4. CASE Fit
  BY <1>4, <1>b, <1>d DEF Fit
<1>5. CASE FitCondensed
  BY <1>5, <1>d DEF FitCondensed
<1>6. CASE MoveToSection \/ DrawText
  <2>1. Kept /\ sec' = sec /\ y' = y /\ pc' \in {"text", "newline"}
        /\ pc \in {"move", "text"}
    BY <1>6 DEF MoveToSection, DrawText, flags, place
  <2>2. RowOf(sec, condensed, cpuCondensed)' = RowOf(sec, condensed, cpuCondensed)
    BY <1>0, <2>1, RowsKept DEF RowOf, ClaimOf
  <2> QED BY <2>1, <2>2 DEF FrameInv, RenderAgrees
<1>7. CASE EndLine
  <2>1. Kept /\ sec' = sec /\ pc = "newline"
    BY <1>7 DEF EndLine, flags
  <2>2. /\ ClaimOf(sec, cpuCondensed)' = ClaimOf(sec, cpuCondensed)
        /\ RowOf(sec, condensed, cpuCondensed)' = RowOf(sec, condensed, cpuCondensed)
    BY <1>0, <2>1, RowsKept DEF RowOf, ClaimOf
  <2>3. \/ pc' = "text" /\ y' = y
        \/ pc' = "blank" /\ y' = y + ClaimOf(sec, cpuCondensed)
    BY <1>7 DEF EndLine, ClaimOf
  <2> QED BY <2>1, <2>2, <2>3 DEF FrameInv, RenderAgrees
<1>8. CASE BlankLine
  <2>1. Kept /\ pc = "blank" /\ y = RowOf(sec, condensed, cpuCondensed) + ClaimOf(sec, cpuCondensed)
    BY <1>8 DEF BlankLine, FrameInv, flags
  <2>2. CASE sec < 6 /\ sec' = sec + 1 /\ pc' = "move" /\ y' = y + Gap(condensed)
    <3>1. sec' \in 1..6 /\ sec \in 1..5
      BY <1>0, <2>2
    <3>2. RowOf(sec, condensed, cpuCondensed)' = RowOf(sec', condensed, cpuCondensed)
      BY <2>1, <3>1, RowsKept DEF RowOf, ClaimOf
    <3>3. RowOf(sec', condensed, cpuCondensed)
          = RowOf(sec, condensed, cpuCondensed) + ClaimOf(sec, cpuCondensed) + Gap(condensed)
      BY <1>0, <2>2, <3>1, RowsOfFrame
    <3> QED BY <2>1, <2>2, <3>2, <3>3 DEF FrameInv, RenderAgrees
  <2>3. CASE sec' = 1 /\ pc' = "move" /\ y' = 0
    BY <1>c, <2>3 DEF FrameInv, RenderAgrees, RowOf
  <2>4. CASE sec = 6 /\ pc' = "check" /\ y' = y + Gap(condensed)
    <3>1. FrameHeight(condensed, cpuCondensed)' = y'
      BY <1>0, <2>1, <2>4, RowsKept, RowsOfFrame
    <3> QED BY <2>4, <3>1 DEF FrameInv, RenderAgrees
  <2>5. (IF condensed THEN y ELSE y + 1) = y + Gap(condensed)
    BY <1>0, <1>g
  <2> QED BY <1>0, <1>8, <2>2, <2>3, <2>4, <2>5 DEF BlankLine
<1>9. CASE HandleWinch
  <2>1. Kept /\ UNCHANGED <<sec, y>> /\ pc' \in {pc, "while"}
    BY <1>9 DEF HandleWinch, Resume, flags, place
  <2> QED BY <2>1, <1>a, <1>b
<1>10. CASE Interrupt
  <2>1. Kept /\ UNCHANGED <<sec, y>> /\ pc' \in {pc, "while", "killed"}
    BY <1>10 DEF Interrupt, Resume, place
  <2> QED BY <2>1, <1>a, <1>b
<1>11. ASSUME NEW h \in WindowHeights, UserResize(h) PROVE FrameInv'
  BY <1>11, <1>a DEF UserResize, flags, place
<1>12. CASE UNCHANGED vars
  BY <1>12, <1>a DEF vars
<1> QED
  BY <1>1, <1>2, <1>3, <1>4, <1>5, <1>6, <1>7, <1>8, <1>9, <1>10, <1>11, <1>12
     DEF Next, Main, Render, Ended

\* The frame has the height fit measured, for every number of processors,
\* disks and interfaces and whatever happens while it is drawn.
THEOREM RenderDoesAgree == Spec => []RenderAgrees
<1>1. Init => FrameInv
  BY DEF Init, FrameInv, RenderAgrees
<1>2. FrameInv => RenderAgrees
  BY DEF FrameInv
<1> QED BY <1>1, <1>2, TypeCorrect, FrameStep, PTL DEF Spec

-----------------------------------------------------------------------------
(* The rows of the screen                                                  *)

\* The row of the terminal where section i starts: there is no row 0.
Top(i, tight, few) == IF i = 1 THEN 1 ELSE RowOf(i, tight, few)

\* The row after the lines of section i that stay.
After(i, tight, few) == RowOf(i, tight, few) + ClaimOf(i, few)


LEMMA OwnLines ==
  ASSUME NEW i \in 1..6, NEW few \in BOOLEAN, ifaces \in Nat
  PROVE  /\ Lines(Sections[i], few) \in Nat \ {0}
         /\ Own(Sections[i], few) = 1 .. (IF i = 1 THEN 2 ELSE ClaimOf(i, few))
         /\ ClaimOf(i, few) \in Nat \ {0}
         /\ i = 1 => ClaimOf(i, few) = 3 /\ Lines(Sections[i], few) = 2
         /\ i = 3 => ClaimOf(i, few) = 3 /\ Lines(Sections[i], few) = MemoryLines
         /\ i \notin {1, 3} => ClaimOf(i, few) = Lines(Sections[i], few)
<1> USE SystatAssumption DEF ClaimOf, Claim, Lines, PlatformLines, ProcessorLines,
        DiskSection, VirtualMemoryLines, NetworkLines, Own
<1>1. CASE i = 1
  <2>1. Sections[1] = "platform"
    BY DEF Sections
  <2> QED BY <1>1, <2>1
<1>2. CASE i = 2
  <2>1. Sections[2] = "processor"
    BY DEF Sections
  <2> QED BY <1>2, <2>1
<1>3. CASE i = 3
  <2>1. Sections[3] = "memory"
    BY DEF Sections
  <2> QED BY <1>3, <2>1
<1>4. CASE i = 4
  <2>1. Sections[4] = "disk"
    BY DEF Sections
  <2> QED BY <1>4, <2>1
<1>5. CASE i = 5
  <2>1. Sections[5] = "virtual_memory"
    BY DEF Sections
  <2> QED BY <1>5, <2>1
<1>6. CASE i = 6
  <2>1. Sections[6] = "network"
    BY DEF Sections
  <2> QED BY <1>6, <2>1
<1> HIDE DEF ClaimOf, Claim, Lines, PlatformLines, ProcessorLines,
        DiskSection, VirtualMemoryLines, NetworkLines, Own
<1> QED BY <1>1, <1>2, <1>3, <1>4, <1>5, <1>6

\* Where the rows of a section are, between the first row and the last.
LEMMA RowsOfSection ==
  ASSUME NEW i \in 1..6, NEW tight \in BOOLEAN, NEW few \in BOOLEAN, ifaces \in Nat
  PROVE  LET top   == Top(i, tight, few)
             after == After(i, tight, few)
             lines == Lines(Sections[i], few)
         IN  /\ top \in Nat \ {0} /\ after \in Nat /\ lines \in Nat \ {0}
             /\ top <= after /\ after <= top + lines
             /\ after = top + (IF i = 1 THEN 2 ELSE ClaimOf(i, few))
             /\ after + Gap(tight) <= FrameHeight(tight, few)
             /\ top + lines <= FrameHeight(tight, few)
             /\ i < 6 => after + Gap(tight) = Top(i + 1, tight, few)
             /\ i = 6 => after + Gap(tight) = FrameHeight(tight, few)
<1>0. /\ \A j \in 1..6 : ClaimOf(j, few) \in Nat \ {0}
      /\ \A j \in 1..6 : RowOf(j, tight, few) \in Nat
      /\ Gap(tight) \in 0..1
  BY OwnLines, RowsOfFrame, ClaimsOfFrame
<1>1. /\ RowOf(1, tight, few) = 0
      /\ RowOf(2, tight, few) = RowOf(1, tight, few) + ClaimOf(1, few) + Gap(tight)
      /\ RowOf(3, tight, few) = RowOf(2, tight, few) + ClaimOf(2, few) + Gap(tight)
      /\ RowOf(4, tight, few) = RowOf(3, tight, few) + ClaimOf(3, few) + Gap(tight)
      /\ RowOf(5, tight, few) = RowOf(4, tight, few) + ClaimOf(4, few) + Gap(tight)
      /\ RowOf(6, tight, few) = RowOf(5, tight, few) + ClaimOf(5, few) + Gap(tight)
      /\ FrameHeight(tight, few) = RowOf(6, tight, few) + ClaimOf(6, few) + Gap(tight)
  <2>1. \A j \in 1..5 : RowOf(j + 1, tight, few) =
          RowOf(j, tight, few) + ClaimOf(j, few) + Gap(tight)
    BY RowsOfFrame
  <2>2. /\ RowOf(1 + 1, tight, few) = RowOf(1, tight, few) + ClaimOf(1, few) + Gap(tight)
        /\ RowOf(2 + 1, tight, few) = RowOf(2, tight, few) + ClaimOf(2, few) + Gap(tight)
        /\ RowOf(3 + 1, tight, few) = RowOf(3, tight, few) + ClaimOf(3, few) + Gap(tight)
        /\ RowOf(4 + 1, tight, few) = RowOf(4, tight, few) + ClaimOf(4, few) + Gap(tight)
        /\ RowOf(5 + 1, tight, few) = RowOf(5, tight, few) + ClaimOf(5, few) + Gap(tight)
    BY <2>1
  <2>3. 1 + 1 = 2 /\ 2 + 1 = 3 /\ 3 + 1 = 4 /\ 4 + 1 = 5 /\ 5 + 1 = 6
    OBVIOUS
  <2> QED BY <2>2, <2>3, RowsOfFrame
<1>2. /\ ClaimOf(1, few) = 3 /\ Lines(Sections[1], few) = 2
      /\ ClaimOf(3, few) = 3 /\ Lines(Sections[3], few) = MemoryLines
      /\ ClaimOf(4, few) = 1 + DiskLines /\ ClaimOf(5, few) = 4
      /\ i \notin {1, 3} => ClaimOf(i, few) = Lines(Sections[i], few)
  <2>1. Sections[4] = "disk" /\ Sections[5] = "virtual_memory"
    BY DEF Sections
  <2>2. ClaimOf(4, few) = 1 + DiskLines /\ ClaimOf(5, few) = 4
    BY <2>1 DEF ClaimOf, Claim, Lines, DiskSection, VirtualMemoryLines
  <2>3. 1 \in 1..6 /\ 3 \in 1..6
    OBVIOUS
  <2>4. /\ ClaimOf(1, few) = 3 /\ Lines(Sections[1], few) = 2
        /\ ClaimOf(3, few) = 3 /\ Lines(Sections[3], few) = MemoryLines
    BY <2>3, OwnLines
  <2>5. i \notin {1, 3} => ClaimOf(i, few) = Lines(Sections[i], few)
    BY OwnLines
  <2> QED BY <2>2, <2>4, <2>5
<1>3. /\ MemoryLines \in Nat \ {0, 1, 2} /\ DiskLines \in Nat
      /\ MemoryLines <= 9 + DiskLines
  BY SystatAssumption, ScreenAssumption
<1> USE DEF Top, After
<1>4. CASE i = 1
  BY <1>0, <1>1, <1>2, <1>4
<1>5. CASE i = 2
  BY <1>0, <1>1, <1>2, <1>5
<1>6. CASE i = 3
  BY <1>0, <1>1, <1>2, <1>3, <1>6
<1>7. CASE i = 4
  BY <1>0, <1>1, <1>2, <1>3, <1>7
<1>8. CASE i = 5
  BY <1>0, <1>1, <1>2, <1>8
<1>9. CASE i = 6
  BY <1>0, <1>1, <1>2, <1>9
<1> QED BY <1>4, <1>5, <1>6, <1>7, <1>8, <1>9

LEMMA RowsInOrder ==
  ASSUME NEW tight \in BOOLEAN, NEW few \in BOOLEAN, ifaces \in Nat,
         NEW j \in 1..6, NEW i \in 1..6, i < j
  PROVE  After(i, tight, few) + Gap(tight) <= Top(j, tight, few)
<1> DEFINE t(n) == Top(n, tight, few)
           a(n) == After(n, tight, few)
           g == Gap(tight)
<1>1. g \in Nat
  BY DEF Gap
<1>2. \A n \in 1..6 : t(n) \in Nat /\ a(n) \in Nat /\ t(n) <= a(n)
  BY RowsOfSection
<1>3. \A n \in 1..5 : a(n) + g = t(n + 1)
  <2> SUFFICES ASSUME NEW n \in 1..5 PROVE a(n) + g = t(n + 1)
    OBVIOUS
  <2>1. n \in 1..6 /\ n < 6
    OBVIOUS
  <2> QED BY <2>1, RowsOfSection
<1> HIDE DEF t, a, g
<1>4. /\ a(1) + g = t(2) /\ a(2) + g = t(3) /\ a(3) + g = t(4)
      /\ a(4) + g = t(5) /\ a(5) + g = t(6)
  <2>1. /\ a(1) + g = t(1 + 1) /\ a(2) + g = t(2 + 1) /\ a(3) + g = t(3 + 1)
        /\ a(4) + g = t(4 + 1) /\ a(5) + g = t(5 + 1)
    BY <1>3
  <2>2. 1 + 1 = 2 /\ 2 + 1 = 3 /\ 3 + 1 = 4 /\ 4 + 1 = 5 /\ 5 + 1 = 6
    OBVIOUS
  <2> QED BY <2>1, <2>2
<1>5. /\ \A n \in {1, 2, 3, 4, 5, 6} : t(n) \in Nat /\ a(n) \in Nat /\ t(n) <= a(n)
  BY <1>2
<1>6. a(i) + g <= t(j)
  <2>1. CASE j \in {1, 2, 3}
    BY <1>1, <1>4, <1>5, <2>1
  <2>2. CASE j = 4
    BY <1>1, <1>4, <1>5, <2>2
  <2>3. CASE j = 5
    BY <1>1, <1>4, <1>5, <2>3
  <2>4. CASE j = 6
    BY <1>1, <1>4, <1>5, <2>4
  <2> QED BY <2>1, <2>2, <2>3, <2>4
<1> QED BY <1>6 DEF a, t, g

-----------------------------------------------------------------------------
(* The text of a frame                                                     *)

\* The library joins a list of sequences by a recursive function; six of them
\* are joined one by one.
LEMMA FlattenOfSix ==
  ASSUME NEW s, Len(s) = 6
  PROVE  FlattenSeq(s) =
           ((((s[1] \o s[2]) \o s[3]) \o s[4]) \o s[5]) \o s[6]
<1> DEFINE Next6(f) == [i \in 1..6 |-> IF i = 1 THEN s[i] ELSE f[i - 1] \o s[i]]
           joined == CHOOSE f : f = Next6(f)
           g == [i \in 1..6 |->
                  CASE i = 1 -> s[1]
                    [] i = 2 -> s[1] \o s[2]
                    [] i = 3 -> (s[1] \o s[2]) \o s[3]
                    [] i = 4 -> ((s[1] \o s[2]) \o s[3]) \o s[4]
                    [] i = 5 -> (((s[1] \o s[2]) \o s[3]) \o s[4]) \o s[5]
                    [] i = 6 -> ((((s[1] \o s[2]) \o s[3]) \o s[4]) \o s[5]) \o s[6]]
<1>1. g = Next6(g)
  OBVIOUS
<1>2. joined = Next6(joined)
  BY <1>1
<1>3. FlattenSeq(s) = joined[6]
  BY DEF FlattenSeq
<1> HIDE DEF joined
<1>4. \A i \in 1..6 : joined[i] = IF i = 1 THEN s[i] ELSE joined[i - 1] \o s[i]
  BY <1>2, Zenon
<1>5. /\ 1 \in 1..6 /\ 2 \in 1..6 /\ 3 \in 1..6 /\ 4 \in 1..6 /\ 5 \in 1..6 /\ 6 \in 1..6
      /\ 2 # 1 /\ 3 # 1 /\ 4 # 1 /\ 5 # 1 /\ 6 # 1
      /\ 2 - 1 = 1 /\ 3 - 1 = 2 /\ 4 - 1 = 3 /\ 5 - 1 = 4 /\ 6 - 1 = 5
  OBVIOUS
<1>6. /\ joined[1] = s[1] /\ joined[2] = joined[1] \o s[2]
      /\ joined[3] = joined[2] \o s[3] /\ joined[4] = joined[3] \o s[4]
      /\ joined[5] = joined[4] \o s[5] /\ joined[6] = joined[5] \o s[6]
  <2>1. joined[1] = s[1]
    BY <1>4, <1>5, Zenon
  <2>2. joined[2] = joined[1] \o s[2]
    BY <1>4, <1>5, Zenon
  <2>3. joined[3] = joined[2] \o s[3]
    BY <1>4, <1>5, Zenon
  <2>4. joined[4] = joined[3] \o s[4]
    BY <1>4, <1>5, Zenon
  <2>5. joined[5] = joined[4] \o s[5]
    BY <1>4, <1>5, Zenon
  <2>6. joined[6] = joined[5] \o s[6]
    BY <1>4, <1>5, Zenon
  <2> QED BY <2>1, <2>2, <2>3, <2>4, <2>5, <2>6, Zenon
<1> QED BY <1>3, <1>6, Zenon

Block(i, tight, few) ==
  SectionText(Sections[i], few) \o (IF tight THEN <<>> ELSE <<Blank>>)

\* The rows of section i, and the blank one below it.
HasSection(text, i, tight, few) ==
  LET top == Top(i, tight, few)
      after == After(i, tight, few)
  IN  /\ \A r \in top .. after - 1 : text[r] = <<Sections[i], r - top + 1>>
      /\ ~tight => text[after] = Blank

Begins(text, k, tight, few) ==
  /\ text \in Seq(Texts)
  /\ Len(text) = After(k, tight, few) + Gap(tight) - 1
  /\ \A i \in 1..k : HasSection(text, i, tight, few)

LEMMA BlockLines ==
  ASSUME NEW i \in 1..6, NEW tight \in BOOLEAN, NEW few \in BOOLEAN, ifaces \in Nat
  PROVE  LET own == After(i, tight, few) - Top(i, tight, few)
         IN  /\ Block(i, tight, few) \in Seq(Texts)
             /\ Len(Block(i, tight, few)) = own + Gap(tight)
             /\ \A n \in 1..own : Block(i, tight, few)[n] = <<Sections[i], n>>
             /\ ~tight => Block(i, tight, few)[own + 1] = Blank
<1> DEFINE own == After(i, tight, few) - Top(i, tight, few)
           text == [n \in 1..own |-> <<Sections[i], n>>]
           tail == IF tight THEN <<>> ELSE <<Blank>>
<1>1. own \in Nat /\ own = IF i = 1 THEN 2 ELSE ClaimOf(i, few)
  <2>1. /\ Top(i, tight, few) \in Nat
        /\ After(i, tight, few) =
             Top(i, tight, few) + (IF i = 1 THEN 2 ELSE ClaimOf(i, few))
    BY RowsOfSection
  <2>2. ClaimOf(i, few) \in Nat
    BY OwnLines
  <2> QED BY <2>1, <2>2
<1>2. SectionText(Sections[i], few) = text
  BY <1>1, OwnLines DEF SectionText
<1> HIDE DEF own
<1>3. text \in Seq(Texts) /\ Len(text) = own
  <2>1. \A n \in 1..own : <<Sections[i], n>> \in Texts
    BY <1>1, SectionsType DEF Texts
  <2>2. text \in [1..own -> Texts]
    BY <2>1
  <2> QED BY <1>1, <2>2
<1>4. /\ tail \in Seq(Texts) /\ Len(tail) = Gap(tight)
      /\ ~tight => tail[1] = Blank
  <2>1. Blank \in Texts
    BY DEF Blank, Texts, Titles
  <2> QED BY <2>1 DEF Gap
<1>5. Block(i, tight, few) = text \o tail
  BY <1>2 DEF Block
<1>6. \A n \in 1..own : text[n] = <<Sections[i], n>>
  OBVIOUS
<1> HIDE DEF text, tail
<1>7. /\ text \o tail \in Seq(Texts) /\ Len(text \o tail) = own + Gap(tight)
      /\ \A n \in 1..own : (text \o tail)[n] = text[n]
      /\ \A n \in 1..Gap(tight) : (text \o tail)[own + n] = tail[n]
  <2>1. /\ text \o tail \in Seq(Texts) /\ Len(text \o tail) = Len(text) + Len(tail)
        /\ \A n \in 1 .. Len(text) : (text \o tail)[n] = text[n]
        /\ \A n \in 1 .. Len(tail) : (text \o tail)[Len(text) + n] = tail[n]
    BY <1>3, <1>4
  <2> QED BY <1>3, <1>4, <2>1
<1>8. ~tight => 1 \in 1..Gap(tight)
  BY DEF Gap
<1> QED BY <1>4, <1>5, <1>6, <1>7, <1>8 DEF own

LEMMA OneSectionMore ==
  ASSUME NEW k \in 1..5, NEW tight \in BOOLEAN, NEW few \in BOOLEAN, ifaces \in Nat,
         NEW text, Begins(text, k, tight, few)
  PROVE  Begins(text \o Block(k + 1, tight, few), k + 1, tight, few)
<1> DEFINE block == Block(k + 1, tight, few)
           top == Top(k + 1, tight, few)
           after == After(k + 1, tight, few)
           all == text \o block
<1>0. k + 1 \in 1..6 /\ k \in 1..6
  OBVIOUS
<1>1. /\ text \in Seq(Texts) /\ Len(text) = top - 1
      /\ top \in Nat \ {0} /\ after \in Nat /\ top <= after /\ Gap(tight) \in 0..1
      /\ ~tight => Gap(tight) = 1
  <2>1. After(k, tight, few) \in Nat /\ After(k, tight, few) + Gap(tight) = top
    BY <1>0, RowsOfSection
  <2>2. top \in Nat \ {0} /\ after \in Nat /\ top <= after
    BY <1>0, RowsOfSection
  <2>3. Gap(tight) \in 0..1 /\ (~tight => Gap(tight) = 1)
    BY DEF Gap
  <2> QED BY <2>1, <2>2, <2>3 DEF Begins
<1>2. /\ block \in Seq(Texts) /\ Len(block) = (after - top) + Gap(tight)
      /\ \A n \in 1 .. after - top : block[n] = <<Sections[k + 1], n>>
      /\ ~tight => block[after - top + 1] = Blank
  BY <1>0, BlockLines
<1> HIDE DEF block, top, after
<1>3. /\ all \in Seq(Texts) /\ Len(all) = after + Gap(tight) - 1
      /\ \A r \in 1 .. top - 1 : all[r] = text[r]
      /\ \A n \in 1 .. (after - top) + Gap(tight) : all[top - 1 + n] = block[n]
  <2>1. /\ all \in Seq(Texts) /\ Len(all) = Len(text) + Len(block)
        /\ \A n \in 1 .. Len(text) : all[n] = text[n]
        /\ \A n \in 1 .. Len(block) : all[Len(text) + n] = block[n]
    <3>1. text \in Seq(Texts) /\ block \in Seq(Texts)
      BY <1>1, <1>2
    <3> QED BY <3>1
  <2> HIDE DEF all
  <2>2. /\ Gap(tight) \in Int /\ top \in Int /\ after \in Int
        /\ Len(text) = top - 1 /\ Len(block) = (after - top) + Gap(tight)
    BY <1>1, <1>2
  <2>3. Len(all) = after + Gap(tight) - 1
    BY <2>1, <2>2
  <2>4. \A r \in 1 .. top - 1 : all[r] = text[r]
    BY <2>1, <2>2
  <2>5. \A n \in 1 .. (after - top) + Gap(tight) : all[top - 1 + n] = block[n]
    BY <2>1, <2>2
  <2> QED BY <2>1, <2>3, <2>4, <2>5
<1> HIDE DEF all
<1>4. \A i \in 1..k : HasSection(all, i, tight, few)
  <2> SUFFICES ASSUME NEW i \in 1..k PROVE HasSection(all, i, tight, few)
    OBVIOUS
  <2>1. HasSection(text, i, tight, few)
    BY DEF Begins
  <2>2. /\ i \in 1..6 /\ Top(i, tight, few) \in Nat \ {0} /\ After(i, tight, few) \in Nat
        /\ Top(i, tight, few) <= After(i, tight, few)
    BY RowsOfSection
  <2>3. After(i, tight, few) + Gap(tight) <= top
    BY <1>0, <2>2, RowsInOrder DEF top
  <2>4. \A r \in Top(i, tight, few) .. After(i, tight, few) - 1 : all[r] = text[r]
    BY <1>1, <1>3, <2>2, <2>3
  <2>5. ~tight => all[After(i, tight, few)] = text[After(i, tight, few)]
    BY <1>1, <1>3, <2>2, <2>3
  <2> QED BY <2>1, <2>4, <2>5 DEF HasSection
<1>5. HasSection(all, k + 1, tight, few)
  <2>1. \A r \in top .. after - 1 : all[r] = <<Sections[k + 1], r - top + 1>>
    <3> SUFFICES ASSUME NEW r \in top .. after - 1
                 PROVE  all[r] = <<Sections[k + 1], r - top + 1>>
      OBVIOUS
    <3>1. /\ r - top + 1 \in 1 .. (after - top) + Gap(tight)
          /\ r - top + 1 \in 1 .. after - top
          /\ top - 1 + (r - top + 1) = r
      BY <1>1
    <3> QED BY <1>2, <1>3, <3>1
  <2>2. ~tight => all[after] = Blank
    <3> SUFFICES ASSUME ~tight PROVE all[after] = Blank
      OBVIOUS
    <3>1. /\ after - top + 1 \in 1 .. (after - top) + Gap(tight)
          /\ top - 1 + (after - top + 1) = after
      BY <1>1
    <3> QED BY <1>2, <1>3, <3>1
  <2> QED BY <2>1, <2>2 DEF HasSection, top, after
<1>6. \A i \in 1 .. k + 1 : i \in 1..k \/ i = k + 1
  OBVIOUS
<1> QED BY <1>3, <1>4, <1>5, <1>6 DEF Begins, all, block, after

\* Every row of a frame, as main counts rows: so fit compares with the height
\* what the user would count.
LEMMA TextOfFrame ==
  ASSUME NEW tight \in BOOLEAN, NEW few \in BOOLEAN, ifaces \in Nat
  PROVE  /\ Len(FrameText(tight, few)) = FrameHeight(tight, few) - 1
         /\ \A i \in 1..6 : HasSection(FrameText(tight, few), i, tight, few)
<1> DEFINE b(i) == Block(i, tight, few)
           blocks == [i \in DOMAIN Sections |-> Block(i, tight, few)]
<1>1. /\ Len(blocks) = 6 /\ FrameText(tight, few) = FlattenSeq(blocks)
      /\ \A i \in 1..6 : blocks[i] = b(i)
  <2>1. blocks \in [1..6 -> {b(i) : i \in 1..6}]
    BY SectionsType
  <2>2. FrameText(tight, few) = FlattenSeq(blocks)
    BY DEF FrameText, Block
  <2>3. DOMAIN Sections = 1..6
    BY SectionsType
  <2>4. \A i \in 1..6 : blocks[i] = b(i)
    BY <2>3
  <2>5. Len(blocks) = 6
    BY <2>1
  <2> QED BY <2>2, <2>4, <2>5
<1> HIDE DEF blocks
<1>2. FrameText(tight, few) =
        ((((b(1) \o b(2)) \o b(3)) \o b(4)) \o b(5)) \o b(6)
  <2>1. FlattenSeq(blocks) =
          ((((blocks[1] \o blocks[2]) \o blocks[3]) \o blocks[4]) \o blocks[5])
            \o blocks[6]
    BY <1>1, FlattenOfSix, Zenon
  <2>2. /\ blocks[1] = b(1) /\ blocks[2] = b(2) /\ blocks[3] = b(3)
        /\ blocks[4] = b(4) /\ blocks[5] = b(5) /\ blocks[6] = b(6)
    BY <1>1
  <2> HIDE DEF b
  <2> QED BY <1>1, <2>1, <2>2, Zenon
<1>3. Begins(b(1), 1, tight, few)
  <2>1. /\ Top(1, tight, few) = 1 /\ After(1, tight, few) = 3
    BY RowsOfSection DEF Top
  <2>2. /\ b(1) \in Seq(Texts) /\ Len(b(1)) = 2 + Gap(tight)
        /\ \A n \in 1..2 : b(1)[n] = <<Sections[1], n>>
        /\ ~tight => b(1)[3] = Blank
    <3> DEFINE own == After(1, tight, few) - Top(1, tight, few)
    <3>1. own = 2 /\ own + 1 = 3
      BY <2>1
    <3>2. /\ b(1) \in Seq(Texts) /\ Len(b(1)) = own + Gap(tight)
          /\ \A n \in 1..own : b(1)[n] = <<Sections[1], n>>
          /\ ~tight => b(1)[own + 1] = Blank
      <4>1. 1 \in 1..6
        OBVIOUS
      <4> QED BY <4>1, BlockLines, Zenon
    <3> HIDE DEF own, b
    <3> QED BY <3>1, <3>2
  <2> HIDE DEF b
  <2>3. \A r \in 1..2 : b(1)[r] = <<Sections[1], r - 1 + 1>>
    BY <2>2
  <2>4. HasSection(b(1), 1, tight, few)
    BY <2>1, <2>2, <2>3 DEF HasSection
  <2>5. Gap(tight) \in Nat
    BY DEF Gap
  <2> QED BY <2>1, <2>2, <2>4, <2>5 DEF Begins
<1>4. \A k \in 1..5 : \A text : Begins(text, k, tight, few) =>
        Begins(text \o b(k + 1), k + 1, tight, few)
  BY OneSectionMore
<1> HIDE DEF b
<1>5. 1 + 1 = 2 /\ 2 + 1 = 3 /\ 3 + 1 = 4 /\ 4 + 1 = 5 /\ 5 + 1 = 6
  OBVIOUS
<1>6. Begins(b(1) \o b(2), 2, tight, few)
  BY <1>3, <1>4, <1>5
<1>7. Begins((b(1) \o b(2)) \o b(3), 3, tight, few)
  BY <1>4, <1>5, <1>6
<1>8. Begins(((b(1) \o b(2)) \o b(3)) \o b(4), 4, tight, few)
  BY <1>4, <1>5, <1>7
<1>9. Begins((((b(1) \o b(2)) \o b(3)) \o b(4)) \o b(5), 5, tight, few)
  BY <1>4, <1>5, <1>8
<1>10. Begins(FrameText(tight, few), 6, tight, few)
  BY <1>2, <1>4, <1>5, <1>9
<1>11. /\ After(6, tight, few) \in Nat /\ Gap(tight) \in Nat
       /\ After(6, tight, few) + Gap(tight) = FrameHeight(tight, few)
  BY RowsOfSection DEF Gap
<1> QED BY <1>10, <1>11 DEF Begins

\* A second in which nobody has disturbed main so far.
Steady == calm /\ con.height = win

\* What fit chooses for the window.
Chosen ==
  IF FrameHeight(FALSE, FALSE) <= win
  THEN ~condensed /\ ~cpuCondensed
  ELSE cpuCondensed /\ condensed = (FrameHeight(FALSE, TRUE) > win)

Framing == pc \in {"move", "text", "newline", "blank", "check"}

\* The rows of the frame that have been drawn so far: what memory draws beyond
\* its claim is none of them.
Drawn ==
  LET top   == Top(sec, condensed, cpuCondensed)
      after == After(sec, condensed, cpuCondensed)
  IN  CASE pc = "move"    -> 1 .. top - 1
        [] pc = "text"    -> {r \in 1 .. after - 1 : r < top + line - 1}
        [] pc = "newline" -> {r \in 1 .. after - 1 : r < top + line}
        [] pc = "blank"   -> 1 .. after - 1
        [] OTHER          -> 1 .. FrameHeight(condensed, cpuCondensed) - 1

\* WholeOrBlank compares the screen once, at the end.  While a frame that fits
\* is drawn and nothing disturbs main, the flags are what the window asks for,
\* the cursor is on the row of the line, and every row drawn so far is right.
ScreenInv ==
  /\ pc \in {"text", "newline"} => line \in 1 .. Lines(Sections[sec], cpuCondensed)
  /\ pc = "fitCondensed" => ~condensed
  /\ Steady /\ pc = "fitCondensed" => FrameHeight(FALSE, FALSE) > win
  /\ Steady /\ Framing => Chosen
  /\ Steady /\ Framing /\ FrameHeight(condensed, cpuCondensed) <= win =>
       /\ pc \in {"text", "newline"} =>
            con.at = Top(sec, condensed, cpuCondensed) + line - 1
       /\ \A r \in Drawn :
            con.screen[r] = FrameText(condensed, cpuCondensed)[r]
  /\ Steady /\ pc \in {"home", "remember"} => AllBlank
  /\ WholeOrBlank

\* What the calls of a frame do to the rows of the screen and to the cursor.
LEMMA ConsoleScreen ==
  ASSUME NEW c \in Consoles, NEW w \in Rows
  PROVE  /\ ModeClear(c).screen = c.screen /\ ModeClear(c).at = c.at
         /\ \A row \in Nat :
              /\ MoveTo(c, row, w).screen = c.screen
              /\ row = 0 => MoveTo(c, row, w).at = 1
              /\ row \in 1..w => MoveTo(c, row, w).at = row
         /\ \A text \in Texts :
              /\ Put(c, text).at = c.at
              /\ Put(c, text).screen[c.at] = text
              /\ \A r \in Rows : r # c.at => Put(c, text).screen[r] = c.screen[r]
         /\ c.at < w => /\ LineFeed(c, w).screen = c.screen
                        /\ LineFeed(c, w).at = c.at + 1
         /\ \A r \in Rows : Erase(c).screen[r] = Blank
         /\ Erase(c).height = c.height
<1>1. /\ ModeClear(c).screen = c.screen /\ ModeClear(c).at = c.at
      /\ \A r \in Rows : Erase(c).screen[r] = Blank
      /\ Erase(c).height = c.height
  BY DEF ModeClear, ShowCursor, Erase, Consoles
<1>2. \A row \in Nat :
        /\ MoveTo(c, row, w).screen = c.screen
        /\ row = 0 => MoveTo(c, row, w).at = 1
        /\ row \in 1..w => MoveTo(c, row, w).at = row
  BY DEF MoveTo, CursorTo, Consoles, Rows
<1>3. \A text \in Texts :
        /\ Put(c, text).at = c.at
        /\ Put(c, text).screen[c.at] = text
        /\ \A r \in Rows : r # c.at => Put(c, text).screen[r] = c.screen[r]
  BY DEF Put, Consoles
<1>4. c.at < w => /\ LineFeed(c, w).screen = c.screen
                  /\ LineFeed(c, w).at = c.at + 1
  BY DEF LineFeed, Consoles
<1> QED BY <1>1, <1>2, <1>3, <1>4

LEMMA TextKept ==
  ASSUME ifaces' = ifaces, NEW tight \in BOOLEAN, NEW few \in BOOLEAN
  PROVE  /\ FrameText(tight, few)' = FrameText(tight, few)
         /\ FrameHeight(tight, few)' = FrameHeight(tight, few)
<1>1. \A s : Lines(s, few)' = Lines(s, few) /\ Claim(s, few)' = Claim(s, few)
  BY DEF Claim, Lines, PlatformLines, ProcessorLines,
       DiskSection, VirtualMemoryLines, NetworkLines
<1>2. \A s : SectionText(s, few)' = SectionText(s, few)
  BY <1>1 DEF SectionText, Own
<1>3. FrameText(tight, few)' = FrameText(tight, few)
  BY <1>2 DEF FrameText
<1>4. FrameHeight(tight, few)' = FrameHeight(tight, few)
  BY <1>1 DEF FrameHeight, NetworkRow
<1> QED BY <1>3, <1>4

LEMMA TextOfFrameKept ==
  ASSUME UNCHANGED <<condensed, cpuCondensed, ifaces>>
  PROVE  FrameText(condensed, cpuCondensed)' = FrameText(condensed, cpuCondensed)
<1>1. \A s : Lines(s, cpuCondensed)' = Lines(s, cpuCondensed)
             /\ Claim(s, cpuCondensed)' = Claim(s, cpuCondensed)
  BY DEF Claim, Lines, PlatformLines, ProcessorLines,
       DiskSection, VirtualMemoryLines, NetworkLines
<1>2. \A s : SectionText(s, cpuCondensed)' = SectionText(s, cpuCondensed)
  BY <1>1 DEF SectionText, Own
<1> QED BY <1>2 DEF FrameText

LEMMA PlaceKept ==
  ASSUME UNCHANGED <<condensed, cpuCondensed, ifaces, sec>>, TypeOK
  PROVE  /\ Top(sec, condensed, cpuCondensed)' = Top(sec, condensed, cpuCondensed)
         /\ After(sec, condensed, cpuCondensed)' = After(sec, condensed, cpuCondensed)
         /\ Lines(Sections[sec], cpuCondensed)' = Lines(Sections[sec], cpuCondensed)
<1>0. sec \in 1..6 /\ condensed \in BOOLEAN /\ cpuCondensed \in BOOLEAN
  BY SectionsType DEF TypeOK
<1>1. /\ RowOf(sec, condensed, cpuCondensed)' = RowOf(sec, condensed, cpuCondensed)
      /\ ClaimOf(sec, cpuCondensed)' = ClaimOf(sec, cpuCondensed)
  BY <1>0, RowsKept DEF RowOf, ClaimOf
<1>2. Lines(Sections[sec], cpuCondensed)' = Lines(Sections[sec], cpuCondensed)
  BY DEF Lines, PlatformLines, ProcessorLines,
       DiskSection, VirtualMemoryLines, NetworkLines
<1> QED BY <1>1, <1>2 DEF Top, After

\* fit chooses what the user would.
LEMMA ChosenIsBest ==
  ASSUME TypeOK, Chosen
  PROVE  BestFrame = FrameText(condensed, cpuCondensed)
<1>1. ifaces \in Nat /\ condensed \in BOOLEAN /\ cpuCondensed \in BOOLEAN /\ win \in Int
  BY SystatAssumption DEF TypeOK, Rows
<1>2. \A few \in BOOLEAN : FrameHeight(FALSE, few) \in Nat
  BY <1>1, RowType
<1>3. \A few \in BOOLEAN :
        FitsIn(FrameText(FALSE, few), win) <=> FrameHeight(FALSE, few) <= win
  <2> SUFFICES ASSUME NEW few \in BOOLEAN
               PROVE  FitsIn(FrameText(FALSE, few), win)
                        <=> FrameHeight(FALSE, few) <= win
    OBVIOUS
  <2>1. Len(FrameText(FALSE, few)) = FrameHeight(FALSE, few) - 1
    BY <1>1, TextOfFrame, FALSE \in BOOLEAN, Zenon
  <2>2. FrameHeight(FALSE, few) \in Nat
    BY <1>2, Zenon
  <2>3. \A n \in Nat : n - 1 < win <=> n <= win
    BY <1>1
  <2> QED BY <2>1, <2>2, <2>3, Zenon DEF FitsIn
<1>4. CASE FrameHeight(FALSE, FALSE) <= win
  BY <1>1, <1>3, <1>4 DEF BestFrame, Chosen
<1>5. CASE ~(FrameHeight(FALSE, FALSE) <= win) /\ FrameHeight(FALSE, TRUE) <= win
  <2>1. cpuCondensed = TRUE /\ condensed = FALSE
    <3>1. FrameHeight(FALSE, TRUE) > win <=> ~(FrameHeight(FALSE, TRUE) <= win)
      <4>1. FrameHeight(FALSE, TRUE) \in Nat
        BY <1>2, Zenon
      <4>2. \A n \in Nat : n > win <=> ~(n <= win)
        BY <1>1
      <4> QED BY <4>1, <4>2, Zenon
    <3> QED BY <1>1, <1>5, <3>1, Zenon DEF Chosen
  <2>2. BestFrame = FrameText(FALSE, TRUE)
    BY <1>3, <1>5 DEF BestFrame
  <2> QED BY <2>1, <2>2
<1>6. CASE ~(FrameHeight(FALSE, FALSE) <= win) /\ ~(FrameHeight(FALSE, TRUE) <= win)
  <2>1. cpuCondensed = TRUE /\ condensed = TRUE
    <3>1. FrameHeight(FALSE, TRUE) > win <=> ~(FrameHeight(FALSE, TRUE) <= win)
      <4>1. FrameHeight(FALSE, TRUE) \in Nat
        BY <1>2, Zenon
      <4>2. \A n \in Nat : n > win <=> ~(n <= win)
        BY <1>1
      <4> QED BY <4>1, <4>2, Zenon
    <3> QED BY <1>1, <1>6, <3>1, Zenon DEF Chosen
  <2>2. BestFrame = FrameText(TRUE, TRUE)
    BY <1>3, <1>6 DEF BestFrame
  <2> QED BY <2>1, <2>2
<1> QED BY <1>4, <1>5, <1>6

LEMMA ScreenStep ==
  TypeOK /\ TypeOK' /\ FrameInv /\ ScreenInv /\ [Next]_vars => ScreenInv'
<1> SUFFICES ASSUME TypeOK, TypeOK', FrameInv, ScreenInv, [Next]_vars
             PROVE  ScreenInv'
  OBVIOUS
<1> DEFINE top == Top(sec, condensed, cpuCondensed)
           after == After(sec, condensed, cpuCondensed)
           lines == Lines(Sections[sec], cpuCondensed)
           gap == Gap(condensed)
           height == FrameHeight(condensed, cpuCondensed)
           frame == FrameText(condensed, cpuCondensed)
           Kept == UNCHANGED <<condensed, cpuCondensed, ifaces>>
<1>0. /\ con \in Consoles /\ con' \in Consoles /\ win \in Rows /\ win \in Nat
      /\ win <= MaxRows /\ MaxRows \in Nat
      /\ sec \in 1..6 /\ sec' \in 1..6 /\ line \in Nat /\ y \in Nat /\ ifaces \in Nat
      /\ condensed \in BOOLEAN /\ cpuCondensed \in BOOLEAN
  BY SectionsType, SystatAssumption, MaxRowsAssumption DEF TypeOK, Rows
<1>1. /\ top \in Nat \ {0} /\ after \in Nat /\ lines \in Nat \ {0} /\ gap \in 0..1
      /\ top <= after /\ after <= top + lines
      /\ after + gap <= height /\ top + lines <= height /\ height \in Nat
  <2>1. /\ top \in Nat \ {0} /\ after \in Nat /\ lines \in Nat \ {0}
        /\ top <= after /\ after <= top + lines
        /\ after + gap <= height /\ top + lines <= height
    BY <1>0, RowsOfSection
  <2>2. height \in Nat
    BY <1>0, RowType
  <2> QED BY <2>1, <2>2 DEF Gap
<1>2. /\ HasSection(frame, sec, condensed, cpuCondensed)
      /\ Len(frame) = height - 1
  BY <1>0, TextOfFrame
<1> HIDE DEF top, after, lines, gap, height, frame
<1>j. \A n \in Nat : n > win <=> ~(n <= win)
  BY <1>0
\* The frame is over, or has not begun.
<1>a. ASSUME pc' \notin {"fitCondensed", "move", "text", "newline", "blank",
                         "check", "home", "remember", "sleep"}
      PROVE  ScreenInv'
  BY <1>a DEF ScreenInv, Framing, WholeOrBlank, Resting
\* Somebody has disturbed it.
<1>b. ASSUME ~calm', UNCHANGED <<condensed, cpuCondensed, ifaces, sec, line>>,
             pc' \in {pc, "while"}
      PROVE  ScreenInv'
  <2>1. Lines(Sections[sec], cpuCondensed)' = Lines(Sections[sec], cpuCondensed)
    BY <1>b, PlaceKept
  <2> QED BY <1>b, <2>1 DEF ScreenInv, Steady, WholeOrBlank, Resting
\* What the invariant speaks of changes for no step that keeps these.
<1>c. ASSUME ifaces' = ifaces
      PROVE  /\ FrameHeight(FALSE, FALSE)' = FrameHeight(FALSE, FALSE)
             /\ FrameHeight(FALSE, TRUE)' = FrameHeight(FALSE, TRUE)
             /\ win' = win => BestFrame' = BestFrame
  <2>1. \A tight \in BOOLEAN, few \in BOOLEAN :
          /\ FrameText(tight, few)' = FrameText(tight, few)
          /\ FrameHeight(tight, few)' = FrameHeight(tight, few)
    BY <1>c, TextKept
  <2>2. /\ FrameText(FALSE, FALSE)' = FrameText(FALSE, FALSE)
        /\ FrameText(FALSE, TRUE)' = FrameText(FALSE, TRUE)
        /\ FrameText(TRUE, TRUE)' = FrameText(TRUE, TRUE)
        /\ FrameHeight(FALSE, FALSE)' = FrameHeight(FALSE, FALSE)
        /\ FrameHeight(FALSE, TRUE)' = FrameHeight(FALSE, TRUE)
    BY <2>1, Zenon
  <2> QED BY <2>2 DEF BestFrame, FitsIn
<1>d. ASSUME Kept PROVE /\ FrameHeight(condensed, cpuCondensed)' = height
                        /\ FrameText(condensed, cpuCondensed)' = frame
                        /\ win' = win => Chosen' = Chosen
  <2>1. FrameText(condensed, cpuCondensed)' = frame
    BY <1>d, TextOfFrameKept DEF frame
  <2>2. FrameHeight(condensed, cpuCondensed)' = height
    BY <1>d, RowsKept DEF height
  <2> QED BY <1>c, <1>d, <2>1, <2>2 DEF Chosen
<1>e. ASSUME Kept, sec' = sec PROVE /\ Top(sec, condensed, cpuCondensed)' = top
                                    /\ After(sec, condensed, cpuCondensed)' = after
                                    /\ Lines(Sections[sec], cpuCondensed)' = lines
  BY <1>e, PlaceKept DEF top, after, lines
<1>f. ASSUME Kept, UNCHANGED <<sec, line, calm, con, win, pc>>
      PROVE  ScreenInv'
  <2>1. Drawn' = Drawn
    BY <1>d, <1>e, <1>f DEF Drawn, top, after, height
  <2>2. WholeOrBlank' = WholeOrBlank
    BY <1>c, <1>f DEF WholeOrBlank, Resting, Shows, AllBlank
  <2>3. (Steady /\ pc \in {"home", "remember"} => AllBlank)'
    BY <1>f DEF ScreenInv, Steady, AllBlank
  <2> QED BY <1>c, <1>d, <1>e, <1>f, <2>1, <2>2, <2>3
          DEF ScreenInv, Steady, Framing, top, lines, height, frame
<1>3. CASE Statics \/ Construct \/ InstallWinch \/ OpenLog \/ EnterMain
  BY <1>3, <1>a DEF Statics, Construct, InstallWinch, OpenLog, EnterMain
<1>4. CASE Refresh \/ OpenFails \/ LeaveLoop \/ Exit \/ Wake
  BY <1>4, <1>a DEF Refresh, OpenFails, LeaveLoop, Exit, Wake
<1>5. CASE HideCursor
  BY <1>5 DEF HideCursor, ScreenInv, Framing, WholeOrBlank, Resting
<1>6. CASE HandleWinch
  BY <1>6, <1>b DEF HandleWinch, Resume, flags, place
<1>7. ASSUME NEW h \in WindowHeights, UserResize(h) PROVE ScreenInv'
  BY <1>7, <1>b DEF UserResize, flags, place
<1>8. CASE Interrupt
  <2>1. /\ Kept /\ UNCHANGED <<sec, line, calm, con, win>>
        /\ pc' \in {pc, "killed", "while"}
    BY <1>8 DEF Interrupt, Resume, place, env
  <2> QED BY <2>1, <1>a, <1>f
<1>9. CASE UNCHANGED vars
  <2>1. Kept /\ UNCHANGED <<sec, line, calm, con, win, pc>>
    BY <1>9 DEF vars
  <2> QED BY <2>1, <1>f
\* A frame starts.
<1>g. ASSUME StartFrame, ifaces' = ifaces, UNCHANGED <<calm, win>>,
             Steady' => Chosen'
      PROVE  ScreenInv'
  <2>1. Drawn' = {}
    BY <1>g DEF StartFrame, Drawn, Top
  <2> QED BY <1>g, <2>1 DEF StartFrame, ScreenInv, Framing, WholeOrBlank, Resting
<1>10. CASE Fit
  <2>1. NetworkRow(FALSE, FALSE) \in Nat /\ FrameHeight(FALSE, FALSE) \in Nat
    BY <1>0, RowType
  <2>2. con'.height = con.height
    <3>1. con' = MoveTo(con, NetworkRow(FALSE, FALSE), win)
      BY <1>10 DEF Fit
    <3>2. \A row \in Nat : MoveTo(con, row, win).height = con.height
      BY <1>0, ConsoleHeight
    <3> QED BY <2>1, <3>1, <3>2
  <2>3. /\ FrameHeight(FALSE, FALSE)' = FrameHeight(FALSE, FALSE)
        /\ UNCHANGED <<calm, win, ifaces>> /\ ~condensed' /\ ~cpuCondensed'
    BY <1>10, <1>c DEF Fit, env
  <2>4. CASE FrameHeight(FALSE, FALSE) <= con.height
    <3>1. StartFrame
      BY <1>10, <2>4 DEF Fit
    <3>2. Steady' => Chosen'
      BY <2>2, <2>3, <2>4 DEF Steady, Chosen
    <3> QED BY <1>g, <2>3, <3>1, <3>2
  <2>5. CASE ~(FrameHeight(FALSE, FALSE) <= con.height)
    <3>1. pc' = "fitCondensed"
      BY <1>10, <2>5 DEF Fit
    <3>2. Steady' => FrameHeight(FALSE, FALSE)' > win'
      BY <1>j, <2>1, <2>2, <2>3, <2>5, Zenon DEF Steady
    <3> QED BY <2>3, <3>1, <3>2 DEF ScreenInv, Framing, WholeOrBlank, Resting
  <2> QED BY <2>4, <2>5
<1>11. CASE FitCondensed
  <2>1. /\ NetworkRow(condensed, TRUE) \in Nat
        /\ FrameHeight(FALSE, FALSE) \in Nat /\ FrameHeight(FALSE, TRUE) \in Nat
    BY <1>0, RowType
  <2>2. con'.height = con.height
    <3>1. con' = MoveTo(con, NetworkRow(condensed, TRUE), win)
      BY <1>11 DEF FitCondensed
    <3>2. \A row \in Nat : MoveTo(con, row, win).height = con.height
      BY <1>0, ConsoleHeight
    <3> QED BY <2>1, <3>1, <3>2
  <2>3. /\ FrameHeight(FALSE, FALSE)' = FrameHeight(FALSE, FALSE)
        /\ FrameHeight(FALSE, TRUE)' = FrameHeight(FALSE, TRUE)
        /\ UNCHANGED <<calm, win, ifaces>> /\ StartFrame
    BY <1>11, <1>c DEF FitCondensed, env
  <2>4. pc = "fitCondensed" /\ condensed = FALSE
    BY <1>0, <1>11, Zenon DEF FitCondensed, ScreenInv
  <2>5. cpuCondensed' /\ condensed' = (FrameHeight(FALSE, TRUE) > con.height)
    BY <1>11, <2>4, Zenon DEF FitCondensed
  <2>6. Steady' => Chosen'
    <3> SUFFICES ASSUME Steady' PROVE Chosen'
      OBVIOUS
    <3>1. Steady /\ con.height = win
      BY <2>2, <2>3 DEF Steady
    <3>2. ~(FrameHeight(FALSE, FALSE) <= win)
      BY <1>j, <2>1, <2>4, <3>1, Zenon DEF ScreenInv
    <3>3. condensed' = (FrameHeight(FALSE, TRUE)' > win')
      BY <2>3, <2>5, <3>1, Zenon
    <3> QED BY <2>3, <2>5, <3>2, <3>3, Zenon DEF Chosen
  <2> QED BY <1>g, <2>3, <2>6
\* What is known, and to be shown, while a frame that fits is drawn.
<1> DEFINE Fitting == Steady /\ Framing /\ height <= win
<1>h. ASSUME Fitting
      PROVE  /\ Chosen
             /\ pc \in {"text", "newline"} => con.at = top + line - 1
             /\ \A r \in Drawn : con.screen[r] = frame[r]
  BY <1>h DEF ScreenInv, top, height, frame
<1>i. ASSUME Framing, Framing', Kept, UNCHANGED <<calm, win>>,
             con'.height = con.height,
             pc' \in {"text", "newline"} =>
               line' \in 1 .. Lines(Sections[sec], cpuCondensed)',
             Fitting =>
               /\ pc' \in {"text", "newline"} =>
                    con'.at = Top(sec, condensed, cpuCondensed)' + line' - 1
               /\ \A r \in Drawn' : con'.screen[r] = frame[r]
      PROVE  ScreenInv'
  <2>1. /\ FrameHeight(condensed, cpuCondensed)' = height
        /\ FrameText(condensed, cpuCondensed)' = frame
        /\ Steady' = Steady /\ Chosen' = Chosen
    BY <1>d, <1>i DEF Steady
  <2>2. /\ pc' \notin {"fitCondensed", "home", "remember", "sleep"}
    BY <1>i DEF Framing
  <2>3. Steady' /\ Framing' => Chosen'
    BY <1>i, <2>1 DEF ScreenInv
  <2>4. Steady' /\ FrameHeight(condensed, cpuCondensed)' <= win' => Fitting
    BY <1>i, <2>1
  <2>5. Steady' /\ Framing' /\ FrameHeight(condensed, cpuCondensed)' <= win' =>
          /\ pc' \in {"text", "newline"} =>
               con'.at = Top(sec, condensed, cpuCondensed)' + line' - 1
          /\ \A r \in Drawn' :
               con'.screen[r] = FrameText(condensed, cpuCondensed)'[r]
    BY <1>i, <2>1, <2>4
  <2>6. WholeOrBlank'
    BY <2>2 DEF WholeOrBlank, Resting
  <2> HIDE DEF Fitting, Kept
  <2> QED BY <1>i, <2>2, <2>3, <2>5, <2>6 DEF ScreenInv
<1>12. CASE MoveToSection
  <2>1. /\ Kept /\ UNCHANGED <<sec, y, calm, win>> /\ line' = 1
        /\ pc = "move" /\ pc' = "text" /\ con' = MoveTo(con, y, win)
    BY <1>12 DEF MoveToSection, flags, env
  <2>2. con'.height = con.height /\ con'.screen = con.screen
    BY <1>0, <2>1, ConsoleHeight, ConsoleScreen
  <2>3. ASSUME Fitting
        PROVE  /\ con'.at = top
               /\ \A r \in Drawn' : con'.screen[r] = frame[r]
    <3>1. y = RowOf(sec, condensed, cpuCondensed)
      BY <2>1 DEF FrameInv
    <3>2. con'.at = top
      <4>1. CASE sec = 1
        BY <1>0, <2>1, <3>1, <4>1, RowsOfFrame, ConsoleScreen DEF top, Top
      <4>2. CASE sec # 1
        <5>1. y = top /\ y \in 1..win
          BY <1>0, <1>1, <2>3, <3>1, <4>2 DEF top, Top
        <5> QED BY <1>0, <2>1, <5>1, ConsoleScreen
      <4> QED BY <4>1, <4>2
    <3>3. Drawn' = {r \in 1 .. after - 1 : r < top + 1 - 1}
      BY <1>e, <2>1 DEF Drawn
    <3>4. \A r \in Drawn' : r \in Drawn
      BY <1>1, <2>1, <3>3 DEF Drawn, top
    <3> QED BY <1>h, <2>2, <2>3, <3>2, <3>4
  <2>4. /\ Lines(Sections[sec], cpuCondensed)' = lines
        /\ Top(sec, condensed, cpuCondensed)' = top
    BY <1>e, <2>1
  <2>5. top + 1 - 1 = top /\ 1 \in 1..lines
    BY <1>1
  <2> QED BY <1>i, <2>1, <2>2, <2>3, <2>4, <2>5 DEF Framing
<1>13. CASE DrawText
  <2>1. /\ Kept /\ UNCHANGED <<sec, y, calm, win, line>>
        /\ pc = "text" /\ pc' = "newline" /\ con' = Put(con, <<Sections[sec], line>>)
    BY <1>13 DEF DrawText, flags, env, place
  <2>2. <<Sections[sec], line>> \in Texts
    BY <1>0, SectionsType DEF Texts
  <2>3. /\ con'.height = con.height /\ con'.at = con.at
        /\ con'.screen[con.at] = <<Sections[sec], line>>
        /\ \A r \in Rows : r # con.at => con'.screen[r] = con.screen[r]
    BY <1>0, <2>1, <2>2, ConsoleHeight, ConsoleScreen
  <2>4. /\ Lines(Sections[sec], cpuCondensed)' = lines
        /\ Top(sec, condensed, cpuCondensed)' = top
    BY <1>e, <2>1
  <2>5. line \in 1..lines
    BY <2>1 DEF ScreenInv, lines
  <2>6. ASSUME Fitting, NEW r \in Drawn' PROVE con'.screen[r] = frame[r]
    <3>1. r \in 1 .. after - 1 /\ r < top + line
      BY <1>e, <2>1, <2>6 DEF Drawn
    <3>2. con.at = top + line - 1
      BY <1>h, <2>1, <2>6
    <3>3. r \in Rows
      BY <1>0, <1>1, <2>6, <3>1 DEF Rows
    <3>4. CASE r < top + line - 1
      <4>1. r \in Drawn
        BY <2>1, <3>1, <3>4 DEF Drawn, after, top
      <4>2. r # con.at
        BY <1>0, <1>1, <3>1, <3>2, <3>4
      <4>3. con.screen[r] = frame[r]
        BY <1>h, <2>6, <4>1
      <4> QED BY <2>3, <3>3, <4>2, <4>3
    <3>5. CASE r = top + line - 1
      <4>1. r \in top .. after - 1 /\ r - top + 1 = line
        BY <1>0, <1>1, <2>5, <3>1, <3>5
      <4>2. frame[r] = <<Sections[sec], r - top + 1>>
        BY <1>2, <4>1 DEF HasSection, top, after
      <4> QED BY <2>3, <3>2, <3>5, <4>1, <4>2
    <3> QED BY <1>0, <1>1, <3>1, <3>4, <3>5
  <2>7. Fitting => con'.at = top + line' - 1
    BY <1>h, <2>1, <2>3
  <2>8. Framing /\ Framing'
    BY <2>1 DEF Framing
  <2>9. Fitting => \A r \in Drawn' : con'.screen[r] = frame[r]
    BY <2>6
  <2> HIDE DEF Fitting
  <2> QED BY <1>i, <2>1, <2>3, <2>4, <2>5, <2>7, <2>8, <2>9
<1>14. CASE EndLine
  <2> DEFINE c == IF line \in Styled(Sections[sec]) THEN ModeClear(con) ELSE con
  <2>1. /\ Kept /\ UNCHANGED <<sec, calm, win>>
        /\ pc = "newline" /\ con' = LineFeed(c, win)
        /\ \/ line < lines /\ line' = line + 1 /\ pc' = "text"
           \/ ~(line < lines) /\ line' = line /\ pc' = "blank"
    BY <1>14 DEF EndLine, flags, env, lines
  <2>2. /\ c \in Consoles /\ c.height = con.height
        /\ c.screen = con.screen /\ c.at = con.at
    <3>1. ModeClear(con) \in Consoles
      BY <1>0, MethodType, TRUE \in BOOLEAN
    <3> QED BY <1>0, <3>1, ConsoleHeight, ConsoleScreen
  <2> HIDE DEF c
  <2>3. con'.height = con.height
    BY <1>0, <2>1, <2>2, ConsoleHeight
  <2>4. /\ Lines(Sections[sec], cpuCondensed)' = lines
        /\ Top(sec, condensed, cpuCondensed)' = top
        /\ After(sec, condensed, cpuCondensed)' = after
    BY <1>e, <2>1
  <2>5. line \in 1..lines
    BY <2>1 DEF ScreenInv, lines
  <2>6. pc' \in {"text", "newline"} => line' \in 1..lines
    BY <1>1, <2>1, <2>5
  <2>7. ASSUME Fitting
        PROVE  con'.screen = con.screen /\ con'.at = con.at + 1
    <3>1. con.at = top + line - 1
      BY <1>h, <2>1, <2>7
    <3>2. c.at < win
      BY <1>0, <1>1, <2>2, <2>5, <2>7, <3>1
    <3> QED BY <1>0, <2>1, <2>2, <3>2, ConsoleScreen
  <2>8. Fitting /\ pc' \in {"text", "newline"} => con'.at = top + line' - 1
    <3> SUFFICES ASSUME Fitting, pc' \in {"text", "newline"}
                 PROVE  con'.at = top + line' - 1
      OBVIOUS
    <3>1. con.at = top + line - 1 /\ line' = line + 1
      BY <1>h, <2>1
    <3> QED BY <1>0, <1>1, <2>7, <3>1
  <2>9. \A r \in Drawn' : r \in Drawn
    <3>1. Drawn = {r \in 1 .. after - 1 : r < top + line}
      BY <2>1 DEF Drawn, top, after
    <3>2. CASE line < lines
      <4>1. pc' = "text" /\ line' = line + 1 /\ top + (line + 1) - 1 = top + line
        BY <1>0, <1>1, <2>1, <3>2
      <4>2. Drawn' = {r \in 1 .. after - 1 : r < top + line}
        BY <2>4, <4>1 DEF Drawn
      <4> QED BY <3>1, <4>2
    <3>3. CASE ~(line < lines)
      <4>1. pc' = "blank"
        BY <2>1, <3>3
      <4>2. Drawn' = 1 .. after - 1
        BY <2>4, <4>1 DEF Drawn
      <4>3. after <= top + line
        BY <1>1, <2>5, <3>3
      <4> QED BY <1>0, <1>1, <3>1, <4>2, <4>3
    <3> QED BY <3>2, <3>3
  <2>10. Fitting => \A r \in Drawn' : con'.screen[r] = frame[r]
    BY <1>h, <2>7, <2>9
  <2>11. Framing /\ Framing'
    BY <2>1 DEF Framing
  <2> HIDE DEF Fitting
  <2> QED BY <1>i, <2>1, <2>3, <2>4, <2>6, <2>8, <2>10, <2>11
<1>15. CASE BlankLine
  <2>1. /\ Kept /\ UNCHANGED <<line, calm, win>>
        /\ pc = "blank" /\ pc' \in {"move", "check"}
        /\ con' = IF condensed THEN con ELSE ClearEol(MoveTo(con, y, win))
    BY <1>15 DEF BlankLine, flags, env
  <2>2. \/ sec < 6 /\ sec' = sec + 1 /\ pc' = "move"
        \/ sec' = 1 /\ pc' = "move"
        \/ sec = 6 /\ pc' = "check"
    BY <1>15, SectionsType DEF BlankLine
  <2>3. MoveTo(con, y, win) \in Consoles
    <3>1. Blank \in Texts
      BY DEF Blank, Texts, Titles
    <3> QED BY <1>0, <3>1, TerminalType DEF MoveTo
  <2>4. con'.height = con.height
    BY <1>0, <2>1, <2>3, ConsoleHeight
  <2>5. y = after
    BY <2>1 DEF FrameInv, after, After
  <2>6. ASSUME Fitting, NEW r \in 1 .. after + gap - 1
        PROVE  con'.screen[r] = frame[r]
    <3>1. r \in Rows
      BY <1>0, <1>1, <2>6 DEF Rows
    <3>2. r < after => r \in Drawn
      BY <1>1, <2>1 DEF Drawn, after
    <3>3. CASE condensed
      <4>1. con' = con /\ r < after
        BY <1>1, <2>1, <3>3 DEF gap, Gap
      <4> QED BY <1>h, <2>6, <3>2, <4>1
    <3>4. CASE ~condensed
      <4> DEFINE c == MoveTo(con, y, win)
      <4>1. con' = Put(c, Blank) /\ Blank \in Texts
        BY <2>1, <3>4 DEF ClearEol, Blank, Texts, Titles
      <4>2. gap = 1 /\ after \in 1..win
        BY <1>0, <1>1, <2>6, <3>4 DEF gap, Gap
      <4>3. c.at = after /\ c.screen = con.screen
        BY <1>0, <2>5, <4>2, ConsoleScreen
      <4> HIDE DEF c
      <4>4. /\ con'.screen[after] = Blank
            /\ r # after => con'.screen[r] = con.screen[r]
        BY <1>0, <2>3, <3>1, <4>1, <4>3, ConsoleScreen DEF c
      <4>5. frame[after] = Blank
        BY <1>2, <3>4 DEF HasSection, after
      <4>6. r # after => r < after
        BY <1>1, <4>2
      <4> QED BY <1>h, <2>6, <3>2, <4>4, <4>5, <4>6
    <3> QED BY <3>3, <3>4
  <2>7. \A r \in Drawn' : r \in 1 .. after + gap - 1
    <3>1. CASE sec < 6 /\ sec' = sec + 1 /\ pc' = "move"
      <4>1. Top(sec, condensed, cpuCondensed)' = Top(sec', condensed, cpuCondensed)
        <5>1. RowOf(sec, condensed, cpuCondensed)' = RowOf(sec', condensed, cpuCondensed)
          BY <1>0, <2>1, RowsKept DEF RowOf, ClaimOf
        <5> QED BY <5>1 DEF Top
      <4>2. after + gap = Top(sec + 1, condensed, cpuCondensed)
        BY <1>0, <3>1, RowsOfSection DEF after, gap
      <4>3. Top(sec, condensed, cpuCondensed)' = after + gap
        BY <3>1, <4>1, <4>2
      <4>4. Drawn' = 1 .. Top(sec, condensed, cpuCondensed)' - 1
        BY <3>1 DEF Drawn
      <4>5. Drawn' = 1 .. after + gap - 1
        BY <1>1, <4>3, <4>4
      <4> QED BY <1>1, <4>5
    <3>2. CASE sec' = 1 /\ pc' = "move"
      <4>1. Drawn' = 1 .. 1 - 1
        BY <3>2 DEF Drawn, Top
      <4> QED BY <4>1
    <3>3. CASE sec = 6 /\ pc' = "check"
      <4>1. after + gap = height
        BY <1>0, <3>3, RowsOfSection DEF after, gap, height
      <4>2. Drawn' = 1 .. height - 1
        BY <1>d, <2>1, <3>3 DEF Drawn
      <4> QED BY <1>1, <4>1, <4>2
    <3> QED BY <2>2, <3>1, <3>2, <3>3
  <2>8. Fitting => \A r \in Drawn' : con'.screen[r] = frame[r]
    BY <2>6, <2>7
  <2>9. Framing /\ Framing' /\ pc' \notin {"text", "newline"}
    BY <2>1 DEF Framing
  <2> HIDE DEF Fitting
  <2> QED BY <1>i, <2>1, <2>4, <2>8, <2>9
<1>16. CASE Check
  <2>1. /\ pc = "check" /\ UNCHANGED <<ifaces, calm, win, con>>
        /\ \/ pc' = "erase"
           \/ pc' = "sleep" /\ ~(y > con.height)
    BY <1>16 DEF Check, env
  <2>2. CASE pc' = "erase"
    BY <1>a, <2>2
  <2>3. CASE pc' = "sleep" /\ ~(y > con.height)
    <3>1. WholeOrBlank'
      <4> SUFFICES ASSUME Resting' PROVE Shows(BestFrame)'
        BY DEF WholeOrBlank
      <4>1. Steady /\ Framing
        BY <2>1 DEF Resting, Steady, Framing
      <4>2. BestFrame' = frame
        BY <1>c, <2>1, <4>1, ChosenIsBest DEF ScreenInv, frame
      <4>3. y = height
        BY <2>1 DEF FrameInv, RenderAgrees, height
      <4>4. height <= win
        BY <1>0, <1>1, <2>3, <4>1, <4>3 DEF Steady
      <4>5. Drawn = 1 .. height - 1
        BY <2>1 DEF Drawn, height
      <4>6. \A r \in 1 .. Len(frame) : r \in Rows /\ con'.screen[r] = frame[r]
        BY <1>0, <1>1, <1>2, <1>h, <2>1, <4>1, <4>4, <4>5 DEF Rows
      <4> QED BY <4>2, <4>6 DEF Shows
    <3> QED BY <2>3, <3>1 DEF ScreenInv, Framing
  <2> QED BY <2>1, <2>2, <2>3
<1>17. CASE EraseFrame
  <2>1. pc' = "home" /\ con' = Erase(con)
    BY <1>17 DEF EraseFrame
  <2>2. AllBlank'
    BY <1>0, <2>1, ConsoleScreen DEF AllBlank
  <2> QED BY <2>1, <2>2 DEF ScreenInv, Framing, WholeOrBlank, Resting
<1>18. CASE HomeCursor
  <2>1. /\ pc = "home" /\ pc' = "remember" /\ con' = MoveTo(con, 0, win)
        /\ UNCHANGED <<calm, win>>
    BY <1>18 DEF HomeCursor, env
  <2>2. con'.height = con.height /\ con'.screen = con.screen
    BY <1>0, <2>1, ConsoleHeight, ConsoleScreen
  <2>3. Steady' => AllBlank'
    BY <2>1, <2>2 DEF ScreenInv, Steady, AllBlank
  <2> QED BY <2>1, <2>3 DEF ScreenInv, Framing, WholeOrBlank, Resting
<1>19. CASE Remember
  <2>1. /\ pc = "remember" /\ pc' = "sleep"
        /\ UNCHANGED <<calm, win, con, ifaces>>
    BY <1>19 DEF Remember, env
  <2>2. Resting' => AllBlank'
    BY <2>1 DEF ScreenInv, Steady, AllBlank, Resting
  <2> QED BY <2>1, <2>2 DEF ScreenInv, Framing, WholeOrBlank
<1> QED
  BY <1>3, <1>4, <1>5, <1>6, <1>7, <1>8, <1>9, <1>10, <1>11, <1>12, <1>13,
     <1>14, <1>15, <1>16, <1>17, <1>18, <1>19 DEF Next, Main, Render, Repair, Ended

\* Whenever main sleeps after an undisturbed round, the user sees every line of
\* the most detailed frame that fits, each on its row, or a clear screen: for
\* every window, every number of processors, disks and interfaces, and however
\* many lines memory draws beyond its claim, as long as later sections cover them.
THEOREM UserSeesWholeFrames == Spec => []WholeOrBlank
<1>1. Init => FrameInv /\ ScreenInv
  BY DEF Init, FrameInv, RenderAgrees, ScreenInv, Steady, Framing, WholeOrBlank,
         Resting
<1>2. FrameInv /\ ScreenInv => WholeOrBlank
  BY DEF ScreenInv
<1> QED BY <1>1, <1>2, TypeCorrect, FrameStep, ScreenStep, PTL DEF Spec
=============================================================================
