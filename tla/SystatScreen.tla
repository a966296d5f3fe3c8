----------------------------- MODULE SystatScreen -----------------------------
(***************************************************************************)
(* What the user of systat sees: the frame as a list of rows, written      *)
(* without rows, cursors or claims, and the screen compared with it.       *)
(***************************************************************************)
EXTENDS Systat, SequencesExt

\* What memory.print draws beyond its claim, the sections below draw again:
\* disk, paging and the heading of the network.
ASSUME ScreenAssumption == MemoryLines <= 3 + (1 + DiskLines) + 4 + 1

\* A section draws on rows of its own as many lines as it claims; memory.print
\* of MacOS draws more, on the rows of the sections below.
Own(s, few) == {i \in 1..Lines(s, few) : i <= Claim(s, few)}
SectionText(s, few) == [i \in Own(s, few) |-> <<s, i>>]

FrameText(tight, few) ==
  FlattenSeq([i \in DOMAIN Sections |->
    SectionText(Sections[i], few) \o (IF tight THEN <<>> ELSE <<Blank>>)])

\* A frame fits when a row is left for the cursor below it.
FitsIn(frame, height) == Len(frame) < height

\* The most detailed frame for the window.
BestFrame ==
  CASE FitsIn(FrameText(FALSE, FALSE), win) -> FrameText(FALSE, FALSE)
    [] FitsIn(FrameText(FALSE, TRUE), win) /\ ~FitsIn(FrameText(FALSE, FALSE), win)
         -> FrameText(FALSE, TRUE)
    [] OTHER -> FrameText(TRUE, TRUE)

Shows(frame) == \A r \in 1..Len(frame) : r \in Rows /\ con.screen[r] = frame[r]
AllBlank == \A r \in Rows : con.screen[r] = Blank

\* The second of sleep after an undisturbed update and render.
Resting == pc = "sleep" /\ calm /\ con.height = win

-----------------------------------------------------------------------------
(* Properties                                                              *)

\* The user never rests his eyes on half a frame: every line of the most
\* detailed frame that fits the window is on its row and no line overprints
\* another, or the screen is clear (main.cpp:78-91 and 109-111).  On MacOS the
\* five lines too many of memory.print are gone by then (mac/Memory.cpp:98-110).
WholeOrBlank == Resting => Shows(BestFrame) \/ AllBlank

\* When the window stops changing and can hold a frame, the seconds that
\* follow show one for good.
Settles ==
  <>[](con.height = win /\ FrameHeight(TRUE, TRUE) - ifaces + MaxIfaces <= win)
    => <>[](pc = "sleep" => Shows(BestFrame))

-----------------------------------------------------------------------------
(* What the documentation says of the program and the code does not do.    *)

\* "print a message and exit cleanly" (Console.h:54): after Console::abort no
\* further frame is drawn.
AbortExits == con.aborting => pc # "text"
=============================================================================
