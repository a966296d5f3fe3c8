----------------------------- MODULE HeadingProofs -----------------------------
(***************************************************************************)
(* The heading for every title, every width of the window and every moment *)
(* a signal may come.                                                      *)
(***************************************************************************)
EXTENDS Heading, TLAPS

-----------------------------------------------------------------------------
(* The calls of a frame                                                    *)

Bare == {"text", "clear_eol", "newline"}

LEMMA FrameLength == Len(Frame) = 25
BY DEF Frame

LEMMA FrameCalls ==
  /\ \A i \in {1, 17} : Frame[i] = "bg_white"
  /\ \A i \in {2, 18} : Frame[i] = "fg_black"
  /\ \A i \in {7, 11} : Frame[i] = "bold"
  /\ \A i \in {5, 9, 13, 21} : Frame[i] = "mode_clear"
  /\ \A i \in {3, 4, 6, 8, 10, 12, 14, 15, 16, 19, 20, 22, 23, 24, 25} : Frame[i] \in Bare
BY DEF Frame, Bare

\* What the terminal draws with before the call i of a frame.
InkAt(i) ==
  CASE i \in {2, 18} -> [modes |-> {}, bg |-> "white", fg |-> Unset]
    [] i \in {3, 4, 5, 19, 20, 21} -> [modes |-> {}, bg |-> "white", fg |-> "black"]
    [] i \in {8, 9, 12, 13} -> [modes |-> {"bold"}, bg |-> Unset, fg |-> Unset]
    [] OTHER -> Plain

\* Every newline finds the pen plain.
LEMMA PlainAtNewline ==
  ASSUME NEW i \in 1 .. 25, Frame[i] = "newline"
  PROVE  InkAt(i) = Plain
<1>1. i \notin {2, 3, 4, 5, 8, 9, 12, 13, 18, 19, 20, 21}
  BY DEF Frame
<1> QED BY <1>1 DEF InkAt

LEMMA DrawType ==
  ASSUME NEW p \in Pens, NEW call
  PROVE  Draw(call, p) \in Pens
BY DEF Draw, Pens, Ink, Plain, Background, Foreground, SetColour, SetMode,
       SetModeOff, Colours, Modes, Unset

LEMMA InkValues ==
  /\ \A i \in {2, 18} : InkAt(i) = [modes |-> {}, bg |-> "white", fg |-> Unset]
  /\ \A i \in {3, 4, 5, 19, 20, 21} : InkAt(i) = [modes |-> {}, bg |-> "white", fg |-> "black"]
  /\ \A i \in {8, 9, 12, 13} : InkAt(i) = [modes |-> {"bold"}, bg |-> Unset, fg |-> Unset]
  /\ \A i \in {1, 6, 7, 10, 11, 14, 15, 16, 17, 22, 23, 24, 25, 26} : InkAt(i) = Plain
BY DEF InkAt

\* What the calls that change the pen do to the terminal.
LEMMA DrawCalls ==
  ASSUME NEW p \in Pens
  PROVE  /\ Draw("bg_white", p).tty = [modes |-> p.tty.modes, bg |-> "white", fg |-> p.tty.fg]
         /\ Draw("fg_black", p).tty = [modes |-> p.tty.modes, bg |-> p.tty.bg, fg |-> "black"]
         /\ Draw("bold", p).tty = [modes |-> p.tty.modes \cup {"bold"},
                                   bg |-> p.tty.bg, fg |-> p.tty.fg]
         /\ Draw("mode_clear", p).tty = Plain
         /\ \A call \in Bare : Draw(call, p) = p
<1>1. /\ Draw("bg_white", p) = Background(p, "white")
      /\ Draw("fg_black", p) = Foreground(p, "black")
      /\ Draw("bold", p) = SetMode(p, "bold", TRUE)
      /\ Draw("mode_clear", p) = SetModeOff(p)
      /\ \A call \in Bare : Draw(call, p) = p
  BY DEF Draw, Bare
<1>2. Background(p, "white").tty = [modes |-> p.tty.modes, bg |-> "white", fg |-> p.tty.fg]
  BY DEF Background, SetColour, Pens, Ink
<1>3. Foreground(p, "black").tty = [modes |-> p.tty.modes, bg |-> p.tty.bg, fg |-> "black"]
  BY DEF Foreground, SetColour, Pens, Ink
<1>4. SetMode(p, "bold", TRUE).tty
        = [modes |-> p.tty.modes \cup {"bold"}, bg |-> p.tty.bg, fg |-> p.tty.fg]
  BY DEF SetMode, Pens, Ink
<1>5. SetModeOff(p).tty = Plain
  BY DEF SetModeOff, Pens, Ink
<1> QED BY <1>1, <1>2, <1>3, <1>4, <1>5

\* A call takes the ink of its place to the ink of the next.
LEMMA DrawInk ==
  ASSUME NEW p \in Pens, NEW i \in 1 .. 25, p.tty = InkAt(i)
  PROVE  Draw(Frame[i], p).tty = InkAt(i + 1)
<1>1. CASE i \in {1, 17}
  <2>1. Frame[i] = "bg_white"
    BY <1>1, FrameCalls
  <2>2. p.tty = Plain
    BY <1>1, InkValues
  <2>3. InkAt(i + 1) = [modes |-> {}, bg |-> "white", fg |-> Unset]
    BY <1>1, InkValues
  <2>4. Draw("bg_white", p).tty = [modes |-> p.tty.modes, bg |-> "white", fg |-> p.tty.fg]
    BY DrawCalls
  <2> QED BY <2>1, <2>2, <2>3, <2>4 DEF Plain
<1>2. CASE i \in {2, 18}
  <2>1. Frame[i] = "fg_black"
    BY <1>2, FrameCalls
  <2>2. p.tty = [modes |-> {}, bg |-> "white", fg |-> Unset]
    BY <1>2, InkValues
  <2>3. InkAt(i + 1) = [modes |-> {}, bg |-> "white", fg |-> "black"]
    BY <1>2, InkValues
  <2>4. Draw("fg_black", p).tty = [modes |-> p.tty.modes, bg |-> p.tty.bg, fg |-> "black"]
    BY DrawCalls
  <2> QED BY <2>1, <2>2, <2>3, <2>4
<1>3. CASE i \in {7, 11}
  <2>1. Frame[i] = "bold"
    BY <1>3, FrameCalls
  <2>2. p.tty = Plain
    BY <1>3, InkValues
  <2>3. InkAt(i + 1) = [modes |-> {"bold"}, bg |-> Unset, fg |-> Unset]
    BY <1>3, InkValues
  <2>4. Draw("bold", p).tty = [modes |-> p.tty.modes \cup {"bold"},
                              bg |-> p.tty.bg, fg |-> p.tty.fg]
    BY DrawCalls
  <2> QED BY <2>1, <2>2, <2>3, <2>4 DEF Plain
<1>4. CASE i \in {5, 9, 13, 21}
  <2>1. Frame[i] = "mode_clear"
    BY <1>4, FrameCalls
  <2>2. InkAt(i + 1) = Plain
    BY <1>4, InkValues
  <2>3. Draw("mode_clear", p).tty = Plain
    BY DrawCalls
  <2> QED BY <2>1, <2>2, <2>3
<1>5. CASE i \in {3, 4, 6, 8, 10, 12, 14, 15, 16, 19, 20, 22, 23, 24, 25}
  <2>1. Draw(Frame[i], p) = p
    BY <1>5, FrameCalls, DrawCalls
  <2>2. InkAt(i + 1) = InkAt(i)
    BY <1>5, InkValues
  <2> QED BY <2>1, <2>2
<1> QED BY <1>1, <1>2, <1>3, <1>4, <1>5

-----------------------------------------------------------------------------
(* Type correctness                                                        *)

\* A frame is being drawn while one is left to draw.
DrawsLeft == pc \in {"size", "title", "fill", "draw"} => draws \in 1 .. 2

LEMMA InitType == Init => TypeOK /\ DrawsLeft
<1> SUFFICES ASSUME Init PROVE TypeOK /\ DrawsLeft
  OBVIOUS
<1>1. Fresh \in Pens
  BY DEF Fresh, Pens, Ink, Plain, Unset
<1>2. None \in [width : Nat, columns : Nat]
  BY DEF None
<1>3. at \in 1 .. Len(Frame) + 1
  BY FrameLength DEF Init
<1>4. junk \in 0 .. MaxJunk /\ draws \in 0 .. 2 /\ alive \in BOOLEAN
  BY HeadingAssumption DEF Init
<1>5. /\ pen \in Pens /\ tint \in BOOLEAN /\ calm \in BOOLEAN
      /\ out \in [width : Nat, columns : Nat]
  BY <1>1, <1>2 DEF Init
<1> QED BY <1>3, <1>4, <1>5 DEF Init, TypeOK, DrawsLeft

LEMMA WindowType ==
  ASSUME NEW w \in Windows PROVE w.width \in Nat /\ w.height \in Heights /\ w.height \in Nat
BY HeadingAssumption DEF Windows

LEMMA SpacesType ==
  ASSUME TypeOK PROVE Spaces(out.width) \in Int
<1>1. out.width \in Int
  BY DEF TypeOK
<1>2. console.width \in Int
  BY WindowType DEF TypeOK
<1>3. CASE system = "mac"
  BY <1>1, <1>3, HeadingAssumption DEF Spaces
<1>4. CASE system # "mac"
  BY <1>2, <1>4, HeadingAssumption DEF Spaces
<1> QED BY <1>3, <1>4

LEMMA NextType == TypeOK /\ DrawsLeft /\ [Next]_vars => TypeOK' /\ DrawsLeft'
<1> SUFFICES ASSUME TypeOK, DrawsLeft, [Next]_vars PROVE TypeOK' /\ DrawsLeft'
  OBVIOUS
<1> USE HeadingAssumption, FrameLength
<1>1. CASE Update
  <2>1. ResetPen(pen) \in Pens
    BY DEF TypeOK, ResetPen, SetModeOff, Plain, Pens, Ink, Unset
  <2>2. pen' \in Pens /\ tint' \in BOOLEAN
    BY <1>1, <2>1 DEF Update, TypeOK
  <2>3. draws' \in 1 .. 2 /\ pc' \in {"size", "end"}
    BY <1>1 DEF Update
  <2> QED BY <1>1, <2>2, <2>3 DEF TypeOK, DrawsLeft, Update, ghosts
<1>2. CASE Size
  <2>1. out' \in [width : Nat, columns : Nat]
    BY <1>2, WindowType DEF TypeOK, Size
  <2>2. junk' \in 0 .. MaxJunk /\ calm' \in BOOLEAN
    BY <1>2 DEF Size
  <2> QED BY <1>2, <2>1, <2>2 DEF TypeOK, DrawsLeft, Size
<1>3. CASE PrintTitle
  BY <1>3 DEF TypeOK, DrawsLeft, PrintTitle, ghosts
<1>4. CASE Fill
  <2>1. junk' \in 0 .. MaxJunk
    BY <1>4 DEF Fill
  <2>2. out' \in [width : Nat, columns : Nat]
    BY <1>4, <2>1, SpacesType DEF Fill, TypeOK
  <2> QED BY <1>4, <2>1, <2>2 DEF TypeOK, DrawsLeft, Fill, ghosts
<1>5. CASE Call
  <2>1. pen' \in Pens
    BY <1>5, DrawType DEF Call, TypeOK
  <2> QED BY <1>5, <2>1 DEF TypeOK, DrawsLeft, Call, ghosts
<1>6. CASE EndFrame
  BY <1>6 DEF TypeOK, DrawsLeft, EndFrame, ghosts
<1>7. CASE Check
  BY <1>7 DEF TypeOK, DrawsLeft, Check, Windows
<1>8. CASE Wake
  BY <1>8 DEF TypeOK, DrawsLeft, Wake, ghosts
<1>9. CASE Interrupt
  BY <1>9 DEF TypeOK, DrawsLeft, Interrupt, ghosts
<1>10. ASSUME NEW w \in Windows, Winch(w) PROVE TypeOK' /\ DrawsLeft'
  BY <1>10 DEF TypeOK, DrawsLeft, Winch, Windows
<1>11. CASE UNCHANGED vars
  BY <1>11 DEF TypeOK, DrawsLeft, vars
<1> QED
  BY <1>1, <1>2, <1>3, <1>4, <1>5, <1>6, <1>7, <1>8, <1>9, <1>10, <1>11 DEF Next, Step

\* Every variable keeps its type.
THEOREM TypeCorrect == Spec => []TypeOK
<1>1. Init => TypeOK /\ DrawsLeft
  BY InitType
<1>2. TypeOK /\ DrawsLeft /\ [Next]_vars => (TypeOK /\ DrawsLeft)'
  BY NextType
<1> QED BY <1>1, <1>2, PTL DEF Spec

-----------------------------------------------------------------------------
(* The pen                                                                 *)

\* The ink of the terminal is that of the place in the frame, and plain
\* everywhere else.
PenKnown == pen.tty = IF pc = "draw" THEN InkAt(at) ELSE Plain

LEMMA PenStep == TypeOK /\ PenKnown /\ [Next]_vars => PenKnown'
<1> SUFFICES ASSUME TypeOK, PenKnown, [Next]_vars PROVE PenKnown'
  OBVIOUS
<1>1. CASE Update
  <2>1. ResetPen(pen).tty = Plain
    BY DEF TypeOK, ResetPen, SetModeOff, Pens, Ink
  <2> QED BY <1>1, <2>1 DEF PenKnown, Update
<1>2. CASE Size
  BY <1>2 DEF PenKnown, Size
<1>3. CASE PrintTitle
  BY <1>3 DEF PenKnown, PrintTitle
<1>4. CASE Fill
  <2>1. pen.tty = Plain /\ InkAt(1) = Plain
    BY <1>4, InkValues DEF PenKnown, Fill
  <2> QED BY <1>4, <2>1 DEF PenKnown, Fill
<1>5. CASE Call
  <2>1. at \in 1 .. 25 /\ pen.tty = InkAt(at)
    BY <1>5, FrameLength DEF TypeOK, PenKnown, Call
  <2>2. pen'.tty = InkAt(at + 1)
    BY <1>5, <2>1, DrawInk DEF TypeOK, Call
  <2> QED BY <1>5, <2>2 DEF PenKnown, Call
<1>6. CASE EndFrame
  <2>1. at = 26
    BY <1>6, FrameLength DEF TypeOK, EndFrame
  <2>2. pen.tty = Plain
    BY <1>6, <2>1, InkValues DEF PenKnown, EndFrame
  <2> QED BY <1>6, <2>2 DEF PenKnown, EndFrame
<1>7. CASE Check
  BY <1>7 DEF PenKnown, Check
<1>8. CASE Wake
  BY <1>8 DEF PenKnown, Wake
<1>9. CASE Interrupt
  BY <1>9 DEF PenKnown, Interrupt
<1>10. ASSUME NEW w \in Windows, Winch(w) PROVE PenKnown'
  BY <1>10 DEF PenKnown, Winch
<1>11. CASE UNCHANGED vars
  BY <1>11 DEF PenKnown, vars
<1> QED
  BY <1>1, <1>2, <1>3, <1>4, <1>5, <1>6, <1>7, <1>8, <1>9, <1>10, <1>11 DEF Next, Step

LEMMA PenImplies == TypeOK /\ PenKnown => PenIsPlain
<1> SUFFICES ASSUME TypeOK, PenKnown, pc = "draw", at > Len(Frame) \/ Frame[at] = "newline"
             PROVE  pen.tty = Plain
  BY DEF PenIsPlain, PenKnown
<1>1. pen.tty = InkAt(at) /\ at \in 1 .. 26
  BY FrameLength DEF PenKnown, TypeOK
<1>2. CASE at = 26
  BY <1>1, <1>2, InkValues
<1>3. CASE at # 26
  BY <1>1, <1>3, FrameLength, PlainAtNewline
<1> QED BY <1>2, <1>3

\* No colour and no mode outlives its line, whatever interrupts it.
THEOREM PenIsAlwaysPlain == Spec => []PenIsPlain
<1>1. Init => PenKnown
  BY DEF Init, PenKnown, Fresh
<1>2. TypeOK /\ PenKnown /\ [Next]_vars => PenKnown'
  BY PenStep
<1>3. TypeOK /\ PenKnown => PenIsPlain
  BY PenImplies
<1> QED BY <1>1, <1>2, <1>3, TypeCorrect, PTL DEF Spec

-----------------------------------------------------------------------------
(* The rows a handler has tinted                                           *)

\* A tint is of the last change of the window.
TintKnown ==
  /\ tint => tinted_at = console.height
  /\ TintKeptHeight

LEMMA TintStep == TypeOK /\ PenKnown /\ TintKnown /\ [Next]_vars => TintKnown'
<1> SUFFICES ASSUME TypeOK, PenKnown, TintKnown, [Next]_vars PROVE TintKnown'
  OBVIOUS
<1> USE DEF TintKnown, TintKeptHeight
<1>1. CASE Update
  BY <1>1 DEF Update, ghosts
<1>2. CASE Size
  BY <1>2 DEF Size
<1>3. CASE PrintTitle
  BY <1>3 DEF PrintTitle, ghosts
<1>4. CASE Fill
  BY <1>4 DEF Fill, ghosts
<1>5. CASE Call
  BY <1>5 DEF Call, ghosts
<1>6. CASE EndFrame
  BY <1>6 DEF EndFrame, ghosts
<1>7. CASE Check
  <2>1. pen.tty.bg = Unset
    BY <1>7 DEF PenKnown, Check, Plain
  <2>2. CASE console.height # last_height
    BY <1>7, <2>1, <2>2 DEF Check
  <2>3. CASE console.height = last_height
    BY <1>7, <2>3 DEF Check
  <2> QED BY <2>2, <2>3
<1>8. CASE Wake
  BY <1>8 DEF Wake, ghosts
<1>9. CASE Interrupt
  BY <1>9 DEF Interrupt, ghosts
<1>10. ASSUME NEW w \in Windows, Winch(w) PROVE TintKnown'
  BY <1>10 DEF Winch
<1>11. CASE UNCHANGED vars
  BY <1>11 DEF vars
<1> QED
  BY <1>1, <1>2, <1>3, <1>4, <1>5, <1>6, <1>7, <1>8, <1>9, <1>10, <1>11 DEF Next, Step

\* A window erased in the colour of a heading stays so only if it kept its
\* height.
THEOREM TintNeedsHeight == Spec => []TintKeptHeight
<1>1. Init => PenKnown /\ TintKnown
  BY DEF Init, PenKnown, Fresh, TintKnown, TintKeptHeight
<1>2. TypeOK /\ PenKnown /\ TintKnown /\ [Next]_vars => PenKnown' /\ TintKnown'
  BY PenStep, TintStep
<1>3. TintKnown => TintKeptHeight
  BY DEF TintKnown
<1> QED BY <1>1, <1>2, <1>3, TypeCorrect, PTL DEF Spec

-----------------------------------------------------------------------------
(* The buffer of the heading                                               *)

\* While the heading is put together nothing has changed, or calm says so;
\* the title is in the buffer before the fill.
Placed ==
  /\ pc \in {"title", "fill"} /\ system = "linux" /\ calm => console.width = out.width
  /\ pc = "fill" => out.columns = Title /\ Title <= out.width
  /\ HeadingInRow
  /\ OverrunHasCause

LEMMA PlacedStep == TypeOK /\ Placed /\ [Next]_vars => Placed'
<1> SUFFICES ASSUME TypeOK, Placed, [Next]_vars PROVE Placed'
  OBVIOUS
<1> USE DEF Placed, HeadingInRow, OverrunHasCause
<1>1. CASE Update
  BY <1>1 DEF Update
<1>2. CASE Size
  BY <1>2 DEF Size
<1>3. CASE PrintTitle
  <2>1. /\ out'.columns = Title /\ out'.width = out.width
        /\ out.width \in Nat /\ Title \in Nat /\ Clock \in Nat
    BY <1>3, HeadingAssumption DEF PrintTitle, TypeOK
  <2> QED BY <1>3, <2>1 DEF PrintTitle, ghosts
<1>4. CASE Fill
  <2> DEFINE n == Spaces(out.width)
  <2>1. /\ n \in Int /\ out.width \in Nat /\ Title \in Nat /\ Clock \in Nat
        /\ out.columns = Title /\ junk' \in Nat
    BY <1>4, SpacesType, HeadingAssumption DEF TypeOK, Fill, ghosts
  <2>2. ~(system = "linux" /\ ~calm) => n = out.width - Title - Clock - 1
    BY <1>4 DEF Spaces, Fill, TypeOK
  <2>3. /\ out'.width = out.width
        /\ out'.columns = Title + (IF n >= 0 THEN n ELSE 0) + junk' + Clock
        /\ pc' = IF n >= 0 /\ out'.columns <= out.width THEN "draw" ELSE "overrun"
    BY <1>4, <2>1 DEF Fill, TypeOK
  <2> HIDE DEF n
  <2>4. calm' = calm /\ system' = system
    BY <1>4 DEF Fill, ghosts
  <2>5. ASSUME pc' = "draw", calm', junk' = 0 PROVE out'.columns + 1 = out'.width
    <3>1. n >= 0 /\ n = out.width - Title - Clock - 1
      BY <2>1, <2>2, <2>3, <2>4, <2>5
    <3>2. out'.columns = Title + n + Clock
      BY <2>1, <2>3, <2>5, <3>1
    <3> QED BY <2>1, <2>3, <3>1, <3>2
  <2>6. ASSUME pc' = "overrun", ~(junk' > 0), ~(system' = "linux" /\ ~calm')
        PROVE  out'.width < Title + Clock + 1
    <3>1. junk' = 0 /\ n = out.width - Title - Clock - 1
      BY <2>1, <2>2, <2>4, <2>6
    <3>2. CASE n < 0
      BY <2>1, <2>3, <3>1, <3>2
    <3>3. CASE n >= 0
      <4>1. out'.columns = Title + n + Clock
        BY <2>1, <2>3, <3>1, <3>3
      <4>2. out'.columns <= out'.width
        BY <2>1, <2>3, <3>1, <4>1
      <4> QED BY <2>3, <2>6, <3>3, <4>2
    <3> QED BY <2>1, <3>2, <3>3
  <2> QED BY <2>3, <2>5, <2>6
<1>5. CASE Call
  BY <1>5 DEF Call, ghosts
<1>6. CASE EndFrame
  BY <1>6 DEF EndFrame
<1>7. CASE Check
  BY <1>7 DEF Check
<1>8. CASE Wake
  BY <1>8 DEF Wake
<1>9. CASE Interrupt
  BY <1>9 DEF Interrupt, ghosts, Running
<1>10. ASSUME NEW w \in Windows, Winch(w) PROVE Placed'
  BY <1>10 DEF Winch, Running
<1>11. CASE UNCHANGED vars
  BY <1>11 DEF vars
<1> QED
  BY <1>1, <1>2, <1>3, <1>4, <1>5, <1>6, <1>7, <1>8, <1>9, <1>10, <1>11 DEF Next, Step

LEMMA PlacedAlways == Spec => []Placed
<1>1. Init => Placed
  BY DEF Init, Placed, HeadingInRow, OverrunHasCause
<1>2. TypeOK /\ Placed /\ [Next]_vars => Placed'
  BY PlacedStep
<1> QED BY <1>1, <1>2, TypeCorrect, PTL DEF Spec

\* The heading fits its row, whatever the title and the width.
THEOREM HeadingFits == Spec => []HeadingInRow
<1>1. Placed => HeadingInRow
  BY DEF Placed
<1> QED BY <1>1, PlacedAlways, PTL

\* out is overrun for no other cause than the three.
THEOREM OverrunIsExplained == Spec => []OverrunHasCause
<1>1. Placed => OverrunHasCause
  BY DEF Placed
<1> QED BY <1>1, PlacedAlways, PTL
=============================================================================
