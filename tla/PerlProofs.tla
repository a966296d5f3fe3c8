------------------------------ MODULE PerlProofs ------------------------------
(***************************************************************************)
(* The columns, the types and the screen of the Perl original, for any    *)
(* number of resizes, seconds, keys and counts.                            *)
(***************************************************************************)
EXTENDS PerlSystat, TLAPS

\* The kernel counts in whole numbers, and a machine that runs has paged.
KernelCounts ==
  /\ kernel \in [Counters -> Nat] /\ kernel["page"] > 0
  /\ online \in BOOLEAN

\* The columns are sums of whole numbers.
ColumnsType ==
  /\ initial \in Int /\ current \in Int /\ first \in Int
  /\ last \in [Kept -> Int]
  /\ aggregate \in [Counters -> Int] /\ sums \in [Counters -> Int]

\* What the program keeps of a counter is what its columns have shown.
ColumnsAgree ==
  /\ sums["cpu"] = current - initial /\ aggregate["cpu"] = current - initial
  /\ \A c \in Kept : aggregate[c] = last[c]
  /\ \A c \in {"disk", "swpin", "swpout"} : sums[c] = last[c]
  /\ sums["page"] = last["page"] - first
  /\ last["page"] = 0 => first = 0 /\ last["swpin"] = 0 /\ last["swpout"] = 0
  /\ pc = "init" => initial = 0 /\ current = 0

ColumnsInv == KernelCounts /\ ColumnsType /\ ColumnsAgree

LEMMA CounterNames ==
  /\ Counters = {"cpu", "disk", "page", "swpin", "swpout"}
  /\ Kept = {"disk", "page", "swpin", "swpout"}
BY DEF Counters, Kept

LEMMA InitColumns == Init => ColumnsInv
<1> SUFFICES ASSUME Init PROVE ColumnsInv
  OBVIOUS
<1>1. KernelCounts
  <2>1. kernel = [c \in Counters |-> IF c = "disk" THEN 0 ELSE 1] /\ online \in BOOLEAN
    BY DEF Init
  <2> QED BY <2>1, CounterNames DEF KernelCounts
<1>2. ColumnsType
  BY DEF Init, ColumnsType
<1>3. ColumnsAgree
  BY CounterNames DEF Init, ColumnsAgree
<1> QED BY <1>1, <1>2, <1>3 DEF ColumnsInv

\* A step of the program that neither starts nor draws keeps the columns.
LEMMA OtherColumns ==
  ASSUME ColumnsInv, pc' # "init",
         UNCHANGED <<kernel, online, initial, current, last, aggregate, sums, first>>
  PROVE  ColumnsInv'
BY DEF ColumnsInv, KernelCounts, ColumnsType, ColumnsAgree

LEMMA InitStateColumns ==
  ASSUME ColumnsInv, InitState
  PROVE  ColumnsInv'
<1> USE DEF ColumnsInv
<1>1. /\ pc = "init" /\ pc' # "init"
      /\ kernel' = kernel /\ online' = online /\ last' = last
      /\ aggregate' = aggregate /\ sums' = sums /\ first' = first
      /\ initial' = current'
      /\ current' \in {0, kernel["cpu"]}
  BY DEF InitState, files, ColumnsAgree
<1>2. kernel["cpu"] \in Int /\ current' \in Int
  BY <1>1, CounterNames DEF KernelCounts
<1>3. sums["cpu"] = 0 /\ aggregate["cpu"] = 0 /\ current' - initial' = 0
  <2>1. /\ sums["cpu"] = current - initial /\ aggregate["cpu"] = current - initial
        /\ current = 0 /\ initial = 0
    BY <1>1 DEF ColumnsAgree
  <2>2. sums["cpu"] = 0 /\ aggregate["cpu"] = 0
    BY <2>1
  <2>3. current' - initial' = 0
    <3>1. \A n \in Int : n - n = 0
      OBVIOUS
    <3>2. initial' = current' /\ current' \in Int
      BY <1>1, <1>2
    <3> QED BY <3>1, <3>2
  <2> QED BY <2>2, <2>3
<1>4. ColumnsAgree'
  BY <1>1, <1>3 DEF ColumnsAgree
<1> QED BY <1>1, <1>2, <1>4 DEF KernelCounts, ColumnsType

LEMMA DrawColumns ==
  ASSUME ColumnsInv, Draw
  PROVE  ColumnsInv'
<1> USE DEF ColumnsInv
<1>1. /\ kernel' = kernel /\ online' = online /\ initial' = initial /\ pc' # "init"
      /\ current' = CpuSeen
      /\ first' = IF Unfilled THEN kernel["page"] ELSE first
      /\ last' = [c \in Kept |-> Told(c)]
      /\ sums' = [c \in Counters |-> sums[c] + Delta[c]]
      /\ aggregate' = [c \in Counters |-> IF c = "cpu" THEN CpuTotal ELSE Told(c)]
  BY DEF Draw, files
<1>2. \A c \in Counters : kernel[c] \in Int /\ sums[c] \in Int /\ aggregate[c] \in Int
  BY DEF KernelCounts, ColumnsType
<1>3. /\ \A c \in Kept : last[c] \in Int
      /\ initial \in Int /\ current \in Int /\ first \in Int
  BY DEF ColumnsType
<1>4. /\ Delta["cpu"] = CpuDelta /\ Delta["disk"] = DiskDelta
      /\ Delta["page"] = kernel["page"] - LastPage
      /\ \A c \in {"swpin", "swpout"} : Delta[c] = Told(c) - LastSwap(c)
      /\ \A c \in Counters : Told(c) \in Int
      /\ Told("disk") = kernel["disk"] /\ Told("page") = kernel["page"]
  BY <1>2, CounterNames DEF Delta, Told
<1>5. /\ \A c \in Kept : last'[c] = Told(c) /\ aggregate'[c] = Told(c)
      /\ aggregate'["cpu"] = CpuTotal
      /\ \A c \in Counters : sums'[c] = sums[c] + Delta[c]
  BY <1>1, CounterNames
<1>6. sums'["cpu"] = current' - initial' /\ aggregate'["cpu"] = current' - initial'
  <2>1. sums["cpu"] = current - initial /\ aggregate["cpu"] = current - initial
    BY DEF ColumnsAgree
  <2>2. kernel["cpu"] \in Int
    BY <1>2, CounterNames
  <2>3. CASE online
    BY <1>1, <1>3, <1>4, <1>5, <2>1, <2>2, <2>3, CounterNames
    DEF CpuDelta, CpuSeen, CpuTotal
  <2>4. CASE ~online
    BY <1>1, <1>3, <1>4, <1>5, <2>1, <2>2, <2>4, CounterNames
    DEF CpuDelta, CpuSeen, CpuTotal
  <2> QED BY <2>3, <2>4
<1>7. sums'["disk"] = last'["disk"]
  BY <1>2, <1>3, <1>4, <1>5, CounterNames DEF DiskDelta, ColumnsAgree
<1>8. /\ \A c \in {"swpin", "swpout"} : sums'[c] = last'[c]
      /\ sums'["page"] = last'["page"] - first'
  <2>1. /\ \A c \in {"swpin", "swpout"} : sums[c] = last[c]
        /\ sums["page"] = last["page"] - first
        /\ last["page"] = 0 => first = 0 /\ last["swpin"] = 0 /\ last["swpout"] = 0
    BY DEF ColumnsAgree
  <2>2. sums'["page"] = last'["page"] - first'
    BY <1>1, <1>2, <1>3, <1>4, <1>5, <2>1, CounterNames DEF Unfilled, LastPage
  <2>3. ASSUME NEW c \in {"swpin", "swpout"} PROVE sums'[c] = last'[c]
    <3>1. /\ sums'[c] = sums[c] + (Told(c) - LastSwap(c)) /\ last'[c] = Told(c)
          /\ Told(c) \in Int /\ last[c] \in Int /\ sums[c] = last[c]
      BY <1>3, <1>4, <1>5, <2>1, CounterNames
    <3>2. LastSwap(c) = last[c]
      BY <2>1 DEF LastSwap, Unfilled
    <3> QED BY <3>1, <3>2
  <2> QED BY <2>2, <2>3
<1>9. last'["page"] # 0
  BY <1>4, <1>5, CounterNames DEF KernelCounts
<1>10. ColumnsAgree'
  BY <1>1, <1>5, <1>6, <1>7, <1>8, <1>9 DEF ColumnsAgree
<1>11. ColumnsType'
  <2>1. current' \in Int /\ first' \in Int /\ initial' \in Int
    BY <1>1, <1>2, <1>3, CounterNames DEF CpuSeen
  <2>2. last' \in [Kept -> Int]
    BY <1>1, <1>4, CounterNames
  <2>3. sums' \in [Counters -> Int]
    <3>1. \A c \in Counters : Delta[c] \in Int
      BY <1>2, <1>3, <1>4, CounterNames DEF CpuDelta, DiskDelta, LastPage, LastSwap
    <3> QED BY <1>1, <1>2, <3>1
  <2>4. aggregate' \in [Counters -> Int]
    <3>1. CpuTotal \in Int
      BY <1>2, <1>3, CounterNames DEF CpuTotal
    <3> QED BY <1>1, <1>4, <3>1
  <2> QED BY <2>1, <2>2, <2>3, <2>4 DEF ColumnsType
<1> QED BY <1>1, <1>10, <1>11 DEF KernelCounts

LEMMA NextColumns == ColumnsInv /\ [Next]_vars => ColumnsInv'
<1> SUFFICES ASSUME ColumnsInv, [Next]_vars PROVE ColumnsInv'
  OBVIOUS
<1>1. CASE InitState
  BY <1>1, InitStateColumns
<1>2. CASE Draw
  BY <1>2, DrawColumns
<1>3. CASE \/ InstallHandler \/ ResetFlag \/ AskSize \/ ClearForSize \/ Loop
           \/ Timeout \/ Quit \/ Slower \/ Faster \/ Compress
  BY <1>3, OtherColumns
  DEF InstallHandler, ResetFlag, AskSize, ClearForSize, Loop, Timeout, Quit,
      Slower, Faster, Compress, files, shown
<1>4. CASE Count
  <2>1. kernel' \in [Counters -> Nat] /\ kernel'["page"] > 0
    <3>1. busy' = busy /\ kernel' = [kernel EXCEPT ![busy] = @ + 1]
      BY <1>4 DEF Count
    <3>2. kernel \in [Counters -> Nat] /\ kernel["page"] > 0
      BY DEF ColumnsInv, KernelCounts
    <3>3. \A c \in Counters : kernel'[c] = kernel[c] \/ kernel'[c] = kernel[c] + 1
      BY <3>1, <3>2
    <3>4. kernel' \in [Counters -> Nat]
      <4>1. DOMAIN kernel' = Counters /\ kernel' = [c \in Counters |-> kernel'[c]]
        BY <3>1, <3>2
      <4>2. \A c \in Counters : kernel'[c] \in Nat
        BY <3>2, <3>3
      <4> QED BY <4>1, <4>2
    <3> QED BY <3>2, <3>3, <3>4, CounterNames
  <2>2. pc' = pc /\ UNCHANGED <<online, initial, current, last, aggregate, sums, first>>
    BY <1>4 DEF Count, control, shown
  <2> QED BY <2>1, <2>2 DEF ColumnsInv, KernelCounts, ColumnsType, ColumnsAgree
<1>5. CASE Hotplug
  BY <1>5
  DEF Hotplug, control, shown, ColumnsInv, KernelCounts, ColumnsType, ColumnsAgree
<1>6. ASSUME NEW k \in Keys, Type(k) PROVE ColumnsInv'
  BY <1>6
  DEF Type, control, files, shown, ColumnsInv, KernelCounts, ColumnsType, ColumnsAgree
<1>7. ASSUME NEW w \in Windows, Resize(w) PROVE ColumnsInv'
  BY <1>7 DEF Resize, files, shown, ColumnsInv, KernelCounts, ColumnsType, ColumnsAgree
<1>8. CASE UNCHANGED vars
  BY <1>8 DEF vars, ColumnsInv, KernelCounts, ColumnsType, ColumnsAgree
<1> QED
  BY <1>1, <1>2, <1>3, <1>4, <1>5, <1>6, <1>7, <1>8 DEF Next, Program

LEMMA ColumnsAlways == Spec => []ColumnsInv
BY InitColumns, NextColumns, PTL DEF Spec

\* The columns on the left add up to those on the right, whatever comes and
\* goes, but for the pages of before the first frame.
THEOREM CurrentDoesAddUp == Spec => []CurrentAddsUp
<1>1. ColumnsInv => CurrentAddsUp
  <2> SUFFICES ASSUME ColumnsInv, NEW c \in Counters
               PROVE  aggregate[c] = sums[c] + (IF c = "page" THEN first ELSE 0)
    BY DEF CurrentAddsUp
  <2>1. \A k \in Counters : aggregate[k] \in Int /\ sums[k] \in Int
    BY DEF ColumnsInv, ColumnsType
  <2>2. first \in Int /\ \A k \in Kept : last[k] \in Int
    BY DEF ColumnsInv, ColumnsType
  <2> QED BY <2>1, <2>2, CounterNames DEF ColumnsInv, ColumnsAgree
<1> QED BY <1>1, ColumnsAlways, PTL

-----------------------------------------------------------------------------
(* The types                                                               *)

\* Everything but the counts.
ControlType ==
  /\ window \in Windows /\ resizes \in 0 .. MaxResizes
  /\ size \in Windows \cup {Unknown} /\ winch \in BOOLEAN
  /\ pc \in {"init", "handler", "reset", "stty", "cleared", "loop", "draw", "wait", "end"}
  /\ looping \in BOOLEAN /\ key \in Keys \cup {NoKey}
  /\ sleep \in 1 .. MaxSleep /\ compress \in BOOLEAN
  /\ busy \in Counters /\ layouts \subseteq Layouts

\* The kernel only counts up, so what was read is never ahead of it.
CountBounds ==
  /\ kernel \in [Counters -> 0 .. MaxCount]
  /\ 0 <= initial /\ initial <= current /\ current <= kernel["cpu"]
  /\ \A c \in Kept : 0 <= last[c] /\ last[c] <= kernel[c]
  /\ 0 <= first /\ first <= last["page"]

LEMMA InitTypes == Init => ControlType /\ CountBounds
<1> SUFFICES ASSUME Init PROVE ControlType /\ CountBounds
  OBVIOUS
<1>1. ControlType
  <2>1. resizes \in 0 .. MaxResizes /\ sleep \in 1 .. MaxSleep
    BY PerlAssumption DEF Init
  <2> QED BY <2>1 DEF Init, ControlType
<1>2. CountBounds
  BY PerlAssumption, CounterNames DEF Init, CountBounds
<1> QED BY <1>1, <1>2

LEMMA DrawControl ==
  ASSUME ControlType, KernelCounts, Draw
  PROVE  ControlType'
<1>1. Layout \in Layouts
  BY DEF ControlType, KernelCounts, Layout, Layouts
<1> QED BY <1>1 DEF Draw, files, ControlType

LEMMA NextControl == ControlType /\ KernelCounts /\ [Next]_vars => ControlType'
<1> SUFFICES ASSUME ControlType, KernelCounts, [Next]_vars PROVE ControlType'
  OBVIOUS
<1> USE DEF ControlType, files, shown, control
<1>1. CASE InitState \/ InstallHandler
  BY <1>1 DEF InitState, InstallHandler
<1>2. CASE ResetFlag \/ AskSize \/ ClearForSize \/ Loop
  BY <1>2 DEF ResetFlag, AskSize, ClearForSize, Loop
<1>3. CASE Draw
  BY <1>3, DrawControl
<1>4. CASE Timeout \/ Quit \/ Compress
  BY <1>4 DEF Timeout, Quit, Compress
<1>5. CASE Slower \/ Faster
  BY <1>5, PerlAssumption DEF Slower, Faster, Shorter
<1>6. CASE Count \/ Hotplug
  BY <1>6 DEF Count, Hotplug
<1>7. ASSUME NEW k \in Keys, Type(k) PROVE ControlType'
  BY <1>7 DEF Type
<1>8. ASSUME NEW w \in Windows, Resize(w) PROVE ControlType'
  BY <1>8, PerlAssumption DEF Resize
<1>9. CASE UNCHANGED vars
  BY <1>9 DEF vars
<1> QED
  BY <1>1, <1>2, <1>3, <1>4, <1>5, <1>6, <1>7, <1>8, <1>9 DEF Next, Program

LEMMA DrawBounds ==
  ASSUME ColumnsInv, CountBounds, Draw
  PROVE  CountBounds'
<1>1. /\ kernel' = kernel /\ initial' = initial /\ current' = CpuSeen
      /\ first' = IF Unfilled THEN kernel["page"] ELSE first
      /\ last' = [c \in Kept |-> Told(c)]
  BY DEF Draw, files
<1>2. \A c \in Counters : kernel[c] \in Int /\ 0 <= kernel[c]
  BY PerlAssumption DEF CountBounds
<1>3. /\ \A c \in Kept : last'[c] \in {0, kernel[c]} /\ kernel[c] \in Int /\ 0 <= kernel[c]
      /\ last'["page"] = kernel["page"]
  BY <1>1, <1>2, CounterNames DEF Told
<1>4. 0 <= initial' /\ initial' <= current' /\ current' <= kernel'["cpu"]
  BY <1>1, <1>2, CounterNames DEF CountBounds, CpuSeen, ColumnsInv, ColumnsType
<1>5. 0 <= first' /\ first' <= last'["page"]
  BY <1>1, <1>3, CounterNames DEF CountBounds, ColumnsInv, ColumnsType
<1> QED BY <1>1, <1>3, <1>4, <1>5 DEF CountBounds

LEMMA CountsUp ==
  ASSUME ControlType, ColumnsInv, CountBounds, Count
  PROVE  CountBounds'
<1>1. /\ kernel[busy] < MaxCount /\ kernel' = [kernel EXCEPT ![busy] = @ + 1]
      /\ UNCHANGED <<initial, current, last, first>>
  BY DEF Count, shown
<1>2. busy \in Counters /\ kernel \in [Counters -> 0 .. MaxCount]
  BY DEF ControlType, CountBounds
<1>3. kernel[busy] + 1 \in 0 .. MaxCount
  BY <1>1, <1>2, PerlAssumption
<1>4. kernel' \in [Counters -> 0 .. MaxCount]
  BY <1>1, <1>2, <1>3
<1>5. \A c \in Counters : kernel[c] \in Int /\ kernel'[c] \in Int /\ kernel[c] <= kernel'[c]
  BY <1>1, <1>2, <1>3, PerlAssumption
<1>6. current <= kernel'["cpu"]
  BY <1>5, CounterNames DEF CountBounds, ColumnsInv, ColumnsType
<1>7. \A c \in Kept : last[c] <= kernel'[c]
  BY <1>5, CounterNames DEF CountBounds, ColumnsInv, ColumnsType
<1> QED BY <1>1, <1>4, <1>6, <1>7 DEF CountBounds

LEMMA NextBounds == ControlType /\ ColumnsInv /\ CountBounds /\ [Next]_vars => CountBounds'
<1> SUFFICES ASSUME ControlType, ColumnsInv, CountBounds, [Next]_vars PROVE CountBounds'
  OBVIOUS
<1>1. CASE InitState
  <2>1. /\ kernel' = kernel /\ last' = last /\ first' = first
        /\ \/ initial' = kernel["cpu"] /\ current' = kernel["cpu"]
           \/ initial' = initial /\ current' = current
    BY <1>1 DEF InitState, files
  <2>2. kernel["cpu"] \in Int /\ 0 <= kernel["cpu"] /\ kernel["cpu"] <= kernel["cpu"]
    BY PerlAssumption, CounterNames DEF CountBounds
  <2> QED BY <2>1, <2>2 DEF CountBounds
<1>2. CASE Draw
  BY <1>2, DrawBounds
<1>3. CASE Count
  BY <1>3, CountsUp
<1>4. CASE \/ InstallHandler \/ ResetFlag \/ AskSize \/ ClearForSize \/ Loop
           \/ Timeout \/ Quit \/ Slower \/ Faster \/ Compress \/ Hotplug
  BY <1>4 DEF InstallHandler, ResetFlag, AskSize, ClearForSize, Loop, Timeout, Quit,
              Slower, Faster, Compress, Hotplug, files, shown, CountBounds
<1>5. ASSUME NEW k \in Keys, Type(k) PROVE CountBounds'
  BY <1>5 DEF Type, files, shown, CountBounds
<1>6. ASSUME NEW w \in Windows, Resize(w) PROVE CountBounds'
  BY <1>6 DEF Resize, files, shown, CountBounds
<1>7. CASE UNCHANGED vars
  BY <1>7 DEF vars, CountBounds
<1> QED BY <1>1, <1>2, <1>3, <1>4, <1>5, <1>6, <1>7 DEF Next, Program

LEMMA TypesAlways == Spec => [](ControlType /\ CountBounds)
<1>1. ColumnsInv => KernelCounts
  BY DEF ColumnsInv
<1>2. ColumnsInv /\ ControlType /\ CountBounds /\ [Next]_vars => ControlType' /\ CountBounds'
  BY <1>1, NextControl, NextBounds
<1> QED BY <1>2, InitTypes, ColumnsAlways, PTL DEF Spec

-----------------------------------------------------------------------------
(* The screen                                                              *)

\* Once stty has answered and no signal has come since, size is the window's;
\* then every row is blank or a row of a frame since the last clear.
ScreenInv ==
  /\ DOMAIN screen = 1 .. window
  /\ ~winch /\ pc \in {"cleared", "loop", "draw", "wait"} => size = window
  /\ ~winch /\ pc \in {"loop", "draw", "wait"} =>
       \A r \in 1 .. window :
         \/ screen[r] = Blank
         \/ \E l \in layouts : screen[r] = RowOf(FrameOf(l), r, window)

LEMMA DrawScreen ==
  ASSUME ControlType, ScreenInv, Draw
  PROVE  /\ ScreenInv'
         /\ ~winch => \A r \in 1 .. window :
              LET row == RowOf(FrameOf(Layout), r, window)
              IN  IF row # Blank
                  THEN screen'[r] = row
                  ELSE \E l \in layouts' : screen'[r] = RowOf(FrameOf(l), r, window)
<1> DEFINE rows == FrameOf(Layout)
<1>1. /\ pc = "draw" /\ pc' = "wait" /\ winch' = winch /\ size' = size /\ window' = window
      /\ screen' = Over(rows) /\ layouts' = layouts \cup {Layout}
  BY DEF Draw
<1> HIDE DEF rows
<1>2. DOMAIN screen' = 1 .. window
  BY <1>1 DEF Over
<1>3. ASSUME ~winch, NEW r \in 1 .. window
      PROVE  /\ RowOf(rows, r, window) # Blank => screen'[r] = RowOf(rows, r, window)
             /\ RowOf(rows, r, window) = Blank => screen'[r] = screen[r]
  <2>1. Reach = window
    BY <1>1, <1>3 DEF ScreenInv, Reach
  <2> QED BY <1>1, <2>1 DEF Over
<1>4. ASSUME ~winch, NEW r \in 1 .. window
      PROVE  /\ RowOf(rows, r, window) # Blank => screen'[r] = RowOf(rows, r, window)
             /\ \E l \in layouts' : screen'[r] = RowOf(FrameOf(l), r, window)
  <2>1. CASE RowOf(rows, r, window) # Blank
    BY <1>1, <1>3, <1>4, <2>1 DEF rows
  <2>2. CASE RowOf(rows, r, window) = Blank
    <3>1. screen'[r] = screen[r]
      BY <1>3, <1>4, <2>2
    <3>2. CASE screen[r] = Blank
      BY <1>1, <2>2, <3>1, <3>2 DEF rows
    <3>3. CASE screen[r] # Blank
      <4>1. PICK l \in layouts : screen[r] = RowOf(FrameOf(l), r, window)
        BY <1>1, <1>4, <3>3 DEF ScreenInv
      <4> QED BY <1>1, <2>2, <3>1, <4>1
    <3> QED BY <3>2, <3>3
  <2> QED BY <2>1, <2>2
<1>5. ScreenInv'
  BY <1>1, <1>2, <1>4 DEF ScreenInv
<1> QED BY <1>4, <1>5 DEF rows

LEMMA NextScreen == ControlType /\ ScreenInv /\ [Next]_vars => ScreenInv'
<1> SUFFICES ASSUME ControlType, ScreenInv, [Next]_vars PROVE ScreenInv'
  OBVIOUS
<1>1. CASE Draw
  BY <1>1, DrawScreen
<1>2. CASE Quit
  BY <1>2 DEF Quit, ScreenInv, Empty
<1>3. CASE Compress \/ ClearForSize
  <2>1. /\ screen' = Empty(window) /\ layouts' = {}
        /\ UNCHANGED <<window, winch, size>>
        /\ ~winch => size = window
    BY <1>3 DEF Compress, ClearForSize, ScreenInv
  <2>2. DOMAIN screen' = 1 .. window' /\ \A r \in 1 .. window' : screen'[r] = Blank
    BY <2>1 DEF Empty
  <2> QED BY <2>1, <2>2 DEF ScreenInv
<1>4. CASE InitState \/ InstallHandler \/ ResetFlag
  <2>1. pc # "end" /\ pc' \in {"handler", "reset", "stty"} /\ UNCHANGED <<window, screen>>
    BY <1>4 DEF InitState, InstallHandler, ResetFlag, shown
  <2> QED BY <2>1 DEF ScreenInv
<1>5. CASE AskSize
  <2>1. pc # "end" /\ pc' = "cleared" /\ size' = window /\ UNCHANGED <<window, screen>>
    BY <1>5 DEF AskSize, shown
  <2> QED BY <2>1 DEF ScreenInv
<1>6. CASE Loop \/ Timeout \/ Slower \/ Faster
  <2>1. /\ pc \in {"loop", "wait"} /\ pc' \in {"reset", "draw", "loop"}
        /\ UNCHANGED <<window, winch, size, screen, layouts>>
    BY <1>6 DEF Loop, Timeout, Slower, Faster, shown
  <2> QED BY <2>1 DEF ScreenInv
<1>7. CASE Count \/ Hotplug
  <2>1. UNCHANGED <<pc, window, winch, size, screen, layouts>>
    BY <1>7 DEF Count, Hotplug, control, shown
  <2> QED BY <2>1 DEF ScreenInv
<1>8. ASSUME NEW k \in Keys, Type(k) PROVE ScreenInv'
  <2>1. UNCHANGED <<pc, window, winch, size, screen, layouts>>
    BY <1>8 DEF Type, control, shown
  <2> QED BY <2>1 DEF ScreenInv
<1>9. ASSUME NEW w \in Windows, Resize(w) PROVE ScreenInv'
  <2>1. /\ DOMAIN screen' = 1 .. window' /\ pc' = pc
        /\ winch' = (winch \/ pc \notin {"init", "handler"})
    BY <1>9 DEF Resize
  <2> QED BY <2>1 DEF ScreenInv
<1>10. CASE UNCHANGED vars
  BY <1>10 DEF vars, ScreenInv
<1> QED BY <1>1, <1>2, <1>3, <1>4, <1>5, <1>6, <1>7, <1>8, <1>9, <1>10 DEF Next, Program

LEMMA ScreenAlways == Spec => []ScreenInv
<1>1. Init => ScreenInv
  BY DEF Init, ScreenInv, Empty
<1> QED BY <1>1, NextScreen, TypesAlways, PTL DEF Spec

\* Every variable has its type; no key takes sleep below a second, and no
\* column of a kernel that counts up to MaxCount leaves 0 .. MaxCount.
THEOREM PerlType == Spec => []TypeOK
<1>1. ColumnsInv /\ ControlType /\ CountBounds /\ ScreenInv => TypeOK
  <2> SUFFICES ASSUME ColumnsInv, ControlType, CountBounds, ScreenInv PROVE TypeOK
    OBVIOUS
  <2>1. ColumnsType /\ ColumnsAgree /\ online \in BOOLEAN
    BY DEF ColumnsInv, KernelCounts
  <2>2. \A c \in Counters : kernel[c] \in 0 .. MaxCount
    BY DEF CountBounds
  <2>3. \A c \in Kept : last[c] \in 0 .. MaxCount
    BY <2>1, <2>2, CounterNames, PerlAssumption DEF CountBounds, ColumnsType
  <2>4. initial \in 0 .. MaxCount /\ current \in 0 .. MaxCount /\ current - initial \in 0 .. MaxCount
    BY <2>1, <2>2, CounterNames, PerlAssumption DEF CountBounds, ColumnsType
  <2>5. first \in 0 .. MaxCount /\ last["page"] - first \in 0 .. MaxCount
    BY <2>1, <2>3, CounterNames, PerlAssumption DEF CountBounds, ColumnsType
  <2>6. \A c \in Counters : aggregate[c] \in 0 .. MaxCount
    BY <2>1, <2>3, <2>4, CounterNames DEF ColumnsAgree
  <2>7. \A c \in Counters : sums[c] \in 0 .. MaxCount
    BY <2>1, <2>3, <2>4, <2>5, CounterNames DEF ColumnsAgree
  <2>8. /\ last \in [Kept -> 0 .. MaxCount]
        /\ aggregate \in [Counters -> 0 .. MaxCount] /\ sums \in [Counters -> 0 .. MaxCount]
    BY <2>1, <2>3, <2>6, <2>7 DEF ColumnsType
  <2> QED BY <2>1, <2>4, <2>5, <2>8 DEF TypeOK, ControlType, CountBounds, ScreenInv
<1> QED BY <1>1, ColumnsAlways, TypesAlways, ScreenAlways, PTL

\* Every row of a frame that fits the window is in its place, and what else is
\* on the screen is of a frame since the last new window or key c, for windows
\* of any height and whatever keys, windows, CPUs and drives come.
THEOREM ScreenIsTheFrame == Spec => ScreenIsFrame
<1>1. ControlType /\ ScreenInv =>
        [Draw /\ ~winch => \A r \in 1 .. window :
           LET row == RowOf(FrameOf(Layout), r, window)
           IN  IF row # Blank
               THEN screen'[r] = row
               ELSE \E l \in layouts' : screen'[r] = RowOf(FrameOf(l), r, window)]_vars
  BY DrawScreen
<1> QED BY <1>1, TypesAlways, ScreenAlways, PTL DEF ScreenIsFrame
=============================================================================
