------------------------------ MODULE PerlSystat ------------------------------
(***************************************************************************)
(* perl/systat.pl, the original: a loop that polls a flag its SIGWINCH     *)
(* handler sets, draws a frame of cumulative counters, and waits for a key *)
(* or a timeout.  Unlike the C programs it has no fit, and clears only for *)
(* a new window or the key c.                                              *)
(*                                                                         *)
(* Every file of /proc is read once in a frame, and the handler only sets  *)
(* a flag, so a frame is one action and the kernel counts while the        *)
(* program waits.  A number that Perl has not assigned counts as 0.  One   *)
(* CPU, one drive, the pages and the swaps stand for the rows of counters; *)
(* the percentages of the CPU stand for the ticks they are made of.  Most  *)
(* headings do not erase to the end of their line; the tails they leave    *)
(* when the rows move are not modelled.                                    *)
(***************************************************************************)
EXTENDS Integers, Sequences

CONSTANTS
  Windows,    \* heights the window may take
  MaxResizes, \* a bound on the changes of the window
  MaxSleep,   \* a bound on the seconds between two frames
  MaxCount    \* a bound on every counter

ASSUME PerlAssumption ==
  /\ Windows \subseteq Nat \ {0}
  /\ MaxResizes \in Nat /\ MaxSleep \in Nat \ {0} /\ MaxCount \in Nat \ {0}

VARIABLES
  window, resizes,    \* what the terminal has; changes so far
  size,               \* the rows stty size last said
  winch,              \* the flag
  pc,                 \* "init", "handler"; "reset", "stty", "cleared": in
                      \* WindowSize; then "loop", "draw", "wait", "end"
  looping,            \* the while loop has been reached
  key,                \* typed and not read yet, or none
  sleep, compress,
  kernel,             \* the counters in the files
  busy,               \* a bound: the one of them whose row changes
  online,             \* the CPU has a line in /proc/stat
  initial, current,   \* of the CPU, at the start and at the last frame
  last,               \* of the drive, the pages and the swaps
  aggregate,          \* the columns on the right
  screen,             \* row -> what is on it
  sums,               \* what the columns on the left have shown so far
  first,              \* pages when the first frame was drawn
  layouts             \* of the frames since a new window or the key c

files   == <<kernel, busy, online>>
control == <<size, winch, pc, looping, sleep, compress>>
shown   == <<initial, current, last, aggregate, screen, sums, first, layouts>>
vars == <<window, resizes, size, winch, pc, looping, key, sleep, compress, kernel, busy,
          online, initial, current, last, aggregate, screen, sums, first, layouts>>

NoKey    == "none"
Keys     == {"q", "+", "-", "c"}    \* q also stands for ^C and ^D
Kept     == {"disk", "page", "swpin", "swpout"}
Counters == Kept \cup {"cpu"}
Unknown  == 0
Blank    == ""

-----------------------------------------------------------------------------
(* The rows of a frame: a Blank one is skipped, not erased                 *)

Layouts == [compress : BOOLEAN, cpus : 0 .. 1, drives : 0 .. 1]
Layout  == [compress |-> compress, cpus |-> IF online THEN 1 ELSE 0,
            drives |-> IF kernel["disk"] > 0 THEN 1 ELSE 0]

Gap(l) == IF l.compress THEN <<>> ELSE <<Blank>>

HeaderRows == <<"systat">>
LoadRows   == <<"Load Average">>
CpuRows(l) == Gap(l) \o <<"CPU STATES", "user sys nice">>
                     \o [i \in 1 .. l.cpus |-> "CPU"]
MemoryRows(l) == Gap(l) \o <<"MEMORY", "Real", "Swap">>

\* A drive that never read has no row.
DiskRows(l) == Gap(l) \o <<"DISK ACTIVITY", "IN OUT">> \o [i \in 1 .. l.drives |-> "/dev"]
VMRows(l)   == Gap(l) \o <<"VIRTUAL MEMORY", "IN OUT", "page", "swap">>

FrameOf(l) == HeaderRows \o LoadRows \o CpuRows(l) \o MemoryRows(l) \o DiskRows(l) \o VMRows(l)

Empty(height) == [r \in 1 .. height |-> Blank]

\* at() takes no row beyond the last: the rows that do not fit are printed over
\* each other there, and the last of them stays.
RowOf(rows, r, height) ==
  CASE r < height /\ r <= Len(rows)      -> rows[r]
    [] r = height /\ height <= Len(rows) -> rows[Len(rows)]
    [] OTHER                             -> Blank

\* The rows at() reaches: it goes by the size of the last stty, the terminal by
\* its own.
Reach == IF size < window THEN size ELSE window

Over(rows) ==
  [r \in 1 .. window |->
     IF RowOf(rows, r, Reach) # Blank THEN RowOf(rows, r, Reach) ELSE screen[r]]

-----------------------------------------------------------------------------
(* The program                                                             *)

\* A machine that runs has paged something in; a drive may not have read yet.
Init ==
  /\ window \in Windows /\ resizes = 0
  /\ size = Unknown /\ winch = FALSE /\ pc = "init" /\ looping = FALSE /\ key = NoKey
  /\ sleep = 1 /\ compress = FALSE
  /\ kernel = [c \in Counters |-> IF c = "disk" THEN 0 ELSE 1]
  /\ busy \in Counters /\ online \in BOOLEAN /\ (busy # "cpu" => online)
  /\ initial = 0 /\ current = 0 /\ last = [c \in Kept |-> 0]
  /\ aggregate = [c \in Counters |-> 0] /\ sums = [c \in Counters |-> 0]
  /\ first = 0
  /\ screen = Empty(window) /\ layouts = {}

InitState ==
  /\ pc = "init" /\ pc' = "handler"
  /\ IF online THEN initial' = kernel["cpu"] /\ current' = kernel["cpu"]
               ELSE UNCHANGED <<initial, current>>
  /\ UNCHANGED <<window, resizes, size, winch, looping, key, sleep, compress, files,
                 last, aggregate, screen, sums, first, layouts>>

InstallHandler ==
  /\ pc = "handler" /\ pc' = "reset"
  /\ winch' = FALSE
  /\ UNCHANGED <<window, resizes, size, looping, key, sleep, compress, files, shown>>

\* WindowSize: the flag is down before stty is asked.
ResetFlag ==
  /\ pc = "reset" /\ pc' = "stty"
  /\ winch' = FALSE
  /\ UNCHANGED <<window, resizes, size, looping, key, sleep, compress, files, shown>>

AskSize ==
  /\ pc = "stty" /\ pc' = "cleared"
  /\ size' = window
  /\ UNCHANGED <<window, resizes, winch, looping, key, sleep, compress, files, shown>>

\* Mutant: the flag goes down at the end of WindowSize.
ClearAndReset ==
  /\ pc = "cleared" /\ pc' = IF looping THEN "draw" ELSE "loop"
  /\ screen' = Empty(window) /\ layouts' = {} /\ winch' = FALSE
  /\ UNCHANGED <<window, resizes, size, looping, key, sleep, compress, files,
                 initial, current, last, aggregate, sums, first>>

\* clrscr, and back: to the loop the first time, then to the frame.
ClearForSize ==
  /\ pc = "cleared" /\ pc' = IF looping THEN "draw" ELSE "loop"
  /\ screen' = Empty(window) /\ layouts' = {}
  /\ UNCHANGED <<window, resizes, size, winch, looping, key, sleep, compress, files,
                 initial, current, last, aggregate, sums, first>>

Loop ==
  /\ pc = "loop" /\ pc' = IF winch THEN "reset" ELSE "draw"
  /\ looping' = TRUE
  /\ UNCHANGED <<window, resizes, size, winch, key, sleep, compress, files, shown>>

-----------------------------------------------------------------------------
(* The columns of a frame                                                  *)

\* Mutant: PrintCPU does not keep what it has read.
CpuSeenNot == current

CpuDelta  == IF online THEN kernel["cpu"] - current ELSE 0
CpuSeen   == IF online THEN kernel["cpu"] ELSE current
CpuTotal  == IF online THEN kernel["cpu"] - initial ELSE aggregate["cpu"]
DiskDelta == kernel["disk"] - last["disk"]

\* PrintVM fills its last counts at the first frame, those of the swaps from
\* pgswpin and pgswpout, and reads the swaps out from pgswpout at every frame;
\* no line of /proc/vmstat has these names.
Unfilled    == last["page"] = 0
LastPage    == IF Unfilled THEN kernel["page"] ELSE last["page"]
LastSwap(c) == IF Unfilled THEN 0 ELSE last[c]
Told(c)     == IF c = "swpout" THEN 0 ELSE kernel[c]

Delta ==
  [c \in Counters |-> CASE c = "cpu"  -> CpuDelta
                        [] c = "disk" -> DiskDelta
                        [] c = "page" -> Told(c) - LastPage
                        [] OTHER      -> Told(c) - LastSwap(c)]

Draw ==
  /\ pc = "draw" /\ pc' = "wait"
  /\ screen' = Over(FrameOf(Layout))
  /\ layouts' = layouts \cup {Layout}
  /\ sums' = [c \in Counters |-> sums[c] + Delta[c]]
  /\ aggregate' = [c \in Counters |-> IF c = "cpu" THEN CpuTotal ELSE Told(c)]
  /\ current' = CpuSeen
  /\ last' = [c \in Kept |-> Told(c)]
  /\ first' = IF Unfilled THEN kernel["page"] ELSE first
  /\ UNCHANGED <<window, resizes, size, winch, looping, key, sleep, compress, files, initial>>

-----------------------------------------------------------------------------
(* The keys                                                                *)

\* The seconds have passed, or a signal has interrupted key_pressed.
Timeout ==
  /\ pc = "wait" /\ key = NoKey /\ pc' = "loop"
  /\ UNCHANGED <<window, resizes, size, winch, looping, key, sleep, compress, files, shown>>

Quit ==
  /\ pc = "wait" /\ key = "q"
  /\ pc' = "end" /\ key' = NoKey
  /\ screen' = Empty(window)
  /\ UNCHANGED <<window, resizes, size, winch, looping, sleep, compress, files,
                 initial, current, last, aggregate, sums, first, layouts>>

Slower ==
  /\ pc = "wait" /\ key = "+" /\ sleep < MaxSleep
  /\ pc' = "loop" /\ key' = NoKey
  /\ sleep' = sleep + 1
  /\ UNCHANGED <<window, resizes, size, winch, looping, compress, files, shown>>

\* Mutant: no floor.
ShorterFree(seconds) == seconds - 1

Shorter(seconds) == IF seconds - 1 < 1 THEN 1 ELSE seconds - 1

Faster ==
  /\ pc = "wait" /\ key = "-"
  /\ pc' = "loop" /\ key' = NoKey
  /\ sleep' = Shorter(sleep)
  /\ UNCHANGED <<window, resizes, size, winch, looping, compress, files, shown>>

\* Mutant: the taller frame stays behind the compressed one.
CompressOver ==
  /\ pc = "wait" /\ key = "c"
  /\ pc' = "loop" /\ key' = NoKey
  /\ compress' = ~compress
  /\ layouts' = {}
  /\ UNCHANGED <<window, resizes, size, winch, looping, sleep, files,
                 initial, current, last, aggregate, screen, sums, first>>

Compress ==
  /\ pc = "wait" /\ key = "c"
  /\ pc' = "loop" /\ key' = NoKey
  /\ compress' = ~compress
  /\ screen' = Empty(window) /\ layouts' = {}
  /\ UNCHANGED <<window, resizes, size, winch, looping, sleep, files,
                 initial, current, last, aggregate, sums, first>>

-----------------------------------------------------------------------------
(* The user and the kernel                                                 *)

\* At the bound of sleep, + is not typed.
Type(k) ==
  /\ pc # "end" /\ key = NoKey /\ (k = "+" => sleep < MaxSleep)
  /\ key' = k
  /\ UNCHANGED <<window, resizes, control, files, shown>>

\* The flag goes up as soon as the handler is there.  A window that shrinks
\* loses rows, one that grows gets blank ones.
Resize(w) ==
  /\ pc # "end" /\ resizes < MaxResizes /\ w # window
  /\ window' = w /\ resizes' = resizes + 1
  /\ screen' = [r \in 1 .. w |-> IF r <= window THEN screen[r] ELSE Blank]
  /\ winch' = (winch \/ pc \notin {"init", "handler"})
  /\ UNCHANGED <<size, pc, looping, key, sleep, compress, files,
                 initial, current, last, aggregate, sums, first, layouts>>

Count ==
  /\ pc = "wait" /\ kernel[busy] < MaxCount
  /\ kernel' = [kernel EXCEPT ![busy] = @ + 1]
  /\ UNCHANGED <<window, resizes, control, key, busy, online, shown>>

\* The CPU is taken off line or brought back.
Hotplug ==
  /\ pc = "wait" /\ busy = "cpu" /\ online' = ~online
  /\ UNCHANGED <<window, resizes, control, key, kernel, busy, shown>>

Program ==
  \/ InitState \/ InstallHandler \/ ResetFlag \/ AskSize \/ ClearForSize \/ Loop
  \/ Draw \/ Timeout \/ Quit \/ Slower \/ Faster \/ Compress

Next ==
  \/ Program \/ Count \/ Hotplug
  \/ \E k \in Keys : Type(k)
  \/ \E w \in Windows : Resize(w)

\* The loop has no step that waits for ever: key_pressed has a timeout.
Spec == Init /\ [][Next]_vars /\ WF_vars(Program)

-----------------------------------------------------------------------------
(* Properties                                                              *)

\* Every variable has its type; no key takes sleep below a second.
TypeOK ==
  /\ window \in Windows /\ resizes \in 0 .. MaxResizes
  /\ size \in Windows \cup {Unknown} /\ winch \in BOOLEAN
  /\ pc \in {"init", "handler", "reset", "stty", "cleared", "loop", "draw", "wait", "end"}
  /\ looping \in BOOLEAN /\ key \in Keys \cup {NoKey}
  /\ sleep \in 1 .. MaxSleep /\ compress \in BOOLEAN
  /\ kernel \in [Counters -> 0 .. MaxCount] /\ busy \in Counters /\ online \in BOOLEAN
  /\ initial \in 0 .. MaxCount /\ current \in 0 .. MaxCount
  /\ last \in [Kept -> 0 .. MaxCount]
  /\ aggregate \in [Counters -> 0 .. MaxCount] /\ sums \in [Counters -> 0 .. MaxCount]
  /\ first \in 0 .. MaxCount /\ layouts \subseteq Layouts
  /\ DOMAIN screen = 1 .. window

\* A change of the window is never lost between the polls of the flag and the
\* answers of stty: in the end the program knows the size (systat.pl:28-35,478).
SizeSettles == <>[](size = window \/ pc = "end")

\* The current columns of all frames add up to the aggregate column, for a
\* CPU that comes and goes and for the drive whose first frame shows all it
\* ever read; only the pages leave out what was before the first frame.  The
\* swaps out are nothing in both.
CurrentAddsUp ==
  \A c \in Counters :
    aggregate[c] = sums[c] + (IF c = "page" THEN first ELSE 0)

\* Every row of a frame is where its layout and the height of the window put
\* it, the last one in the last row of a window that is too low.  What a frame
\* skips or does not reach may still show a row of another frame, after a CPU
\* or a drive came or went, but of none from before the last new window or key
\* c.  Only a frame whose window has just changed is not held to this: the
\* flag is up, and it will be cleared away.
ScreenIsFrame ==
  [][Draw /\ ~winch => \A r \in 1 .. window :
       LET row == RowOf(FrameOf(Layout), r, window)
       IN  IF row # Blank
           THEN screen'[r] = row
           ELSE \E l \in layouts' : screen'[r] = RowOf(FrameOf(l), r, window)]_vars
=============================================================================
