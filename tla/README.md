# A TLA+ model of systat

`systat` refreshes a terminal once a second with the load, processors, memory, disks, paging and network of
the machine it runs on.  This directory models the program in TLA+, checks the models with TLC on small
instances and proves theorems about them, for every value of their constants, with TLAPS.

Paths below are relative to `src/`.

## The system

| Component | State | Operations |
|---|---|---|
| Main program, `c/linux/main.cpp`, `c/mac/main.cpp` | `alive`, `condensed`, `last_height`, the place in the loop | `main`, `fit`, `render`, `blank_line`, `sigint_handler` |
| Console, `c/common/Console.*` | `height`, `width`, `cursor_hidden`, `aborting`, attributes; the terminal | constructor, destructor, `abort`, `resize` (also from SIGWINCH), `clear`, `moveTo`, `mode_clear`, `println`, `inverseln`, ... |
| Processor, Disk, Network of Linux | maps `last`, `current`, `delta` | `read`, `copy`, `diff`, `update`, `print` |
| VirtualMemory of Linux | `last`, `current`, `delta` of four counters | `read`, `update`, `print` |
| Platform, Memory of Linux | the last reading | `update`, `print` |
| Parser, `c/common/Parser.*` | the file, the current `Line`, the last token | `next`, `get_token`, `get_long` |
| Log, `c/common/Log.*` | a file | `hexdump`, `debug` |
| Processor, Disk, Network of MacOS | maps as on Linux; `Processor` with a line for the sum of the cores, `Disk` with a table of drives | `update`, `read`, `copy`, `diff`, IOKit iteration, `print` |
| Memory, VirtualMemory of MacOS | one reading, held by two objects | `update`, `print` |
| Platform of both systems | name, load, uptime | `update`, `print`: the heading |
| Perl original, `perl/systat.pl` | window-change flag, delay, compression, counters of the last frame | its own loop, keys `+ - c q` |
| `c/old`, `license`, `c/cmake-build-debug` | | not built |

**How they interact.**  Every class has one static object.  Static construction reads the files of `/proc`,
clears the screen, installs the SIGWINCH handler and opens the log; the order is that of the linker, so on
Linux `platform` ... `network` exist before `console` does.  `main` installs the SIGINT handler and loops:
`update` of each class (through Parser), `show_cursor(false)`, `fit`, which calls `render(true)` up to two
times to choose what to leave out, `render(false)`, a conditional `clear`, `sleep(1)`.  The print methods and
the handlers write to the same terminal through Console; `exit` from anywhere runs the destructor of Console.

**What is hard.**  Nothing locks: a SIGWINCH handler clears the screen and changes `height` between any two
writes of a frame; SIGINT and SIGWINCH both end the sleep; files fail inside constructors and inside
`update`; devices appear and disappear under maps that never shrink; counters wrap; each screen row is right
only if every print method draws what it claims.  `PROJECT.json` lists these hazards at their lines.

**What makes it correct.**

- Main and Console: the user sees a whole frame, the best for the window, or a clear screen; a window that
  stops changing gets its frame for good; on every exit the cursor is back; ^C ends the process.
- Samplers: no null pointer and no uninitialised field in print, whatever devices do; each refresh shows exactly
  what moved since the last; the sum of the cores stays their sum.
- Parser: the tokens are the words of the line; a token stays valid until the next; no pointer dangles, and a failing
  `getline` is the only call that leaves a block behind.
- Platform, Console attributes: the heading fits its row; no colour outlives its line, whatever interrupts it.
- Memory: arithmetic within the width of the integers; claims equal to the lines drawn.
- Memory of MacOS: two objects share one reading; a column headed Current shows what moved since the
  last refresh (that of `virtual_memory` does, that of `memory` does not: `current_column`).
- Drive table of MacOS: entries are those of the drives attached, sorted, within the bound of the array.
- Perl original: no change of the window is lost between polls; the rows a frame draws are in their places, and
  nothing on the screen is older than the last clear; the current columns add up to the aggregate ones.

## The modules

| Module | Models | Correspondence |
|---|---|---|
| `Console` | class Console and the terminal | Operators on one record: the rows of the screen, the row and visibility of the cursor, and the fields the program reads back. `MoveTo`, `Clear`, `ModeClear`, `Reset`, `Resize`, `Abort`, `Destroy` are the methods; `Put`, `LineFeed`, `Erase`, `CursorTo`, `Reshape` are what a terminal does with the escape sequences |
| `Systat` | static construction, main loop, signals, exits | One action per statement group of `main`, `fit` and `render`; a step each are the move to a section, the text of a line, its end (`mode_clear` and the newline), a blank line (`moveTo` and `clear_eol`), the comparison of the heights, each of the two writes of the clear after the frame and the assignment to `last_height`; `HandleWinch`, `Interrupt` and `UserResize` interleave between any two. A pass of `render(true)`, which only moves the cursor, and `reset`, `abort`, `resize` and the destructor are one step. `pc`, `sec`, `line`, `y`, `draws` are where main is |
| `SystatScreen` | what the user sees | The frame as a list of lines without rows or claims; composes with `Systat` to compare |
| `MCSystat` | instances of the above | Window heights on both sides of each decision of `fit` |
| `Counters` | the unsigned counters of all samplers | `Word`, `Plus`, `Minus`: arithmetic modulo the width |
| `RateMeter` | abstract specification | What a table of rates promises |
| `Sampler` | what Processor, Disk and Network have in common: one counter per device | `Construct` and `Update` are the constructor and `update`, each the whole call; `Traffic`, `Plug`, `Unplug` are the kernel |
| `MCSampler` | its instance | One fixed, one removable device |
| `DeviceNames`, `LinuxDevices`, `MacDevices` | what is particular to each of the six classes | Operators only, four or five per class: what a line of the file becomes, the fields `copy` and `diff` touch, those `print` shows, the filter, the rows of `print` |
| `DeviceTables`, `MCDeviceTables` | Processor, Disk and Network of Linux and of MacOS, the variable `class` says which | `Construct` and `Update` as in `Sampler`, with entries that are records of the fields given a value so far; `Ask` and `Outgrown` are the two calls of sysctl in `Network::read` of MacOS; `Count`, `Leave`, `Appear`, `Switch` are the kernel |
| `VirtualMemory` | VirtualMemory of Linux | As `Sampler`, for four named fields and the chain of comparisons in `read` |
| `MacMemory`, `MCMacMemory` | Memory and VirtualMemory of MacOS | `ReadLast` and `UpdateMemory` are `Memory::Memory` and `Memory::update`, `Construct` and `Update` those of `VirtualMemory`, which copies `memory.current`; `Count` is the kernel, between any two of them |
| `DriveSet` | abstract specification | A bounded set of drives |
| `DriveTable`, `MCDriveTable` | the table of drives of `c/mac/Disk.cpp` | One action per drive an iterator delivers: `Record`, `Pass`, `Vanish` are the outcomes of `record_device`, `Remove`, `Ignore` those of `remove_drivelist`; `EndRecord` sorts |
| `Parser`, `MCParser` | Parser and Line, with a heap | One action per call; `GetToken` and `GetNothing` are the outcomes of `get_token` and `get_long`, `NextLine` and `NextFails` those of `next`. `heap` is the live blocks with their text, `ptr` the fields that point to them; a call frees and allocates where the code does, and a freed address may be given out again |
| `Pen` | attributes and colours of Console | Operators on a record of what the terminal draws with and the fields Console keeps of it |
| `Heading`, `MCHeading` | `Platform::print` of both systems, the calls of a frame that change the pen, and the part of `main` around them | `Size`, `PrintTitle`, `Fill` are the statements that build `out`; `Call` is one call of Console, from the list `Frame`; `Winch` and `Interrupt` come between any two |
| `PerlSystat` | `perl/systat.pl` | `InitState`, `ResetFlag`, `AskSize`, `ClearForSize`, `Loop`, `Draw`, `Timeout` and one action per key; `Type`, `Resize`, `Count`, `Hotplug` are the user and the kernel |
| `SystatProofs`, `SamplerProofs`, `PagingProofs`, `DeviceTableProofs`, `DriveTableProofs`, `HeadingProofs`, `PerlProofs`, `ParserProofs` | | Theorems, see below; `PagingProofs` is about `MacMemory` and `VirtualMemory` |

Choices made in them:

- In `Systat` a row of the screen holds one value, the line last written to it; columns and colours are left out
  there.  `Heading` has them, for the one line that depends on the width and for the pen, and no rows: it takes
  every frame to fit, and one section for the five below the heading.
- MacOS is a value of the constants of `Systat`: `MemoryLines = 8`, `DrawsPerFrame = 2`, `Faults = {}`.  Its
  link order is taken to be that of Linux; the model of construction, and the faults in it, are of Linux.
- A handler runs between two steps of `Systat`, in `Heading` between two calls of Console, never inside `printf`.  The code calls `printf`
  in its handler, which is not async-signal-safe; what happens inside stdio is outside the model.
- A counter wraps modulo `Word`, 2^64 in the code, and moves less than `Word` between two reads.
- Fields that a class treats alike are one field, `count`, in `DeviceTables`; the others are there by name:
  `rx_multicast`, which `copy` of Linux leaves out, `major`, `up`, `blocksize` and `driver`.  An entry has no field
  that was not given a value, so that reading an uninitialised one is visible.
- In a heading of MacOS `console.width` is read twice in one expression, `width ? width : 80`; the model takes that
  as one step.
- A terminal takes no notice of `CSI = n l`, which `set_mode(.., false)` prints; the program only turns modes off
  with `mode_clear`.
- Perl runs its handler, which only sets a flag, between two statements; nothing else of a frame can interleave,
  so that a frame is one action.  A frame of `PerlSystat` has one row per kind of device.
- `at()` of Term::Screen takes a row beyond the last for the last, by the size `stty` told, and the terminal by
  its own (`RowOf`, `Reach`): the rows that do not fit are printed over each other in one row.  A window that
  shrinks loses its lower rows, one that grows gets blank ones.

## The runs

All pass unless marked.  Deadlock is checked in all but three: in `classes` the process exits when a list outgrows
its buffer or stops on a bound of the kernel, in `heading` it ends or overruns its buffer, in `perl` it ends.  In the
others `Ended` and `Closed` are the explicit stutter of a process that has exited and of a parser that is gone.

| Run | Instance | What it shows |
|---|---|---|
| `linux` | heights 14, 15, 20, 21, 22; two processor lines, no disk, up to one interface that comes and goes; failing `fopen`, `/proc/net/dev`, log; one window change | `WholeOrBlank`: whenever main sleeps after an undisturbed round, the best frame is on the screen, row by row, or the screen is clear. `CursorHidden`: mode_clear after each heading, abort and the handlers never leave the cursor wrong. `TtySane`: the cursor is back on every exit path. `InterruptEnds`: ^C ends the process. `Settles`: when window and height agree for good, every later second shows the frame. `HeightKnown`, `RenderAgrees`, `TypeOK` |
| `mac_screen` | heights 15, 16, 22, 23; a disk; memory draws eight rows and claims three; two draws per frame; two window changes | `WholeOrBlank`: every row that memory overdraws is drawn again by a later section, so that what stays is the frame |
| `sampler` | two devices, `Word = 4` | `NoNullStats`, `GoneIsQuiet`; `MetersFixed`: for a device that stays, `Sampler` implements `RateMeter`, fairness included |
| `classes` | each class in turn; a device the filter lets pass and one it refuses; `Word = 3`, `TickWord = 2` | `NeverNull`; `UsedIsDefined`: no field is printed that was never given a value; `RatesExact`: a refresh shows what an undisturbed device moved, and zero for one that has gone, the drives of MacOS excepted; `TotalIsSum`: the line CPU is the sum of the cores after a counter wrapped; `RowsOnlyGrow`: a row goes only with its counter, so that a frame cannot shrink at the same height; `ClassesSample`: four of the classes implement `Sampler` |
| `heading` | a heading of three columns in windows of 0, 3, 4 and 6; two heights; one byte of old stack | `PenIsPlain`: no colour outlives its line; `HeadingInRow`: the heading leaves the last column free; `OverrunHasCause`: the buffer overruns for one of three causes only; `TintKeptHeight`: a window erased white by a handler is cleared again if its height is new |
| `perl` | heights 14 and 20, the lower one too low for a frame; two resizes, all keys, two seconds, counters up to 2 | `SizeSettles`: no change of the window is lost; `ScreenIsFrame`: each row a frame draws is in its place, the last one in the last row of a low window, and each row it skips or does not reach shows a frame drawn since the last new window or key c: a compressed frame leaves nothing of the longer one, while a CPU or drive that comes or goes may leave rows; `CurrentAddsUp`: the current columns of all frames add up to the aggregate ones, but for the pages before the first; swap OUT is 0 in both, as `$vmstat{pgswpout}` never exists |
| `mac_memory` | two fields treated alike, `Word = 3`, the kernel counting between any two calls | `MetersVirtualMemory`: the virtual memory section implements `RateMeter`, fairness included, although its object never asks the kernel; `TypeOK` |
| `drive_table` | four media, each with or without a driver and a name, delivered in any order; three slots | `TableExact`, `ImplementsSet`: sorting, shifting, removal and `abort` that returns neither lose nor invent a drive; `NoneLeftOut` but for a full table; `TypeOK` includes that no entry in use comes from behind the array |
| `parser` | all files of up to two lines of up to four characters, each a space, a tab or other; two failing calls; five addresses | `TokensAreWords`: get_token delivers the words of the line; `HeldTokenLives`: the token a client holds is a live block with its text, whatever address the heap gives out; `HeapAccounted`: no pointer of the parser dangles, no two share a block, and the blocks nobody points to are one for each failing `getline` |
| `abort_exits` | violated | `Console::abort` is documented to exit and returns |
| `swapping` | violated | `pswpout` is assigned to `swap_in`, `swap_out` is never set |
| `current_column` | violated | `memory.delta` of MacOS, headed Current, is the count since the start: no update assigns `last` |

**Bounds.**  `fit` compares the height with two sums, 21 + i and 20 + i rows of the instance `linux` for i
interfaces, and a frame without blank lines takes 14 + i; the heights lie on, below and above each, and 14 is too
low for the frame with an interface.  More lines of any section shift these numbers and change nothing else (the
theorems hold for all): `linux` leaves the disk to `mac_screen`, where every sum is one more.  One window change
reaches every pair of old and new height at every step of a frame; the second one of `mac_screen`, whose loop is that
of Linux, covers a change in the repair of the first.  `MaxRows` is the tallest window, so that a frame that is drawn
past its end would scroll.  Two devices suffice for the sampler because no operation
relates two devices: one stays, one goes; four values of a counter let it wrap in one move or in several.
`classes` adds the one operation that relates devices, the sum of the cores: with `Word = 3` two cores wrap it, and
with `TickWord = 2` each core wraps before the sum does.  `Active` names the devices that count, or switch: the one
a filter refuses stays idle, but on MacOS, where every core counts.  `heading` has a width on each side of the
decision of `Fill` and one, 0, that stands for no terminal; `MaxJunk` of 1 is enough to push the text past its
buffer, and two heights tell a new one from the old.  In `perl` a frame takes 13 to 19 rows: every one fits
the window of 20, a compressed one that of 14 unless both a CPU and a drive are there, the others do not; two resizes cover a change
while the first is answered; `MaxSleep` and `MaxCount` of 2 cover a floor, a first and a later difference; `busy` bounds the counters
whose row changes to one, as no column relates two of them.  In
`mac_memory` two fields show that nothing mixes them, and with `Word = 3` both wrap.  Four media in three slots
fill the table, with a medium to spare; removals hit the first, a middle and the last entry, of a full table
too.  In the parser four characters hold two words with every pair of separators, or one with blanks on both sides;
two lines cover a token held across `next`.  Five addresses are one more than are ever live, so that the heap has
a choice; `SYMMETRY` is sound as no step tells addresses apart and the properties are invariants.

**Fairness.**  `WF_vars(Main)`: the process is scheduled, `sleep(1)` ends and no read blocks for ever.
`WF_vars(HandleWinch)`: a pending signal is delivered.  The user (`Interrupt`, `UserResize`) is never
fair.  `WF_vars(Construct)`, `WF_vars(Update)` of the samplers, `WF_vars(Program)` of `MacMemory`: the loop of
main calls update again and again.  The kernel's side is never fair.  `WF_vars(Program)` of
`PerlSystat`: key_pressed has a timeout, and nothing else waits.  `DeviceTables`, `Heading`, `DriveTable` and
`Parser` assume none.

**Observed, and not a run.**  While modelling:

- `platform.print` returns 3 for 2 lines, which makes up for rows counted from 0 by `render` and from 1 by the
  terminal; `memory.print` of MacOS draws eight lines and claims three.
- The loop clears the frame it has just drawn when the height is new, so that the first second, and the first at
  every new height, is blank.  A device that appears after the start never gets a line.
- A frame that shrinks at the same window height leaves rows of the taller one below it.  It shrinks only when a
  counter is back at zero (`RowsOnlyGrow`), or when `fit` chooses otherwise.
- A window narrower than the heading makes `fill` huge, and the loop writes past `out`.  The fill also covers the
  terminating 0 of the title, so that `strcat` starts at the next 0 the stack happens to hold
  (`OverrunHasCause`).
- Two reads of `console.width` in `linux/Platform.cpp:59,62` may differ; MacOS reads it in one expression.
- A handler that runs in a heading erases the window in its colour.
- `Network::read` of MacOS exits the process when an interface appears between its two calls of sysctl.
- `CPU::print` of MacOS prints its column Idle without an argument (`mac/Processor.cpp:33`).
- Drives of MacOS without a name share one entry of the maps.
- `MemAvailable` overwrites a field (`linux/Memory.cpp:64`); counters of 64 bits are printed with `%d`.
- SIGWINCH cuts a second short, so that the rates shown then cover less; a device removed and created again
  between two reads shows a difference near 2^64.
- `memory_free` of MacOS subtracts pages from bytes; the flags of an interface are those of the start.
- A drive of MacOS that has gone: the comment at `c/mac/Disk.cpp:274-277` says "If the drive goes away, we may not
  get any properties for it.  So take some defaults."  The code sets the defaults, then goes on to the next drive at
  288 before it stores them, so that the entry keeps what it had and shows no difference; the defaults would show one
  near 2^64.  `RatesExact` says nothing of that case.
- The callbacks for drives that come and go need a run loop, which the program never runs: the drives are
  those of the start.  A drive that terminates while it is recorded leaves `properties` uninitialised, as
  `abort` returns (`Vanish`).
- The buffer that `getline` allocates at the end of a file is never freed, one per file and second
  (`NextFails` models it, `HeapAccounted` says it is the only one).  Blocks of `strdup`, `getline` and `new[]` are
  all freed with `delete`; the model does not tell them apart.
- `$vmstat{pgswpin}` and `$vmstat{pgswpout}` of `perl/systat.pl:432,433,461` are keys the file never has, so that the
  swaps out are always 0 (`Told`), and the first frame shows all swaps in since the machine started.
- The rows of `perl/systat.pl` move when a CPU or a drive comes or goes, and nothing clears: rows of the frame before
  stay where the new one skips.  In a low window the last row is what was printed last.

## The theorems

For all values of the constants that satisfy the named assumptions, and from `Init` and `[][Next]_vars` only.  The
assumptions are what the code gives:

- `MaxRowsAssumption`, `SystatAssumption`, `HeadingAssumption`, `ParserAssumption`: sizes and bounds are natural
  numbers; a window has a row; there is a processor line, and memory draws at least three.
- `ScreenAssumption` (`WholeOrBlank` only): what memory draws beyond its claim of three lines reaches no further
  than the heading of the network, which is drawn whatever the interfaces are.  MacOS draws eight lines, and the
  sections below draw ten without any disk.  A memory section that drew more would leave lines for good.
- `WordAssumption`, `TickAssumption`: a counter has at least two values, and a tick no more than a counter; no core
  is called `CPU`.
- `SamplerAssumption`, `NamesAssumption`: there are finitely many devices.
- `DriveTableAssumption`: finitely many media, numbered from 1 (0 stands for no name), and an array with a slot.
- `ParserAssumption` also: NULL is no address.
- `PerlAssumption`: the delay and the counters may reach 1, and a window has a row.

| Theorem | Says |
|---|---|
| `SystatProofs!TypeCorrect` | `Spec => []TypeOK` |
| `SystatProofs!HeightIsKnown` | `Spec => []HeightKnown` |
| `SystatProofs!TtyIsSane` | `Spec => []TtySane` |
| `SystatProofs!CursorIsHidden` | `Spec => []CursorHidden` |
| `SystatProofs!RenderDoesAgree` | `Spec => []RenderAgrees` |
| `SystatProofs!UserSeesWholeFrames` | `Spec => []WholeOrBlank` |
| `SamplerProofs!TypeCorrect` | `Spec => []TypeOK` |
| `SamplerProofs!NeverNull` | `Spec => []NoNullStats` |
| `SamplerProofs!GoneStaysQuiet` | `Spec => []GoneIsQuiet` |
| `SamplerProofs!MetersFixedSafely` | `Spec => Meter!Safety`, the safety part of the refinement |
| `PagingProofs!MetersPagesSafely` | the same for the two paging fields of Linux |
| `PagingProofs!TypeCorrect` | `Spec => []TypeOK` |
| `PagingProofs!MetersSafely` | `Spec => Meter!Safety` |
| `DeviceTableProofs!NoNullPointer` | `Spec => []NeverNull` |
| `DeviceTableProofs!PrintedIsDefined` | `Spec => []UsedIsDefined` |
| `DeviceTableProofs!RatesAreExact` | `Spec => RatesExact` |
| `DeviceTableProofs!RowsGrow` | `Spec => RowsOnlyGrow` |
| `DeviceTableProofs!ClassesType` | `Spec => []TypeOK` |
| `DeviceTableProofs!TotalIsTheSum` | `Spec => []TotalIsSum`, for every number of cores |
| `DeviceTableProofs!ClassesImplementSampler` | `Spec => ClassesSample`, the refinement of `Sampler` |
| `DriveTableProofs!TableType` | `Spec => []TypeOK` |
| `DriveTableProofs!TableIsExact` | `Spec => []TableExact` |
| `DriveTableProofs!OnlyFullLeavesOut` | `Spec => NoneLeftOut` |
| `DriveTableProofs!TableIsSet` | `Spec => ImplementsSet`, the refinement of `DriveSet` |
| `HeadingProofs!TypeCorrect` | `Spec => []TypeOK` |
| `HeadingProofs!PenIsAlwaysPlain` | `Spec => []PenIsPlain` |
| `HeadingProofs!TintNeedsHeight` | `Spec => []TintKeptHeight` |
| `HeadingProofs!HeadingFits` | `Spec => []HeadingInRow` |
| `HeadingProofs!OverrunIsExplained` | `Spec => []OverrunHasCause` |
| `PerlProofs!CurrentDoesAddUp` | `Spec => []CurrentAddsUp` |
| `PerlProofs!PerlType` | `Spec => []TypeOK` |
| `PerlProofs!ScreenIsTheFrame` | `Spec => ScreenIsFrame`, an action property |
| `ParserProofs!HeldIsOwned` | `Spec => []HeldTokenLives` |
| `ParserProofs!BlocksAreAccounted` | `Spec => []HeapAccounted`, for heaps of every size |
| `ParserProofs!DeliversTheWords` | `Spec => []TokensAreWords`, for lines of every length |

**The argument.**  `TtySane` is not inductive: it says nothing before the process stops.  `CursorInv` adds
`CursorHidden`, for mode_clear restores whatever the field `cursor_hidden` says, and that the cursor is visible as
long as SIGINT would kill the process, which is the only exit that does not run the destructor.  `RenderAgrees` compares one number at the end of a frame;
`FrameInv` gives y, at every place in a frame, as the sum of the claims of the sections drawn so far
(`RowOf`), which only depends on flags that do not change while drawing.  Lemmas state once that the operators
of `Console` map consoles to consoles.

`WholeOrBlank` compares the screen with the frame once, when main sleeps.  `ScreenInv` says what holds on the way
there, as long as nothing has disturbed main in this second and the frame fits: the flags are what the window asks
for, the cursor is on the row of the next line, and the rows drawn so far (`Drawn`) are right.  Its hard part is
memory of MacOS, whose lines run into the rows of the next sections: they are never among the rows drawn, and by
`ScreenAssumption` each of them is drawn before the frame ends.  `FrameText` builds the frame without rows, by
joining its sections; `OneSectionMore`, used six times by `TextOfFrame`, says on which row each line falls.  A frame
that scrolls or was disturbed needs no invariant: main clears, or the round is not one the property speaks of.

For the samplers, the lemmas about counters say that a difference undoes a sum modulo `Word`, however the counter
wraps.  `SamplerInv` says that no null pointer was followed, that the lines of `delta` are among the keys
of `current` and so is every device ever read, that the fixed devices have lines, and that for them `moved` is
what the kernel counted beyond `current`; with it a step of `Update` shows exactly what the meter had pending.
`VMInv` and `MemInv` say the same of four named fields and of the two objects of MacOS, where the kernel is
`moved` ahead of `memory.current` and `virtual_memory.current` equals that between two rounds.

For the six classes `ClassInv` has five parts: the kernel's types; `NamesKept`, that `delta` has no name `current`
lacks, from which `NeverNull`; `FieldsKept`, that every entry has the fields print asks for, since they are among
those each class copies; `NamesRead`, that a name of `current` which is in the file is one the filter lets pass; and
`Tracked`, that what an undisturbed device moved is the difference the next read will find.  The proof treats the
classes one by one only where they differ, in the lemmas `LinesOfClass`, `UsedAreCopied` and `LinesNames`.
`MapsType` adds the types of the maps.  `Totalled` says that `current` always holds the cores and their sum; that a sum
of differences is the difference of the sums, modulo `Word`, goes by the number of devices: a smallest set on which it
failed would lose a device and fail still.  `ClassesImplementSampler` maps the entries of a class to their `count`
and leaves out the names a filter refuses; `Ask`, `Outgrown` and `Switch` are stutters of `Sampler`, and a class that
`Sampler` does not describe stutters throughout.

`TableInv` says of the table of drives, at every step: the first `num_devices` entries are those of the drives taken,
one for each (`Holds`); while it is filled, the entries behind them were never written and a drive is left out only
for a full table (`Recording`); afterwards it is sorted (`InOrder`).  `qsort` is any permutation that sorts, so that
the lemma `SortedHolds` is about an arbitrary one.  By `DriversTaken` the drives in the table are the set `taken`,
which is the refinement mapping to `DriveSet`.

In `HeadingProofs`, `PenKnown` gives the pen at every place of a frame (`InkAt`), which no signal changes;
`PenIsPlain` is that function read at the newlines.  `TintKnown` adds that a tint is of the height the window has:
main compares that with the height it last saw, and clears, with a plain pen, when they differ.  `Placed` says, step by step, that the width of `out` is that of the window unless a signal has come.

`ColumnsInv` of `PerlProofs` relates what the program keeps of each counter to the sums its columns have shown; it needs
that a machine has paged before the program starts, for 0 pages is how the program knows its first frame.
`ScreenInv` there says that, unless a change of the window is pending, `size` is the height of the window and every
row is blank or a row of a frame drawn since the last clear; a frame keeps that because what it does not draw stays.

`HeapInv` of `ParserProofs` adds to `HeapAccounted` that `line` and its buffer come and go together and that the
client's pointer is the parser's `token`.  Every call frees blocks of some pointers and sets those to new blocks:
`HeapChange` shows once that this keeps the unreached blocks, and each step is an instance of it.

`LineInv` of `ParserProofs` says where get_token may begin: at the start of the line, at a blank, or at its end, but never
inside a word; and that the tokens given are as many as the words that begin before that place, in their order.
`SkipBlanks` and `SkipWord` say what the two loops of get_token find; `WordByRank` that the word they enclose
is the one with the next rank.

**Model-checked only.**  `InterruptEnds`, `Settles` and `SizeSettles` are liveness properties, and the fairness of
`RateMeter` in `MetersFixed` and `MetersVirtualMemory` is another: the prover has no rules for ENABLED, so that
TLC alone checks them.  The theorems of `MetersFixedSafely` and `MetersSafely` are the safety parts.  Every other property of a
passing run is a theorem.  `abort_exits`, `swapping` and `current_column` refute what a comment or a heading says; there is nothing
to prove.

## Not modelled

- The sums of the two memory reports and the format of every report: they keep no state.  So `memory_free` of
  MacOS, which subtracts pages from bytes, is only noted.
- The constructor and `update` of `Platform` beyond opening their files: the fields they fill are only printed.
- `row` and `col` of Console, which nothing reads back; `colors_clear` and the methods that set other attributes,
  which nothing calls.
- What happens inside stdio when a handler prints while main does.
- `Log` beyond opening its file: what it writes is never read.
- `c/old`, `license` and `c/cmake-build-debug` are not part of the program.

## Plan

Done, in this order: `Console`, `Systat`, `SystatScreen`, `SystatProofs`; `RateMeter`, `Counters`, `Sampler`,
`SamplerProofs`; `VirtualMemory` and its proofs; `Parser`; `MacMemory` and its proofs; `DriveSet`, `DriveTable`;
`DeviceTables` with the classes of both systems, `Pen`, `Heading`, `PerlSystat`, and their proofs; the proofs of
`WholeOrBlank`, `TotalIsSum`, `ClassesSample`, `DriveTable`, `Parser` and the screen of Perl.  What is left, most
important first:

1. Composition of `Systat` and `Sampler`: what a second cut short does to rates, and the rows below a frame.
2. The sums of the memory reports as functions of their counters, compared with a reference definition.
3. Proofs about what `Systat` says of a disturbed round: that one undisturbed second repairs the screen, as a
   safety property that `Settles` follows from under fairness.
