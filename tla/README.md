# sys-mon: specifications, model checking and proofs

TLA+ models of sys-mon, a daemon that reads numbers from /proc and /sys and
hands them to clients through shared memory. The models follow the C code, not
its README; where the two disagree on what is modelled, the disagreement is under
"What was found", some with a run that shows it. `PROJECT.json` maps each definition
to the lines it models and lists the runs, the mutants, the hazards and the theorems.

## 1. The system

| component | state | operations | what is hard |
|---|---|---|---|
| shared buffer (`shared_buf.h`, `client/client.c`, `sys-mon.c`) | a robust mutex, the semaphores `in` and `out`, `sync_method`, the text `data` | `sys_mon_read_data` in two modes; the daemon's two loops around `update()` | clients and daemon interleave and may die between any two steps; waits are cut short by signals; answers may outlive who asked |
| daemon life cycle (`sys-mon.c`) | the shared memory object and its name, what is initialised so far | boot, service, `handle_signal`, kill, restart; `sys_mon_open`, `sys_mon_close` | clients open the object before it is initialised; a killed daemon leaves it behind |
| configuration (`sys-mon.c`) | `modules[]`, `sys_mon_config` | `parse_sys_mon_config`, `parse_modules_config`, `section_config` | sections in any order, parsers that call each other, what is refused |
| module loader (`module.c`, `module_list.h`) | a handle per module | load, write_data, unload | none by itself |
| writter (`writter.c`) | `pos` in a buffer of fixed size | `write_char`, `write_string`, `write_uint`, `write_int64` | nobody looks at the results: what happens when it is full |
| read buffer (`read_buffer.c`) | one static 64-byte buffer for all files, `pos`, `filled`, `current_fd` | `read_start`, four number and word readers, `skip_next`, `next_line` | words across pieces, ends of files, failed reads, what is left from another file |
| modules cpu, disk_activity, generic, time, ram (`modules/*.c`) | numbers of the read before | init (with a first read), `write_data` | widths of integers, wrapping counters, a clock that is set back, missing lines |
| genmon plugin (`genmon/sys-mon-pango.c`, `genmon.c`) | module handles, local buffers and variables | load, update, close; a text for the panel, `pkill` and `beep` when memory is low | `sscanf` over a text that may lack numbers and has no end; its result is not looked at |
| genmon tools (`my-system-info.c`, `cpu-stats.c`, `sys-mon-pango-tooltip.c`) | the record `info_out`, converted in place; the targets of `fscanf` in a loop | load, update, close; a text from four commands | results of an update before that are taken for new ones; commands that print nothing, or lines the formats do not expect |
| simple-client, scripts, samples | none | one call | nothing |

How they interact. The daemon parses the configuration and loads the modules,
creates the object, initialises mutex, `sync_method` and semaphores in that
order, and serves. With `auto_update = false` a client takes the mutex, drains
`out`, posts `in`, waits for `out`, copies `data` and unlocks; the daemon waits
for `in`, runs `update()` and posts `out`, without the mutex. With `auto_update
= true` a timer signal makes the daemon take the mutex and update; a client only
takes the mutex and copies. `update()` calls every module; a module reads its
file through the read buffer and writes through the writter.

What makes each part correct:

- shared buffer: a copy is of one update and recent; no wake-up is lost; the
  mutex survives deaths; every call returns.
- life cycle: no object is initialised twice under its users, and the name leads
  to an object that is served.
- configuration: a module per module line, in order, the last settings; nothing
  is ignored in silence.
- writter and `update()`: lines and columns stay where clients expect them.
- read buffer: the characters of the file, each once, and every call returns.
- modules: each number is about the interval since the update before; `ram` knows
  the line of each key it is asked for.
- genmon: what is shown and done is about what was read in this update; an
  incomplete line spoils nothing that lasts.

## 2. Modules

| module | models | composed with |
|---|---|---|
| `RobustMutex` | robust process-shared mutex, as values (external) | |
| `SharedBuf` | `struct shared_buf`, the common parts of `sys_mon_read_data` and `update()` | extends `RobustMutex` |
| `ReadService` | abstract: a call returns one recent snapshot | |
| `DemandUpdate` | `SYS_MON_SYNC_SEMS`: client and daemon with `in` and `out` | extends `SharedBuf`, implements `ReadService` (strict) |
| `AutoUpdate` | `SYS_MON_SYNC_NONE`: timer, mutex | extends `SharedBuf`, implements `ReadService` (not strict) |
| `Lifecycle` | boots that succeed and that fail, stop, kill, restart, open and close; both modes | extends `RobustMutex` |
| `UpdateText` | the calls of `update()` on the writter | |
| `CharStream` | abstract: the characters of a file, one after the other | |
| `ReadBuffer` | `read_buffer.c` | implements `CharStream` |
| `Words`, `CpuModule`, `DiskActivity`, `GenericModule`, `TimeModule`, `RamModule` | the modules and what they read | extended by `Sources` |
| `Sources` | `update()` over the configured modules and files that change in between | |
| `RamStart` | the scan of `/proc/meminfo` with which `ram` starts | extends `ReadBuffer`, whose calls it makes |
| `ConfigParser` | the configuration file | |
| `Scanf` | `sscanf` and `fscanf` on texts made of tokens (external) | |
| `Bars` | `choose`, bars and pies, the sorting network | extends `Words` |
| `ModuleText` | what the genmon programs share: modules loaded in their own process, the text they write and the scan of it | extends `Scanf`, `Bars` |
| `Panel`, `SystemInfo` | the plugin; `my-system-info` and `cpu-stats` | extend `ModuleText` |
| `Tooltip` | the tooltip's four sections | extends `Scanf`, `Bars` |
| `Genmon` | the programs: `genmon.c` over plugin and tooltip, a host of `my-system-info`, `cpu-stats` | extends `Panel`, `SystemInfo`, `Tooltip` |
| `DemandUpdateProofs`, `AutoUpdateProofs`, `LifecycleProofs`, `ConfigParserProofs`, `UpdateTextProofs`, `ReadBufferProofs`, `SourcesProofs`, `GenmonProofs` | theorems | extend what they prove about; `ReadBufferProofs` extends `RamStart` as well |
| `MCSources`, `MCReadBuffer`, `MCUpdateText`, `MCGenmon` | values of constants for TLC | |

### How state and actions correspond to the code

**Shared buffer.** The variables `mutex`, `in`, `out` are those of the struct.
`data` is kept per line as the number of the `update()` that wrote it, so an
update that overlaps a copy shows as a copy of several updates; `strncpy` and
`update()` go line by line. `pc[c]` is the client's place in `sys_mon_read_data`:
one action per call it makes (lock, consistent, `sem_getvalue`, a turn of the
drain loop, `sem_post`, `sem_wait`, copy, unlock); `dpc` the daemon's. A client
dies (`Die`) at any place but outside a call; the kernel then marks the mutex
(`Abandoned`). `Stop` ends the daemon at any place, as `handle_signal` does:
it exits wherever the process is. `WaitInterrupted` is `sem_wait` returning
EINTR, which the code does not look at. Local values read before they are used
later (`left`, the count of `sem_getvalue`) are variables of their own.

**Life cycle.** `shm[o]` is the struct in the o-th object created under the
name; an orderly stop unlinks the name, a kill does not, so that the next daemon
reuses the object (and `ftruncate` then changes nothing). A boot that
fails (`BootFails`: `shm_open`, `ftruncate` or `mmap`) exits without unlinking, so that
the name stays bound as after a kill; `orphans` is history, the objects left under
the name without a daemon. Each initialisation is
an action, so that clients open and call in between. Fields nobody set are 0:
`SYS_MON_SYNC_SEMS`, an unlocked mutex, empty semaphores. Initialising a mutex
somebody holds is undefined; as glibc does, it is taken to set it free. Calls are
coarser here than in the two protocol modules.

**Text.** A value is only its length. `Fits` and `CharFits` are the writter's
tests; the calls of each module's `write_data` are a sequence of `"value"` and
`"space"`.

**Read buffer.** A character is its file and its place there, so properties can
say which character is where; calls look at its class. A step is one turn of a
call's loop. A `read()` may give fewer characters than the buffer and the file have room
for (`Sizes`). `get()` after the end of a full buffer may see anything (`Beyond`).
Any call may follow any other, because most modules ignore what calls return.

**Start of ram.** `RamStart` is the loop of `sys_mon_module_init_ram` over the
read buffer's calls, one action per statement that changes state, after calls of
other modules that left the buffer in any state. A key is what `KeyOf` finds the
word to begin with; a call that failed leaves `arg` as it was or without an end
(`Written`), so the line may be noted for another key, as in the code.

**Modules.** One `Write` action per `write_data`, on the variables it keeps;
`...From` and `...Upto` are history: the file at the last two reads. For
`disk_activity`, `diskUpto` is the last read, `diskBase` the one before it that did not
fail, and `diskSum` what was written since. What was written is a function: of the columns for `cpu` (a line and a field), of the flags
for `disk_activity`, of the numbers of the lines for `ram`. An integer type is its
number of values (`IntValues`, `LongValues`, `WordValues`), scaled down for TLC. No module
but `ram` looks at what its reads returned: in a failed one `cpu` sums whatever its local
variable and the buffer give (`Misreads`), `disk_activity` keeps a counter, gets 0, digits
left in the buffer or a number out of its place (`AfterDiskFailure`), `generic` the same
with one number (`AfterFailure`). `ram` writes no numbers. `Sources.Update` is the loop of
`update()`, every configured module once.

**Genmon.** A text is a sequence of tokens, each with the place it comes from, so
that properties can say which reading a variable got. A program's update is one
action per `append_module_output`, and one for the scan and all that follows. A
module whose file could not be read writes numbers of what it has, or copies what
its local buffer holds (`BadLines`); behind a text without NUL lies memory nobody
has written (`Scans`), and targets nobody wrote hold `Junk`. Integers have their
widths and signs: `%d` into an unsigned, an unsigned compared with an int, sizes
of swap kept in an int. What is printed reaches the panel when the process exits;
one that is killed loses it.

**Configuration.** A line is what `fgets` gives, classified by what the parsers
tell apart. A module or comment line that is too long comes in two pieces: the first
has the value `"cut"`, and some line follows it. The recursion at section headers has nothing to do after it returns,
so the running parser is a variable. `exit_with_error` is `"refused"`.

## 3. Runs

| run | shows | bounds |
|---|---|---|
| `demand` | on-demand updates with deaths, an interrupted wait and a stopped daemon: ownership, recoverability, no lost wake-up, at most one answer too many per fault, refinement of the strict service, every call returns | 2 clients, 2 lines, 4 calls, 2 deaths, 1 interruption |
| `demand_torn` | **violated**: a client that died waiting leaves an answer; a later client takes it for its own and copies during an update | 3 calls, 1 death |
| `auto` | timed updates: ownership with the daemon, refinement, every call returns, every alarm leads to an update | 2 clients, 2 lines, 4 calls, 2 deaths, 3 ticks |
| `auto_torn` | **violated**: a daemon stopped in `update()`; the next client recovers the mutex and returns a half-written text | 1 call each, 2 ticks |
| `lifecycle` | boots that succeed and fail, stop, kill and restart under clients in both modes | 2 clients, 2 starts, 1 kill, 3 calls, 2 alarms |
| `boot_race` | **violated**: a call that read `sync_method` too early blocks a timed daemon for good | 1 client, 1 start |
| `update_text` | lines and columns of a text in a buffer that may be too small | 3 modules of all layouts, 14 characters, values of 0 to 5 |
| `read_buffer` | stream of characters, whole words, calls end; `ram`'s scan notes the keys' lines and ends | pieces of 2, three files (three lines; ends in a number at the end of a piece; empty), 4 calls before the scan, 2 failed reads, reads of any size |
| `sources` | the numbers of all modules over sequences of updates with failed reads | below |
| `cpu_overflow` | **violated**: percentages after the total outgrew an `int` | `int` of 4 bits, 12 ticks |
| `genmon` | the genmon programs: kills for memory that was read only, what an update that read everything shows, bars sorted in pairs, rows of df, both texts appear | 2 sensors for 4, 1 failed line per update, 2 updates, `int` of 14 bits, up to 3 lines of df of 5 forms |
| `config` | modules and settings of a file, and what is refused | all files of up to 4 lines of 21 kinds, 2 modules at most |

Why the bounds are enough. Two clients and two lines are what a torn copy or a
stolen answer needs; two deaths let the second client die while it recovers from
the first, and four calls leave calls to be harmed after both faults. The proofs
below hold for every value of these bounds. In `lifecycle` two starts and one
kill give a restart over a leftover object as well as one over an unlinked name.
The text of 14 characters can be filled anywhere by the values chosen, and end in
any of the calls. Pieces of two characters put the end of a piece in front of, in
and behind every word. In `sources`, sums of 16 values and words of 4 are exceeded
within 9 steps, two cores and two fields distinguish lines and columns, and
configurations pair the modules that share an idea; modules share no state but
the read buffer, which is modelled on its own, so larger combinations add nothing
but products. Four calls before `ram`'s scan leave the buffer
empty, full, behind its end, or after a failed read of another file. In `genmon`
two sensors tell the first from the last and one failed line shifts all behind it;
the second update finds what the first left; `Thousand` and `TenthGB` are 10 so that
readings on both sides of every limit fit in 14 bits, which products of swap sizes
exceed; three lines of df let an incomplete line spoil the next and the third be
whole again. Four lines of configuration hold two headers and two lines, or a
header and one module too many.

Every property of a passing run has a mutant, a definition changed as a bug
would change it, under which TLC finds the property violated.

`CHECK_DEADLOCK FALSE`: the runs end when calls, ticks or lines are used up, and
the daemon may be stopped.

### Fairness

Weak fairness of each client's steps inside a call and of the daemon's steps: the
kernel runs every process that is not blocked. Nobody has to call, to die, to be
signalled or to stop, and an interruption is not fair. `pthread_mutex_lock` is
not FIFO, so a client could in principle starve behind others; calls are bounded,
which is why weak fairness suffices, and starvation under endless calls is not
claimed to be impossible. In `ReadBuffer` the fairness is that of sequential code
running on, and in `RamStart` that of the calls and of the loop between them; the
bound on failed reads means that reads do not fail for ever, without which the scan
does not end. In `Genmon` only the tooltip's steps are fair: the commands it runs
come to their end. Nobody has to ask for an update.

### What was found

- `demand_torn`, `auto_torn`: "synced access" does not hold after a client that
  died waiting, or a daemon that ended inside `update()`.
- `boot_race`: the object has its name before `sync_method` is set.
- `cpu_overflow`: the sum of a `/proc/stat` line is stored in an `int`.

The definitions show further disagreements between the code and what the repository says
of it. The properties of the passing runs do not cover them; each names what it leaves
out.

- `name` is "mandatory" (README.md:78); the code accepts a file without one, which gets the
  default `sys-mon` (`Init` of `ConfigParser`; `ModulePerLine` has the default).
- The key is `auto-update` at README.md:80 and 85, `auto_update` at README.md:90. The code
  knows the second only; the first ends the daemon (`SetParam`; `OnlyDocumented` in
  `NothingIgnored`).
- `diff` gives "the difference between updates" (README.md:142); a `-` in the file is not
  stepped over and the number is read as 0 (`NextInt64`; `DiffsChain` speaks of numbers
  without a sign).
- "unsupported key" (ram.c:58) is said of `total` only: the initialiser of `line_numbers`
  sets its first element, so that any other missing key is taken for the first line's
  (`LineNumber`, `StartInit`; `RamAnswers` speaks of keys that are listed).
- "line too long" (sys-mon.c:66) is never said: `fgets` gives no line longer than the check
  allows, and the rest of the line is the next one (`Lines`, the value `"cut"`).
- Access is "synced" (README.md:173); a daemon started again after a kill initialises the
  mutex of the object it finds, whoever holds it (`InitMutex`; `overrun` and `spoilt` in
  `OneInside` and `CallsReturn` name the calls this harms).

Other behaviour the models show, which no document of sys-mon speaks of: a value
that does not fit in the text of an update is dropped and shorter ones after it
are stored (`WriteValue`); when the line of `ram` fails in a genmon program, the
memory is what an unwritten target or the update before left, and the browsers
may be killed for it (`Scans`, `InfoTargets`); without swap, or with swap whose
size is 0 as an `int`, the tooltip is killed and the panel's text is lost with it
(`Swap`, `Killed`); the plugin never unloads `gpu_rc6` (`PanelClose`); `cpu-stats`
shows core 7 in its last row (`StatsFormat`); a read of `/proc/stat` or of the disk
counters that fails spoils the numbers of that update and of the next, which nothing
marks (`Misreads`, `AfterDiskFailure`).

## 4. Proofs

The theorems hold for every value of the constants under the named assumptions of
the modules. Most say that constants are of the right sort and that processes
differ (`ConstantsAssumption`, `SignalsAssumption`, `TicksAssumption`,
`LifecycleAssumption`, `ConfigAssumption`, `LayoutAssumption`,
`ReadBufferAssumption`, `DiskAssumption`, `GenericAssumption`, `TimeAssumption`,
`ModuleTextAssumption`). Six say more. `IntAssumption`: an integer type has an even number of values.
`CpuAssumption`: the total is asked for (see 5), and ticks times their multiplier
fit in 64 bits. `RamAssumption`: the lines of `/proc/meminfo` that have keys stand in
the order in which Linux prints them. `RamStartAssumption`: the file whose lines the
layout names has as many lines, none empty, and each key once; the buffer for a
word holds a character and a NUL. `ReadingAssumption`: what `cpu` gives has a number for
all cores together and one for each the format names, all percentages, and an `int`
holds those; the other modules give one number that fits in an `int`, free memory none
below 0. `TooltipAssumption`: the commands print tokens, whichever and as many as they
like.

Induction over the naturals, where a sum or a scan needs it, is by the least
counterexample: the library's induction theorems take an operator as a parameter,
which the provers cannot instantiate.

**`DemandUpdateProofs`**, seven theorems: `TypeOK`, `MutexSound`,
`DrainNeverBlocks`, `SurplusBound`, `AnswerUnderWay`, `IntactReply`, and
`Spec => ServiceSpec`, the implementation of the strict `ReadService`. None but the
types is inductive. The argument is in four layers, each using those before it.
*Types*, with the place of a copy inside the text. *Ownership*: a client is between
lock and unlock exactly while it owns the mutex, and at `"recover"` exactly while
the mutex is inconsistent; without the second part a client could be thought to
unlock an inconsistent mutex, which loses it. *Counting*: `in`, the daemon's request
under way and `out` exceed what the waiting client is owed by at most the faults so
far; ownership is needed because only one client can wait, and makes the drained
count stable. *Text*: the text is of the last update outside `update()` and up to
`line` inside; a call that began with nothing outstanding has at most its own
request under way until it copies, so nothing writes while it does. The refinement
uses all four: a step inside a call changes nothing the service sees, because the
mutex is recoverable and no lock sends a client home; the end of a call is a
`Return` of the last update or, when the call promises nothing, an `Abort`; and
`TakeRequest` is the only `Refresh`.

**`AutoUpdateProofs`**, four theorems: `TypeOK`, `MutexSound`, `IntactReply` and
`Spec => ServiceSpec`, for the service that is not strict. The layers are types,
ownership and text; nothing is counted, the mutex alone keeps the daemon from a text
being copied. Ownership now has the daemon's own `"recover"`. The invariant of the
text (`TextInv`) says that the lines before `line` are those of the last update and
that a daemon neither in `update()` nor stopped has written them all; that of a call
(`CallInv`), that a client in the section which did not take the mutex over a
half-written text finds it whole, and holds lines of the last update only.
`IntactReply` needs the second, because a copy takes several steps. In the refinement
the version is the last complete update, so the `Refresh` is the last line
`update()` writes, and `StartUpdate` changes nothing: that needs `TextInv`, that no
text is half-written where an update begins.

**`UpdateTextProofs`**: `TypeOK`, `LinePerModule` and `SpacesKept`. The invariant
(`FullOrKept`): as long as the text is not full, every space and line end written
so far is in it; a full text stays full, and its NUL is refused.

**`ReadBufferProofs`**: `TypeOK`, `InFile`, `WholeWord`, and `Spec => StreamSpec`, the
implementation of the abstract stream. The invariant (`Window`): while no read
failed, the buffer is the piece of the file that ends at the file offset, `pos`
lies in it and the reader's place is offset - filled + pos, however much each read
gave (`SizesBounded`). `InFile` alone is not
inductive: `next()` needs the characters behind `pos`. `WholeWord` rests on it: while
a word is read, what was taken is the run of the file's characters that ends at the
reader's place, and the call returns only at a character that ends it.

In `RamStart`, `ScanIsReads` says that the scan's steps are steps of `ReadBuffer`
or touch nothing of it, so that all its invariants hold under the scan, and
`LinesAreNoted` is `LinesNoted`. Its invariant (`ScanInv`) says for each place in the
loop, as long as no read failed, which line the reader is in: in front of a key the
line ends before it are the lines counted, inside a key what was taken is of that
line and its first character is the first of the line, behind it the line ends
before the reader are still the lines counted until `next_line` returns; and that
the lines noted are those of the keys of the lines counted (`Noted`). The step that
is hard is the end of the loop: the call that returns no word must have met the end
of the file, and then every line was counted.

**`LifecycleProofs`**, four theorems: `TypeOK`, `InitialisedOnce`, `NameMeansDaemon`
and `OneInside`. The types say which objects exist and that whoever uses one has
mapped it. `InitsInv` counts initialisations: an object that does not exist has
none, and until a daemon initialises the named object again, the kills that left
it pay for what it has (a boot that fails does so before it initialises anything); and a
name bound while no daemon serves it is that of an object in `orphans`. `OwnerInv`: no mutex is ever lost, and a client between lock
and unlock owns it, unless it was initialised during the call (`overrun`); two
clients inside at once would both own it.

**`ConfigParserProofs`**, three theorems: `TypeOK`, `ModulePerLine` and
`NothingIgnored`. The invariant relates the parser to the lines read so far: the
parser that runs is that of the section the last header names (`Parsed`), and none
of the lines read was wrong there; the modules are those of the module lines, in
order, counted by the cardinality of a set of line numbers (`ModulesRead`); each
setting is that of the last line that sets it (`SettingsRead`); and where the parser
stops, it is at the end or at the line it refuses (`Stopped`).

**`SourcesProofs`**, five theorems: `TypeOK`, `CpuShares`, `DiskGrowths`, `DiffsChain`
and `RamAnswers`, one invariant per module: what a module keeps is what its file
held at the last read, in the width it is kept in, unless that read failed; and a read
that did not fail depends on nothing an earlier failure left. `CpuInv` needs the sums: a line's
sum is a recursive function over its fields (`LineSums`); it grows with each of them
and by at least as much (`SumsCompare`), so that a field's difference is at most its
line's, no product of it wraps, and half the whole added before the division rounds
the share to the nearest unit (`Rounding`). `DiskInv` says that what was written since a read adds up,
modulo the width, to the difference of what is kept now and what was read then: failed
reads in between cancel (`WordSteps`), and a sum that fits in a word is the growth of the
counter (`OneWordDifference`). `GenericInv` has the same with one number. `TimeInv` chains each difference to the time written before.
`RamInv`: the bits set are the line numbers of the keys asked for, so the numbers
written in the order of the lines are in the order of the keys.

**`GenmonProofs`**, eight theorems. `TypeCorrect`, `BarsAreSorted`, `KillsAreJustified`
and `WholeIsFresh` are the invariants `TypeOK`, `BarsSorted`, `KillsJustified` and
`FreshWhenWhole` of all three programs. They relate what a program shows to what its
modules read, and between the two stand a text with line ends, memory behind it and a
scan that does not know of lines. The invariant has two parts besides them. `LoadedRight`:
from the first line to the last exactly the program's modules are loaded. `TextRight`: for
the lines written so far (`TextIs`), the first tokens are the percentages of `cpu`, and
each line up to the first that failed is one number of its module and a line end, so that
its place in the text is known (`Place`). The scan is a recursive function over the
format; that its first `k` conversions are ok, stop in front of the place of the `k`-th
number and store the first numbers of the text is shown by the least `k` for which it is
false (`Least`, `UpTo`). Hence (`NumbersHeld`, `PanelHeld`, `InfoHeld`, `StatsHeld`)
a variable holds what its module read if no line up to that module's failed, but for
`cpu`'s, which gives as many numbers when it fails: therefore the memory, on the line
behind it, and the bars are right whatever else failed. From there each program's
`Shown` or `Info` is arithmetic: the hottest of the sensors by a recursive function,
100 - x in unsigned words for x at most 100, the bars.

`RowsComeBack` is `RowsResync`, for whatever df prints. Its invariant (`RowsInv`) is about
where between two rows the reader is: never inside a whole line. A scan that comes from
in front of a whole line takes that line's first token as one of its first three words
or numbers, does not fail there, because size and percentage are where they belong, and so
its last conversion takes the rest of the line (`RowCrosses`). Hence the line behind a
whole line is scanned from its start, whatever was scanned before (`LineFromStart`), and
its row is its own (`LineShown`).

The other three are about the operators, for all numbers: `NetworkSorts` (five comparisons
sort the pairs and keep each pair together), `BarsInOrder` (with `swap_pairs_if_greater`
before it, the bars are those of the cores, busiest first, the busier of each pair in
front), and `ChooseInRange` (the index of a colour or bar is in its table). Each
comparison orders its two places and keeps the pairs; the five orders give the three of
the result.

Only model-checked: all liveness (it needs fairness and ENABLED, which the prover
does not treat). Every invariant a passing run checks is a theorem.

## 5. Assumptions and what is not modelled

- One daemon per name at a time: `sys-mon.sh` starts none while one runs. Two
  daemons on one object are not modelled.
- pthreads, POSIX semaphores, signals, shared memory and /proc behave as their
  manuals say; they are modelled from how the code uses them. Memory is
  sequentially consistent, as mutex and semaphores make it for the data they guard.
- `cpu` with per-core flags only writes behind its allocation (`modules/cpu.c:190`);
  what that does is not modelled, `CpuAssumption` excludes it.
- Clients die inside a call only; a death outside one changes nothing shared.
- Parsing of module arguments, digits of numbers, wording of errors: data.
- genmon: the wording and markup of the texts, and their lengths: the modules' lines
  fit in 512 characters and the panel's text in 1024, so that the error branch of
  `genmon.c` is not reached; the tooltip may outgrow its 2048, which is not modelled.
  The machine has the cores and sensors the formats name. A failed module line is
  numbers, a word or empty; what the commands print are the forms in `MCGenmon`. A
  clock set back, and with it a negative time, is not among the readings.
- `beep.c`, the tooltip's own `main`, simple-client and scripts: one call each of
  what is modelled, or of another program. Build files, fonts and binaries have no
  behaviour.
- A word of `/proc/meminfo` put together of pieces of two files spells no key
  (`RamStart`).
- Lines of the configuration are those `fgets` gives. Module and comment lines longer
  than that are among them, in two pieces; settings that long are not. A key or value of
  exactly 16 or 128 characters puts its NUL behind its array (`sys-mon.c:90`); what that
  overwrites depends on the build, and it is not modelled.
- The files behind `get_number_of_cores` can be read. `cpu` writes all its numbers, so
  that the scan of `cpu-stats` never ends behind its first and leaves the target it
  shares with a core (`cpu-stats.c:99`) half set.

## 6. Plan

In order:

1. `ram`'s `write_data` over the read buffer, as its start is.
2. Clients that die during a boot.
