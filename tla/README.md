# A TLA+ verification development of print-function-args-debugger

The program forks, has the child traced and replaced by the program to be
debugged, reads that program's ELF symbols and DWARF debug information, plants
an `int3` at the start of every function both of them know, and then loops:
continue the debuggee, wait for it to stop, print the call it is making with
the values of its arguments, step over the breakpoint.

All line numbers are of the files under `src/src/` unless another path is given.

## 1. Inventory

| Part | Files | State | Operations | Who it talks to |
|---|---|---|---|---|
| Launch | `main.cc`, `run_debuggee`, the constructor of `Debugger` | child pid, ELF and DWARF handles, `m_debug_info` | fork, personality, `PTRACE_TRACEME`, `PTRACE_SETOPTIONS`, execvp | kernel |
| Debugger | `debugger_manager.cc/.hpp` | `m_child_pid`, `m_symbols`, `m_symbols_map` | `run`, `get_symbols`, `set_all_function_breakpoints`, `continue_execution`, `wait_for_signal`, `step_over_breakpoint`, `set_program_counter`, `get_breakpoint_info` | debuggee (ptrace, waitpid), all the parts below |
| Breakpoint | `breakpoint.cc/.hpp` | `m_breakpoints`; per breakpoint `m_original_data`, `m_enabled`, the function's indices | `set_breakpoint`, `enable_breakpoint`, `disable_breakpoint` | debuggee's text memory |
| CompileUnitManager, reading | `compile_unit.cc` 11-26, 228-652 | `m_compile_units`; during the walk `members`, `prev_tag` | `get_compile_units`, `process_cu_tree`, the attribute setters | libelfin; called by `run` |
| CompileUnitManager, payload | `compile_unit.cc` 34-226, 654-993 | locals of one call | `generate_function_payload`, `get_datatype_metadata`, `get_datatype_value`, `datatype_value_to_string`, `generate_complex_payload`, `print_function_payload` | registers and memory of the stopped debuggee |
| ParameterExtractor | `parameter_extractor.cc/.hpp` | none | loops that read memory and format it | debuggee's memory |
| Registers, memory, helpers | `registers.cc`, `memory.cc`, `helpers.cc` | none | one ptrace call each; formatting | debuggee |
| Disassembler | `disassembler.cc/.hpp` | `disassembled_instructions`, `branch_instructions` | `get_text_section`, `get_disassembled_instructions`, `filter_branch_instruction` | the ELF file; nobody reads its result |

The program is one thread in one process, and what makes it hard is the other
process: the debuggee runs between any two of its ptrace calls that let it, has
threads of its own, calls execve, is sent signals, exits or is killed at any
moment; and at the start, before the first of those calls, the two run side by
side.  The
second source of trouble is shared state that says what belongs to what only by
the order of events: `members` and `prev_tag` during the walk of the debug
information, and the place of a parameter in a function for the register it is
read from.

What makes each part correct:

* Breakpoint: text memory differs from the program's text in the `int3` bytes of
  the enabled breakpoints and nowhere else, though memory is written eight bytes
  at a time; the byte saved is the program's, never another `int3`.
* Debugger: every selected function is planted; each call is printed once, in
  order, before it is executed; the debuggee executes what it would execute
  alone; it is never left stopped; its end is noticed.
* CompileUnitManager, reading: a parameter ends up in the function it belongs
  to, in its place; a defect in one unit costs that unit only.
* Payload: the type links are followed to their end; values come from the
  registers the caller put them in; the loops end.
* ParameterExtractor: what is shown is what is there, in order and no further
  than the array or string reaches; the loops, which are told no length, end.
* Launch: breakpoints go into the program, before its first instruction; neither
  process is left waiting for the other.
* Disassembler: branches collected at addresses of the program are the
  program's, and none comes twice.

`PROJECT.json` lists under `hazards` every place in the code where one of these
may go wrong in a way a test would hardly reach, with the properties that cover
it.

## 2. Modules

| Module | What it models |
|---|---|
| `Ptrace` | Words of memory as `PTRACE_PEEKDATA` and `PTRACE_POKEDATA` transfer them; operators only. |
| `Breakpoint` | `breakpoint.cc` as operators on memory and `m_breakpoints`. |
| `CallTrace` | Abstract specification: what the debugger promises of a debuggee and its calls, with no breakpoint in sight. |
| `Debugger` | The debugger's loop against debuggee, kernel and signals; the properties; the refinement mapping to `CallTrace`. |
| `DebuggerProofs` | Theorems about `Debugger`: its invariants. |
| `CallTraceProofs` | That `Debugger` implements `CallTrace`; over `DebuggerProofs`. |
| `CompileUnit` | The walk of `.debug_info` and the units it fills. |
| `Payload` | What is done with a function's parameters when it is called. |
| `Extract` | The loops that read the debuggee's memory behind a pointer; over `Ptrace`. |
| `Disassembler` | `disassembler.cc` as operators on a program's file. |
| `Launch` | From `main` to the first breakpoint: two processes and the kernel between them; over `Disassembler`. |
| `CompileUnitProofs`, `PayloadProofs`, `ExtractProofs`, `LaunchProofs` | Theorems about `CompileUnit`, `Payload`, `Extract`, and `Launch` with `Disassembler`. |
| `Induction` | Induction over the natural numbers, stated of sets; used by the last three. |
| `MCDebugger`, `MCCompileUnit`, `MCPayload`, `MCExtract`, `MCLaunch` | Values of the constants for TLC. |

`Launch` ends where `Debugger` begins: the states `PlantsInProgram` allows at
its `plant` are the initial states of `Debugger` from which `WaitForExec` goes
on to its own.  `Payload` is what happens within `Debugger`'s `Report`, with
`structs` in `Funcs` for the one outcome that matters there, and `Extract` is
what happens within `Payload`'s `ValueFromRegister` for a pointer.

Operators named `X_Something` next to an operator `X` ("Faulty variant") are
bugs the code might have had; none is part of a specification.  They show that
each property would notice.

### Debugger

One action is one stretch of the debugger's code between two points where the
world can be noticed.  `dbg` says where the code stands:

| `dbg` | the code is at | action |
|---|---|---|
| `start` | `wait_for_signal()` in `run` (105) | `WaitForExec` |
| `plant` | the loops of `set_all_function_breakpoints` (208-245), at function `next_fn` | `PlantFunction`, `SkipFunction`, `PlantDone` |
| `cont` | `PTRACE_CONT` (125) | `Continue` |
| `wait` | `wait_for_signal()` (126) | `Wait` |
| `inspect` | `step_over_breakpoint` up to 159 | `Inspect` |
| `report` | `get_breakpoint_info` (160) | `Report` |
| `rewind` | `set_program_counter` (163) | `Rewind` |
| `disable` | `disable_breakpoint` (165) | `Disable` |
| `step` | `PTRACE_SINGLESTEP` (166) | `Step` |
| `stepwait` | `wait_for_signal()` (167) | `WaitForStep` |
| `enable` | `enable_breakpoint` (169) | `Enable` |
| `exit_signal`, `exit_regs`, `abort` | exited by 147, by `registers.cc` 30, or by an exception nobody catches | |

`bps` is `m_breakpoints`, `bp` is `possible_breakpoint_location`, `log` the
calls printed.  The functions of all units are one sequence `Funcs`, so the two
indices of a breakpoint are one.  The debuggee is `task` (its state as the
kernel sees it), `why` (what `PTRACE_GETSIGINFO` would say of its last stop and
the debugger never asks), `rip`, `mem` and a program given by `Succ`.  A helper
is a further thread.  `entered` is history: which traced functions
were entered, by the main thread.

The kernel's part is modelled from how the code uses it and is marked external:
a request fails unless the tracee is stopped; a word is transferred only if all
of it is mapped; a signal stops the tracee before its next instruction; an
`int3` is passed with the program counter behind it; a thread that is not traced
dies of an `int3` and takes the process along; a tracer that exits detaches.
`PTRACE_SETOPTIONS` in `run_debuggee` is called by the debuggee on pid 0, which
the kernel refuses, so no option is in force: an execve of the debuggee stops it
with a plain SIGTRAP, with the memory of the new program, no other thread, and
the debugger none the wiser (`TraceeExec`; the new program is the old one
again).  An orphan may end of the SIGHUP
that `PR_SET_PDEATHSIG` sends, or ignore it.

An uninitialised `decl_line` (226) is the value `unset`, which may pass the test
or not.  A word of 0xff bytes counts as a failed read, as it does in the code.
A report may end in an uncaught exception if a parameter's type leads to a
structure (`structs`); which values do is `Payload`'s matter.

### CompileUnit

The debug information is chosen DIE by DIE, in preorder, as the walk asks for it
and is kept in `debug_info`; a position stands for a section offset.  `walk`
says whether the next unit or DIE is due, or whether the DIE just visited is
still having `members` handed over (`save`: 244-273, 343-371) or being recorded
(`add`: 275-403).  Handing over to a function is one step per element of
`members`, as in the code's loop.

Which attributes are converted with `std::stol` depends on tag and depth;
`Converted` is the table that `set_new_cu`, `add_function_field`,
`add_global_variable_field` and `add_datatype_field` amount to.  A DIE has at
most one attribute whose value cannot be converted (`odd`), and the walk of its
unit ends there if the attribute is looked at.

### Payload

A sequential machine over one function's parameters: `param` (head of the loop
58), `chain` (the loop 671-721), `value` (725-921), `show` (the search of
`complex_value_to_string`, 947-958), `push` (78-84), `search` (185-199), then `done` or `abort`.  `tags` is `sdb_param.datatypes`; a value is
told apart as far as comparisons with it and `std::stol` do: a register may hold
0, 2^60 - 1 (which the guard at 177 compares with, one "f" short of -1), a word
from 2^63 on (which is printed as an address and exceeds a long) or another
(`Words`).  `words` and `members` of a type are what the debuggee's calling
convention and the code need of a structure.  The number of a register, not its
content, is kept.

### Extract

A sequential machine over one parameter's value, with one step per word read:
`dispatch` (`datatype_value_to_string` from 875 on), `pointers`
(`get_address_data`), `entry` (the loops 173 and 219), `numbers`
(`get_number_data`), `chars` (`get_char_data`), `done`.  SIGKILL (`Killed`) may
come before any of them; reads fail from then on.  A failed read is -1, which
three of the callers test for and two take for a value (`read_memory`).  A word
is taken for a signed number (`Number`), because addresses wrap.  The
index `get_char_data` starts from is uninitialised: any of `Junk`.  When a whole
word is printable it looks at the byte behind the word, in its own stack:
`GoesOn` is then either.  Other threads are left out: memory does not change
between two reads.

### Launch and Disassembler

`child` and `parent` say where the two processes stand, `task`, `why` and
`tracer` what the kernel knows of the child.

| `parent` | the code is at |
|---|---|
| `fork` | `main.cc` 16 |
| `open`, `dwarf` | the constructor, `debugger_manager.hpp` 27-28 and 29-34 |
| `wait`, `check` | `run`, `debugger_manager.cc` 105 and 107-110 |
| `text` | `get_symbols` and `get_text_section` |
| `disassemble`, `filter` | `get_disassembled_instructions`, `disassembler.cc` 66-76 and 78-89 |
| `plant` | the rest of `run`, in `Debugger` |

The child is at one of the two calls of `personality`, at `PTRACE_TRACEME`, at
`prctl` or at `execvp`, and then is the program.  A file is what the two
processes make of its name (`open` does not search `PATH`, `execvp` does), whether
it is an ELF file with debug information, its program headers, and what its
bytes decode to.  `TextSections` is a set because without a segment at offset 0
address and size of the text are uninitialised.  Every segment's text can reach
outside the file's mapping, behind it at least: what lies there, neighbouring
mappings as a rule, is one of `Surroundings`, of which `cs_disasm` sees what
`With` adds to the file; or there is nothing, and the debugger dies of SIGSEGV
(`Overruns`).

## 3. What TLC checks

| Run | Instance | Shows |
|---|---|---|
| `single` | 1 thread, execve, SIGKILL and one other signal, 14 instructions; 12,305 states | `TypeOK`, `AllPlanted`, `ReportedOnce`, `StaleHarmless`, and that the session implements `CallTrace` |
| `crowd` | a second thread, execve, 2 signals of either kind and SIGKILL, 6 instructions, with fairness; 481,894 states | `MemoryIntact`, `TextRecoverable`, `ArmedWhileRunning`, `StopResumed`, `DeathNoticed` |
| `walk` | all `.debug_info` of at most 7 DIEs with functions, inlined calls, structures with methods, variables, and values that cannot be converted; 1,411,626 states | `TypeOK`, `OwnMembers`, `ParametersInPlace`, `FaultsContained` |
| `payload` | all 24 orders of four types, a structure with and without members, up to 3 parameters of any type and 2 argument registers, with fairness; 481,818 states | `LinksFollowed`, `OnlyStructuresThrow`, `SecondLookupAgrees`, `Finishes` |
| `launch` | eight files, two surroundings of their mapping, 2 signals, SIGKILL among them, with fairness; 1,807 states | `TypeOK`, `PlantsInProgram`, `NothingRunsUntraced`, `BranchesReal`, `StopNoticed` |
| `extract` | memories of 5 ints out of 5 kinds, words of 4 bytes and ints of 2, null, -1, the first and a middle address in the register, 0 to 3 pointers, numbers of one to four bytes and strings, SIGKILL, with fairness; 1,719,258 states | `TypeOK`, `NumbersArePrefix`, `SmallArraysWhole`, `StringsUnbroken`, `EveryPointerShown`, `Finishes` |

The program of `MCDebugger` is as small as it can be and still have every case:
words of three bytes, so that breakpoints at 1, 3 and 4 overlap in both
directions and a function of one instruction is followed by another; an `int3`
of its own; a function described twice, an unnamed one, one without an address,
an object's address, one whose declaration line was never set, and one whose
symbol is not in mapped text.  14 instructions let the single thread run through
both functions several times; `crowd` needs fewer because each of its
properties concerns one round of the loop.  Two signals are enough for one to
arrive in the single step and another in the run after it.  `MaxSignals`,
`MaxInstr`, `MaxDies` and `MaxParams` are the bounds; a debuggee at `MaxInstr`
exits.  Seven DIEs are a unit with a function, its parameter, an inlined call,
the call's parameter and the function after it, and one to spare, or two units
of which the first fails; the shortest trace of each faulty variant needs six.
There are six argument registers in the code; with two of them, three parameters
have the case of a parameter for which none is left.  Deadlock is checked for `Debugger` (a finished session stutters by
`Over`); `CompileUnit`, `Payload`, `Extract` and `Launch` end, and their configurations say so.

The execve of `MCDebugger` is where its program may also exit, so that it may
come before, between and after calls, and the new program is stepped through
in its turn.  `Linked` of `MCLaunch` is laid out as linkers do now, with bytes that
decode in its headers, its code, its data and its unloaded debug information;
the other files have one segment, none that begins with the file, or end in the
middle of an instruction, and fail at each step that may refuse one.  The
uninitialised address and size are right, wrong, and beyond the mapping, which is
surrounded by nothing or by branches.  A word of four bytes has an int of two, so
a number of `MCExtract` is narrower than an int, as wide, or as wide as a word,
and an array of ints has up to four elements.  Its ints are 0, a small one that is
also the first address, one of two printable characters with all its digits, one
of a printable and another byte, and -1: what the loops tell apart.  The
uninitialised index is one word before, at, or behind the address.

`StopResumed` and `DeathNoticed` assume weak fairness of the debugger's next
step, of the main thread's next step and of the kernel's detach: two runnable
processes and the end of one of them.  Nothing is assumed of signals, of other
threads or of the end of an orphan.  `Finishes` assumes that the debugger, which
waits for nobody there, keeps running.  `StopNoticed` assumes it of both
processes of `Launch`; SIGKILL and the other signals of the world come or do not.

### Runs that find the code at odds with what it says of itself

| Run | Violated | What the code does |
|---|---|---|
| `end` | `EndAnnounced` | The exit of the debuggee is tested for where it cannot be seen (140); the debugger ends with "Error: PTRACE_GETREGS". |
| `exitkill` | `ExitKill` | The options are set by the wrong process (26); the debuggee outlives its debugger. |
| `last` | `AllParameters` | The last function of a unit loses its parameters; the `testcase1()` of the repository's README is one. |
| `register` | `RightRegister` | After a structure of two words the registers are off by one (734). |
| `aslr` | `AslrDisabled` | The second call of `personality` takes away the flag of the first (`main.cc` 27). |
| `nosymbols` | `NoSymbolsSaid` | A program without debug information ends the debugger with an exception (`debugger_manager.hpp` 29); "No Symbols found!" (`debugger_manager.cc` 108) is never printed. |

Some more divergences showed in the model and have no run of their own.  Because
the options are set by the wrong process, a thread of the debuggee is not traced
either: it dies of the first breakpoint it meets (`HelperTrap`).  A SIGTRAP that
somebody sends while the program counter is one past an enabled breakpoint is
taken for the breakpoint (`Inspect`), so an instruction is executed twice; hence
the assumption of `CallsReportedOnce`.  A function without parameters gets those
of an inlined call in it (`Closes`), against the comment at `compile_unit.cc`
341.  Parameters of methods become members of their structure
(`AssignMembers`), against the comment at `common.hpp` 136.  A child
that asks to be traced after its parent has died (of a file it could not read)
asks whoever it was given to, and stops at its exec for ever (`TraceMe`).  A
SIGTRAP sent to the child before its exec would be taken for it, and the
breakpoints written into the child's copy of the debugger; hence the assumption
on SIGTRAP of `PlantsOnlyInProgram` and in the run `launch`.  The test for a null pointer at
`compile_unit.cc` 883 compares with "0x0", while `long_to_hex_string(0)` is
"*0x0" (`Dispatch`).  `get_char_data` shows characters by their codes
(`parameter_extractor.cc` 47).  A structure passed by value, such as in the repository's
README (99: "testcase2(data2_t param<...>)"), ends the debugger, which takes the
"..." for a number (209), and so does a pointer to a structure, not only if it is
null but wherever it exceeds a long, as an uninitialised one may (`Converts`).  Of an array of shorts or bools `get_number_data` shows ints put
together from several elements and goes on behind its first 0 (`ReadNumber`);
hence the premise of `NumbersArePrefix`, that elements are not narrower than an
int, and of wider ones only the lower half is shown and looked at.  And
`SecondLookupAgrees` is as weak as it is
because the second lookup skips the first type of the unit (193).

## 4. What is proved

Every invariant the passing runs check, and the refinement, is a theorem, for
every value of the constants; what is left to TLC is liveness.  Assumptions are
the named ones of the modules, evaluated by TLC in every run, and, where a
theorem says so, that nobody sends a SIGTRAP.

### Debugger

`DebuggerProofs` proves for every program text and control flow, function table,
symbol table, word size, set of threads and signals and every bound:

* `TypeCorrect`: `Spec => []TypeOK`
* `TextPreserved`: `Spec => []MemoryIntact`
* `OriginalsKept`: `Spec => []TextRecoverable`
* `AlwaysArmed`: `Spec => []ArmedWhileRunning`
* `SelectionComplete`: `Spec => []AllPlanted`
* `CallsReportedOnce`: if `"trap"` is not among the signals,
  `Spec => []ReportedOnce`
* `StaleTableHarmless`: under the same assumption, `Spec => []StaleHarmless`

Assumptions: `PtraceAssumption` and `DebuggerAssumption` give the constants
their types; `ProgramAssumption` says that the function symbols of mapped text
lie on instructions, none of which is an `int3`, and that an `int3` of the
program's own falls through, that none of them may be an execve, and that none
lies one byte before the entry point.  TLC evaluates all three in every run.

The argument.  None of `MemoryIntact`, `TextRecoverable` and `ArmedWhileRunning`
is inductive: what `enable_breakpoint` saves is right only if memory held the
program's byte, which is so only if the breakpoint was disabled, which is so
only because the debugger is between `disable` and `enable` of that very
breakpoint.  The inductive invariant `IInv` adds `ControlInv`, which ties the
place of the debugger's code to the state of the debuggee and of the breakpoints
(at most one is disabled, it is `bp`, and the debuggee is at it), and
`FunctionInv`, which says whose breakpoint each one is.  The word-wide writes
are dealt with once, in `LowByteOnly`: reading a word, replacing its low byte
and writing it back is an update of one byte.  `StepIInv` has a lemma for the
world (`WorldIInv`, which changes neither memory nor breakpoints), one for the
debugger's steps that touch no breakpoint (`QuietIInv`) and one for each of the
three that do.  `PlantedInv` is the invariant of the planting loop.  `LogInv`
says, for each place in the loop, whether the printing is ahead of the call; it
rests on `IInv`, because a traced function can be entered only in a single step
if its breakpoint is armed whenever the debuggee runs freely.  Without the
assumption on SIGTRAP the theorem is false.

`ExecInv` says what the debugger may be doing once the memory it planted is
gone: it stands where it waits or has just found that the stop is none of its
own.  An execve happens in a single step only at a breakpoint, which
`ProgramAssumption` excludes, so it finds the debugger at `wait`; its stop is
looked up at `Entry - 1`, where nothing is planted, and from then on memory has
no planted `int3` to stop at.  `LoopInvariance` carries `LogInv` and `ExecInv`
together.

### The refinement of CallTrace

`CallTraceProofs` proves, if `"trap"` is not among the signals,
`CallTraceImplemented`: `Spec => ImplementsCallTrace`.  The run `single` checks it
of a single thread; the theorem holds whatever other threads there are, because
all they can do is die and take the process along.  The mapping hides every
breakpoint: the abstract program counter is `rip`, or one less where an `int3` has
been passed.  Most steps are stutters then; there is a lemma for each kind that is
not, and for those that would not be if the mapping were wrong.  A step of the program itself is `Execute`, and must not come while a call is
unannounced (`LogInv`); `Report` is `Announce`, and must find the debuggee at a
traced function (`FunctionInv`); a trap moves `rip` and leaves the abstract counter
alone; `Rewind` moves it back, and must undo exactly that, which takes `StopInv`,
the one conjunct `LoopInvariance` did not have: every stop the loop looks up is
an `int3`'s, and `bp` is where it was.  Whatever ends one of the two processes is
`Stop`, after which nothing changes the log (`GoneStep`).

### CompileUnit

`CompileUnitProofs` proves for debug information of any shape and length:

* `WalkTypeCorrect`: `Spec => []TypeOK`, which is inductive as it stands
* `MembersReachTheirOwner`: `Spec => []OwnMembers`
* `ParametersTakeTheirPlaces`: `Spec => []ParametersInPlace`
* `FaultsStayInTheirUnit`: `Spec => []FaultsContained`

`CompileUnitAssumption` gives the shapes of a DIE their types.  `OwnInv` says what
`prev_tag` stands for at every step: for the DIE of depth 2 dealt with last,
which is the last function or the last type (`LastInv`), and that `members`
holds DIEs visited after it (`MembersInv`); between DIEs and in the middle of
handing over these mean different things, which `Past` and `walk` tell apart.
What a function was handed stays its own because the DIEs are only ever added to
(`StepExtends`).  `PlacesInv` follows one function through its life: it is `Open`
as long as what was collected for it is in `members` or partly handed over, and
then `Settled`, either because its leading parameters have ended (`Ended`) or
because no DIE of depth 2 will ever follow (`Left`), which is the case of the run
`last`.  `FaultInv` says the same of units: what `m_compile_units` has of those
that are over, and how much of the one being filled is recorded.

### Payload

`PayloadProofs` proves for every unit, parameters and number of registers:

* `EveryLinkFollowed`: `Spec => []LinksFollowed`
* `SecondLookupFinds`: `Spec => []SecondLookupAgrees`
* `OnlyStructuresEnd`: `Spec => []OnlyStructuresThrow`

`PayloadAssumption` says that type links end; where they do not, the loop of
`get_datatype_metadata` would not either.  That DWARF's do is a fact of C and
C++: a type is built from another in so many steps, and only through a
structure, whose DIE has no link, can it come back to itself.  `PathIs` shows from it that
`Path`, defined by recursion along the links, has a value at every type, and
`PathStep` how the path of a type begins; that is all the invariants need.
`TagsInv` says that the tags seen and those to come are all there are.
`FindInv` says of the later lookups, which start again at every link, that the
type they look for leads to the structure and lies at or behind the index, as
long as no link leads to the first type; and that the way ends where that of the
parameter does.  `ShownInv` says what may have been printed for a complex
parameter: nothing, if there was no register (`Unread`); "..." for a structure by
value; "*0x0", or an address, too high or not, for a pointer.  With `Guarded` and
`Converts` that leaves the cases of `OnlyStructuresThrow`.

### Extract

`ExtractProofs` proves for every memory, parameter, set of uninitialised indices and
even word size, with a SIGKILL between any two reads:

* `ExtractTypeCorrect`: `Spec => []TypeOK`
* `PointersAreAllShown`: `Spec => []EveryPointerShown`
* `NumbersAreElements`: `Spec => []NumbersArePrefix`
* `SmallArraysAreWhole`: `Spec => []SmallArraysWhole`
* `StringsAreUnbroken`: `Spec => []StringsUnbroken`

`PhaseInv` ties the place of the code to how many entries there are; a loop may
run only with one entry still to be made.  `PointersInv` says which words have
been taken for pointers and why the loop over them ended; `BaseInv`, that the
loop being run reads behind the pointer of the next entry, which is where
`get_multi_number_value` could go wrong by reading the pointer a second time.
`NumbersInv` has, of each entry, that it is made of elements and that something
ended it (`Stops`); `SmallArraysAreWhole` then follows without another invariant,
because for small numbers only the 0 could.  `StringsInv` rests on `TextGrows`: a
word read right behind a text goes on with it, if the text had all of every word
before.  `NumberType` says that the recursive `Number` of a word is an integer
(`SumsExist`).  `NumbersAreElements` goes from the int at the place of an element
to the element: the int is all of it or its lower half, so that one that is not
0 belongs to an element that is not.

### Launch and Disassembler

`LaunchProofs` proves for every set of files and every number of signals:

* `LaunchTypeCorrect`: `Spec => []TypeOK`
* `RunsTracedOnly`: `Spec => []NothingRunsUntraced`
* `BranchesAreReal`: `Spec => []BranchesReal`
* `PlantsOnlyInProgram`: if `"trap"` is not among the signals,
  `Spec => []PlantsInProgram`

`LaunchAssumption` says that addresses are natural numbers, that an instruction
has at least one byte and at most `Longest`, and that a segment and what
decodes of the file's own bytes lie in the file.  `LInv` says that a child which has asked to be traced is
traced by the debugger as long as there is one (`Traced`), and `StopsInv` that a
stop is a signal's or execvp's (`Stops`) and that after its first wait the debugger
has a child that does nothing by itself (`Held`); only the latter needs the
assumption on SIGTRAP.

`BranchInv` is about the disassembler: what has been kept and what is still to
be looked at are instructions of what `cs_disasm` was given, the file or one of
`With` (`Seen`), in the order of their addresses, and the one before the other
(`Sorted`).  That `cs_disasm` finds such instructions and no more than the text
has bytes is `DisasmFinds`, by induction on the bytes left.  Not every branch kept
is one of the program: `get_text_section` takes the memory size of the segment
for the size of the text behind the entry point, so the text goes on into other
segments, bytes that are not loaded and memory behind the file, and what
decodes there is given addresses at which the program has something else or
nothing.  `BranchesReal` says which are: those at addresses of a segment that is
loaded as far behind the beginning of the file as it lies in it (`InPlace`), as
the segment with the code is.  The address and the place a branch was read from
are equally far from the beginning (`TextSectionIs`), so the place is the
segment's, within the file, and what `cs_disasm` sees there is the file's own
(`WithIs`).

### How recursion is reasoned about

The provers cannot instantiate a theorem that takes an operator, and so none of
the library's on induction.  Module `Induction` states induction of a set: if it
has 0 and is closed under successor, it has every natural number.  A recursive
function is the `CHOOSE` of a solution of its equation, and says nothing unless
there is one: `SumsExist`, `DecodesExists` and `LinksEnd` prove that there is, by
induction on the number of places at which the equation already holds.

### Only model-checked

`StopResumed`, `DeathNoticed`, `StopNoticed` and the two `Finishes`, which are
liveness under fairness and out of the provers' reach; and the violations, which
are counterexamples.

## 5. What is not modelled, and the plan

Not modelled: a text of 2^32 bytes or more, whose size `textSize` would not hold
(`disassembler.cc` 38); formatting and layout of the output; `print_symbols`,
`get_symbol_by_value`, `get_signal_info`, `get_breakpoint_branch_info`,
`set_registers`, `print_registers`, `read_memory_str`, `write_memory`, which have
no caller or change nothing; libelfin and capstone; `datatype_index` and
`disassembled_instructions`, which are computed and never read.  Of the
debuggee: an execve of another program or by another thread (the kernel then
gives the untraced thread the debuggee's pid), children it forks (they inherit
the planted text and die of it, unseen by the debugger), threads that write to
the memory `Extract` reads.  Of types: what the name of a typedef does to
`is_number_value` and `is_string_value`, which search the whole name built along
the links.

What is left: composition, that is, what `CompileUnit` records as the functions
of `Debugger` (`Funcs`), the addresses found by dlsym (296) included, and as the
parameters of `Payload`; and theorems across the modules, such as that a state of
`Launch` at "plant" is an initial state of `Debugger`.
