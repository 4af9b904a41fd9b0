# DevicePnP: specifications, model checking and proofs

DevicePnP is a plug-and-play device layer for a satellite computer, written in
C.  A configuration in XML describes the devices and, operation by operation,
the data their drivers need (registers, channels, command bytes, little
programs).  `init()` registers the devices, loads the drivers and binds one to
the other; the application then opens devices by logical id (lid) and operates
them by handle.  The program is one thread; what makes it hard is state that
outlives a call: static cursors, tables keyed by borrowed pointers, compiled
code that holds addresses.

Paths are relative to the repository root, which is `src/` here: `src/src/` is
the implementation, `src/include/` its headers, `src/test/` its test.

## The system

| component | state it keeps | operations | used by |
|---|---|---|---|
| hash tables (`hashstr.c`) | chains of items keyed by a `char*` that is not copied | `add_hash_item`, `get_hash_item` | dev_t, device, device_open |
| device numbering, registration (`dev_t.c`, `device.c`, `device_register.c`) | `minors[]`, `device_index_table` (a chain per major), `lid2dev_table`, the static cursor of `get_device` | `alloc_devno`, `add_device`, `find_device`, `get_device`, `register_devices` | init, binding, opening |
| driver loading (`driver*.c`) | `driver_index_table`, the cursor of `get_driver_loader`, the interfaces string of each driver | `register_drivers`, `get_driver`, `release_drivers` | init, binding |
| binding and matching (`driver_bind.c`, `driver_match.c`, `config_info_collect.c`) | the device context and its cursor over operation names, the template data table of the device being matched, the record of complemented operations (one per driver) | `bind_drivers`, `do_match`, `try_match`, `check_match` | init |
| match functions (`drivers/*_match.c`, `utility/fill_*.c`) | – | one per operation and template | matching, through a table of functions |
| device opening (`device_open.c`) | `device_open_index_table`, `lid2idx_table` | `open_device`, `get_open_device`, `check_device_type` | operation layer |
| operation layer (`drivers/X.c`, `drivers/X_driver.c`, `template_data_fetch.c`) | the device's private data (its template data table) | `X_open`, `X_op` | the application |
| parameter packages (`parameter_package.c`) | `put_tracer`, `fetch_tracer`, the parameters | six `put_*`, `fetch_para`, reset, reuse, destroy | the application puts, the flywheel's templates fetch |
| command sequences (`command_sequence_generate.c`, `fill_command_sequence.c`) | the bytes of the command, the compiled code of each block | `fill_cmd_seq_dynamically` | `flywheel_set_speed` |
| bytes assembly (`bytes_array_assembly.c`, `fill_bytes_array_assembly_scheme.c`) | the scheme, the compiled code | `do_bytes_array_assembly` | `flywheel_receive` |
| code block collection (`collect_code_block.c`) | the array of sources by id | `collect_code_block`, `check_code_block_ids_validity` | the flywheel's match functions |
| code block language (`interpreter/`) | one compile environment (symbol table, text and data pools, number and expression types) for all blocks; the registers of one machine | `compile_src_code`, `run_code` | command sequences, bytes assembly |
| topology parser (`XmlParser.c`) | `DeviceList` and nine static cursors | `parseXml`, `findDependedNode`, the getters | the test |
| Mini-XML (`mxml/`) | nodes with five pointers and a reference count, attributes, indices | add, remove, delete, retain, release; get and set; walk, find, path, index | everything that reads a configuration |
| errors, helpers, simulated hardware | – | – | everything |

What is hard, and where: keys by reference (`hashstr.c:47`); two tables filled
one after the other (`device_open.c:36-39`); static cursors that walk several
chains (`device.c:70-99`, `driver_loaders.c:11-22`); one record for all devices
of a driver (`driver_match.c:173-197`); a failure half-way through the devices;
five copies of the operation layer that differ by constants; cursors over
several rounds of puts and fetches; compiled code that outlives the address it
was compiled for; a compiler that serves many blocks and is reset by hand; a
tree whose nodes are linked five ways and freed while it is walked; getters that
share one cursor among all items.  `PROJECT.json` lists each of them as a hazard, at its line,
with the properties that would catch it.

What makes each component correct: a table gives back what was put under a
string; a device number is given once and a lid leads to its device; every
device is bound once, to the driver of its type, with exactly the data
configured for it, and `init()` succeeds for exactly the acceptable
configurations; a lid has one handle for ever and a handle one device; only
configured operations run, on their own data; a parameter reaches the driver
once per round and in order; a command's bytes are made from the values of this
call; an assembled word ends in its own variable; a code block does what its
text says in C, whatever ran before it; a tree's pointers are the tree the
callers asked for, and a deletion takes exactly what was under the node; a
search finds the first match and a repeated one all of them; the list of devices
is the one the document describes.

## The modules

| module | models | state and actions |
|---|---|---|
| `HashStr` | `hashstr.c` | operators on a table (chains of items) and a memory (what each key pointer points to now) |
| `HandleTable` | the promise of `open_device` | each lid's handle; Assign, Reopen, Refuse, Abort |
| `DeviceOpen` | `device_open.c` | the caller's lid buffers, the two tables, the last answer; one action for each way out of `open_device`, one for the application rewriting a buffer |
| `Drivers` | the fixed tables of the program | types and majors, loaders, interfaces, operations, match functions, the guards of `X.c` and the dispatch of `X_driver.c`, one definition per driver file |
| `PnPInit` | `init()` with everything below it | every static variable of the files named; one action per iteration of a loop or call of a match function, and one for every way to fail or exit |
| `PnPSystem` | the program | INSTANCEs of `PnPInit` and `DeviceOpen`, and the operation layer: X_open and X_op by any API on any lid or handle |
| `Parameters` | `struct parameter_package` and its functions | operators |
| `ParameterPackage` | a package used by an application and a driver | puts by all six functions, fetch, reset, reuse; history of the puts accepted and the parameters fetched |
| `CommandSequence` | `flywheel_set_speed` | heap, the application's package and variable, compiled code, bytes; one action per element of the command |
| `BytesAssembly` | `flywheel_receive` | the application's variables and package, compiled code and the depth it was compiled at; one action per element of the scheme |
| `Compiler` | `lex.c`, the symbol table, types, emission and relocation | operators on one record, the compile environment; each C function is a step from record to record |
| `Parser` | the grammar in `parser.c` | operators of recursive descent, one level per operator as in `expression()` |
| `Machine` | `executor.c` | code, memory, registers; one action per group of instructions |
| `BlockSemantics` | what a block means in C, and for which blocks the compiler agrees | syntax trees, their lexemes, their value and effect; `Sound` names each known departure with its line |
| `Collection` | `collect_code_block.c` and what a call asks of it | the configuration, the sources collected, the position in list or call; one action per round of the loop, check and request |
| `CodeBlocks` | the calls that compile and run the blocks | the two composed: each action is one of `Collection` with what it does to compiler, machine and memory, or a step of the machine |
| `XmlForest` | what a caller means by a tree | parents and the order of siblings; no pointers |
| `XmlNode` | `mxml-node.c` | pointers, kinds, counts, and beside them the forest; one action per call, and a deletion one node at a time |
| `XmlAttr` | `mxml-attr.c` | operators on the attributes of one element |
| `XmlData` | `mxml-set.c`, `mxml-get.c` and the constructors | `XmlNode` with names, values and attributes, and beside them what the caller gave; one action per call |
| `XmlSearch`, `XmlIndex` | `mxml-search.c`, `mxml-index.c` | operators on a tree, quicksort and binary search included |
| `XmlQuery` | what a caller expects of a walk, a search and a path | no state of its own: document order over the forest of `XmlData`, and what `XmlSearch` makes of its pointers |
| `XmlIndexed` | a caller with an index | `XmlData` with one index, and beside it the search under way and its answers |
| `XmlTree` | the library under its callers | `XmlIndexed` with trees to start from and a budget |
| `XmlTopology` | `XmlParser.c` | the loaded document, the variables of `parseXml`, the list, the cursors of the getters; one action per device, per io and per entry read |
| `MC*` | – | constants for TLC |
| `*_proofs` | – | the theorems about `DeviceOpen`, `PnPInit`, `PnPSystem`, `CommandSequence`, `BytesAssembly`; in `DataTemplate_proofs` about `ParameterPackage` and `Collection`, in `XmlQuery_proofs` about `XmlNode`, `XmlData`, `XmlQuery` and `XmlIndexed`, in `XmlTopology_proofs` about `XmlTopology` |

`DeviceOpen` uses `HashStr` (as `PnPInit` does) and refines `HandleTable`;
`PnPSystem` composes `PnPInit`, `DeviceOpen` and `Drivers`; `ParameterPackage`,
`CommandSequence` and `BytesAssembly` use `Parameters`.  `CodeBlocks` extends
`Collection`, and `BlockSemantics`, which extends `Parser` (over `Compiler`) and
`Machine`.
`XmlTree` extends `XmlIndexed`, which extends `XmlQuery`, which extends `XmlData`,
which extends `XmlNode` (over `XmlForest`).  `XmlQuery` takes `XmlIndex` (over
`XmlSearch` and `XmlAttr`) as an instance; `XmlTopology` searches its document
with `XmlSearch`, as the program does with `mxmlFindElement`.

`XmlForest` is the abstract specification `XmlNode` implements: every action
changes pointers as the code does and the forest as its caller means, and
`PointersRepresent` is the refinement relation.  `BlockSemantics` is that of the
compiler and the machine: `CodeBlocks` runs the tree of a block on a memory of
its own (`want`) beside the machine.

Abstractions.  A string is an element of a set and `hashstr()` a function on
it, with collisions; only interfaces are tuples of characters, because
`strstr` on the concatenated interfaces is what decides.  A configuration is a
sequence of records; what a `fill_*` function does with the parameters of an
element is one of three outcomes: it fills the structure, it returns FAILURE,
or a check calls `exit(1)`.  In `CommandSequence` and `BytesAssembly` a code
block is a function from the number it reads to its result; `CodeBlocks` is
where blocks are compiled and run.  There a source is a sequence of lexemes, a
real number a multiple of a quarter, a word of text a number that is an
instruction, operand or address, and all compile errors are one.  Memory is a
function from the addresses of cells to words; `LC` and `SC` read and write the
first byte of a cell (`executor.c:72`, `:82`), which is its highest or its lowest
as `BigEndian` says: the run has `TRUE`, as the target that `src/README.md` and
the makefile name (SPARC, leon3); TLC finds no error with `FALSE` either.  The
bytes behind the first of a word have no address of their own.  A CDATA section
is an element told by its name, as in `mxml-set.c:42`, and `mxmlGetCDATA` reads
that name.  A document of
`XmlTopology` is a tree with one text per element, without the blanks between
elements that the loader would keep as nodes; a route is a record of what
`findDependedNode` cuts out of `name:lid:channel`; a `strcpy`, `strcmp` or
`strlen` of what the document does not have is a crash.  Undefined behaviour is a
choice: a missing `return` yields any word, `mxmlSetTextf` stores any text
(`mxml-set.c:301`), code that reads through a dead address finds any word, code
that writes through a dead stack slot writes any variable or none.  Allocation never fails
(`check_malloc` exits).  The definitions whose comment calls them a mutant are variants of the one that
follows them with a plausible mistake; nothing uses them but a mutated copy of the
module, which TLC must reject.

## The runs

| run | expected | question | bounds |
|---|---|---|---|
| `DeviceOpen` | pass | do the two tables agree and implement one handle per lid? | three registered lids and an unknown one, two of them in one slot, four buffers that may hold equal lids, two entries: the table fills |
| `DeviceOpenReuse` | pass | what survives an application that rewrites its buffers? | three buffers, three entries; symmetric in the buffers, which nothing distinguishes |
| `PnPInit` | pass | does `init()` bind every configuration as written, or refuse it? | every sequence of one, two or three devices from a pool of twelve, each rejected one for a reason of its own; lids distinct or shared |
| `PnPSystem` | pass | do opens and operations reach the right device, data and template? | four devices, two of one type, an unregistered lid, two addresses for one lid, two handles; runs counted to 2, as "never twice" needs |
| `ParameterPackage` | pass | does the driver get the accepted parameters, in order, once a round? | one to three parameters, two values, eight positions, both strategies |
| `CommandSequence` | pass | is every command made from this call's values? | six elements of all kinds, words of two bytes of four values |
| `BytesAssembly` | pass | does every word reach its variable? | three schemes of two elements, four arrays (one with a negative byte behind the first of an element), three variables of two widths, two depths |
| `CodeBlocks` | pass | does every block do what it says, whatever was compiled and run before? | about 2 500 blocks: every pair of binary operators over seven sets of operands, all kinds of statements, assignments and conversions, and 38 texts that are not C, are refused or differ from it; two blocks in turn, two calls; words of 16 bits; sixteen lists, most of them flawed |
| `XmlTree` | pass | do pointers, data, walks, searches, paths and indices stay right under changes? | six nodes, three names, two of them of CDATA sections; four changes from nothing, one or two from three trees of five nodes; paths of one to three names; indices over trees of four nodes labelled in every way, over trees of five and six with two of the four labels, and over one tree that is indexed, changed and indexed again |
| `XmlTopology` | pass | is the list what the document describes, and does reading give all of it? | 96 documents: two devices on six routes, buses behind buses, terminals and channels, two tables of one and two rows, and six kinds of flaw |
| `PnPSystemReceive` | violation | `flywheel_receive` asks for the index of `set_speed` (`flywheel.c:69-70`) | one flywheel with `set_speed` only |
| `CommandSequenceShared` | violation | two elements of one `compute_id` are computed from one parameter (`command_sequence_generate.c:165`); `src/test/device.xml` configures this | five elements |

Every property of a passing run has a mutant in `PROJECT.json`: a change of the
modelled code after which TLC finds the property violated.

Bounds in the guards.  Only `runs` of `PnPSystem` is an unbounded counter; it
stops at `MaxRuns`.  Tables, packages and configurations are finite as in the
program.  The bounds are chosen so that tables fill, chains have two items and
empty chains between them, two devices share a type, a package is used for
several rounds, and a code block is first used by one call and then by another.

What the runs do not say.  `CommandSequence` passes with packages that malloc
places at the same block; placed elsewhere, compiled code reads freed memory.
The comment at `command_sequence_generate.c:153-154` states that condition, so
it is taken as a precondition.  `AssembledInPlace` is about calls from the depth
the code was compiled at (`UsualDepth`), and about arrays in which only the first
byte of an element is negative (`SignOnlyFirst`): `assembly_item` ors
sign-extended bytes.  `RunsAsWritten` is
about the blocks `Sound` and `SoundBlock` admit; the others are compiled and run
too, and `StacksBalanced` holds for them.  `SearchFinds` says what a path finds,
not that it finds whatever the path describes: each name takes its first match,
and no text of the repository says that the search goes back when a later name
then has none.  `DataKept` leaves out the texts that `mxmlSetTextf` wrote last,
which are undefined.  `DevicesAsWritten` and `ParseEnds` are
about documents without the flaws listed below.  An index is deleted before its
tree changes, and a value alone is searched for only where all names are equal:
`mxml-index.c` promises no more.  A buffer that is
rewritten makes an open device unfindable, and it is opened a second time;
`EntriesAccountedFor` is what remains true.

Fairness.  `PnPInit` has `WF_vars(Next)`: one thread runs `init()`, and takes
its next step if there is one.  `CommandSequence` has `WF_vars(Fill)`: once in
the loop of `fill_cmd_seq_dynamically` the thread goes on; nothing makes the
application call again.  `XmlTree` has `WF_vars` of `Deleted` and `XmlTopology`
`WF_vars(Parse)` for the same reason: a call that has begun runs on.
`InitEnds`, `FillEnds`, `DeletionEnds` and `ParseEnds` rest on these alone.
Deadlock is checked except where the system stops for good: `exit(1)` on an
unknown lid (`DeviceOpen`, `PnPSystem`), the end of `init()` (`PnPInit`), a
crash (`BytesAssembly`, `XmlTopology`), a budget of changes used up (`XmlTree`).

## Known departures

Where the code does not do what its own text says, or what a reader would
expect, and the models follow the code.  The first two are the runs that expect
a violation; the rest are in the models as the code has them, and the properties
leave the cases out that they name.

- `flywheel.c:69`: `flywheel_receive` is guarded by the index of `set_speed`.
- `command_sequence_generate.c:165`: code compiled once per `compute_id` keeps
  the address of the first parameter it was compiled for.
- `mxml-search.c:154`: a `*` stands for no level of elements too, where the comment
  (116-117) says one or more; and `mxmlFindPath` does not go back: for `a/b` it
  looks for `b` under the first `a` only and gives NULL when another `a` has it.
- `mxml-set.c:301`: `mxmlSetTextf` calls `_mxml_strdupf`, which is variadic, with a
  `va_list` (`mxml-attr.c:232` and `mxml-node.c:591` call `_mxml_vstrdupf`): the text
  that is stored is not the one formatted.
- `analogsunsensor_driver.c:29`: `read` indexes the open templates; the function
  in `analogsunsensor_read.c` is never called.  `PnPSystem` has no sun sensor.
- `parameter_package.c:187`: the test of a position is inverted, so a package
  with positions accepts nothing; `ParameterPackage` shows it gives out nothing
  either.
- `bytes_array_assembly.c:109`: a scheme without any code block dereferences
  NULL (`NoBlocks`), where line 79 says it is stored by its type;
  `bytes_array_assembly.c:207` ors sign-extended bytes.
- `interpreter/parser.c`: the list above `Sound` in `BlockSemantics`, with lines;
  also a character constant takes the number type of the last number (28),
  addresses of strings and arrays are not relocated (42, 1009), and the reset of
  the environment clears nothing (1278).  A declarator's name is the identifier
  read last, the one behind it included (985, 1058): `int a b;` is a
  redeclaration.  The initial value of a char is stored as an int (1071) and its
  first byte read (`executor.c:72`): on a big-endian machine `char c = 1` starts as
  0.  `SoundDecl` leaves such declarations out of `RunsAsWritten`.
- `lex.c:388`: a number that starts with its point loses the digit behind it; `:399`:
  a real number not followed by a blank, `,` or `;` ends the program.
- `executor.c:158`: a remainder by zero is not guarded, as a quotient is.
- `XmlParser.c:353` and `:362`: `get_device_attrs_value` returns names and
  `get_io_type` the lid; `:97` keeps only the last attribute of an io; `:118`
  returns before `DeviceListLen` is set, so that getters compute modulo zero;
  `:43` and `:94` search on from an empty `description` into what follows it
  (every description of `src/test/device.xml` is empty); `:120` keeps one array
  of lids for four tables; `:144` takes a config for granted, `:258` the
  channel of a config, `:34`, `:35` and `:45` the lid, type and texts of a device.

## The proofs

Each theorem is about the specification TLC runs (those about the mini-XML trees
and the code blocks about the one under it, see there), for every value of its
constants that the named assumption of the module admits.  A theorem with a
hypothesis states it as an operator, with the line of code that calls for it.

### Opening: `DeviceOpen_proofs`

For every set of lids, buffers and slots, every hash function and every number
of entries, from `DeviceOpenAssumption`:

- `TypeCorrect` and `EntriesAlwaysAccountedFor`, whatever the application does
  with its buffers;
- with buffers that are not rewritten (`~Reuse`): `ChainsCorrect`,
  `TablesAlwaysAgree`, `AnswersNameDevices`, `RefusalsAreJustified`, and
  `ImplementsHandleTable`: `DeviceOpen` refines `HandleTable` under the mapping
  `HandleOf`.

`TablesAgree` is not inductive: that a lookup finds the right entry after a new
item was appended needs that every item sits in the chain of its lid, that an
entry has an item, and that no chain holds a lid twice.  That is `ChainsInv`,
which TLC checks in the run `DeviceOpen` and the proofs show to be inductive:
`OpenNew` is the only step that changes the tables, and it appends an item for a
lid that no chain holds, at an entry that no item names.  The remaining
theorems follow from `TypeOK /\ ChainsInv` and an invariant on the last answer.
For the refinement each action maps to an action of `HandleTable`: `OpenNew` to
`Assign` (the free entry is a handle no lid has, by `TablesAgree`), `OpenAlready`
to `Reopen`, `OpenFull` to `Refuse`, `OpenUnknown` to `Abort`.

When buffers are rewritten `ChainsInv` is lost, and `EntriesAccountedFor` counts
instead.  `EntriesInv` is what is inductive: each item names an entry in use, no
two items the same one, each entry in use is named by one, and the entries in
use are those below some number, because `OpenNew` takes the least unused one.

### Initialisation: `PnPInit_proofs`

For every set of configurations and every hash function, from
`PnPInitAssumption`: a configuration has at least one device, the numbers in it
are naturals (the parser reads them with `strtoul`), and no operation is called
`global`, since the global element is another element than the operations.
`TypeCorrect`, `DevnosAlwaysUnique`, `TablesAlwaysPrivate`, `LidsAlwaysResolve`,
`AlwaysBoundAsConfigured` and `VerdictAlwaysCorrect` follow from one inductive
invariant, `Inv`, whose parts are

- `Registered`, `Numbered`, `LidsMapped`: the devices registered so far are the
  first elements of the configuration, each at the place its number says in the
  chain of its major, and the table of lids has the first device of each lid;
- `DriversKnown`: each driver loaded so far is alone in the chain of its major;
- `Cursor` and `Progress`: what `get_device`'s two static variables mean.  The
  devices `Passed` are those in chains before the current one or before `node` in
  it; between two devices these are exactly the ones bound, and their number is
  the loop's counter.  So the cursor finds a device as long as the counter is
  below the number of devices, and binds none twice;
- `InHand`: while a device is matched, its table holds what the driver collects
  of the operations `Done`, the record of complemented operations marks those of
  them that are required and nothing of the devices before, and all of them were
  acceptable;
- `TablesOwned`, `BoundWell`, `Verdict`: what is bound stays as it was bound, no
  table has two owners, and a failure is some element's fault.

`VerdictCorrect` needs all of them: that no device's match depends on the ones
before it is the emptiness of the record at the start of each match.  The fixed
tables of the drivers (that indices differ, that a required operation has one)
are lemmas over the definitions in `Drivers`.

`AlwaysNearer` is an action property about the same invariant: every step lowers,
in lexicographic order, the loop `init()` is in, the rounds left of it, the stage
of the match and the operations left, and `Inv` makes all four natural numbers.
No configuration keeps `init()` running for ever.

### The program: `PnPSystem_proofs`

`PnPSystem` composes two modules, and its proofs use theirs: `PnPInit_proofs` and
`DeviceOpen_proofs` are instances, whose assumptions are proved from the
constants here (`BootAssumption`, `TableAssumption`), and a step of the program
is a step of theirs or leaves their variables alone (`OneBootNext`, `OneTable`).
`SystemInv` adds to their invariants what relates them: an operation was run only
on an open device that passes the guard, the open sequence once for each device
that is open, and the last answer is the one its device's configuration demands.
`DeviceIsReady` carries over what `init()` established: after success the private
table of the device of a lid holds the data of each configured operation at that
operation's index.

- `OpenSequenceSentOnce` and `DataAlwaysOfCall` have no hypothesis.
- `OnlyConfiguredRun` and `CallsAnswered` assume `ReceiveWithSpeed`: no flywheel
  configures one of `receive` and `set_speed` alone, for `flywheel.c:69` guards
  one by the other.  The run `PnPSystemReceive` shows what happens without it.
- `EffectsAlwaysFit` assumes `NoSunSensorRead`, for
  `analogsunsensor_driver.c:29` reads through the open templates.

### Parameters, commands, bytes

`DataTemplate_proofs` proves `HoldsAccepted` and `FetchesPresentRound` for
packages of every capacity up to the width of the tracers' bitmap, both
strategies and any values, from `ParameterPackageAssumption`.  What was fetched
is what was put because `put_tracer` counts the puts and a package counts as full
only when it is; for packages with positions both hold because nothing is ever
accepted, and a bitmap of 0 covers no capacity (`ZeroHasNoBit`, `SizeHasBit`).

It also proves `BlocksAreCollected`: `OwnSource`, for any number of blocks,
parameters and calls, from `CollectionAssumption` (`strtoul` makes numbers
of lengths and ids; what is left out is none).  No check of
`collect_code_block.c` looks for a gap in the list; that there is none is a
matter of counting, and `CollectInv` says it: while the list is read there are as
many sources as rounds done, all of them for different ids below its length, so
that after as many rounds as it is long each id has one (`AllIds`).  The check of
the parameters' ids then passes ids of the list only.  The theorem is about
`CollectSpec`, in which a block that is run comes to an end, or the program does,
in one step.  `CodeBlocks` cannot hold a theorem (its compiler is RECURSIVE), but
each of its actions has one of `CollectNext` as a conjunct, or leaves
`collectVars` alone (`Executing`, `Over`), so that every behaviour of
`CodeBlocks` is one of `CollectSpec`; TLC checks `OwnSource` on it.

`CommandSequence_proofs` proves for every command and every width of bytes and
words, from `CommandSequenceAssumption`: `FetchAlwaysAligned`, `FrameAlwaysSound`,
and `BytesAlwaysCurrent` under two hypotheses.  Where an element starts is a
number of bytes before it, and which parameter it takes a number of elements
before it; the lemmas on the layout (`StartIs`, `ParamIs` and those after them)
turn both into facts about neighbours, so that an element is known not to write
where another one does.  `Inv` says that a package in use is full and fetched as
far as the loop has come, and that constants and checksums stand.
`BytesAlwaysCurrent` adds `CodeInv`: a compiled block reads the parameter of its
own element in the package of the application, and the bytes behind the loop are
those meant.  Its hypotheses are `OwnCodeBlocks`, no `compute_id` twice in one
command (`command_sequence_generate.c:165`; the run `CommandSequenceShared`
violates it), and `SamePlace`, a package made anew lies where the last one did,
which is the condition stated at `command_sequence_generate.c:153-154`.

`BytesAssembly_proofs` proves `FetchAlwaysAligned`, `OthersAlwaysUntouched` and
`WordsAlwaysInPlace` for all schemes, arrays, variables, depths and code blocks
and every width of a byte, a short and an int, from `BytesAssemblyAssumption`.
`Inv` holds what is stored so far beside the positions of the loop: a variable
written by one element is not written by a later one, because the parameters of
a package are different variables and each compiled block writes through the
slot that holds the present argument.  That shifting, oring and sign-extending
bytes gives the sum of their positions is the lemma `Assembles`, by two others on
recursive functions: `Temps`, the intermediate words of `assembly_item`, and
`Sums` agree up to a multiple of the number of words (`Division`,
`SameRemainder`, `SignedTwice`).  `Recursion`, proved from the least number at
which it could fail, is what says that these functions have the values of their
definitions.

### XML trees: `XmlQuery_proofs`

The module proves for every set of addresses, from `NullIsNoNode` and the
assumption that "free" is no kind of node: `NodesTyped`, `PointersAlwaysRepresent`,
`NothingEverDangles` and `DeletionExact` of `NodeSpec`, which starts from an
empty heap (`XmlTree` starts TLC from larger trees too, so that few changes
reach interesting ones).  `NodeInv` adds two things to the types and
`PointersRepresent`: whatever is under a node is live, and so is the node it is
under; the calls of `mxmlDelete` under way are on live nodes, all different and
each already unlinked.
Each of the four ways of linking, and the unlinking, is a lemma about pointers
and forest alone; an action then only has to say which it uses.  `DeletionExact`
is an action property and takes a second invariant, `VictimsBelow`: the
victims are closed below, and those still alive lie under the calls under way.
`DeletionNearsEnd` adds, for a finite set of addresses, that each step of a
deletion leaves less to do: the live nodes and those of them no call is yet at
work on are counted, and one of the two numbers falls.

The rest is about `DataSpec`, the same specification with the calls that give,
change and delete names, values and attributes; four properties are proved of it,
and one of `IndexedSpec`, which adds the calls of `mxml-index.c`.

`DataAlwaysKept`.  `DataInv` adds to `NodeInv` that no element has two attributes
of one name, that the value found under a name is the one given last, and that
what a node holds is what was put there, unless `mxmlSetTextf` put it there.  The getters reach the value of an
element through its first child, so that `PointersRepresent` is needed again: the
child pointer is the node no other precedes in the forest of the caller
(`HolderIsHeld`).

`NeverCircles`: any set of nodes has one that is not under a node of the set
(`Grounded`).  Pointers and forest could agree on a circle, so this is not in
`NodeInv`; it is what a caller keeps who never puts a node under its own
descendant, the precondition in the guard of `Move`.  When a node is moved, what
is under it stays closed below and the new parent is outside (`PlacedGrounded`).

`AlwaysWalksInOrder` and `SearchesAlwaysFind` are `WalkInOrder` and `SearchFinds`,
for a finite set of nodes and paths as in `PathsAssumption` (a path ends with a
name, no two `*` follow each other, names are texts).  They follow from `NodeInv`
and `NeverCircles` in one state (`Ready`).  The argument has four parts:

- *Recursion.*  The loops of `mxml-search.c` are functions defined by recursion
  on pointers.  `Recursion` shows that such a function exists whenever no set of
  points is one its chain never leaves: the least relation closed under the
  definition is a function.  `OverFacts`, `NextAboveFacts`, `LastBelowFacts`,
  `FirstMatchFacts`, `LeadFacts` and `FollowFacts` are its uses.
- *Document order.*  `OverIsOrder` and `EarlierIsOrder`: being above is an order in
  which what is above one node is a chain, and document order is transitive;
  two nodes of which one is under an earlier sibling are not above each other
  (`SiblingsApart`, `BesideFacts`).
- *The walks.*  What the pointers mean is said once (`PointersLead`).  The climb of
  `mxmlWalkNext` stops at the first sibling behind what it leaves and not before
  (`ClimbsToFirst`), the descent of `mxmlWalkPrev` at the last node below
  (`DescendsToLast`); `WalksOn` and `WalksBack` put them together.  A chain that
  only goes on in document order ends, because fewer nodes are left after each
  of its nodes (`OnwardEnds`); this is where the nodes must be finite.
- *The searches.*  A loop along such a chain that stops at the first match finds
  the first of all that lie ahead (`FirstAlong`); `FindsBelow`, `FindsChild` and
  `FindsNext` are its three uses.  For a path, what has been found so far is
  what the names so far lead to, name by name (`FollowLeads`, from `FoundForLeads`
  for one name), and a value is handed out in place of its element (`PathsFit`).

`IndexAlwaysFinds` is `IndexFinds`, for a finite set of nodes, names and values
that are integers, as strcmp orders them (`TextsAssumption`), and a `NoIndex`
that is no query.  The invariant `IndexInv` says of an index that it lists
exactly the elements asked for, each once, in ascending order, and that no tree
changes under it; and of the search since the last reset, from which place on
and how many of the nodes side by side have been answered (`GoesOn`,
`HasEnded`).  It rests on:

- *The collection.*  `GathersAll`: from each match the search goes on to the first
  one behind it, so that the array has every match behind its first node once
  (`CollectsFrom`, by the chain of searches, which ends as above).
- *The sort.*  `SortedFacts`: `index_sort` leaves a permutation in ascending order,
  for any comparison that is total and transitive (`Comparing`).  A round of the
  partition keeps what lies outside `templ` and `tempr` on its side of the pivot
  (`RoundParts`) and brings the two nearer (`PartitionFacts`); between the parts
  still to be sorted everything is in order (`Sorting`), each step settles one
  place more (`SortStepKeeps`, `UnsettledCount`), and so the number of steps is
  at most the number of nodes.
- *The binary search.*  Along a sorted index the comparison with a query falls from
  above 0 over 0 to below 0 (`SearchFalls`); a value alone would be compared under
  different names, which is why `Answerable` excludes it.  The two candidates
  enclose every match, or are one (`CandidatesFacts`); so the first answer is the
  first match (`FindsFirst`) and each further one the next (`FindGoesOn`).

### The topology parser: `XmlTopology_proofs`

`AlwaysReadsWhole` is `ReadsWhole` of `XmlTopology`'s specification, for every set
of documents that `DocsAssumption` admits: nodes are numbered in the order in
which `mxml-file.c` creates them, parents before children and siblings in order.
The getters keep their cursors from one item to the next and nothing sets them
back, so that an item is seldom read from its first entry.  What holds whatever
was read before, and in whatever order, is that reading on gives each entry once,
in the order of the list from where the cursor was, and then goes round; and that
the five getters of a table (`lid`, and four values) never part.

- *The lists.*  The item a getter reads must have a length.  A search on a document
  leads on in the order of the text (`AboveIsBehind`, `WalkIsBehind`,
  `MatchIsBehind`, `FindIsBehind`, from the pointers of a tree alone), and numbers
  that rise to a bound come to an end (`RisingEnds`, `FallingEnds`): so the loops
  over the entries of an element make finite lists (`EntriesListed`), and every
  item of the device list is sound (`ParseInv`, preserved by `ParseStep`; the
  topology a route leads to makes no difference).
- *The cursors.*  `ReadInv` says where a cursor stands: `OnTheWay`, the entries
  read so far of an item are those of its list from some place `k` on, modulo its
  length, and the cursor is at the next.  The first entry of an item sets `k` to
  whatever the cursor was left at, modulo the length, as the getter does; each
  further one goes on (`OneMore`, by the arithmetic of `Remainders`).  A table has
  five lists of entries with one `k`.
- *The whole.*  A stretch of as many entries as there are, from anywhere, has each
  of them once (`AllRead`).

### Only model-checked

- `FillEnds`, `InitEnds`, `DeletionEnds`, `ParseEnds`: liveness under fairness is
  out of the prover's reach.  `AlwaysNearer` and `DeletionNearsEnd` are the half of
  `InitEnds` and `DeletionEnds` that is an action property; that a step can always
  be taken before the end is what TLC adds.
- `RunsAsWritten`, `StaysInBlock`, `StacksBalanced` of `CodeBlocks`: the compiler
  is a recursive descent, and what it makes of every text takes an induction over
  texts, which the prover does not offer.
- `DevicesAsWritten` of `XmlTopology`: it compares the list with the document as it
  was written, routes, channels and tables included, and what was written is a
  constant of `MCXmlTopology`'s documents, not something a theorem could range
  over without stating how every document is written.

## Not modelled, and why

- a second call of `init()`: nothing in the repository makes one, and it would
  call NULL (`driver_loaders.c:17-20`);
- `get_open_device` with an index outside the table: a read outside an array
  has no outcome a model can give;
- the width conversions of `store_data`, but for int to int and to short in
  `BytesAssembly`;
- of the code block language: `enum`, `malloc`, `memset`, `memcmp` and the
  instructions of function bodies, which a block cannot define;
- a configuration whose parents form a circle, on which `parseXml` does not end;
- reading and writing XML text, entities and strings (`mxml-file.c`,
  `mxml-entity.c`, `mxml-string.c`, `mxml-private.c`): character-level code whose
  result, a tree, is where the modules start;
- error printing, the simulated hardware, the scripts.

## Plan

1. done: `HashStr`, `HandleTable`, `DeviceOpen` and its proofs.
2. done: `Drivers`, `PnPInit`, `PnPSystem`.
3. done: `Parameters`, `ParameterPackage` and its proofs, `CommandSequence`,
   `BytesAssembly`.
4. done: `Compiler`, `Parser`, `Machine`, `BlockSemantics`, `Collection`,
   `CodeBlocks`.
5. done: `XmlForest`, `XmlNode`, `XmlAttr`, `XmlData` and their proofs,
   `XmlSearch`, `XmlIndex`, `XmlIndexed`, `XmlTree`, `XmlTopology`.
6. done: proofs of `PnPInit`, `PnPSystem`, `CommandSequence`, `BytesAssembly`,
   and of `EntriesAccountedFor` for any use of the buffers.
   So are the ranks of the loops of `init()` and of `mxmlDelete`.
7. done: the loops of `mxml-search.c`, `mxml-index.c` and `XmlParser.c` as
   recursive functions, `XmlQuery`, and the proofs of the walks, the searches, the
   paths, the indices, the getters of the topology and the collection of code
   blocks.
8. next: compiled blocks in place of functions in `CommandSequence` and
   `BytesAssembly`; the conversions of `store_data`; a second `init()`.
