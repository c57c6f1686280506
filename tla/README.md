# go-symbol: a TLA+ verification project

go-symbol is a C++ library that reads Go executables (ELF): the function table
(`.gopclntab`) with its names, frame sizes, files and lines, the build info, the
interface tables and the type links. It is sequential: one caller uses one
`Reader` and the tables it makes. What is hard in it is not threads but state
that outlives a call (caches filled in any order of calls, a file stream shared
by all symbols of a table, an error flag nobody clears) and arithmetic at
boundaries (a window over a file, a table with one row more than it has
functions, counts and offsets that differ by Go version).

## Inventory

| Component | Code | State it keeps | Operations | What makes it correct |
|---|---|---|---|---|
| pc-value decoding in memory | `symbol.cpp` 194-225, `binary.cpp` | cursor, value and pc of one call | `Symbol::value` | gives the value the linker encoded for the pc; returns on every table |
| pc-value decoding over a stream | `symbol.cpp` 534-581 | the same, a window of 1024 bytes, the table's stream | `seek::Symbol::value` | decodes as in memory; never leaves the window; never mistakes old bytes for new ones |
| variable-length integers | `binary.cpp` | - | `uVarInt`, `varInt` | an integer exactly if the bytes hold one of 64 bits, with its length |
| function table lookups | `symbol.cpp` 81-110, 240-286, 369-398, 596-642 | none beyond the search; names come over the table's stream | `find(address)`, `find(name)`, iterators | the covering function or `end()`; no probe outside the table; a name only missed on a failed stream |
| opening a table | `symbol.cpp` 20-79, 288-367 | the members of both `SymbolTable`s, the copied function table | the two constructors | the tables the linker wrote, in every version; a short file must not give a half table |
| symbol accessors | `symbol.cpp` 129-192, 405-532 | the table's stream | `entry`, `name`, `frameSize`, `sourceLine`, `sourceFile`, `isStackTop` | stream and memory agree; a failed stream gives no wrong name |
| Reader | `reader.cpp` | version, symbol table, `runtime.types`, moduledata address and object, two "searched" marks | `version`, `buildInfo`, `symbols` (2), `interfaces`, `typeLinks`, `findSymtabByKey`, `findSymbolAddress` | answers do not depend on earlier calls; nothing missing is dereferenced |
| scan for the moduledata | `reader.cpp` 502-633 | none | `findModuleData`, `validateModuleData` | finds the moduledata when there is one, nothing else |
| ModuleData | `module_data.cpp`, `offset_map.h` | address and version | `types`, `typeLinks`, `itabLinks`, ... | the words of that version |
| PcHeader | `pc_header.cpp` | version, size | constructor | agrees with the tables' own layout |
| BuildInfo | `build_info.cpp` | pointer size, byte order, pointer-free flag | `version`, `moduleInfo` | the strings of both layouts; what becomes of replaced dependencies |
| Version | `version.cpp` | - | `parseVersion`, comparisons | - |
| interfaces | `interface.cpp` | - | iterators, `operator[]`, `name`, `interfaceName`, `methodCount`, `method`, `address` | a loop sees the table and ends; names in every version's encoding |
| types | `struct.cpp`, `struct_field.cpp` | a cached name per object | iterators, `operator[]`, `kind`, `fieldCount`, `field`, `name` | the recursion through element types ends; the offset and the name are those of the version |

How they interact: `Reader` makes the tables. `symbols(base)` hands a new stream
to a `seek::SymbolTable`; all its `SymbolEntry`s and `Symbol`s point back to it
and read through that one stream. `symbols(method, base)` makes a `SymbolTable`
over the mapped section, a copy of it, or the memory of a running process.
`interfaces` and `typeLinks` need the version (build info or symbol table), then
`runtime.types` (symbol table) and a section, and otherwise the moduledata
(symbol table, or a scan of three data sections). There are no callbacks, no
messages and no threads; nothing is persisted.

Hard behaviours: the order of calls on a `Reader` with partial results kept
between them; the stream's `failbit`, which once set makes every later seek and
read do nothing; short reads at the end of the file; the refill of the window;
the search over `funcNum + 1` rows; the layouts by version. `PROJECT.json` lists
each hazard at its line.

## Modules

| Module | Models | Notes |
|---|---|---|
| `PcValue` | `Symbol::value` | the abstract specification of pc-value decoding |
| `SeekValue` | `seek::Symbol::value` with its stream | refines `PcValue` |
| `SymbolFind` | both `find`s of both table classes | `std::upper_bound` probe by probe |
| `TableOpen` | the constructors of both table classes | reads of the stream one by one |
| `Reader` | `go::symbol::Reader` | every public operation |
| `SymbolAccess` | the accessors of `Symbol` | the abstract specification of the accessors |
| `SeekSymbol` | the accessors of `seek::Symbol` over the shared stream | implements `SymbolAccess` |
| `ModuleScan` | `findModuleData`, `validateModuleData`, `ModuleData`, `getOffsets` | what `Reader` takes as the outcome of a scan |
| `TypeWalk` | `Struct::kind`, `fieldCount`, `field`, `StructField` | one step per recursive call |
| `TypeTables` | `StructTable`, `Struct::name`, `InterfaceTable`, `Interface` | |
| `BuildInfo` | `BuildInfo` | |
| `UVarInt` | `uVarInt`, `varInt` | what the other modules take as the outcome per position |
| `PcHeader` | `PcHeader::parse` | |
| `Version` | the comparisons of versions | extended by the modules whose layouts depend on one |
| `PcTables` | the Go linker's encoder (external) | makes the files of the runs; independent of the decoders |
| `MC*` | instances for TLC | |
| `SymbolTableProofs` | theorems about `TableOpen`, `SymbolFind` and both together | |
| `DecodeProofs` | theorems about `PcValue` and `UVarInt` | |
| `TypeProofs` | theorems about `TypeWalk` and `TypeTables` | |
| other `*Proofs` | theorems about the module of that name | |

Modules that one proof module extends together keep their names apart with a
prefix (`FindInit`, `TableNext`, `VarIntSpec`).

### PcValue

`Begin` is the call with its locals; then one action per way an iteration of
the loop ends: `BadVarInt` (the two `return -1` of a failed decoding),
`TableEnd` (the `return -1` of a zero change), `Found` (the `break`) and
`Advance`. `pos`, `val` and `pc` are `buffer`, `value` and `pc`. A file is
abstracted to what `binary::uVarInt` returns at each position (`file.enc`); the
zigzag decoding is translated. `file.means` is what the table says, one value
per quantum of pc, and `file.read` how far the pairs in front of each pair have
said it; only assumptions and properties look at them.

### SeekValue

The same loop over the local array `buffer[1024]` (`buf`, `length`) and the
table's `std::ifstream` (`spos`, `failed`). A byte of the window is
abstracted to the position of the file it came from, or `Junk`; decoding gives
the file's integer when the bytes it examines are consecutive bytes of the file,
and any member of `Garbage` otherwise (uninitialized or stale bytes). `Slide` is
the `memcpy` and the `read` behind it; bytes a short read does not deliver keep
what they held. The stream survives the call with its `failbit`, so calls that
follow a failed one are part of the model; `good` records whether a call began
before any failure. The refinement mapping reads the abstract cursor off the
window: it is the position of the byte under the window's cursor.

### SymbolFind

A search is a state machine: `FindAddress` and `FindName` begin one,
`GoLeft`/`GoRight` are the probes of `std::upper_bound` over the rows
`0..funcNum`, `NextName`, `NameFound` and `NameMissing` the steps of
`std::find_if`. The code of the two classes is the same text over iterators that
count rows, hence one module; the entries are in memory in both. The names are not:
`seek::Symbol::name` reads them over the stream that the table shares with its
symbols. `stream` says what is left of it: `"none"` for a table in memory, `"good"`,
or `"failed"`, after which `NameRead` is empty for every row. It may have failed while
the table was opened (`FindInit`) or in a call on a symbol between two searches
(`LoseStream`: the window of `value`); reading the names themselves fails nothing in
a linked file, where every name ends with its zero. Addresses are compared as
`base + entry`; the sum's width is not modelled here.

### TableOpen

`OpenMemory` is the constructor of `SymbolTable`; the one of
`seek::SymbolTable` is `ReadHeader`, for Go 1.2 files `ReadFileOffset` and
`ReadFileNum`, and `ReadFuncTable`, one action per read, each of which may meet
the end of the file. What the constructors should find is stated as the layout
the Go linker writes (`Layout`, an assumption on the files, evaluated on those
`MCTableOpen` builds). Positions count from the start of the section;
the code's `buffer + n` and `mAddress + n` are the same position. The model
assumes that the section lies within the file and that the pointer size is 4 or
8 (`endian::Converter` throws on anything else).

### Reader

The operators `LoadSymtab`, `EnsureVersion`, `EnsureTypes`, `EnsureModuleData`
and `EnsureModule` are the private member functions as functions of the
Reader's members, early returns and the order of assignments included; the
actions are the public operations, with the result in `ans` and the call in
`call`. `lookups` and `scans` are history. An executable is abstracted to the
outcome of each lookup in it: whether there is build info and what version it
records, the symbols and the strings they name, the sections, the load segments
and what the scan for the moduledata finds with a given version. `interfaces`
and `typeLinks` are one procedure with two names in the code and share
`AfterTable` and `TableOf`. An array the moduledata gives with length zero counts
as found, as in the code. Addresses are numbers modulo `Space`.

### SymbolAccess and SeekSymbol

A call of an accessor is `Ask` and `Answer` in `SymbolAccess`. `SeekSymbol`
makes of it one action per read: `ReadField`, `ReadEntry`, `ReadName`,
`CallValue`, and for `sourceFile` `ReadUnit` or `OldUnit`, `ReadOffset` and
`ReadFileName`. `todo` holds the arguments of `value(field(k), entry(), pc)` that
are still to be evaluated: their order is the compiler's. Only the `failbit` of
the stream outlives a read, because every read is preceded by a seek. On a
failed stream `read` leaves what the local held (`Garbage`, or the zero it was
given) and `getline` gives an empty string. `CallValue` is one step with what
`SeekValue` shows: right if begun on a good stream, which it leaves failed if its
window met the end of the file (`Ends`). On a failed stream it may return
anything. The mapping sees a call as pending while `st` is not `"idle"`.

### ModuleScan

`FindSymbol` is the branch that has a symbol for the moduledata, `BeginScan`,
`NextSection`, `Pass` and `Accept` the loops over sections and words. `Offsets`
is `offset_map.h` in words, all six columns; `LengthOf` uses the ones of the lengths
before Go 1.16 and the word behind the array's address from then on, as the code does.
The images are laid out without it: `StructOf` writes the runtime's `moduledata` down
as its fields in order, a slice being three words, with the fields that came in Go
1.16 (`pcHeader` and one slice per table), 1.18 (`rodata`, `gofunc`) and 1.20
(`covctrs`, `ecovctrs`), and adds up where each one is. `Validate` is both forms of
`validateModuleData`.
`Answer` is what the `ModuleData` object says, the unchecked second word of
`Array` included. `Misleading` names the images in which a word in front of the
moduledata passes the validation: from Go 1.16 on any word that holds the
address of the pclntab does, if the pclntab's text start is right.

### TypeWalk and TypeTables

`Call` begins `fieldCount` or `field`; `Follow` is the recursive call on the
element type of an array, channel, pointer, slice or map, `AtStruct` its end,
`NoFields` and `Return` the early ends, `Forget` lets the caller ask again.
`depth` counts the calls on the stack. A type that is its own element
(`image.endless`) is legal Go. In `TypeTables` a loop over a table is `Begin`,
`Advance` and `Finish`; the objects it saw are then asked everything they can
be asked. The `Reader` makes every table of an address and a count of whole rows;
tables over a section itself, and so the ragged ones, come only from the public
constructors. The end of a `StructTable` over a section is the byte behind the
section, that of every other table is counted in rows.

### BuildInfo and UVarInt

`GetVersion` and `Begin` find the two strings in either layout; then one action
per kind of line, and `Skip` for a line with another number of tokens.
`ReplaceNone` is `deps.back()` of an empty list, after which nothing is known.
Lines are what `split` gives: a word, a count of tokens, the module they name.
`UVarInt` is the byte loop over digits of `Radix` values; `Space` keeps the
ratio of ten bytes of seven bits to 64 bits, one bit of the last byte.

### PcHeader

The constructor's `parse`: the magic is read in the machine's byte order, so a
file of the other order has an unknown magic.

## Runs

| Run | What it asks | Bounds, and why they are enough |
|---|---|---|
| `pc_value` | is the decoded value the encoded one; does every call return | all tables of one to four quanta over three values, each of their integers spoilt or none, targets from below the entry to behind the table: runs of every length, rising and falling values, the special first zero |
| `seek_value` | does the window ever lose its place; when does the stream fail; is every step one of the decoder in memory | window of 8 bytes, integers of one or two, six-quanta tables that refill it several times, 0, 1, 5 or 8 bytes behind the table so that reads end short at every stage or, with 8, never; any number of calls on the same stream |
| `symbol_find` | the covering function, and only it; no wild probe; the first name, and what a failed stream makes of it | every sorted table of 0 to 3 functions with entries in 1..3, so with repeated entries, every address around them, and the empty name; in memory, over a good stream, and over one that fails at any time between two searches |
| `table_open` | are the tables those the linker wrote; what does a short file give | every version, both pointer sizes, 0 to 2 functions, the file ending 0, 3, 8 or 128 bytes behind, a base at which the sums wrap |
| `reader` | do answers depend on history; are caches right; is anything missing dereferenced | all combinations of absent and present build info, symbols, strings, sections, moduledata and words, two versions; all call orders |
| `seek_symbol` | do stream and memory agree, call for call; what do calls after a failure say | two functions in all six layouts of version and pointer size, three addresses, unused and absent file names, files that end at once behind the last table, inside a window, or a window behind; any number of calls |
| `module_scan` | is the moduledata found, and nothing else; does its object say what is there | eight versions around every change of the layout, both pointer sizes, the struct in each section, decoys before and behind, a missing section, ten executables with a part lost |
| `type_walk` | which calls end, how deep, with what | twenty types: nested up to five deep, their own elements directly or in a cycle, cut in each word; five versions around both changes of encoding, names of one and two bytes of length |
| `build_info` | what becomes of replaced dependencies; are both strings found | all lists of three lines, all of four and five dependencies and replacements, both layouts, byte orders and pointer sizes, lengths below and above 32 and 128 |
| `type_tables` | does a loop see the table and end; are names, methods and addresses right | none, two and three rows, of a section, of one with a ragged end, of an address; four versions, both pointer sizes |
| `uvarint` | is exactly what fits decoded; the sign | all 512 buffers of three bytes with digits of two bits: every padding and every overflow of the last byte |
| `pc_header` | does the size cover what the comment says (violated) | both pointer sizes |

The scale of the decoders' runs is chosen by ratio: what matters is how many
longest integers fit the window (at least four, 1024 bytes to 10 in the code;
8 to 2 in the runs) and that several refills happen. The theorems below drop the
bounds. `Quantum` is 2 in `pc_value` and 1 in the others. In `reader`, `Space`
is 65536 with a page of 4096; the bias wraps there as it does in 64 bits. In
`table_open` words wrap at 65536.

`DepthBound` in `type_walk` stops the count of calls, not the walk. In
`type_tables` an iterator that has run past a ragged end is followed for twenty
rows (`beyond`).

Fairness: `PcValue`, `SeekValue`, `SymbolFind`, `ModuleScan`, `TypeWalk` and
`TypeTables` assume weak fairness of the loop's own actions, nothing else: a loop
entered by the only thread keeps running. Beginning a call is never required to
happen, except that a search for the moduledata is one call from its first step.
The other modules state no liveness. Deadlock is not checked where the program
may stop: `module_scan`, `build_info` (undefined behaviour behind `deps.back()`)
and `uvarint` (one call); and in `type_tables`, where an empty table has no object
to ask.

What the runs show:

- `DecodesTable`: zigzag, the run lengths, the special first pair and the end
  mark fit together. `Answers`: the loop stops on every well-formed
  or spoilt table.
- `WindowShowsFile`, `CursorIntact`, `MoveIsSafe`: no refill loses, repeats or
  shifts a byte; two longest integers always fit behind the cursor; the `memcpy`
  never overlaps.
- `StepsAsInMemory`: even the call that meets the end of the file decodes
  correctly. The stream is left failed, and calls after that are outside the
  guarantee: that is what `RoomyNeverFails` delimits. In a linked executable
  other sections follow the pclntab, which makes it roomy;
  nothing in the library checks it.
- `FindsCovering`, `RefusesUncovered`: in tables with repeated entries the
  search returns the last function of an entry, the one with a non-empty range.
- `FindsFirstName`: a search by name is right in memory and over a stream that has
  not failed. Over one that has, every name reads as empty: an existing function is
  answered with `end()`, and the empty name with the first row, whatever that is.
- `RightOrRefuses`: when the stream fails while a table is opened, the table is
  either complete or refuses every address; it never holds half of the rows.
- `CacheCoherent`, `HistoryFree`: the marks that are set before a search runs,
  and the version that `version()` sometimes keeps and sometimes not, never make
  a later answer differ from that of a new Reader.

- `AnswersAsMemory`, `TextRightOrEmpty`, `ImplementsMemory` (`seek_symbol`): a call
  that begins on a good stream is right even if it leaves the stream failed,
  except `sourceFile`, which reads on behind `value`. After a failure no name is
  wrong, it is empty; integers may be anything. With room behind the tables
  `seek::Symbol` is `Symbol`, whatever the order of the reads.
- `NothingMissed`, `FindsReal`: what the scan returns is the first word that
  passes, and that is the linker's moduledata unless the image is misleading.
  `AnswersReal`: in every version from Go 1.10 on the object says what that version's
  struct holds in its arrays and their lengths and, from 1.16 on, in its `pcHeader`;
  of `types` and `etypes` this is so before Go 1.20 (see below).
- `EndlessNeverReturns`, `WalkEnds`, `DepthBounded`: exactly the types that are
  their own elements keep `fieldCount` and `field` from returning (in the program
  the stack runs out); all others need no more calls than the type is nested.
- `FieldBelowCount`: `field` tests its index against another struct's count than
  the one `fieldCount` was asked for, and they are always the same.
- `KeepsWhatIsSaid`: of the lines with the right number of tokens nothing is lost or
  put into another place.
- `ReplacementsAstray`: Go writes a replaced dependency without a sum, which is a line
  of three tokens, and puts the replacement directly behind it. The code skips the
  one and keeps the other. So in the lists Go writes the replaced module is always
  missing, its replacement is reported with the module kept last in front of it, and
  where there is none the code calls `back()` of an empty list.
- `SeesTheTable`, `LoopEnds`: iterators and `operator[]` agree; only over a section
  that is no whole number of offsets does the iterator of a `StructTable` step
  over its end.

### Finding

`pc_header.cpp:41` sets the size of a Go 1.12 header to 8 and says in its comment
that this is "Only magic, minLC, ptrSize, nfunc". The eight bytes do not include
`nfunc`, which `SymbolTable` reads as a pointer-wide integer behind them
(`symbol.cpp:33`). Nothing in the library uses the size.

### The row of Go 1.20 in `offset_map.h`

Summing up the struct of Go 1.20 gives 37 and 38 for `types` and `etypes`;
`offset_map.h:22` has 39 and 40, where `rodata` and `gofunc` are, so that `ranges()`
answers these two words. The arrays of the same row (44 and 47) are right. The header alone
makes the row doubtful: against the row of Go 1.18 `types` moves by four words and
`typelinks` by two, which leaves three words between `etypes` and `typelinks`, room
for `textsectmap` and none for `rodata` and `gofunc`. No comment, test or document of
the repository says where the fields are, so this is no disagreement of the
repository with itself and not listed as a finding: `AnswersReal` leaves this
answer out, and the lemma `OffsetsAreTheStruct` states the two words.

## Proofs

All theorems are checked by TLAPS for every value of the constants that the
modules' ASSUMEs admit.

`SymbolTableProofs`, searching: the assumption is a sorted table with the end
row. The inductive invariant `FindInv` is type correctness, `Bracket` (the rows in
front of the ones left are not above the address, the ones behind are) and its
counterpart for names (no row so far reads as the name, on a failed stream too).
`Bracket` at `len = 0` with the
check in front of the search gives `FindsCovering`; sortedness gives
`RefusesUncovered`.

`SymbolTableProofs`, opening: the assumptions are the linker's layout and counts far
from the width of their integers. The invariant `OpenInv` records what each read has
brought in: the header's words always, the two words Go 1.2 keeps behind the function
table only from a stream that has not failed, and rows that are all right or, if the
stream had failed before, all zero. `RightOrRefuses` follows because a table of
zeros has a first row that is not below the last; `OpensRight` and `RoomyOpens`
are read off the invariant.

`OpenedIsSearchable` joins the two: every table a constructor leaves is one the
searches may be given. It has its end row, and its rows are sorted, if the linker's
are and the base does not wrap them, because they are the linker's moved by the base;
after a failed read they are one and the same value, which is sorted as well. So what
is proved of `find(address)` holds of every opened table, also of one that met the end
of its file. Of `find(name)` there holds what is proved for a failed stream: it finds
nothing.

`SeekValueProofs`: the assumptions are well-formed tables (pairs follow each
other within the file, every pair moves the pc) and a window of at least four
longest integers. The inductive invariant adds to type correctness and
`WindowShowsFile` that the cursor stands on a pair of the file and that two
longest integers fit behind it; without the second the refill could come too
late, without the first nothing is known about the length of what is decoded.
From it follow `CursorIntact` and `MoveIsSafe`, and step by step that a call
begun on a good stream takes the steps of `PcValue` (`StepsAsInMemory`). With
all files roomy, an additional invariant says that the stream has not failed,
and the refinement `ImplementsMemory` is unconditional.

`ReaderProofs`: `CacheCoherent` is inductive with type correctness and the
counts of the searches; each `Ensure...` operator has a lemma that it preserves
coherence. `HistoryFree` follows because a coherent Reader and a new one compute
the same results.

`DecodeProofs`, tables: the assumption `Encodes` says what it is for a table to have a
meaning, pair by pair; it is the definition of the format and not of the loop.
The inductive invariant places the loop in the table: the pc is that of the next
quantum, the value that of the last, and the target is not among the quanta
passed. Division by the quantum needs two lemmas on multiples, and
`DecodesTable` follows for tables of every length.

`DecodeProofs`, integers: the sum of a buffer's digits is recursion over data, so a
buffer carries its partial sums (`b.sum`, one equation per byte) and `Place` the
powers of `Radix`; `BuffersAssumption` and `PlaceAssumption` state these equations and
that the powers grow, for every `Radix` above one and every `MaxLen`. The inductive
invariant `VarIntInv` says that every byte read had its high bit set and that `v` is
the sum so far and below the place reached, so that nothing has been shifted out. A
digit behind it stays below the next place (`DigitFits`), and of the last byte exactly
a digit of at most one does: `TooLarge` refuses neither more nor less than what does
not fit, which is `DecodesExactly`. `SignedExactly` is division by two over a value
below `Space`.

`SeekSymbolProofs`: the assumption `Linked` is that what the accessors read of a
function lies in the file. The invariant says that on a good stream the
arguments read so far are the file's, that a call that began on a failed stream
stays on one, and what may be returned in each case. From it follow
`GoodAnswers`, `TextSound` and `FailedGivesNoName`. A second invariant says that
in a roomy file the stream is good; with it every returning step is the abstract
`Answer` and every other one stutters, which gives `ImplementsMemory` for each
file and the whole of `SymbolAccess` for a program whose files are all roomy.

`ModuleScanProofs`: completeness is an invariant of the scan (no word passed
would have been accepted); together with `Misleading` being false for the image
it gives that the word accepted is the real one. `StructWords` shows that the struct,
summed up field by field, has the words that the validation before Go 1.16 compares
at 10, 11 and 12. `OffsetsAreTheStruct` shows that the rows `getOffsets` chooses by
comparing versions are the places of the struct, for every version from Go 1.10 on (the
repository knows no layout of an older one): the arrays and the columns of their
lengths in all rows, `types` and `etypes` before Go 1.20 and two words too far from then
on. With it every question that `AnswersReal` speaks of reads the linker's word.

`TypeProofs`, types: each image gives a nesting that falls by one from a type to its
element, and none for endless types. `depth` plus the nesting left never exceeds
that of the type asked about, which bounds the stack; an endless type is only
followed to endless types, so the walk never reaches an answer. `FieldBelowCount` and `FieldsRight` follow
because the walk and the count end at the same leaf.

`TypeProofs`, tables: the assumptions are that a table has the rows it counts
(`IsTable`) and that what an object says is what the linker writes for it, name by
name and method by method (`IsLinkedTable`). The inductive invariant `TableInv` says
that the iterator stands as many rows from the data as objects were seen, and that in
a table of whole rows these are the first ones; `end()` of a ragged one is no multiple
of a row, so no loop over it ends. `SeesTheTable` and `AnswersLinked` follow.

`BuildInfoProofs`: the assumptions are that a string is cut into a list of lines and
that a linked section is laid out in one of the two ways. `KeepsWhatIsSaid` is nearly
inductive, but only in one direction: a replacement changes the last dependency of the
list, and for the property to survive that, the last one kept has to be the last of
the list. The invariant therefore adds that dependencies and kept lines belong
together one to one (`DepsRight`, by the `Rank` of a line among those kept), and says
with `LastIs` instead of a `CHOOSE` which line is the last of a word. Lines that are
read one by one only ever add a largest element to these sets (`KeptGrows`), which is
all the finite-set reasoning the steps need. `ReplacementsAstray` needs besides that a
replacement kept has a dependency kept in front of it as long as the list is defined,
and none when it is not (`Fronts`). In a list as Go writes it the line in front of a
replacement has three tokens, so that the dependency it is reported with stands
further up. `TextsRight` is
inductive by itself: `PointsTo` and `Follows` say what the linker writes,
`ModuleText` and `VersionText` read it back.

`SeekValueProofs` also proves the refinement `Mem!Spec` on roomy files
(`RoomyImplementsMemory`); the run checks it as `StepsAsInMemory` with
`RoomyNeverFails`. The type invariants of the modules with theorems are proved
and not run.

Every safety invariant and every action property that a passing run checks is stated
by a theorem. Only model-checked is what the prover cannot reach: liveness (`Answers`
of the decoders and searches, `SearchEnds`, `WalkEnds`, `LoopEnds`). Also unproved, and
part of the assumptions instead, is induction over data: that the partial sums of a
buffer or the nesting of a type exist for every input. The instances of the runs are
built from plain definitions of these, and TLC evaluates the assumptions on them.

## Not modelled

- Logging, the ELF library (an image is what its lookups give), opening the file,
  the conversions of `endian::Converter`, the build.
- `parseVersion`: a regular expression; a partial function in `Reader`.
- The moves of `InterfaceIterator` other than `++`: nothing in the repository uses
  them.
- The name cache of `Struct`: the memory it caches does not change.
- Objects that outlive their `Reader`, tables of more than 2^32 bytes, and images
  that are no linker's output: a section that does not lie in the file, a length
  in the build info that leads out of it, a segment that ends inside an itab, no
  `.text` section, nothing to load.
- The end of `value` on a stream that had failed before the call: over a buffer
  that happens to hold zeros it has none.
- What `ranges()` should answer from Go 1.20 on (see above), and structs of runtimes
  older than Go 1.10.
- Tables of the value decoder that do not end: every table of `PcValue` has its zero.

## Plan

1. The moves of `InterfaceIterator`, and `distance` over ragged tables.
2. A composition of `Reader` and `ModuleScan` over one image, to replace the
   `scan` and `module` fields of `Reader`'s images by a refinement.
3. Proofs: the composition of `RoomyImplementsMemory` with `DecodesTableHolds` (a call
   on a stream returns what the table says), and the measures that fall with every
   step of the loops, the safety half of their termination.
