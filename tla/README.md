# Verification of flare-wmi

flare-wmi reads the repository of Windows Management Instrumentation (WMI) from
its files: `objects.data` (records in pages), `index.btr` (a search tree of
strings that name the records) and `mapping1..3.map` (from logical pages to
pages of the two files).  Two programs do it independently: `WMIParser` (C++)
and `python-cim` (Python).  A third, `WMI-IDS` (PowerShell), watches a live
system.

This directory holds TLA+ models of the two readers, the TLC runs that check
them on small instances, and proofs of the central results for every value of
the constants.  `PROJECT.json` lists the runs, the source lines each definition
models, the hazards and the properties that cover them, and the theorems.

Contents: 1 inventory, 2 modules and code, 3 runs and bounds, 4 fairness,
5 proofs, 6 disagreements found, 7 not modelled, 8 plan, 9 how to run.

## 1. Inventory

Nothing in the two readers is concurrent: each command or query is one thread
over files that nobody writes meanwhile.  What is hard is different:

* the files are taken from a system that may have stopped in the middle of a
  save, so that mapping files are cut short, repeat each other or disagree;
* a record, a page or a tree node may be missing or damaged, and a failure deep
  in a recursion or a loop can be reported, passed over, turned into "true with
  nothing to show", or thrown through every caller;
* records run over page ends, which is arithmetic that goes wrong only for
  particular lengths and offsets;
* values are read a second time when they are printed;
* the same repository is read by two programs with different rules.

| component | state | operations | interacts with | what makes it correct |
|---|---|---|---|---|
| C++ record access (`Helper.cpp`, the read loops of the parsers) | the extents listed, what is left to list, the buffer | `GetRecordExtents`, read loop | mapping, index (location), every parser | extents tile the record in order; the buffer is a prefix of the record; a strict caller gets all or nothing |
| C++ field extents (`Helper.cpp/.h`) | parts picked, position in the record | `CreateFieldExtents`, `GetWholeSize`, `GetBufferFromExtents` | record extents, printing | a field is whole unless the record ends; the value printed is what was parsed |
| python-cim data store (`cim.py`) | bytes gathered, page reached | `get_object_buffer` | page mapping, resolver | the bytes returned are the object's |
| C++ index search (`indexBTR.cpp`) | a stack of page searches, results | `SearchBTRFile`, `GetRootPage` | mapping, every parser | each match once, none lost, failures told |
| python-cim index (`cim.py`) | a stack of lookups, a page cache | `lookup_keys` | page mapping, resolver | every match found; cached pages are the file's |
| mapping files (`Mapping.cpp`, `cim.py`) | the file picked, the two maps, the root page | find the current file, load data and index map | everything | the newest whole file, both maps of one save |
| python-cim page mapping (`cim.py`) | entries, a reverse map built once | logical to physical and back | unused space | the two directions agree |
| unused space (`recovery.py`, samples) | position in the loops, regions dumped | slack, unallocated pages, carving, byte search | page mapping, TOC | what is dumped is what no object takes up |
| C++ namespaces (`Namespace.cpp`) | the list of names, which doubles as queue | breadth-first walk | index, records, all commands over all namespaces | every reachable namespace, once |
| C++ class definitions (`ClassDef.cpp`) | a recursion over superclasses, base classes, properties | parse one class, all of a namespace, all namespaces | index, records, instances | all classes; bases in order; properties of the nearest class |
| C++ instances (`InstanceDec.cpp`) | values of the properties | instances of a class in one or all namespaces | class definitions | each value at the slot its flags say |
| C++ consumers, filters, bindings (`ConsumerParser.cpp`, `EventConsumer.cpp`, `EventFilter.cpp`, `FilterToConsumerBinding.cpp`, five consumer classes) | a sorted table of consumers, bindings per consumer | search, insert, create an object from a record, join bindings | index, records | one entry for each id; each value that of its column; the bindings before the first broken reference |
| C++ command loop (`WMIParser.cpp`) | the characters read, the words of the line | read a line, call a parser | all C++ parsers | `--quit` is reached whatever the commands before it return |
| C++ printing, hashing | - | format values; MD5, SHA-256 | all | layout; known answers |
| python-cim objects (`objects.py`) | parsed structures | qualifiers, property states, layouts | resolver | offsets along the derivation chain |
| python-cim resolver and tree (`objects.py`) | three caches | definitions, layouts, instances, paths | index, data store | a cached answer is that of the query |
| samples, GUI | - | display | library | - |
| WMI-IDS | filter, consumer, binding in the live repository | register alert | WMI service, C++ consumers (which show what is there) | what is left without a binding is what a stopped call left; an alert lives until its names are used again |

## 2. Modules and the code they stand for

Names of variables are those of the code where TLA+ allows it.

**Reading a record.**
`RecordStore` has what both readers share: locations (`LS` / `Key`), TOC
entries with 32-bit sums (`Word` stands for 2^32), the mapping, and the bytes of
a record.  A byte is identified by its place in the file, `<<physical page,
offset>>`, so that two bytes are equal only when they are the same byte, and a
skipped or repeated one shows.
`RecordFetch` is the abstract promise: a record that can be had is handed over
whole, in one step; otherwise nothing is.
`RecordRead` is `GetRecordExtents` and the caller's read loop, one action per
turn: `Locate` (location, mapping of the first page, scan of the TOC), `Collect`
(one extent), `ReadExtent` (one read, short when the file is), `Accept` and
`Reject`.  A TOC entry may be larger than the index says: the code only reports
it (`Helper.cpp:211`), and what is read then does not fit the caller's buffer.
`Overrun` is that read, after which nothing is said of the program (`undefined`);
that it goes on as if nothing were is `ReadExtent`.  `strict` tells the callers that compare the bytes read with the size
(consumers, filters, bindings) from those that do not (classes, instances).
`FieldRead` extends it with a field of an accepted record: `AskField`, `CutMiss`,
`CutHit`, `CutEnd` are the turns of `CreateFieldExtents`; `FetchPart` and `FetchEnd`
are those of the later `GetBufferFromExtents`, with the sum of `GetWholeSize`.
`ObjectBuffer` is `LogicalDataStore.get_object_buffer` with its exceptions.
`TwoReaders` runs both readers over one store, states what of `RecordFetch` each
implements, and compares what they make of it; `MCFieldRead` gives the bounds.

**The index.**
`IndexTree` defines trees of pages by path (the root is `<<>>`, its second child
`<<2>>`), what a key has as children, and when a tree is ordered.  Keys are
integers and a prefix is the interval of the keys that start with it; the code's
string comparison of a prefix distinguishes no more.  `IndexTrees` builds the
instances.
`PrefixSearch` is `GetRootPage` and `SearchBTRFile`: `calls` is the stack of
active calls with the variables of each; `ScanMatch`, `ScanBelow`, `ScanAbove` and
`ScanEnd` are the turns of the scan, `ChildCall` and `PageReturn` the recursion;
and each page is in one condition (`Media`):
active, retired, of a foreign format, cut short, unmapped, outside the mapping.
`PyLookup` is `Index._lookup_keys` over `CachedLogicalIndexStore`.
`ObjectResolver` extends it with the calls that `ObjectResolver` and
`TreeClassDefinition` of python-cim make: `GetKeys`, `GetDefinition` (`get_cd`,
`get_cd_buf`, the class of `get_ci`), `GetCached`, `GetInstance`, `Instances`; the
lookup in the own namespace, then in the system namespace (`OwnRefs`, `phase`);
`get_objects` as a list of references worked off one by one (`EachGone`,
`EachRaises`, `InstanceCompared`, `InstanceListed`, ...), with the three caches: the page
cache of `PyLookup`, `cds` (class definitions and layouts) and `ihashcache`.
`get_object_buffer` and the parser are an outcome per object (`ok`, `gone`, `lost`,
`garbled`), since `ObjectBuffer` says when which of them happens.  What the index
format gives is assumed of the instance (`CallsAssumption`, `ObjectsAssumption`):
the bounds of the root lie outside every prefix, the keys of one instance are
among those of its class, and equal instance keys have equal hashes.
`MCPyResolver` gives the hashes.

**The mapping files.**
`MappingFiles` is the environment: the WMI service saves round-robin to three
files and may stop in the middle of a write in place.  It is external; its rule
is read off the test repositories in `src/python-cim/tests/repos` (FirstID grows
by one from save to save, the version may stay, each file ends with one further
dword).  `CppMapping` and `PyMapping` are the two readers as functions of the
files' contents, following the scan for signatures and counts piece by piece.
`MappingReaders` is the system: saves, crashes, then both readers.

**Unused space.**
`PageMapping` is python-cim's `Mapping`, with the lazy reverse map.
`UnusedSpace` has the tools: `DumpPage` and `Unallocated` (`dump_page_slack.py`,
`dump_unallocated_pages.py`, `recovery.py`), `CarvePage`
(`auto_carve_class_definitions.py`) and `FindHit` (`find_bytes.py`).

**The commands over the repository.**
`RepositoryWalk` takes index searches and record reads by their outcome, and
models what the commands make of them: the queue of namespaces (`SearchKids`,
`Kid`, `KidsEnd`), the loops over namespaces and classes (`NextSpace`,
`SearchClasses`, `ClassRecord`, `LookUp`) and the recursion over superclasses as
the stack `chain` (`CreateUnread`, `CreateSuper`, `FinishBase`, `FinishClass`,
`FinishFails`, one action per way out of a call).  Searches and records have
the outcomes that `PrefixSearch` and `RecordRead` show to be possible.
A namespace is named by its full path and so has one parent
(`RepositoriesAssumption`); inheritance between classes is not restricted.  What
a walk can reach (`Reachable`) and the records a class definition goes through
(`Lineage`) are least closed sets: the reference is a definition of its own,
not a second walk.
`CommandLoop` extends it with `_tmain` and `ReadCmdFromCin`: the line read one
character a step (`ReadChar`, `ReadLine`, `FillBuffer`), the dispatch on its words, and the
way back to the prompt whatever a command returns.  Several commands in a row
thus start from the state the one before left.

**Consumers, filters and bindings.**
`KeepFirst` is the abstract promise: of the entries offered with one id the first
is kept.  `SortedTable` is the vector with `BinarySearch` one comparison a
step (`SearchLower`, `SearchUpper`, `AlreadyThere`, `Insert`), and implements it.
`RecordLayout` is the seven `Create` functions: they are the same walk over a
header, a table of columns and a heap, with different columns (`Layout`) and
different comparisons (`lenient`, `before`), so that they are one operator with the
differences as data.  The size of a SID or an array is reckoned from a number in
the record in 32 bits (`Word`), and may wrap; the other sums are in 64 bits, or of
numbers already found to be in the record.  `RecordWriter` is external: records as
WMI writes them, in any order of the heap, and damaged in each place.  An offset
or a size out of range is represented by one (`Beyond`); a string that lost its
zero byte runs any number of bytes past the heap; and bytes that are not those of
the value written are `Garbled`.
`ConsumerTable` composes the two with the commands: the searches class by class, one
entry at a time into the table, printing, and the bindings through references and
paths (`ReadRef`, `SearchPath`).

**Alerts.**
`WmiAlerts` is `Register-Alert` of WMI-IDS: `SetFilter`, `SetConsumer`, `SetBinding`, each
of which may fail and then ends the call; `Set-WmiInstance` replaces what has the
same key.  `AlertsSeen` composes it with `ConsumerTable`: when the service is stopped
between two calls, `CopyRepository` turns what is in the repository into the index
and the records that WMIParser is then run over.

**Properties and values.**
`ClassChain` is what a class record and those of its superclasses say about
properties: which ones a class lists, the two flag bits of each, its own table of
defaults.  A value is identified by where it is read (`None`, `DefaultOf(class,
position)`, `OwnValue(position)`), as a byte of a record is.
`ClassProps` is the C++ reader.  The recursion of `Create` is the walk of `level`
from the farthest ancestor that is reached (`missing` are not) to the class.
`RefusedProp`, `NewProp` and `KnownProp` are the turns of `ParseProps`;
`EndProps`, `EndPropsFails` and `NoProps` its end with the sort and with
`SetDefaultValues`.  `InstValue` is one property of an instance
(`InstanceDec.cpp`, `Create`), and `Misread` stands for a record read with
a vector that does not fit it, of whose outcome nothing is said.  `std::sort` may
leave equal indexes in any order, and a write outside the vector is the state
`undefined`.
`ClassLayout` has python-cim's `properties` and `default_value` as functions of
the same chain: the reference that `ClassProps`, which extends it, compares the
C++ result with.  `MCClassProps` gives the bounds.

## 3. Runs, bounds, and what they show

| run | question | result |
|---|---|---|
| `field_read` | Do both programs get the bytes of the record, the same bytes, and does every field read from it, at parse time and again when printed, hold the right ones? | yes; a strict C++ caller and `get_object_buffer` both implement `RecordFetch`; where both take the table of contents for valid they agree, but for an entry larger than the index says, see 6 |
| `prefix_search` | What does a prefix search return when pages are damaged? | nothing twice; `true` only if no page visited failed, and always on a sound tree; it ends |
| `prefix_search_all` | Does it find every key of a sound tree? | no, see 6 |
| `py_resolver` | What do two calls in a row find, over shared caches, with pages and objects missing? | every key, as often as there are ways to it; the one definition there is; an instance unless the hash remembered is another class's; all instances that can be parsed |
| `mapping_files` | Which file is picked, and is what is loaded from one save? | see the properties; C++ checks it, python-cim has less to go by |
| `mapping_files_tie` | Does C++ pick the newest whole file? | no, see 6 |
| `unused_space` | Is slack what no object takes up, and are the verdicts of the byte search right? | yes outside pages that continue an object |
| `slack_in_use` | Is everything dumped unused? | no, see 6 |
| `repository_walk` | Which namespaces, classes and base classes come out when something fails, does the command report it, and does the program get to its `--quit`? | exactly those the properties characterise; yes, unless a line does not fit the buffer or an exception ends it |
| `class_props` | Do the two programs agree on the properties of a class, their defaults and the values of an instance; what does a missing ancestor or a refused property cost? | they agree but for the last slot of an instance; only what is missing is lost, unless a property above the gap is declared again |
| `default_used` | Is the default shown wherever the flag of an instance asks for it? | no, see 6 |
| `consumers` | What do the commands show of consumers, filters and bindings, from damaged records, colliding ids, broken references and interrupted alerts? | one entry for each id, the first; values as written or none, but for lengths that wrap and strings without an end, see 6; bindings up to the first broken reference; every alert that returned, until its name is used again |

Where the code does not deliver everything, the property of the passing run says
exactly what is delivered (`ClassesUntilRefused`, `SeenUntilHalt`, `ParsedAsWritten`,
`BindingsUntilBroken`): an equality, which a change of the code in either
direction breaks.  `DefinitionsRight` and `InstanceFoundUnlessForeign` say of a
failure which causes it may have.

Bounds, and why they are enough:

* Records: pages of 3 bytes, TOC entries of 1 to 8 bytes from offsets 1 and 2, so
  that a record takes 1, 2, 3 or 4 pages, ends before, at and after a page end,
  and runs over the end of the mapping (3 logical pages).  The index says 1, 6 or 7
  bytes, so that the entry is as large, smaller and larger, by a part of a page
  and by whole pages.  2 physical pages with
  every mapping onto them or onto nothing give repeated, unmapped and short
  pages.  `Word = 16` makes `Offset + Size` wrap.  Fields start in each of the
  pages and at both sides of a page end, and are empty, inside, across and
  beyond.  The arithmetic depends on offsets relative to the page end only;
  the proofs (5) remove these bounds, and those of the index, the resolver and
  the chains of classes below.
* Index: full trees of one to three levels (up to two keys in a page, `IndexTrees`) with
  every interval of keys that starts and ends at, before and after a key.  The
  code decides per page from the comparison of neighbouring keys; with two keys
  a page has a first, a last and an inner child.  One page at a time is damaged,
  in each way; three levels suffice for a damaged page to have a caller that
  goes on and one above it.
* Resolver: bare lookups over every tree of `IndexTrees`, whole or with one page
  missing.  The other calls over one tree of three levels with three namespaces,
  in which a class is defined in its own namespace, there twice, only in the system
  namespace, in both or nowhere; whole or with a leaf or an inner page missing; one
  object at a time that is gone, lost or garbled; instance keys that occur once,
  twice, or in two classes.  Two calls in a row: the second meets
  the caches as the first left them, ended or raised in the middle.
* Consumers: records of all seven classes with no column, one, all but one or all
  present, the heap in order, reversed or rotated (so that each kind of piece
  comes last once), one string wide at a time, damage to each size of the header, to each entry of
  the table, to the length of each SID and array, and a last string that runs 0, 1, 2 or
  many bytes past the heap.  `Word = 65536` is beyond every size here; the lengths of SIDs
  are the last one that does not wrap and the four that do, the counts of arrays the
  two that wrap to a size of 0 and 4, with a word behind the array that is an offset or
  none.  Tables of up to six entries of two classes
  with three ids, one search failing at a time.  Up to three references, of 15
  kinds, with a length whose double wraps among them.  Alerts: two calls of `Register-Alert` with triggers whose default names
  collide, stopped anywhere.
* Mapping files: five saves over three files, so that two files are written a
  second time and old content can follow new; two saves cut short, at every
  piece.  Two data entries and one index entry make the two maps of different
  length.
* Unused space: 3 physical and up to 4 logical pages, so that there are more of
  either than of the other; tables of contents with no object, with room between
  objects, with room after them and with an object that runs on for two pages.
* Walk: four namespaces in three levels with a leaf beside an inner node, every
  state of the three below the root, one failing search at a time; three classes
  with every superclass function without a cycle, every state of each record,
  three orders of the index, and the class defined in the root, in
  `__SystemClass`, in both or in neither.  Input: one command and `--quit` in
  every repository, two commands in those without a failed search, and up to three
  lines that are empty, one short of the buffer, as long as it, longer, unknown or with
  a word too many (`CmdSize = 4` for `MAX_PATH`); input that ends before `--quit`.
* Properties: chains of one to three classes with up to four properties, any
  declared again, listed in rising or falling order; every setting of the flags
  that a chain can have; none to two ancestors missing, or one property
  refused.  Two pairs of flags in a byte where the code has four
  (`FlagsPerByte`), so that three properties take a second byte.  What a chain
  can be (`ChainsAssumption`) is read off the 390 classes with a complete chain
  in the test repository `win7/deleted-instance`: slots follow each other in
  order of the index, a class adds the next indexes, and an inherited flag
  repeats the parent's bit for "no value".

Deadlock is not an error in these runs: every program ends, and then stops.

## 4. Fairness

Liveness is stated for `PrefixSearch` (`Terminates`) and `CommandLoop` with
`RepositoryWalk` (`QuitsOrHangs`), under weak fairness of `Next`: both are single
threads that no lock or peer can hold up, so if a step is possible the program
takes one (a console that is never typed at is input that has not ended; the
model has the lines there).  Nothing stronger is used.  `QuitsOrHangs` says in both
directions when the program ends: with a `--quit` after lines that fit the
buffer it is reached, and without one the program hangs in `ReadCmdFromCin`.
The class hierarchy and the index tree are free of cycles in these models; a
cycle would make both recursions endless, and the code has no guard against it.

## 5. Proofs

Eight modules, each for every value of its constants: `TwoReadersProofs` (every
page size, mapping, file length, table of contents, location, field offset and
size), `PrefixSearchProofs` (every tree of pages, every condition of every
page, every interval), `ObjectResolverProofs` (every tree, set of missing
pages and set of objects, any number of calls), `MappingReadersProofs` (any
number of entries, pieces, saves and crashes), `UnusedSpaceProofs` (every map,
page size, number of pages and table of contents), `RepositoryWalkProofs`
(every repository, every sequence of lines typed), `ClassPropsProofs` (chains
of any length, any number of properties), `TablesAlertsProofs` (every set of
entries, of any number; every set of triggers and actions, any number of
calls).  `PROJECT.json` lists the theorems.

Assumptions (in `RecordStore`, `RecordRead`, `FieldRead`): `PageSize` and
`MapSize` are positive, `PhysPages` is a natural number, the value for
"unavailable" is not a page of the file, `Word` is larger than a page, tables
of contents and locations are of their types, fields have natural offsets and
sizes.  They hold of the code: 8 KiB pages, 2^32, unsigned fields.  In
`IndexTree` and `PrefixSearch`: trees are ordered and no page is reached twice,
queries are intervals, every page is in one of the conditions of `Media` and
the admin page is not a tree page.  In `MappingFiles` and `CppMapping`: each
map has an entry, and the marks for an absent file, page or root are none of
those.  In `PageMapping` and `UnusedSpace`: page numbers are natural, no page
of the file has the number that stands for unmapped (0x3FFFFFFF pages are 8
TiB), and the objects of a table of contents begin behind it, in its page.
`Init` asks for a sound file (`Sound`): an object runs on only through pages
that are there, have no table of contents and no second place in the map.  In
`RepositoryWalk` (`RepositoriesAssumption`): a namespace has one parent and the
root none, an index lists a key once (which `SearchFindsOnce` proves of the
search).  In `SortedTable`: ids are ordered like integers (the code's
`_stricmp` of two hashes is a total order), and "no entry" is not one.  In
`PyLookup` and `ObjectResolver`: only pages of the tree are missing, each key
names an object in one of its four states, and what section 2 says of prefixes
and hashes.  In `ClassChain` (`ChainsAssumption`): what section 3 says a chain
can be.  In `WmiAlerts`: none that the proofs use.

**Record** (`TwoReadersProofs`).  `TypeCorrect`, `ExtentsCorrect`, `SizeCorrect`
and `BufferCorrect` prove `TypeOK`, `ExtentsInOrder`, `SizeConserved` and
`BufferIsRecordPrefix` invariant.  They do not preserve themselves.  `IInv`
adds `EntryOK`, that the accepted entry is not empty and inside its page;
`CollectInv`, that while the loop runs the next chunk starts where the last one
ended (the page is the next one, its offset 0, and the last extent ends at the
end of its page), which is what the next turn relies on; and `ReadInv`, that
the buffer ends where the extents read so far end and holds at each place the
byte of the record that belongs there.  `BytesIn(n)` gives the length of n
extents in closed form, so that no sum over a sequence is needed.
`DivisionUnique` and `PageEnd` are the arithmetic of a place in a page, one
lemma per action shows `IInv` preserved, and `BufferIsRecordPrefix` follows
from `ReadInv`.

**Field** (`TwoReadersProofs`).  `PartsCorrect`, `FieldSizeCorrect` and
`FieldComplete`.  `Tiling` says that the extents tile the record; `FInv`
relates `recextents` to a run of extents that ends before the current one, and
its `LoopInv` says what `currentOff` and `recoffset` mean: offsets in the
record before the first part, equal to each other after it, which is all the
code relies on.  The field invariant needs `IInv` in the state after the step,
so that `FieldInvariance` combines both.

`ValueCorrect` is `ValueIsParsedSlice`.  `FetchInv` says of the loop of
`GetBufferFromExtents` that what it has copied is what the parts before the
current one cover of the field; with `PartsInOrder` that is the slice of the
record.

**Two readers** (`TwoReadersProofs`).  `RecordIsFetched` and `ObjectIsFetched`
prove, step by step, that a strict read of WMIParser and a call of
`get_object_buffer` each implement `RecordFetch`; `ReadersSame` proves
`ReadersAgree`, and `ReaderCorrect` carries what was proved of WMIParser alone
over to the composition.  A refusal must be matched by a record that cannot be
had (`CanBeHad`: it is located, and every page up to its end is mapped and in
the file).  `RInv` says why WMIParser went on or stopped: what it has read is
in the file, and it has listed less than the record only where the mapping
ends.  `Stopped` is what follows at the end of the reads: the entry was read
whole, or the bytes end with a page and the next one cannot be had.  For an entry
larger than the index says, the count of bytes the strict caller makes is then
right only at such a page end (`CutAtSize`), and nothing is asked of a run that
a read behind the buffer has ended.  `PyInv` says the same of `get_object_buffer`: what is gathered ends
where a page ends, and every page up to there is in the file.  `BInv` keeps the
two apart.

**Table** (`TablesAlertsProofs`).  `TableSorted` proves `Sorted`, and
`TableKeepsFirst` that the vector with its binary search implements
`KeepFirst`, step by step.  That the vector is sorted does not preserve itself:
where `Insert` puts an entry is decided by comparisons in earlier steps.
`Bracketed` carries them: everything before `low` is smaller than the id,
everything after `high` greater.  With `low > high` this makes the place the
only one that keeps the order, and says that the id is not in the table yet,
which is what `KeepFirst` asks.

**Alerts** (`TablesAlertsProofs`).  `OrphansExplained` proves
`OrphansOnlyOfStopped`, `AlertsLast` proves `AlertsUntilNameReused`.  Both
speak of states in which a call has ended, and are not preserved by the steps
of a call under way.  `AlertInv` adds `StepInv` (how many instances the call
under way has put), `FilterOwned` and `ConsumerOwned` (an instance is bound,
left by a stopped call, or of the call under way), and `FilterInv` and
`ConsumerInv`: for each name put there is a last call that put it, and what is
there is what it asked for.  The theorem's `CHOOSE` of the last call is then
that one.

**Index search** (`PrefixSearchProofs`).  `SearchFindsOnce` proves
`ResultsOnce`, `TrueSearchIsComplete` proves `TrueMeansSearched`, and
`FirstKeyIsFound`, which no run states, that on a sound tree the smallest key
with the prefix is found: this is why a caller that wants one key is not
touched by the disagreement 1 of section 6.  The invariant `SearchInv` rests on
the keys still `Ahead` of the search, those of the page just called and those
each active call has still to look at: nothing found is ahead, what is under a
page is not ahead of its callers (`Separate`, where the order of the tree is
needed), and while every call returns true a wanted key is found, ahead, or one
of those known to be missed.

**Resolver** (`ObjectResolverProofs`).  `LookupsAreRight` proves `LookupRight`:
a lookup of python-cim finds each key with the prefix as often as there are
ways to it, and raises if and only if a page that the prefix leads to is
missing.  Between calls nothing of it shows, so that `LookupInv` has it of a
lookup under way (`Active`):

* `ListOK`: the keys found have the prefix, and none comes before a smaller one
  has been found.  A key may come twice, so the list is not sorted; this is what
  is left of the order, and what `get_ci` needs of it.
* `StackOK`: each active call stands at a key of its page, the key before it
  has been dealt with (`KeyFloor`, `TopFloor`), and its page is under the child
  that its caller is at (`Gives`).
* `CountsFrom`: the times a key was found and the times each active call will
  still find it add up to its multiplicity in the tree.  That is a power of two,
  `Cardinality(SUBSET DoubledIn(...))`: a page above a key doubles it if the key
  lies between one of its keys that matches and the next.  `Mult` of a
  page is shown to be the sum over its slots.
* `Covers`: a page that the prefix leads to is in the page cache already or
  ahead.  At the end all are held, so none was missing; a lookup raises at a page
  that the prefix leads to.

`DefinitionsAreRight`, `InstancesAreFound` and `ListingsAreWhole` prove
`DefinitionsRight`, `InstanceFoundUnlessForeign` and `InstancesListed`.  They
speak of ended calls; `CallInv` says what holds in each phase of one
(`PhaseOK`): which prefix is looked up and what has been learnt before.
`CdsOK`: a cached definition is the only one its class has, so that an answer
from the cache is that of the lookups it saves.  `HashOK`: a remembered hash was
read from an instance with that key, of the class `by`; if `by` is the class
asked for, the lookup by hash finds the instance.  `Remaining` says of `get_ci`
that the instance wanted is still in the list of references, behind nothing but
larger keys and objects passed over; `Listing` says of `instances` that each
instance that can be parsed is listed or still to come.  `Result` is what the
three properties follow from.

**Mapping files** (`MappingReadersProofs`).  `MapInvariance` is the inductive
invariant of saves, crashes and both readers.  Its part `StoreInv`: at most the
file of the save begun last is torn, and the others are whole and in turn.
`HeaderOfSlot` and `Grows` relate the headers of the three files; from them
`ThirdNotNewer`: when the second file is older than the first, the third is not
newer than the first, which is why WMIParser's scan may stop there.
`NewestIsPicked`, `NoMixedMap`, `LastSaveIsLoaded` and `FailureMeansTorn` prove
`PicksNewest`, `MapsOfOneSave`, `LastSaveLoaded` and `FailsOnlyIfTorn`.

**Unused space** (`UnusedSpaceProofs`).  `SlackIsExact`, `CarveIsComplete` and
`VerdictsAreRight` prove `SlackIsTheRest`, `CarveMissesNothing` and
`VerdictsRight`.  `SpaceInv` says of the loops that the regions yielded are the
slack of the pages passed (`RegionsRight`) and the pages yielded those below
the counter that no entry leads to (`PagesRight`), and that the reverse map,
once built and kept, still is that of the map.  `Progress` bounds the counters:
a dump that raises has come past the last entry.  `SlackBytes` is the fact
about one page: what is left after the table, its empty entry and one object
after the other have been chopped out is what none of them covers.  It is shown
for any number of objects, by taking the least number for which it fails
(`LeastNatural`, from the well-foundedness of the naturals).  `LiveFacts` uses
`Sound`: a page with a table of contents is not continued, so its own objects
are all that is alive on it.

**Walk** (`RepositoryWalkProofs`).  `WalkFindsNamespaces` proves
`NamespacesFound`.  None of its parts preserves itself, because the list is
read and extended in one loop.  `WalkInv` has for each namespace listed the
search that led to it (`AllLedTo`), and for each one already looked at that all
it leads to is listed (`AllFollowed`); at the end the list is closed, so it
holds the least closed set.  `BasesInOrder`, `ClassesShownUntilRefused` and
`SpacesSeenUntilHalt` prove `BasesAreAncestors`, `ClassesUntilRefused` and
`SeenUntilHalt`.  These speak of finished commands; `ClassInv` says what holds
in between.  `CallsFrom`: the calls of `CreateClassDefinition` lead from the
class to the innermost one, all of them in its `Lineage`, so that a refusal
anywhere is a refusal of the class.  `Built`: the base classes found are those
above the innermost call, and none was refused, so that the whole lineage is
sound when the class is shown.  `ClassesShown` and `SpacesSeen`: the output is
what the namespaces and classes already passed have to show.  `NoneHalts` is
why `--instance` stops at the first.

**Properties** (`ClassPropsProofs`).  `LayoutsMatch`, `LossIsOnlyAboveGap`,
`DefaultsAreNearest` and `ValuesAreAgreed` prove `PropsMatchLayout`,
`LossOnlyAboveGap`, `DefaultsOfNearest` and `ValuesAgree`.  The vector is built
class by class, and replaces at the place of an index what it has found by the
index; these are the same only while the vector is in order, which holds
after the sort at the end of a class and not between.  `PropsInv` has for that
`Vec`: unless a property is declared again above a gap (`Gap`), each property
taken so far is in the vector once (`Once`), and one whose lower indexes are all
there is at its own place (`InPlace`), wherever the unfinished end of the vector
is.  `Full` is for chains without a gap: each entry is as its last class defines
it, with the default of the nearest class that gives one (`DefaultRight`).
`ValuesInv` says which value each property of the instance has.  `ClassLayout`'s
`default_value` is a function on the levels of the chain; `NextDefault` is its
step, and an induction over the levels, as a least level at which it fails,
shows that it is the default of the nearest class too.

**Only model-checked.**  Liveness (`Terminates`, `QuitsOrHangs`): it rests on
fairness and `ENABLED`, which the prover does not handle.  And four invariants of
the consumers.  `ShownAreFirst`, `BindingsUntilBroken` and `AlertsShown` compare
the output with filters and concatenations of the index's sequences
(`SelectSeq`, `FlattenSeq`), `ParsedAsWritten` compares columns with the
places that `RecordWriter` gives them by a fold over the heap.  What these
operators yield is known by induction over their arguments only.  What
`ShownAreFirst` relies on is proved: the table keeps the first entry of each id
(`TableKeepsFirst`).

## 6. Disagreements found

With a run that shows them (`PROJECT.json` findings):

1. `indexBTR.cpp:243`: the child after the last key of a page is searched only
   when no key of the page matched or followed, so keys that continue under it
   are missed; the search returns true.
2. `Mapping.cpp:51`: the scan of the three mapping files stops at the first one
   whose version is not larger.  A save that changes nothing repeats the version,
   so with versions 5, 5, 6 the first file is used.  python-cim looks at all three.
3. `recovery.py:44`: a page that continues an object is dumped as slack, though
   it is in use; the test that would leave it out can never hold.
4. `InstanceDec.cpp:355` asks with `<` what `ClassDef.cpp:784` asks with `<=`: the
   property in the last slot of an instance's table is shown without a value,
   its own or the default.  The name of a namespace (`__NAMESPACE`) is such a
   property.

Read in the source, without a run of their own:

* python-cim lists a key that lies under a child between two matching keys once
  for each (`cim.py:866`); `LookupRight` states the count.
* `get_cd_buf` (`objects.py:1212`) says it looks in the system namespace when the
  class is not in its own, but tests for `None`, which the lookup never gives:
  `DefinitionsRight` states that it never finds what is only there.
* The hash of an instance is remembered under its key without its class
  (`objects.py:1271`); `get_ci` then looks for that hash in another class, and fails.
  `InstanceFoundUnlessForeign` states that this is the only such loss.
* A class whose definition cannot be had has no instances and no error
  (`objects.py:1365`, a `try` in the loop that catches everything); `InstancesListed`.
* A TOC entry larger than the index says is only reported (`Helper.cpp:211`).  The
  buffer has the size of the index, so that more may be read than it holds; a
  strict caller then refuses the record, if the program is still well, for the
  count of bytes it read, unless the reads stop at just that count because the next
  page is not there.  python-cim returns the object in the size of the index
  (`cim.py:663`).  `ReadersAgree` states when which happens, and `Overrun` where the
  program is left undefined.
* A record is refused if a SID ends it (`CommandLineConsumer.cpp:342`, `<` for
  `<=`), and every record of an SMTP consumer is, since its last column ends where the
  table does (`SMTPEventConsumer.cpp`, `<` for `<=`).  A string that is not
  ASCII refuses the record in four classes and is left out in the three others.
  4 is added to the length of a SID, and an array's count multiplied, in 32 bits
  (`CommandLineConsumer.cpp:339` and its like in the other classes,
  `NTEventLogEventConsumer.cpp:270`, `SMTPEventConsumer.cpp:312`): a length from
  0xFFFFFFFC or a count from 0x3FFFFFFF wraps and passes for a small one, and the
  record is kept, with other bytes for the SID or with whatever follows the
  array's strings as more of them.  A string without a zero byte is read on behind
  the record.  `ParsedAsWritten` states all of it.
* The length of a string in a reference is doubled in 32 bits (`Helper.cpp:653`), so
  that one with the highest bit set counts as one without; `Usable` has it so.
* The first reference that cannot be read ends the bindings of a consumer
  (`ConsumerParser.cpp:304`); `BindingsUntilBroken`.
* The default name of a trigger is made of the object it watches, not of the kind
  of event: an alert for the deletion of a consumer replaces the filter of one for its
  creation (`WMI_IDS.psm1:150`); `AlertsUntilNameReused` and `AlertsShown`.
* `dump_page_slack.py:22` bounds logical pages by the number of physical ones;
  a conjunct of `SlackIsTheRest` states what follows.
* `ClassDef.cpp:833` looks for a property by its index and replaces the one at the
  place of that number.  The two are the same for a complete chain
  (`PropsMatchLayout`); after a missing ancestor or a refused property another
  one is overwritten, or memory outside the vector (`LossOnlyAboveGap` says when).
* A property declared again without a default keeps that of the superclass in
  the C++ program (`ClassDef.cpp:774`) and has none in python-cim;
  `DefaultsOfNearest` states both.
* `WMIParser.cpp:194`: `ReadCmdFromCin` does not leave its second loop when the
  line fills the buffer or the input ends; `QuitsOrHangs` states when.

## 7. Not modelled, and why

Printing, date and value formatting, hashing and the GUI have no control a model
checker can say more about than a test.  Recognition of class definitions in
carved bytes is pattern matching over bytes.  The byte layout of an index page is
abstracted to the keys it yields.  The types of properties, their qualifiers and
the decoding of a value are not in `ClassProps`; a qualifier of unknown type is, as
what refuses a property.

Left out of what is modelled in part: in `ReadCmdFromCin` a lone carriage return,
and the splitting of a line into words (`CommandLineToArgvW`); in the command
loop the commands over one namespace, which only return, and `--index`; in
python-cim's resolver the lists of namespaces and classes, paths of the tree, and
generators that are left before their end or run interleaved with another call
(which shares the caches but not the list of references); in WMI-IDS the WQL
queries, the functions that list and remove what is registered, remote sessions,
and what the consumers do.  The WMI service is modelled as far as it writes
mapping files, replaces instances and lays out records.

## 8. Plan

Done: record and field access in both programs, both index searches, mapping
files, unused space, the walking commands with the command loop, properties and default
values, consumers, filters and bindings, python-cim's resolver, alerts and their
composition with the reader.

A theorem worth having and out of the prover's reach today: `ConsumerTable`
`ShownAreFirst`, from `TableKeepsFirst` (5).

To model: generators of the resolver that are interleaved; the paths of
`TreeNamespace`.

## 9. How to run

    tlc -workers 2 -config MCFieldRead.cfg MCFieldRead
    tlapm TwoReadersProofs.tla
    tlapm PrefixSearchProofs.tla
    tlapm ObjectResolverProofs.tla
    tlapm MappingReadersProofs.tla
    tlapm UnusedSpaceProofs.tla
    tlapm RepositoryWalkProofs.tla
    tlapm ClassPropsProofs.tla
    tlapm TablesAlertsProofs.tla

`PROJECT.json` names the module and the configuration of each run.  Each ends within two
minutes on two cores.
