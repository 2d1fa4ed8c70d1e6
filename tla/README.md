# ob-dump: a TLA+ model

`ob-dump` reads an ObjectBox store (an LMDB database) without ObjectBox and
writes its objects as JSON. The program does not own the store: the
application that does may be running, committing and closing while the dump
goes on. This directory holds a model of the reading side, from the bytes of a
key and the slots of a record to the document the command line writes, with the
exports for readers in other languages, the reader packages, and the LMDB of the
repository on which every snapshot rests: its lock file, its B+tree with cursors,
and its pages; what TLC checks of it; and what is proved for every store, model
and choice of failing calls.

Run from this directory:

    tlc -config MCDumper.cfg MCDumper      # any MC module with its .cfg
    tlapm DumpProofs.tla                   # or any other *Proofs or *Lemmas module

## The system

| part | state | operations | talks to |
|---|---|---|---|
| store (the ObjectBox application, outside) | objects, links; their LMDB image | commit | LMDB |
| key format (`lmdb_reader.cpp`, `fixture_writer.dart`) | – | encode, decode, order | – |
| `LmdbReader` (`src/src/lmdb_reader.cpp`) | environment, transaction, cursor | open, walk objects, walk a relation, destroy | LMDB; callback into the dumper |
| dumper (`src/src/dumper.cpp`) | result object or the callback's position | `dumpToJson`, `dumpStreaming` | Schema, LmdbReader, decoder |
| C interface (`src/src/ob_dump.cpp`) | last error, per thread | `ob_dump`, `ob_dump_stream`, ... | dumper; the caller's callback |
| `Schema` (`src/src/schema.cpp`) | entities by id | `parse`, `find`, `all` | – |
| decoder (`src/src/fb_decode.cpp`) | – | one record to one JSON object | FlatBuffers |
| generators (`schema_json.cpp`, `fbs_gen.cpp`) | – | model to JSON, model to `.fbs` | Schema |
| command line (`src/cli/main.c`) | bracket state, output file | `--json`, `--schema`, `--fbs` | C interface |
| LMDB, lock file (`src/dart/src/lmdb/mdb.c`) | lock file, meta pages | attach, begin, end, commit, close | other processes through files |
| LMDB, B+tree (`mdb.c`) | pages of a transaction, cursors | cursor movements, put, delete; split, merge, rebalance | the cursors of one transaction |
| LMDB, pages (`mdb.c`, `midl.c`) | dirty, spilled, loose, freed pages; the freeDB | allocate, copy, spill, free; save the free list, flush, meta page | readers through the oldest id |
| Dart, Python, JavaScript readers | one environment per call | read records, read relation targets | LMDB; the caller's callback |

The hard parts: the callback runs in the middle of the walk and may stop or
throw; every LMDB call can fail, half of them inside a constructor; the
application commits between any two calls; the command writes its document
before it knows whether the rest of the store is readable; environments of
several processes share a lock file without a lock, and any process can die; a
split or a merge moves items under the cursors that stand on them; saving the
list of free pages frees and uses pages.
`PROJECT.json` lists each as a hazard, at its line, with the properties about it.

What makes each part correct:

* key format: the byte order is the order of the ids, decoding inverts encoding;
* reader: nothing stays open after a call, and a success loses nothing;
* dumper: exactly the objects and links of one committed state, in order, or an
  error with a reason; every call returns;
* command line: the output is always the beginning of the right document, no key
  twice, and the exit code says whether it is whole;
* decoder: what the application stored comes back, whatever the type, flag and
  external type; a broken field fails the record and never passes for a value;
* generators: a reader built from the `.fbs` or from the listing reads what the
  decoder reads, also across the gaps that retired properties leave;
* packages: a call's answer is of one state that was current during the call, and
  its handles are closed in order however it ends;
* LMDB, lock file: no page of a running read transaction is recycled, the newest
  commit is never damaged, every call ends;
* LMDB, B+tree: the tree stays sorted, balanced and searchable, and every cursor
  goes where its item goes, so that a database is a map with a cursor;
* LMDB, pages: a page is used exactly once, no page of a snapshot in use is
  written, a commit has written all of its own, and saving the free list ends.

## Modules

| module | models | composed by |
|---|---|---|
| `ObKeys` | keys as byte tuples, encoders, decoders, `mdb_cmp_memn` | `ObStore` |
| `ObStore` | objects and links, and the keys ObjectBox stores for them | `LmdbReader`, `ObDocument` |
| `Schema` | `Schema::parse` up to entity ids and relations | `ObDocument`, `SchemaExport` |
| `Properties` | `Schema::parse` of a property: types, flags, external types; `slotFor` | `Decode`, `SchemaExport` |
| `Flex` | `flexToJson`: a FlexBuffers value to JSON | `Decode` |
| `Decode` | `decodeObject`: the fields of a record to a JSON object | `MCDecode` |
| `SchemaExport` | `schemaToJson` and `generateFbs`, and the slots `flatc` gives the fields | `MCDecode` |
| `LmdbReader` | the class: handles, snapshot, cursor; fault at every call | `Dumper` |
| `Dumper` | `ob_dump` / `ob_dump_stream` from call to return, beside the application's commits | `CliJson` |
| `ObDocument` | reference: the records a store stands for, without keys | `Dumper`, `DumpService` |
| `DumpService` | the abstract specification of the two entry points | refined by `Dumper` |
| `CliJson` | `ob_dump --json`: run_json and json_stream_cb over `Dumper` | – |
| `ReaderToolkit` | the calls of the Dart, Python and JavaScript packages | – |
| `LmdbEnv` | the lock file, the reader table and the recycling rule of LMDB | – (stands under the assumption of `LmdbReader` that a transaction is a snapshot) |
| `LmdbTree` | the pages of one database and the cursors on them: every cursor movement, put, delete, with what they do to other cursors | – |
| `LmdbMap` | the abstract specification of a database: a map and a cursor that writes may overtake | refined by `LmdbTree` |
| `LmdbPages` | the pages of a write transaction from its begin to the meta page, over failures and restarts | – |
| `MC*` | the instances TLC checks | |
| `ObKeysProofs`, `OrderLemmas` | lemmas and theorems about keys, and about walks through a finite ordered set | the proofs below |
| `DumpProofs` | theorems about a call of the dumper (its invariant, and that it implements `DumpService`), and on top of them about `ob_dump --json` | |
| `LmdbPagesLemmas`, `LmdbPagesProofs` | what a transaction does with its pages up to the commit, and the theorems about the pages | |
| `ReaderToolkitProofs`, `LmdbEnvProofs`, `SchemaExportProofs` | theorems about the packages, the lock file, the generators | |

How state and actions correspond to the code (the line ranges are in the map of
`PROJECT.json`):

* `handles` are the reader's `env_`, `txn_` and the local `cursor`; `"open"` says
  that `mdb_env_open` has succeeded, which is what costs files, a map and a slot
  in the lock table. `leaked` collects what nobody can release any more: a
  history of `Release`, which is called by each of the ways out (a throw before
  `mdb_env_open`, the clean-ups of the constructor, the destructor, the end of the
  walk).
* `Dumper` has one action per LMDB call that can fail and per turn of the walk:
  `Skip`, `RecordThrows`, `Collect` or `Deliver`, then `CallbackContinues` /
  `CallbackStops`, `Advance`. A commit of the application (`Write`) may come
  between any two.
* `out` are the records the callback has been given, `result` the result object
  of `dumpToJson`. A record holds its ids, name, relation targets and how its
  bytes decode (`body`): "good", "corrupt" (the verifier throws) or "badUtf8"
  (nlohmann's `dump` throws).
* `toManyTargets` is one step of the record: it opens, walks and closes a cursor
  of its own inside the reader's transaction, and nobody can see it in between.
  Its failure is in `RecordThrows`.
* `CliJson` turns a callback into JSON tokens; `Kept` is what the 256 characters
  of `lastEntity` keep of a name. `Whole` is the reference: the groups of a document
  (`Groups`) rendered at once (`Render`).
* A record of `Decode` is what its vtable says: the slots that are present, and the
  bytes, text or FlexBuffers value each points at. `Broken` stands for everything
  a verifier rejects, of the field, or (as `root`) of the table. A decoded member is
  a value, `Omitted`, or `Throws`, which fails the record. A byte has `Radix`
  values: all rules about width and sign are in terms of it.
* `Texts` of a string property are those `nlohmann::json::parse` tells apart: a
  document, no document, and a number too large for a double (`ParseOutcome` is
  external). `FlatcSlot` is the slot `flatc` gives the n-th field.
* `SchemaExport` has the listing as a set of members per property and the `.fbs`
  as a sequence of fields, each under a name and a type; comments and layout are
  left out.
* In `ReaderToolkit` the open handles of a call are a stack; the packages differ in
  its members (`Stack`), in the key they look for (`SeekKey`), in what they ask of a
  key (`IsLink`), and in whether a task can be cancelled (`Cancelled`).
  `CallFails` and `CallbackRaises` are the exceptions; every way out goes through
  `CloseLast`. `seen` is a history: the states committed since the call began.
* `LmdbEnv` has one action per access to the lock file that another process can
  observe: the unlocked loop that publishes a reader's transaction id is three
  actions, the writer's scan of the table is one per slot, the meta page and the
  id in the lock file are two. What runs under the reader mutex (`ClaimSlot`) or
  changes nothing others can see is one. A snapshot is named by the transaction
  that committed it; `damaged` says which of them have lost a page: `FlushPages`
  takes pages freed by transactions older than the oldest reader found, or new
  ones after the last page of the commit it started from. Each transaction may
  recycle less than it is allowed to.
  A closed environment's fields and an ended write's are set to one idle value,
  which nothing reads.
* `LmdbTree` has a page as a sequence of nodes with sizes and a cursor as its stack
  of pages and indices. Its operators carry the names of the C functions and map
  the state of the transaction to the state the function leaves; those that end
  in `Fix` are the loops over the other cursors of the transaction. One call of
  the application is one action, since a transaction has one thread. `app` is the
  cursor the application keeps, moved by its own calls and carried along by the
  puts and deletions of `mdb_put` and `mdb_del`, which use a cursor of their own.
* `LmdbMap` says which keys a movement may show: no key that has been there since
  the cursor was placed is passed over or shown again. `ended` is the promise
  behind `C_EOF`. After a call that failed the cursor is `Lost`: nothing is
  promised until it is placed anew.
* `LmdbPages` knows a run of pages by its first one. An operation on the
  application's database is one step, since a reader that comes or goes in the
  middle finds the same snapshots as before; `mdb_freelist_save` is one step per
  record it writes or deletes. `written` is what lies in the file
  as the transaction wants it (what is spilled and then taken back or released does
  not), `snaps` what the snapshots somebody may read consist of. `Starts` are the commits an
  environment opens with.

## What TLC checks

| run | question | instance |
|---|---|---|
| `dumper` | handles, order, termination, refinement of `DumpService` (a walk that renews its transaction breaks it, and so does a lookup of links in a transaction of its own) and the invariant it rests on (`ServiceInductive`); `OrderFollowsIds` and `DecodersInvert` of the keys | 5 stores, 3 models (one rejected, one with repeated ids and relation names), both entry points, all six faults; for the keys the objects of each store, one of which (`Spread`) has entities 1, 2, 63 and ids 255, 256, 65536, 2^24 and 2^31 - 1 |
| `cli` | prefix, exit code, keys, termination | 4 stores (empty, several groups, a failing record in the middle, only unknown entities), 3 models |
| `decode` | `FieldsAsWritten`, `FlexKeepsShape`, `GeneratedReaderAgrees`, `ListingSuffices`, `SlotsDistinct` | a property of every type, flag combination and external type on its own (24 types and one unknown code, 3 flags, 11 external types); entities with a gap of a retired id, an unknown type, a property named "id", ids out of order; edge values of every width; FlexBuffers values three levels deep; one field or the table broken |
| `decode_huge` | violation of `UnparsedTextKept` | a `Json` string with a number too large for a double |
| `toolkit` | `HandlesNest`, `AnswersOfOneState`, `CallsReturn` | 3 stores (one without links, an entity id above 15), four packages, records and three relation lookups, any number of calls and commits |
| `env` | `SnapshotIntact`, `SlotsCoverReaders`, `NewestIntact` | the application and two readers in three processes, a table of two slots, three commits after the first, the application and one reader may die |
| `env_ends` | `CallsEnd` | the same with one commit |
| `env_nested` | violation of `SnapshotIntact` | two calls of one process, the second made by the callback of the first |
| `env_killed` | violation of `NewestIntact` | a reader dies while it initializes the lock file |
| `tree` | `OrderedTree`, `BalancedTree`, `CursorOnPath`, refinement of `LmdbMap` | any number of calls on 6 keys of two sizes, four of them put and deleted, values of two sizes, at most four nodes to a page; two contents to start from |
| `tree_split` | violation of `NeverFull` | one put into a full page of 4096 bytes with 32 keys |
| `pages` | `SnapshotsSpared`, `EveryPageOnce`, `SnapshotAudit`, `CommitWritten`, `SaveEnds` | a writer of up to three transactions of up to five operations, a reader, a map of 31 pages, room for 8 dirty ones, failing writes and restarts; a new store and three with a backlog of freed pages |

Why the bounds are enough. The walk is local: an action of `Dumper` looks at one
key and its successor, so a store needs one instance of every neighbourhood: two
objects of one entity, two entities, an unknown entity at the end, links of two
relations of one source and of neighbouring sources, reverse entries between
forward ones, ids 1, 2, 256, 258 and 65536 on both sides of a byte boundary, and one
bad record of either kind in the middle. The same neighbourhoods are
in the stores of `toolkit`. The application can replace the store by any other one at every step, any number of times. In `env` the first
recycling that can hurt a reader is by the third commit after its snapshot, which
is what `MaxTxn = 4` admits; a table of two slots is full as soon as one reader
has died and two more come. Calls, attaching and closing are not bounded.
`env_ends` has a smaller bound because a liveness check of the larger instance
takes longer than it is worth; the commits only lengthen the reader's retry loop.

In `tree` a page holds five units and a node takes one or two, so that with six
keys splits, moves, merges and a collapsing root happen at up to three levels. Keys
of two sizes make a separator grow in the middle of a rebalance, and a value that
grows makes an overwrite a deletion and an insertion. The keys that nobody touches
keep the pages beside a merge filled. Calls are not bounded. `MaxDrift` bounds how
far the index of a cursor grows that is left past the end. `tree_split` has the real
sizes, in units of two bytes.

In `pages` a record of four page numbers needs two overflow pages and one of two
numbers leaves the leaf, the dirty list is full after seven pages and a map of 31
pages runs out, so that every branch of allocation and of saving the list happens in
short transactions. A backlog that needs more room than one record takes many
transactions to come about; the three such starts are commits that simulation of
the same specification reached under wider bounds. What the instance does not reach:
more room reserved than there are pages at hand twice in one save (`more` = 0).

`Decode` treats each property by itself, so an entity with one property shows
every kind; what properties can do to each other (share a slot, shift the table,
collide with "id") is in the entities with several. In `decode` a byte has 4
values instead of 256, so that eight of them fit into TLC's integers; the largest
value of every width is still there, and the first one whose sign bit is set.

Fairness. `Dumper` and `CliJson`: weak fairness of the calling thread, whose
callback returns; none for new calls or commits. `ReaderToolkit`: the same, the
event loop standing for the thread of an asyncio task; cancellation may
happen or not. `decode` has no fairness, its steps are those of an application. `LmdbEnv`: weak fairness of a
thread inside a call, and strong fairness of the blocking lock (`F_SETLKW`): the
kernel wakes the waiters whenever a lock is given up, but others can come first.
With weak fairness alone a reader can wait for ever while others attach and leave,
each of them exclusively. The reader's retry loop ends because commits are
bounded here; in LMDB it ends unless a commit falls into every turn. Nobody has
to call, commit, close or die. `LmdbPages`: weak fairness of a writer inside
`mdb_freelist_save`, which is plain sequential code (`SaveGoesOn`; a step of it
always changes `turn`, so that a loop that changes nothing else is a behaviour
that violates `SaveEnds` and not a stutter). `LmdbTree` has none.

Every property of a passing run is violated by a mutant of the code (the
operators marked "Mutant", and `mutants` in `PROJECT.json`).

## What is proved

Everything in this section holds for every value of the constants, under the named
assumptions of the modules, and the hypotheses that the parts about the command and
the lock file name:

| assumption | says | because |
|---|---|---|
| `DatabasesAssumption` | a database is finite, its entity and relation ids are below 64, its object ids 32-bit, and an object has one record | the key has no room for more (`fixture_writer.dart`), and a key occurs once in LMDB |
| `ModelsAssumption` | a model is a sequence of entities with ids, names and relations | that is what `Schema::parse` leaves of any JSON document |
| `OperationsAssumption`, `FaultsAssumption`, `LookupsAssumption` | the calls, the failing calls and the lookups are among those modelled | – |
| `EnvAssumption` | the kinds of the constants of `LmdbEnv` | – |
| `PagesAssumption` | the constants of `LmdbPages` are numbers; a record on a leaf is shorter than the share `mdb_freelist_save` takes of a list, spilling begins before the dirty list is full, a big value has a page | `MDB_IDL_UM_MAX`, `me_nodemax` and `me_maxfree_1pg` as `mdb.c` sets them |
| `StartsAssumption` | the file an environment opens with has every page in one place and only records of transactions up to its commit, in a map no smaller than the file | every commit leaves such a file (`SnapshotsTidy`), and a new store is empty |

### A call of the dumper

`DumpProofs!Invariance` proves `Inductive`, the conjunction of `TypeOK`,
`HandlesByPhase`, `CursorAhead` and `StreamAscends`; from it `Typing`, `Ownership`
(`NothingStaysOpen`), `StreamOrder` (`StreamAscends`) and `SuccessLosesNothing`
(`OnlyFailuresLeak`). None of the safety properties is inductive alone. `NothingStaysOpen` needs to know
which handles each phase has (`HandlesByPhase`), since a throw releases what its
place in the code knows about. `StreamAscends` needs that everything delivered so
far lies behind the cursor (`CursorAhead`), and that the order of the keys is the
order of the ids: `KeyOrder` of `ObKeysProofs`, by comparing the bytes of two
numbers from the top. `KeysKeepIds` makes the record under the cursor that of the
object whose key it is. `KeysInOrder` and `KeysDecode` state the same of every
database the application may commit (`OrderFollowsIds`, `DecodersInvert`).

`DumpsAsPromised` is the refinement, `Spec => Service!Safe`: every step of `Dumper`
is a step of `DumpService` or leaves it unchanged, so that a call returns the
records of one committed state, whole and in order, or an error with its reason. The
mapping says nothing about the steps in between, hence an invariant is needed that
says at every moment how far the call is: `ServiceInductive` adds to `Inductive`

* `CallShape`: which calls and results belong to which phase;
* `GatheredInOrder`: what has been collected or delivered are the first records
  of the document of the snapshot, as many as there are objects of known entities
  behind the cursor.

The second is an induction on the walk, and the reference (`ObDocument`) is not
defined by a walk: `KnownObjects` lists the objects by their place in the order. What
joins them is `OrderLemmas`: in a finite set with a strict total order the number of
smaller elements tells the elements apart (`RankTells`), an element of rank n is
the n-th of the list (`Listed`), and an order isomorphism carries the list of one
set to that of the other (keys to objects). So "the next key of the cursor" and
"the next record of the document" are both the element of the next rank. Where an
induction over numbers would be used, `LeastMember` takes the least counterexample.
`RecordDescribes` does the same for the targets of one relation of one object, which
a second cursor collects.

The mapped `Service!Spec` has fairness besides; `DumpsAsPromised` is its safety part,
and the run's `ImplementsService` covers the rest on the instance.

### The command

`DumpProofs!CommandInvariance` proves `CliInductive`, from which `CommandTyping`
(`CliTypeOK`), `OutputGrows` (`OutputIsPrefix`), `ExitCodeTells` (`ExitTellsWhole`)
and `KeysUnique` (`NoKeyTwice`) follow. The callback writes brackets and commas from
three fields, and the reference renders all groups at once; the invariant has to say
what the one makes of the other in the middle of a group:

* `Commanded`, `Given`: which calls and results belong to which step of the command,
  and that the callback has been given a beginning of the document of the snapshot,
  the whole of it when `ob_dump_stream` reports success (`WholeDocument` of the
  refinement);
* `Output`: with w the records written so far, the callback's fields are those of
  `Told(w)`, the keys in the output are the names in w, each once (`KeysTold`), and
  the output `Stands` for w: it is the rendering of the groups of w, but for the
  closing brackets of the last one.

The step is `StandsNext`: one record more either lengthens the last group
(`SameGroup`) or opens one (`NewGroup`), and what the callback writes is the difference
(`OneMore`). By `StandsClosed` the last two tokens make the output the rendering of w;
by `StandsOn` what stands in the output after some records is a beginning of what
stands in it at the end, and `StandsBegins` adds that it is never the whole, which
is why the exit code can tell.

The theorems have two hypotheses on the models. `NamesTogether`: entities of one name
are neighbours by id, which they are if every name is used once (`Schema::parse`
does not look).
`NamesKept`: no name is empty or longer than the 255 characters `lastEntity` has
room for. Both are needed: a name that comes back after another one, or one that was
cut, opens its group again (`src/cli/main.c:103`, `:111`), and after an empty name
every record does. `MCCliJson` states both of the
models of its run (`NamesAssumption`).

### The packages

`ReaderToolkitProofs!ToolkitInvariance` proves `ToolkitInductive`: the types, which
stack of handles and which fields each step of a call has, that the snapshot is among
the states committed since the call began, and `GivenInOrder`, that what has been
given is the walk of that snapshot up to the cursor. It gives `ToolkitTypes`,
`HandlesNested` and `AnswersAtOneInstant`. The packages look for a relation's links
by the prefix of their keys and stop at the first other key; that the links of one
source lie together, whatever other relations and reverse links are in the
store, is the lemma about prefixes (`PrefixFirst`): a prefix comes before all keys
that extend it, and these before any greater key that does not.

### The lock file

`LmdbEnvProofs!EnvInvariance` proves `EnvInductive` for every number of readers,
slots and commits: who holds which lock in which step, that the meta pages alternate
and the id in the lock file is at most one behind, what a reader has announced, which
snapshots may have lost a page, and what the writer's scan has seen. From it
`EnvTypes`, `SnapshotsKept` (`SnapshotIntact`), `ReadersCovered`
(`SlotsCoverReaders`) and `NewestWhole` (`NewestIntact`).
The hard place is the reader's unlocked loop, which publishes an id and only then
checks that it is still the last one. `Announced` asks nothing of a reader before that
check but that its slot holds what it has read. If the check succeeds, the id was the
last one while it stood in the table, and every snapshot that has lost a page is older
(`DamagedAreOld`); from then on `ScanCovers` says that a scan that has passed the slot
has found it, and a scan that has not yet passed it will.

Two hypotheses stand in these theorems. `OnePerProcess` says that each process
has one environment open, which `lmdb.h` demands; `~DieOpening` that no process
dies between the initialization of the lock file and the store of the real id. Both
are needed: the runs `env_nested` and `env_killed` are the counterexamples without
them. Deaths at every other moment are in.

### The pages

`LmdbPagesProofs!PagesInvariant` proves `Inv`, for every map size, every capacity of
the lists and pages, every number of readers, and every file to begin with. From it
`PagesType` (`PagesTypeOK`), `SnapshotsAreSpared` (`SnapshotsSpared`), `PagesUsedOnce`
(`EveryPageOnce`), `SnapshotsAudited` (`SnapshotAudit`), `SnapshotsTidy` and
`CommitsWritten` (`CommitWritten`): all safety properties of the run.

`EveryPageOnce` says that nine kinds of places together hold each page once. What an
operation does to a page is to move it, and in the middle of an operation it may be in
none: the page `mdb_page_alloc` has handed out is linked by its caller.
`Lives(t, L, k, i, x)` therefore has a kind of its own for the pages in limbo, L, and
the lemmas about an allocation, a copy, a page that is freed, merged away or linked
are about `Good(t, L)`:

* `Once`, `Cover`: every page below the end of the file lives in exactly one place;
* `Sized`: an element of the dirty or the spilled list is a block of pages that lives
  somewhere, with its length, so that freeing the block removes it as a whole;
* `Spared`: nothing the transaction may use or has written is of a referenced
  snapshot, nor has a record as old as that snapshot a page of it. The second half
  is what makes `mdb_find_oldest` enough: the records it lets pass are older than every
  snapshot in use, and a reader that begins later reads a newer one;
* `Kept`: a page in use is of the newest snapshot, dirty, or written, which is
  `CommitWritten` as soon as nothing is dirty. A spilled page that is dirty again, or
  of a run that is released, counts as written no longer;
* `Counted`: the lists agree with their counters, and the dirty list with the room
  left in it stays within its capacity, also while nothing may be spilled.

The hard part is `mdb_freelist_save`, which changes what it saves: writing a record
may take pages from the list it writes, free pages for the list of the transaction, and
fetch further records. `Saves` holds at the head of its loop. It says that the records
reserved so far lie in pages of this transaction, so that they can be written again
without taking a page (`Reserved`); that `total_room` is the number of slots in
them (`Slots`, counted as pairs of a record and a position, since a sum over the records
would be an induction); and that the own record holds all of `mt_free_pgs`
when `freecnt` says so. The loop ends with room for all that is at hand, hence
`Fills`: the slots of the records still to be filled are at least as many as the
pages still to be written. At the end every freed page and every page at hand is in one
record, and `FilledTidy` makes of `Once` and `Cover` that the new snapshot is `Tidy`.

A transaction whose operation failed is only looked at for what it did to the file
(`Bare`, `Lost`, `Stuck`): all it can do is end, and `SnapshotsSpared` still holds. `World`
and `Stores` are about the snapshots that are kept, of which a reader takes the newest
and the writer drops those nobody reads any more.

### The generators

`SchemaExportProofs` is about the place of a field, for every list of properties
whose ids are used once and fit a FlatBuffers table (1..32766, `IsPropertyList`;
from 32767 on `slotFor` wraps, and a table has no room for the field):
`SlotsNeverMeet`, two ids never read one slot and none reads the vtable's header;
`DeclaredAtSlots`, the generated table declares each property where `flatc` gives
it the slot the decoder reads, whatever ids are retired. The argument is that the
position in the table is the id (`ByIdIsUnique`, `generateTable`) and that 16 bits
hold the slots of 32766 ids (`SlotDoesNotWrap`).

### Only model-checked

* Termination and everything else under fairness (`CallsReturn`, `CallsEnd`,
  `CommandExits`, `SaveEnds`, the fairness of `ImplementsService`): liveness is out
  of the prover's reach.
* What the decoder makes of a value, and `LmdbTree` with its refinement of
  `LmdbMap`: `flexToJson` and the rebalancing are recursive operators, which are out
  of the prover's reach.

## Disagreements met

* `env_nested`: `readToManyTargets` called from `onRecord` (the README of the
  package passes it `record.objectId`) opens the store a second time in one
  process. `lmdb.h` forbids that, and the package's documentation promises that
  any number of readers is safe. In the trace the second call initializes the lock
  file while the first one reads, the application attaches, commits three times
  and overwrites a page the first call still reads.
* `env_killed`: between the initialization of the lock file with transaction id 0
  and the store of the real one there is a moment where the death of the process
  lets an application that waits for the lock start from 0. Without that moment
  (`DieOpening = FALSE`) the newest commit survives every crash.

* `decode_huge`: `decodeStringAsJson` falls back to the raw string only if `parse`
  throws `parse_error`; `1e999` throws `out_of_range`, and the whole call fails. The
  comment at `src/src/fb_decode.cpp:74` promises the raw string.
* `tree_split`: a put into a full page of 32 keys of unequal sizes fails with
  `MDB_PAGE_FULL`, which `src/dart/src/lmdb/mdb.c:7305-7307` says never happens. The
  split takes the middle of the page as it is unless the page has few keys, the
  new node is large or goes to the end (`mdb.c:8809`).
* Without a run, since one line shows it: 64-bit integers become JSON numbers
  (`src/src/fb_decode.cpp:53`), and `src/docs/BACKLOG.md:56` says they are emitted as
  strings. For a name of more than 255 characters every record opens a group of
  its own; the comment at `src/cli/main.c:83-90` says the comparison with the last
  name is all that is needed. A property of an unknown type is left out without
  a word; `src/src/schema.cpp:72-73` keeps such properties so that the decoder can
  report them.
* Habits of cursors that contradict no document, and that the refinement of
  `LmdbMap` had to leave room for: a cursor at the end keeps `C_EOF`, and the next
  `MDB_NEXT` finds nothing even if keys have been put behind it since
  (`mdb.c:5915`); a deletion followed by a put that is refused with `MDB_KEYEXIST`
  keeps `C_DEL`, so that the next movement stays in place; after a search that
  failed the cursor stands past the end of a page.

## Not modelled

* The modules of LMDB are not composed with each other or with `LmdbReader`, where a
  cursor step is "the next key of the snapshot". `LmdbEnv` has the scan of the reader
  table done by every write transaction; that LMDB keeps the result of an earlier
  one while it suffices is in `LmdbPages`, which in turn takes the scan and the
  begin of a reader for one step each.
* Of the lock file: a torn read of a meta page, `MDB_NOSYNC` and power failures, the
  Windows build and POSIX semaphores. Only robust mutexes are.
* Of the tree: duplicates and named databases, `MDB_MULTIPLE`, `MDB_RESERVE`, and
  values on overflow pages (those are in `LmdbPages`).
* Of the pages: nested transactions, `MDB_WRITEMAP`, a freeDB of more than one
  leaf (the inner loop of saving the own list runs once), branch pages other than
  the root, and the limit of `mdb_page_alloc` on its search for a long run (`retry`,
  60 per page of the run), which the bounds of the run do not reach.
* Copying an environment, statistics, and the messages of LMDB.
* Output errors of the command other than opening the file, and its messages.
* Entity and relation ids from 64 on: the key has no room for them.
* Where things lie inside a FlatBuffers buffer: a field is there, absent or broken.
* The bindings of the packages (py-lmdb, lmdb.aio, lmdb-js): what an await or an
  iterator does inside them, a cancellation between a step of the executor and its
  result among it. The decode helpers of the packages.
* See "Plan" for the rest.

## Plan

1. done: `ObKeys`, `ObStore`, `Schema`, `LmdbReader`, `Dumper` with `DumpService`,
   `CliJson`, their runs, and the theorems above.
2. done: `LmdbEnv`, under which the snapshot of `LmdbReader` stands.
3. done: `Properties`, `Flex`, `Decode`, `SchemaExport` with their runs, and the
   theorems about slots.
4. done: `ReaderToolkit`. Left of it: the decode helpers of the packages against
   `Decode` (UUIDs, hexadecimal strings, Json texts), and what a caller may combine
   of two calls.
5. done: `LmdbTree` with `LmdbMap`, and `LmdbPages`. Left of them: nested
   transactions, and a freeDB of several pages.
6. `CApi`: threads, `ob_dump_last_error`, ownership of returned strings; the
   `--schema` and `--fbs` modes on top.
7. Theorems. Done: keys, dumper with its refinement, command, packages, lock file,
   slots, pages. Left: `LmdbTree` with its refinement of `LmdbMap`, which would need a
   version without recursive operators.
