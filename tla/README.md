# The Hyperscan runtime in TLA+

Hyperscan compiles a set of regular expressions into a *database* and scans data with it. The compiler is a
chain of graph transformations; the runtime (`src/src/runtime.c`, `src/src/rose`, `src/src/som`,
`src/src/report.h`) is where state lives for a long time, is shared between calls and is handed from one
part to another. Chimera (`src/chimera`) is a second runtime on top, which merges Hyperscan with PCRE. This
project models both, one module per component, checked with TLC on small instances. The safety properties of
streams, reports, logical combinations, start-of-match slots, memory and Chimera are also proved with TLAPS for
every value of the constants.

## The system and its parts

A scan goes through these layers; the list is the inventory (`PROJECT.json` has the files of each part).

| part | module | state |
|---|---|---|
| public API: streams, block and vectored scans, callbacks, scratch ownership | `HsStream` | modelled, with the omissions below |
| stream compression | `HsStream` | offset, status, history |
| deduplication and delivery of reports | `Reports` | modelled, with the omissions below |
| delayed literals, anchored literal log | `DelayedLiterals` | modelled, with the omissions below |
| logical combinations | `LogicalComb` | modelled, with the omissions below |
| start-of-match (SOM) slots and their stream copy | `SomSlots` | modelled |
| Rose program interpreter, stream execution | in the modules above | the instructions that change their state |
| scratch allocation | `ScratchAlloc` | modelled |
| databases: serialized, loaded, freed; allocators that fail | `Database` | modelled, with the omissions below |
| engine queues | `EngineQueue` | suffix, outfix and MPV queues; not the reduction of infix queues |
| catch-up: priority queue, MPV, sequence points | `CatchUp`, which refines `OrderedMatches` | modelled, with the omissions below |
| bounded repeats | `Repeat` | modelled, all eight models |
| castle engine | `Castle` | modelled |
| LBR and MPV engines | in `CatchUp` and `EngineQueue` | what their queues see of them; not tamarama |
| Chimera (Hyperscan and PCRE) | `Chimera` | `ch_scan`; not compilation, serialization, scratch allocation |
| leftfixes, long literals, multibit, state compression | – | see "Not modelled" |
| automata engines, literal matchers, acceleration, CPU dispatch, small-write engine | – | SIMD or tables, no protocol state; the models take their matches as inputs |
| pattern compiler, tools, examples, unit tests | – | compile-time or outside the library |

The parts interact through the *stream state*, which survives a write, and the *scratch*, which does not and
which many streams share. Nearly every hazard is about one of these: state in scratch that should have been
set again (`lastCombMatchOffset`, the stored SOM logs, the delay ring, `core_info.status`), or stream state
that must be written on every return path (status, history, SOM slots). The other large group is about order:
literals, engines and PCRE find matches at different times, and something has to merge them.

## Modules

In each module a variable that the code does not have is marked as a history variable. Operators keep the
names of the functions they model. An operator whose comment begins with "Mutant" is a deliberately wrong
version of the definition after it; each property is shown to fail with one of them. `TypeOK` gives the types of a
module's variables; the runs check that of `HsStream`. It is proved there and, as a part of the inductive invariant,
in the other modules with proofs; elsewhere it is documentation and holds on the instances of the runs. Where databases differ, a variable
(`db`, `rose`, `layout`) chosen in `Init` and never changed says which one is in use, so that one run covers
several.

### HsStream

`stream` holds the offset, status bits and history of each stream, `inUse` and `core` the flag and status of
each scratch, `blob` the compressed buffers. A call that can deliver matches is a frame on `stack`; `todo`
lists the stages the call still has (zero-offset boundary program, engines, stored SOM reports, end of data,
last combination flush, store or finish). `Report` runs the user's callback, during which the application may
call the API again: this is how calls interleave in one thread. `CallbackHalt`, `Exhaust` and `InternalError`
are the three ways a stage stops, `StagesAfter` the early returns. What the engines find is left open: any
stage that runs may report, any number of times. A vectored scan keeps its stream in the scratch, so the scratch is also an id.
`HistoryRequired` and `MinWidth` (a shorter block returns at once) are any numbers; `U32` stands for 2^32. The application keeps the rule of `hs_runtime.h` not to
use a stream from a callback of a call on that stream (`Free`).

Left out: null and magic checks, out-of-memory returns, compressed buffers that are too short, the
`STATUS_DELAY_DIRTY` bit (it is in `DelayedLiterals`).

### Reports

`dedupeCatchup` and its callers: two logs used by the parity of the offset, since reports may be one byte late
(`adjust`), a log of stored SOM reports per parity with the smallest start seen, the dirty marks, the
exhaustion vector. A report is raised in one step, then goes through the new-offset half and the log half of
the deduper; a SOM report is delivered by a later flush. Calls are streaming writes, end of data, resets and
block scans; `starts`, `log`, `somLog` and `dirty` survive from call to call as the scratch does. The deduper
forgets at a write boundary (`current_report_offset` becomes ~0), so "no duplicate" is about one call.

### DelayedLiterals

`roseStreamExec`: the anchored table fills a log with one row per offset, the ring is rebuilt by rescanning
history if the last write left it dirty, then the floating table runs and every match first flushes what is
due (`flushQueuedLiterals`, with the wrap-around of the slot mask) and pushes its delayed version. `hits` and
`played` record what was found and which literal programs ran. Left out: literal groups, the tests that skip
the floating table (`noFloatingRoots`, `floatingDistance`, `maxBiAnchoredWidth`), the end-of-data table.

### LogicalComb

A match of a sub-expression sets its bit and activates the combinations it occurs in; `FLUSH_COMBINATION`
evaluates the active ones when a later offset begins, and reports them at `lastCombMatchOffset`, which lives
in scratch. The three runtimes (full, pure literal, single outfix) differ in who sets that offset and
in who flushes. The trees of operations are a constant, in postfix order as the compiler numbers them
(`TreeAssumption`), evaluated as in `isLogicalCombination`; the operation bits, which the code stores in the
logical vector, are computed. A block scan is one write and the end of
data of one stream. Left out: sub-expressions with exhaustion keys. Those with offset adjustments
are refused by the compiler.

### SomSlots

The eleven kinds of slot operations fall into six actions (constant distance, reverse NFA and "from" forms
differ only in where the start comes from, which is an input). `base`, `due` and `esc` record what the slot
was before this offset and what was asked of it; `Resolved` is the reference: the same slot with all
operations of the offset taken together. `Horizon` is the sentinel of the 2- or 4-byte stream copy; with
`Horizon > MaxOffset` it is the 8-byte one. A slot is used by one kind of operation, as the slot manager
assigns them.

### EngineQueue, CatchUp and OrderedMatches

Literals are found first and the engines lag behind. `EngineQueue` has the queue of an engine (`START`, `TOP` and
`END` events, at most `mqe` of them), with the events that are merged, and how an engine is run over it to a
location or to its next match; the engine is a bounded repeat, as LBR implements it. In `CatchUp` a record `rt`
holds what a catch-up changes: the queues, the active array, the priority queue `pq`, the two sequence points
`minM` (`minMatchOffset`) and `minN` (`minNonMpvMatchOffset`). Operators named after the functions of `catchup.c`
and `match.c` take and return it; an action is one turn of a loop (`Build`, `Nfas`), or what a call does before,
between and after the loops. `cu` is the catch-up in progress and what its caller does with the result: report
a literal, push a top, push a chain event, tidy up. The MPV is one kilopuff: it is fed by literals and by engines
and matches `puff` bytes after an event, until a byte of `bad`. A database `db` says which queues are
outfixes, which engines feed the MPV, which reports can be exhausted, and whether the mode is block.

`OrderedMatches` says what the caller is promised: the matches due are delivered, each once, and none before one
with a smaller offset. `CatchUp` refines it with `Due`, computed from the tops and bytes alone, as the abstract
set and `rt.out` as the abstract output.

Left out: SOM and deduplication (they are in `SomSlots` and `Reports`), the flush of combinations during a
catch-up (`LogicalComb`), suffixes at end of data, `top_squash_distance`, the reverse acceleration of small
blocks, several kilopuffs and the "no retrigger" form of the MPV, `roseHaltIfExhausted`.

### Database and ScratchAlloc

Memory is a set of blocks with addresses modulo 64; an allocation fails, is misaligned or succeeds.
`Database` compiles, serializes, loads (in place or into new memory) and frees databases while storage may damage a
field of a serialized one; bytecode is opaque and the checksum tells apart what occurs. `ScratchAlloc` adds the
scratches: `Need` are the sizes a bytecode asks for, `Grown` the maxima of `hs_alloc_scratch` in the code's form
(`log_size` follows `dkey_count`), and the layout operators follow `alloc_scratch` region by region.
`BeginScan` and `EndScan` bracket a scan, during whose callback all other calls may be made.

Left out: the info and size calls, which change nothing, argument checks, and the exchange of allocators.

### Repeat and Castle

`Repeat` has the eight representations of "when did the last tops happen" (ring, first, last, range, bitmap,
sparse optimal, trailer, always): storing a top, the next match, the match at an offset, packing into stream state
and unpacking. `WordBits` and `ByteBits` stand for 64 and 8. `Castle` runs several repeats of one class over a
queue: with callbacks (`Q`), to the next match (`Q2`), or as a leftfix that is asked at the end (`QR`). A byte
outside the class kills everything (`esc` are the offsets of such bytes); exclusive groups share one control.
`tops` records the tops; the properties compare every answer with what the set of tops says. `Allowed` is what
the compiler guarantees about tops: which model it picks depends on the distance between them.

Left out: a recurrence table of the sparse model that overflows 64 bits, the byte widths of the ring indices, a
callback that halts the engine. For a castle in which all repeats are exclusive the code keeps no active set
beside the groups; this affects only how "alive" is read, which is modelled.

### Chimera

A pattern is found by Hyperscan alone, by Hyperscan as a prefilter with PCRE to confirm, or by PCRE alone. `queue`
holds the next match of each pattern in delivery order. A scan first runs PCRE for the unguarded patterns
(`initQueue`), then Hyperscan, whose events first deliver what the queue holds up to their end
(`catchupPcre`) and then enter a match of their own; at the end the queue is flushed. Callbacks answer
continue, skip or terminate; PCRE may hit its limits, which the error callback answers in the same way, or
fail. `scanStart` and the flags survive in the scratch to the next scan. The scratch is marked in use by `ch_scan` and
unmarked at each place where the code returns (`Return` with `unmarkScratchInUse`).

PCRE is external: it returns the leftmost match at or after a start, with one match per start. Hyperscan is
reduced to the order of its events (`Reports`, `HyperscanMoves`), which is not the order of their ends
(`ch_runtime.c:405` says so too). An offset adjustment is 0 or -1 (`report.h:87`), so a prefilter raises an
event at its end or one byte later. Fixed patterns are compiled with `HS_FLAG_SOM_LEFTMOST` (`ch_compile.cpp:512`): their
events are kept in the SOM log of their offset until the next offset is done, and leave it in order of their
ends, pattern by pattern. Hence every event may come one byte late, after events of other patterns that end
later, and every one is out when Hyperscan is two bytes further or at the end of the data. A prefilter also raises
events where the pattern does not match. That matches are still delivered in order is due to the lag of `catchupPcre`, which
stops short of the pattern's own width; with events two bytes late `DeliveredInOrder` fails.

A text has any set of UTF-8 continuation bytes, up to three in a row, which a UTF-8 pattern's matches respect.

Left out: argument checks, data longer than `INT_MAX`, captures other than the whole match, `\K`, errors of
`hs_scan` itself.

## Runs

| run | shows | states, size |
|---|---|---|
| `stream_state` | `HistoryIsSuffix`: the history is the last bytes consumed, for writes shorter than, equal to and longer than it; `HaltIsRemembered`: a stream that a callback has stopped stays stopped; both through resets, copies, compression and expansion, with internal errors | 2.3 million; 2 streams, history 2, writes of 1 to 3 bytes |
| `stream_nesting` | `ScratchHeldByOneCall` and `NoCallbackAfterHalt` for streaming, vectored and block calls, also from callbacks, without combinations | 2.5 million; 2 streams, 2 scratches, depth 2 |
| `block_comb` | **violated**: a block scan with combinations calls back after a callback has stopped it | |
| `reports_kinds` | no duplicates, stored starts leftmost and in order, single matches once, nothing lost | 0.45 million |
| `delayed_queues` | literal programs in order, once, none lost, for a ring of 4 slots | 1.8 million |
| `comb_engines` | combinations reported exactly where they are due, on all runtimes | 0.54 million |
| `comb_shared` | **violated**: two streams on one scratch report a combination at the wrong offset | |
| `som_races` | `SlotsResolved`: the order of writes, copies and escapes at an offset does not matter | 1.9 million |
| `catchup_merge` | `DeliversInOrder`: the catch-up refines `OrderedMatches`; nothing is left at the end of a write, queues keep room for their last event, outfixes wait where they should, sequence points do not go back, every match due is delivered | 0.12 million, 5 databases |
| `memory_faults` | no leak, no double free, no stale pointer whichever allocation fails; a scratch serves every database it was prepared for and its regions fit; only undamaged bytecode is accepted, and it is aligned and clear of the header | 0.24 million |
| `castle_repeats` | the castle fires exactly where its tops say, and every repeat model answers like the set of tops, across writes | 0.43 million, 15 castles |
| `chimera_merge` | every match once, in order, with its own captures, within the queue's capacity; scans restart at codepoints; the return value and the in-use mark are right and no callback follows a stop | 1.25 million, 9 databases |

`block_comb` and `comb_shared` are the findings of `PROJECT.json`, with the lines they contradict. In the first a
callback of a boundary program returns non-zero and `hs_scan` runs the last flush of the combinations
without asking `told_to_stop_matching` (`runtime.c:458`; `hs_runtime.h`: "Non-zero if the matching should cease"),
as `report_eod_matches` does for streams. Four configurations that are
no runs of the project show more places where the code does not do what a reader would expect, or where a
hypothesis of a theorem is needed; TLC finds a counterexample with each of them:

* `HsStream_u32.cfg` (`MCHsStream`): past 2^32 bytes a compressed stream loses history, since the offset is cut
  to 32 bits (`stream_compress_impl.h:127`).
* `HsStream_eod_error.cfg` (`MCHsStream`): an internal error in the engines at end of data makes the call return before
  it stores the status, although its callback has asked to stop; the stream does not remember (`ErrorsStopTheCall`).
* `ScratchAlloc_nokeys.cfg` (`MCScratchAlloc`): the size of the dedupe logs follows the number of dedupe keys, so a scratch
  for a database without keys need not have logs of the size that its bytecode states (`rose_internal.h:353`).
* `LogicalComb_dies.cfg` (`MCLogicalComb`): "true if nothing matched" is not reported once the engine has died.

An internal error (`InternalError`) is the default case of the program interpreter, which the code marks as
unreachable and yet handles on every path. A reset reads the error bit even when `report_eod_matches` has left the
status of an earlier call in the scratch (`runtime.c:1045`); `Finish` does the same, and since only an
internal error could make a difference there, no property is about it. `ExactCombinations` is about streams whose end of
data is processed.

Bounds. Two streams are enough for one to disturb another and for a copy; two nested calls for an inner one to
meet an outer one's scratch; a history of two with writes of up to three bytes passes the three cases of
`maintainHistoryBuffer`; four slots with delays 1 and 3 over seven bytes wrap the ring and jump over it (the
code's 32 slots change only the modulus); offsets to 4 with three reports open both parities, reuse one and
leave a gap; a horizon of 2 with offsets to 3 has starts inside, at and beyond the horizon. Streams and scratches
are symmetric, bytes too where only their identity counts.

For the catch-up, streams of 5 bytes in writes of 2 or 3 with three literal events fill queues of 3 or 4 events,
let two engines and the MPV have matches at the same and at neighbouring offsets and put a match on either side
of a write boundary; the caller stops at the second match or never. Three bytecodes of different sizes, of which
no one is largest in everything, with two scratches and five blocks let a scratch grow twice and be cloned in
between; the addresses 4 and 8 are a misaligned block and one that is aligned to 8 but not to 64. The castles
have at least one of each repeat model, bounds at which the ring wraps and a bitmap word or packed byte is
full (6 and 3 bits), and streams of 4 to 12 bytes, long enough for a top to leave the horizon. In Chimera
the databases have one to three patterns, of all kinds and of every pair of kinds except two unguarded ones; over
3 bytes they have overlapping, nested, equal and empty matches and codepoints of one to three bytes, events come in every order that one byte
of delay allows, and a second scan meets what the first has left in
the scratch.

Deadlock is checked in every run: the application can always call again or a call can finish. In `CatchUp` and
`Chimera` the caller may also rest for ever.

Fairness is assumed in `CatchUp` only (`FairSpec`): once a write has started, the thread that called
`hs_scan_stream` goes on taking steps until the call returns. The call is sequential C code without waiting, so
nothing but the operating system could stop it. What has to be shown is that these steps lead somewhere:
`EventuallyDelivered` says that the loops end with every due match delivered. `Fairness` is weak fairness of `Step`,
with `Running` written for its enabling condition. The other modules assume none; their properties are safety
properties.

## Proofs

Eight modules hold proofs, checked by TLAPS to the last leaf. Each theorem holds for every value of the constants
that satisfies the named `ASSUME`s of its module: the bounds of the runs (streams, bytes, blocks, scans,
nesting) are then any natural numbers, sizes and sets are any. The runs check the same properties, and TLC checked
every inductive invariant below on the instances of the runs before it was proved.

| module | theorems (property) |
|---|---|
| `HsStreamProofs` | `Wellformed`, `Typing` (`TypeOK`), `ScratchHeld` (`ScratchHeldByOneCall`), `History` (`HistoryIsSuffix`) |
| `HsHaltProofs` | `StagesInOrder`, `Halting`, `HaltsForGood` (`NoCallbackAfterHalt`), `HaltStored` (`HaltIsRemembered`) |
| `ReportsProofs` | `Deduping`, `OnceEach` (`NoDuplicate`), `SomOrder` (`SomInOrder`), `OnceInALife` (`SinglematchOnce`), `AllTold` (`EveryMatchTold`) |
| `SomSlotsProofs` | `SomResolved` (`SlotsResolved`) |
| `ScratchAllocProofs` | `Memory` (`MemoryAccounted`), `Fits` (`ScratchFits`), `Layout` (`LayoutFits`), `Marked` (`MarkedWhileScanning`), `Accepted` (`AcceptedIsCompiled`), `Placed` (`BytecodePlaced`) |
| `LogicalCombProofs` | `Combining`, `AtMatches` (`CombinationOffsets`), `AllReported` (`ExactCombinations`), `NegativesAtEnd` (`NegativesTold`) |
| `ChimeraInvProofs` | the invariant and every step for it, for `ChimeraProofs` |
| `ChimeraProofs` | `ScanInvariant`, `ScanTyping`, `InOrder` (`DeliveredInOrder`), `WithinCapacity` (`QueueWithinCapacity`), `Captures` (`CapturesOfQueued`), `AtCodepoint` (`StartsAtCodepoint`), `Tell` (`ReturnTells`), `StopsForGood` (`NothingAfterStop`), `Exact` (`ExactMatches`) |

Together they cover every safety property that the runs of `HsStream`, `Reports`, `LogicalComb`, `SomSlots`,
`Database` with `ScratchAlloc`, and `Chimera` check.

What a proof uses about numbers and finite sets (`Numbers`, `BlockSizes`, `LogsListed`) is a definition that the
lemmas take as a hypothesis; the last part of the module proves it from the library (`NumbersHold`,
`BlockSizesHold`, `LogsListedHold`), so that no theorem has it as an assumption.

### Streams

`ScratchHeldByOneCall` is not inductive: nothing in it says that different frames hold different scratches
or that the stream of a frame exists. The inductive invariant `IInv` adds `StackOK` (the
streams and buffers of a frame exist, the stages left end in one that pops the frame, and no frame has the
scratch of another or a stream that a frame below it was given) and `Held` (a scratch is in use if and only if a
frame has it). The proof has lemmas on pushing, replacing and popping a frame, one step per action for calls
(`IInvCalls`) and one for the steps of the top call (`IInvSteps`), combined in `Wellformed`.

`HistoryIsSuffix` needs in addition (`HInv`) that a compressed buffer holds a suffix of its own data and that
the bytes of a write in progress fit (`Fits`). The arithmetic is in three lemmas: `WriteSuffix` (a write of any
length), `CompressSuffix` and `ExpandSuffix`. The theorem assumes `MaxOffset < U32`; without it `HsStream_u32.cfg`
gives a counterexample.

The theorems on halting need to know in which stage a call can be when its stream has been stopped. `ShapeInv`
says which stage lists occur, kind of call by kind of call; `HaltInv` says of every frame how the status in its
scratch, the status in its stream and what the callbacks asked for are related (`HaltOK`), of a stream that no call
works on that its stored status tells the truth (`Remembered`), and the same of a compressed one. Two hypotheses name
combinations of features for which the code does otherwise: `CombsOnlyInStreams` (a block scan flushes
combinations after a stop, as `block_comb` shows) and `ErrorsStopTheCall` (an internal error of the engines at
end of data keeps the status from being stored, `HsStream_eod_error.cfg`).

### Reports

The code knows which offset a log of the deduper stands for from its parity only. `ReportsInv` says it
(`At(p)`): while offset c is current, the log of c's parity holds exactly what was told at c and the other one what was
told at c - 1 (`LogInv`); what is stored was raised at the offset of its log, a log whose dirty bit is off is empty,
and what was told of start-of-match reports before the final flush ends before both logs (`StoreInv`); every match
raised has been told with a start that is no later, or is stored with one, or is being processed (`ToldInv`).
Between calls nothing is claimed about the logs, since the next call starts with whatever they hold; that the
first report of a call or the boundary program clears them is a part of the proof. `Iterated` and `Cleared` show that
`clearSomLog` reports each key of a log once, `Flushing` what a flush does in each of its four cases, also when the
callback stops it half way.

### Logical combinations

The theorems have a hypothesis, `Sound`: no two streams of the database share the scratch, or it uses the full
runtime with work at end of data and no sub-expression in the boundary program. This is where the code sets
`lastCombMatchOffset` before it uses it; `comb_shared` is a counterexample without it. `NegativesAtEnd` also needs that
no engine dies early, as `LogicalComb_dies.cfg` shows.

The proof is in three layers. `Evaluation` shows that the loop of `isLogicalCombination` computes the value of the
tree (`Truth`) for any set of matched sub-expressions, and `Relevant` that a combination none of whose operands has
matched has the value it has when nothing matched. The second layer is about one stream as plain data: M its matches, C the active combinations, T what was
reported, E what is exhausted. `UpToDate(T, E, M, C)` says that T holds what is due of M, except for the last match of
an active combination; `Flushing`, `Matching` and `Ending` say what a flush, a match and the end of data do to
it. The third is the state machine: `CombInv` says that each stream is up to date, that the scratch of the stream
being scanned holds the offset of its last match (`LatestInv`), and what is left of that while the stream waits between
two calls (`QuietInv`). A full runtime leaves the combinations of the last byte active, so that the next write can
set the offset to its own start; the others rely on the scratch, hence on `OneStream`. A step changes one stream;
`Others` does the rest.

### Start-of-match slots

`SomInv` says of each slot, while a call runs, in which of the sets of the offset it is and which of its two
places holds the start that the operations so far ask for (`SlotInv`), and between writes what the stored
distance stands for (`KeptInv`). The order of the operations does not occur in it, which is the point of
`SlotsResolved`.

### Memory

`MemoryInv` has one part per kind of object and `Accounted`, which makes the live blocks the disjoint union of the
blocks of all pointers. `Fits` and `Layout` go through the thirteen sizes of a scratch, one field at a time, and through the
regions of `alloc_scratch` with their alignments; sizes are any natural numbers and blocks may lie at any address that the
allocator can return. `ScratchFits` asks for room in the dedupe logs only if the database has dedupe keys, as the
code does.

### Chimera

`ChimeraInv` says that the queue is sorted and holds one match per pattern, that its captures belong to it, that
nothing queued ends before what was delivered (`LiveInv`), and that a pattern which Hyperscan may report again has a
match in the queue (`Caught`): without the last part the queue could get a second match of a pattern, and overflow.
`StageInv` and `EventInv` say how far Hyperscan is: what was delivered ends before its offset, an event ends there or
one byte before, and a pattern without an event so far has no match that ends earlier than that.
After a stop only a weaker statement holds (`QueueInv`), which still gives the capacity. `Inserted` and `Popped` are
the facts about the priority queue. Assumed of PCRE and of Hyperscan is what `TextOK` and the module's comments on its external
definitions say.

`ExactMatches` says that nothing is delivered that PCRE alone would not find, and nothing left out. Its invariant
`ExactInv` has for every pattern, while the scan goes on, the equation *matches = delivered, then the queued one, then
what PCRE finds from `scanStart` on* (`Progress`, `Owed`). A match that PCRE confirmed keeps it, since the next one is
looked for where PCRE itself would go on. A match that Hyperscan reports keeps it only if no match that ended before
was passed over: `Followed` says that of a fixed pattern every match that Hyperscan has reported (`Reported`: it
ends two bytes before the current offset, or its event is among those of the last two) starts before `scanStart` or is the one being caught
up with, and that all that end before that one have been reported. The reference `MatchesFrom` is a
recursive function over the data. That it exists and what its values are is proved by taking the least start at which
a candidate fails (`ListExists`, `MatchesSearch`), so no induction theorem is needed.

### What is only model-checked

* Liveness: `EventuallyDelivered`. Fairness and ENABLED are outside what TLAPS proves.
* `CatchUp` and its refinement of `OrderedMatches`, `DelayedLiterals`, `Repeat` and `Castle`. What
  runs in one step there is a fold over a sequence (`FoldLeft`) or goes through a set in sorted order
  (`SetToSortSeq`, on top of TLC's built-in `SortSeq`, of which the provers know nothing), so that each fact about
  a step needs an induction over its data. In `Reports` and `LogicalComb` the order of the keys of a bit vector is for
  this reason defined directly (`fatbit_iterate`, `mmbit_iterate`).

## Not modelled

* Leftfix catch-up (`roseCatchUpLeftfix`, the lag table, eager prefixes, the reduction of infix queues). Whether a
  leftfix may be skipped depends on literal groups and lookaround data that only the compiler's graphs define.
* Suffixes and outfixes at end of data, the end-of-data table and `CHECK_*` instructions that only compare bytes.
* Combinations whose sub-expressions have exhaustion keys. Sub-expressions with an offset adjustment need no model:
  one that reports a byte late would set `lastCombMatchOffset` back, against the assertion of
  `rose/runtime.h:135`, but the compiler refuses such sub-expressions (`parser/logical_combination.cpp:153`).
* Multibit, fatbit, state compression, long literals: representations of sets and of a few bytes. The models use
  the sets; `ScratchAlloc` uses the sizes.
* Automata (LimEx, McClellan, McSheng, Sheng, Gough, tamarama), literal matchers (FDR, Teddy, Noodle, HWLM),
  acceleration and CPU dispatch: SIMD and tables without protocol state. Their matches are inputs of the models.
* The compiler: graph transformations over unbounded structures, out of TLC's reach as a whole. Where the
  runtime relies on a guarantee of the compiler it is a named definition (`Allowed`, `Need`, `IsPattern`,
  the repeat sizes).
* Chimera's compilation, database and scratch functions, which follow Hyperscan's.

## Plan

1. Proofs: the safety half of the refinement of `OrderedMatches` by `CatchUp` (order and no duplicates), the ring
   lemma of `DelayedLiterals` (a slot never holds two due offsets), the ring and range models of `Repeat` as
   refinements of the set of tops.
2. Leftfix catch-up with an abstract literal matcher.
3. `Reports` and `CatchUp` composed: deduplication behind the merged order.
