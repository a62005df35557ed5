# seekzstdsep in TLA+

seekzstdsep keeps records in a seekable zstd file: a sequence of independently
compressed frames with a seek table behind them. Every frame ends where a record
ends and all frames hold the same number of records, so record `i` is found by a
division. The operations that write such a file have to keep this up, and the
ones that read it rest on it. These modules say what that takes, TLC checks them
on small files, and TLAPS proves the central invariants for all files.

Paths are relative to the repository (`src/edit.rs` is `src/src/edit.rs` in
PROJECT.json).

## The system

| Part | State it keeps | Operations | Hard because | Correct if |
|---|---|---|---|---|
| writer lock and private copy, `src/file_update.rs` | names `.lock.T`, `.tmp.T`, T in a directory; handles on inodes | `with_file_lock`, `copy_and_replace` | several processes, names that outlive their maker, unlink and rename that fail, kill at any step | no update is lost; T can always be read; a reader keeps its file; the lock is given back |
| editing operations, `src/edit.rs` | frames and seek table on disk; the caller's `AppendResult` | `append_records`, `append_frames`, `truncate_records`, `copy_range` | in place: no table from the cut to the last write; counts that are trusted, cached or read; short and empty frames at the end | the format's invariant holds after every operation; each is all or nothing; the table describes the frames; a cached result never lies |
| read window, `src/record.rs` | a sliding buffer over decompressed bytes: offset, filled, pos, walked, front, next frame end | `seek_to`, `walk_from`, `refill`, `grow_if_full`, runs and units | short reads, records longer than the buffer, several frame ends at one offset, going back to what is still buffered | the records handed out are those of the bytes, in order; none crosses a frame end |
| record reader, `src/reader.rs` | decoder, frame list, count of frame 0, `Lookup` (window and the frame it is on) | `record`, `records_to`, `fold_records`, `total_records`, `records_from`, `into_records` (both directions), `verifying`, `open_with_opts` | one window shared by all of them, and a note of where it is that must not be stale | every call answers what a division by hand would, whatever was called before |
| compressor, `src/seekzstdsep_lib.rs` | stream buffer, records of the open frame, the count fixed by frame 0, attempt of the retry | `convert_to_seekable_zst*` | the first frame's count is not known before it is cut; a limit may turn out too small | frames are uniform; nothing of a failed attempt is in the output; the retry ends |
| inspection, `src/seekzstdsep_lib.rs` | none | per frame counts, fast mode | boundaries of the frame list | counts what is there |
| record finders, `src/find.rs` | none | `by_separator`, `by_fixed`, `by_le32_prefix`, `by_msgpack`, `from_spec` | asked of data that may end anywhere, and again when there is more; values that nest | the length is that of the record, and never changes |
| nushell plugin, `nu_plugin_zstdsep/src/lib.rs` | handles, the table of open files, cached counts | `open`, `$h.i`, summary, custom values dropped | the process ends and restarts while handles live on; ids start again; files change under open readers | a handle reads its own files; counts are of the files that are open |
| nushell save, `commands/save.rs`, and delivery, `src/seekzstdsep_lib.rs` | a destination, a handle on it, the staged output | create, `--force`, `--append` | the destination is created, removed and made again; each step may fail | after success the file is under its path |
| command line, decoders, encoders | none | parsing and formatting | | |

How they interact: `edit.rs` writes through the handle `file_update.rs` gives its
callback, or through a handle of the caller's; it opens a decoder on the same
file for each check it makes, walks frames with `record.rs`, and writes the seek
table last. `reader.rs` reads the table once, when it is opened, and shares one
window among its calls. The plugin holds readers and opens them again after a
restart. There are no threads in the library: concurrency is between processes,
and between calls that share a window.

PROJECT.json lists every part with what is modelled of it, and the hazards, each
at its line.

## The modules

`AtomicFile` is what file_update.rs promises: a value that each call changes in
one step, told truthfully or not at all. `FileUpdate` is the code: one action per
step of `with_file_lock` and `copy_and_replace` with their error paths, readers,
deaths, failed unlinks, and the operator that the documentation asks to remove
leftovers. A name is an inode or nothing, a handle is an inode. What the callback
does to the file is two steps, its cut and its last write, with a torn file
between them; that is the view from here of what `Edit` does in detail.
Metadata, reflinks and the kind of the target beyond "can it be opened" are left
out.

`Records` is the vocabulary of the file's data: bytes are the records that end in
them and perhaps a fragment, a frame is such bytes, a file is a sequence of
frames. A record is a model value and a size is a number of records, since no
decision of `edit.rs` depends on more. `RecordLog` is what `edit.rs` promises: a
sequence of records, changed by each operation's effect at once or not at all.
`Edit` is the code: `Begin` stands for what an operation decides before it writes
(refusals, counts, the place of the cut, the groups the `Cutter` forms, the table
it logs, the result it will return); `Cut`, `WriteFrame` and `WriteSeekTable`
write; `Fail` is a failure or a death at any of these.

* `ValidateSeparator`, `ValidateRecordsPerFrame`, `RecordsPerFrame`, `FrameRange`
  and `CheckRangeUniform` are the functions of these names; each returns a set
  that is empty where the code returns an error.
* `Usable`, `Matches` and `RecordsPerFrameToUse` are how `append_records_inner`
  takes a count: given, trusted, cached or read off the file.
* `CallerOfAppend` and `CallerOfFrames` are the duties the documentation puts on
  callers. A result passed back to a file that has changed is allowed where its
  frame count or last frame differ, as the code is to notice that.

A record reader is three modules. `Lookup` is the window all its calls share
(`Reader` and `RecordUnitCursor` of `record.rs`) with `Lookup.frame`, the note of
the frame it is on. A record is its number in the file; the window is the frames
it spans, how many records were walked past, the first one still buffered
(`front`), whether the source is spent, and whether the final fragment was handed
out. How many bytes a read brings in is left open by letting `front` be any
record a refill may have slid up to. `Reader` has the calls: `record`,
`records_to` and `records`, `fold_records`, `total_records`, and both iterators.
A call is one step and leaves its answer in `answer`, except `next_back`, whose
loop is `CountFrame`, `FrameBefore` and `GiveBack`. `Forward` is `next` of
`RecordIter` and of `BorrowedRecordIter`, which share their code. `RecordQueue` is
what iterators promise: a queue of numbers popped at both ends, that may end
early with an error and then stays so.
The reader modelled there does not verify counts, and its files are uniform
(`UniformAssumption`), as docs/format.md has it. One variable is history: `handed`
says that `record` has handed out an unterminated last record and nothing was read
since, which decides what it answers when asked again (`again`).

`RecordWindow` is the same window by byte: what is buffered, `refill` with reads
of any size, the slide and the doubling, the ends of frames it may not read
across, the runs and units handed out, and the watcher that is told of frames
walked past. A byte is its position in the file and a record is where it ends.
Two modules make calls of it. `WindowCalls` makes those of a `RecordReader` on
files whose frames but the last end where a record does (`FramesAssumption`, what
docs/format.md asks of a file), and shows that they implement `RecordSpan`, which is
`Lookup` with each call in one step: what `Reader` rests on. The mapping reads the window
between calls (`left`), by record (`ByRecord`). `FrameReads` makes the calls of
readers opened in the other ways: `verifying` (`FrameJudge`, which refuses frames
of another count than frame 0's), `open_from_frame` (`Sharing`: a reader of the
same file from a frame on, that may take several frames for one), and both; on
files of any shape, also ones that no operation of `edit.rs` writes. A read that is
not placed (`NotPlaced`) takes the note of the window back in `record` and
`records_to` (`Unplaced`), and leaves it in an iterator (`Unbegun`).

`Finders` has the functions of `find.rs`, by bytes, and the walk that asks them:
`Read` is a byte more in the buffer, `Take` a turn of `ends`. Sizes and lengths
of MessagePack are one table (`msgpack_head`), and the count of values owed is a
recursive function. The other modules take from a finder only where a record
ends.

The plugin is four modules. `Store` is the file system: names, inodes, contents
that are told apart by a number, torn ones among them. `Handles` is the table of
open files: one action per request, and per step of a request at which files may
have changed, with the `Mutex` (`LockIsFree`) and the gap in a lookup that misses
(`Missed`). What a file holds is what a reader makes of it (`Reading`): the count
that `total_records` gives, the numbers at which `record` finds one, which are others
where a frame holds more records than frame 0 (docs/bugs.md:15), and whether the last
has no end. `handed` of an entry is history as in `Reader`: the readers of whose file
that last one was just handed out, so that `Found` does not find it again. A read may
fail at any time, also because a frame is refused or what follows the last record
is none. Opening several files is one step: no other step in between would
be seen. While a call is in that gap, handles are opened and dropped and the
process may end, but no second call is followed. `Save` is `zstdsep save` and how
`compress_with_retry` delivers; what is written while it writes is `Compress` and
`Edit`. `Nushell` composes them with files that others replace and remove, and
with the end of the process at any moment.

`Compress` is the conversion and the retry around it. Bytes are positions in the
input, a record is where it ends, a frame is the range of bytes it holds. `Fill`
is one read of any size and the check of the limit, which is on what was read
behind the last record end; `NextEnd` is one record end found, with the frame cut
there or not, by size or by count; `ScanEnds` is the rest of a turn of the read
loop, with its drain; `Finish` is the last frame; `Retry` is the error path of
`compress_with_retry`, with the count of -1 that becomes the largest usize.
`Held`, `LastButTwo` and `Reported` are what `inspect_frames` makes of the frames
in fast mode.

The MC modules give constants their values. An operator whose comment begins
"A mistake" is a form the code might wrongly have, used to test the properties.

## What the runs show

| Run | Question |
|---|---|
| FileUpdateCopy | Two writers with `copy_and_replace`, two readers, deaths, failed unlinks, an operator: no update is lost, T can be read at every moment, readers keep what they opened, nobody's names are taken, and the whole implements `AtomicFile` |
| FileUpdateMixed | The same with writers that may also update in place: what then still holds, the invariant of the proofs, and that the lock is given back unless somebody is killed or an unlink fails |
| EditRecords | Every sequence of appends and truncations on files of up to six records: the format, the table, the cached result, the division, interrupted appends, and that the operations implement `RecordLog` |
| EditFrames | The same for `append_frames` and truncations, with the invariant of the proofs; and `copy_range` for every range, alignment and check of the files these make |
| Reader | Every sequence of calls, with at most one iterator at a time: the note of the window is true, each call answers what a division by hand would, the iterators are queues, and `next_back` returns |
| Compress | Every input, in reads of any sizes, with every combination of options: the frames are the input, uniform, cut by size where the target says; the drain is not reached; the retry ends; fast inspection tells the counts |
| Window | Every sequence of lookups and range reads on the byte window, with reads of any sizes: it implements the window by record, the buffer stays below twice the longest record, and every call returns |
| FrameReads | Every way to open a reader and every call of it, on intact and on damaged files: intact files are read right; what a verifying read has answered went past even frames only; no record handed out lies across a frame end |
| Nushell | Handles, restarts, cached counts and saves, while files are replaced: answers are the handle's own, counts and totals are of the files that are open, and what a save wrote is there |
| Finders | All short data in each format, with each flag: the answer is the record's length as the grammar of the format has it, and more data does not change it |
| ReaderStale, SaveFallback | Two places where the code does not do what is said of it (below): each of these runs ends in a counterexample |

Bounds. Two writers are enough for every race on the two names, as a third would
be refused by the same `LockExists`; two readers tell a replaced from a reused
inode; three published updates and two faults let a leftover of one call meet two
later ones. Files of up to six records in frames of one or two, and of up to
seven for `append_frames` and `copy_range`, have every shape a decision of edit.rs tells apart: one,
two and more frames, a last frame that is full, short, or followed by a frame of
nothing, with a fragment and without, also behind a full last frame. `MaxSize` bounds a file's length and
with it the sequences of appends; `Ids` has two values, enough to see a record
repeated, lost or out of order. The reader's files have one to three frames of
one to three records, the last one full, short or without a whole record, with
and without a fragment, read by a separator and by a finder: that is a first, an
inner and a last frame. `MaxIndex` asks for records past the end of all of them,
`MaxCount` for ranges that cross one or two frame ends. Run `Reader` leaves out
two cases that go wrong (below): an iterator begun right behind all full frames
of a file with no record there (`PastTheEnd`), and an unterminated record alone
in the last frame (`LoneTail`).
`Compress` has inputs of up to five records of one to three bytes and a fragment
of up to two, reads of up to three bytes, so that a record lies in one, two or
three of them, targets of one, two and four bytes and counts of none to three,
so that there are frames cut on, before and after the target and several
retries; `UsizeMax` is only more than twice the number of records, as half of it
has to be a count no frame reaches.
The byte window begins with a buffer of two bytes under records of one to three,
in files of up to six bytes and three frames: each record fits, fills or outgrows
the buffer, and each read may end before, on and behind a record's end.
`MaxSkip` and `MaxLeft` ask for records past the end of them. `FrameReads` has
all files of up to three bytes in two or three frames, and larger ones with too
many and too few records in each place, frames of nothing and records across
frame ends; `Limit` is what one frame of a seek table may hold
(`u32::MAX` in the code) and decides how many frames a group of a sharing reader
has. `Nushell` has two paths, one file made during the run, two handles,
and one process id whose ids start over with one (`PerProcess`), so that every
new handle meets the entry of an earlier one; the contents hold numbers of
records that differ by finder, none among them, one whose last record has no end
and one that counts a record which is not reached. `Finders` has every type byte of
MessagePack, but ones that differ only in what they count, with small numbers and
values behind, up to the 18 bytes of the longest scalar; numbers from 2^20 are one
(`Huge`), as no buffer holds them.

Deadlock is not checked in the runs `Compress`, `Window` and `Finders`: a
compression ends, a reader may stop after a call it cannot go on from, and data
comes to an end.

Fairness. `LockReleased` takes weak fairness of each writer's next step, because
a call runs on its own thread to its end and its callback returns. `BackReturns`
and `RetryEnds` take it of the steps of one loop on the caller's thread, whose
reads and writes return, and `CallsReturn` of the steps of a call on the window,
each read of which brings in a byte at least or finds the end. Nobody is assumed to call, to
read or to tidy up. `RetryEnds` holds for a target size and a multiplier above 0
(see below).

Where the code and what is said of it differ:

* ReaderStale: an iterator begun right behind all full frames is refused after it
  moved the window, and leaves the note as it was; the next `record` may then
  answer wrongly. Run `FrameReads` begins no borrowed iterator there while a lookup's
  note stands (`Unbegun`).
* SaveFallback: `compress_with_retry` removes the destination before it clones the
  staged output there. If that fails it writes the handle that was opened on the
  destination before, an inode without a name by then, and returns `Ok`: nothing
  is under the path. `compress` of the command line goes the same way
  (src/cli.rs:248).

Other differences, met while modelling, that the runs above leave out or allow:

* `record`, asked twice in a row for an unterminated record, answers `None` the
  second time (src/record.rs:266, 287): none was walked past, and the window is
  spent. src/reader.rs:1800 says `None` is for a file that holds no such record, and
  the test `a_trailing_fragment_is_the_final_record` that the fragment is one.
  `RecordIsTrue` says exactly when: the lookup before handed it out and nothing was
  read since; behind a full last frame it is found each time. `IntactIsRead` and
  `TotalIsOfAllFiles` except the same case, so the plugin reports an index below the
  total as behind the end then.
* `total_records` counts records that `record` does not reach, and the other way
  round, where a frame holds more of them than frame 0 (docs/bugs.md:15). No
  operation writes such a file. A handle may still be of one: `TotalIsOfAllFiles`
  has it that an index below the total is only then not found in its file.
* `total_records` takes a short last data frame for a full one where a frame of
  nothing follows it (src/reader.rs:1493), and a fragment behind a full last data
  frame is then looked for in the frame of nothing (src/reader.rs:130). Files of
  older versions end so (docs/bugs.md). `AddressedByDivision` excepts both.
* After `record` handed out an unterminated record that is alone in the last
  frame, an iterator that starts from its back loses it (src/reader.rs:2026). Run
  `Reader` leaves out such files.
* A verifying reader of the whole file reads across frame ends (src/reader.rs:1350)
  and leaves it to the watcher to refuse what lies there. The watcher is told of
  frame ends when a record that ends behind them is taken, and at the end of a walk
  that handed out less than was asked for (src/record.rs:540). A fragment that is
  the last record asked for is neither, so no frame it lies in or across is judged,
  where src/reader.rs:455 says that a frame the read walks to the end of is: of a
  file of three frames, a whole record, a fragment and nothing, `records_to(1, 1)`
  hands out the fragment, and asked for two records it refuses the second frame.
  `WalkedIsEven` and `NoRecordCrossesAFrame` except it.
* With a frame size of 0 and the count kept the retry of the compressor doubles
  nothing for ever (src/seekzstdsep_lib.rs:374). Run `Compress` has sizes above 0.
* Fast inspection subtracts 3 from a frame count of 2 (src/seekzstdsep_lib.rs:1498).
  A build with overflow checks panics there; in others the second frame is
  reported with the first one's count. `InspectIsTrue` excepts it.

Smaller things the models follow the code in, which a reader of the
documentation may not expect:

* `copy_range` of `cnt` records that end with the last whole record takes the
  fragment in the same frame along, and readers count it as one more
  (src/edit.rs:1375). `CopyIsTheRange` allows it.
* Truncating to all whole records keeps the fragment behind them where the last
  frame is full (src/edit.rs:146). `RecordLog` allows it (`Shortened`).
* `record` of a verifying reader that shares a file from a frame on refuses an
  index past the end of an intact file, where it judges the last group as if it
  were a frame; `records_to` of a verifying reader does not refuse a last frame
  that holds more than frame 0 (src/reader.rs:1917).
* Between the check that a destination does not exist and its creation a file may
  appear, which `save` then empties (src/commands/save.rs:248, 293). A failed save
  leaves an empty file, so that a retry without `--force` is refused.
* `save --force` over a file that a handle has open truncates its inode: the
  handle's entry still names these paths, so it goes on failing until the process
  ends or the handle is dropped.
* After a miss the largest index in the error may come from another opening of the
  files than the one that was searched.
* `fold_records` and `into_records` from exactly the end of the file may end
  without an error where a position past the end is one.
* The limit of the compressor is on the bytes behind the last record end, while
  docs/format.md speaks of bytes without a frame boundary. So a smaller count
  never helps if reads come the same again: the retry goes down to one record per
  frame and then doubles the size.

## What is proved

`FileUpdateProofs`, for any number of writers, readers and inodes: `TypeOK`,
`NoLostUpdate`, `NamesAreOurs`, and that `FileUpdate` implements `AtomicFile`;
and if `Modes = {"copy"}`, that T is never torn and a reader's file never
changes. `NoLostUpdate` is not inductive: that a writer publishes onto the
current version needs `OneHolder` (whoever is past the lock is alone),
`HandleIsCurrent` (it opened T after that), `CopyIsPrivate` (nobody reads or
shares the inode under the temporary name) and `CopyFollowsTarget` (the copy is
T's updates, then one more). `IInv` is their conjunction.

`EditProofs`, for every file, input, count, result passed back and appended data,
of any length: `TypeOK`, `TableDescribesFile`, `UniformFile`, `CacheIsTrue`,
`InterruptedAppendKeeps`, `AddressedByDivision`, `CopyIsTheRange`, and that the
operations implement `RecordLog` (`EditsAreAtomic`).
These hold between operations; during one, `Planned` says that the file to come
is uniform, that the table already logged is that file's and that the result to
be returned is true of it, and `OnDisk` that what has been written is a beginning
of it. `EditInv` is the conjunction. The argument is in three lemmas: `CountIsTheFiles` (whichever way
`append_records` comes by a count, it is the one of all frames before the last,
and what a cached result says of the last one is so), `GroupsOf` (the groups of
the `Cutter` are full and whole but for the last, none is empty) and
`RangeIsUniform` (so are the frames `append_frames` copies). The assumptions are
those of `Edit`: files are uniform at first, inputs are cut at ends of records,
and callers keep to their documented duties. That an interrupted append loses no
full frame needs that `Begin` places the cut behind all frames but a last one that
is not full, judged by the count it appends by, and that what the cut left stays as
it was while frames are written and after a failure (`KeepInv`).

That each operation changes the records by its effect in one step or not at all is
a theorem with one hypothesis: the files `append_frames` copies from are uniform.
It tells where their records are by dividing, and its checks look at frame 0 and
at the frames of the range only (src/edit.rs:1307), so of another file it may copy
records that were not asked for. The steps are those of the log because a plan
ends in the effect of its request on the file it was made for (`EffectInv`), and
that file is as it was until the cut (`KeepInv`): of the writes only the last, that
of the table, is seen. That a plan does so is, for each operation, a fact about what
a sequence of frames holds together. `Contents` is a recursive function, and what
it is of a concatenation (`ContentsConcat`), of frames that are full
(`ContentsOfFull`), of a uniform file (`ContentsOfUniform`), of the `Cutter`'s groups
(`ContentsOfGroups`) and of a range (`RangeIsRecords`) is shown by induction over
the number of frames, in the form `Reached`: a set that holds 0 and the successor
of each of its numbers holds all. An append also needs that the last data frame
holds something (`FreshInv`, `LastHasData`), as closing a fragment of nothing would
make a record of it. `CopyIsTheRange` follows from `RangeIsRecords`, and
`AddressedByDivision` from what a record's index is in its frame (`RecordInFrame`) and
the arithmetic of `records_request` (`Placing`). The
assumptions are those above, and that no result and no request is `None`
(`ResultsAssumption`, `RequestsAssumption`).

`ReaderProofs`, for every file and every sequence of calls in which no iterator
is begun where `ReaderStale` shows it to go wrong (`~PastTheEnd`): `WindowIsNoted`,
`TypeOK`, `RecordIsTrue`, `RangeIsTrue` and `TotalIsTrue`; and where also no file
has an unterminated record alone in its last frame (`NoLoneTail`), that the
iterators implement `RecordQueue`. The note is not inductive, as an iterator reads
only later than it is begun: `NoteInv` adds that a borrowed iterator which has not
read yet has something to read (`BorrowedCanRead`), so that it is not refused after
moving the window, and that only an owned one reads backwards (`BackIsOwned`).
`FitInv` adds `WindowOK`: the window spans frames there are, was walked past no
record behind the last of them, the front is not behind the walk, and the final
fragment was taken only behind all records. That the history is what the window
shows is kept beside it: `handed` just where the note is of the last frame and the
fragment was taken (`HandedInv`). From these each call's answer follows by
the arithmetic of `records_request`: the frame a number falls in by division is
the one that holds it, as files are uniform. `QueueInv` adds that what
`next_back` has counted of a frame is so between calls (`CountIsTrue`), and that an
iterator which has begun to read, and whose window nobody else can move, finds it
where its own number says (`ArmedIsNext`). Each step is then a pop at one end of
the queue of numbers, the end of it, an error that stays, or a stutter.

`RecordWindowProofs` has what every call on the byte window keeps, for any file at
all, intact or not, buffer size and reads of any sizes (`WindowInv`): what is
buffered lies in the buffer, the span and the file (`Buffered`); of the frame ends
that are guarded, those before the next one are not behind the window's start and
the others not before what is loaded (`Guarded`); and the buffer was doubled only
when it was full, nothing of it was consumed and no record ended in it, which takes
two marks next to each other as far apart as it was long: so it stays below twice
the longest record (`GrowthIsBounded`). `WindowCallsProofs` and `FrameReadsProofs`
show that all calls of these two modules keep it. Also there: that a window counts
the records it walks (`Counted`: as many as end between the place it was put at and
where it is, for its front too), through every step (`MoreCounts`, `WalkCounts`).

`WindowCallsProofs`, for every file whose frames but the last end with a record and
whose first holds one (`FramesAssumption`), every buffer size and sequence of calls,
however little each read brings in: `TypeOK`, `GrowthIsBounded`, and that the byte
window implements `RecordSpan` (`WindowIsByRecord`). A call is many steps
there and one here, so the step comes where the call returns, and until then what
the call before left (`left`) is what the mapping reads. `SpanInv` says how the call
in progress began, as a read by record of what was left (`Began`), and where it is
in it (`Doing`):
- under way (`Underway`), it has walked past as many records as it no longer has to
  pass or to hand out; the first record buffered is one the walk has stood on since,
  or the one it was before, and of a spent window none before the walk; and what it
  handed out has the numbers from the first one asked for on.
- spent or returned, the window by record and the answer are an outcome of that read.

Between calls the window is `Over` the span the frame noted has: `Counted` from its
start on, up to its end, and spent only where no record is held. For that a read
must not be refused in the middle of a record, which `NothingIsCut` has from
`FramesAssumption`. A fragment is left over just when `Lookup` has one
(`WhatIsLeft`), and numbers are counts of ends (`NumbersOfRecords`). The steps that
end a call are `HandedAll`, `RanOutPassing` and `RanOutHanding`. `SpanInv` was
checked as an invariant of the `Window` run's instance before it was proved.

`FrameReadsProofs`, for every file, every way to open a reader and every index and
count: `NoRecordCrossesAFrame` and `WalkedIsEven`. The first is `Guarded` for
readers that keep the guard; for the verifying ones that drop it, that a lookup
reads one frame, and that a run of records is refused unless each frame end in it is
also a record's (`RunIsWhole`).
The second takes, of a verifying read in progress (`SpanInv`): that the watch is
over the frames behind the place the read was pointed at, in order and up to the
end of its span (`Watches`: where grouped and physical frames have to agree); that
what the watcher has counted and how many frame ends it was told of are those up to
where the walk is (`Progress`); that each frame it was told of was even
(`JudgedEven`); and that it was told of every frame end up to that of the last
record handed out (`Handed`). The lemmas on `GroupSize` and `Groups` are the
arithmetic of `open_from_frame`, and those on `First`, `Last` and `PastEnd` of
`records_request`. `OpenOK` says what opening leaves; the assumptions are those on
files (`InputsAssumption`): frames do not end before they begin, records end in
the file.

Also there: `IntactIsRead`, the promise of reading. That a call has answered the
right records is not inductive, as an answer grows record by record out of where the
window is. `IntactInv` says, of a file that keeps the invariant and of a reader of it:
- where the frames are (`Spaced`): each but the last holds as many records as a
  slot, and it begins behind the end of a record or at the first byte. By `Laid`, a
  reader's frames are groups of those of the file, which is what `Opened` leaves;
  by induction over the frames (`FramesHoldAll`) so many records lie between two.
- that the window has counted what it walked (`Counted`), so that a lookup may go on
  from there instead of being placed anew.
- of a call in progress (`Reading`) that the records passed and those handed out are
  those up to where the walk is, beginning with the one asked for; that its span
  reaches far enough; and that the rest behind the last end is included just when a
  separator makes it a record (`Underway`). Of one that ran out, that its answer is
  `Right`, and, where it has handed out fewer than asked for, that the frame it ran
  out in is not seen as uneven (`RanOut`).
- of an answered call, that it is `Right`; and that a window whose note stands is
  behind the end of a record, or behind a final record without one that a lookup has
  just handed out (`BehindTail`), so that a walk may go on from it.

That nothing is refused on the way is the other half: the frames a watcher has not
been told of are ahead of the walk (`Ahead`), each of them is even once it is passed,
and `Counted` makes of what the watcher has counted what the frame holds.
`IntactInv` was checked as an invariant of the `FrameReads` run's instance before it
was proved; it is proved beside `FrameInv`, which it needs.

`CompressProofs`, for every input, every size and multiplier, counts given or
not, and reads of any sizes: `TypeOK`, `NothingLost`, `UniformOutput`,
`DrainIsIdle`, `FrameTarget` and `InspectIsTrue`. `UniformOutput` speaks of a
finished compression; while one runs,
`CutByCount` says that each frame so far ends at the record its number says and
that the records found since are counted and too few for a frame, `FoundAll` that
no end is left unfound when the source is spent, `CutBySize` that by size a frame
not yet cut is too small. For `FrameTarget` it is also needed that no record end
found since the last cut has reached the size (`SizeInv`), so that the one cut at is
the first. `InspectIsTrue` follows from `UniformOutput` and from what fast mode
takes the inner frames to hold. `DrainNeverReached` settles what
tests/compress_equivalence.rs says of the drain at the end of the read loop, that
it is "not reached by anything here": no input reaches it. The assumptions are
that record ends grow and that an input is shorter than half a usize.

`NushellProofs`, for any paths, finders, sources, numbers of handles and of ids,
and whatever is written meanwhile: `TypeOK`, `CountsAreTheReaders`,
`AnswerIsItsOwn`, `TotalIsOfAllFiles` and `SavedIsThere`. That an answer is the
handle's own needs more than that `refers_to` was asked: `Names` (a whole file
under a name was written under it, and a save's file is under no other name),
`Numbered` (contents are numbered as written, so that a file that changed since it
was opened is seen to have), and of each entry `EntryInv` (its readers are of its
paths in their order, and each count adds its file to those before). `TypeOK` has
the point of the lock: while a call is in progress its handle's entry is in the
table and stays its own. `IInv` is the conjunction with what is said of the last
answer. An index below the total is not found only in a file that does not reach it,
or whose record without an end was handed out before (`Unreached`): the file an index
goes to begins at or before it and ends behind it (`FileOfIndex`), and what a read
leaves of an entry changes `handed` and nothing else (`MovedIsGood`).
`SavedIsThere` adds that what a save has created is known
(`OutIsThere`). The assumptions are on the constants: ids come from process ids,
sources are not empty.

Only model-checked: `LockReleased`, `BackReturns`, `CallsReturn` and `RetryEnds`
(fairness is out of the prover's reach); `AnswerIsTheRecord` and `LengthIsKept`,
whose finders are recursive. `TypeOK` of `FileUpdate`, `Edit`, `Compress`,
`Reader` and `RecordWindow` is proved and not run on its own.

## What is not modelled

In `edit.rs`: the content checksum a rewritten frame carries over, the refusal of
data that looks compressed, separators that overlap themselves at the join, the
refusal of a finder together with a separator to insert, a frame partly written
(it is as good as none: there is no table), and in-place writers that take no
lock and run at once, which the documentation forbids. In `reader.rs`: iterators
from the back and `fold_records` of verifying readers. In the library the
deprecated `old_` compressor. Of the plugin: how values are encoded and decoded,
the spool of records of a save, `inspect`, and the iteration of a handle by
`each`, which asks for one index after the other. Parsing of arguments but for the
finder, formatting, compression itself, and the external crates, of which only
what their callers rely on is in the models. Benchmarks, examples and tests hold
no logic of the program.

## Plan

Written in this order: `AtomicFile` and `FileUpdate`; `Records`, `RecordLog` and
`Edit`; `Lookup`, `Reader` and `RecordQueue`; `Compress`; the proofs of these;
`RecordWindow`, `RecordSpan`, `WindowCalls` and `FrameReads`; `Store`, `Handles`,
`Save` and `Nushell` with their proofs; `Finders`.

Worth proving next: that `Reader` on the window by byte gives what it gives on
`Lookup`, by composing `WindowIsByRecord` with `ReaderProofs`; today the two meet in
`Lookup`, which both modules use.
