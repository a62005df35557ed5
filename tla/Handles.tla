-------------------------------- MODULE Handles --------------------------------
\* The nushell plugin's table of open files (nu_plugin_zstdsep/src/lib.rs). The
\* engine holds handles, which outlive the plugin process; the process holds
\* readers by the id in a handle, and is ended when it has been idle. Its ids
\* start from its process id, so a handle may meet an entry that is not its own.
\* A call runs under the table's lock; files may be written between its steps.
EXTENDS Store

CONSTANTS
  Pids,          \* process ids, which the system hands out again
  PerProcess,    \* bound: ids one process gives out (2^32 in the code)
  Sources,       \* the lists of files opened as one, each with its finder
  MaxHandles,    \* bound: handles the engine holds at a time
  MaxIndex       \* bound: the largest index asked for

ASSUME HandlesAssumption ==
  /\ Pids \subseteq Nat /\ PerProcess \in Nat \ {0}
  /\ Sources \subseteq [paths : Seq(Paths) \ {<<>>}, finder : Finders]
  /\ MaxHandles \in Nat /\ MaxIndex \in Nat

VARIABLES
  nextId,     \* State.next_id
  readers,    \* State.readers: the entry of each id, as far as there is one
  handles,    \* the handles the engine holds
  call,       \* the cell path being followed, or the summary being made
  answer      \* what the last call answered

tableVars == <<nextId, readers, handles, call, answer>>

Ids == {pid * PerProcess + k : pid \in Pids, k \in 0..PerProcess - 1}
Handle == {[id |-> id, paths |-> s.paths, finder |-> s.finder] : id \in Ids, s \in Sources}

NoCall == [at |-> "idle"]
Calling(at, h, index) == [at |-> at, handle |-> h, index |-> index]
NoAnswer == [kind |-> "none"]
Answer(kind, got) == [kind |-> kind, handle |-> call.handle, index |-> call.index, got |-> got]
\* An error, also the one that names the largest index there is.
Nothing == [kind |-> "nothing"]

-------------------------------------------------------------------------------
\* The table.

\* handed is history: the readers whose window stands behind a last record
\* without an end, handed out by record with nothing read since.
OpenFor(h) ==
  [readers |-> [i \in DOMAIN h.paths |-> OpenFile(h.paths[i])],
   paths |-> h.paths, finder |-> h.finder, counted |-> <<>>, handed |-> {}]
CanOpen(h) == \A i \in DOMAIN h.paths : Opens(h.paths[i], h.finder)

\* A mistake: the finder is left out, as the format is.
RefersToPaths(h, entry) == h.paths = entry.paths
RefersTo(h, entry) == h.paths = entry.paths /\ h.finder = entry.finder

Has(h) == h.id \in DOMAIN readers /\ RefersTo(h, readers[h.id])
Entered(id, entry) ==
  [i \in DOMAIN readers \cup {id} |-> IF i = id THEN entry ELSE readers[i]]

\* with_files: the entry of the handle, opened again where there is none or it is
\* another's.
WithFiles(h) == IF Has(h) THEN readers ELSE Entered(h.id, OpenFor(h))

\* A mistake: the state is used without its lock.
NoLock == TRUE
\* The Mutex around the state: one call at a time has it.
LockIsFree == call.at \in {"idle", "missed"}

-------------------------------------------------------------------------------
\* The engine's requests.

\* `zstdsep open`: every file is opened, then the handle registered.
Open(s) ==
  LET h == [id |-> nextId, paths |-> s.paths, finder |-> s.finder] IN
  /\ LockIsFree /\ CanOpen(h)
  /\ h.id \in Ids
  /\ handles' = handles \cup {h}
  /\ readers' = Entered(h.id, OpenFor(h))
  /\ nextId' = nextId + 1
  /\ answer' = NoAnswer
  /\ UNCHANGED call

\* `$h.i`, or a summary with its count of records: the entry, opened if need be.
Ask(at, h, index) ==
  /\ call.at = "idle"
  /\ IF Has(h) \/ CanOpen(h)
     THEN /\ readers' = WithFiles(h)
          /\ call' = Calling(at, h, index)
          /\ answer' = NoAnswer
     ELSE answer' = Nothing /\ UNCHANGED <<readers, call>>
  /\ UNCHANGED <<nextId, handles>>

Follow(h, index) == Ask("finding", h, index)
Summarise(h) == Ask("counting", h, 0)

Entry == readers[call.handle.id]
Files == Entry.readers
Before(entry, i) == IF i = 1 THEN 0 ELSE entry.counted[i - 1]

\* A mistake: an index that is the count of a file is looked for in that file.
FileOfAtMost ==
  LET past == {i \in DOMAIN Entry.counted : i < Len(Files) /\ call.index <= Entry.counted[i]}
  IN IF past = {} THEN Len(Files) ELSE CHOOSE i \in past : \A j \in past : i <= j

\* The file an index falls in: the first that is counted past it, or else the
\* last, which is not counted for a record.
FileOf ==
  LET past == {i \in DOMAIN Entry.counted : i < Len(Files) /\ call.index < Entry.counted[i]}
  IN IF past = {} THEN Len(Files) ELSE CHOOSE i \in past : \A j \in past : i <= j

\* Whether a file has to be counted first. A record needs those before the one
\* its index falls in, a count needs all.
MustCount ==
  \/ call.at = "finding" /\ FileOf = Len(Files) /\ Len(Entry.counted) < Len(Files) - 1
  \/ call.at \in {"counting", "bounding"} /\ Len(Entry.counted) < Len(Files)

Ends(a) == answer' = a /\ call' = NoCall

\* What a read leaves of the entry: the i-th reader's window where it was or
\* pointed anew, or behind the record without an end.
Moved(i) == [Entry EXCEPT !.handed = @ \ {i}]
Handing(i) == [Entry EXCEPT !.handed = @ \cup {i}]
Leaves(entry) == readers' = Entered(call.handle.id, entry)
Disturbs(i) == Leaves(Entry) \/ Leaves(Moved(i))

\* One turn of counted_upto. A file written to since it was opened may be counted
\* as what it was or as what it is, if it can be counted at all.
NextFile == Files[Len(Entry.counted) + 1]
\* A mistake: what the files before hold is left out.
CountedAlone(c) == [Moved(Len(Entry.counted) + 1) EXCEPT !.counted = Append(@, c)]
Counted(c) ==
  LET next == Len(Entry.counted) + 1
  IN [Moved(next) EXCEPT !.counted = Append(@, Before(Entry, next) + c)]
CountFile ==
  /\ MustCount
  /\ \E file \in {NextFile.was, content[NextFile.inode]} \ {Torn} :
       Leaves(Counted(Count(file, Entry.finder)))
  /\ answer' = NoAnswer
  /\ UNCHANGED <<nextId, handles, call>>

\* No count can be made: the read fails, the file was written to, or what follows
\* the last end is no record.
CountFails ==
  /\ MustCount
  /\ Disturbs(Len(Entry.counted) + 1)
  /\ Ends(Nothing)
  /\ UNCHANGED <<nextId, handles>>

\* RecordReader::record of the file found, which is read as what it was or as what
\* it is now. A record without an end is not found again where the window stands
\* behind it. Asked for with `?`, a record that is not there is nothing; else the
\* lock is released and taken again to say how many there are.
Number(i) == call.index - Before(Entry, i)
Finds(i, f) ==
  /\ Number(i) \in Reached(f, Entry.finder)
  /\ ~(i \in Entry.handed /\ IsTail(f, Entry.finder, Number(i)))
Found ==
  LET i == FileOf IN
  /\ call.at = "finding" /\ ~MustCount
  /\ \E f \in {Files[i].was, content[Files[i].inode]} \ {Torn} :
       \/ /\ Finds(i, f)
          /\ Ends(Answer("record", [of |-> f, by |-> Entry.finder, number |-> Number(i)]))
          /\ Leaves(IF IsTail(f, Entry.finder, Number(i)) THEN Handing(i) ELSE Moved(i))
       \/ /\ ~Finds(i, f)
          /\ answer' = Answer("absent", None)
          /\ call' = NoCall \/ call' = [call EXCEPT !.at = "missed"]
          /\ IF i \in Entry.handed /\ IsTail(f, Entry.finder, Number(i))
             THEN Leaves(Entry)
             ELSE Disturbs(i)
  /\ UNCHANGED <<nextId, handles>>
\* The read fails, or refuses a frame, as it does one with too many records.
FindFails ==
  /\ call.at = "finding" /\ ~MustCount
  /\ Disturbs(FileOf)
  /\ Ends(Nothing)
  /\ UNCHANGED <<nextId, handles>>

Missed ==
  LET h == call.handle IN
  /\ call.at = "missed"
  /\ IF Has(h) \/ CanOpen(h)
     THEN /\ readers' = WithFiles(h)
          /\ call' = [call EXCEPT !.at = "bounding"]
          /\ answer' = NoAnswer
     ELSE Ends(Nothing) /\ UNCHANGED readers
  /\ UNCHANGED <<nextId, handles>>

GiveTotal ==
  /\ call.at \in {"counting", "bounding"} /\ ~MustCount
  /\ IF call.at = "counting" THEN Ends(Answer("total", Entry.counted[Len(Files)])) ELSE Ends(Nothing)
  /\ UNCHANGED <<nextId, handles, readers>>

\* custom_value_dropped: the entry of the id goes, whosever it is.
Drop(h) ==
  /\ LockIsFree /\ (call.at = "missed" => call.handle # h)
  /\ handles' = handles \ {h}
  /\ readers' = [i \in DOMAIN readers \ {h.id} |-> readers[i]]
  /\ answer' = NoAnswer
  /\ UNCHANGED <<nextId, call>>

\* The process ends, idle or killed, and another is started on demand.
EndProcess(pid) ==
  /\ nextId' = pid * PerProcess
  /\ readers' = <<>>
  /\ call' = NoCall
  /\ answer' = NoAnswer
  /\ UNCHANGED handles

TableInit ==
  /\ nextId \in {pid * PerProcess : pid \in Pids}
  /\ readers = <<>> /\ handles = {}
  /\ call = NoCall /\ answer = NoAnswer

TableNext ==
  \/ \E s \in Sources : Cardinality(handles) < MaxHandles /\ Open(s)
  \/ \E h \in handles :
       \/ \E index \in 0..MaxIndex : Follow(h, index)
       \/ Summarise(h)
       \/ Drop(h)
  \/ CountFile \/ CountFails \/ Found \/ FindFails \/ Missed \/ GiveTotal

-------------------------------------------------------------------------------
\* Properties.

OpenedFile == [inode : Inodes, was : Content]
EntryOK(entry) ==
  /\ entry \in [readers : Seq(OpenedFile), paths : Seq(Paths), finder : Finders,
                counted : Seq(Nat), handed : SUBSET Nat]
  /\ [paths |-> entry.paths, finder |-> entry.finder] \in Sources
  /\ Len(entry.readers) = Len(entry.paths) /\ Len(entry.counted) <= Len(entry.paths)

\* The values of the table, of what the engine holds, and of a call; a call in
\* progress has its handle's own files in the table.
TableOK ==
  /\ nextId \in Nat
  /\ handles \subseteq Handle
  /\ DOMAIN readers \subseteq Ids /\ \A i \in DOMAIN readers : EntryOK(readers[i])
  /\ call.at \in {"idle", "finding", "counting", "missed", "bounding"}
  /\ call.at # "idle" => call.handle \in Handle /\ call.index \in 0..MaxIndex
  /\ call.at \in {"finding", "counting", "bounding"} => Has(call.handle)

Intact(entry) == \A i \in DOMAIN entry.readers : Untouched(entry.readers[i])
CountsOf(entry) ==
  Intact(entry) =>
    \A i \in DOMAIN entry.counted :
      entry.counted[i] = Before(entry, i) + Count(entry.readers[i].was, entry.finder)

\* The counts of an entry are of the files in it, each with those before it: an
\* index goes to the file it falls in, however long ago the counts were made.
CountsAreTheReaders == \A id \in DOMAIN readers : CountsOf(readers[id])

\* A record that is handed out is one of the handle's own files, read by its own
\* finder, at the place its index has in all of them: in whichever process, after
\* whatever handles and entries had the same id.
AnswerIsItsOwn ==
  answer.kind = "record" =>
    LET h == answer.handle
        entry == readers[h.id]
    IN Intact(entry) =>
         \E i \in DOMAIN h.paths :
           /\ answer.got.of.path = h.paths[i] /\ answer.got.by = h.finder
           /\ answer.index = Before(entry, i) + answer.got.number
           /\ answer.got.number \in Reached(answer.got.of, h.finder)

\* An index that is not found though all the files hold more records together: the
\* file it falls in has none at that number, which takes a frame with more records
\* than frame 0 (docs/bugs.md:15), or has one without an end that was handed out by
\* the lookup before (record.rs:266).
Unreached(entry, index) ==
  \E i \in DOMAIN entry.readers :
    LET was == entry.readers[i].was
        number == index - Before(entry, i)
    IN /\ number \in 0..Count(was, entry.finder) - 1
       /\ \/ number \notin Reached(was, entry.finder)
          \/ i \in entry.handed /\ IsTail(was, entry.finder, number)

\* A number of records that is answered is that of all the handle's files, and an
\* index that is not found is behind all of them or not reached in its own file.
TotalIsOfAllFiles ==
  answer.kind \in {"total", "absent"} =>
    LET h == answer.handle
        entry == readers[h.id]
        last == Len(h.paths)
        total == Before(entry, last) + Count(entry.readers[last].was, h.finder)
    IN Intact(entry) =>
         /\ answer.kind = "total" => answer.got = total
         /\ answer.kind = "absent" => answer.index >= total \/ Unreached(entry, answer.index)
================================================================================
