----------------------------- MODULE NushellProofs -----------------------------
\* For any paths, finders, sources, process ids and bounds, and whatever is written
\* to the files meanwhile: a handle's answers are of its own files.
EXTENDS Nushell, FiniteSetTheorems, WellFoundedInduction, TLAPS

USE DEF Content, Torn

LEMMA InitInv == Init => IInv
<1> SUFFICES ASSUME Init PROVE IInv
  OBVIOUS
<1>1. made \in Nat
  BY StoreAssumption, FS_CardinalityType DEF Init
<1>2. \A p \in Paths : content[dir[p]].n \in 1..made /\ dir[p] \in Inodes
  BY DEF Init
<1>3. TypeOK
  <2>1. TableOK
    BY HandlesAssumption DEF Init, TableInit, TableOK, NoCall
  <2>2. SaveOK
    BY DEF Init, SaveInit, NotSaving, SaveOK, Saving
  <2> QED
    BY <1>1, <2>1, <2>2 DEF Init, TypeOK
<1>4. Names
  BY DEF Names, Init, SaveInit, NotSaving, Saving
<1>5. Numbered
  <2> SUFFICES ASSUME NEW i \in Inodes PROVE content[i].n <= made
    BY DEF Numbered
  <2>1. CASE Named(i)
    BY <2>1, <1>1, <1>2 DEF Named
  <2>2. CASE ~Named(i)
    BY <2>2, <1>1 DEF Init
  <2> QED
    BY <2>1, <2>2
<1>6. AnswerIsItsOwn /\ TotalIsOfAllFiles
  BY DEF Init, TableInit, AnswerIsItsOwn, TotalIsOfAllFiles, NoAnswer
<1> QED
  BY <1>3, <1>4, <1>5, <1>6 DEF IInv, Init, TableInit

-------------------------------------------------------------------------------
\* Files.

FilesOK ==
  /\ dir \in [Paths -> Inodes \cup {None}]
  /\ content \in [Inodes -> Content \cup {Torn}]
  /\ made \in Nat /\ SaveOK /\ Names

\* What a step does to what the inodes hold: it empties one, or writes one anew.
Changes ==
  \/ made' = made /\ \A i \in Inodes : content'[i] \in {content[i], Torn}
  \/ /\ made' = made + 1
     /\ \A i \in Inodes : content'[i] = content[i] \/ content'[i].n = made + 1
FilesStep == FilesOK' /\ Changes

LEMMA MadeIsContent == ASSUME NEW p \in Paths, CanMake PROVE Made(p) \in Content
  BY DEF CanMake, Made

LEMMA SaveStep ==
  ASSUME FilesOK, SaveNext(OpenInodes), TypeOK
  PROVE FilesStep
<1> USE DEF FilesOK, FilesStep, Changes
<1>0. \A i \in Inodes : Free(i, OpenInodes) => \A p \in Paths : dir[p] # i
  BY DEF Free, Named
<1>1. ASSUME NEW path \in SavePaths, NEW mode \in {"new", "force", "append"},
             CheckDestination(path, mode)
      PROVE FilesStep
  BY <1>1, SaveAssumption DEF CheckDestination, SaveOK, Names, Saving
<1>2. CASE CreateOut(OpenInodes)
  <2>1. PICK i \in Inodes :
          /\ IF dir[save.path] = None THEN Free(i, OpenInodes) ELSE i = dir[save.path]
          /\ dir' = [dir EXCEPT ![save.path] = i]
          /\ content' = [content EXCEPT ![i] = Torn]
          /\ save' = [save EXCEPT !.at = "created", !.out = i]
    BY <1>2 DEF CreateOut
  <2>2. save.path \in Paths /\ save'.path = save.path /\ save'.out = i /\ save'.at = "created"
    BY <1>2, <2>1 DEF CreateOut, SaveOK, Saving
  <2>3. SaveOK'
    BY <2>2, StoreAssumption DEF SaveOK, Saving
  <2>4. Names'
    BY <1>0, <2>1, <2>2 DEF Names, Saving
  <2> QED
    BY <1>2, <2>1, <2>2, <2>3, <2>4 DEF CreateOut
<1>3. CASE ConvertInto
  BY <1>3, MadeIsContent DEF ConvertInto, SaveOK, Names, Saving, Over, NotSaving, Made
<1>4. CASE Stage
  BY <1>4 DEF Stage, SaveOK, Names, Saving, At
<1>5. CASE RemoveOld
  BY <1>5 DEF RemoveOld, SaveOK, Names, Saving, At
<1>6. CASE Clone(OpenInodes)
  <2>1. PICK i \in Inodes :
          /\ IF dir[save.path] = None THEN Free(i, OpenInodes) ELSE i = dir[save.path]
          /\ dir' = [dir EXCEPT ![save.path] = i]
          /\ content' = [content EXCEPT ![i] = Made(save.path)]
    BY <1>6 DEF Clone
  <2>2. save.path \in Paths /\ save'.at = "idle" /\ CanMake /\ made' = made + 1
    BY <1>6 DEF Clone, SaveOK, Saving, Over, NotSaving
  <2>3. Names'
    BY <1>0, <2>1, <2>2 DEF Names, Saving, Made
  <2> QED
    BY <2>1, <2>2, <2>3, MadeIsContent DEF SaveOK, Saving, Made
<1>7. CASE CloneRefused(OpenInodes)
  <2>1. save.path \in Paths /\ save'.path = save.path /\ save'.out = save.out
          /\ save'.at = "refused" /\ made' = made /\ save.out \in Inodes
    BY <1>7 DEF CloneRefused, SaveOK, Saving, At
  <2>2. SaveOK'
    BY <2>1, StoreAssumption DEF SaveOK, Saving
  <2>3. CASE UNCHANGED <<dir, content>>
    BY <1>7, <2>1, <2>2, <2>3 DEF Names, Saving, CloneRefused
  <2>4. ASSUME NEW i \in Inodes,
               IF dir[save.path] = None THEN Free(i, OpenInodes) ELSE i = dir[save.path],
               dir' = [dir EXCEPT ![save.path] = i],
               content' = [content EXCEPT ![i] = Torn]
        PROVE FilesStep
    <3>1. Names'
      BY <1>0, <1>7, <2>1, <2>4 DEF Names, Saving, CloneRefused
    <3> QED
      BY <2>1, <2>2, <2>4, <3>1
  <2> QED
    BY <1>7, <2>3, <2>4 DEF CloneRefused
<1>8. CASE CopyOut
  BY <1>8, MadeIsContent DEF CopyOut, SaveOK, Names, Saving, Over, NotSaving, Made
<1>9. CASE OpenToAppend
  BY <1>9, StoreAssumption DEF OpenToAppend, SaveOK, Names, Saving
<1>10. CASE CutToAppend
  BY <1>10 DEF CutToAppend, SaveOK, Names, Saving, At
<1>11. CASE WriteAppended
  BY <1>11, MadeIsContent DEF WriteAppended, SaveOK, Names, Saving, Over, NotSaving, Made
<1>12. CASE SaveFails
  BY <1>12 DEF SaveFails, SaveOK, Names, Saving, Over, NotSaving
<1> QED
  BY <1>1, <1>2, <1>3, <1>4, <1>5, <1>6, <1>7, <1>8, <1>9, <1>10, <1>11, <1>12 DEF SaveNext

LEMMA ElsewhereStep ==
  ASSUME FilesOK, NEW path \in Paths, Replace(path) \/ Remove(path), UNCHANGED save
  PROVE FilesStep
<1> USE DEF FilesOK, FilesStep, Changes
<1>1. CASE Remove(path)
  BY <1>1 DEF Remove, SaveOK, Saving, Names
<1>2. CASE Replace(path)
  <2>1. PICK i \in Inodes :
          /\ Free(i, OpenInodes)
          /\ dir' = [dir EXCEPT ![path] = i]
          /\ content' = [content EXCEPT ![i] = Made(path)]
    BY <1>2 DEF Replace
  <2>2. Saving /\ save.out # None => i # save.out
    BY <2>1 DEF Free, OpenInodes
  <2>3. Names'
    BY <2>1, <2>2 DEF Names, Saving, Free, Named, Made
  <2> QED
    BY <1>2, <2>1, <2>3, MadeIsContent DEF Replace, SaveOK, Saving, Made
<1> QED
  BY <1>1, <1>2

-------------------------------------------------------------------------------
\* Entries.

\* A file that is as it was opened was not written in between.
LEMMA StaysChanged ==
  ASSUME FilesOK, FilesStep, Numbered,
         NEW file \in OpenedFile, file.was.n <= made, Untouched(file)'
  PROVE Untouched(file)
  BY StoreAssumption DEF FilesOK, FilesStep, Changes, Numbered, OpenedFile, Untouched

LEMMA StaysNumbered ==
  ASSUME FilesOK, FilesStep, Numbered
  PROVE Numbered'
<1>1. \A i \in Inodes : content[i].n \in Nat /\ content'[i].n \in Nat
  BY StoreAssumption DEF FilesOK, FilesStep
<1> QED
  BY <1>1 DEF FilesOK, FilesStep, Changes, Numbered

\* An entry that is in the table stays good whatever is written to the files.
LEMMA EntryStays ==
  ASSUME FilesOK, FilesStep, Numbered, NEW entry, EntryInv(entry)
  PROVE EntryInv(entry)'
<1>1. \A i \in DOMAIN entry.readers : entry.readers[i] \in OpenedFile
  BY DEF EntryInv, EntryOK
<1>2. \A i \in DOMAIN entry.readers : entry.readers[i].was.n \in Nat
  BY <1>1, StoreAssumption DEF OpenedFile
<1>3. \A i \in DOMAIN entry.readers :
        entry.readers[i].was.n <= made' /\ entry.readers[i].was.path = entry.paths[i]
  BY <1>2 DEF EntryInv, FilesOK, FilesStep, Changes
<1>4. Intact(entry)' => Intact(entry)
  BY <1>1, StaysChanged DEF Intact, EntryInv
<1>5. CountsOf(entry)'
  BY <1>4 DEF CountsOf, EntryInv, Before, Count
<1> QED
  BY <1>3, <1>5 DEF EntryInv, EntryOK

\* Files opened for a handle are its files, and are not counted yet.
LEMMA OpenedIsGood ==
  ASSUME FilesOK, Numbered, NEW h \in Handle, CanOpen(h)
  PROVE /\ EntryInv(OpenFor(h))
        /\ RefersTo(h, OpenFor(h))
<1>1. /\ h.paths \in Seq(Paths) \ {<<>>} /\ h.finder \in Finders
      /\ [paths |-> h.paths, finder |-> h.finder] \in Sources
  BY HandlesAssumption DEF Handle
<1>2. \A i \in DOMAIN h.paths : h.paths[i] \in Paths
  BY <1>1
<1>3. \A i \in DOMAIN h.paths :
        /\ dir[h.paths[i]] \in Inodes /\ content[dir[h.paths[i]]] \in Content
        /\ content[dir[h.paths[i]]].path = h.paths[i]
        /\ content[dir[h.paths[i]]].n <= made
  BY <1>2 DEF CanOpen, Opens, FilesOK, Names, Numbered
<1>4. \A i \in DOMAIN h.paths : OpenFile(h.paths[i]) \in OpenedFile
  BY <1>3 DEF OpenFile, OpenedFile
<1>5. OpenFor(h).readers \in Seq(OpenedFile) /\ Len(OpenFor(h).readers) = Len(h.paths)
  BY <1>1, <1>4 DEF OpenFor
<1>6. OpenFor(h).counted \in Seq(Nat) /\ Len(OpenFor(h).counted) = 0 /\ Len(h.paths) \in Nat
  BY <1>1 DEF OpenFor
<1>7. EntryOK(OpenFor(h))
  <2>1. OpenFor(h) \in [readers : Seq(OpenedFile), paths : Seq(Paths), finder : Finders,
                        counted : Seq(Nat), handed : SUBSET Nat]
    BY <1>1, <1>5, <1>6 DEF OpenFor
  <2> QED
    BY <2>1, <1>1, <1>5, <1>6 DEF EntryOK, OpenFor
<1>8. CountsOf(OpenFor(h))
  BY DEF CountsOf, OpenFor
<1>9. \A i \in DOMAIN OpenFor(h).readers :
        OpenFor(h).readers[i].was.n <= made /\ OpenFor(h).readers[i].was.path = h.paths[i]
  BY <1>3 DEF OpenFor, OpenFile
<1> QED
  BY <1>7, <1>8, <1>9 DEF EntryInv, RefersTo, OpenFor

TableGood == \A id \in DOMAIN readers : EntryInv(readers[id])

\* A handle's files, opened, become the entry of its id.
LEMMA EnteredIsGood ==
  ASSUME FilesOK, Numbered, TableGood, NEW h \in Handle, CanOpen(h),
         DOMAIN readers \subseteq Ids,
         UNCHANGED <<fileVars, save>>, readers' = Entered(h.id, OpenFor(h))
  PROVE TableGood' /\ Has(h)' /\ DOMAIN readers' \subseteq Ids
<1>1. EntryInv(OpenFor(h)) /\ RefersTo(h, OpenFor(h))
  BY OpenedIsGood
<1>2. h.id \in Ids
  BY DEF Handle
<1>3. \A id \in DOMAIN readers' : EntryInv(readers'[id])
  BY <1>1, <1>2 DEF Entered, TableGood
<1>4. TableGood'
  BY <1>3 DEF TableGood, EntryInv, EntryOK, CountsOf, Intact, Untouched, fileVars
<1> QED
  BY <1>1, <1>2, <1>4 DEF Entered, Has

\* with_files leaves the handle's own files under its id.
LEMMA WithFilesIsGood ==
  ASSUME FilesOK, Numbered, TableGood, NEW h \in Handle, Has(h) \/ CanOpen(h),
         DOMAIN readers \subseteq Ids,
         UNCHANGED <<fileVars, save>>, readers' = WithFiles(h)
  PROVE TableGood' /\ Has(h)' /\ DOMAIN readers' \subseteq Ids
<1>1. CASE Has(h)
  BY <1>1 DEF WithFiles, TableGood, Has, EntryInv, EntryOK, CountsOf, Intact, Untouched,
              fileVars
<1>2. CASE ~Has(h)
  BY <1>2, EnteredIsGood DEF WithFiles
<1> QED
  BY <1>1, <1>2

\* A call in progress has an entry of its own, whose files are its paths'.
LEMMA CallEntry ==
  ASSUME TypeOK, TableGood, call.at \in {"finding", "counting", "bounding"}
  PROVE /\ call.handle.id \in DOMAIN readers /\ EntryInv(Entry) /\ RefersTo(call.handle, Entry)
        /\ call.handle \in Handle /\ call.index \in Nat
        /\ Files \in Seq(OpenedFile) /\ Len(Files) = Len(call.handle.paths) /\ Len(Files) >= 1
        /\ Entry.counted \in Seq(Nat) /\ Entry.finder = call.handle.finder
<1>1. call.handle \in Handle /\ call.index \in Nat /\ Has(call.handle)
  BY HandlesAssumption DEF TypeOK, TableOK
<1>2. call.handle.id \in DOMAIN readers /\ EntryInv(Entry) /\ RefersTo(call.handle, Entry)
  BY <1>1 DEF Has, TableGood, Entry
<1>3. Entry.paths \in Seq(Paths) \ {<<>>} /\ Entry.paths = call.handle.paths
  BY <1>1, <1>2, HandlesAssumption DEF EntryInv, EntryOK, RefersTo
<1> QED
  BY <1>1, <1>2, <1>3 DEF EntryInv, EntryOK, RefersTo, Files

\* An entry that differs in what its readers handed out is as good.
LEMMA MovedIsGood ==
  ASSUME NEW entry, EntryInv(entry), NEW handed \in SUBSET Nat
  PROVE  /\ EntryInv([entry EXCEPT !.handed = handed])
         /\ [entry EXCEPT !.handed = handed].paths = entry.paths
         /\ [entry EXCEPT !.handed = handed].finder = entry.finder
         /\ [entry EXCEPT !.handed = handed].readers = entry.readers
         /\ [entry EXCEPT !.handed = handed].counted = entry.counted
         /\ [entry EXCEPT !.handed = handed].handed = handed
<1> DEFINE new == [entry EXCEPT !.handed = handed]
<1>1. entry \in [readers : Seq(OpenedFile), paths : Seq(Paths), finder : Finders,
                counted : Seq(Nat), handed : SUBSET Nat]
  BY DEF EntryInv, EntryOK
<1>2. /\ new \in [readers : Seq(OpenedFile), paths : Seq(Paths), finder : Finders,
                  counted : Seq(Nat), handed : SUBSET Nat]
      /\ new.readers = entry.readers /\ new.paths = entry.paths /\ new.finder = entry.finder
      /\ new.counted = entry.counted /\ new.handed = handed
  BY <1>1
<1> HIDE DEF new
<1>3. EntryOK(new)
  BY <1>2 DEF EntryInv, EntryOK
<1>4. CountsOf(new)
  BY <1>2 DEF EntryInv, CountsOf, Intact, Before
<1>5. EntryInv(new)
  BY <1>2, <1>3, <1>4 DEF EntryInv
<1> QED
  BY <1>2, <1>5 DEF new

\* A good entry put in the place of a call's own leaves the table good.
LEMMA ReplacedIsGood ==
  ASSUME TableGood, NEW id \in DOMAIN readers, NEW new, EntryInv(new),
         new.paths = readers[id].paths, new.finder = readers[id].finder,
         UNCHANGED <<fileVars, save>>, readers' = Entered(id, new)
  PROVE  TableGood' /\ DOMAIN readers' = DOMAIN readers /\ \A h : Has(h) => Has(h)'
<1>1. readers' = [readers EXCEPT ![id] = new]
  BY DEF Entered
<1>2. \A i \in DOMAIN readers' : EntryInv(readers'[i])
  BY <1>1 DEF TableGood
<1>3. TableGood'
  BY <1>2 DEF TableGood, EntryInv, EntryOK, CountsOf, Intact, Untouched, fileVars
<1>4. \A h : Has(h) => Has(h)'
  BY <1>1 DEF Has, RefersTo
<1> QED
  BY <1>1, <1>3, <1>4

LEMMA CountFileStep ==
  ASSUME IInv, CountFile, UNCHANGED <<fileVars, save>>
  PROVE TableGood' /\ DOMAIN readers' = DOMAIN readers
          /\ \A h : Has(h) => Has(h)'
<1> DEFINE n == Len(Entry.counted)
<1>1. call.at \in {"finding", "counting", "bounding"}
  BY DEF CountFile, MustCount
<1>2. TypeOK /\ TableGood
  BY DEF IInv, TableGood
<1>3. /\ call.handle.id \in DOMAIN readers /\ EntryInv(Entry)
      /\ Files \in Seq(OpenedFile) /\ Len(Files) >= 1
      /\ Entry.counted \in Seq(Nat) /\ Entry.finder \in Finders
  <2>1. Entry.finder \in Finders
    BY <1>1, <1>2, CallEntry DEF EntryInv, EntryOK
  <2> QED
    BY <2>1, <1>1, <1>2, CallEntry
<1>4. n \in Nat /\ n < Len(Files) /\ Len(Files) \in Nat
  BY <1>3 DEF CountFile, MustCount
<1>5. NextFile \in OpenedFile
  BY <1>3, <1>4 DEF NextFile
<1>6. PICK file \in {NextFile.was, content[NextFile.inode]} \ {Torn} :
        readers' = Entered(call.handle.id, Counted(Count(file, Entry.finder)))
  BY DEF CountFile, Leaves
<1>7. file \in Content
  BY <1>5, <1>6, <1>2 DEF OpenedFile, TypeOK
<1>8. Count(file, Entry.finder) \in Nat
  BY <1>3, <1>7, StoreAssumption DEF Count, Reading
<1> DEFINE new == Counted(Count(file, Entry.finder))
           moved == Moved(n + 1)
           upto == Before(Entry, n + 1) + Count(file, Entry.finder)
<1>9. Before(Entry, n + 1) \in Nat /\ upto \in Nat
  BY <1>3, <1>4, <1>8 DEF Before
<1>10. new = [moved EXCEPT !.counted = Append(@, upto)]
  BY DEF Counted
<1>11. /\ new \in [readers : Seq(OpenedFile), paths : Seq(Paths), finder : Finders,
                   counted : Seq(Nat), handed : SUBSET Nat]
       /\ new.readers = Entry.readers /\ new.paths = Entry.paths /\ new.finder = Entry.finder
       /\ new.counted = Append(Entry.counted, upto)
  <2>1. Append(Entry.counted, upto) \in Seq(Nat)
    BY <1>3, <1>9
  <2>2. moved = [Entry EXCEPT !.handed = Entry.handed \ {n + 1}]
    BY DEF Moved
  <2>3. Entry.handed \ {n + 1} \in SUBSET Nat
    BY <1>3 DEF EntryInv, EntryOK
  <2>4. /\ EntryInv(moved) /\ moved.readers = Entry.readers /\ moved.paths = Entry.paths
        /\ moved.finder = Entry.finder /\ moved.counted = Entry.counted
    <3> HIDE DEF moved
    <3> QED
      BY <1>3, <2>2, <2>3, MovedIsGood
  <2>5. moved \in [readers : Seq(OpenedFile), paths : Seq(Paths), finder : Finders,
                  counted : Seq(Nat), handed : SUBSET Nat]
    BY <2>4 DEF EntryInv, EntryOK
  <2> HIDE DEF new, moved
  <2>6. new = [moved EXCEPT !.counted = Append(Entry.counted, upto)]
    BY <1>10, <2>4
  <2> QED
    BY <2>1, <2>4, <2>5, <2>6
<1>12. Len(new.counted) = n + 1 /\ new.counted[n + 1] = upto
         /\ \A i \in 1..n : new.counted[i] = Entry.counted[i]
  BY <1>3, <1>9, <1>11
<1>13. EntryOK(new)
  BY <1>3, <1>4, <1>11, <1>12 DEF EntryInv, EntryOK, Files
<1>14. CountsOf(new)
  <2> SUFFICES ASSUME Intact(new), NEW i \in 1..n + 1
               PROVE new.counted[i] = Before(new, i) + Count(new.readers[i].was, new.finder)
    BY <1>4, <1>12, <1>11, <1>9, <1>3 DEF CountsOf
  <2>1. Intact(Entry)
    BY <1>11 DEF Intact
  <2>2. Before(new, i) = Before(Entry, i)
    BY <1>4, <1>12 DEF Before
  <2>3. CASE i = n + 1
    <3>1. Untouched(NextFile)
      BY <2>1, <1>3, <1>4 DEF Intact, NextFile, Files
    <3>2. file = NextFile.was
      BY <3>1, <1>6 DEF Untouched
    <3> QED
      BY <2>2, <2>3, <3>2, <1>11, <1>12 DEF NextFile, Files
  <2>4. CASE i \in 1..n
    <3>1. Entry.counted[i] = Before(Entry, i) + Count(Entry.readers[i].was, Entry.finder)
      BY <2>1, <2>4, <1>3 DEF EntryInv, CountsOf
    <3> QED
      BY <2>2, <2>4, <3>1, <1>11, <1>12
  <2> QED
    BY <2>3, <2>4, <1>4
<1>15. EntryInv(new)
  BY <1>3, <1>11, <1>13, <1>14 DEF EntryInv
<1>16. Entry = readers[call.handle.id]
  BY DEF Entry
<1> HIDE DEF new
<1>17. readers' = Entered(call.handle.id, new)
  BY <1>6 DEF new
<1> QED
  BY <1>2, <1>3, <1>11, <1>15, <1>16, <1>17, ReplacedIsGood
-------------------------------------------------------------------------------
\* Answers.

\* The file an index goes to begins at or before it and, unless it is the last,
\* ends behind it.
LEMMA FileOfIndex ==
  ASSUME TypeOK, TableGood, call.at = "finding", ~MustCount
  PROVE /\ FileOf \in 1..Len(Files)
        /\ Before(Entry, FileOf) \in Nat /\ Before(Entry, FileOf) <= call.index
        /\ FileOf < Len(Files) =>
             FileOf \in DOMAIN Entry.counted /\ call.index < Entry.counted[FileOf]
<1> DEFINE last == Len(Files)
           past == {i \in DOMAIN Entry.counted : i < last /\ call.index < Entry.counted[i]}
<1>1. /\ Files \in Seq(OpenedFile) /\ last >= 1 /\ Entry.counted \in Seq(Nat)
      /\ call.index \in Nat
  BY CallEntry
<1>2. last \in Nat /\ past \subseteq Nat
  BY <1>1
<1>3. FileOf = IF past = {} THEN last ELSE CHOOSE i \in past : \A j \in past : i <= j
  BY DEF FileOf
<1>4. CASE past = {}
  <2>1. FileOf = last
    BY <1>3, <1>4
  <2>2. Len(Entry.counted) >= last - 1
    BY <1>1, <1>2, <2>1 DEF MustCount
  <2>3. last > 1 => last - 1 \in DOMAIN Entry.counted /\ Entry.counted[last - 1] <= call.index
    BY <1>1, <1>2, <1>4, <2>2
  <2> QED
    BY <1>1, <1>2, <2>1, <2>3 DEF Before
<1>5. CASE past # {}
  <2>1. PICK i \in past : \A k \in past : ~ <<k, i>> \in OpToRel(<, Nat)
    <3> HIDE DEF past
    <3> QED BY <1>2, <1>5, WFMin, NatLessThanWellFounded
  <2>2. \A k \in past : i <= k
    <3> HIDE DEF past
    <3>1. \A k \in past : ~(k < i)
      BY <1>2, <2>1 DEF OpToRel
    <3> QED BY <1>2, <3>1
  <2>3. FileOf \in past /\ \A k \in past : FileOf <= k
    <3> HIDE DEF past
    <3> QED BY <1>3, <1>5, <2>2
  <2>4. FileOf \in DOMAIN Entry.counted /\ FileOf < last /\ call.index < Entry.counted[FileOf]
    BY <2>3
  <2>5. FileOf - 1 \notin past
    BY <1>2, <2>3
  <2>6. FileOf > 1 => FileOf - 1 \in DOMAIN Entry.counted /\ Entry.counted[FileOf - 1] <= call.index
    <3> DEFINE j == FileOf - 1
    <3> SUFFICES ASSUME FileOf > 1
                 PROVE  j \in DOMAIN Entry.counted /\ Entry.counted[j] <= call.index
      OBVIOUS
    <3>1. j \in Nat /\ j < last
      BY <1>2, <2>4
    <3>2. j \in DOMAIN Entry.counted
      BY <1>1, <2>4
    <3>3. Entry.counted[j] \in Nat /\ ~(call.index < Entry.counted[j])
      BY <1>1, <2>5, <3>1, <3>2
    <3> QED
      BY <1>1, <3>2, <3>3
  <2> QED
    BY <1>1, <1>2, <2>4, <2>6 DEF Before
<1> QED
  BY <1>4, <1>5

\* A read leaves the table good, whether it moves the window or not.
LEMMA DisturbsIsGood ==
  ASSUME TypeOK, TableGood, call.at \in {"finding", "counting", "bounding"},
         NEW handed \in SUBSET Nat,
         readers' = Entered(call.handle.id, [Entry EXCEPT !.handed = handed]),
         UNCHANGED <<fileVars, save>>
  PROVE  /\ TableGood' /\ DOMAIN readers' = DOMAIN readers
         /\ readers'[call.handle.id].readers = Entry.readers
         /\ readers'[call.handle.id].counted = Entry.counted
         /\ readers'[call.handle.id].finder = Entry.finder
         /\ readers'[call.handle.id].handed = handed
<1> DEFINE new == [Entry EXCEPT !.handed = handed]
           id == call.handle.id
<1>1. id \in DOMAIN readers /\ EntryInv(Entry) /\ Entry = readers[id]
  BY CallEntry DEF Entry
<1>2. /\ EntryInv(new) /\ new.paths = Entry.paths /\ new.finder = Entry.finder
      /\ new.readers = Entry.readers /\ new.counted = Entry.counted /\ new.handed = handed
  BY <1>1, MovedIsGood
<1>3. readers'[id] = new
  BY <1>1 DEF Entered
<1> HIDE DEF new
<1>4. readers' = Entered(id, new)
  BY DEF new
<1>5. TableGood' /\ DOMAIN readers' = DOMAIN readers
  BY <1>1, <1>2, <1>4, ReplacedIsGood
<1> QED
  BY <1>2, <1>3, <1>5

LEMMA HandedKept ==
  ASSUME TypeOK, TableGood, call.at \in {"finding", "counting", "bounding"},
         NEW i \in Nat
  PROVE  /\ \A entry \in {Entry, Moved(i), Handing(i)} :
              \E handed \in SUBSET Nat : entry = [Entry EXCEPT !.handed = handed]
         /\ Entry = [Entry EXCEPT !.handed = Entry.handed]
         /\ Entry.handed \in SUBSET Nat
<1>1. Entry \in [readers : Seq(OpenedFile), paths : Seq(Paths), finder : Finders,
                counted : Seq(Nat), handed : SUBSET Nat]
  BY CallEntry DEF EntryInv, EntryOK
<1>2. Entry.handed \in SUBSET Nat /\ Entry = [Entry EXCEPT !.handed = Entry.handed]
  BY <1>1
<1>3. Entry.handed \ {i} \in SUBSET Nat /\ Entry.handed \cup {i} \in SUBSET Nat
  BY <1>2
<1> QED
  BY <1>2, <1>3 DEF Moved, Handing

\* What a call finds is the record that its index stands for, or it has none there.
LEMMA FoundStep ==
  ASSUME IInv, Found, UNCHANGED <<fileVars, save>>
  PROVE  /\ TableGood' /\ DOMAIN readers' = DOMAIN readers
         /\ AnswerIsItsOwn' /\ TotalIsOfAllFiles'
<1> DEFINE h == call.handle
           f == FileOf
           file == Files[f]
           number == call.index - Before(Entry, f)
<1>1. call.at = "finding" /\ ~MustCount
  BY DEF Found
<1>2. TypeOK /\ TableGood
  BY DEF IInv, TableGood
<1>3. /\ h.id \in DOMAIN readers /\ EntryInv(Entry) /\ RefersTo(h, Entry)
      /\ Files \in Seq(OpenedFile) /\ Len(Files) = Len(h.paths) /\ Entry.finder = h.finder
      /\ Entry = readers[h.id] /\ Files = Entry.readers /\ Entry.paths = h.paths
  BY <1>1, <1>2, CallEntry DEF Entry, Files, RefersTo
<1>4. /\ f \in 1..Len(Files)
      /\ Before(Entry, f) \in Nat /\ Before(Entry, f) <= call.index /\ call.index \in Nat
      /\ f < Len(Files) => f \in DOMAIN Entry.counted /\ call.index < Entry.counted[f]
  BY <1>1, <1>2, FileOfIndex, CallEntry
<1>5. f \in Nat /\ number = Number(f)
  BY <1>3, <1>4 DEF Number
<1>6. PICK c \in {file.was, content[file.inode]} \ {Torn} :
        \/ /\ Finds(f, c)
           /\ answer' = Answer("record", [of |-> c, by |-> Entry.finder, number |-> number])
           /\ \E entry \in {Moved(f), Handing(f)} : readers' = Entered(h.id, entry)
        \/ /\ ~Finds(f, c)
           /\ answer' = Answer("absent", None)
           /\ IF f \in Entry.handed /\ IsTail(c, Entry.finder, number)
              THEN Leaves(Entry)
              ELSE Disturbs(f)
  BY <1>5 DEF Found, Ends, Leaves, f, Number
<1> HIDE DEF f
<1>7. file \in OpenedFile /\ file.was.path = h.paths[f] /\ f \in DOMAIN Files
  <2>1. f \in DOMAIN Files /\ file \in OpenedFile
    BY <1>3, <1>4
  <2>2. \A i \in DOMAIN Files : Files[i].was.path = h.paths[i]
    BY <1>3 DEF EntryInv
  <2> QED
    BY <2>1, <2>2
<1>8. Intact(Entry) => c = file.was
  BY <1>3, <1>6, <1>7 DEF Intact, Untouched
<1>9. Count(file.was, h.finder) \in Nat
  <2>1. file.was \in Content /\ h.finder \in Finders
    BY <1>3, <1>7 DEF OpenedFile, EntryInv, EntryOK
  <2> QED
    BY <2>1, StoreAssumption DEF Count, Reading
<1>10. number \in Nat /\ call.index = Before(Entry, f) + number
  BY <1>4
<1>11. PICK handed \in SUBSET Nat :
         /\ readers' = Entered(h.id, [Entry EXCEPT !.handed = handed])
         /\ f \in Entry.handed /\ IsTail(c, Entry.finder, number) /\ ~Finds(f, c)
               => f \in handed
  <2>1. CASE Leaves(Entry)
    BY <2>1, HandedKept, <1>1, <1>2, <1>5 DEF Leaves
  <2>2. CASE ~(f \in Entry.handed /\ IsTail(c, Entry.finder, number) /\ ~Finds(f, c))
    <3>1. \E entry \in {Entry, Moved(f), Handing(f)} : readers' = Entered(h.id, entry)
      BY <1>6, <2>2 DEF Disturbs, Leaves
    <3> QED
      BY <2>2, <3>1, HandedKept, <1>1, <1>2, <1>5
  <2> QED
    BY <1>6, <2>1, <2>2
<1>12. /\ TableGood' /\ DOMAIN readers' = DOMAIN readers
       /\ readers'[h.id].readers = Entry.readers /\ readers'[h.id].counted = Entry.counted
       /\ readers'[h.id].finder = Entry.finder /\ readers'[h.id].handed = handed
  BY <1>1, <1>2, <1>11, DisturbsIsGood
<1>13. (\A i \in DOMAIN readers'[h.id].readers :
          content'[readers'[h.id].readers[i].inode] = readers'[h.id].readers[i].was)
        => Intact(Entry)
  BY <1>12 DEF Intact, Untouched, fileVars
<1>14. \A i : Before(readers'[h.id], i) = Before(Entry, i)
  BY <1>12 DEF Before
<1>15. CASE Finds(f, c)
  <2>1. answer' = [kind |-> "record", handle |-> h, index |-> call.index,
                   got |-> [of |-> c, by |-> h.finder, number |-> number]]
    BY <1>3, <1>6, <1>15 DEF Answer
  <2>2. Intact(Entry) => number \in Reached(c, h.finder) /\ c.path = h.paths[f]
    BY <1>3, <1>5, <1>7, <1>8, <1>15 DEF Finds
  <2>3. Intact(Entry) =>
          \E i \in DOMAIN h.paths :
            /\ c.path = h.paths[i] /\ call.index = Before(Entry, i) + number
            /\ number \in Reached(c, h.finder)
    BY <1>3, <1>4, <1>10, <2>2
  <2>4. AnswerIsItsOwn'
    <3> DEFINE entry == readers'[h.id]
               got == [of |-> c, by |-> h.finder, number |-> number]
    <3>1. /\ answer'.kind = "record" /\ answer'.handle = h /\ answer'.index = call.index
          /\ answer'.got = got /\ got.of = c /\ got.by = h.finder /\ got.number = number
      BY <2>1
    <3>2. (\A i \in DOMAIN entry.readers : content'[entry.readers[i].inode] = entry.readers[i].was)
            => \E i \in DOMAIN h.paths :
                 /\ got.of.path = h.paths[i] /\ got.by = h.finder
                 /\ call.index = Before(entry, i) + got.number
                 /\ got.number \in Reached(got.of, h.finder)
      <4> HIDE DEF number
      <4> QED BY <1>13, <1>14, <2>3, <3>1
    <3> HIDE DEF got, h
    <3> QED
      BY <3>1, <3>2 DEF AnswerIsItsOwn, Intact, Untouched, Before, Reached
  <2> QED
    BY <1>12, <2>1, <2>4 DEF TotalIsOfAllFiles
<1>16. CASE ~Finds(f, c)
  <2> DEFINE last == Len(h.paths)
             total == Before(Entry, last) + Count(Entry.readers[last].was, h.finder)
  <2>1. answer' = [kind |-> "absent", handle |-> h, index |-> call.index, got |-> None]
    BY <1>6, <1>16 DEF Answer
  <2>2. ASSUME Intact(Entry), ~(call.index >= total)
        PROVE  number \in 0..Count(file.was, h.finder) - 1
    <3>1. CASE f < Len(Files)
      <4>1. Entry.counted[f] = Before(Entry, f) + Count(file.was, h.finder)
        BY <1>3, <1>4, <2>2, <3>1 DEF EntryInv, CountsOf
      <4> QED
        BY <1>4, <1>9, <1>10, <3>1, <4>1
    <3>2. CASE ~(f < Len(Files))
      <4>1. f = last /\ file = Entry.readers[last]
        BY <1>3, <1>4, <3>2
      <4>2. total = Before(Entry, f) + Count(file.was, h.finder)
        BY <4>1
      <4> QED
        BY ONLY <1>4, <1>9, <1>10, <2>2, <4>2
    <3> QED
      BY <3>1, <3>2
  <2>3. ASSUME Intact(Entry), ~(call.index >= total)
        PROVE  Unreached(readers'[h.id], call.index)
    <3>1. c = file.was
      BY <1>8, <2>3
    <3>2. number \in 0..Count(file.was, h.finder) - 1
      BY <2>2, <2>3
    <3>3. number \notin Reached(file.was, h.finder)
            \/ (f \in handed /\ IsTail(file.was, h.finder, number))
      BY <1>3, <1>5, <1>11, <1>16, <3>1 DEF Finds
    <3>4. /\ f \in DOMAIN readers'[h.id].readers /\ readers'[h.id].readers[f] = file
          /\ number = call.index - Before(readers'[h.id], f)
      BY <1>3, <1>7, <1>12, <1>14
    <3> QED
      BY <1>3, <1>12, <3>2, <3>3, <3>4 DEF Unreached
  <2>4. Intact(Entry) => call.index >= total \/ Unreached(readers'[h.id], call.index)
    BY <2>3
  <2>5. total = Before(readers'[h.id], last) + Count(readers'[h.id].readers[last].was, h.finder)
    BY <1>12, <1>14
  <2> HIDE DEF total
  <2>6. TotalIsOfAllFiles'
    BY <1>13, <2>1, <2>4, <2>5
       DEF TotalIsOfAllFiles, Intact, Untouched, Count, Before, Unreached, Reached, IsTail
  <2> QED
    BY <1>12, <2>1, <2>6 DEF AnswerIsItsOwn
<1> QED
  BY <1>15, <1>16

\* A number of records that is given is that of all files.
LEMMA GiveTotalStep ==
  ASSUME IInv, GiveTotal, UNCHANGED <<fileVars, save>>
  PROVE AnswerIsItsOwn' /\ TotalIsOfAllFiles'
<1> DEFINE h == call.handle
           last == Len(Files)
<1>1. call.at \in {"counting", "bounding"} /\ ~MustCount /\ readers' = readers
  BY DEF GiveTotal
<1>2. TypeOK /\ TableGood
  BY DEF IInv, TableGood
<1>3. /\ h.id \in DOMAIN readers /\ EntryInv(Entry)
      /\ last \in Nat /\ last = Len(h.paths) /\ last >= 1 /\ Entry.finder = h.finder
      /\ Entry = readers[h.id] /\ Files = Entry.readers /\ Entry.counted \in Seq(Nat)
  BY <1>1, <1>2, CallEntry DEF Entry, Files
<1>4. last \in DOMAIN Entry.counted
  BY <1>1, <1>3 DEF MustCount
<1>5. CASE call.at = "bounding"
  BY <1>5 DEF GiveTotal, Ends, Nothing, AnswerIsItsOwn, TotalIsOfAllFiles
<1>6. CASE call.at = "counting"
  <2>1. answer' = [kind |-> "total", handle |-> h, index |-> call.index, got |-> Entry.counted[last]]
    BY <1>6 DEF GiveTotal, Ends, Answer
  <2>2. Intact(Entry) =>
          Entry.counted[last] = Before(Entry, last) + Count(Entry.readers[last].was, h.finder)
    BY <1>3, <1>4 DEF EntryInv, CountsOf
  <2>3. TotalIsOfAllFiles'
    BY <1>1, <1>3, <2>1, <2>2 DEF TotalIsOfAllFiles, Intact, Untouched, fileVars, Count, Before
  <2> QED
    BY <2>1, <2>3 DEF AnswerIsItsOwn
<1> QED
  BY <1>1, <1>5, <1>6

-------------------------------------------------------------------------------
\* Steps.

LEMMA Silent ==
  ASSUME answer' = NoAnswer \/ answer' = Nothing
  PROVE AnswerIsItsOwn' /\ TotalIsOfAllFiles'
  BY DEF NoAnswer, Nothing, AnswerIsItsOwn, TotalIsOfAllFiles

\* What a step of the table has to keep.
LEMMA TableKept ==
  ASSUME IInv, UNCHANGED <<fileVars, save>>, TableOK', TableGood',
         AnswerIsItsOwn', TotalIsOfAllFiles'
  PROVE IInv'
<1>1. TypeOK'
  BY DEF IInv, TypeOK, SaveOK, Saving, fileVars
<1>2. Names' /\ Numbered'
  BY DEF IInv, Names, Numbered, Saving, fileVars
<1> QED
  BY <1>1, <1>2 DEF IInv, TableGood

LEMMA GoodIsOK == ASSUME TableGood' PROVE \A id \in DOMAIN readers' : EntryOK(readers'[id])
  BY DEF TableGood, EntryInv, EntryOK

LEMMA InvFacts ==
  ASSUME IInv
  PROVE FilesOK /\ TableGood /\ Numbered /\ TableOK /\ TypeOK
  BY DEF IInv, TypeOK, FilesOK, TableGood

LEMMA OpenStep ==
  ASSUME IInv, NEW s \in Sources, Open(s), UNCHANGED <<fileVars, save>>
  PROVE IInv'
<1> DEFINE h == [id |-> nextId, paths |-> s.paths, finder |-> s.finder]
<1>1. h \in Handle
  BY DEF Open, Handle
<1>2. TableGood' /\ DOMAIN readers' \subseteq Ids
  BY <1>1, InvFacts, EnteredIsGood DEF Open, TableOK
<1>3. TableOK'
  BY <1>1, <1>2, GoodIsOK, InvFacts DEF TableOK, Open, LockIsFree
<1> QED
  BY <1>2, <1>3, Silent, TableKept DEF Open

LEMMA AskStep ==
  ASSUME IInv, NEW at \in {"finding", "counting"}, NEW h \in handles, NEW index \in 0..MaxIndex,
         Ask(at, h, index), UNCHANGED <<fileVars, save>>
  PROVE IInv'
<1>1. h \in Handle
  BY InvFacts DEF TableOK
<1>2. CASE Has(h) \/ CanOpen(h)
  <2>1. TableGood' /\ Has(h)' /\ DOMAIN readers' \subseteq Ids
    BY <1>1, <1>2, InvFacts, WithFilesIsGood DEF Ask, TableOK
  <2>2. TableOK'
    BY <1>1, <1>2, <2>1, GoodIsOK, InvFacts DEF TableOK, Ask, Calling
  <2> QED
    BY <1>2, <2>1, <2>2, Silent, TableKept DEF Ask
<1>3. CASE ~(Has(h) \/ CanOpen(h))
  <2>1. UNCHANGED <<nextId, handles, readers, call>> /\ answer' = Nothing
    BY <1>3 DEF Ask
  <2>2. TableGood' /\ TableOK'
    BY <2>1, InvFacts DEF TableGood, TableOK, EntryInv, EntryOK, CountsOf, Intact, Untouched,
                          fileVars, Has
  <2> QED
    BY <2>1, <2>2, Silent, TableKept
<1> QED
  BY <1>2, <1>3

\* A call that ends, or waits for the lock again.
LEMMA EndOK ==
  ASSUME IInv, UNCHANGED <<fileVars, save, nextId, handles>>,
         TableGood', DOMAIN readers' = DOMAIN readers,
         call.at \in {"finding", "counting", "bounding", "missed"},
         call' = NoCall \/ call' = [call EXCEPT !.at = "missed"]
  PROVE TableOK'
<1>1. CASE call' = NoCall
  BY <1>1, GoodIsOK, InvFacts DEF TableOK, NoCall
<1>2. CASE call' = [call EXCEPT !.at = "missed"]
  <2>1. call'.handle \in Handle /\ call'.index \in 0..MaxIndex /\ call'.at = "missed"
    BY <1>2, InvFacts DEF TableOK
  <2> QED
    BY <2>1, GoodIsOK, InvFacts DEF TableOK
<1> QED
  BY <1>1, <1>2

\* The table as it was.
LEMMA TableStays ==
  ASSUME IInv, UNCHANGED <<fileVars, readers>>
  PROVE  TableGood'
  BY InvFacts DEF TableGood, EntryInv, EntryOK, CountsOf, Intact, Untouched, fileVars

\* A read that fails.
LEMMA FailedStep ==
  ASSUME IInv, UNCHANGED <<fileVars, save, nextId, handles>>,
         call.at \in {"finding", "counting", "bounding"},
         NEW i \in Nat, Disturbs(i), Ends(Nothing)
  PROVE  IInv'
<1>1. TypeOK /\ TableGood
  BY InvFacts
<1>2. PICK handed \in SUBSET Nat :
        readers' = Entered(call.handle.id, [Entry EXCEPT !.handed = handed])
  BY <1>1, HandedKept DEF Disturbs, Leaves
<1>3. TableGood' /\ DOMAIN readers' = DOMAIN readers
  BY <1>1, <1>2, DisturbsIsGood
<1> QED
  BY <1>3, EndOK, Silent, TableKept DEF Ends

LEMMA MissedStep ==
  ASSUME IInv, Missed, UNCHANGED <<fileVars, save>>
  PROVE IInv'
<1> DEFINE h == call.handle
<1>1. h \in Handle /\ call.index \in 0..MaxIndex /\ call.at = "missed"
  BY InvFacts DEF TableOK, Missed
<1>2. CASE Has(h) \/ CanOpen(h)
  <2>1. readers' = WithFiles(h) /\ call' = [call EXCEPT !.at = "bounding"]
          /\ answer' = NoAnswer /\ UNCHANGED <<nextId, handles>>
    BY <1>2 DEF Missed
  <2>2. TableGood' /\ Has(h)' /\ DOMAIN readers' \subseteq Ids
    BY <1>1, <1>2, <2>1, InvFacts, WithFilesIsGood DEF TableOK
  <2>3. call'.at = "bounding" /\ call'.handle = h /\ call'.index = call.index
    BY <2>1, InvFacts, <1>1 DEF TableOK
  <2>4. TableOK'
    BY <1>1, <2>1, <2>2, <2>3, GoodIsOK, InvFacts DEF TableOK, Has
  <2> QED
    BY <2>1, <2>2, <2>4, Silent, TableKept
<1>3. CASE ~(Has(h) \/ CanOpen(h))
  BY <1>1, <1>3, EndOK, TableStays, Silent, TableKept DEF Missed, Ends
<1> QED
  BY <1>2, <1>3

LEMMA DropStep ==
  ASSUME IInv, NEW h \in handles, Drop(h), UNCHANGED <<fileVars, save>>
  PROVE IInv'
<1>1. TableGood'
  <2>1. \A id \in DOMAIN readers' : id \in DOMAIN readers /\ readers'[id] = readers[id]
    BY DEF Drop
  <2>2. \A id \in DOMAIN readers' : EntryInv(readers'[id])
    BY <2>1, InvFacts DEF TableGood
  <2> QED
    BY <2>2 DEF TableGood, EntryInv, EntryOK, CountsOf, Intact, Untouched, fileVars
<1>2. TableOK'
  BY <1>1, GoodIsOK, InvFacts DEF TableOK, Drop, LockIsFree
<1> QED
  BY <1>1, <1>2, Silent, TableKept DEF Drop

LEMMA TableStep ==
  ASSUME IInv, TableNext, UNCHANGED <<fileVars, save>>
  PROVE IInv'
<1>1. ASSUME NEW s \in Sources, Open(s) PROVE IInv'
  BY <1>1, OpenStep
<1>2. ASSUME NEW h \in handles, NEW index \in 0..MaxIndex, Follow(h, index) PROVE IInv'
  BY <1>2, AskStep DEF Follow
<1>3. ASSUME NEW h \in handles, Summarise(h) PROVE IInv'
  BY <1>3, AskStep, HandlesAssumption DEF Summarise
<1>4. ASSUME NEW h \in handles, Drop(h) PROVE IInv'
  BY <1>4, DropStep
<1>5. CASE CountFile
  <2>1. TableGood' /\ DOMAIN readers' = DOMAIN readers /\ \A h : Has(h) => Has(h)'
    BY <1>5, CountFileStep
  <2>2. Has(call.handle)'
    <3>1. call.at \in {"finding", "counting", "bounding"} /\ call' = call
      BY <1>5 DEF CountFile, MustCount
    <3>2. Has(call.handle)
      BY <3>1, InvFacts DEF TableOK
    <3> QED
      BY <2>1, <3>1, <3>2 DEF Has
  <2>3. TableOK'
    BY <1>5, <2>1, <2>2, GoodIsOK, InvFacts DEF TableOK, CountFile
  <2> QED
    BY <1>5, <2>1, <2>3, Silent, TableKept DEF CountFile
<1>6. CASE CountFails
  <2>1. call.at \in {"finding", "counting", "bounding"} /\ Len(Entry.counted) + 1 \in Nat
    <3>1. call.at \in {"finding", "counting", "bounding"}
      BY <1>6 DEF CountFails, MustCount
    <3> QED
      BY <3>1, InvFacts, CallEntry
  <2> QED
    BY <1>6, <2>1, FailedStep DEF CountFails
<1>7. CASE Found
  <2>1. call' = NoCall \/ call' = [call EXCEPT !.at = "missed"]
    BY <1>7 DEF Found, Ends
  <2> QED
    BY <1>7, <2>1, EndOK, FoundStep, TableKept DEF Found
<1>8. CASE FindFails
  <2>1. FileOf \in Nat
    BY <1>8, InvFacts, FileOfIndex DEF FindFails
  <2> QED
    BY <1>8, <2>1, FailedStep DEF FindFails
<1>9. CASE Missed
  BY <1>9, MissedStep
<1>10. CASE GiveTotal
  <2>1. call' = NoCall
    BY <1>10 DEF GiveTotal, Ends
  <2> QED
    BY <1>10, <2>1, EndOK, TableStays, GiveTotalStep, TableKept DEF GiveTotal
<1> QED
  BY <1>1, <1>2, <1>3, <1>4, <1>5, <1>6, <1>7, <1>8, <1>9, <1>10 DEF TableNext

\* Whatever is written to the files leaves the table as good as it was.
LEMMA FileStep ==
  ASSUME IInv, FilesStep, Quiet
  PROVE IInv'
<1>1. \A entry : EntryInv(entry) => EntryInv(entry)'
  BY InvFacts, EntryStays
<1>2. TableGood'
  <2>1. \A id \in DOMAIN readers : EntryInv(readers[id])
    BY InvFacts DEF TableGood
  <2> QED
    BY <1>1, <2>1 DEF TableGood, EntryInv, EntryOK, CountsOf, Intact, Untouched, Quiet
<1>3. TableOK'
  BY InvFacts DEF TableOK, Quiet, Has
<1>4. TypeOK' /\ Names'
  BY <1>3 DEF FilesStep, FilesOK, TypeOK
<1>5. Numbered'
  BY InvFacts, StaysNumbered
<1> QED
  BY <1>2, <1>4, <1>5, Silent DEF IInv, TableGood, Quiet

LEMMA EndProcessStep ==
  ASSUME IInv, NEW pid \in Pids, EndProcess(pid), save' = NotSaving, UNCHANGED fileVars
  PROVE IInv'
<1>1. pid \in Nat /\ PerProcess \in Nat
  BY HandlesAssumption
<1>2. nextId' \in Nat
  BY <1>1 DEF EndProcess
<1>3. TableOK'
  BY <1>2, InvFacts DEF TableOK, EndProcess, NoCall
<1>4. TypeOK' /\ Names' /\ Numbered'
  BY <1>3, InvFacts DEF TypeOK, FilesOK, Names, Numbered, SaveOK, Saving, NotSaving, fileVars
<1> QED
  BY <1>4, Silent DEF IInv, EndProcess

LEMMA NextInv == IInv /\ [Next]_vars => IInv'
<1> SUFFICES ASSUME IInv, [Next]_vars PROVE IInv'
  OBVIOUS
<1>1. ASSUME TableNext, UNCHANGED <<fileVars, save>> PROVE IInv'
  BY <1>1, TableStep
<1>2. ASSUME SaveNext(OpenInodes), Quiet PROVE IInv'
  BY <1>2, InvFacts, SaveStep, FileStep
<1>3. ASSUME NEW path \in Paths, Replace(path) \/ Remove(path), Quiet, UNCHANGED save
      PROVE IInv'
  BY <1>3, InvFacts, ElsewhereStep, FileStep
<1>4. ASSUME NEW pid \in Pids, EndProcess(pid), save' = NotSaving, UNCHANGED fileVars
      PROVE IInv'
  BY <1>4, EndProcessStep
<1>5. CASE UNCHANGED vars
  <2>1. UNCHANGED <<dir, content, made, nextId, readers, handles, call, answer, save>>
    BY <1>5 DEF vars, tableVars
  <2>2. TypeOK' /\ Names' /\ Numbered'
    BY <2>1 DEF IInv, TypeOK, TableOK, SaveOK, Saving, Has, Names, Numbered
  <2>3. TableGood'
    BY <2>1, InvFacts DEF TableGood, EntryInv, EntryOK, CountsOf, Intact, Untouched
  <2>4. AnswerIsItsOwn' /\ TotalIsOfAllFiles'
    BY <2>1 DEF IInv, AnswerIsItsOwn, TotalIsOfAllFiles, Intact, Untouched
  <2> QED
    BY <2>2, <2>3, <2>4 DEF IInv, TableGood
<1> QED
  BY <1>1, <1>2, <1>3, <1>4, <1>5 DEF Next

-------------------------------------------------------------------------------
\* The theorems.

\* The inductive invariant holds in every state.
THEOREM Invariant == Spec => []IInv
  BY InitInv, NextInv, PTL DEF Spec

\* A call in progress always finds its own handle's entry, as the table's code
\* relies on: the lock is held from with_files to the answer.
THEOREM TypesHold == Spec => []TypeOK
<1>1. IInv => TypeOK
  BY DEF IInv
<1> QED
  BY <1>1, Invariant, PTL

\* What was counted of an entry's files is what those files hold.
THEOREM CountsHold == Spec => []CountsAreTheReaders
<1>1. IInv => CountsAreTheReaders
  BY DEF IInv, EntryInv, CountsAreTheReaders
<1> QED
  BY <1>1, Invariant, PTL

\* A handle reads its own files and no other's, whichever process answers.
THEOREM AnswersAreOwn == Spec => []AnswerIsItsOwn
<1>1. IInv => AnswerIsItsOwn
  BY DEF IInv
<1> QED
  BY <1>1, Invariant, PTL

\* What a handle says there is, is of all of its files; what it says is not there
\* is behind them all, or is not reached in the file it falls in: one with a frame
\* that holds more records than frame 0, or whose last record, without an end, was
\* just handed out.
THEOREM TotalsAreOfAll == Spec => []TotalIsOfAllFiles
<1>1. IInv => TotalIsOfAllFiles
  BY DEF IInv
<1> QED
  BY <1>1, Invariant, PTL

-------------------------------------------------------------------------------
\* Saving.

\* The file that is being written is the one under the path: created there, or
\* opened there to be appended to.
OutIsThere ==
  save.at \in {"created", "staged", "opened", "cut"} => dir[save.path] = save.out

LEMMA OutStays == IInv /\ OutIsThere /\ [Next]_vars => OutIsThere'
<1> SUFFICES ASSUME IInv, OutIsThere, [Next]_vars PROVE OutIsThere'
  OBVIOUS
<1> DEFINE open == OpenInodes
<1>1. CASE SaveNext(open)
  <2> USE DEF OutIsThere
  <2> HIDE DEF open
  <2>1. Saving => save.path \in Paths
    BY InvFacts DEF FilesOK, SaveOK
  <2>2. ASSUME NEW path \in SavePaths, NEW mode \in {"new", "force", "append"},
               CheckDestination(path, mode)
        PROVE OutIsThere'
    BY <2>2 DEF CheckDestination
  <2>3. CASE CreateOut(open)
    BY <2>1, <2>3, InvFacts DEF CreateOut, FilesOK, Saving, SaveOK
  <2>4. CASE OpenToAppend
    BY <2>4 DEF OpenToAppend
  <2>5. save.at # "idle" => save.at \in {"checked", "created", "staged", "removed", "refused",
                                         "opened", "cut"}
    BY InvFacts DEF FilesOK, SaveOK
  <2>6. CASE Stage
    BY <2>5, <2>6 DEF Stage, At
  <2>7. CASE CutToAppend
    BY <2>5, <2>7 DEF CutToAppend, At
  <2>8. CASE RemoveOld
    BY <2>5, <2>8 DEF RemoveOld, At
  <2>9. CASE CloneRefused(open)
    BY <2>5, <2>9 DEF CloneRefused, At
  <2>10. CASE save' = NotSaving
    BY <2>10 DEF NotSaving
  <2> QED
    BY <1>1, <2>2, <2>3, <2>4, <2>5, <2>6, <2>7, <2>8, <2>9, <2>10
       DEF SaveNext, ConvertInto, Clone, CopyOut, WriteAppended, SaveFails, Over
<1>2. ASSUME NEW path \in Paths, Replace(path) \/ Remove(path), UNCHANGED save
      PROVE OutIsThere'
  BY <1>2, InvFacts DEF FilesOK, SaveOK, Saving, OutIsThere, Replace, Remove, Undisturbed
<1>3. CASE UNCHANGED <<fileVars, save>>
  BY <1>3 DEF OutIsThere, fileVars
<1>4. CASE save' = NotSaving
  BY <1>4 DEF OutIsThere, NotSaving
<1>5. CASE UNCHANGED vars
  BY <1>5 DEF OutIsThere, vars
<1> QED
  BY <1>1, <1>2, <1>3, <1>4, <1>5 DEF Next

LEMMA SaveEnds ==
  ASSUME IInv, OutIsThere, [Next]_vars, Written, save.at # "refused"
  PROVE IsThere
<1>1. made \in Nat /\ made' = made + 1 /\ Saving /\ ~Saving' /\ save.at # "idle" /\ save.path \in Paths
  BY InvFacts DEF FilesOK, SaveOK, Written, Saving
<1>2. ASSUME ConvertInto \/ WriteAppended PROVE IsThere
  BY <1>1, <1>2, InvFacts, StoreAssumption
     DEF ConvertInto, WriteAppended, OutIsThere, FilesOK, SaveOK, IsThere, Saving
<1>3. CASE Clone(OpenInodes)
  BY <1>1, <1>3, InvFacts, StoreAssumption DEF Clone, FilesOK, IsThere
<1>4. CASE SaveNext(OpenInodes)
  <2>1. ASSUME NEW path \in Paths, NEW mode, CheckDestination(path, mode) PROVE FALSE
    BY <1>1, <2>1 DEF CheckDestination
  <2>2. CASE CreateOut(OpenInodes)
    BY <1>1, <2>2 DEF CreateOut
  <2>3. CASE Stage \/ RemoveOld \/ CloneRefused(OpenInodes)
    BY <1>1, <2>3 DEF Stage, RemoveOld, CloneRefused
  <2>4. CASE OpenToAppend \/ CutToAppend \/ SaveFails
    BY <1>1, <2>4 DEF OpenToAppend, CutToAppend, SaveFails
  <2>5. CASE CopyOut
    BY <2>5 DEF CopyOut
  <2> QED
    BY <1>2, <1>3, <1>4, <2>1, <2>2, <2>3, <2>4, <2>5, SaveAssumption DEF SaveNext
<1>5. ~UNCHANGED made /\ ~UNCHANGED save
  BY <1>1 DEF Saving
<1> QED
  BY <1>4, <1>5 DEF Next, vars, fileVars

\* A save that ends well has put what it wrote under its path, unless it was by
\* the copy that follows a refused reflink.
THEOREM SavesAreThere == Spec => SavedIsThere
<1>1. Init => OutIsThere
  BY DEF Init, SaveInit, NotSaving, OutIsThere
<1>2. IInv /\ OutIsThere /\ [Next]_vars
        => [Written /\ save.at # "refused" => IsThere]_<<dir, content, made, save>>
  BY SaveEnds
<1> QED
  BY <1>1, <1>2, InitInv, NextInv, OutStays, PTL DEF Spec, SavedIsThere
================================================================================
