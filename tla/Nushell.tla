-------------------------------- MODULE Nushell --------------------------------
\* The plugin as the engine drives it: handles read and files saved by one
\* process at a time, while other programs replace or remove files.
EXTENDS Handles, Save

vars == <<dir, content, made, tableVars, save>>
fileVars == <<dir, content, made>>

\* The inodes a reader or a save has open.
OpenInodes ==
  (IF Saving THEN {save.out} \ {None} ELSE {})
    \cup UNION {{readers[id].readers[i].inode : i \in DOMAIN readers[id].readers} :
                  id \in DOMAIN readers}

\* Another program puts a whole file in the place of a path, as copy_and_replace
\* does, or removes it. None does while the path is being written here.
Undisturbed(path) == ~(save.at \notin {"idle", "checked"} /\ save.path = path)
Replace(path) ==
  /\ Undisturbed(path) /\ CanMake
  /\ \E i \in Inodes :
       /\ Free(i, OpenInodes)
       /\ dir' = [dir EXCEPT ![path] = i]
       /\ content' = [content EXCEPT ![i] = Made(path)]
  /\ made' = made + 1
Remove(path) ==
  /\ Undisturbed(path) /\ dir[path] # None
  /\ dir' = [dir EXCEPT ![path] = None]
  /\ UNCHANGED <<content, made>>

\* Every path is a whole file at first; contents are numbered as written.
Init ==
  /\ dir \in [Paths -> Inodes] /\ content \in [Inodes -> Content \cup {Torn}]
  /\ made = Cardinality(Paths) /\ {content[dir[p]].n : p \in Paths} = 1..made
  /\ \A p \in Paths : content[dir[p]].path = p
  /\ \A i \in Inodes : Named(i) \/ content[i] = Torn
  /\ TableInit /\ SaveInit

\* What was answered is judged before anything else happens.
Quiet == answer' = NoAnswer /\ UNCHANGED <<nextId, readers, handles, call>>

Next ==
  \/ TableNext /\ UNCHANGED <<fileVars, save>>
  \/ SaveNext(OpenInodes) /\ Quiet
  \/ \E path \in Paths : (Replace(path) \/ Remove(path)) /\ Quiet /\ UNCHANGED save
  \/ \E pid \in Pids : EndProcess(pid) /\ save' = NotSaving /\ UNCHANGED fileVars

Spec == Init /\ [][Next]_vars

-------------------------------------------------------------------------------
\* Properties.

\* The values of the variables, and what of the table and the save always holds.
TypeOK ==
  /\ dir \in [Paths -> Inodes \cup {None}]
  /\ content \in [Inodes -> Content \cup {Torn}]
  /\ made \in Nat
  /\ TableOK /\ SaveOK

\* A whole file under a name was written there, as was the file that a save has
\* created and may still write.
Names ==
  /\ \A p, q \in Paths : dir[p] # None /\ dir[p] = dir[q] => p = q
  /\ \A p \in Paths : dir[p] # None /\ content[dir[p]] # Torn => content[dir[p]].path = p
  /\ \A p \in Paths : Saving /\ save.out # None /\ dir[p] = save.out => p = save.path

\* Contents are numbered as they are written, so that none comes twice: a file
\* that has changed since it was opened stays changed.
Numbered == \A i \in Inodes : content[i].n <= made

\* An entry's readers are of its paths' files, and its counts are of its readers.
EntryInv(entry) ==
  /\ EntryOK(entry)
  /\ \A i \in DOMAIN entry.readers :
       entry.readers[i].was.n <= made /\ entry.readers[i].was.path = entry.paths[i]
  /\ CountsOf(entry)

\* The inductive invariant.
IInv ==
  /\ TypeOK /\ Names /\ Numbered
  /\ \A id \in DOMAIN readers : EntryInv(readers[id])
  /\ AnswerIsItsOwn /\ TotalIsOfAllFiles
================================================================================
