------------------------------ MODULE FileUpdate ------------------------------
(***************************************************************************)
(* The writer lock and the private copy of src/src/file_update.rs.         *)
(*                                                                         *)
(* A directory holds the target, and while a writer is at work the names   *)
(* .lock.<target> and .tmp.<target>.  A name is an inode or nothing; a     *)
(* handle is an inode, and keeps it whatever becomes of the name.  Writers *)
(* call copy_and_replace ("copy") or with_file_lock ("inplace"), readers   *)
(* open the target and hold what they opened.  A writer may die at any     *)
(* step, an unlink may fail, and an operator removes leftovers once no     *)
(* writer is active, which is what with_file_lock's documentation asks.    *)
(***************************************************************************)
EXTENDS Naturals, Sequences

CONSTANTS
  Writers, Readers,
  Inodes,
  None,          \* no inode
  Modes,         \* how writers update: a subset of {"copy", "inplace"}
  MaxPublished,  \* bound: updates the target takes
  MaxFaults      \* bound: deaths and failed unlinks

ASSUME ModesAssumption == Modes \subseteq {"copy", "inplace"}
ASSUME NoneAssumption == None \notin Inodes
ASSUME BoundsAssumption == MaxPublished \in Nat /\ MaxFaults \in Nat

VARIABLES
  content,  \* what each inode holds: the updates applied, and whether it is torn
  path,     \* the inode the target's name leads to
  lock,     \* whether .lock.<target> exists
  tmp,      \* the inode .tmp.<target> leads to
  pc,       \* where each writer's call is
  mode,     \* which of the two calls it is
  orig,     \* each writer's handle on the target
  mine,     \* each writer's handle on its private copy
  outcome,  \* the result a call carries, then its answer
  rd,       \* each reader's handle
  history,  \* the writers in the order their updates were published
  faults

names == <<path, lock, tmp>>
calls == <<pc, mode, orig, mine, outcome>>
vars == <<content, names, calls, rd, history, faults>>

\* A torn inode has no seek table at its end: a copy not finished, or an
\* update between its cut and its table.
Content == [applied : Seq(Writers), torn : BOOLEAN]

\* The steps at which a call has its private copy, and those at which it has
\* the lock.
Building == {"temp", "copied", "updating", "updated"}
Holding  == Building \cup {"locked", "opened", "replaced", "cleanup", "closing"}
Steps    == Holding \cup {"idle"}

Init ==
  /\ path \in Inodes
  /\ content = [i \in Inodes |-> [applied |-> <<>>, torn |-> i # path]]
  /\ lock = FALSE
  /\ tmp = None
  /\ pc = [w \in Writers |-> "idle"]
  /\ mode \in [Writers -> Modes]
  /\ orig = [w \in Writers |-> None]
  /\ mine = [w \in Writers |-> None]
  /\ outcome = [w \in Writers |-> "none"]
  /\ rd = [r \in Readers |-> None]
  /\ history = <<>>
  /\ faults = 0

-------------------------------------------------------------------------------
(***************************************************************************)
(* with_file_lock                                                          *)
(***************************************************************************)
Goto(w, from, to) == pc[w] = from /\ pc' = [pc EXCEPT ![w] = to]

(* Mistakes the properties are there to tell from the code; no step uses     *)
(* them.                                                                     *)
\* The lock file is opened whether or not it exists.
CreateLockShared(w) ==
  /\ Len(history) < MaxPublished
  /\ Goto(w, "idle", "locked")
  /\ lock' = TRUE
  /\ \E m \in Modes : mode' = [mode EXCEPT ![w] = m]
  /\ outcome' = [outcome EXCEPT ![w] = "none"]
  /\ UNCHANGED <<content, path, tmp, orig, mine, rd, history, faults>>
\* A call that finds the lock removes it, as if it were stale.
LockStolen(w) ==
  /\ pc[w] = "idle"
  /\ lock
  /\ lock' = FALSE
  /\ outcome' = [outcome EXCEPT ![w] = "failed"]
  /\ UNCHANGED <<content, path, tmp, pc, mode, orig, mine, rd, history, faults>>
\* The target is removed to make room for the copy.
ReplaceUnlinks(w) ==
  /\ Goto(w, "updated", "replaced")
  /\ path' = None
  /\ outcome' = [outcome EXCEPT ![w] = "ok"]
  /\ history' = Append(history, w)
  /\ UNCHANGED <<content, lock, tmp, mode, orig, mine, rd, faults>>
\* The lock goes out of scope with the copy, before it is closed.
DropBoth(w) ==
  /\ Goto(w, "replaced", "closing")
  /\ tmp' = None
  /\ lock' = FALSE
  /\ UNCHANGED <<content, path, mode, orig, mine, outcome, rd, history, faults>>
\* The callback is given the target, or its error is dropped, or its error
\* returns past the lock.
HandleOfTarget(w) == orig[w]
UpdateFailsQuietly(w) ==
  /\ mode[w] = "inplace"
  /\ pc[w] \in {"opened", "updating"}
  /\ pc' = [pc EXCEPT ![w] = "closing"]
  /\ outcome' = [outcome EXCEPT ![w] = "ok"]
  /\ UNCHANGED <<content, names, mode, orig, mine, rd, history, faults>>
UpdateFailsLocked(w) ==
  /\ mode[w] = "inplace"
  /\ pc[w] \in {"opened", "updating"}
  /\ pc' = [pc EXCEPT ![w] = "idle"]
  /\ outcome' = [outcome EXCEPT ![w] = "failed"]
  /\ UNCHANGED <<content, names, mode, orig, mine, rd, history, faults>>

\* create_new on .lock.<target>.
CreateLock(w) ==
  /\ Len(history) < MaxPublished
  /\ ~lock
  /\ Goto(w, "idle", "locked")
  /\ lock' = TRUE
  /\ \E m \in Modes : mode' = [mode EXCEPT ![w] = m]
  /\ outcome' = [outcome EXCEPT ![w] = "none"]
  /\ UNCHANGED <<content, path, tmp, orig, mine, rd, history, faults>>

\* The lock exists: an error at once, whoever it belongs to.
LockExists(w) ==
  /\ pc[w] = "idle"
  /\ lock
  /\ outcome' = [outcome EXCEPT ![w] = "failed"]
  /\ UNCHANGED <<content, names, pc, mode, orig, mine, rd, history, faults>>

\* The name is looked up after the lock is taken.
OpenCurrent(w) ==
  /\ Goto(w, "locked", "opened")
  /\ orig' = [orig EXCEPT ![w] = path]
  /\ UNCHANGED <<content, names, mode, mine, outcome, rd, history, faults>>

\* The target is a symlink, has a second link, or cannot be opened.
OpenRefused(w) ==
  /\ Goto(w, "locked", "closing")
  /\ outcome' = [outcome EXCEPT ![w] = "failed"]
  /\ UNCHANGED <<content, names, mode, orig, mine, rd, history, faults>>

\* lock.close(): unlinks the name, and forgets both handles.
Leave(w, result) ==
  /\ Goto(w, "closing", "idle")
  /\ outcome' = [outcome EXCEPT ![w] = result]
  /\ orig' = [orig EXCEPT ![w] = None]
  /\ mine' = [mine EXCEPT ![w] = None]
  /\ UNCHANGED <<content, path, tmp, mode, rd, history>>

\* A mistake: the callback's result is forgotten.
CloseLockOk(w) ==
  /\ Leave(w, "ok")
  /\ lock' = FALSE
  /\ UNCHANGED faults

CloseLock(w) ==
  /\ Leave(w, outcome[w])
  /\ lock' = FALSE
  /\ UNCHANGED faults

CloseLockFails(w) ==
  /\ faults < MaxFaults
  /\ Leave(w, "failed")
  /\ faults' = faults + 1
  /\ UNCHANGED lock

-------------------------------------------------------------------------------
(***************************************************************************)
(* copy_and_replace_using, which is with_file_lock's callback              *)
(***************************************************************************)
InUse == {path, tmp} \cup {orig[w] : w \in Writers} \cup {mine[w] : w \in Writers}
           \cup {rd[r] : r \in Readers}

\* create_new on .tmp.<target>, an empty file.
CreateCopy(w) ==
  /\ mode[w] = "copy"
  /\ Goto(w, "opened", "temp")
  /\ tmp = None
  /\ \E i \in Inodes \ InUse :
       /\ tmp' = i
       /\ mine' = [mine EXCEPT ![w] = i]
       /\ content' = [content EXCEPT ![i] = [applied |-> <<>>, torn |-> TRUE]]
  /\ UNCHANGED <<path, lock, mode, orig, outcome, rd, history, faults>>

\* The name is taken by a copy some dead writer left: it is not touched.
CopyExists(w) ==
  /\ mode[w] = "copy"
  /\ Goto(w, "opened", "closing")
  /\ tmp # None
  /\ outcome' = [outcome EXCEPT ![w] = "failed"]
  /\ UNCHANGED <<content, names, mode, orig, mine, rd, history, faults>>

\* A reflink, or after its failure a copy from the start.
Copy(w) ==
  /\ Goto(w, "temp", "copied")
  /\ content' = [content EXCEPT ![mine[w]] = content[orig[w]]]
  /\ UNCHANGED <<names, mode, orig, mine, outcome, rd, history, faults>>

\* The copy, the callback, the metadata or the rename fails.  What the callback
\* wrote stays in the private copy.
CopyFails(w) ==
  /\ mode[w] = "copy"
  /\ pc[w] \in Building
  /\ pc' = [pc EXCEPT ![w] = "cleanup"]
  /\ outcome' = [outcome EXCEPT ![w] = "failed"]
  /\ UNCHANGED <<content, names, mode, orig, mine, rd, history, faults>>

\* fs::rename: the target's name takes the inode under the temporary name.
Replace(w) ==
  /\ mode[w] = "copy"
  /\ Goto(w, "updated", "replaced")
  /\ tmp # None
  /\ path' = tmp
  /\ tmp' = None
  /\ outcome' = [outcome EXCEPT ![w] = "ok"]
  /\ history' = Append(history, w)
  /\ UNCHANGED <<content, lock, mode, orig, mine, rd, faults>>

\* The NamedTempFile goes out of scope before the lock is closed and unlinks
\* its name, whatever is there by then.
DropTemp(w) ==
  /\ Goto(w, "replaced", "closing")
  /\ tmp' = None
  /\ UNCHANGED <<content, path, lock, mode, orig, mine, outcome, rd, history, faults>>

\* temp.close() on the error path.
CloseTemp(w) ==
  /\ Goto(w, "cleanup", "closing")
  /\ tmp' = None
  /\ UNCHANGED <<content, path, lock, mode, orig, mine, outcome, rd, history, faults>>

CloseTempFails(w) ==
  /\ Goto(w, "cleanup", "closing")
  /\ faults < MaxFaults
  /\ faults' = faults + 1
  /\ UNCHANGED <<content, names, mode, orig, mine, outcome, rd, history>>

-------------------------------------------------------------------------------
(***************************************************************************)
(* The callback: it reads the seek table, cuts the file, and writes a new  *)
(* table last (src/src/edit.rs).  It works on the private copy, or in      *)
(* place on the target.                                                    *)
(***************************************************************************)
Handle(w) == IF mode[w] = "copy" THEN mine[w] ELSE orig[w]
Entry(w)  == IF mode[w] = "copy" THEN "copied" ELSE "opened"

BeginUpdate(w) ==
  /\ Goto(w, Entry(w), "updating")
  /\ ~content[Handle(w)].torn
  /\ content' = [content EXCEPT ![Handle(w)] = [applied |-> @.applied, torn |-> TRUE]]
  /\ UNCHANGED <<names, mode, orig, mine, outcome, rd, history, faults>>

FinishUpdate(w) ==
  /\ pc[w] = "updating"
  /\ content' = [content EXCEPT ![Handle(w)] =
                   [applied |-> Append(@.applied, w), torn |-> FALSE]]
  /\ \/ /\ mode[w] = "copy"
        /\ pc' = [pc EXCEPT ![w] = "updated"]
        /\ UNCHANGED <<outcome, history>>
     \/ /\ mode[w] = "inplace"
        /\ pc' = [pc EXCEPT ![w] = "closing"]
        /\ outcome' = [outcome EXCEPT ![w] = "ok"]
        /\ history' = Append(history, w)
  /\ UNCHANGED <<names, mode, orig, mine, rd, faults>>

\* In place, a refusal leaves the target as it was and a later error leaves it
\* torn.
UpdateFails(w) ==
  /\ mode[w] = "inplace"
  /\ pc[w] \in {"opened", "updating"}
  /\ pc' = [pc EXCEPT ![w] = "closing"]
  /\ outcome' = [outcome EXCEPT ![w] = "failed"]
  /\ UNCHANGED <<content, names, mode, orig, mine, rd, history, faults>>

-------------------------------------------------------------------------------
(***************************************************************************)
(* Readers, deaths, and the operator                                       *)
(***************************************************************************)
Open(r) ==
  /\ rd[r] = None
  /\ rd' = [rd EXCEPT ![r] = path]
  /\ UNCHANGED <<content, names, calls, history, faults>>

Close(r) ==
  /\ rd[r] # None
  /\ rd' = [rd EXCEPT ![r] = None]
  /\ UNCHANGED <<content, names, calls, history, faults>>

\* Forced termination: no destructor runs, so both names stay.
Die(w) ==
  /\ faults < MaxFaults
  /\ pc[w] # "idle"
  /\ pc' = [pc EXCEPT ![w] = "idle"]
  /\ orig' = [orig EXCEPT ![w] = None]
  /\ mine' = [mine EXCEPT ![w] = None]
  /\ outcome' = [outcome EXCEPT ![w] = "none"]
  /\ faults' = faults + 1
  /\ UNCHANGED <<content, names, mode, rd, history>>

RemoveLeftovers ==
  /\ \A w \in Writers : pc[w] = "idle"
  /\ lock \/ tmp # None
  /\ lock' = FALSE
  /\ tmp' = None
  /\ UNCHANGED <<content, path, calls, rd, history, faults>>

WriterStep(w) ==
  \/ OpenCurrent(w) \/ OpenRefused(w) \/ CloseLock(w) \/ CloseLockFails(w)
  \/ CreateCopy(w) \/ CopyExists(w) \/ Copy(w) \/ CopyFails(w)
  \/ Replace(w) \/ DropTemp(w) \/ CloseTemp(w) \/ CloseTempFails(w)
  \/ BeginUpdate(w) \/ FinishUpdate(w) \/ UpdateFails(w)

Next ==
  \/ \E w \in Writers : CreateLock(w) \/ LockExists(w) \/ WriterStep(w) \/ Die(w)
  \/ \E r \in Readers : Open(r) \/ Close(r)
  \/ RemoveLeftovers

Spec == Init /\ [][Next]_vars

\* A call runs to its end on its own thread, and its callback returns; nobody
\* has to call again, to read, or to tidy up.
FairSpec == Spec /\ \A w \in Writers : WF_vars(WriterStep(w))

-------------------------------------------------------------------------------
TypeOK ==
  /\ content \in [Inodes -> Content]
  /\ path \in Inodes
  /\ lock \in BOOLEAN
  /\ tmp \in Inodes \cup {None}
  /\ pc \in [Writers -> Steps]
  /\ mode \in [Writers -> Modes]
  /\ orig \in [Writers -> Inodes \cup {None}]
  /\ mine \in [Writers -> Inodes \cup {None}]
  /\ outcome \in [Writers -> {"none", "ok", "failed"}]
  /\ rd \in [Readers -> Inodes \cup {None}]
  /\ history \in Seq(Writers)
  /\ faults \in Nat

\* Every published update is in the target, in the order of publication: no
\* writer builds on a version another one has replaced since (with_file_lock
\* opens the target after taking the lock).
NoLostUpdate == content[path].applied = history

\* When every writer goes through copy_and_replace the target can be read at
\* every moment, deaths and failures included: "Copy or callback failure leaves
\* the target unchanged".
TargetWhole == ~content[path].torn

\* "On replacement, existing readers keep the old file": what a reader holds
\* does not change under it, however many replacements follow, and is never the
\* inode a later copy is built in.
ReaderKeepsItsFile ==
  [][\A r \in Readers : rd[r] # None /\ rd'[r] = rd[r] => content'[rd[r]] = content[rd[r]]]_vars

\* Nobody else's unlink, cleanup or call takes an active writer's lock, or its
\* private copy while it is building one: both are removed by name, so this
\* rests on the order in which a call gives up its names.
NamesAreOurs ==
  [][\A w \in Writers : pc'[w] = pc[w] =>
       /\ pc[w] \in Holding => lock'
       /\ pc[w] \in Building /\ mode[w] = "copy" => tmp' = mine[w]]_vars

\* Why: the lock has one holder, whose handle is the current target, whose
\* private copy is the one under the temporary name and nobody else's, and
\* whose copy goes from the target's updates to one more.
OneHolder ==
  /\ \A w \in Writers : pc[w] \in Holding => lock
  /\ \A v, w \in Writers : pc[v] \in Holding /\ pc[w] \in Holding => v = w
HandleIsCurrent ==
  \A w \in Writers : pc[w] \in Building \cup {"opened"} => orig[w] = path
CopyIsPrivate ==
  /\ tmp # path
  /\ tmp # None => \A r \in Readers : rd[r] # tmp
  /\ \A w \in Writers :
       /\ pc[w] \in {"temp", "copied", "updated", "replaced", "cleanup"} => mode[w] = "copy"
       /\ pc[w] \in Building /\ mode[w] = "copy" => tmp # None /\ tmp = mine[w]
CopyFollowsTarget ==
  \A w \in Writers :
    /\ pc[w] \in {"copied", "updating"} /\ mode[w] = "copy" => content[tmp].applied = history
    /\ pc[w] = "updated" => content[tmp] = [applied |-> Append(history, w), torn |-> FALSE]
ResultIsLast ==
  \A w \in Writers :
    /\ pc[w] \in Holding /\ outcome[w] = "ok" => pc[w] \in {"replaced", "closing"}
    /\ pc[w] = "closing" => outcome[w] # "none"
    /\ pc[w] = "cleanup" => outcome[w] = "failed"
    /\ pc[w] = "replaced" => outcome[w] = "ok"
IInv ==
  /\ NoLostUpdate
  /\ OneHolder
  /\ HandleIsCurrent
  /\ CopyIsPrivate
  /\ CopyFollowsTarget
  /\ ResultIsLast

\* "Removes its own lock on completion, including errors": while nobody has been
\* killed and no unlink has failed, the lock never stays.
LockReleased == lock /\ faults = 0 ~> ~lock \/ faults > 0

\* The update a caller sees is AtomicFile's: one step, once per call, never
\* undone by a failure.
CallState(w) == IF pc[w] = "idle" THEN "idle"
                ELSE IF outcome[w] = "ok" THEN "published" ELSE "running"
Atomic == INSTANCE AtomicFile
            WITH value  <- content[path].applied,
                 call   <- [w \in Writers |-> CallState(w)],
                 answer <- [w \in Writers |-> IF pc[w] = "idle" THEN outcome[w] ELSE "none"]
AtomicUpdate == Atomic!Spec
===============================================================================
