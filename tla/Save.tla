---------------------------------- MODULE Save ---------------------------------
\* `zstdsep save` (nu_plugin_zstdsep/src/commands/save.rs) and the delivery of
\* what compress_with_retry staged (src/seekzstdsep_lib.rs). One save at a time;
\* compressing is Compress, and appending in place is Edit.
EXTENDS Store

CONSTANT
  SavePaths     \* bound: the paths that are saved to

ASSUME SaveAssumption == SavePaths \subseteq Paths

VARIABLE
  save          \* the save in progress

NotSaving == [at |-> "idle"]
Saving == save.at # "idle"

\* An inode that nothing refers to, with what has it open.
Free(i, open) == ~Named(i) /\ i \notin open

At(place) == save' = [save EXCEPT !.at = place]
Over == save' = NotSaving

\* check_destination, before the input is read: what is there is kept unless
\* --force says otherwise, and --append needs something there. A refusal changes
\* nothing. The input is then staged, which may fail and changes nothing either.
CheckDestination(path, mode) ==
  /\ ~Saving
  /\ mode = "new" => dir[path] = None
  /\ mode = "append" => dir[path] # None
  /\ save' = [at |-> "checked", path |-> path, mode |-> mode, out |-> None]
  /\ UNCHANGED <<dir, content, made>>

\* File::create: a file that is there is emptied, whatever the mode says.
CreateOut(open) ==
  /\ save.at = "checked" /\ save.mode # "append"
  /\ \E i \in Inodes :
       /\ IF dir[save.path] = None THEN Free(i, open) ELSE i = dir[save.path]
       /\ dir' = [dir EXCEPT ![save.path] = i]
       /\ content' = [content EXCEPT ![i] = Torn]
       /\ save' = [save EXCEPT !.at = "created", !.out = i]
  /\ UNCHANGED made

\* Given a count of records per frame the conversion writes into the file created;
\* else its output is staged under a name of its own, to be delivered.
ConvertInto ==
  /\ save.at = "created" /\ CanMake
  /\ content' = [content EXCEPT ![save.out] = Made(save.path)]
  /\ made' = made + 1
  /\ Over
  /\ UNCHANGED dir
Stage ==
  /\ save.at = "created"
  /\ At("staged")
  /\ UNCHANGED <<dir, content, made>>

\* remove_file, whose failure is ignored.
RemoveOld ==
  /\ save.at = "staged"
  /\ \/ dir' = [dir EXCEPT ![save.path] = None]
     \/ UNCHANGED dir
  /\ At("removed")
  /\ UNCHANGED <<content, made>>

\* A mistake: the staged output is copied into the file created first.
CloneIntoOut(open) ==
  /\ save.at = "removed" /\ CanMake
  /\ content' = [content EXCEPT ![save.out] = Made(save.path)]
  /\ made' = made + 1
  /\ Over
  /\ UNCHANGED dir
\* reflink_or_copy: a new file under the name or, as a copy, into what is there.
\* Where it fails a copy may have been begun.
Clone(open) ==
  /\ save.at = "removed" /\ CanMake
  /\ \E i \in Inodes :
       /\ IF dir[save.path] = None THEN Free(i, open) ELSE i = dir[save.path]
       /\ dir' = [dir EXCEPT ![save.path] = i]
       /\ content' = [content EXCEPT ![i] = Made(save.path)]
  /\ made' = made + 1
  /\ Over
CloneRefused(open) ==
  /\ save.at = "removed"
  /\ \/ UNCHANGED <<dir, content>>
     \/ \E i \in Inodes :
          /\ IF dir[save.path] = None THEN Free(i, open) ELSE i = dir[save.path]
          /\ dir' = [dir EXCEPT ![save.path] = i]
          /\ content' = [content EXCEPT ![i] = Torn]
  /\ At("refused")
  /\ UNCHANGED made
\* The copy into the handle created first, whichever file that still is.
CopyOut ==
  /\ save.at = "refused" /\ CanMake
  /\ content' = [content EXCEPT ![save.out] = Made(save.path)]
  /\ made' = made + 1
  /\ Over
  /\ UNCHANGED dir

\* --append opens the file, cuts it and writes the rest and the table.
OpenToAppend ==
  /\ save.at = "checked" /\ save.mode = "append" /\ dir[save.path] # None
  /\ content[dir[save.path]] # Torn
  /\ save' = [save EXCEPT !.at = "opened", !.out = dir[save.path]]
  /\ UNCHANGED <<dir, content, made>>
CutToAppend ==
  /\ save.at = "opened"
  /\ content' = [content EXCEPT ![save.out] = Torn]
  /\ At("cut")
  /\ UNCHANGED <<dir, made>>
WriteAppended ==
  /\ save.at = "cut" /\ CanMake
  /\ content' = [content EXCEPT ![save.out] = Made(save.path)]
  /\ made' = made + 1
  /\ Over
  /\ UNCHANGED dir

\* An error on the way: what has been done stays.
SaveFails ==
  /\ Saving
  /\ Over
  /\ UNCHANGED <<dir, content, made>>

SaveInit == save = NotSaving

SaveNext(open) ==
  \/ \E path \in SavePaths, mode \in {"new", "force", "append"} : CheckDestination(path, mode)
  \/ CreateOut(open) \/ ConvertInto \/ Stage \/ RemoveOld \/ Clone(open)
  \/ CloneRefused(open) \/ CopyOut
  \/ OpenToAppend \/ CutToAppend \/ WriteAppended \/ SaveFails

-------------------------------------------------------------------------------
\* Properties.

SaveOK ==
  /\ save.at \in {"idle", "checked", "created", "staged", "removed", "refused",
                  "opened", "cut"}
  /\ Saving => save.path \in Paths /\ save.out \in Inodes \cup {None}
  /\ save.at \in {"created", "staged", "removed", "refused", "opened", "cut"} =>
       save.out # None

Written == Saving /\ ~Saving' /\ made' = made + 1
IsThere == dir'[save.path] # None /\ content'[dir'[save.path]] = Made(save.path)

\* When a save ends without an error, what it wrote is under the path it was
\* given, whichever way it got there: who opens the path next finds it.
SavedIsThere == [][Written /\ save.at # "refused" => IsThere]_<<dir, content, made, save>>

\* So it is where the reflink or copy fails and the file created first is the
\* destination (save.rs:291: the library "delivers to `out_path` by reflink and
\* falls back to writing this handle"). It is not.
FallbackIsThere == [][Written /\ save.at = "refused" => IsThere]_<<dir, content, made, save>>
================================================================================
