--------------------------- MODULE FileUpdateProofs ---------------------------
(***************************************************************************)
(* The safety of FileUpdate for every number of writers, readers and       *)
(* inodes, and any bounds.                                                 *)
(***************************************************************************)
EXTENDS FileUpdate, TLAPS

USE ModesAssumption, NoneAssumption, BoundsAssumption

-------------------------------------------------------------------------------
\* The inode a callback works on exists.
LEMMA HandleExists ==
  ASSUME TypeOK, IInv, NEW w \in Writers
  PROVE  /\ pc[w] \in Building \cup {"opened"} => orig[w] \in Inodes /\ orig[w] = path
         /\ pc[w] \in Building /\ mode[w] = "copy" =>
              mine[w] \in Inodes /\ mine[w] = tmp /\ mine[w] # path
         /\ pc[w] \in Building /\ mode[w] # "copy" => Handle(w) = path
         /\ pc[w] \in Building \cup {"opened"} /\ pc[w] = Entry(w) => Handle(w) \in Inodes
  BY DEF TypeOK, IInv, HandleIsCurrent, CopyIsPrivate, Handle, Entry, Building, Holding

\* The variables have their types at first.
LEMMA TypeInit == Init => TypeOK
<1> SUFFICES ASSUME Init PROVE TypeOK
  OBVIOUS
<1>1. content \in [Inodes -> Content]
  <2>1. <<>> \in Seq(Writers)
    OBVIOUS
  <2>2. ASSUME NEW i \in Inodes PROVE [applied |-> <<>>, torn |-> i # path] \in Content
    BY <2>1, (i # path) \in BOOLEAN DEF Content
  <2> QED BY <2>2 DEF Init
<1>2. history \in Seq(Writers) /\ faults \in Nat
  BY DEF Init
<1> QED BY <1>1, <1>2 DEF Init, TypeOK, Steps, Holding, Building

\* Every step keeps them, given what the lock and the handles stand for.
LEMMA TypeStep == TypeOK /\ IInv /\ [Next]_vars => TypeOK'
<1> SUFFICES ASSUME TypeOK, IInv, [Next]_vars PROVE TypeOK'
  OBVIOUS
<1> USE DEF TypeOK, Steps, Holding, Building, names, calls, Goto
<1>1. ASSUME NEW w \in Writers, CreateLock(w) PROVE TypeOK'
  BY <1>1 DEF CreateLock
<1>2. ASSUME NEW w \in Writers, LockExists(w) PROVE TypeOK'
  BY <1>2 DEF LockExists
<1>3. ASSUME NEW w \in Writers, OpenCurrent(w) PROVE TypeOK'
  BY <1>3 DEF OpenCurrent
<1>4. ASSUME NEW w \in Writers, OpenRefused(w) PROVE TypeOK'
  BY <1>4 DEF OpenRefused
<1>5. ASSUME NEW w \in Writers, CloseLock(w) PROVE TypeOK'
  BY <1>5 DEF CloseLock, Leave
<1>6. ASSUME NEW w \in Writers, CloseLockFails(w) PROVE TypeOK'
  BY <1>6 DEF CloseLockFails, Leave
<1>7. ASSUME NEW w \in Writers, CreateCopy(w) PROVE TypeOK'
  <2>1. PICK i \in Inodes \ InUse :
          /\ tmp' = i
          /\ mine' = [mine EXCEPT ![w] = i]
          /\ content' = [content EXCEPT ![i] = [applied |-> <<>>, torn |-> TRUE]]
    BY <1>7 DEF CreateCopy
  <2>2. content' \in [Inodes -> Content]
    BY <2>1 DEF Content
  <2> QED BY <1>7, <2>1, <2>2 DEF CreateCopy
<1>8. ASSUME NEW w \in Writers, CopyExists(w) PROVE TypeOK'
  BY <1>8 DEF CopyExists
<1>9. ASSUME NEW w \in Writers, Copy(w) PROVE TypeOK'
  <2>1. content' \in [Inodes -> Content]
    BY <1>9, HandleExists DEF Copy
  <2> QED BY <1>9, <2>1 DEF Copy
<1>10. ASSUME NEW w \in Writers, CopyFails(w) PROVE TypeOK'
  BY <1>10 DEF CopyFails
<1>11. ASSUME NEW w \in Writers, Replace(w) PROVE TypeOK'
  BY <1>11 DEF Replace
<1>12. ASSUME NEW w \in Writers, DropTemp(w) PROVE TypeOK'
  BY <1>12 DEF DropTemp
<1>13. ASSUME NEW w \in Writers, CloseTemp(w) PROVE TypeOK'
  BY <1>13 DEF CloseTemp
<1>14. ASSUME NEW w \in Writers, CloseTempFails(w) PROVE TypeOK'
  BY <1>14 DEF CloseTempFails
<1>15. ASSUME NEW w \in Writers, BeginUpdate(w) PROVE TypeOK'
  <2>1. Handle(w) \in Inodes
    BY <1>15, HandleExists DEF BeginUpdate, Entry
  <2>4. content' \in [Inodes -> Content]
    BY <1>15, <2>1 DEF BeginUpdate, Content
  <2> QED BY <1>15, <2>4 DEF BeginUpdate
<1>16. ASSUME NEW w \in Writers, FinishUpdate(w) PROVE TypeOK'
  <2>1. Handle(w) \in Inodes
    BY <1>16, HandleExists DEF FinishUpdate, Handle
  <2>2. Append(content[Handle(w)].applied, w) \in Seq(Writers) /\ Append(history, w) \in Seq(Writers)
    BY <2>1 DEF Content
  <2>3. content' \in [Inodes -> Content]
    BY <1>16, <2>1, <2>2 DEF FinishUpdate, Content
  <2> QED BY <1>16, <2>2, <2>3 DEF FinishUpdate
<1>17. ASSUME NEW w \in Writers, UpdateFails(w) PROVE TypeOK'
  BY <1>17 DEF UpdateFails
<1>18. ASSUME NEW w \in Writers, Die(w) PROVE TypeOK'
  BY <1>18 DEF Die
<1>19. ASSUME NEW r \in Readers, Open(r) \/ Close(r) PROVE TypeOK'
  BY <1>19 DEF Open, Close
<1>20. CASE RemoveLeftovers
  BY <1>20 DEF RemoveLeftovers
<1>21. CASE UNCHANGED vars
  BY <1>21 DEF vars
<1> QED
  BY <1>1, <1>2, <1>3, <1>4, <1>5, <1>6, <1>7, <1>8, <1>9, <1>10, <1>11, <1>12, <1>13, <1>14, <1>15, <1>16, <1>17, <1>18, <1>19, <1>20, <1>21
  DEF Next, WriterStep

-------------------------------------------------------------------------------
\* The invariant holds before anybody calls.
LEMMA InvInit == Init => IInv
  BY DEF Init, IInv, NoLostUpdate, OneHolder, HandleIsCurrent, CopyIsPrivate,
         CopyFollowsTarget, ResultIsLast, Holding, Building

\* Every step of every writer, reader, death and operator keeps it.
LEMMA InvStep == TypeOK /\ TypeOK' /\ IInv /\ [Next]_vars => IInv'
<1> SUFFICES ASSUME TypeOK, TypeOK', IInv, [Next]_vars PROVE IInv'
  OBVIOUS
<1> USE DEF TypeOK, IInv, OneHolder, HandleIsCurrent, CopyIsPrivate, CopyFollowsTarget,
            ResultIsLast, NoLostUpdate, Steps, Holding, Building, names, calls, Goto
<1>1. ASSUME NEW w \in Writers, CreateLock(w) PROVE IInv'
  BY <1>1 DEF CreateLock
<1>2. ASSUME NEW w \in Writers, LockExists(w) PROVE IInv'
  BY <1>2 DEF LockExists
<1>3. ASSUME NEW w \in Writers, OpenCurrent(w) PROVE IInv'
  BY <1>3 DEF OpenCurrent
<1>4. ASSUME NEW w \in Writers, OpenRefused(w) PROVE IInv'
  BY <1>4 DEF OpenRefused
<1>5. ASSUME NEW w \in Writers, CloseLock(w) PROVE IInv'
  BY <1>5 DEF CloseLock, Leave
<1>6. ASSUME NEW w \in Writers, CloseLockFails(w) PROVE IInv'
  BY <1>6 DEF CloseLockFails, Leave
<1>7. ASSUME NEW w \in Writers, CreateCopy(w) PROVE IInv'
  <2>1. PICK i \in Inodes \ InUse :
          /\ tmp' = i
          /\ mine' = [mine EXCEPT ![w] = i]
          /\ content' = [content EXCEPT ![i] = [applied |-> <<>>, torn |-> TRUE]]
    BY <1>7 DEF CreateCopy
  <2>2. i # path /\ (\A r \in Readers : rd[r] # i)
    BY DEF InUse
  <2>3. NoLostUpdate' /\ OneHolder' /\ HandleIsCurrent' /\ ResultIsLast'
    BY <1>7, <2>1, <2>2 DEF CreateCopy
  <2>4. CopyIsPrivate'
    BY <1>7, <2>1, <2>2 DEF CreateCopy
  <2>5. CopyFollowsTarget'
    BY <1>7, <2>1, <2>2 DEF CreateCopy
  <2> QED BY <2>3, <2>4, <2>5
<1>8. ASSUME NEW w \in Writers, CopyExists(w) PROVE IInv'
  BY <1>8 DEF CopyExists
<1>9. ASSUME NEW w \in Writers, Copy(w) PROVE IInv'
  BY <1>9 DEF Copy
<1>10. ASSUME NEW w \in Writers, CopyFails(w) PROVE IInv'
  BY <1>10 DEF CopyFails
<1>11. ASSUME NEW w \in Writers, Replace(w) PROVE IInv'
  BY <1>11 DEF Replace
<1>12. ASSUME NEW w \in Writers, DropTemp(w) PROVE IInv'
  BY <1>12 DEF DropTemp
<1>13. ASSUME NEW w \in Writers, CloseTemp(w) PROVE IInv'
  BY <1>13 DEF CloseTemp
<1>14. ASSUME NEW w \in Writers, CloseTempFails(w) PROVE IInv'
  BY <1>14 DEF CloseTempFails
<1>15. ASSUME NEW w \in Writers, BeginUpdate(w) PROVE IInv'
  BY <1>15 DEF BeginUpdate, Handle, Entry
<1>16. ASSUME NEW w \in Writers, FinishUpdate(w) PROVE IInv'
  <2>1. CASE mode[w] = "copy"
    <3>1. /\ Handle(w) = tmp /\ tmp # path /\ tmp \in Inodes
          /\ content[tmp].applied = history
      BY <1>16, <2>1 DEF FinishUpdate, Handle
    <3>2. /\ UNCHANGED <<path, lock, tmp, mode, orig, mine, rd>>
          /\ content' = [content EXCEPT ![tmp] = [applied |-> Append(history, w), torn |-> FALSE]]
          /\ pc' = [pc EXCEPT ![w] = "updated"]
          /\ UNCHANGED <<outcome, history>>
      BY <1>16, <2>1, <3>1 DEF FinishUpdate
    <3>3. NoLostUpdate' /\ OneHolder' /\ HandleIsCurrent' /\ CopyIsPrivate' /\ ResultIsLast'
      BY <1>16, <2>1, <3>1, <3>2 DEF FinishUpdate
    <3>4. \A v \in Writers : v # w => pc'[v] \notin Building
      BY <1>16, <3>2 DEF FinishUpdate
    <3>5. pc'[w] = "updated" /\ content'[tmp'] = [applied |-> Append(history', w), torn |-> FALSE]
      BY <3>1, <3>2
    <3>6. CopyFollowsTarget'
      BY <3>4, <3>5
    <3> QED BY <3>3, <3>6
  <2>2. CASE mode[w] # "copy"
    <3>1. Handle(w) = path
      BY <1>16, <2>2 DEF FinishUpdate, Handle
    <3>2. /\ UNCHANGED <<path, lock, tmp, mode, orig, mine, rd>>
          /\ content' = [content EXCEPT ![path] = [applied |-> Append(history, w), torn |-> FALSE]]
          /\ pc' = [pc EXCEPT ![w] = "closing"]
          /\ history' = Append(history, w)
          /\ outcome' = [outcome EXCEPT ![w] = "ok"]
      BY <1>16, <2>2, <3>1 DEF FinishUpdate
    <3>3. NoLostUpdate'
      BY <3>2
    <3>4. OneHolder' /\ HandleIsCurrent' /\ CopyIsPrivate' /\ ResultIsLast'
      BY <1>16, <2>2, <3>2 DEF FinishUpdate
    <3>5. \A v \in Writers : pc'[v] \notin Building
      BY <1>16, <3>2 DEF FinishUpdate
    <3>6. CopyFollowsTarget'
      BY <3>5
    <3> QED BY <3>3, <3>4, <3>6
  <2> QED BY <2>1, <2>2
<1>17. ASSUME NEW w \in Writers, UpdateFails(w) PROVE IInv'
  BY <1>17 DEF UpdateFails
<1>18. ASSUME NEW w \in Writers, Die(w) PROVE IInv'
  BY <1>18 DEF Die
<1>19. ASSUME NEW r \in Readers, Open(r) \/ Close(r) PROVE IInv'
  <2>1. UNCHANGED <<content, names, calls, history, faults>>
    BY <1>19 DEF Open, Close
  <2>2. NoLostUpdate' /\ OneHolder' /\ HandleIsCurrent' /\ ResultIsLast'
    BY <2>1
  <2>3. CopyFollowsTarget'
    BY <2>1
  <2>4. \A q \in Readers : rd'[q] \in {path, None, rd[q]}
    BY <1>19 DEF Open, Close
  <2>5. CopyIsPrivate'
    <3>1. tmp' # path'
      BY <2>1
    <3>2. tmp' # None => \A q \in Readers : rd'[q] # tmp'
      BY <2>1, <2>4
    <3>3. \A w \in Writers :
            /\ pc'[w] \in {"temp", "copied", "updated", "replaced", "cleanup"} => mode'[w] = "copy"
            /\ pc'[w] \in Building /\ mode'[w] = "copy" => tmp' # None /\ tmp' = mine'[w]
      BY <2>1
    <3> QED
      BY <3>1, <3>2, <3>3
  <2> QED
    BY <2>2, <2>3, <2>5
<1>20. CASE RemoveLeftovers
  BY <1>20 DEF RemoveLeftovers
<1>21. CASE UNCHANGED vars
  BY <1>21 DEF vars
<1> QED
  BY <1>1, <1>2, <1>3, <1>4, <1>5, <1>6, <1>7, <1>8, <1>9, <1>10, <1>11, <1>12, <1>13, <1>14, <1>15, <1>16, <1>17, <1>18, <1>19, <1>20, <1>21
  DEF Next, WriterStep

-------------------------------------------------------------------------------
\* Type correctness and the inductive invariant hold throughout.  Neither is
\* inductive alone: that a copied inode has a type rests on the handle being
\* current.
THEOREM Invariance == Spec => [](TypeOK /\ IInv)
<1>1. Init => TypeOK /\ IInv
  BY TypeInit, InvInit
<1>2. TypeOK /\ IInv /\ [Next]_vars => TypeOK' /\ IInv'
  BY TypeStep, InvStep
<1> QED BY <1>1, <1>2, PTL DEF Spec

\* Every variable keeps its type; in particular the target's name always leads
\* to an inode.
THEOREM TypeCorrect == Spec => []TypeOK
BY Invariance, PTL

\* No published update is ever missing from the target, in whatever mix of
\* copy_and_replace and with_file_lock, deaths and failed unlinks included.
THEOREM UpdatesAreKept == Spec => []NoLostUpdate
<1>1. IInv => NoLostUpdate
  BY DEF IInv
<1> QED BY <1>1, Invariance, PTL

\* No call, failure or cleanup takes the lock or the private copy of a writer
\* that is using it.
THEOREM NamesAreKept == Spec => NamesAreOurs
<1>1. TypeOK /\ TypeOK' /\ IInv /\ IInv' /\ [Next]_vars =>
        [\A w \in Writers : pc'[w] = pc[w] =>
           /\ pc[w] \in Holding => lock'
           /\ pc[w] \in Building /\ mode[w] = "copy" => tmp' = mine[w]]_vars
  <2> SUFFICES ASSUME TypeOK, TypeOK', IInv, IInv', Next,
                      NEW v \in Writers, pc'[v] = pc[v]
               PROVE  /\ pc[v] \in Holding => lock'
                      /\ pc[v] \in Building /\ mode[v] = "copy" => tmp' = mine[v]
    OBVIOUS
  <2>1. pc[v] \in Holding => lock'
    BY DEF IInv, OneHolder
  <2>2. pc[v] \in Holding => mode'[v] = mode[v] /\ mine'[v] = mine[v]
    <3> SUFFICES ASSUME pc[v] \in Holding PROVE mode'[v] = mode[v] /\ mine'[v] = mine[v]
      OBVIOUS
    <3> USE DEF TypeOK, Steps, Holding, Building, names, calls, Goto
    <3>1. ASSUME NEW w \in Writers, CreateLock(w) \/ LockExists(w) \/ Die(w)
          PROVE mode'[v] = mode[v] /\ mine'[v] = mine[v]
      BY <3>1 DEF CreateLock, LockExists, Die
    <3>2. ASSUME NEW w \in Writers, WriterStep(w)
          PROVE mode'[v] = mode[v] /\ mine'[v] = mine[v]
      BY <3>2 DEF WriterStep, OpenCurrent, OpenRefused, CloseLock, CloseLockFails, Leave,
           CreateCopy, CopyExists, Copy, CopyFails, Replace, DropTemp, CloseTemp,
           CloseTempFails, BeginUpdate, FinishUpdate, UpdateFails
    <3> QED BY <3>1, <3>2 DEF Next, Open, Close, RemoveLeftovers
  <2>3. pc[v] \in Building /\ mode[v] = "copy" => tmp' = mine[v]
    BY <2>2 DEF IInv, CopyIsPrivate, Building, Holding
  <2> QED BY <2>1, <2>3
<1> QED BY <1>1, Invariance, PTL DEF Spec, NamesAreOurs

-------------------------------------------------------------------------------
(***************************************************************************)
(* Every writer goes through copy_and_replace.                             *)
(***************************************************************************)

\* "Copy or callback failure leaves the target unchanged": the target can be
\* read at every moment, and holds every published update.
THEOREM TargetIsWhole ==
  ASSUME Modes = {"copy"} PROVE Spec => []TargetWhole
<1>1. Init => TargetWhole
  <2> SUFFICES ASSUME Init PROVE content[path].torn = FALSE
    BY DEF TargetWhole
  <2>1. content[path].torn = (path # path)
    BY DEF Init
  <2> QED BY <2>1
<1>2. TypeOK /\ IInv /\ TargetWhole /\ [Next]_vars => TargetWhole'
  <2> SUFFICES ASSUME TypeOK, IInv, TargetWhole, [Next]_vars
               PROVE TargetWhole'
    OBVIOUS
  <2>1. \A w \in Writers : mode[w] = "copy"
    BY DEF TypeOK
  <2> USE <2>1 DEF TargetWhole, names, calls, Goto
  <2>2. ASSUME NEW w \in Writers, CreateCopy(w) PROVE TargetWhole'
    BY <2>2 DEF CreateCopy, InUse
  <2>3. ASSUME NEW w \in Writers, Copy(w) PROVE TargetWhole'
    BY <2>3, HandleExists DEF Copy, Building
  <2>4. ASSUME NEW w \in Writers, Replace(w) PROVE TargetWhole'
    <3>1. content[tmp] = [applied |-> Append(history, w), torn |-> FALSE]
      BY <2>4 DEF Replace, IInv, CopyFollowsTarget
    <3>2. content'[path'] = content[tmp]
      BY <2>4 DEF Replace
    <3> QED BY <3>1, <3>2
  <2>5. ASSUME NEW w \in Writers, BeginUpdate(w) PROVE TargetWhole'
    BY <2>5, HandleExists DEF BeginUpdate, Handle, Entry, Building
  <2>6. ASSUME NEW w \in Writers, FinishUpdate(w) PROVE TargetWhole'
    BY <2>6, HandleExists DEF FinishUpdate, Handle, Building
  <2>7. ASSUME UNCHANGED <<content, path>> PROVE TargetWhole'
    BY <2>7
  <2>8. ASSUME NEW w \in Writers, WriterStep(w) PROVE TargetWhole'
    BY <2>2, <2>3, <2>4, <2>5, <2>6, <2>7, <2>8
       DEF WriterStep, OpenCurrent, OpenRefused, CloseLock, CloseLockFails, Leave, CopyExists,
           CopyFails, DropTemp, CloseTemp, CloseTempFails, UpdateFails
  <2> QED
    BY <2>7, <2>8 DEF Next, CreateLock, LockExists, Die, Open, Close, RemoveLeftovers, vars
<1> QED BY <1>1, <1>2, Invariance, PTL DEF Spec

\* "On replacement, existing readers keep the old file": nothing a writer does
\* changes what a reader holds open.
THEOREM ReadersKeepTheirFile ==
  ASSUME Modes = {"copy"} PROVE Spec => ReaderKeepsItsFile
<1>1. TypeOK /\ IInv /\ [Next]_vars =>
        [\A r \in Readers : rd[r] # None /\ rd'[r] = rd[r] => content'[rd[r]] = content[rd[r]]]_vars
  <2> SUFFICES ASSUME TypeOK, IInv, Next,
                      NEW r \in Readers, rd[r] # None
               PROVE content'[rd[r]] = content[rd[r]]
    OBVIOUS
  <2>1. \A w \in Writers : mode[w] = "copy"
    BY DEF TypeOK
  <2>2. rd[r] \in Inodes /\ rd[r] # tmp
    BY DEF TypeOK, IInv, CopyIsPrivate
  <2> USE <2>1, <2>2 DEF names, calls, Goto
  <2>3. ASSUME NEW w \in Writers, CreateCopy(w) PROVE content'[rd[r]] = content[rd[r]]
    BY <2>3 DEF CreateCopy, InUse
  <2>4. ASSUME NEW w \in Writers, Copy(w) PROVE content'[rd[r]] = content[rd[r]]
    BY <2>4, HandleExists DEF Copy, Building
  <2>5. ASSUME NEW w \in Writers, BeginUpdate(w) PROVE content'[rd[r]] = content[rd[r]]
    BY <2>5, HandleExists DEF BeginUpdate, Handle, Entry, Building
  <2>6. ASSUME NEW w \in Writers, FinishUpdate(w) PROVE content'[rd[r]] = content[rd[r]]
    BY <2>6, HandleExists DEF FinishUpdate, Handle, Building
  <2>7. ASSUME NEW w \in Writers, WriterStep(w) PROVE content'[rd[r]] = content[rd[r]]
    BY <2>3, <2>4, <2>5, <2>6, <2>7
       DEF WriterStep, OpenCurrent, OpenRefused, CloseLock, CloseLockFails, Leave, CopyExists,
           CopyFails, Replace, DropTemp, CloseTemp, CloseTempFails, UpdateFails
  <2> QED
    BY <2>7 DEF Next, CreateLock, LockExists, Die, Open, Close, RemoveLeftovers
<1> QED BY <1>1, Invariance, PTL DEF Spec, ReaderKeepsItsFile

-------------------------------------------------------------------------------
(***************************************************************************)
(* The refinement of AtomicFile                                            *)
(***************************************************************************)
Value  == content[path].applied
Call   == [w \in Writers |-> CallState(w)]
Answer == [w \in Writers |-> IF pc[w] = "idle" THEN outcome[w] ELSE "none"]

\* A step that leaves the target's updates and every caller's view as they were.
LEMMA Silent ==
  ASSUME UNCHANGED <<Value, Call, Answer>> PROVE UNCHANGED Atomic!vars
  BY DEF Atomic!vars, Value, Call, Answer

\* A call under way changes nothing a caller sees until it publishes.
LEMMA SilentSteps ==
  ASSUME TypeOK, IInv, NEW w \in Writers,
         \/ OpenCurrent(w) \/ OpenRefused(w) \/ CreateCopy(w) \/ CopyExists(w) \/ Copy(w)
         \/ CopyFails(w) \/ DropTemp(w) \/ CloseTemp(w) \/ CloseTempFails(w)
         \/ BeginUpdate(w) \/ (FinishUpdate(w) /\ mode[w] = "copy") \/ UpdateFails(w)
  PROVE  UNCHANGED <<Value, Call, Answer>>
<1> USE DEF TypeOK, names, calls, Goto
<1>1. UNCHANGED Value
  <2>1. ASSUME CreateCopy(w) PROVE UNCHANGED Value
    BY <2>1 DEF CreateCopy, InUse, Value
  <2>2. ASSUME Copy(w) PROVE UNCHANGED Value
    BY <2>2, HandleExists DEF Copy, Building, Value, IInv, CopyIsPrivate
  <2>3. ASSUME BeginUpdate(w) PROVE UNCHANGED Value
    <3>1. path' = path /\ content'[path].applied = content[path].applied
      BY <2>3 DEF BeginUpdate, Content
    <3> QED BY <3>1 DEF Value
  <2>4. ASSUME FinishUpdate(w), mode[w] = "copy" PROVE UNCHANGED Value
    BY <2>4, HandleExists DEF FinishUpdate, Handle, Building, Value
  <2> QED
    BY <2>1, <2>2, <2>3, <2>4 DEF OpenCurrent, OpenRefused, CopyExists, CopyFails, DropTemp,
       CloseTemp, CloseTempFails, UpdateFails, Value
<1>2. /\ pc[w] # "idle" /\ pc'[w] # "idle"
      /\ (outcome'[w] = "ok") = (outcome[w] = "ok")
      /\ \A v \in Writers : v # w => pc'[v] = pc[v] /\ outcome'[v] = outcome[v]
  BY DEF OpenCurrent, OpenRefused, CreateCopy, CopyExists, Copy, CopyFails, DropTemp, CloseTemp,
     CloseTempFails, BeginUpdate, FinishUpdate, UpdateFails, IInv, ResultIsLast, Steps, Holding,
     Building, Entry
<1>3. UNCHANGED <<Call, Answer>>
  BY <1>2 DEF Call, Answer, CallState
<1> QED BY <1>1, <1>3

\* copy_and_replace and with_file_lock give their caller one atomic update per
\* call: whatever their steps interleave with, the target changes at one of
\* them, and an Ok means it did.
THEOREM Refinement == Spec => AtomicUpdate
<1>1. Init => Atomic!Init
  BY DEF Init, Atomic!Init, CallState
<1>2. TypeOK /\ TypeOK' /\ IInv /\ [Next]_vars => [Atomic!Next]_(Atomic!vars)
  <2> SUFFICES ASSUME TypeOK, TypeOK', IInv, [Next]_vars
               PROVE Atomic!Next \/ UNCHANGED Atomic!vars
    OBVIOUS
  <2> USE DEF TypeOK, names, calls, Goto
  <2>1. ASSUME NEW w \in Writers, CreateLock(w) PROVE Atomic!Next
    <3>1. Atomic!Start(w)
      BY <2>1 DEF CreateLock, Atomic!Start, CallState
    <3> QED BY <3>1 DEF Atomic!Next
  <2>2. ASSUME NEW w \in Writers, LockExists(w) PROVE Atomic!Next
    <3>1. UNCHANGED <<Value, Call>> /\ Call[w] = "idle"
      BY <2>2 DEF LockExists, Value, Call, CallState
    <3>2. Answer' = [Answer EXCEPT ![w] = "failed"]
      BY <2>2 DEF LockExists, Answer
    <3>3. Atomic!Refuse(w)
      BY <3>1, <3>2 DEF Atomic!Refuse, Value, Call, Answer
    <3> QED BY <3>3 DEF Atomic!Next
  <2>3. ASSUME NEW w \in Writers, Replace(w) PROVE Atomic!Next
    <3>1. content'[path'].applied = Append(content[path].applied, w)
      BY <2>3 DEF Replace, IInv, CopyFollowsTarget, NoLostUpdate
    <3>2. Atomic!Publish(w)
      BY <2>3, <3>1 DEF Replace, Atomic!Publish, CallState, IInv, ResultIsLast, Holding, Building
    <3> QED BY <3>2 DEF Atomic!Next
  <2>4. ASSUME NEW w \in Writers, FinishUpdate(w), mode[w] # "copy" PROVE Atomic!Next
    <3>1. content'[path'].applied = Append(content[path].applied, w)
      BY <2>4, HandleExists DEF FinishUpdate, Building
    <3>2. pc' = [pc EXCEPT ![w] = "closing"] /\ outcome' = [outcome EXCEPT ![w] = "ok"]
      BY <2>4 DEF FinishUpdate
    <3>3. Atomic!Publish(w)
      BY <2>4, <3>1, <3>2 DEF FinishUpdate, Atomic!Publish, CallState, IInv, ResultIsLast,
         Holding, Building
    <3> QED BY <3>3 DEF Atomic!Next
  <2>5. ASSUME NEW w \in Writers, CloseLock(w) \/ CloseLockFails(w) PROVE Atomic!Next
    <3>1. PICK result \in {outcome[w], "failed"} : Leave(w, result)
      BY <2>5 DEF CloseLock, CloseLockFails
    <3>2. /\ result \in (IF Call[w] = "published" THEN {"ok", "failed"} ELSE {"failed"})
          /\ Call[w] # "idle"
      BY <3>1 DEF Leave, IInv, ResultIsLast, Call, CallState
    <3>3. UNCHANGED Value /\ Call' = [Call EXCEPT ![w] = "idle"]
      BY <3>1 DEF Leave, Value, Call, CallState
    <3>4. Answer' = [Answer EXCEPT ![w] = result]
      BY <3>1 DEF Leave, Answer
    <3>5. Atomic!Return(w)
      BY <3>2, <3>3, <3>4 DEF Atomic!Return, Value, Call, Answer
    <3> QED BY <3>5 DEF Atomic!Next
  <2>6. ASSUME NEW w \in Writers, Die(w) PROVE Atomic!Next
    <3>1. UNCHANGED <<Value, Answer>> /\ Call[w] # "idle"
      BY <2>6 DEF Die, Value, Answer, Call, CallState
    <3>2. Call' = [Call EXCEPT ![w] = "idle"]
      BY <2>6 DEF Die, Call, CallState
    <3>3. Atomic!Die(w)
      BY <3>1, <3>2 DEF Atomic!Die, Value, Call, Answer
    <3> QED BY <3>3 DEF Atomic!Next
  <2>7. ASSUME NEW w \in Writers, WriterStep(w) PROVE Atomic!Next \/ UNCHANGED Atomic!vars
    BY <2>3, <2>4, <2>5, <2>7, SilentSteps, Silent DEF WriterStep
  <2>8. ASSUME NEW r \in Readers, Open(r) \/ Close(r) PROVE UNCHANGED Atomic!vars
    BY <2>8 DEF Open, Close, Atomic!vars, CallState
  <2>9. CASE RemoveLeftovers
    BY <2>9 DEF RemoveLeftovers, Atomic!vars, CallState
  <2>10. CASE UNCHANGED vars
    BY <2>10 DEF vars, Atomic!vars, CallState
  <2> QED BY <2>1, <2>2, <2>6, <2>7, <2>8, <2>9, <2>10 DEF Next
<1> QED BY <1>1, <1>2, Invariance, PTL DEF Spec, AtomicUpdate, Atomic!Spec
===============================================================================
