-------------------------- MODULE NodeIdentityProofs --------------------------
(***************************************************************************)
(* Proofs about NodeIdentity, for any number of start-ups and ids.          *)
(***************************************************************************)
EXTENDS NodeIdentity, TLAPS

\* The file belongs to whoever created it until it has an id, and a durable id is
\* the file's.  This holds with and without power losses.
FileInv ==
  /\ TypeOK
  /\ \A p \in Starters : pc[p] = "write" => file = "broken"
  /\ \A p, q \in Starters : pc[p] = "write" /\ pc[q] = "write" => p = q
  /\ \A p \in Starters : pc[p] = "sync" => file = mine[p]
  /\ \A p \in Starters : pc[p] \in {"create", "write", "sync", "reread"} => mine[p] \in Ids
  /\ disk \in Ids => file = disk

\* Until a power loss undoes a write the file also remembers what was returned.
ReturnInv == ~torn /\ returned # {} => file \in Ids /\ returned = {file}

\* A state directory without the file satisfies both invariants.
LEMMA InitFileInv == Init => FileInv /\ ReturnInv
BY IdentityAssumption DEF Init, FileInv, ReturnInv, TypeOK, Contents, Points

\* The steps that leave the file and the disk alone.
LEMMA ReadingFileInv ==
  ASSUME FileInv, NEW p \in Starters,
         \/ Start(p) \/ Read(p) \/ ReadNotFound(p) \/ Draw(p) \/ Reread(p)
         \/ IoError(p) \/ End(p)
  PROVE  FileInv'
<1>1. CASE Start(p) \/ ReadNotFound(p) \/ IoError(p) \/ End(p)
  BY <1>1 DEF FileInv, TypeOK, Points, Goto, Start, ReadNotFound, IoError, End
<1>2. CASE Read(p) \/ Reread(p)
  BY <1>2 DEF FileInv, TypeOK, Points, Goto, Parse, Read, Reread
<1>3. CASE Draw(p)
  BY <1>3 DEF FileInv, TypeOK, Points, Goto, Draw
<1> QED
  BY <1>1, <1>2, <1>3

\* The steps that write, and the power loss.
LEMMA WritingFileInv ==
  ASSUME FileInv, NEW p \in Starters, CreateNew(p) \/ WriteAll(p) \/ SyncAll(p)
  PROVE  FileInv'
<1> USE IdentityAssumption DEF FileInv, TypeOK, Points, Contents, Goto
<1>1. CASE CreateNew(p)
  BY <1>1 DEF CreateNew
<1>2. CASE WriteAll(p)
  BY <1>2 DEF WriteAll
<1>3. CASE SyncAll(p)
  BY <1>3 DEF SyncAll
<1> QED
  BY <1>1, <1>2, <1>3

\* A power loss keeps a durable id and leaves no writer.
LEMMA PowerLossFileInv == FileInv /\ PowerLoss => FileInv'
BY IdentityAssumption DEF FileInv, TypeOK, Points, Contents, PowerLoss

\* No step breaks the file's invariant.
LEMMA NextFileInv == FileInv /\ [Next]_vars => FileInv'
<1> SUFFICES ASSUME FileInv, [Next]_vars PROVE FileInv'
  OBVIOUS
<1>1. CASE Next
  BY <1>1, ReadingFileInv, WritingFileInv, PowerLossFileInv DEF Next
<1>2. CASE UNCHANGED vars
  BY <1>2 DEF vars, FileInv, TypeOK
<1> QED
  BY <1>1, <1>2

\* Only the owner of a file without an id writes to it.
LEMMA NextReturnInv ==
  ASSUME FileInv, ReturnInv, [Next]_vars
  PROVE  ReturnInv'
<1> USE IdentityAssumption DEF FileInv, ReturnInv, TypeOK
<1>1. ASSUME NEW p \in Starters,
             Start(p) \/ ReadNotFound(p) \/ Draw(p) \/ IoError(p) \/ End(p)
      PROVE  ReturnInv'
  BY <1>1 DEF Start, ReadNotFound, Draw, IoError, End
<1>2. ASSUME NEW p \in Starters, Read(p) \/ Reread(p) PROVE ReturnInv'
  BY <1>2 DEF Read, Reread, Parse
<1>3. ASSUME NEW p \in Starters, CreateNew(p) PROVE ReturnInv'
  BY <1>3 DEF CreateNew
<1>4. ASSUME NEW p \in Starters, WriteAll(p) PROVE ReturnInv'
  BY <1>4 DEF WriteAll
<1>5. ASSUME NEW p \in Starters, SyncAll(p) PROVE ReturnInv'
  BY <1>5 DEF SyncAll
<1>6. CASE PowerLoss
  BY <1>6 DEF PowerLoss
<1>7. CASE UNCHANGED vars
  BY <1>7 DEF vars
<1> QED
  BY <1>1, <1>2, <1>3, <1>4, <1>5, <1>6, <1>7 DEF Next

\* Every reachable state has its type, power losses included.
THEOREM IdentityTypeCorrect == Spec => []TypeOK
<1>1. Init => FileInv
  BY InitFileInv
<1>2. FileInv => TypeOK
  BY DEF FileInv
<1> QED
  BY <1>1, <1>2, NextFileInv, PTL DEF Spec

\* An id that reached the disk is never replaced, power losses included.
THEOREM IdentityDurable == Spec => DurableForever
<1>1. Init => FileInv
  BY InitFileInv
<1>2. FileInv /\ FileInv' /\ [Next]_vars => ((disk \in Ids) => disk' = disk)
  <2> SUFFICES ASSUME FileInv, FileInv', [Next]_vars, disk \in Ids PROVE disk' = disk
    OBVIOUS
  <2>1. ASSUME NEW p \in Starters, SyncAll(p) PROVE disk' = disk
    BY <2>1 DEF SyncAll, FileInv
  <2>2. CASE PowerLoss
    BY <2>2 DEF PowerLoss, FileInv
  <2> QED
    BY <2>1, <2>2
    DEF Next, vars, Start, Read, ReadNotFound, Draw, CreateNew, Reread, Parse, WriteAll,
        IoError, End
<1> QED
  BY <1>1, <1>2, NextFileInv, PTL DEF Spec, DurableForever

\* Until a power loss undoes a write, all start-ups that got an id got the same
\* one.
THEOREM IdentityAgreement == Spec => []Agreement
<1>1. Init => FileInv /\ ReturnInv
  BY InitFileInv
<1>2. FileInv /\ ReturnInv /\ [Next]_vars => ReturnInv'
  BY NextReturnInv
<1>3. ReturnInv => Agreement
  BY DEF ReturnInv, Agreement
<1> QED
  BY <1>1, <1>2, <1>3, NextFileInv, PTL DEF Spec

\* And it is in the file, where the next start-up finds it.
THEOREM IdentityStored == Spec => []ReturnedIsStored
<1>1. Init => FileInv /\ ReturnInv
  BY InitFileInv
<1>2. FileInv /\ ReturnInv /\ [Next]_vars => ReturnInv'
  BY NextReturnInv
<1>3. ReturnInv => ReturnedIsStored
  BY DEF ReturnInv, ReturnedIsStored
<1> QED
  BY <1>1, <1>2, <1>3, NextFileInv, PTL DEF Spec
=============================================================================
