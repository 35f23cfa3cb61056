----------------------------- MODULE NodeIdentity -----------------------------
(***************************************************************************)
(* Config::node_identity without OPENSTAR_NODE_ID: start-ups of the worker  *)
(* on one state directory read the file node-id or create it.  They may     *)
(* overlap, crash at any point and lose power; the file is all that lasts.  *)
(***************************************************************************)
EXTENDS Naturals, FiniteSets

CONSTANTS
  Starters,      \* start-ups that may be under way
  Ids,           \* the UUIDs Uuid::new_v4 may draw: bounds the files created
  MaxRunning     \* how many start-ups overlap

ASSUME IdentityAssumption ==
  /\ "absent" \notin Ids /\ "broken" \notin Ids
  /\ IsFiniteSet(Starters)
  /\ MaxRunning \in Nat \ {0}

VARIABLES
  pc,        \* where each start-up is
  mine,      \* the id it drew
  file,      \* node-id as every process sees it
  disk,      \* node-id as it survives a power loss
  drawn,     \* history: ids drawn so far
  returned,  \* history: ids node_identity returned, for use in registration
  torn       \* history: a power loss took away what was in the file

vars == <<pc, mine, file, disk, drawn, returned, torn>>

\* A file without a UUID in it, created but not (completely) written.
Contents == Ids \cup {"absent", "broken"}

\* down: not running        draw: read NotFound       create: about to open
\* write: created the file  sync: wrote it          reread: open said AlreadyExists
\* up: returned Ok          failed: returned Err
Points == {"down", "read", "draw", "create", "write", "sync", "reread", "up", "failed"}

Running == {p \in Starters : pc[p] \notin {"down", "failed"}}

Init ==
  /\ pc = [p \in Starters |-> "down"]
  /\ mine = [p \in Starters |-> "absent"]
  /\ file = "absent"
  /\ disk = "absent"
  /\ drawn = {}
  /\ returned = {}
  /\ torn = FALSE

Goto(p, there) == pc' = [pc EXCEPT ![p] = there]

Start(p) ==
  /\ pc[p] \in {"down", "failed"}
  /\ Cardinality(Running) < MaxRunning
  /\ Goto(p, "read")
  /\ UNCHANGED <<mine, file, disk, drawn, returned, torn>>

\* Mutant: the content is taken as it is.
Parse_Unchecked(p) ==
  /\ Goto(p, "up") /\ returned' = returned \cup {file}
  /\ UNCHANGED <<mine, file, disk, drawn, torn>>

\* value.trim().parse()?
Parse(p) ==
  /\ IF file \in Ids
     THEN Goto(p, "up") /\ returned' = returned \cup {file}
     ELSE Goto(p, "failed") /\ UNCHANGED returned
  /\ UNCHANGED <<mine, file, disk, drawn, torn>>

Read(p) ==
  /\ pc[p] = "read"
  /\ file # "absent"
  /\ Parse(p)

ReadNotFound(p) ==
  /\ pc[p] = "read"
  /\ file = "absent"
  /\ Goto(p, "draw")
  /\ UNCHANGED <<mine, file, disk, drawn, returned, torn>>

\* create_dir_all, then Uuid::new_v4.
Draw(p) ==
  /\ pc[p] = "draw"
  /\ \E id \in Ids \ drawn :
       /\ mine' = [mine EXCEPT ![p] = id]
       /\ drawn' = drawn \cup {id}
  /\ Goto(p, "create")
  /\ UNCHANGED <<file, disk, returned, torn>>

\* Mutant: create and truncate.
CreateNew_Truncates(p) ==
  /\ pc[p] = "create"
  /\ Goto(p, "write") /\ file' = "broken"
  /\ UNCHANGED <<mine, disk, drawn, returned, torn>>

\* OpenOptions::create_new is exclusive.
CreateNew(p) ==
  /\ pc[p] = "create"
  /\ IF file = "absent"
     THEN Goto(p, "write") /\ file' = "broken"
     ELSE Goto(p, "reread") /\ UNCHANGED file
  /\ UNCHANGED <<mine, disk, drawn, returned, torn>>

\* Mutant: AlreadyExists is ignored and the drawn id used.
Reread_KeepsOwn(p) ==
  /\ pc[p] = "reread"
  /\ Goto(p, "up") /\ returned' = returned \cup {mine[p]}
  /\ UNCHANGED <<mine, file, disk, drawn, torn>>

Reread(p) == pc[p] = "reread" /\ Parse(p)

WriteAll(p) ==
  /\ pc[p] = "write"
  /\ file' = mine[p]
  /\ Goto(p, "sync")
  /\ UNCHANGED <<mine, disk, drawn, returned, torn>>

SyncAll(p) ==
  /\ pc[p] = "sync"
  /\ disk' = file
  /\ returned' = returned \cup {mine[p]}
  /\ Goto(p, "up")
  /\ UNCHANGED <<mine, file, drawn, torn>>

\* An I/O error of any of the calls, create_dir_all at "draw" included; what was done to the file stays done.
IoError(p) ==
  /\ pc[p] \in {"read", "draw", "create", "write", "sync", "reread"}
  /\ Goto(p, "failed")
  /\ UNCHANGED <<mine, file, disk, drawn, returned, torn>>

\* The process ends, in the middle of node_identity or long after it.
End(p) ==
  /\ p \in Running
  /\ Goto(p, "down")
  /\ UNCHANGED <<mine, file, disk, drawn, returned, torn>>

\* Everything stops.  Content that was not synced may be there, lost or cut short.
PowerLoss ==
  /\ pc' = [p \in Starters |-> "down"]
  /\ file' \in IF file = disk THEN {disk} ELSE {disk, file, "broken"}
  /\ disk' = file'
  /\ torn' = (torn \/ file' # file)
  /\ UNCHANGED <<mine, drawn, returned>>

Next ==
  \/ \E p \in Starters :
       \/ Start(p) \/ Read(p) \/ ReadNotFound(p) \/ Draw(p) \/ CreateNew(p)
       \/ Reread(p) \/ WriteAll(p) \/ SyncAll(p) \/ IoError(p) \/ End(p)
  \/ PowerLoss

Spec == Init /\ [][Next]_vars

-----------------------------------------------------------------------------
TypeOK ==
  /\ pc \in [Starters -> Points]
  /\ mine \in [Starters -> Ids \cup {"absent"}]
  /\ file \in Contents
  /\ disk \in Contents
  /\ drawn \in SUBSET Ids
  /\ returned \in SUBSET Ids
  /\ torn \in BOOLEAN

\* Whatever start-ups overlap or crash, all that ever got past node_identity on
\* this directory got the same id, as long as no power loss undid a write.
Agreement == ~torn => \A a, b \in returned : a = b

\* Where an id was ever returned, it is what the file says: the next start-up
\* finds it there, under the same condition.
ReturnedIsStored == ~torn /\ returned # {} => file \in returned

\* A UUID that reached the disk is never replaced, lost or damaged again, by any
\* later start-up, overlapping ones, crash or power loss.
DurableForever == [][(disk \in Ids) => disk' = disk]_vars

\* "If omitted, one is stored under OPENSTAR_STATE_DIR": a file without a UUID is
\* only ever seen while the start-up that created it is still about to write it.
StoredWhenCreated == file = "broken" => \E p \in Starters : pc[p] = "write"

\* "Registration supplies a persistent node UUID": no start-up on this directory
\* ever registers with another id than an earlier one, power losses included.
PersistentIdentity == \A a, b \in returned : a = b
=============================================================================
