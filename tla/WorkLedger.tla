------------------------------ MODULE WorkLedger ------------------------------
(***************************************************************************)
(* What the worker promises its coordinator about the units it claims,      *)
(* without loops, permits, tasks or retries.  Module Worker implements it.  *)
(*                                                                         *)
(* Units are taken while the door is open.  Once a stop was requested at    *)
(* most one more claim may come in (the door is closing), then the door is  *)
(* shut, and the worker leaves only when it holds nothing.  A unit that was *)
(* settled or lost stays so.                                                *)
(***************************************************************************)
CONSTANT Units

VARIABLES
  books,  \* what became of each unit
  door    \* whether units are still taken

ledgerVars == <<books, door>>

LedgerTypeOK ==
  /\ books \in [Units -> {"none", "held", "done", "lost"}]
  /\ door \in {"open", "closing", "shut", "left"}

LedgerInit ==
  /\ books = [u \in Units |-> "none"]
  /\ door = "open"

Mark(S, how) == books' = [u \in Units |-> IF u \in S THEN how ELSE books[u]]
In(S, how)   == \A u \in S : books[u] = how

\* The last claim after a stop shuts the door.
LastClaim == door' = IF door = "closing" THEN "shut" ELSE door

Take(S) ==
  /\ door \in {"open", "closing"}
  /\ In(S, "none")
  /\ Mark(S, "held")
  /\ LastClaim

\* The coordinator handed out S but its answer never arrived.
Strand(S) ==
  /\ door \in {"open", "closing"}
  /\ In(S, "none")
  /\ Mark(S, "lost")
  /\ LastClaim

Settle(u) ==
  /\ door # "left"
  /\ books[u] = "held"
  /\ Mark({u}, "done")
  /\ UNCHANGED door

\* A task unwinds and takes the rest of its batch with it.
Lose(S) ==
  /\ door # "left"
  /\ In(S, "held")
  /\ Mark(S, "lost")
  /\ UNCHANGED door

Stop ==
  /\ door = "open"
  /\ door' \in {"closing", "shut"}
  /\ UNCHANGED books

Shut ==
  /\ door = "closing"
  /\ door' = "shut"
  /\ UNCHANGED books

Leave ==
  /\ door = "shut"
  /\ \A u \in Units : books[u] # "held"
  /\ door' = "left"
  /\ UNCHANGED books

\* The process dies, perhaps with a claim on the wire for S; the next one opens.
Die(S) ==
  /\ door # "left"
  /\ In(S, "none")
  /\ door = "shut" => S = {}
  /\ Mark(S \cup {u \in Units : books[u] = "held"}, "lost")
  /\ door' = "open"

LedgerNext ==
  \/ \E S \in SUBSET Units : Take(S) \/ Strand(S) \/ Lose(S) \/ Die(S)
  \/ \E u \in Units : Settle(u)
  \/ Stop \/ Shut \/ Leave

LedgerSpec == LedgerInit /\ [][LedgerNext]_ledgerVars
=============================================================================
