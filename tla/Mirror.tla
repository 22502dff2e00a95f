----------------------------------- MODULE Mirror -----------------------------------
(***************************************************************************)
(* What a copy of a server's objects that is fed by events promises: every  *)
(* object it vouches for is as it was on the server at some moment of the   *)
(* feed, and that moment never moves back.  An object is written as the     *)
(* change that made it what it is: 0 stands for none.                       *)
(***************************************************************************)
EXTENDS Naturals, Sequences, FiniteSetsExt

CONSTANT Ref \* opaque references: one is given to one object, and never again

Change == [ref : Ref, op : {"add", "mod", "del"}]

VARIABLES log,  \* the changes of the server's objects, in their order
          view, \* the copy of the objects it vouches for
          upto  \* the part of the log it is not behind of

vars == <<log, view, upto>>

\* The last change of r among the first t, and the object it has made.
Last(changes, r, t) ==
  LET before == {i \in 1..t : changes[i].ref = r}
  IN  IF before = {} THEN 0 ELSE Max(before)

StateAt(changes, r, t) ==
  LET last == Last(changes, r, t)
  IN  IF last = 0 \/ changes[last].op = "del" THEN 0 ELSE last

Fresh(changes, r, state, t) ==
  \E u \in t..Len(changes) : state = StateAt(changes, r, u)

TypeOK ==
  /\ log \in Seq(Change)
  /\ \E refs \in SUBSET Ref : view \in [refs -> 0..Len(log)]
  /\ upto \in 0..Len(log)

Init ==
  /\ log \in Seq(Change)
  /\ view = <<>>
  /\ upto = 0

\* An object is created once, changed while it is there and deleted once.
Possible(change) ==
  LET last == Last(log, change.ref, Len(log))
  IN  IF change.op = "add" THEN last = 0 ELSE StateAt(log, change.ref, Len(log)) # 0

ServerChanges ==
  /\ \E change \in Change : Possible(change) /\ log' = Append(log, change)
  /\ UNCHANGED <<view, upto>>

Refresh ==
  /\ upto' \in upto..Len(log)
  /\ \E refs \in SUBSET Ref : view' \in [refs -> 0..Len(log)]
  /\ \A r \in DOMAIN view' : Fresh(log, r, view'[r], upto')
  /\ UNCHANGED log

\* The copy is thrown away: it vouches for nothing.
Drop ==
  /\ view' = <<>>
  /\ upto' = 0
  /\ UNCHANGED log

Next == ServerChanges \/ Refresh \/ Drop

Spec == Init /\ [][Next]_vars
=====================================================================================
