------------------------------------ MODULE XenCache ------------------------------------
(***************************************************************************)
(* XenCache (xencache.cpp): the records of a connection (m_cache) and the   *)
(* objects that have been handed out for them (m_objects), used by the main *)
(* thread, the connect thread and the threads of the operations.  m_mutex   *)
(* guards single sections; Update, Remove and Clear are several of them and *)
(* act on objects in between without it.  The records are of one type and   *)
(* carry the number of their last update.  UpdateBulk and ClearType have no *)
(* caller and are left out.                                                 *)
(***************************************************************************)
EXTENDS Naturals, FiniteSets

CONSTANTS Thread,
          Ref,       \* opaque references
          Object,    \* XenObject instances: enough of them, for each is created once
          NoRef, NoObject,
          MaxUpdates \* bound: records stored

ASSUME CacheAssumption ==
  /\ NoRef \notin Ref /\ NoObject \notin Object
  /\ MaxUpdates \in Nat

VARIABLES
  records, \* m_cache: the refs that have a record
  known,   \* m_cache has an entry for the type
  version, \* the update each record comes from, and the number of them so far
  updates,
  objects, \* m_objects
  refOf,   \* the ref an object was created for
  evicted, \* m_evicted of the objects
  told,    \* the version of its record an object has been created or refreshed with
  pc       \* what every thread is doing, out of the mutex

recordVars == <<records, known, version, updates>>
objectVars == <<objects, refOf, evicted, told>>
vars == <<recordVars, objectVars, pc>>

Doing(where, r, todo, o) == [at |-> where, ref |-> r, todo |-> todo, obj |-> o]
Idle == Doing("idle", NoRef, {}, NoObject)

Init ==
  /\ records = {} /\ known = FALSE
  /\ version = [r \in Ref |-> 0] /\ updates = 0
  /\ objects = [r \in Ref |-> NoObject]
  /\ refOf = [o \in Object |-> NoRef]
  /\ evicted = [o \in Object |-> FALSE]
  /\ told = [o \in Object |-> 0]
  /\ pc = [t \in Thread |-> Idle]

At(t, where) == pc[t].at = where

\* ResolveObject: the object there is, or a new one for the record there is, or none.
Lookup(r) ==
  \/ /\ objects[r] # NoObject \/ r \notin records
     /\ UNCHANGED objectVars
  \/ /\ objects[r] = NoObject
     /\ r \in records
     /\ \E o \in Object :
          /\ refOf[o] = NoRef
          /\ refOf' = [refOf EXCEPT ![o] = r]
          /\ objects' = [objects EXCEPT ![r] = o]
          /\ told' = [told EXCEPT ![o] = version[r]]
     /\ UNCHANGED evicted

Resolve(t, r) ==
  /\ At(t, "idle")
  /\ r \in records
  /\ objects[r] = NoObject
  /\ Lookup(r)
  /\ UNCHANGED <<recordVars, pc>>

---------------------------------------------------------------------------------
\* Update, section by section: store the record, refresh its object, resolve one for the
\* signals.
Store(t, r, refresh) ==
  /\ At(t, "idle")
  /\ updates < MaxUpdates
  /\ updates' = updates + 1
  /\ records' = records \cup {r}
  /\ known' = TRUE
  /\ version' = [version EXCEPT ![r] = updates + 1]
  /\ pc' = [pc EXCEPT ![t] = Doing(IF refresh THEN "refresh" ELSE "resolve", r, {}, NoObject)]
  /\ UNCHANGED objectVars

\* A mistaken variant leaves it to the resolving to find the object.
UpdateUnrefreshed(t, r) == Store(t, r, FALSE)

Update(t, r) == Store(t, r, objects[r] # NoObject)

\* refreshObject.  A mistaken variant takes what it has not found.
RefreshAny(t) ==
  /\ At(t, "refresh")
  /\ pc' = [pc EXCEPT ![t] = Doing("tell", pc[t].ref, {}, objects[pc[t].ref])]
  /\ UNCHANGED <<recordVars, objectVars>>

RefreshObject(t) ==
  /\ At(t, "refresh")
  /\ LET o == objects[pc[t].ref] IN
     IF o = NoObject
     THEN /\ pc' = [pc EXCEPT ![t] = Doing("resolve", pc[t].ref, {}, NoObject)]
          /\ UNCHANGED objectVars
     ELSE /\ evicted' = [evicted EXCEPT ![o] = FALSE]
          /\ pc' = [pc EXCEPT ![t] = Doing("tell", pc[t].ref, {}, o)]
          /\ UNCHANGED <<objects, refOf, told>>
  /\ UNCHANGED recordVars

\* Refresh of the object: who listens reads the record there is by then.
Refresh(t) ==
  /\ At(t, "tell")
  /\ told' = [told EXCEPT ![pc[t].obj] = version[pc[t].ref]]
  /\ pc' = [pc EXCEPT ![t] = Doing("resolve", pc[t].ref, {}, NoObject)]
  /\ UNCHANGED <<recordVars, objects, refOf, evicted>>

UpdateEnds(t) ==
  /\ At(t, "resolve")
  /\ Lookup(pc[t].ref)
  /\ pc' = [pc EXCEPT ![t] = Idle]
  /\ UNCHANGED recordVars

---------------------------------------------------------------------------------
\* Remove: resolve the object for the signals, drop the record, evict.
Then(todo) == IF todo = {} THEN Idle ELSE Doing("evict", NoRef, todo, NoObject)

Remove(t, r) ==
  /\ At(t, "idle")
  /\ Lookup(r)
  /\ pc' = [pc EXCEPT ![t] = Doing("remove", r, {}, NoObject)]
  /\ UNCHANGED recordVars

RemoveRecord(t) ==
  /\ At(t, "remove")
  /\ records' = records \ {pc[t].ref}
  /\ pc' = [pc EXCEPT ![t] = Then(IF known THEN {pc[t].ref} ELSE {})]
  /\ UNCHANGED <<known, version, updates, objectVars>>

\* Clear: drop the records and evict the objects of all of them.
Clears(t, refs) ==
  /\ At(t, "idle")
  /\ records' = {}
  /\ known' = FALSE
  /\ pc' = [pc EXCEPT ![t] = Then(refs)]
  /\ UNCHANGED <<version, updates, objectVars>>

\* A mistaken variant lists the records when they are gone.
ClearLate(t) == Clears(t, {})

Clear(t) == Clears(t, records)

\* evictObject: take the object out, and mark it without the mutex.  A mistaken variant
\* leaves it where it is.
EvictKeeping(t) ==
  /\ At(t, "evict")
  /\ \E r \in pc[t].todo :
       LET todo == pc[t].todo \ {r} IN
       pc' = [pc EXCEPT ![t] = IF objects[r] = NoObject THEN Then(todo)
                               ELSE Doing("mark", NoRef, todo, objects[r])]
  /\ UNCHANGED <<recordVars, objectVars>>

EvictObject(t) ==
  /\ At(t, "evict")
  /\ \E r \in pc[t].todo :
       LET todo == pc[t].todo \ {r} IN
       /\ objects' = [objects EXCEPT ![r] = NoObject]
       /\ pc' = [pc EXCEPT ![t] = IF objects[r] = NoObject THEN Then(todo)
                                  ELSE Doing("mark", NoRef, todo, objects[r])]
  /\ UNCHANGED <<recordVars, refOf, evicted, told>>

\* A mistaken variant spares an object whose record is there again.
MarkStale(t) ==
  /\ At(t, "mark")
  /\ evicted' = [evicted EXCEPT ![pc[t].obj] = refOf[pc[t].obj] \notin records]
  /\ pc' = [pc EXCEPT ![t] = Then(pc[t].todo)]
  /\ UNCHANGED <<recordVars, objects, refOf, told>>

Mark(t) ==
  /\ At(t, "mark")
  /\ evicted' = [evicted EXCEPT ![pc[t].obj] = TRUE]
  /\ pc' = [pc EXCEPT ![t] = Then(pc[t].todo)]
  /\ UNCHANGED <<recordVars, objects, refOf, told>>

Next ==
  \E t \in Thread :
    \/ \E r \in Ref : Resolve(t, r) \/ Update(t, r) \/ Remove(t, r)
    \/ RefreshObject(t) \/ Refresh(t) \/ UpdateEnds(t)
    \/ RemoveRecord(t) \/ Clear(t) \/ EvictObject(t) \/ Mark(t)

Spec == Init /\ [][Next]_vars

---------------------------------------------------------------------------------
Places == {"idle", "refresh", "tell", "resolve", "remove", "evict", "mark"}

\* The types, and what a thread is known to have in its hands.
TypeOK ==
  /\ records \subseteq Ref /\ known \in BOOLEAN
  /\ version \in [Ref -> Nat] /\ updates \in Nat
  /\ objects \in [Ref -> Object \cup {NoObject}]
  /\ refOf \in [Object -> Ref \cup {NoRef}]
  /\ evicted \in [Object -> BOOLEAN]
  /\ told \in [Object -> Nat]
  /\ pc \in [Thread -> [at : Places, ref : Ref \cup {NoRef}, todo : SUBSET Ref,
                        obj : Object \cup {NoObject}]]
  /\ \A t \in Thread : /\ pc[t].at \in {"refresh", "tell", "resolve", "remove"} => pc[t].ref \in Ref
                       /\ pc[t].at \in {"tell", "mark"} => pc[t].obj \in Object

Live(o) == refOf[o] # NoRef /\ ~evicted[o]
ToBeEvicted(r) == \E t \in Thread : r \in pc[t].todo
BeingMarked(o) == \E t \in Thread : At(t, "mark") /\ pc[t].obj = o

\* "When records are removed (or cache cleared), existing XenObject instances are marked
\* evicted so consumers can detect stale data" (xencache.h): an object that is not evicted,
\* and that no thread is about to evict, has a record.
StaleIsMarked ==
  \A o \in Object :
    Live(o) /\ ~BeingMarked(o) => refOf[o] \in records \/ ToBeEvicted(refOf[o])

\* All that hold an object for a ref hold the same one, but for those evicted: whoever
\* listens to it is told of what happens to the record.
OneObject ==
  \A o, p \in Object :
    Live(o) /\ Live(p) /\ refOf[o] = refOf[p] /\ ~BeingMarked(o) /\ ~BeingMarked(p) => o = p

\* An object that is evicted stays so, though refreshObject takes the mark away: what was
\* told to be stale does not come back.
EvictedIsFinal == [][\A o \in Object : evicted[o] => evicted'[o]]_vars

\* An object that is handed out has been refreshed with the record there is, or is about
\* to be: Update decides to refresh in the section that stores, and does it in another.
Refreshing(r) ==
  \E t \in Thread : /\ pc[t].ref = r
                    /\ At(t, "refresh") \/ (At(t, "tell") /\ pc[t].obj = objects[r])

ObjectIsFresh ==
  \A r \in records :
    objects[r] # NoObject => told[objects[r]] = version[r] \/ Refreshing(r)
=========================================================================================
