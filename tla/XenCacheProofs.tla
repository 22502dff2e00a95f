------------------------------- MODULE XenCacheProofs -------------------------------
(***************************************************************************)
(* Proofs about XenCache for any number of threads, references and objects. *)
(* The inductive invariant says where an object that is not evicted is to   *)
(* be found: in m_objects, where it has a record or a thread that will take *)
(* it out, or in the hands of the thread that marks it.                     *)
(***************************************************************************)
EXTENDS XenCache, TLAPS

\* What is in m_objects is there under its own ref, not evicted, and nobody marks it.
Registered ==
  \A r \in Ref :
    objects[r] # NoObject =>
      refOf[objects[r]] = r /\ ~evicted[objects[r]] /\ ~BeingMarked(objects[r])

\* An object that is not evicted is in m_objects, unless a thread is marking it.
Found == \A o \in Object : Live(o) => objects[refOf[o]] = o \/ BeingMarked(o)

\* What is in m_objects has a record, or a thread that will take it out.
Backed == \A r \in Ref : objects[r] # NoObject => r \in records \/ ToBeEvicted(r)

\* What the threads have in their hands.
Hands ==
  \A t \in Thread :
    /\ pc[t].at \notin {"evict", "mark"} => pc[t].todo = {}
    /\ At(t, "tell") => refOf[pc[t].obj] = pc[t].ref
    /\ At(t, "mark") => refOf[pc[t].obj] # NoRef

\* An object that does not exist yet carries no mark.
Unused == \A o \in Object : refOf[o] = NoRef => ~evicted[o]

Known == known \/ records = {}

IInv ==
  TypeOK /\ Registered /\ Found /\ Backed /\ Hands /\ Unused /\ Known /\ ObjectIsFresh


\* XenCache starts without records and objects.
LEMMA InitIInv == Init => IInv
<1> SUFFICES ASSUME Init PROVE IInv
  OBVIOUS
<1> USE CacheAssumption DEF Init
<1>1. TypeOK
  BY DEF TypeOK, Doing, Idle, Places
<1>2. Registered /\ Backed /\ ObjectIsFresh /\ Known
  BY DEF Registered, Backed, ObjectIsFresh, Known
<1>3. Found
  BY DEF Found, Live
<1>4. Hands /\ Unused
  BY DEF Hands, Unused, Doing, Idle, At
<1>5. QED
  BY <1>1, <1>2, <1>3, <1>4 DEF IInv

\* What ResolveObject may do: nothing, or put a new object in m_objects.
LEMMA LookupOutcome ==
  ASSUME TypeOK, NEW r \in Ref, Lookup(r)
  PROVE  /\ evicted' = evicted
         /\ \/ objects' = objects /\ refOf' = refOf /\ told' = told
            \/ \E o \in Object :
                 /\ refOf[o] = NoRef /\ objects[r] = NoObject /\ r \in records
                 /\ refOf' = [refOf EXCEPT ![o] = r]
                 /\ objects' = [objects EXCEPT ![r] = o]
                 /\ told' = [told EXCEPT ![o] = version[r]]
  BY DEF Lookup, objectVars

\* The step of every section keeps the invariant, part by part.
LEMMA UpdateKeeps ==
  ASSUME IInv, NEW t \in Thread, NEW r \in Ref, Update(t, r)
  PROVE  IInv'
<1> USE CacheAssumption DEF Update, Store, Doing, Idle, objectVars, At
<1>1. TypeOK'
  <2>1. /\ records' \subseteq Ref /\ known' \in BOOLEAN
        /\ version' \in [Ref -> Nat] /\ updates' \in Nat
    BY DEF IInv, TypeOK
  <2>2. \E where \in {"refresh", "resolve"} :
          pc' = [pc EXCEPT ![t] = [at |-> where, ref |-> r, todo |-> {}, obj |-> NoObject]]
    <3>1. CASE objects[r] # NoObject
      BY <3>1
    <3>2. CASE objects[r] = NoObject
      BY <3>2
    <3>3. QED
      BY <3>1, <3>2
  <2>3. QED
    BY <2>1, <2>2 DEF IInv, TypeOK, Places
<1>2. Registered'
  BY DEF IInv, TypeOK, Registered, BeingMarked
<1>3. Found'
  BY DEF IInv, TypeOK, Registered, Found, BeingMarked, Live
<1>4. Backed'
  BY DEF IInv, TypeOK, Backed, Known, Hands, ToBeEvicted
<1>5. Hands' /\ Unused'
  BY DEF IInv, TypeOK, Hands, Unused, Registered
<1>6. Known'
  BY DEF IInv, TypeOK, Known
<1>7. ObjectIsFresh'
  BY DEF IInv, TypeOK, ObjectIsFresh, Hands, Registered, Refreshing
<1>8. QED
  BY <1>1, <1>2, <1>3, <1>4, <1>5, <1>6, <1>7 DEF IInv

LEMMA RefreshObjectKeeps ==
  ASSUME IInv, NEW t \in Thread, RefreshObject(t)
  PROVE  IInv'
<1> USE CacheAssumption DEF RefreshObject, Doing, recordVars, objectVars, At
<1>1. TypeOK'
  <2>1. pc[t].ref \in Ref
    BY DEF IInv, TypeOK
  <2>2. CASE objects[pc[t].ref] = NoObject
    BY <2>1, <2>2 DEF IInv, TypeOK, Places
  <2>3. CASE objects[pc[t].ref] # NoObject
    <3>1. /\ objects[pc[t].ref] \in Object
          /\ pc' = [pc EXCEPT ![t] = Doing("tell", pc[t].ref, {}, objects[pc[t].ref])]
          /\ evicted' \in [Object -> BOOLEAN]
      BY <2>1, <2>3 DEF IInv, TypeOK
    <3>2. pc' \in [Thread -> [at : Places, ref : Ref \cup {NoRef}, todo : SUBSET Ref,
                              obj : Object \cup {NoObject}]]
      BY <2>1, <3>1 DEF IInv, TypeOK, Places
    <3>3. QED
      BY <2>1, <3>1, <3>2 DEF IInv, TypeOK, Places
  <2>4. QED
    BY <2>2, <2>3
<1>2. Registered'
  BY DEF IInv, TypeOK, Registered, BeingMarked
<1>3. Found'
  BY DEF IInv, TypeOK, Registered, Found, BeingMarked, Live
<1>4. Backed'
  BY DEF IInv, TypeOK, Backed, Known, Hands, ToBeEvicted
<1>5. Hands' /\ Unused'
  BY DEF IInv, TypeOK, Hands, Unused, Registered
<1>6. Known'
  BY DEF IInv, TypeOK, Known
<1>7. ObjectIsFresh'
  BY DEF IInv, TypeOK, ObjectIsFresh, Hands, Registered, Refreshing
<1>8. QED
  BY <1>1, <1>2, <1>3, <1>4, <1>5, <1>6, <1>7 DEF IInv

LEMMA RefreshKeeps ==
  ASSUME IInv, NEW t \in Thread, Refresh(t)
  PROVE  IInv'
<1> USE CacheAssumption DEF Refresh, Doing, recordVars, At
<1>1. TypeOK'
  BY DEF IInv, TypeOK, Places
<1>2. Registered'
  BY DEF IInv, TypeOK, Registered, BeingMarked
<1>3. Found'
  BY DEF IInv, TypeOK, Registered, Found, BeingMarked, Live
<1>4. Backed'
  BY DEF IInv, TypeOK, Backed, Known, Hands, ToBeEvicted
<1>5. Hands' /\ Unused'
  BY DEF IInv, TypeOK, Hands, Unused, Registered
<1>6. Known'
  BY DEF IInv, TypeOK, Known
<1>7. ObjectIsFresh'
  BY DEF IInv, TypeOK, ObjectIsFresh, Hands, Registered, Refreshing
<1>8. QED
  BY <1>1, <1>2, <1>3, <1>4, <1>5, <1>6, <1>7 DEF IInv

LEMMA RemoveRecordKeeps ==
  ASSUME IInv, NEW t \in Thread, RemoveRecord(t)
  PROVE  IInv'
<1> USE CacheAssumption DEF RemoveRecord, Then, Doing, Idle, objectVars, At
<1>1. TypeOK'
  BY DEF IInv, TypeOK, Places
<1>2. Registered'
  BY DEF IInv, TypeOK, Registered, BeingMarked
<1>3. Found'
  BY DEF IInv, TypeOK, Registered, Found, BeingMarked, Live
<1>4. Backed'
  BY DEF IInv, TypeOK, Backed, Known, Hands, ToBeEvicted
<1>5. Hands' /\ Unused'
  BY DEF IInv, TypeOK, Hands, Unused, Registered
<1>6. Known'
  BY DEF IInv, TypeOK, Known
<1>7. ObjectIsFresh'
  BY DEF IInv, TypeOK, ObjectIsFresh, Hands, Registered, Refreshing
<1>8. QED
  BY <1>1, <1>2, <1>3, <1>4, <1>5, <1>6, <1>7 DEF IInv

LEMMA ClearKeeps ==
  ASSUME IInv, NEW t \in Thread, Clear(t)
  PROVE  IInv'
<1> USE CacheAssumption DEF Clear, Clears, Then, Doing, Idle, objectVars, At
<1>1. TypeOK'
  BY DEF IInv, TypeOK, Places
<1>2. Registered'
  BY DEF IInv, TypeOK, Registered, BeingMarked
<1>3. Found'
  BY DEF IInv, TypeOK, Registered, Found, BeingMarked, Live
<1>4. Backed'
  BY DEF IInv, TypeOK, Backed, Known, Hands, ToBeEvicted
<1>5. Hands' /\ Unused'
  BY DEF IInv, TypeOK, Hands, Unused, Registered
<1>6. Known'
  BY DEF IInv, TypeOK, Known
<1>7. ObjectIsFresh'
  BY DEF IInv, TypeOK, ObjectIsFresh, Hands, Registered, Refreshing
<1>8. QED
  BY <1>1, <1>2, <1>3, <1>4, <1>5, <1>6, <1>7 DEF IInv

LEMMA EvictObjectKeeps ==
  ASSUME IInv, NEW t \in Thread, EvictObject(t)
  PROVE  IInv'
<1> USE CacheAssumption DEF EvictObject, Then, Doing, Idle, recordVars, At
<1>1. TypeOK'
  <2>1. PICK r \in pc[t].todo :
          LET todo == pc[t].todo \ {r} IN
          /\ objects' = [objects EXCEPT ![r] = NoObject]
          /\ pc' = [pc EXCEPT ![t] = IF objects[r] = NoObject THEN Then(todo)
                                     ELSE Doing("mark", NoRef, todo, objects[r])]
    OBVIOUS
  <2>2. r \in Ref /\ pc[t].todo \subseteq Ref
    BY DEF IInv, TypeOK
  <2>3. objects' \in [Ref -> Object \cup {NoObject}]
    BY <2>1, <2>2 DEF IInv, TypeOK
  <2>4. \E p \in [at : Places, ref : Ref \cup {NoRef}, todo : SUBSET Ref, obj : Object \cup {NoObject}] :
          /\ p.at = "mark" => p.obj \in Object
          /\ p.at \in {"idle", "evict", "mark"}
          /\ pc' = [pc EXCEPT ![t] = p]
    BY <2>1, <2>2 DEF IInv, TypeOK, Places
  <2>5. QED
    BY <2>3, <2>4 DEF IInv, TypeOK
<1>2. Registered'
  BY DEF IInv, TypeOK, Registered, BeingMarked
<1>3. Found'
  BY DEF IInv, TypeOK, Registered, Found, BeingMarked, Live
<1>4. Backed'
  BY DEF IInv, TypeOK, Backed, Known, Hands, ToBeEvicted
<1>5. Hands' /\ Unused'
  BY DEF IInv, TypeOK, Hands, Unused, Registered
<1>6. Known'
  BY DEF IInv, TypeOK, Known
<1>7. ObjectIsFresh'
  BY DEF IInv, TypeOK, ObjectIsFresh, Hands, Registered, Refreshing
<1>8. QED
  BY <1>1, <1>2, <1>3, <1>4, <1>5, <1>6, <1>7 DEF IInv

LEMMA MarkKeeps ==
  ASSUME IInv, NEW t \in Thread, Mark(t)
  PROVE  IInv'
<1> USE CacheAssumption DEF Mark, Then, Doing, Idle, recordVars, At
<1>1. TypeOK'
  BY DEF IInv, TypeOK, Places
<1>2. Registered'
  BY DEF IInv, TypeOK, Registered, BeingMarked
<1>3. Found'
  BY DEF IInv, TypeOK, Registered, Found, BeingMarked, Live
<1>4. Backed'
  BY DEF IInv, TypeOK, Backed, Known, Hands, ToBeEvicted
<1>5. Hands' /\ Unused'
  BY DEF IInv, TypeOK, Hands, Unused, Registered
<1>6. Known'
  BY DEF IInv, TypeOK, Known
<1>7. ObjectIsFresh'
  BY DEF IInv, TypeOK, ObjectIsFresh, Hands, Registered, Refreshing
<1>8. QED
  BY <1>1, <1>2, <1>3, <1>4, <1>5, <1>6, <1>7 DEF IInv

LEMMA ResolveKeeps ==
  ASSUME IInv, NEW t \in Thread, NEW r \in Ref, Resolve(t, r)
  PROVE  IInv'
<1> USE CacheAssumption DEF Resolve, recordVars, At
<1>1. /\ r \in Ref /\ Lookup(r)
      /\ UNCHANGED <<records, known, version, updates>>
  BY DEF IInv, TypeOK
<1>lookup. /\ evicted' = evicted
      /\ \/ objects' = objects /\ refOf' = refOf /\ told' = told
         \/ \E o \in Object :
              /\ refOf[o] = NoRef /\ objects[r] = NoObject /\ r \in records
              /\ refOf' = [refOf EXCEPT ![o] = r]
              /\ objects' = [objects EXCEPT ![r] = o]
              /\ told' = [told EXCEPT ![o] = version[r]]
  BY <1>1, LookupOutcome DEF IInv
<1>2. TypeOK'
  BY <1>1, <1>lookup DEF IInv, TypeOK, Places
<1>3. Registered'
  BY <1>1, <1>lookup DEF IInv, TypeOK, Registered, Hands, Unused, BeingMarked
<1>4. Found'
  BY <1>1, <1>lookup DEF IInv, TypeOK, Registered, Found, BeingMarked, Live
<1>5. Backed'
  BY <1>1, <1>lookup DEF IInv, TypeOK, Backed, Hands, ToBeEvicted
<1>6. Hands' /\ Unused'
  BY <1>1, <1>lookup DEF IInv, TypeOK, Hands, Unused
<1>7. Known'
  BY <1>1 DEF IInv, Known
<1>8. ObjectIsFresh'
  BY <1>1, <1>lookup DEF IInv, TypeOK, ObjectIsFresh, Hands, Registered, Refreshing
<1>9. QED
  BY <1>2, <1>3, <1>4, <1>5, <1>6, <1>7, <1>8 DEF IInv

LEMMA UpdateEndsKeeps ==
  ASSUME IInv, NEW t \in Thread, UpdateEnds(t)
  PROVE  IInv'
<1> USE CacheAssumption DEF UpdateEnds, Doing, Idle, recordVars, At
<1>1. /\ pc[t].ref \in Ref /\ Lookup(pc[t].ref)
      /\ UNCHANGED <<records, known, version, updates>>
  BY DEF IInv, TypeOK
<1>lookup. /\ evicted' = evicted
      /\ \/ objects' = objects /\ refOf' = refOf /\ told' = told
         \/ \E o \in Object :
              /\ refOf[o] = NoRef /\ objects[pc[t].ref] = NoObject /\ pc[t].ref \in records
              /\ refOf' = [refOf EXCEPT ![o] = pc[t].ref]
              /\ objects' = [objects EXCEPT ![pc[t].ref] = o]
              /\ told' = [told EXCEPT ![o] = version[pc[t].ref]]
  BY <1>1, LookupOutcome DEF IInv
<1>2. TypeOK'
  BY <1>1, <1>lookup DEF IInv, TypeOK, Places
<1>3. Registered'
  BY <1>1, <1>lookup DEF IInv, TypeOK, Registered, Hands, Unused, BeingMarked
<1>4. Found'
  BY <1>1, <1>lookup DEF IInv, TypeOK, Registered, Found, BeingMarked, Live
<1>5. Backed'
  BY <1>1, <1>lookup DEF IInv, TypeOK, Backed, Hands, ToBeEvicted
<1>6. Hands' /\ Unused'
  BY <1>1, <1>lookup DEF IInv, TypeOK, Hands, Unused
<1>7. Known'
  BY <1>1 DEF IInv, Known
<1>8. ObjectIsFresh'
  BY <1>1, <1>lookup DEF IInv, TypeOK, ObjectIsFresh, Hands, Registered, Refreshing
<1>9. QED
  BY <1>2, <1>3, <1>4, <1>5, <1>6, <1>7, <1>8 DEF IInv

LEMMA RemoveKeeps ==
  ASSUME IInv, NEW t \in Thread, NEW r \in Ref, Remove(t, r)
  PROVE  IInv'
<1> USE CacheAssumption DEF Remove, Doing, Idle, recordVars, At
<1>1. /\ r \in Ref /\ Lookup(r)
      /\ UNCHANGED <<records, known, version, updates>>
  BY DEF IInv, TypeOK
<1>lookup. /\ evicted' = evicted
      /\ \/ objects' = objects /\ refOf' = refOf /\ told' = told
         \/ \E o \in Object :
              /\ refOf[o] = NoRef /\ objects[r] = NoObject /\ r \in records
              /\ refOf' = [refOf EXCEPT ![o] = r]
              /\ objects' = [objects EXCEPT ![r] = o]
              /\ told' = [told EXCEPT ![o] = version[r]]
  BY <1>1, LookupOutcome DEF IInv
<1>2. TypeOK'
  BY <1>1, <1>lookup DEF IInv, TypeOK, Places
<1>3. Registered'
  BY <1>1, <1>lookup DEF IInv, TypeOK, Registered, Hands, Unused, BeingMarked
<1>4. Found'
  BY <1>1, <1>lookup DEF IInv, TypeOK, Registered, Found, BeingMarked, Live
<1>5. Backed'
  BY <1>1, <1>lookup DEF IInv, TypeOK, Backed, Hands, ToBeEvicted
<1>6. Hands' /\ Unused'
  BY <1>1, <1>lookup DEF IInv, TypeOK, Hands, Unused
<1>7. Known'
  BY <1>1 DEF IInv, Known
<1>8. ObjectIsFresh'
  BY <1>1, <1>lookup DEF IInv, TypeOK, ObjectIsFresh, Hands, Registered, Refreshing
<1>9. QED
  BY <1>2, <1>3, <1>4, <1>5, <1>6, <1>7, <1>8 DEF IInv

LEMMA Inductive == IInv /\ [Next]_vars => IInv'
<1> SUFFICES ASSUME IInv, [Next]_vars PROVE IInv'
  OBVIOUS
<1>1. CASE UNCHANGED vars
  BY <1>1 DEF vars, recordVars, objectVars, IInv, TypeOK, Registered, Found, Backed, Hands,
     Unused, Known, ObjectIsFresh, Live, BeingMarked, ToBeEvicted, Refreshing, At
<1>2. ASSUME NEW t \in Thread, NEW r \in Ref, Resolve(t, r) \/ Update(t, r) \/ Remove(t, r)
      PROVE  IInv'
  BY <1>2, ResolveKeeps, UpdateKeeps, RemoveKeeps
<1>3. ASSUME NEW t \in Thread,
             RefreshObject(t) \/ Refresh(t) \/ UpdateEnds(t) \/ RemoveRecord(t)
      PROVE  IInv'
  BY <1>3, RefreshObjectKeeps, RefreshKeeps, UpdateEndsKeeps, RemoveRecordKeeps
<1>4. ASSUME NEW t \in Thread, Clear(t) \/ EvictObject(t) \/ Mark(t)
      PROVE  IInv'
  BY <1>4, ClearKeeps, EvictObjectKeeps, MarkKeeps
<1>5. QED
  BY <1>1, <1>2, <1>3, <1>4 DEF Next

LEMMA Invariant == Spec => []IInv
  BY InitIInv, Inductive, PTL DEF Spec

\* The types, and that no thread uses an object it has not found (refreshObject, evictObject).
THEOREM TypesOK == Spec => []TypeOK
<1>1. IInv => TypeOK
  BY DEF IInv
<1>2. QED
  BY <1>1, Invariant, PTL

\* An object without a record is marked evicted, or a thread is about to (Remove, Clear).
THEOREM StaleObjectsAreMarked == Spec => []StaleIsMarked
<1>1. IInv => StaleIsMarked
  BY CacheAssumption DEF IInv, TypeOK, StaleIsMarked, Found, Backed, Live
<1>2. QED
  BY <1>1, Invariant, PTL

\* Those that hold an object for a ref hold the same one (ResolveObject).
THEOREM ObjectIsUnique == Spec => []OneObject
<1>1. IInv => OneObject
  BY DEF IInv, OneObject, Found
<1>2. QED
  BY <1>1, Invariant, PTL

\* An object in m_objects has been refreshed since its record was stored, or is about to
\* be (Update, refreshObject).
THEOREM ObjectsAreFresh == Spec => []ObjectIsFresh
<1>1. IInv => ObjectIsFresh
  BY DEF IInv
<1>2. QED
  BY <1>1, Invariant, PTL

\* refreshObject takes the mark only from objects that have none (refreshObject, evictObject).
THEOREM EvictionIsFinal == Spec => EvictedIsFinal
<1>1. IInv /\ [Next]_vars => [\A o \in Object : evicted[o] => evicted'[o]]_vars
  <2> SUFFICES ASSUME IInv, Next, NEW o \in Object, evicted[o]
               PROVE  evicted'[o]
    OBVIOUS
  <2>1. CASE evicted' = evicted
    BY <2>1
  <2>2. ASSUME NEW t \in Thread, RefreshObject(t) PROVE evicted'[o]
    <3>1. pc[t].ref \in Ref
      BY <2>2 DEF RefreshObject, At, IInv, TypeOK
    <3>2. QED
      BY <2>2, <3>1 DEF RefreshObject, objectVars, IInv, TypeOK, Registered
  <2>3. ASSUME NEW t \in Thread, Mark(t) PROVE evicted'[o]
    BY <2>3 DEF Mark, IInv, TypeOK
  <2>4. QED
    BY <2>1, <2>2, <2>3 DEF Next, Resolve, Lookup, Update, Store, Refresh, UpdateEnds, Remove,
       RemoveRecord, Clear, Clears, EvictObject, objectVars
<1>2. QED
  BY <1>1, Invariant, PTL DEF Spec, EvictedIsFinal
=====================================================================================
