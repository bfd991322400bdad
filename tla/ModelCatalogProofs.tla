------------------------- MODULE ModelCatalogProofs -------------------------
(* The catalog, for any number of processes, pages, sections, exceptions,   *)
(* unreadable state files, stops and stale locks, also with several holders *)
(* of the lock: what it has taken as reflected was read; an entry is lost   *)
(* only by a save of a process that could not read state.json or that       *)
(* another one has saved over, and what it has merged is on record.  Then   *)
(* what the lock is for: one process at a time, and nobody saved over,      *)
(* while it is taken over only from a dead holder and by one process        *)
(* (TakesOverSafely).                                                       *)
EXTENDS ModelCatalog, FiniteSetTheorems, TLAPS

Fields == {"hash", "changes", "newer", "history", "batches", "profile"}
Locals == {"key", "state", "body", "left", "found", "touched"}

\* As much of the types as the argument needs.
IsState(st) ==
  /\ DOMAIN st = Fields /\ st = [f \in Fields |-> st[f]]
  /\ st.hash \in [Sources -> {None} \cup Body]

IsLocal(me) ==
  /\ DOMAIN me = Locals /\ me = [f \in Locals |-> me[f]]
  /\ me.key \in Sources \cup {None} /\ IsState(me.state)
  /\ me.body \in {None} \cup Body /\ me.left \in Body

Shapes ==
  /\ page \in [Sources -> Body] /\ applied \in [Sources -> {None} \cup Body]
  /\ IsState(state)
  /\ DOMAIN at = Procs /\ at = [p \in Procs |-> at[p]]
  /\ DOMAIN my = Procs /\ my = [p \in Procs |-> my[p]] /\ \A p \in Procs : IsLocal(my[p])
  /\ read \in Body

\* What a text or a hash on file or in memory stands for.
Answered(b) == b = None \/ b \subseteq read \cup Old

\* How much of the body in hand has been answered for.
Reading(p) ==
  /\ at[p] \in {"fetch", "compare", "ask", "store"} => my[p].key \in Sources
  /\ at[p] \in {"compare", "ask", "store"} => my[p].body \in Body
  /\ at[p] = "ask" => my[p].body \subseteq my[p].left \cup read \cup Old
  /\ at[p] = "store" => my[p].body \subseteq read \cup Old

IInv ==
  /\ Shapes
  /\ \A k \in Sources : Answered(applied[k]) /\ Answered(state.hash[k])
  /\ \A p \in Procs : \A k \in Sources : Answered(my[p].state.hash[k])
  /\ \A p \in Procs : Reading(p)

-----------------------------------------------------------------------------
(* Merging entries leaves the hashes alone.                                *)

LEMMA RollupKeepsHash ==
  ASSUME NEW st, IsState(st)
  PROVE  IsState(Rollup(st)) /\ Rollup(st).hash = st.hash
BY DEF IsState, Rollup, Fields

LEMMA ApplyKeepsHash ==
  ASSUME NEW st, IsState(st), NEW k, NEW body, NEW found
  PROVE  IsState(ApplyChanges(st, k, body, found)) /\ ApplyChanges(st, k, body, found).hash = st.hash
<1> DEFINE s1 == [st EXCEPT !.batches = @ \cup {<<k, body>>}]
<1>1. IsState(s1) /\ s1.hash = st.hash
  BY DEF IsState, Fields
<1> HIDE DEF s1
<1>2. IsState(InFront(s1, found)) /\ InFront(s1, found).hash = st.hash
  BY <1>1 DEF IsState, Fields, InFront
<1>3. IsState(Rollup(InFront(s1, found))) /\ Rollup(InFront(s1, found)).hash = st.hash
  BY <1>2, RollupKeepsHash
<1> QED
  BY <1>3 DEF ApplyChanges, s1

LEMMA InitialInvariant == Init => IInv
<1> SUFFICES ASSUME Init PROVE IInv
  OBVIOUS
<1>1. IsState(NoState) /\ \A k \in Sources : NoState.hash[k] = None
  BY DEF IsState, NoState, Fields
<1>2. IsLocal(Blank) /\ Blank.state = NoState
  BY <1>1 DEF IsLocal, Blank, Locals, Body
<1>3. Shapes
  BY <1>1, <1>2 DEF Init, Shapes, Body
<1> QED
  BY <1>1, <1>2, <1>3 DEF Init, IInv, Answered, Reading

-----------------------------------------------------------------------------
(* A step of one process that writes neither file.                         *)

\* What a process holds may stand in the place it has come to.
Stands(place, me, done) ==
  /\ place \in {"fetch", "compare", "ask", "store"} => me.key \in Sources
  /\ place \in {"compare", "ask", "store"} => me.body \in Body
  /\ place = "ask" => me.body \subseteq me.left \cup done \cup Old
  /\ place = "store" => me.body \subseteq done \cup Old

LEMMA LocalStep ==
  ASSUME IInv, NEW p \in Procs, NEW place, NEW me,
         UNCHANGED <<state, applied, page>>, read' \in Body, read \subseteq read',
         at' = [at EXCEPT ![p] = place], my' = [my EXCEPT ![p] = me],
         IsLocal(me), Stands(place, me, read'),
         \A k \in Sources : me.state.hash[k] = None \/ me.state.hash[k] \subseteq read' \cup Old
  PROVE  IInv'
<1>1. Shapes'
  BY DEF IInv, Shapes
<1>2. \A k \in Sources : Answered(applied[k])' /\ Answered(state.hash[k])'
  BY DEF IInv, Answered
<1>3. ASSUME NEW q \in Procs
      PROVE  /\ \A k \in Sources : Answered(my[q].state.hash[k])'
             /\ Reading(q)'
  <2>1. CASE q = p
    <3>1. at'[q] = place /\ my'[q] = me
      BY <2>1 DEF IInv, Shapes
    <3> QED
      BY <3>1 DEF Answered, Reading, Stands
  <2>2. CASE q # p
    <3>1. at'[q] = at[q] /\ my'[q] = my[q]
      BY <2>2 DEF IInv, Shapes
    <3> QED
      BY <3>1 DEF IInv, Answered, Reading
  <2> QED
    BY <2>1, <2>2
<1> QED
  BY <1>1, <1>2, <1>3 DEF IInv

\* The same when the process only goes on.
LEMMA MoveStep ==
  ASSUME IInv, NEW p \in Procs, NEW place,
         UNCHANGED <<state, applied, page, read, my>>, at' = [at EXCEPT ![p] = place],
         Stands(place, my[p], read)
  PROVE  IInv'
<1>1. my' = [my EXCEPT ![p] = my[p]] /\ IsLocal(my[p])
  BY DEF IInv, Shapes
<1>2. \A k \in Sources : my[p].state.hash[k] = None \/ my[p].state.hash[k] \subseteq read' \cup Old
  BY DEF IInv, Answered
<1> QED
  BY <1>1, <1>2, LocalStep DEF IInv, Shapes

LEMMA BlankIsEmpty ==
  ASSUME NEW k \in Sources \cup {None}
  PROVE  /\ IsLocal(Blank) /\ Blank.state = NoState
         /\ IsLocal([Blank EXCEPT !.key = k]) /\ [Blank EXCEPT !.key = k].state = NoState
<1>1. IsState(NoState)
  BY DEF IsState, NoState, Fields
<1>2. IsLocal(Blank) /\ Blank.state = NoState
  BY <1>1 DEF IsLocal, Blank, Locals, Body
<1>3. IsLocal([Blank EXCEPT !.key = k]) /\ [Blank EXCEPT !.key = k].state = NoState
  BY <1>2 DEF IsLocal, Locals
<1> QED
  BY <1>2, <1>3

\* What is kept of the locals once a collection is over.
LEMMA HoldingIsLocal ==
  ASSUME NEW p, IsLocal(my[p])
  PROVE  IsLocal(Holding(p)) /\ Holding(p).state = my[p].state
<1>1. IsLocal(Blank) /\ IsState(my[p].state)
  BY BlankIsEmpty DEF IsLocal
<1> QED
  BY <1>1 DEF Holding, IsLocal, Locals

\* The same when a collection is over.
LEMMA OverStep ==
  ASSUME IInv, NEW p \in Procs, NEW place, place \notin {"fetch", "compare", "ask", "store"},
         UNCHANGED <<state, applied, page, read>>, at' = [at EXCEPT ![p] = place],
         my' = [my EXCEPT ![p] = Holding(p)]
  PROVE  IInv'
<1>1. IsLocal(Holding(p)) /\ Holding(p).state = my[p].state
  BY HoldingIsLocal DEF IInv, Shapes
<1> PICK me : me = Holding(p)
  OBVIOUS
<1>2. \A k \in Sources : me.state.hash[k] = None \/ me.state.hash[k] \subseteq read' \cup Old
  BY <1>1 DEF IInv, Answered
<1>3. Stands(place, me, read')
  BY DEF Stands
<1> QED
  BY <1>1, <1>2, <1>3, LocalStep DEF IInv, Shapes

\* The same when it has nothing in hand.
LEMMA LeaveStep ==
  ASSUME IInv, NEW p \in Procs, NEW place, place \notin {"fetch", "compare", "ask", "store"},
         UNCHANGED <<state, applied, page, read>>, at' = [at EXCEPT ![p] = place],
         NEW me, IsLocal(me), me.state = NoState, my' = [my EXCEPT ![p] = me]
  PROVE  IInv'
<1>1. \A k \in Sources : NoState.hash[k] = None
  BY DEF NoState
<1>2. Stands(place, me, read')
  BY DEF Stands
<1> QED
  BY <1>1, <1>2, LocalStep DEF IInv, Shapes

-----------------------------------------------------------------------------
(* The steps of a process.                                                 *)

LEMMA LockStep ==
  ASSUME IInv, NEW p \in Procs,
         \/ Begin(p) \/ TakeLock(p) \/ FindStale(p) \/ RemoveStale(p) \/ GiveUp(p) \/ Unlock(p)
         \/ Raise(p) \/ Crash(p)
  PROVE  IInv'
<1> USE DEF Move, Local, files, past
<1>1. CASE Begin(p)
  <2>1. PICK k \in Sources \cup {None} : my' = [my EXCEPT ![p] = [Blank EXCEPT !.key = k]]
    BY <1>1 DEF Begin
  <2> PICK me : me = [Blank EXCEPT !.key = k]
    OBVIOUS
  <2>2. IsLocal(me) /\ me.state = NoState
    BY BlankIsEmpty
  <2>3. my' = [my EXCEPT ![p] = me] /\ at' = [at EXCEPT ![p] = "lock"] /\ UNCHANGED <<state, applied, page, read>>
    BY <1>1, <2>1 DEF Begin
  <2> QED
    BY <2>2, <2>3, LeaveStep
<1>2. CASE TakeLock(p) \/ FindStale(p) \/ RemoveStale(p)
  <2>1. PICK place \in {"load", "unlink", "lock"} : at' = [at EXCEPT ![p] = place]
    BY <1>2 DEF TakeLock, FindStale, RemoveStale
  <2> QED
    BY <1>2, <2>1, MoveStep DEF TakeLock, FindStale, RemoveStale, Stands
<1>3. CASE GiveUp(p) \/ Unlock(p) \/ Raise(p) \/ Crash(p)
  <2>1. PICK place \in {"idle", "dead"} : at' = [at EXCEPT ![p] = place]
    BY <1>3 DEF GiveUp, Unlock, Raise, Crash, Leave
  <2>2. my' = [my EXCEPT ![p] = Blank] /\ UNCHANGED <<state, applied, page, read>>
    BY <1>3 DEF GiveUp, Unlock, Raise, Crash, Leave
  <2>3. IsLocal(Blank) /\ Blank.state = NoState
    BY BlankIsEmpty
  <2> QED
    BY <2>1, <2>2, <2>3, LeaveStep
<1> QED
  BY <1>1, <1>2, <1>3

\* What is loaded is the file, or nothing.
LEMMA LoadStep ==
  ASSUME IInv, NEW p \in Procs, Load(p) \/ LoadUnreadable(p)
  PROVE  IInv'
<1>1. PICK st \in {state, NoState} : WorkFrom(p, st)
  BY DEF Load, LoadUnreadable
<1>2. PICK T : T = IF my[p].key = None THEN StaleProfiles(st) ELSE {}
  OBVIOUS
<1> PICK me : me = [my[p] EXCEPT !.state = st, !.touched = T]
  OBVIOUS
<1> PICK place : place = IF my[p].key # None THEN "fetch"
                         ELSE IF StaleProfiles(st) = {} THEN "unlock" ELSE "profile"
  OBVIOUS
<1>3. /\ at' = [at EXCEPT ![p] = place] /\ my' = [my EXCEPT ![p] = me]
      /\ UNCHANGED <<state, applied, page, read>>
  BY <1>1, <1>2 DEF WorkFrom, Move, Local, files
<1>4. IsState(NoState) /\ \A k \in Sources : NoState.hash[k] = None
  BY DEF IsState, NoState, Fields
<1>5. IsLocal(me) /\ me.state = st /\ me.key = my[p].key
  <2>1. IsLocal(my[p]) /\ IsState(st)
    BY <1>4 DEF IInv, Shapes
  <2> QED
    BY <2>1 DEF IsLocal, Locals
<1>6. Stands(place, me, read')
  <2>1. my[p].key \in Sources \cup {None}
    BY DEF IInv, Shapes, IsLocal
  <2> QED
    BY <1>5, <2>1 DEF Stands
<1>7. \A k \in Sources : me.state.hash[k] = None \/ me.state.hash[k] \subseteq read' \cup Old
  BY <1>3, <1>4, <1>5 DEF IInv, Answered
<1> QED
  BY <1>3, <1>5, <1>6, <1>7, LocalStep DEF IInv, Shapes

LEMMA FetchStep ==
  ASSUME IInv, NEW p \in Procs, Fetch(p)
  PROVE  IInv'
<1> DEFINE me == [my[p] EXCEPT !.body = page[my[p].key]]
<1>1. /\ at[p] = "fetch" /\ at' = [at EXCEPT ![p] = "compare"] /\ my' = [my EXCEPT ![p] = me]
      /\ UNCHANGED <<state, applied, page, read>>
  BY DEF Fetch, Move, Local, files, past
<1>2. my[p].key \in Sources /\ page[my[p].key] \in Body /\ IsLocal(my[p])
  BY <1>1 DEF IInv, Shapes, Reading
<1>3. IsLocal(me) /\ me.state = my[p].state /\ me.key = my[p].key /\ me.body = page[my[p].key]
  BY <1>2 DEF IsLocal, Locals
<1>4. \A k \in Sources : me.state.hash[k] = None \/ me.state.hash[k] \subseteq read' \cup Old
  BY <1>1, <1>3 DEF IInv, Answered
<1> HIDE DEF me
<1>5. Stands("compare", me, read')
  BY <1>2, <1>3 DEF Stands
<1> QED
  BY <1>1, <1>3, <1>4, <1>5, LocalStep DEF IInv, Shapes

\* What is left to ask about and what the file says make up the body.
LEMMA CompareStep ==
  ASSUME IInv, NEW p \in Procs, Compare(p)
  PROVE  IInv'
<1>1. /\ at[p] = "compare" /\ UNCHANGED <<state, applied, page, read>>
  BY DEF Compare, Move, files, past
<1>2. CASE at' = [at EXCEPT ![p] = "save"] /\ my' = [my EXCEPT ![p] = Holding(p)]
  BY <1>1, <1>2, OverStep
<1>3. CASE /\ at' = [at EXCEPT ![p] = "ask"]
           /\ my' = [my EXCEPT ![p] = [my[p] EXCEPT !.left =
                IF applied[my[p].key] = None THEN my[p].body \ Old ELSE my[p].body \ applied[my[p].key]]]
  <2> PICK left : left = IF applied[my[p].key] = None THEN my[p].body \ Old
                                                      ELSE my[p].body \ applied[my[p].key]
    OBVIOUS
  <2> PICK me : me = [my[p] EXCEPT !.left = left]
    OBVIOUS
  <2>1. my[p].key \in Sources /\ my[p].body \in Body /\ IsLocal(my[p])
    BY <1>1 DEF IInv, Shapes, Reading
  <2>2. applied[my[p].key] = None \/ applied[my[p].key] \subseteq read \cup Old
    BY <2>1 DEF IInv, Answered
  <2>3. left \in Body /\ my[p].body \subseteq left \cup read \cup Old
    BY <2>1, <2>2 DEF Body
  <2>4. /\ IsLocal(me) /\ me.state = my[p].state /\ me.key = my[p].key /\ me.body = my[p].body
        /\ me.left = left
    BY <2>1, <2>3 DEF IsLocal, Locals
  <2>5. \A k \in Sources : me.state.hash[k] = None \/ me.state.hash[k] \subseteq read' \cup Old
    BY <1>1, <2>4 DEF IInv, Answered
  <2>6. Stands("ask", me, read')
    BY <1>1, <2>1, <2>3, <2>4 DEF Stands
  <2> QED
    BY <1>1, <1>3, <2>4, <2>5, <2>6, LocalStep DEF IInv, Shapes
<1> QED
  BY <1>1, <1>2, <1>3 DEF Compare, Move, Local

LEMMA AskStep ==
  ASSUME IInv, NEW p \in Procs, Ask(p)
  PROVE  IInv'
<1>1. PICK s \in my[p].left : \E entry \in {<<>>, <<s>>} :
        /\ my' = [my EXCEPT ![p] = [my[p] EXCEPT !.left = @ \ {s}, !.found = @ \o entry]]
        /\ read' = read \cup {s}
  BY DEF Ask, Local
<1>1a. PICK entry : /\ my' = [my EXCEPT ![p] = [my[p] EXCEPT !.left = @ \ {s}, !.found = @ \o entry]]
                  /\ read' = read \cup {s}
  BY <1>1
<1> DEFINE me == [my[p] EXCEPT !.left = @ \ {s}, !.found = @ \o entry]
<1>2. at[p] = "ask" /\ at' = [at EXCEPT ![p] = "ask"] /\ UNCHANGED <<state, applied, page>>
  BY DEF Ask, files, IInv, Shapes
<1>3. /\ IsLocal(my[p]) /\ my[p].key \in Sources /\ my[p].body \in Body
      /\ my[p].body \subseteq my[p].left \cup read \cup Old
  BY <1>2 DEF IInv, Shapes, Reading
<1>4. /\ IsLocal(me) /\ me.state = my[p].state /\ me.key = my[p].key /\ me.body = my[p].body
      /\ me.left = my[p].left \ {s}
  BY <1>3 DEF IsLocal, Locals, Body
<1>5. my' = [my EXCEPT ![p] = me] /\ read' = read \cup {s}
  BY <1>1a
<1> HIDE DEF me
<1>6. read' \in Body /\ read \subseteq read'
  BY <1>3, <1>5 DEF IInv, Shapes, IsLocal, Body
<1>7. \A k \in Sources : me.state.hash[k] = None \/ me.state.hash[k] \subseteq read' \cup Old
  BY <1>4, <1>6 DEF IInv, Answered
<1>8. Stands("ask", me, read')
  BY <1>3, <1>4, <1>5 DEF Stands
<1> QED
  BY <1>2, <1>4, <1>5, <1>6, <1>7, <1>8, LocalStep

\* Every section of the body has been answered for when it is merged.
LEMMA MergeStep ==
  ASSUME IInv, NEW p \in Procs, Merge(p)
  PROVE  IInv'
<1> DEFINE old1 == my[p]
           merged == ApplyChanges(old1.state, old1.key, old1.body, old1.found)
           next == [merged EXCEPT !.hash[old1.key] = old1.body]
           touched == Touched(old1.state, old1.key, old1.body, old1.found)
           found == IF <<old1.key, old1.body>> \in old1.state.batches THEN <<>> ELSE old1.found
           me == [old1 EXCEPT !.state = next, !.touched = touched, !.found = found]
<1>1. /\ at[p] = "ask" /\ old1.left = {} /\ at' = [at EXCEPT ![p] = "store"]
      /\ UNCHANGED <<state, applied, page, read>>
  BY DEF Merge, Move, Local, files, past
<1>2. my' = [my EXCEPT ![p] = me]
  BY DEF Merge, Local
<1>3. /\ IsLocal(old1) /\ old1.key \in Sources /\ old1.body \in Body
      /\ old1.body \subseteq read \cup Old
  BY <1>1 DEF IInv, Shapes, Reading
<1>4. IsState(merged) /\ merged.hash = old1.state.hash
  BY <1>3, ApplyKeepsHash DEF IsLocal
<1> HIDE DEF merged
<1>5. IsState(next) /\ next.hash = [old1.state.hash EXCEPT ![old1.key] = old1.body]
  BY <1>3, <1>4 DEF IsState, Fields
<1>6. \A k \in Sources : next.hash[k] = None \/ next.hash[k] \subseteq read' \cup Old
  <2>1. \A k \in Sources : old1.state.hash[k] = None \/ old1.state.hash[k] \subseteq read \cup Old
    BY DEF IInv, Answered
  <2>2. old1.state.hash \in [Sources -> {None} \cup Body]
    BY <1>3 DEF IsLocal, IsState
  <2> HIDE DEF next
  <2> QED
    BY <1>1, <1>3, <1>5, <2>1, <2>2
<1> HIDE DEF next, touched, found
<1>7. IsLocal(me) /\ me.state = next /\ me.key = old1.key /\ me.body = old1.body
  BY <1>3, <1>5 DEF IsLocal, Locals
<1> HIDE DEF me, old1
<1>8. Stands("store", me, read')
  BY <1>1, <1>3, <1>7 DEF Stands
<1> QED
  BY <1>1, <1>2, <1>6, <1>7, <1>8, LocalStep DEF IInv, Shapes

LEMMA ProfileStep ==
  ASSUME IInv, NEW p \in Procs, Profile(p)
  PROVE  IInv'
<1>1. PICK m \in my[p].touched, ok \in BOOLEAN :
        /\ at' = [at EXCEPT ![p] = IF my[p].touched = {m} THEN "save" ELSE "profile"]
        /\ my' = [my EXCEPT ![p] = [my[p] EXCEPT !.touched = @ \ {m},
             !.state.profile[m] = IF ok THEN Count(my[p].state.changes, m) ELSE @]]
  BY DEF Profile, Move, Local
<1> DEFINE me == [my[p] EXCEPT !.touched = @ \ {m},
             !.state.profile[m] = IF ok THEN Count(my[p].state.changes, m) ELSE @]
           place == IF my[p].touched = {m} THEN "save" ELSE "profile"
<1>2. IsLocal(my[p]) /\ IsState(my[p].state)
  BY DEF IInv, Shapes, IsLocal
<1>3. IsState(me.state) /\ me.state.hash = my[p].state.hash
  BY <1>2 DEF IsLocal, Locals, IsState, Fields
<1>4. /\ DOMAIN me = Locals /\ me = [f \in Locals |-> me[f]]
      /\ me.key = my[p].key /\ me.body = my[p].body /\ me.left = my[p].left
  BY <1>2 DEF IsLocal, Locals
<1>5. /\ at' = [at EXCEPT ![p] = place] /\ my' = [my EXCEPT ![p] = me]
      /\ UNCHANGED <<state, applied, page, read>>
  BY <1>1 DEF Profile, files, past
<1>6. place \in {"save", "profile"}
  OBVIOUS
<1> HIDE DEF me, place
<1>7. IsLocal(me)
  BY <1>2, <1>3, <1>4 DEF IsLocal
<1>8. \A k \in Sources : me.state.hash[k] = None \/ me.state.hash[k] \subseteq read' \cup Old
  BY <1>3, <1>5 DEF IInv, Answered
<1>9. Stands(place, me, read')
  BY <1>6 DEF Stands
<1> QED
  BY <1>5, <1>7, <1>8, <1>9, LocalStep DEF IInv, Shapes

LEMMA OnwardStep ==
  ASSUME IInv, NEW p \in Procs, FetchFails(p) \/ AskFails(p) \/ Render(p)
  PROVE  IInv'
<1>1. CASE FetchFails(p) \/ AskFails(p)
  BY <1>1, OverStep DEF FetchFails, AskFails, Move, Local, files, past
<1>2. CASE Render(p)
  <2>1. PICK place \in {"unlock", "profile"} : at' = [at EXCEPT ![p] = place]
    BY <1>2 DEF Render, Move
  <2>2. UNCHANGED <<state, applied, page, read, my>>
    BY <1>2 DEF Render, past
  <2>3. Stands(place, my[p], read)
    BY DEF Stands
  <2> QED
    BY <2>1, <2>2, <2>3, MoveStep
<1> QED
  BY <1>1, <1>2

LEMMA StoreStep ==
  ASSUME IInv, NEW p \in Procs, Store(p)
  PROVE  IInv'
<1>1. /\ at[p] = "store" /\ at' = [at EXCEPT ![p] = "save"]
      /\ applied' = [applied EXCEPT ![my[p].key] = my[p].body]
      /\ UNCHANGED <<state, page, read, my>>
  BY DEF Store, Move
<1>2. my[p].key \in Sources /\ my[p].body \in Body /\ my[p].body \subseteq read \cup Old
  BY <1>1 DEF IInv, Reading
<1>3. Shapes'
  BY <1>1, <1>2 DEF IInv, Shapes
<1>4. \A k \in Sources : Answered(applied[k])' /\ Answered(state.hash[k])'
  BY <1>1, <1>2 DEF IInv, Shapes, Answered
<1>5. \A q \in Procs : \A k \in Sources : Answered(my[q].state.hash[k])'
  BY <1>1 DEF IInv, Answered
<1>6. \A q \in Procs : Reading(q)'
  BY <1>1 DEF IInv, Shapes, Reading
<1> QED
  BY <1>3, <1>4, <1>5, <1>6 DEF IInv

LEMMA SaveStep ==
  ASSUME IInv, NEW p \in Procs, Save(p)
  PROVE  IInv'
<1>1. /\ at' = [at EXCEPT ![p] = "wiki"] /\ state' = my[p].state
      /\ my' = [my EXCEPT ![p] = Holding(p)] /\ UNCHANGED <<applied, page, read>>
  BY DEF Save, Move, Local
<1>2. IsLocal(Holding(p)) /\ Holding(p).state = my[p].state
  BY HoldingIsLocal DEF IInv, Shapes
<1>3. at'[p] = "wiki" /\ my'[p] = Holding(p) /\ \A q \in Procs \ {p} : at'[q] = at[q] /\ my'[q] = my[q]
  BY <1>1 DEF IInv, Shapes
<1>4. Shapes'
  <2>1. IsState(state') /\ \A q \in Procs : IsLocal(my'[q])
    BY <1>1, <1>2, <1>3 DEF IInv, Shapes, IsLocal
  <2>2. /\ DOMAIN at' = Procs /\ at' = [q \in Procs |-> at'[q]]
        /\ DOMAIN my' = Procs /\ my' = [q \in Procs |-> my'[q]]
    BY <1>1 DEF IInv, Shapes
  <2> QED
    BY <1>1, <2>1, <2>2 DEF IInv, Shapes
<1>5. \A k \in Sources : Answered(applied[k])' /\ Answered(state.hash[k])'
  BY <1>1 DEF IInv, Answered
<1>6. \A q \in Procs : \A k \in Sources : Answered(my[q].state.hash[k])'
  BY <1>1, <1>2, <1>3 DEF IInv, Answered
<1>7. \A q \in Procs : Reading(q)'
  BY <1>1, <1>3 DEF IInv, Reading
<1> QED
  BY <1>4, <1>5, <1>6, <1>7 DEF IInv

\* The steps that concern neither the files nor the processes.
LEMMA OutsideStep ==
  ASSUME IInv, \/ Age \/ (\E k \in Sources : Publish(k)) \/ UNCHANGED vars
  PROVE  IInv'
<1>1. UNCHANGED <<state, applied, at, my, read>>
  BY DEF Age, Publish, vars, files, past
<1>2. page' \in [Sources -> Body]
  BY DEF IInv, Shapes, Age, Publish, Pages, vars, Body
<1>3. Shapes'
  BY <1>1, <1>2 DEF IInv, Shapes
<1> QED
  BY <1>1, <1>3 DEF IInv, Answered, Reading

LEMMA InvariantHolds ==
  ASSUME IInv, [Next]_vars
  PROVE  IInv'
<1>1. ASSUME NEW p \in Procs, Step(p) PROVE IInv'
  BY <1>1, LockStep, LoadStep, FetchStep, CompareStep, AskStep, MergeStep, ProfileStep, OnwardStep,
     StoreStep, SaveStep DEF Step
<1>2. ASSUME NEW p \in Procs, Begin(p) \/ Raise(p) \/ Crash(p) PROVE IInv'
  BY <1>2, LockStep
<1> QED
  BY <1>1, <1>2, OutsideStep DEF Next

THEOREM InductiveInvariant == Spec => []IInv
<1>1. Init => IInv
  BY InitialInvariant
<1>2. IInv /\ [Next]_vars => IInv'
  BY InvariantHolds
<1> QED
  BY <1>1, <1>2, PTL DEF Spec

\* No section becomes part of a reflected text, on file or by its hash, without
\* an answer of a model call or being older than the catalog: whatever raises,
\* stops, or takes the lock away (collect_source, _locked).
THEOREM NothingUnreadIsAppliedAlways == Spec => []NothingUnreadIsApplied
<1>1. IInv => NothingUnreadIsApplied
  BY DEF IInv, Answered, NothingUnreadIsApplied
<1> QED
  BY <1>1, InductiveInvariant, PTL

-----------------------------------------------------------------------------
(* The types.  That the merge keeps them needs what a process has fetched.  *)

LocalType ==
  [key: Sources \cup {None}, state: StateType, body: {None} \cup Body,
   left: Body, found: Seq(Sections), touched: SUBSET Models]

Counts ==
  /\ published \in 0..MaxPublish /\ crashes \in 0..MaxCrashes /\ faults \in 0..MaxFaults
  /\ reported \in Body /\ lost \in Body /\ blind \subseteq Procs /\ behind \subseteq Procs

LEMMA CountIsNat ==
  ASSUME NEW c \in Body, NEW m PROVE Count(c, m) \in Nat
<1>1. IsFiniteSet({e \in c : About[e] = m})
  BY FS_Subset, SectionsAssumption DEF Body
<1> QED
  BY <1>1, FS_CardinalityType DEF Count

LEMMA ApplyType ==
  ASSUME NEW st \in StateType, NEW k \in Sources, NEW body \in Body, NEW found \in Seq(Sections)
  PROVE  /\ [ApplyChanges(st, k, body, found) EXCEPT !.hash[k] = body] \in StateType
         /\ Touched(st, k, body, found) \in SUBSET Models
<1>1. ToSet(found) \subseteq Sections
  BY DEF ToSet
<1>2. Touched(st, k, body, found) \in SUBSET Models
  BY <1>1, SectionsAssumption DEF Touched, Fresh
<1> DEFINE s1 == [st EXCEPT !.batches = @ \cup {<<k, body>>}]
<1>3. s1 \in StateType
  <2>1. <<k, body>> \in Sources \X Body
    OBVIOUS
  <2> PICK B : B = st.batches \cup {<<k, body>>}
    OBVIOUS
  <2>2. B \in SUBSET (Sources \X Body)
    BY <2>1 DEF StateType
  <2>3. s1 = [st EXCEPT !.batches = B]
    OBVIOUS
  <2> QED
    BY <2>2, <2>3 DEF StateType
<1> HIDE DEF s1
<1>4. InFront(s1, found) \in StateType
  <2>1. s1 = [f \in DOMAIN s1 |-> s1[f]] /\ s1.changes \in Body /\ s1.newer \in SUBSET (Sections \X Sections)
    BY <1>3 DEF StateType
  <2>2. Fresh(s1, found) \in Body
    BY <1>1 DEF Fresh, Body
  <2>3. s1.changes \cup Fresh(s1, found) \in Body
    BY <2>1, <2>2 DEF Body
  <2> DEFINE F  == Fresh(s1, found)
             new == s1.newer \cup (F \X s1.changes)
                       \cup {x \in F \X F : \E i, j \in DOMAIN found : i < j /\ x = <<found[j], found[i]>>}
  <2>4. new \in SUBSET (Sections \X Sections)
    BY <2>1, <2>2 DEF Body
  <2>5. InFront(s1, found) = [s1 EXCEPT !.changes = @ \cup F, !.newer = new]
    BY DEF InFront
  <2> HIDE DEF new
  <2> QED
    BY <1>3, <2>3, <2>4, <2>5 DEF StateType
<1> DEFINE s2 == InFront(s1, found)
<1> HIDE DEF s2
<1>5. s2 \in StateType
  BY <1>4 DEF s2
<1>6. Rollup(s2) \in StateType
  <2> DEFINE kept == Recent(s2)
  <2>1. kept \in Body
    BY <1>5 DEF Recent, StateType, Body
  <2>2. s2.history \cup (s2.changes \ kept) \in Body
    BY <1>5 DEF StateType, Body
  <2>3. s2.newer \cap (kept \X kept) \in SUBSET (Sections \X Sections)
    BY <1>5 DEF StateType
  <2>4. Rollup(s2) = [s2 EXCEPT !.changes = kept, !.newer = @ \cap (kept \X kept),
                                !.history = @ \cup (s2.changes \ kept)]
    BY DEF Rollup
  <2> HIDE DEF kept
  <2> QED
    BY <1>5, <2>1, <2>2, <2>3, <2>4 DEF StateType
<1>7. ApplyChanges(st, k, body, found) \in StateType
  BY <1>6 DEF ApplyChanges, s1, s2
<1> QED
  BY <1>2, <1>7 DEF StateType

FileTypes ==
  /\ page \in [Sources -> Body] /\ applied \in [Sources -> {None} \cup Body]
  /\ lock \in Procs \cup {Nobody} /\ old \in BOOLEAN
  /\ state \in StateType
  /\ Counts

Places == Inside \cup {"idle", "lock", "unlink", "dead"}

LEMMA GoesOn ==
  ASSUME TypeOK, NEW p \in Procs, NEW place \in Places, NEW me \in LocalType,
         at' = [at EXCEPT ![p] = place], my' = [my EXCEPT ![p] = me], FileTypes', read' \in Body
  PROVE  TypeOK'
BY DEF TypeOK, FileTypes, Counts, Places, LocalType

LEMMA FilesStand ==
  ASSUME TypeOK, UNCHANGED <<page, lock, old, files, bounds, reported, blind, behind, lost>>
  PROVE  FileTypes'
BY DEF TypeOK, FileTypes, Counts, files, bounds

LEMMA BlankType == NoState \in StateType /\ Blank \in LocalType
<1>1. NoState \in StateType
  BY DEF NoState, StateType, Body
<1>2. <<>> \in Seq(Sections)
  OBVIOUS
<1>3. {} \in Body /\ {} \in SUBSET Models
  BY DEF Body
<1> HIDE DEF NoState, StateType, Body
<1> QED
  BY <1>1, <1>2, <1>3 DEF Blank, LocalType

LEMMA HoldingType ==
  ASSUME NEW p, my[p] \in LocalType
  PROVE  Holding(p) \in LocalType
<1>1. Blank \in LocalType
  BY BlankType
<1> QED
  BY <1>1 DEF Holding, LocalType

\* A process before it has the lock, and when it leaves.
LEMMA OutsideType ==
  ASSUME TypeOK, NEW p \in Procs,
         Begin(p) \/ TakeLock(p) \/ FindStale(p) \/ RemoveStale(p) \/ GiveUp(p) \/ Unlock(p)
  PROVE  TypeOK'
<1>0. my[p] \in LocalType /\ Blank \in LocalType
  BY BlankType DEF TypeOK, LocalType
<1>1. CASE Begin(p)
  <2>1. PICK k \in Sources \cup {None} : Local(p, [Blank EXCEPT !.key = k])
    BY <1>1 DEF Begin
  <2>2. [Blank EXCEPT !.key = k] \in LocalType
    BY <1>0 DEF LocalType
  <2> QED
    BY <1>1, <2>1, <2>2, FilesStand, GoesOn DEF Begin, Move, Local, past, TypeOK, Places
<1>2. CASE TakeLock(p)
  <2>1. FileTypes'
    BY <1>2 DEF TakeLock, TypeOK, FileTypes, Counts, files, bounds, past
  <2>2. my' = [my EXCEPT ![p] = my[p]]
    BY <1>2 DEF TakeLock, TypeOK
  <2> QED
    BY <1>0, <1>2, <2>1, <2>2, GoesOn DEF TakeLock, Move, past, TypeOK, Places, Inside
<1>3. CASE FindStale(p)
  <2>1. my' = [my EXCEPT ![p] = my[p]]
    BY <1>3 DEF FindStale, TypeOK
  <2> QED
    BY <1>0, <1>3, <2>1, FilesStand, GoesOn DEF FindStale, Move, past, TypeOK, Places
<1>4. CASE RemoveStale(p)
  <2>1. FileTypes'
    BY <1>4 DEF RemoveStale, TypeOK, FileTypes, Counts, files, bounds, past
  <2>2. my' = [my EXCEPT ![p] = my[p]]
    BY <1>4 DEF RemoveStale, TypeOK
  <2> QED
    BY <1>0, <1>4, <2>1, <2>2, GoesOn DEF RemoveStale, Move, past, TypeOK, Places
<1>5. CASE GiveUp(p)
  BY <1>0, <1>5, FilesStand, GoesOn DEF GiveUp, Move, Local, past, TypeOK, Places
<1>6. CASE Unlock(p)
  <2>1. FileTypes'
    BY <1>6 DEF Unlock, Leave, Forget, TypeOK, FileTypes, Counts, files, bounds
  <2> QED
    BY <1>0, <1>6, <2>1, GoesOn DEF Unlock, Leave, Local, TypeOK, Places
<1> QED
  BY <1>1, <1>2, <1>3, <1>4, <1>5, <1>6

\* A process that reads, asks and merges.
LEMMA CollectType ==
  ASSUME IInv, TypeOK, NEW p \in Procs,
         \/ Load(p) \/ LoadUnreadable(p) \/ Fetch(p) \/ FetchFails(p) \/ Compare(p)
         \/ Ask(p) \/ AskFails(p) \/ Merge(p) \/ Profile(p)
  PROVE  TypeOK'
<1>0. my[p] \in LocalType /\ at[p] \in Places /\ Reading(p) /\ read \in Body
  BY DEF TypeOK, LocalType, IInv, Places
<1>1. CASE Load(p) \/ LoadUnreadable(p)
  <2>0. PICK st \in {state, NoState} : WorkFrom(p, st)
    BY <1>1 DEF Load, LoadUnreadable
  <2> PICK T : T = IF my[p].key = None THEN StaleProfiles(st) ELSE {}
    OBVIOUS
  <2> PICK place : place = IF my[p].key # None THEN "fetch"
                           ELSE IF StaleProfiles(st) = {} THEN "unlock" ELSE "profile"
    OBVIOUS
  <2>1. T \in SUBSET Models /\ st \in StateType
    BY BlankType DEF StaleProfiles, TypeOK
  <2>2. [my[p] EXCEPT !.state = st, !.touched = T] \in LocalType
    BY <1>0, <2>1 DEF LocalType
  <2>3. place \in Places
    BY DEF Places, Inside
  <2>4. /\ at' = [at EXCEPT ![p] = place] /\ my' = [my EXCEPT ![p] = [my[p] EXCEPT !.state = st, !.touched = T]]
        /\ UNCHANGED <<page, lock, old, files, published, crashes, read, reported, behind, lost>>
    BY <2>0 DEF WorkFrom, Move, Local
  <2>5. faults' \in 0..MaxFaults
    BY <1>1, BoundsAssumption DEF Load, LoadUnreadable, TypeOK
  <2>6. blind' \subseteq Procs
    BY <1>1 DEF Load, LoadUnreadable, TypeOK
  <2>7. FileTypes'
    BY <2>4, <2>5, <2>6 DEF TypeOK, FileTypes, Counts, files
  <2> QED
    BY <1>0, <2>2, <2>3, <2>4, <2>7, GoesOn
<1>2. CASE Fetch(p)
  <2>1. page[my[p].key] \in Body
    BY <1>0, <1>2 DEF Fetch, Move, Reading, TypeOK
  <2>2. [my[p] EXCEPT !.body = page[my[p].key]] \in LocalType
    BY <1>0, <2>1 DEF LocalType
  <2> QED
    BY <1>0, <1>2, <2>2, FilesStand, GoesOn DEF Fetch, Move, Local, past, Places, Inside
<1>3. CASE FetchFails(p) \/ AskFails(p)
  <2>1. Holding(p) \in LocalType
    BY <1>0, HoldingType
  <2> QED
    BY <1>0, <1>3, <2>1, FilesStand, GoesOn DEF FetchFails, AskFails, Move, Local, past, Places, Inside
<1>4. CASE Compare(p)
  <2>1. at[p] = "compare" /\ UNCHANGED <<page, lock, old, files, bounds, past>>
    BY <1>4 DEF Compare, Move
  <2>2. CASE at' = [at EXCEPT ![p] = "save"] /\ my' = [my EXCEPT ![p] = Holding(p)]
    <3>1. Holding(p) \in LocalType
      BY <1>0, HoldingType
    <3> QED
      BY <1>0, <2>1, <2>2, <3>1, FilesStand, GoesOn DEF past, Places, Inside
  <2>3. CASE /\ at' = [at EXCEPT ![p] = "ask"]
             /\ my' = [my EXCEPT ![p] = [my[p] EXCEPT !.left =
                  IF applied[my[p].key] = None THEN my[p].body \ Old ELSE my[p].body \ applied[my[p].key]]]
    <3> PICK L : L = IF applied[my[p].key] = None THEN my[p].body \ Old ELSE my[p].body \ applied[my[p].key]
      OBVIOUS
    <3>1. L \in Body
      BY <1>0, <2>1 DEF Reading, Body
    <3>2. [my[p] EXCEPT !.left = L] \in LocalType
      BY <1>0, <3>1 DEF LocalType
    <3> QED
      BY <1>0, <2>1, <2>3, <3>2, FilesStand, GoesOn DEF past, Places, Inside
  <2> QED
    BY <1>4, <2>2, <2>3 DEF Compare, Move, Local
<1>5. CASE Ask(p)
  <2>0. PICK s \in my[p].left :
          /\ \E entry \in {<<>>, <<s>>} :
               my' = [my EXCEPT ![p] = [my[p] EXCEPT !.left = @ \ {s}, !.found = @ \o entry]]
          /\ read' = read \cup {s}
    BY <1>5 DEF Ask, Local
  <2>1. PICK entry \in {<<>>, <<s>>} :
          my' = [my EXCEPT ![p] = [my[p] EXCEPT !.left = @ \ {s}, !.found = @ \o entry]]
    BY <2>0
  <2>2. s \in Sections /\ my[p].left \ {s} \in Body
    BY <1>0 DEF LocalType, Body
  <2>3. my[p].found \o entry \in Seq(Sections)
    <3>1. <<>> \in Seq(Sections) /\ <<s>> \in Seq(Sections)
      BY <2>2
    <3>2. my[p].found \in Seq(Sections)
      BY <1>0 DEF LocalType
    <3>3. entry \in Seq(Sections)
      BY <3>1
    <3> QED
      BY <3>2, <3>3
  <2>4. [my[p] EXCEPT !.left = @ \ {s}, !.found = @ \o entry] \in LocalType
    BY <1>0, <2>2, <2>3 DEF LocalType
  <2>5. at' = [at EXCEPT ![p] = at[p]] /\ read' \in Body
    BY <1>0, <1>5, <2>0, <2>2 DEF Ask, TypeOK, Body
  <2> QED
    BY <1>0, <1>5, <2>1, <2>4, <2>5, FilesStand, GoesOn DEF Ask
<1>6. CASE Merge(p)
  <2> DEFINE me == my[p]
  <2> PICK st : st = [ApplyChanges(me.state, me.key, me.body, me.found) EXCEPT !.hash[me.key] = me.body]
    OBVIOUS
  <2> PICK T : T = Touched(me.state, me.key, me.body, me.found)
    OBVIOUS
  <2> PICK fs : fs = IF <<me.key, me.body>> \in me.state.batches THEN <<>> ELSE me.found
    OBVIOUS
  <2>1. /\ me.key \in Sources /\ me.body \in Body
        /\ me.state \in StateType /\ me.found \in Seq(Sections)
    BY <1>0, <1>6 DEF Merge, Move, Reading, LocalType
  <2>2. st \in StateType /\ T \in SUBSET Models
    BY <2>1, ApplyType
  <2>3. fs \in Seq(Sections)
    BY <2>1
  <2>4. my' = [my EXCEPT ![p] = [me EXCEPT !.state = st, !.touched = T, !.found = fs]]
    BY <1>6 DEF Merge, Local
  <2>5. [me EXCEPT !.state = st, !.touched = T, !.found = fs] \in LocalType
    BY <1>0, <2>2, <2>3 DEF LocalType
  <2> QED
    BY <1>0, <1>6, <2>4, <2>5, FilesStand, GoesOn DEF Merge, Move, past, Places, Inside
<1>7. CASE Profile(p)
  <2>1. PICK m \in my[p].touched, ok \in BOOLEAN :
          /\ at' = [at EXCEPT ![p] = IF my[p].touched = {m} THEN "save" ELSE "profile"]
          /\ my' = [my EXCEPT ![p] = [my[p] EXCEPT !.touched = @ \ {m},
                      !.state.profile[m] = IF ok THEN Count(my[p].state.changes, m) ELSE @]]
          /\ UNCHANGED <<page, lock, old, files, bounds, past>>
    BY <1>7 DEF Profile, Move, Local
  <2> DEFINE st == my[p].state
  <2>2. st \in StateType /\ m \in Models /\ my[p].touched \ {m} \in SUBSET Models
    BY <1>0 DEF LocalType
  <2>3. Count(st.changes, m) \in Nat
    BY <2>2, CountIsNat DEF StateType
  <2> PICK prof : prof = [st.profile EXCEPT ![m] = IF ok THEN Count(st.changes, m) ELSE @]
    OBVIOUS
  <2>4. prof \in [Models -> Nat]
    BY <2>2, <2>3 DEF StateType
  <2>5. [st EXCEPT !.profile = prof] \in StateType
    BY <2>2, <2>4 DEF StateType
  <2> PICK st2 : st2 = [st EXCEPT !.profile = prof]
    OBVIOUS
  <2>6. my' = [my EXCEPT ![p] = [my[p] EXCEPT !.touched = @ \ {m}, !.state = st2]]
    BY <2>1
  <2>7. [my[p] EXCEPT !.touched = @ \ {m}, !.state = st2] \in LocalType
    BY <1>0, <2>2, <2>5 DEF LocalType
  <2> QED
    BY <1>0, <2>1, <2>6, <2>7, FilesStand, GoesOn DEF past, Places, Inside
<1> QED
  BY <1>1, <1>2, <1>3, <1>4, <1>5, <1>6, <1>7

\* A process that writes.
LEMMA WriteType ==
  ASSUME IInv, TypeOK, NEW p \in Procs, Store(p) \/ Save(p) \/ Render(p)
  PROVE  TypeOK'
<1>0. my[p] \in LocalType /\ Reading(p) /\ read \in Body /\ read' = read
  BY DEF TypeOK, LocalType, IInv, Store, Save, Render, past
<1>1. CASE Store(p)
  <2>1. applied' \in [Sources -> {None} \cup Body] /\ reported' \in Body
    BY <1>0, <1>1 DEF Store, Move, Reading, TypeOK, LocalType, Body, ToSet
  <2>2. FileTypes'
    BY <1>1, <2>1 DEF Store, TypeOK, FileTypes, Counts, bounds
  <2>3. my' = [my EXCEPT ![p] = my[p]]
    BY <1>1 DEF Store, TypeOK
  <2> QED
    BY <1>0, <1>1, <2>2, <2>3, GoesOn DEF Store, Move, Places, Inside
<1>2. CASE Save(p)
  <2>1. my[p].state \in StateType
    BY <1>0 DEF LocalType
  <2>2. state' \in StateType /\ blind' \subseteq Procs /\ behind' \subseteq Procs
    BY <1>2, <2>1 DEF Save, TypeOK
  <2>3. lost' \in Body
    <3>1. Recorded(state) \in Body
      BY DEF Recorded, TypeOK, StateType, Body
    <3> QED
      BY <1>2, <3>1 DEF Save, TypeOK, Body
  <2>4. FileTypes'
    BY <1>2, <2>2, <2>3 DEF Save, TypeOK, FileTypes, Counts, bounds
  <2>5. Holding(p) \in LocalType
    BY <1>0, HoldingType
  <2> QED
    BY <1>0, <1>2, <2>4, <2>5, GoesOn DEF Save, Move, Local, Places, Inside
<1>3. CASE Render(p)
  <2>1. FileTypes'
    BY <1>3 DEF Render, TypeOK, FileTypes, Counts, bounds, past
  <2>2. my' = [my EXCEPT ![p] = my[p]]
    BY <1>3 DEF Render, TypeOK
  <2> QED
    BY <1>0, <1>3, <2>1, <2>2, GoesOn DEF Render, Move, Places, Inside
<1> QED
  BY <1>1, <1>2, <1>3

\* What goes wrong, and what happens outside.
LEMMA FaultType ==
  ASSUME TypeOK,
         (\E p \in Procs : Raise(p) \/ Crash(p)) \/ Age \/ (\E k \in Sources : Publish(k))
  PROVE  TypeOK'
<1>0. ASSUME NEW p \in Procs, Interrupted(p), Forget(p)
      PROVE  lost' \in Body /\ blind' \subseteq Procs /\ behind' \subseteq Procs
  <2>1. Recorded(my[p].state) \in Body
    BY DEF Recorded, TypeOK, StateType, Body
  <2> QED
    BY <1>0, <2>1 DEF Interrupted, Forget, TypeOK, Body
<1>1. ASSUME NEW p \in Procs, Raise(p) PROVE TypeOK'
  <2>1. faults' \in 0..MaxFaults
    BY <1>1, BoundsAssumption DEF Raise, TypeOK
  <2>2. lost' \in Body /\ blind' \subseteq Procs /\ behind' \subseteq Procs
    BY <1>0, <1>1 DEF Raise, Leave
  <2>3. FileTypes'
    BY <1>1, <2>1, <2>2 DEF Raise, Leave, TypeOK, FileTypes, Counts, files
  <2> QED
    BY <1>1, <2>3, BlankType, GoesOn DEF Raise, Leave, Local, TypeOK, Places
<1>2. ASSUME NEW p \in Procs, Crash(p) PROVE TypeOK'
  <2>1. crashes' \in 0..MaxCrashes
    BY <1>2, BoundsAssumption DEF Crash, TypeOK
  <2>2. lost' \in Body /\ blind' \subseteq Procs /\ behind' \subseteq Procs
    BY <1>0, <1>2 DEF Crash
  <2>3. FileTypes'
    BY <1>2, <2>1, <2>2 DEF Crash, TypeOK, FileTypes, Counts, files
  <2> QED
    BY <1>2, <2>3, BlankType, GoesOn DEF Crash, Local, TypeOK, Places
<1>3. CASE Age
  <2>1. faults' \in 0..MaxFaults
    <3>1. CASE at[lock] = "dead"
      BY <1>3, <3>1 DEF Age, TypeOK
    <3>2. CASE at[lock] # "dead"
      BY <1>3, <3>2, BoundsAssumption DEF Age, TypeOK
    <3> QED
      BY <3>1, <3>2
  <2> QED
    BY <1>3, <2>1 DEF Age, TypeOK, files, past
<1>4. ASSUME NEW k \in Sources, Publish(k) PROVE TypeOK'
  <2>1. PICK body \in Body : page' = [page EXCEPT ![k] = body]
    BY <1>4 DEF Publish, Pages, Body
  <2>2. page' \in [Sources -> Body]
    BY <2>1 DEF TypeOK
  <2>3. published' \in 0..MaxPublish
    BY <1>4, BoundsAssumption DEF Publish, TypeOK
  <2> QED
    BY <1>4, <2>2, <2>3 DEF Publish, TypeOK, files, past
<1> QED
  BY <1>1, <1>2, <1>3, <1>4

\* Files, lock, local variables and history keep their types.
THEOREM TypeCorrect == Spec => []TypeOK
<1>1. Init => TypeOK
  <2> SUFFICES ASSUME Init PROVE TypeOK
    OBVIOUS
  <2>1. FileTypes
    <3>1. {} \in Body
      BY DEF Body
    <3>2. Counts
      <4>1. \A n \in {MaxPublish, MaxCrashes, MaxFaults} : 0 \in 0..n
        BY BoundsAssumption
      <4>2. reported \in Body /\ lost \in Body /\ blind \subseteq Procs /\ behind \subseteq Procs
        BY <3>1 DEF Init
      <4>3. published = 0 /\ crashes = 0 /\ faults = 0
        BY DEF Init
      <4> QED
        BY <4>1, <4>2, <4>3 DEF Counts
    <3> QED
      BY <3>1, <3>2, BlankType DEF Init, FileTypes
  <2>2. at \in [Procs -> Places] /\ my \in [Procs -> LocalType] /\ read \in Body
    BY BlankType DEF Init, Places, Body
  <2> QED
    BY <2>1, <2>2 DEF TypeOK, FileTypes, Counts, Places, LocalType
<1>2. IInv /\ TypeOK /\ [Next]_vars => TypeOK'
  <2> SUFFICES ASSUME IInv, TypeOK, [Next]_vars PROVE TypeOK'
    OBVIOUS
  <2>1. CASE UNCHANGED vars
    BY <2>1 DEF vars, TypeOK
  <2>2. CASE Next
    BY <2>2, OutsideType, CollectType, WriteType, FaultType DEF Next, Step
  <2> QED
    BY <2>1, <2>2
<1> QED
  BY <1>1, <1>2, InductiveInvariant, PTL DEF Spec

-----------------------------------------------------------------------------
(* The lock, and what it is for.  A lock file older than the limit is taken *)
(* over in two steps, so that a process may remove the lock of another one  *)
(* that has taken over first, or that is alive and slow; the rest of the    *)
(* module is about the runs without such a take-over.                       *)

\* Whoever is about to remove a stale lock file takes it from nobody who works.
TakesOverSafely == \A p \in Procs : at[p] = "unlink" => \A q \in Procs : at[q] \notin Inside

LockInv == \A p \in Procs : at[p] \in Inside => lock = p

\* A step under the lock.
Work(p) ==
  \/ Load(p) \/ LoadUnreadable(p) \/ Fetch(p) \/ FetchFails(p) \/ Compare(p) \/ Ask(p) \/ AskFails(p)
  \/ Merge(p) \/ Store(p) \/ Save(p) \/ Render(p) \/ Profile(p)

LEMMA WorkGoesOn ==
  ASSUME Shapes, NEW p \in Procs, Work(p)
  PROVE  /\ at[p] \in Inside \ {"unlock"} /\ lock' = lock
         /\ \E place \in Inside \ {"load"} : at' = [at EXCEPT ![p] = place]
<1>1. CASE Ask(p)
  <2>1. at[p] = "ask" /\ at' = [at EXCEPT ![p] = "ask"] /\ lock' = lock
    BY <1>1 DEF Ask, Shapes
  <2> QED
    BY <2>1 DEF Inside
<1>2. CASE Profile(p)
  <2>1. PICK place \in {"save", "profile"} : at' = [at EXCEPT ![p] = place]
    BY <1>2 DEF Profile, Move
  <2> QED
    BY <1>2, <2>1 DEF Profile, Move, Inside
<1>3. CASE Load(p) \/ LoadUnreadable(p)
  <2>0. PICK st : WorkFrom(p, st)
    BY <1>3 DEF Load, LoadUnreadable
  <2>1. PICK place \in {"fetch", "unlock", "profile"} : at' = [at EXCEPT ![p] = place]
    BY <2>0 DEF WorkFrom, Move
  <2> QED
    BY <2>0, <2>1 DEF WorkFrom, Move, Inside
<1>4. CASE Compare(p) \/ Render(p)
  <2>1. PICK place \in {"save", "ask", "unlock", "profile"} : at' = [at EXCEPT ![p] = place]
    BY <1>4 DEF Compare, Render, Move
  <2> QED
    BY <1>4, <2>1 DEF Compare, Render, Move, Inside
<1>5. CASE Fetch(p) \/ FetchFails(p) \/ AskFails(p) \/ Merge(p) \/ Store(p) \/ Save(p)
  BY <1>5 DEF Fetch, FetchFails, AskFails, Merge, Store, Save, Move, Inside
<1> QED
  BY <1>1, <1>2, <1>3, <1>4, <1>5 DEF Work

\* The lock file is that of the one process at work.
LEMMA LockHolds ==
  ASSUME Shapes, LockInv, TakesOverSafely, [Next]_vars
  PROVE  LockInv'
<1> USE DEF LockInv
<1>1. ASSUME NEW p \in Procs, Work(p)
      PROVE  LockInv'
  <2>1. at[p] \in Inside /\ lock' = lock /\ \A q \in Procs \ {p} : at'[q] = at[q]
    BY <1>1, WorkGoesOn DEF Shapes
  <2> QED
    BY <2>1
<1>2. ASSUME NEW p \in Procs, Begin(p) \/ FindStale(p) \/ GiveUp(p) \/ Crash(p)
      PROVE  LockInv'
  <2>1. PICK place \in {"lock", "unlink", "idle", "dead"} : at' = [at EXCEPT ![p] = place]
    BY <1>2 DEF Begin, FindStale, GiveUp, Crash, Move
  <2>2. lock' = lock
    BY <1>2 DEF Begin, FindStale, GiveUp, Crash
  <2>3. at'[p] \notin Inside /\ \A q \in Procs \ {p} : at'[q] = at[q]
    BY <2>1 DEF Shapes, Inside
  <2> QED
    BY <2>2, <2>3
<1>3. ASSUME NEW p \in Procs, TakeLock(p)
      PROVE  LockInv'
  <2>1. lock' = p /\ lock = Nobody /\ \A q \in Procs \ {p} : at'[q] = at[q]
    BY <1>3 DEF TakeLock, Move, Shapes
  <2> QED
    BY <2>1, NamesAssumption
<1>4. ASSUME NEW p \in Procs, RemoveStale(p)
      PROVE  LockInv'
  <2>1. at[p] = "unlink" /\ at' = [at EXCEPT ![p] = "lock"]
    BY <1>4 DEF RemoveStale, Move
  <2>2. \A q \in Procs : at'[q] \notin Inside
    BY <2>1 DEF TakesOverSafely, Shapes, Inside
  <2> QED
    BY <2>2
<1>5. ASSUME NEW p \in Procs, Unlock(p) \/ Raise(p)
      PROVE  LockInv'
  <2>1. at[p] \in Inside /\ at' = [at EXCEPT ![p] = "idle"]
    BY <1>5 DEF Unlock, Raise, Leave, Inside
  <2>2. \A q \in Procs : at'[q] \notin Inside
    BY <2>1 DEF Shapes, Inside
  <2> QED
    BY <2>2
<1>6. CASE Age \/ (\E k \in Sources : Publish(k)) \/ UNCHANGED vars
  BY <1>6 DEF Age, Publish, vars
<1> QED
  BY <1>1, <1>2, <1>3, <1>4, <1>5, <1>6 DEF Next, Step, Work

LEMMA LockSerialises == LockInv => Serialised
BY DEF LockInv, Serialised

\* One process at a time works on the files of a vendor, as long as no lock file
\* is taken over from one that works (_locked).
THEOREM SerialisedWhileSafe == Spec /\ []TakesOverSafely => []Serialised
<1> DEFINE I == IInv /\ LockInv
<1>1. Init => I
  BY InitialInvariant DEF Init, LockInv, Inside
<1>2. I /\ TakesOverSafely /\ [Next]_vars => I'
  BY InvariantHolds, LockHolds DEF IInv
<1>3. I => Serialised
  BY LockSerialises
<1> HIDE DEF I
<1> QED
  BY <1>1, <1>2, <1>3, PTL DEF Spec

-----------------------------------------------------------------------------
(* Merging, rolling up and storing lose no entry.                          *)

LEMMA RollupKeepsAll ==
  ASSUME NEW st, IsState(st)
  PROVE  Recorded(st) \subseteq Recorded(Rollup(st))
<1> DEFINE kept == Recent(st)
<1>1. Rollup(st).changes = kept /\ Rollup(st).history = st.history \cup (st.changes \ kept)
  <2> HIDE DEF kept
  <2>1. Rollup(st) = [st EXCEPT !.changes = kept, !.newer = @ \cap (kept \X kept),
                                !.history = @ \cup (st.changes \ kept)]
    BY DEF Rollup, kept
  <2> QED
    BY <2>1 DEF IsState, Fields
<1> HIDE DEF kept
<1> QED
  BY <1>1 DEF Recorded

\* A merge keeps what is on record and adds what was found; a batch that is
\* known adds nothing.
LEMMA MergeRecords ==
  ASSUME NEW st, IsState(st), NEW k, NEW body, NEW found
  PROVE  /\ Recorded(st) \subseteq Recorded(ApplyChanges(st, k, body, found))
         /\ <<k, body>> \notin st.batches => ToSet(found) \subseteq Recorded(ApplyChanges(st, k, body, found))
<1> DEFINE s1 == [st EXCEPT !.batches = @ \cup {<<k, body>>}]
<1>1. IsState(s1) /\ s1.changes = st.changes /\ s1.history = st.history
  BY DEF IsState, Fields
<1>2. ApplyChanges(st, k, body, found) = IF <<k, body>> \in st.batches THEN st ELSE Rollup(InFront(s1, found))
  BY DEF ApplyChanges
<1> HIDE DEF s1
<1>3. /\ IsState(InFront(s1, found)) /\ InFront(s1, found).history = s1.history
      /\ InFront(s1, found).changes = s1.changes \cup Fresh(s1, found)
  BY <1>1 DEF InFront, IsState, Fields
<1>4. Recorded(InFront(s1, found)) = Recorded(st) \cup Fresh(s1, found)
  BY <1>1, <1>3 DEF Recorded
<1>5. ToSet(found) \subseteq Recorded(st) \cup Fresh(s1, found)
  BY <1>1 DEF Fresh, Recorded
<1>6. Recorded(InFront(s1, found)) \subseteq Recorded(Rollup(InFront(s1, found)))
  BY <1>3, RollupKeepsAll
<1> QED
  BY <1>2, <1>4, <1>5, <1>6

\* What a process that is neither blind nor overtaken holds is as good as the
\* file, and what it is about to store as reflected is in what it holds.
Keeps(place, me, astray) ==
  /\ place \in Loaded /\ ~astray => Recorded(state) \subseteq Recorded(me.state)
  /\ place = "store" => ToSet(me.found) \subseteq Recorded(me.state)

Astray(p) == p \in blind \cup behind

\* What is merged, stored as reflected and not saved.
Unsaved(place, me) == IF place = "save" THEN ToSet(me.found) \cap Recorded(me.state) ELSE {}

OnRecord == \A e \in reported :
  e \in Recorded(state) \cup lost \/ \E p \in Procs : e \in Unsaved(at[p], my[p])

RecordInv == OnRecord /\ \A p \in Procs : Keeps(at[p], my[p], Astray(p))

\* A step of one process that is not about to save and leaves the files alone.
LEMMA KeepsOn ==
  ASSUME Shapes, RecordInv, NEW p \in Procs, at[p] # "save",
         UNCHANGED <<state, reported, lost>>, \A q \in Procs \ {p} : Astray(q)' = Astray(q),
         NEW place, NEW me, at' = [at EXCEPT ![p] = place], my' = [my EXCEPT ![p] = me],
         Keeps(place, me, Astray(p)')
  PROVE  RecordInv'
<1>1. at'[p] = place /\ my'[p] = me /\ \A q \in Procs \ {p} : at'[q] = at[q] /\ my'[q] = my[q]
  BY DEF Shapes
<1>2. \A q \in Procs : Unsaved(at[q], my[q]) \subseteq Unsaved(at'[q], my'[q])
  BY <1>1 DEF Unsaved
<1>3. OnRecord'
  BY <1>2 DEF RecordInv, OnRecord, Unsaved, Recorded
<1>4. ASSUME NEW q \in Procs PROVE Keeps(at[q], my[q], Astray(q))'
  <2>1. CASE q = p
    BY <1>1, <2>1 DEF Keeps, Recorded
  <2>2. CASE q # p
    <3>1. Keeps(at[q], my[q], Astray(q)) /\ Astray(q)' = Astray(q)
      BY <2>2 DEF RecordInv
    <3> QED
      BY <1>1, <2>2, <3>1 DEF Keeps, Recorded
  <2> QED
    BY <2>1, <2>2
<1> QED
  BY <1>3, <1>4 DEF RecordInv

LEMMA RecordInit == Init => RecordInv
<1>1. ASSUME Init PROVE RecordInv
  <2>1. reported = {} /\ \A p \in Procs : at[p] = "idle"
    BY <1>1 DEF Init
  <2> QED
    BY <2>1 DEF RecordInv, OnRecord, Keeps, Loaded, Inside
<1> QED
  BY <1>1

\* Before the lock, and after it: an interrupted save is lost.
LEMMA RecordLock ==
  ASSUME Shapes, RecordInv, NEW p \in Procs,
         \/ Begin(p) \/ TakeLock(p) \/ FindStale(p) \/ RemoveStale(p) \/ GiveUp(p) \/ Unlock(p)
         \/ Raise(p) \/ Crash(p)
  PROVE  RecordInv'
<1> USE DEF Move, Local, past, Forget
<1>1. PICK place \in {"idle", "lock", "unlink", "load", "dead"} : at' = [at EXCEPT ![p] = place]
  BY DEF Begin, TakeLock, FindStale, RemoveStale, GiveUp, Unlock, Raise, Crash, Leave
<1>2. UNCHANGED <<state, reported>> /\ \A q \in Procs \ {p} : Astray(q)' = Astray(q) /\ my'[q] = my[q]
  BY DEF Begin, TakeLock, FindStale, RemoveStale, GiveUp, Unlock, Raise, Crash, Leave, files, Astray, Shapes
<1>3. lost \subseteq lost'
  BY DEF Begin, TakeLock, FindStale, RemoveStale, GiveUp, Unlock, Raise, Crash, Interrupted
<1>4. Unsaved(at[p], my[p]) \subseteq Recorded(state) \cup lost'
  <2>1. CASE at[p] # "save"
    BY <2>1 DEF Unsaved
  <2>2. CASE at[p] = "save"
    BY <2>2 DEF Begin, TakeLock, FindStale, RemoveStale, GiveUp, Unlock, Raise, Crash, Interrupted, Unsaved
  <2> QED
    BY <2>1, <2>2
<1>5. at'[p] = place /\ \A q \in Procs \ {p} : at'[q] = at[q]
  BY <1>1 DEF Shapes
<1>6. OnRecord'
  <2> SUFFICES ASSUME NEW e \in reported
               PROVE  e \in Recorded(state) \cup lost' \/ \E q \in Procs : e \in Unsaved(at'[q], my'[q])
    BY <1>2 DEF OnRecord, Unsaved, Recorded
  <2>1. e \in Recorded(state) \cup lost \/ \E q \in Procs : e \in Unsaved(at[q], my[q])
    BY DEF RecordInv, OnRecord
  <2> QED
    BY <1>2, <1>3, <1>4, <1>5, <2>1
<1>7. ASSUME NEW q \in Procs PROVE Keeps(at[q], my[q], Astray(q))'
  <2>1. CASE q = p
    BY <1>5, <2>1 DEF Keeps, Loaded, Inside
  <2>2. CASE q # p
    <3>1. Keeps(at[q], my[q], Astray(q)) /\ Astray(q)' = Astray(q)
      BY <1>2, <2>2 DEF RecordInv
    <3> QED
      BY <1>2, <1>5, <2>2, <3>1 DEF Keeps, Recorded
  <2> QED
    BY <2>1, <2>2
<1> QED
  BY <1>6, <1>7 DEF RecordInv

\* What was loaded is the file, or the process is blind.
LEMMA RecordLoad ==
  ASSUME Shapes, RecordInv, NEW p \in Procs, Load(p) \/ LoadUnreadable(p)
  PROVE  RecordInv'
<1>1. PICK st \in {state, NoState} : WorkFrom(p, st) /\ (st = state \/ LoadUnreadable(p))
  BY DEF Load, LoadUnreadable
<1> PICK T : T = IF my[p].key = None THEN StaleProfiles(st) ELSE {}
  OBVIOUS
<1> PICK me : me = [my[p] EXCEPT !.state = st, !.touched = T]
  OBVIOUS
<1> PICK place : place = IF my[p].key # None THEN "fetch"
                         ELSE IF StaleProfiles(st) = {} THEN "unlock" ELSE "profile"
  OBVIOUS
<1>2. /\ at[p] = "load" /\ at' = [at EXCEPT ![p] = place] /\ my' = [my EXCEPT ![p] = me]
      /\ UNCHANGED <<state, reported, behind, lost>>
  BY <1>1 DEF WorkFrom, Move, Local, files
<1>3. me.state = st /\ place # "store"
  BY DEF Shapes, IsLocal, Locals
<1>4. \A q \in Procs \ {p} : Astray(q)' = Astray(q)
  BY <1>2 DEF Load, LoadUnreadable, Astray
<1>5. st = state \/ Astray(p)'
  BY <1>1 DEF LoadUnreadable, Astray
<1>6. Keeps(place, me, Astray(p)')
  BY <1>3, <1>5 DEF Keeps
<1> QED
  BY <1>2, <1>4, <1>6, KeepsOn

\* Steps that leave the files and what the process has on record alone.
LEMMA RecordOnward ==
  ASSUME Shapes, RecordInv, NEW p \in Procs,
         \/ Fetch(p) \/ FetchFails(p) \/ Compare(p) \/ Ask(p) \/ AskFails(p) \/ Render(p) \/ Profile(p)
  PROVE  RecordInv'
<1> USE DEF Move, Local, files, past
<1>1. IsLocal(my[p]) /\ IsState(my[p].state)
  BY DEF Shapes, IsLocal
<1>2. /\ at[p] \in Loaded \ {"save"} /\ UNCHANGED <<state, reported, lost>>
      /\ \A q \in Procs : Astray(q)' = Astray(q)
  BY DEF Fetch, FetchFails, Compare, Ask, AskFails, Render, Profile, Loaded, Inside, Astray
<1>3. PICK place \in Loaded \ {"store"} : at' = [at EXCEPT ![p] = place]
  <2>1. CASE Ask(p)
    BY <2>1 DEF Ask, Shapes, Loaded, Inside
  <2>2. CASE Fetch(p) \/ FetchFails(p) \/ Compare(p) \/ AskFails(p)
    BY <2>2 DEF Fetch, FetchFails, Compare, AskFails, Loaded, Inside
  <2>3. CASE Render(p) \/ Profile(p)
    <3>1. PICK next \in {"save", "unlock", "profile"} : at' = [at EXCEPT ![p] = next]
      BY <2>3 DEF Render, Profile
    <3> QED
      BY <3>1 DEF Loaded, Inside
  <2> QED
    BY <2>1, <2>2, <2>3
<1>4. PICK me : my' = [my EXCEPT ![p] = me] /\ Recorded(me.state) = Recorded(my[p].state)
  <2>1. CASE Fetch(p)
    <3>1. [my[p] EXCEPT !.body = page[my[p].key]].state = my[p].state
      BY <1>1 DEF IsLocal, Locals
    <3> QED
      BY <2>1, <3>1 DEF Fetch
  <2>2. CASE FetchFails(p) \/ AskFails(p)
    <3>1. Holding(p).state = my[p].state
      BY <1>1, HoldingIsLocal
    <3> QED
      BY <2>2, <3>1 DEF FetchFails, AskFails
  <2>3. CASE Compare(p)
    <3>1. Holding(p).state = my[p].state
      BY <1>1, HoldingIsLocal
    <3>2. \A left : [my[p] EXCEPT !.left = left].state = my[p].state
      BY <1>1 DEF IsLocal, Locals
    <3> QED
      BY <2>3, <3>1, <3>2 DEF Compare
  <2>4. CASE Ask(p)
    <3>0. PICK s \in my[p].left : \E e \in {<<>>, <<s>>} :
            my' = [my EXCEPT ![p] = [my[p] EXCEPT !.left = @ \ {s}, !.found = @ \o e]]
      BY <2>4 DEF Ask
    <3>1. PICK e : my' = [my EXCEPT ![p] = [my[p] EXCEPT !.left = @ \ {s}, !.found = @ \o e]]
      BY <3>0
    <3>2. [my[p] EXCEPT !.left = @ \ {s}, !.found = @ \o e].state = my[p].state
      BY <1>1 DEF IsLocal, Locals
    <3> QED
      BY <3>1, <3>2
  <2>5. CASE Render(p)
    <3>1. my' = [my EXCEPT ![p] = my[p]]
      BY <2>5 DEF Render, Shapes
    <3> QED
      BY <3>1
  <2>6. CASE Profile(p)
    <3>1. PICK m \in my[p].touched, ok \in BOOLEAN :
            my' = [my EXCEPT ![p] = [my[p] EXCEPT !.touched = @ \ {m},
                 !.state.profile[m] = IF ok THEN Count(my[p].state.changes, m) ELSE @]]
      BY <2>6 DEF Profile
    <3> PICK me : me = [my[p] EXCEPT !.touched = @ \ {m},
                 !.state.profile[m] = IF ok THEN Count(my[p].state.changes, m) ELSE @]
      OBVIOUS
    <3>2. me.state.changes = my[p].state.changes /\ me.state.history = my[p].state.history
      BY <1>1 DEF IsLocal, Locals, IsState, Fields
    <3> QED
      BY <3>1, <3>2 DEF Recorded
  <2> QED
    BY <2>1, <2>2, <2>3, <2>4, <2>5, <2>6
<1>5. Keeps(place, me, Astray(p)')
  BY <1>2, <1>3, <1>4 DEF RecordInv, Keeps
<1>6. at[p] # "save"
  BY <1>2
<1> QED
  BY <1>2, <1>3, <1>4, <1>5, <1>6, KeepsOn

\* A merge takes in what was found, unless the batch is known.
LEMMA RecordMerge ==
  ASSUME Shapes, RecordInv, NEW p \in Procs, Merge(p)
  PROVE  RecordInv'
<1> DEFINE mine == my[p]
<1>1. IsLocal(mine) /\ IsState(mine.state)
  BY DEF Shapes, IsLocal
<1> PICK merged : merged = ApplyChanges(mine.state, mine.key, mine.body, mine.found)
  OBVIOUS
<1> PICK next : next = [merged EXCEPT !.hash[mine.key] = mine.body]
  OBVIOUS
<1> PICK touched : touched = Touched(mine.state, mine.key, mine.body, mine.found)
  OBVIOUS
<1> PICK found : found = IF <<mine.key, mine.body>> \in mine.state.batches THEN <<>> ELSE mine.found
  OBVIOUS
<1> PICK me : me = [mine EXCEPT !.state = next, !.touched = touched, !.found = found]
  OBVIOUS
<1>2. /\ at[p] = "ask" /\ at' = [at EXCEPT ![p] = "store"] /\ my' = [my EXCEPT ![p] = me]
      /\ UNCHANGED <<state, reported, lost>> /\ \A q \in Procs : Astray(q)' = Astray(q)
  BY DEF Merge, Move, Local, files, past, Astray
<1>3. /\ IsState(merged) /\ Recorded(mine.state) \subseteq Recorded(merged)
      /\ <<mine.key, mine.body>> \notin mine.state.batches => ToSet(mine.found) \subseteq Recorded(merged)
  <2>1. IsState(merged)
    BY <1>1, ApplyKeepsHash
  <2>2. /\ Recorded(mine.state) \subseteq Recorded(merged)
        /\ <<mine.key, mine.body>> \notin mine.state.batches => ToSet(mine.found) \subseteq Recorded(merged)
    BY <1>1, MergeRecords
  <2> QED
    BY <2>1, <2>2
<1>4. Recorded(next) = Recorded(merged)
  BY <1>3 DEF Recorded, IsState, Fields
<1>5. me.state = next /\ me.found = found
  BY <1>1 DEF IsLocal, Locals
<1>6. ToSet(found) \subseteq Recorded(merged)
  <2>1. CASE <<mine.key, mine.body>> \in mine.state.batches
    <3>1. DOMAIN <<>> = {} /\ found = <<>>
      BY <2>1
    <3> QED
      BY <3>1 DEF ToSet
  <2> QED
    BY <1>3, <2>1
<1>7. Keeps("store", me, Astray(p)')
  <2>1. Keeps("ask", mine, Astray(p))
    BY <1>2 DEF RecordInv
  <2> QED
    BY <1>2, <1>3, <1>4, <1>5, <1>6, <2>1 DEF Keeps, Loaded, Inside
<1> QED
  BY <1>2, <1>7, KeepsOn

\* The reflected text is written first: the entries are in hand.
LEMMA RecordStore ==
  ASSUME Shapes, RecordInv, NEW p \in Procs, Store(p)
  PROVE  RecordInv'
<1>1. /\ at[p] = "store" /\ at' = [at EXCEPT ![p] = "save"]
      /\ reported' = reported \cup ToSet(my[p].found) /\ UNCHANGED <<state, my, blind, behind, lost>>
  BY DEF Store, Move
<1>2. at'[p] = "save" /\ \A q \in Procs \ {p} : at'[q] = at[q]
  BY <1>1 DEF Shapes
<1>3. ToSet(my[p].found) \subseteq Unsaved(at'[p], my[p])
  BY <1>1, <1>2 DEF RecordInv, Keeps, Unsaved
<1>4. \A q \in Procs : Unsaved(at[q], my[q]) \subseteq Unsaved(at'[q], my[q])
  BY <1>1, <1>2 DEF Unsaved
<1>5. OnRecord'
  BY <1>1, <1>3, <1>4 DEF RecordInv, OnRecord
<1>6. ASSUME NEW q \in Procs PROVE Keeps(at[q], my[q], Astray(q))'
  BY <1>1, <1>2 DEF RecordInv, Keeps, Astray, Loaded, Inside
<1> QED
  BY <1>5, <1>6 DEF RecordInv

RecordedGrows == Recorded(state) \subseteq Recorded(state') \cup lost'

LEMMA RecordSave ==
  ASSUME Shapes, RecordInv, NEW p \in Procs, Save(p)
  PROVE  RecordInv' /\ RecordedGrows
<1>1. /\ at[p] = "save" /\ at' = [at EXCEPT ![p] = "wiki"] /\ my' = [my EXCEPT ![p] = Holding(p)]
      /\ state' = my[p].state /\ UNCHANGED reported
      /\ lost' = IF Astray(p) THEN lost \cup (Recorded(state) \ Recorded(my[p].state)) ELSE lost
      /\ behind' = {q \in Procs \ {p} : at[q] \in Loaded}
  BY DEF Save, Move, Local, Astray
<1>2. /\ at'[p] = "wiki" /\ my'[p] = Holding(p)
      /\ \A q \in Procs \ {p} : at'[q] = at[q] /\ my'[q] = my[q]
  BY <1>1 DEF Shapes
<1>3. RecordedGrows /\ lost \subseteq lost'
  BY <1>1 DEF RecordInv, Keeps, Loaded, Inside, RecordedGrows
<1>4. Unsaved(at[p], my[p]) \subseteq Recorded(state')
  BY <1>1 DEF Unsaved
<1>5. OnRecord'
  <2> SUFFICES ASSUME NEW e \in reported
               PROVE  e \in Recorded(state') \cup lost' \/ \E q \in Procs : e \in Unsaved(at'[q], my'[q])
    BY <1>1 DEF OnRecord, Unsaved, Recorded
  <2>1. e \in Recorded(state) \cup lost \/ \E q \in Procs : e \in Unsaved(at[q], my[q])
    BY DEF RecordInv, OnRecord
  <2> QED
    BY <1>2, <1>3, <1>4, <2>1 DEF RecordedGrows
<1>6. ASSUME NEW q \in Procs PROVE Keeps(at[q], my[q], Astray(q))'
  <2>1. CASE q = p
    <3>1. Holding(p).state = my[p].state
      BY HoldingIsLocal DEF Shapes
    <3> QED
      BY <1>1, <1>2, <2>1, <3>1 DEF Keeps, Recorded
  <2>2. CASE q # p
    <3>1. at[q] \in Loaded => Astray(q)'
      BY <1>1, <2>2 DEF Astray
    <3> QED
      BY <1>2, <2>2, <3>1 DEF RecordInv, Keeps
  <2> QED
    BY <2>1, <2>2
<1> QED
  BY <1>3, <1>5, <1>6 DEF RecordInv

LEMMA RecordHolds ==
  ASSUME Shapes, RecordInv, [Next]_vars
  PROVE  RecordInv' /\ RecordedGrows
<1>1. ASSUME NEW p \in Procs, Begin(p) \/ Step(p) \/ Raise(p) \/ Crash(p)
      PROVE  RecordInv'
  BY <1>1, RecordLock, RecordLoad, RecordOnward, RecordMerge, RecordStore, RecordSave DEF Step
<1>2. ASSUME Age \/ (\E k \in Sources : Publish(k)) \/ UNCHANGED vars
      PROVE  RecordInv'
  <2>1. UNCHANGED <<state, at, my, reported, blind, behind, lost>>
    BY <1>2 DEF Age, Publish, vars, files, past
  <2>2. OnRecord'
    BY <2>1 DEF RecordInv, OnRecord
  <2>3. \A p \in Procs : Keeps(at[p], my[p], Astray(p))'
    BY <2>1 DEF RecordInv, Keeps, Astray
  <2> QED
    BY <2>2, <2>3 DEF RecordInv
<1>3. RecordedGrows
  <2>1. CASE \E p \in Procs : Save(p)
    BY <2>1, RecordSave
  <2>2. CASE state' = state
    BY <2>2 DEF RecordedGrows
  <2>3. (\E p \in Procs : Save(p)) \/ state' = state
    BY DEF Next, Step, Begin, TakeLock, FindStale, RemoveStale, GiveUp, Unlock, Load, LoadUnreadable, WorkFrom,
       Fetch, FetchFails, Compare, Ask, AskFails, Merge, Store, Render, Profile, Raise, Crash, Age, Publish,
       vars, files, past
  <2> QED
    BY <2>1, <2>2, <2>3
<1> QED
  BY <1>1, <1>2, <1>3 DEF Next

\* An entry that is on record stays there in every behaviour, also with two
\* holders of the lock: only a process that could not read state.json, or that
\* another one has saved over since it loaded, saves an entry away (_load_state,
\* _apply_changes, _rollup, _save_state).
THEOREM RecordedStaysAlways == Spec => RecordedStays
<1>1. Init => IInv /\ RecordInv
  BY InitialInvariant, RecordInit
<1>2. IInv /\ RecordInv /\ [Next]_vars => (IInv /\ RecordInv)'
  BY InvariantHolds, RecordHolds DEF IInv
<1>3. IInv /\ RecordInv /\ [Next]_vars => [RecordedGrows]_vars
  BY RecordHolds DEF IInv
<1> QED
  BY <1>1, <1>2, <1>3, PTL DEF Spec, RecordedStays, RecordedGrows

\* Whatever was merged for a text that is taken as reflected is on record at
\* rest, or was lost in one of those saves or with the process that held it
\* between the reflected text and state.json (collect_source).
THEOREM ReportedIsRecordedAlways == Spec => []ReportedIsRecorded
<1>1. Init => IInv /\ RecordInv
  BY InitialInvariant, RecordInit
<1>2. IInv /\ RecordInv /\ [Next]_vars => (IInv /\ RecordInv)'
  BY InvariantHolds, RecordHolds DEF IInv
<1>3. RecordInv => ReportedIsRecorded
  BY DEF RecordInv, OnRecord, Unsaved, ReportedIsRecorded, Inside
<1> QED
  BY <1>1, <1>2, <1>3, PTL DEF Spec

\* Nobody is overtaken while the lock is taken over from no one that works: then
\* the first kind of loss is left, and a stop (_locked).
THEOREM NobodyIsOvertakenWhileSafe == Spec /\ []TakesOverSafely => [](behind = {})
<1> DEFINE I == IInv /\ LockInv /\ behind = {}
<1>1. Init => I
  BY InitialInvariant DEF Init, LockInv, Inside
<1>2. I /\ TakesOverSafely /\ [Next]_vars => I'
  <2> SUFFICES ASSUME I, TakesOverSafely, [Next]_vars PROVE I'
    OBVIOUS
  <2>1. IInv' /\ LockInv' /\ Serialised
    BY InvariantHolds, LockHolds, LockSerialises DEF IInv
  <2>2. CASE \E p \in Procs : Save(p)
    <3>1. PICK p \in Procs : Save(p)
      BY <2>2
    <3>2. at[p] \in Inside /\ behind' = {q \in Procs \ {p} : at[q] \in Loaded}
      BY <3>1 DEF Save, Move, Inside
    <3>3. \A q \in Procs \ {p} : at[q] \notin Loaded
      BY <2>1, <3>2 DEF Serialised, Loaded
    <3> QED
      BY <2>1, <3>2, <3>3
  <2>3. CASE behind' \subseteq behind
    BY <2>1, <2>3
  <2>4. (\E p \in Procs : Save(p)) \/ behind' \subseteq behind
    BY DEF Next, Step, Begin, TakeLock, FindStale, RemoveStale, GiveUp, Unlock, Leave, Forget, Load,
       LoadUnreadable, WorkFrom, Fetch, FetchFails, Compare, Ask, AskFails, Merge, Store, Render, Profile,
       Raise, Crash, Age, Publish, vars, past
  <2> QED
    BY <2>2, <2>3, <2>4
<1>3. I => behind = {}
  OBVIOUS
<1> HIDE DEF I
<1> QED
  BY <1>1, <1>2, <1>3, PTL DEF Spec
=============================================================================
