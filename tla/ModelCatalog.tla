---------------------------- MODULE ModelCatalog ----------------------------
(***************************************************************************)
(* The model catalog of one vendor (src/cc/model_catalog.py): processes    *)
(* (scripts, API handlers, the scheduler) collect the vendor's official    *)
(* pages under a lock file, ask a model about the sections that are new,   *)
(* merge the entries it reports into state.json, keep the reflected text   *)
(* of each page beside it, render the wiki and refresh model profiles.     *)
(*                                                                         *)
(* A page's body is a set of sections: _changed_sections tells sections by *)
(* their hash and ignores their order.  A section gives at most one entry, *)
(* named after it.  A step is one file operation, one request or one model *)
(* call; what a process has loaded is its own copy until it saves it.      *)
(***************************************************************************)
EXTENDS Integers, FiniteSets, Sequences, SequencesExt

CONSTANTS
  Procs,      \* processes; one that stops does not come back
  Sources,    \* the vendor's pages
  Sections,   \* the sections these pages may have
  Of, About,  \* the page and the model of a section
  Models,     \* the tracked models
  Old,        \* sections the first collection of a page leaves out by their date
  Keep,       \* RECENT_PER_MODEL
  Nobody,     \* no lock file
  None,       \* no page, no reflected text, no hash
  MaxPublish, \* bound: changes of the pages
  MaxCrashes, \* bound: processes that stop
  MaxFaults   \* bound: exceptions inside the lock, state files that cannot be read, and
              \* locks of a live process older than LOCK_STALE_SECONDS

ASSUME SectionsAssumption ==
  /\ Of \in [Sections -> Sources] /\ About \in [Sections -> Models] /\ Old \subseteq Sections
  /\ IsFiniteSet(Sections)
ASSUME NamesAssumption ==
  Nobody \notin Procs /\ None \notin Sources /\ \A b \in SUBSET Sections : b # None
ASSUME BoundsAssumption ==
  Keep \in Nat \ {0} /\ MaxPublish \in Nat /\ MaxCrashes \in Nat /\ MaxFaults \in Nat

VARIABLES
  page,      \* the page's body as it is published
  lock, old, \* the process whose lock file is there; it is older than the limit
  state,     \* state.json
  applied,   \* <key>.applied.txt, by page
  at, my,    \* where each process is, and its local variables
  published, crashes, faults,
  read,      \* history: sections a model call has answered for
  reported,  \* history: entries merged for the texts stored as reflected
  blind,     \* history: processes that could not read the state.json that is there
  behind,    \* history: processes that another one has saved over since they loaded
  lost       \* history: entries a blind or overtaken process saved over, or one that
             \* ended held for a text stored as reflected

files  == <<state, applied>>
bounds == <<published, crashes, faults>>
past   == <<read, reported, blind, behind, lost>>
vars   == <<page, lock, old, state, applied, at, my, published, crashes, faults,
            read, reported, blind, behind, lost>>

Body == SUBSET Sections

\* What page k may show; a page without any section counts as a failed request.
Pages(k) == SUBSET {s \in Sections : Of[s] = k} \ {{}}
Inside == {"load", "fetch", "compare", "ask", "store", "save", "wiki", "profile", "unlock"}
Loaded == Inside \ {"load"}

\* What state.json keeps: the hash of each page's reflected body, the recent
\* entries with their order (newer has <<d, e>> where d comes before e), the
\* older ones in one line each, the batches merged, each profile's entry_count
\* (0: no profile).
NoState ==
  [hash |-> [k \in Sources |-> None], changes |-> {}, newer |-> {}, history |-> {},
   batches |-> {}, profile |-> [m \in Models |-> 0]]

Blank ==
  [key |-> None, state |-> NoState, body |-> None, left |-> {},
   found |-> <<>>, touched |-> {}]

Recorded(st) == st.changes \cup st.history

Count(changes, m) == Cardinality({e \in changes : About[e] = m})

\* Models with entries whose profile is missing or has another entry_count.
StaleProfiles(st) ==
  {m \in Models : Count(st.changes, m) > 0 /\ st.profile[m] # Count(st.changes, m)}

\* The most recent Keep entries of each model.
Recent(st) ==
  {e \in st.changes :
     Cardinality({d \in st.changes : About[d] = About[e] /\ <<d, e>> \in st.newer}) < Keep}

\* Mutant of Rollup: what does not fit is dropped.
RollupDrops(st) == [st EXCEPT !.changes = Recent(st), !.newer = @ \cap (Recent(st) \X Recent(st))]

\* What does not fit leaves one line in the history.
Rollup(st) ==
  LET kept == Recent(st) IN
  [st EXCEPT !.changes = kept, !.newer = @ \cap (kept \X kept),
             !.history = @ \cup (st.changes \ kept)]

\* New entries go to the front one by one; one already among the recent ones
\* is left out.
Fresh(st, found) == ToSet(found) \ st.changes
InFront(st, found) ==
  LET fresh == Fresh(st, found) IN
  [st EXCEPT !.changes = @ \cup fresh,
             !.newer = @ \cup (fresh \X st.changes)
                         \cup {x \in fresh \X fresh : \E i, j \in DOMAIN found :
                                  i < j /\ x = <<found[j], found[i]>>}]

\* Mutant of ApplyChanges: a batch is known by its page alone.
ApplyChangesOncePerPage(st, k, body, found) ==
  IF \E b \in Body : <<k, b>> \in st.batches THEN st
  ELSE Rollup(InFront([st EXCEPT !.batches = @ \cup {<<k, body>>}], found))

ApplyChanges(st, k, body, found) ==
  IF <<k, body>> \in st.batches THEN st
  ELSE Rollup(InFront([st EXCEPT !.batches = @ \cup {<<k, body>>}], found))

Touched(st, k, body, found) ==
  IF <<k, body>> \in st.batches THEN {} ELSE {About[e] : e \in Fresh(st, found)}

\* What a process still needs of its locals once its collection is over.
Holding(p) == [Blank EXCEPT !.state = my[p].state, !.touched = my[p].touched]

Move(p, from, to) == at[p] = from /\ at' = [at EXCEPT ![p] = to]
Local(p, rec) == my' = [my EXCEPT ![p] = rec]

Init ==
  /\ page \in [Sources -> Body] /\ \A k \in Sources : page[k] \in Pages(k)
  /\ lock = Nobody /\ old = FALSE
  /\ state = NoState /\ applied = [k \in Sources |-> None]
  /\ at = [p \in Procs |-> "idle"] /\ my = [p \in Procs |-> Blank]
  /\ published = 0 /\ crashes = 0 /\ faults = 0
  /\ read = {} /\ reported = {} /\ blind = {} /\ behind = {} /\ lost = {}

-----------------------------------------------------------------------------
(* _locked: create the file exclusively; take over a lock that is too old. *)

\* collect_source(key) or, for None, refresh_profiles.
Begin(p) ==
  /\ Move(p, "idle", "lock")
  /\ \E k \in Sources \cup {None} : Local(p, [Blank EXCEPT !.key = k])
  /\ UNCHANGED <<page, lock, old, files, bounds, past>>

TakeLock(p) ==
  /\ Move(p, "lock", "load")
  /\ lock = Nobody /\ lock' = p /\ old' = FALSE
  /\ UNCHANGED <<page, files, my, bounds, past>>

\* Mutant of FindStale: a stale lock is waited for like any other.
FindStaleGivesUp(p) ==
  /\ Move(p, "lock", "idle") /\ lock # Nobody /\ old /\ Local(p, Blank)
  /\ UNCHANGED <<page, lock, old, files, bounds, past>>

\* The age is read in one step and the file removed in another.
FindStale(p) ==
  /\ Move(p, "lock", "unlink") /\ lock # Nobody /\ old
  /\ UNCHANGED <<page, lock, old, files, my, bounds, past>>

RemoveStale(p) ==
  /\ Move(p, "unlink", "lock") /\ lock' = Nobody /\ old' = FALSE
  /\ UNCHANGED <<page, files, my, bounds, past>>

\* TimeoutError after a minute of waiting.
GiveUp(p) ==
  /\ Move(p, "lock", "idle") /\ lock # Nobody /\ ~old
  /\ Local(p, Blank)
  /\ UNCHANGED <<page, lock, old, files, bounds, past>>

\* (History: what a process that leaves has not saved is saved no more.)
Forget(p) == blind' = blind \ {p} /\ behind' = behind \ {p}

\* Whatever lock file is there is removed, in the finally of _locked.
Leave(p) ==
  /\ lock' = Nobody /\ old' = FALSE
  /\ at' = [at EXCEPT ![p] = "idle"] /\ Local(p, Blank) /\ Forget(p)

Unlock(p) ==
  /\ at[p] = "unlock" /\ Leave(p)
  /\ UNCHANGED <<page, files, bounds, read, reported, lost>>

-----------------------------------------------------------------------------
(* collect_source and refresh_profiles under the lock.                     *)

\* To go on from st: refresh_profiles has nothing to do without stale profiles.
WorkFrom(p, st) ==
  /\ Move(p, "load", IF my[p].key # None THEN "fetch"
                     ELSE IF StaleProfiles(st) = {} THEN "unlock" ELSE "profile")
  /\ Local(p, [my[p] EXCEPT !.state = st,
                            !.touched = IF my[p].key = None THEN StaleProfiles(st) ELSE {}])
  /\ UNCHANGED <<page, lock, old, files, published, crashes, read, reported, behind, lost>>

Load(p) == WorkFrom(p, state) /\ UNCHANGED <<faults, blind>>

\* A state.json that cannot be read or parsed counts as none: what is saved
\* later replaces it.
LoadUnreadable(p) ==
  /\ state # NoState /\ faults < MaxFaults /\ faults' = faults + 1
  /\ WorkFrom(p, NoState) /\ blind' = blind \cup {p}

Fetch(p) ==
  /\ Move(p, "fetch", "compare")
  /\ Local(p, [my[p] EXCEPT !.body = page[my[p].key]])
  /\ UNCHANGED <<page, lock, old, files, bounds, past>>

\* No answer, no body to extract, or an empty one: _fail saves and renders.
FetchFails(p) ==
  /\ Move(p, "fetch", "save") /\ Local(p, Holding(p))
  /\ UNCHANGED <<page, lock, old, files, bounds, past>>

\* Nothing new, or only looked at (fetch_only, of which nothing else depends):
\* save and render.
Compare(p) ==
  LET me == my[p] IN
  \/ /\ Move(p, "compare", "save") /\ Local(p, Holding(p))
     /\ UNCHANGED <<page, lock, old, files, bounds, past>>
  \/ /\ Move(p, "compare", "ask") /\ me.body # me.state.hash[me.key]
     /\ Local(p, [me EXCEPT !.left =
          IF applied[me.key] = None THEN me.body \ Old ELSE me.body \ applied[me.key]])
     /\ UNCHANGED <<page, lock, old, files, bounds, past>>

\* One call: an entry, or nothing to report.
Ask(p) ==
  /\ at[p] = "ask" /\ at' = at
  /\ \E s \in my[p].left :
       /\ \E entry \in {<<>>, <<s>>} :
            Local(p, [my[p] EXCEPT !.left = @ \ {s}, !.found = @ \o entry])
       /\ read' = read \cup {s}
  /\ UNCHANGED <<page, lock, old, files, bounds, reported, blind, behind, lost>>

\* Mutant of AskFails: the sections that were not answered are passed over.
AskFailsSkips(p) ==
  /\ at[p] = "ask" /\ my[p].left # {} /\ at' = at
  /\ Local(p, [my[p] EXCEPT !.left = {}])
  /\ UNCHANGED <<page, lock, old, files, bounds, past>>

\* No answer or a malformed one: llm_failed, nothing of this collection stays.
AskFails(p) ==
  /\ my[p].left # {} /\ Move(p, "ask", "save") /\ Local(p, Holding(p))
  /\ UNCHANGED <<page, lock, old, files, bounds, past>>

\* (From here on found is history: what this merge takes in.)
Merge(p) ==
  LET me == my[p]  known == <<me.key, me.body>> \in me.state.batches IN
  /\ me.left = {} /\ Move(p, "ask", "store")
  /\ Local(p, [me EXCEPT
       !.state = [ApplyChanges(me.state, me.key, me.body, me.found) EXCEPT !.hash[me.key] = me.body],
       !.touched = Touched(me.state, me.key, me.body, me.found),
       !.found = IF known THEN <<>> ELSE @])
  /\ UNCHANGED <<page, lock, old, files, bounds, past>>

Store(p) ==
  /\ Move(p, "store", "save")
  /\ applied' = [applied EXCEPT ![my[p].key] = my[p].body]
  /\ reported' = reported \cup ToSet(my[p].found)
  /\ UNCHANGED <<page, lock, old, state, my, bounds, read, blind, behind, lost>>

\* What p holds is the latest now; whoever else has loaded is overtaken.
Save(p) ==
  /\ Move(p, "save", "wiki") /\ state' = my[p].state
  /\ Local(p, Holding(p))
  /\ lost' = IF p \in blind \cup behind
             THEN lost \cup (Recorded(state) \ Recorded(my[p].state)) ELSE lost
  /\ blind' = blind \ {p}
  /\ behind' = {q \in Procs \ {p} : at[q] \in Loaded}
  /\ UNCHANGED <<page, lock, old, applied, bounds, read, reported>>

Render(p) ==
  /\ Move(p, "wiki", IF my[p].touched = {} THEN "unlock" ELSE "profile")
  /\ UNCHANGED <<page, lock, old, state, applied, my, bounds, past>>

\* One profile call; a failed one keeps the old profile.
Profile(p) ==
  \E m \in my[p].touched :
    /\ Move(p, "profile", IF my[p].touched = {m} THEN "save" ELSE "profile")
    /\ \E ok \in BOOLEAN :
         Local(p, [my[p] EXCEPT !.touched = @ \ {m},
           !.state.profile[m] = IF ok THEN Count(my[p].state.changes, m) ELSE @])
    /\ UNCHANGED <<page, lock, old, files, bounds, past>>

-----------------------------------------------------------------------------
(* What goes wrong: an exception leaves through the finally, a stop of the *)
(* process leaves the lock file behind, a live lock grows too old.         *)

\* Between the reflected text and state.json, what was merged is lost.
Interrupted(p) ==
  lost' = IF at[p] = "save"
          THEN lost \cup ((ToSet(my[p].found) \cap Recorded(my[p].state)) \ Recorded(state))
          ELSE lost

Raise(p) ==
  /\ at[p] \in Inside \ {"unlock"} /\ faults < MaxFaults /\ faults' = faults + 1
  /\ Interrupted(p) /\ Leave(p)
  /\ UNCHANGED <<page, files, published, crashes, read, reported>>

Crash(p) ==
  /\ at[p] \notin {"idle", "dead"} /\ crashes < MaxCrashes /\ crashes' = crashes + 1
  /\ Interrupted(p) /\ at' = [at EXCEPT ![p] = "dead"] /\ Local(p, Blank) /\ Forget(p)
  /\ UNCHANGED <<page, lock, old, files, published, faults, read, reported>>

Age ==
  /\ lock # Nobody /\ ~old /\ old' = TRUE
  /\ at[lock] # "dead" => faults < MaxFaults
  /\ faults' = IF at[lock] = "dead" THEN faults ELSE faults + 1
  /\ UNCHANGED <<page, lock, files, at, my, published, crashes, past>>

Publish(k) ==
  /\ published < MaxPublish /\ published' = published + 1
  /\ \E body \in Pages(k) : page' = [page EXCEPT ![k] = body]
  /\ UNCHANGED <<lock, old, files, at, my, crashes, faults, past>>

Step(p) ==
  \/ TakeLock(p) \/ FindStale(p) \/ RemoveStale(p) \/ GiveUp(p) \/ Unlock(p)
  \/ Load(p) \/ LoadUnreadable(p) \/ Fetch(p) \/ FetchFails(p) \/ Compare(p) \/ Ask(p) \/ AskFails(p)
  \/ Merge(p) \/ Store(p) \/ Save(p) \/ Render(p) \/ Profile(p)

Next ==
  \/ \E p \in Procs : Begin(p) \/ Step(p) \/ Raise(p) \/ Crash(p)
  \/ Age
  \/ \E k \in Sources : Publish(k)

Spec == Init /\ [][Next]_vars

-----------------------------------------------------------------------------
(* What must hold.                                                         *)

StateType ==
  [hash: [Sources -> {None} \cup Body], changes: Body, newer: SUBSET (Sections \X Sections),
   history: Body, batches: SUBSET (Sources \X Body), profile: [Models -> Nat]]

TypeOK ==
  /\ page \in [Sources -> Body] /\ applied \in [Sources -> {None} \cup Body]
  /\ lock \in Procs \cup {Nobody} /\ old \in BOOLEAN
  /\ state \in StateType
  /\ at \in [Procs -> Inside \cup {"idle", "lock", "unlink", "dead"}]
  /\ my \in [Procs -> [key: Sources \cup {None}, state: StateType,
                       body: {None} \cup Body, left: Body, found: Seq(Sections),
                       touched: SUBSET Models]]
  /\ published \in 0..MaxPublish /\ crashes \in 0..MaxCrashes /\ faults \in 0..MaxFaults
  /\ read \in Body /\ reported \in Body /\ lost \in Body /\ blind \subseteq Procs /\ behind \subseteq Procs

\* A section that is part of a reflected text, by the text itself or by the
\* hash in state.json, has been answered for by a model call or was left out
\* by its date: no failed call, exception, stop or second process makes the
\* catalog skip a section as if it had been read.
NothingUnreadIsApplied ==
  \A k \in Sources :
    /\ applied[k] # None => applied[k] \subseteq read \cup Old
    /\ state.hash[k] # None => state.hash[k] \subseteq read \cup Old

\* An entry on record stays on record, among the recent entries or in the
\* history, whatever is merged, rolled up, given up or raised.  Two saves alone
\* lose entries: of a process that took an unreadable state.json for none
\* (_load_state), and of one whose lock was taken from it, over the saves since.
RecordedStays == [][Recorded(state) \subseteq Recorded(state') \cup lost']_vars

\* What was merged for a text that is on file as reflected is on record once no
\* process is at work, but for those losses and for what a process held that
\* ended between writing that text and state.json: then the next collection
\* finds no section new, and the entries are gone.  (A page that returns to an
\* earlier body is taken as merged.)
ReportedIsRecorded ==
  (\A p \in Procs : at[p] \notin Inside) => reported \subseteq Recorded(state) \cup lost

\* Processes are scheduled, requests and model calls time out, time passes;
\* the scheduler collects every week, so that a process that is alive begins.
\* A process that has not stopped can always take a step, and goes on taking one
\* (as WF_vars(Begin(p) \/ Step(p)) says, but for exceptions, which count as steps).
Moves(p) == at[p] # "dead" /\ (at'[p] # at[p] \/ my'[p] # my[p])
Fairness ==
  /\ \A p \in Procs : []<>(at[p] = "dead") \/ []<><<Moves(p)>>_vars
  /\ WF_vars(lock # Nobody /\ at[lock] = "dead" /\ Age)

FairSpec == Spec /\ Fairness

\* The lock of a process that stopped is taken over in the end.
DeadLockIsFreed ==
  (\E p \in Procs : lock = p /\ at[p] = "dead") /\ (\E p \in Procs : at[p] # "dead")
    ~> (lock = Nobody \/ at[lock] # "dead" \/ \A p \in Procs : at[p] = "dead")

-----------------------------------------------------------------------------
(* What the repository says of the program and the code does not do.       *)

\* _locked: the lock "serialises" CLI, API and collect_all, "safe to run
\* concurrently"; a collection that takes longer than LOCK_STALE_SECONDS is joined
\* by a second one.
Serialised == \A p, q \in Procs : at[p] \in Inside /\ at[q] \in Inside => p = q
=============================================================================
