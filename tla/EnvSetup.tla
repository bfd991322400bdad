------------------------------ MODULE EnvSetup ------------------------------
(***************************************************************************)
(* The "environment setup" feature of ohmyPM for one project:              *)
(* src/env_setup.py (apply, revert, recovery), src/cc/env_setup.py (the    *)
(* proposal job) and src/db/env_setup.py (runs, items, compare-and-set).   *)
(*                                                                         *)
(* A run is proposed by a background job that reads the project's files,   *)
(* asks a model once and stores one item per file.  The user then applies  *)
(* chosen items and may revert them.  Request threads (Clients) share the  *)
(* project's lock; the user edits the same files with an editor that knows *)
(* of no lock; the server may stop at any instruction and recovers the     *)
(* runs it finds half done before it serves again.                         *)
(*                                                                         *)
(* A step is one committed database statement or one file operation.       *)
(* A SHA-256 digest is the content it is taken of; None is both "no such   *)
(* file" and a NULL column, as it is in the code.                          *)
(***************************************************************************)
EXTENDS Naturals, FiniteSets

CONSTANTS
  MaxRuns,     \* bound: runs ever created
  Files,       \* the writable targets (WRITABLE in the code has three)
  Contents,    \* what a file may hold
  None,        \* no file, no hash, no backup
  NoPlan,      \* plan_text refuses: the item cannot produce a new text
  ShowOnly,    \* an item the code marks "not applicable"
  NoItem,      \* the proposal says nothing of this file
  Plans,       \* what a proposal may say of a file
  Clients,     \* request threads
  Free,        \* the project's lock is not held
  MaxEdits,    \* bound: edits by the user
  MaxCrashes,  \* bound: stops of the server
  Faults       \* file operations that may raise: read, backup, write, verify

ASSUME RunsAssumption == MaxRuns \in Nat /\ MaxEdits \in Nat /\ MaxCrashes \in Nat
ASSUME NamesAssumption ==
  /\ None \notin Contents \cup Files /\ NoPlan \notin Contents \cup {None}
  /\ Free \notin Clients
  /\ Plans \subseteq Contents \cup {NoPlan, ShowOnly, NoItem}
  /\ ShowOnly \notin Contents \cup {NoPlan}
  /\ NoItem \notin Contents \cup {NoPlan, ShowOnly}
ASSUME FaultsAssumption == Faults \subseteq {"read", "backup", "write", "verify"}

VARIABLES
  status,   \* env_setup_runs.status, by run id
  item,     \* env_setup_items, by run id and target file
  backup,   \* the run's backup directory, by file
  file,     \* the project's files
  phase,    \* "serving", or "recovering" (server down or in its start-up hook)
  lock,     \* _LOCKS[project]: the client in the critical section
  pc, req,  \* where each client is; the run, status and items it works with
  todo, cur,\* the lock holder's list of files to go through, and the current one
  job,      \* the proposal job: [run, at], run = 0 when none
  snap,     \* the job's snapshot of the files
  seen,     \* files recovery has looked at in a reverting run
  edits, crashes,
  writer,   \* history: the run that last wrote the file, 0 if it is the user's
  touched   \* history: the user wrote cur after the lock holder last checked it

durable == <<status, item, backup>>
holder  == <<todo, cur, touched>>
worker  == <<job, snap>>
env     == <<edits, crashes, phase, seen>>
vars    == <<status, item, backup, file, phase, lock, pc, req, todo, cur, job,
             snap, seen, edits, crashes, writer, touched>>

Runs     == 1..MaxRuns
RunState == {"none", "queued", "running", "proposed", "applying", "applied",
             "partial", "failed", "reverting", "reverted"}
ItemState == {"none", "proposed", "approved", "applied", "skipped", "rejected", "reverted"}
ACTIVE   == {"queued", "running", "applying", "reverting"}
Hash     == Contents \cup {None}

Item == [status: ItemState, applicable: BOOLEAN, source: Hash,
         plan: Contents \cup {NoPlan}, planned: Hash, applied: Hash,
         saved: BOOLEAN, approvedAt: BOOLEAN, appliedAt: BOOLEAN]

Blank == [status |-> "none", applicable |-> FALSE, source |-> None,
          plan |-> NoPlan, planned |-> None, applied |-> None,
          saved |-> FALSE, approvedAt |-> FALSE, appliedAt |-> FALSE]

\* The row add_items stores for a file, given its snapshot and the proposal.
Proposed(source, p) ==
  IF p = NoItem THEN Blank
  ELSE IF p = ShowOnly THEN [Blank EXCEPT !.status = "proposed"]
  ELSE [Blank EXCEPT !.status = "proposed", !.applicable = TRUE,
                     !.source = source, !.plan = p]

Idle  == [run |-> 0, saw |-> "none", chosen |-> {}]
NoJob == [run |-> 0, at |-> "none"]

ApplyPC  == {"a_mark", "a_next", "a_backup", "a_record", "a_recheck", "a_replace", "a_verify"}
RevertPC == {"r_next", "r_write", "r_commit"}
Critical == {"a_check", "a_cas", "r_check", "r_cas"} \cup ApplyPC \cup RevertPC
PCs      == {"idle", "s_create", "s_job", "a_lock", "r_lock"} \cup Critical

ActiveRuns == {r \in Runs : status[r] \in ACTIVE}

\* active_run(project) returns the active run with the highest id; both request
\* handlers refuse when there is one and it is not their own.
LatestActive(r)  == r \in ActiveRuns /\ \A q \in ActiveRuns : q <= r
OtherActive(r)   == ActiveRuns # {} /\ ~LatestActive(r)

\* update_item: one committed UPDATE of one row.
UpdateItem(r, f, row) == item' = [item EXCEPT ![r][f] = row]

Having(r, s) == {f \in Files : item[r][f].status = s}

Goto(c, from, to) == pc[c] = from /\ pc' = [pc EXCEPT ![c] = to]

\* Leave the critical section and answer the request.
Release(c) ==
  /\ lock' = Free
  /\ pc'   = [pc EXCEPT ![c] = "idle"]
  /\ req'  = [req EXCEPT ![c] = Idle]
  /\ todo' = {} /\ cur' = None /\ touched' = FALSE

Init ==
  /\ status = [r \in Runs |-> "none"]
  /\ item   = [r \in Runs |-> [f \in Files |-> Blank]]
  /\ backup = [r \in Runs |-> [f \in Files |-> None]]
  /\ file \in [Files -> Hash]
  /\ phase = "serving" /\ lock = Free
  /\ pc  = [c \in Clients |-> "idle"]
  /\ req = [c \in Clients |-> Idle]
  /\ todo = {} /\ cur = None /\ touched = FALSE
  /\ job = NoJob /\ snap = [f \in Files |-> None]
  /\ seen = {} /\ edits = 0 /\ crashes = 0
  /\ writer = [f \in Files |-> 0]

-----------------------------------------------------------------------------
(* cc/env_setup.start: check, create the run, start the job.               *)

\* Bound: a start is only attempted while a run id is left for it.
StartCheck(c) ==
  /\ Goto(c, "idle", "s_create")
  /\ job = NoJob /\ ActiveRuns = {}
  /\ Cardinality({r \in Runs : status[r] = "none"})
       > Cardinality({d \in Clients : pc[d] = "s_create"})
  /\ UNCHANGED <<durable, file, lock, req, holder, worker, env, writer>>

StartCreate(c) ==
  /\ Goto(c, "s_create", "s_job")
  /\ \E r \in Runs :
       /\ status[r] = "none" /\ \A q \in Runs : q < r => status[q] # "none"
       /\ status' = [status EXCEPT ![r] = "queued"]
       /\ req'    = [req EXCEPT ![c].run = r]
  /\ UNCHANGED <<item, backup, file, lock, holder, worker, env, writer>>

\* jobs.start refuses a second job of the same name; the run is then failed.
StartJob(c) ==
  /\ Goto(c, "s_job", "idle")
  /\ req' = [req EXCEPT ![c] = Idle]
  /\ \/ /\ job = NoJob
        /\ job' = [run |-> req[c].run, at |-> "claim"]
        /\ UNCHANGED status
     \/ /\ job # NoJob
        /\ status' = [status EXCEPT ![req[c].run] = "failed"]
        /\ UNCHANGED job
  /\ UNCHANGED <<item, backup, file, lock, holder, snap, env, writer>>

-----------------------------------------------------------------------------
(* cc/env_setup.run_env_setup: the proposal job.                           *)

JobEnds == job' = NoJob /\ snap' = [f \in Files |-> None]
JobFrame == UNCHANGED <<backup, file, lock, pc, req, holder, env, writer>>

JobClaim ==
  /\ job.at = "claim"
  /\ IF status[job.run] = "queued"
     THEN /\ status' = [status EXCEPT ![job.run] = "running"]
          /\ job' = [job EXCEPT !.at = "collect"] /\ UNCHANGED snap
     ELSE JobEnds /\ UNCHANGED status
  /\ UNCHANGED item /\ JobFrame

JobCollect ==
  /\ job.at = "collect"
  /\ job' = [job EXCEPT !.at = "ask"] /\ snap' = file
  /\ UNCHANGED <<status, item>> /\ JobFrame

\* An unreadable project, an empty answer, or a proposal that breaks the contract.
JobFail ==
  /\ job.at \in {"collect", "ask"}
  /\ status' = [status EXCEPT ![job.run] = "failed"]
  /\ JobEnds /\ UNCHANGED item /\ JobFrame

\* Any other exception ends the thread; the run's row keeps its status.
JobRaise ==
  /\ job.at \in {"collect", "ask"}
  /\ JobEnds /\ UNCHANGED <<status, item>> /\ JobFrame

JobStore ==
  /\ job.at = "ask"
  /\ \E p \in [Files -> Plans] :
       item' = [item EXCEPT ![job.run] = [f \in Files |-> Proposed(snap[f], p[f])]]
  /\ job' = [job EXCEPT !.at = "publish"]
  /\ UNCHANGED <<status, snap>> /\ JobFrame

JobPublish ==
  /\ job.at = "publish"
  /\ status' = [status EXCEPT ![job.run] = "proposed"]
  /\ JobEnds /\ UNCHANGED item /\ JobFrame

Job == phase = "serving" /\ (JobClaim \/ JobCollect \/ JobFail \/ JobRaise \/ JobStore \/ JobPublish)

-----------------------------------------------------------------------------
(* env_setup.apply_run.                                                    *)

\* The run and its items are read, and the chosen ids checked against them,
\* before the lock is taken: what the client saw may be stale once it is in.
ApplyRead(c) ==
  /\ Goto(c, "idle", "a_lock")
  /\ \E r \in Runs : \E S \in SUBSET {f \in Files : item[r][f].applicable} :
       /\ status[r] # "none" /\ S # {}
       /\ req' = [req EXCEPT ![c] = [run |-> r, saw |-> status[r], chosen |-> S]]
  /\ UNCHANGED <<durable, file, lock, holder, worker, env, writer>>

\* Mutant of Acquire: an apply only waits for a request on the same run.
AcquirePerRun(c, from, to) ==
  /\ Goto(c, from, to)
  /\ lock = Free \/ (to = "a_check" /\ \E d \in Clients : lock = d /\ req[d].run # req[c].run)
  /\ lock' = c
  /\ UNCHANGED <<durable, file, req, holder, worker, env, writer>>

Acquire(c, from, to) ==
  /\ Goto(c, from, to)
  /\ lock = Free /\ lock' = c
  /\ UNCHANGED <<durable, file, req, holder, worker, env, writer>>

ApplyLock(c) == Acquire(c, "a_lock", "a_check")

\* 409: another run is active, the run was not "proposed" when it was read, or
\* the backup directory could not be prepared.
ApplyRefuse(c) ==
  /\ pc[c] = "a_check"
  /\ \/ OtherActive(req[c].run)
     \/ req[c].saw # "proposed"
     \/ "backup" \in Faults
  /\ Release(c)
  /\ UNCHANGED <<durable, file, worker, env, writer>>

ApplyCheck(c) ==
  /\ Goto(c, "a_check", "a_cas")
  /\ ~OtherActive(req[c].run) /\ req[c].saw = "proposed"
  /\ UNCHANGED <<durable, file, lock, req, holder, worker, env, writer>>

\* Mutant of ApplyClaim: the status is set without being compared.
ApplyClaimBlind(c) ==
  /\ pc[c] = "a_cas"
  /\ status' = [status EXCEPT ![req[c].run] = "applying"]
  /\ pc' = [pc EXCEPT ![c] = "a_mark"]
  /\ todo' = {f \in Files : item[req[c].run][f].applicable}
  /\ UNCHANGED <<item, backup, file, lock, req, cur, touched, worker, env, writer>>

\* db.transition: compare-and-set of the run's status.
ApplyClaim(c) ==
  /\ pc[c] = "a_cas" /\ status[req[c].run] = "proposed"
  /\ status' = [status EXCEPT ![req[c].run] = "applying"]
  /\ pc' = [pc EXCEPT ![c] = "a_mark"]
  /\ todo' = {f \in Files : item[req[c].run][f].applicable
                            /\ item[req[c].run][f].status = "proposed"}
  /\ UNCHANGED <<item, backup, file, lock, req, cur, touched, worker, env, writer>>

ApplyLost(c) ==
  /\ pc[c] = "a_cas" /\ status[req[c].run] # "proposed"
  /\ Release(c)
  /\ UNCHANGED <<durable, file, worker, env, writer>>

\* One commit per item: chosen ones are approved, the others rejected.
ApplyMark(c) ==
  /\ pc[c] = "a_mark"
  /\ \E f \in todo :
       /\ LET it == item[req[c].run][f] IN
          UpdateItem(req[c].run, f,
            IF f \in req[c].chosen THEN [it EXCEPT !.status = "approved", !.approvedAt = TRUE]
                                   ELSE [it EXCEPT !.status = "rejected"])
       /\ todo' = todo \ {f}
  /\ UNCHANGED <<status, backup, file, lock, pc, req, cur, touched, worker, env, writer>>

ApplyListed(c) ==
  /\ Goto(c, "a_mark", "a_next")
  /\ todo = {} /\ todo' = Having(req[c].run, "approved")
  /\ UNCHANGED <<durable, file, lock, req, cur, touched, worker, env, writer>>

\* Leave the current item, whatever became of it.
NextItem(c, f, next) ==
  /\ todo' = todo \ {f} /\ cur' = None /\ touched' = FALSE
  /\ pc' = [pc EXCEPT ![c] = next]

Skip(c, f) ==
  /\ UpdateItem(req[c].run, f, [item[req[c].run][f] EXCEPT !.status = "skipped"])
  /\ NextItem(c, f, "a_next")

ApplyFrame == UNCHANGED <<status, lock, req, worker, env>>

\* _apply_one: read and hash the file, compare with the snapshot, plan the text.
ApplyItem(c) ==
  /\ pc[c] = "a_next"
  /\ \E f \in todo :
       LET it == item[req[c].run][f] IN
       \/ /\ \/ file[f] # it.source
             \/ it.plan = NoPlan
             \/ "read" \in Faults
          /\ Skip(c, f)
       \/ /\ file[f] = it.source /\ it.plan # NoPlan
          /\ cur' = f
          /\ pc' = [pc EXCEPT ![c] = IF it.source = None THEN "a_record" ELSE "a_backup"]
          /\ UNCHANGED <<item, todo, touched>>
  /\ UNCHANGED <<backup, file, writer>> /\ ApplyFrame

\* Mutant of ApplyBackup: the directory is made, the bytes are not copied.
ApplyBackupEmpty(c) ==
  /\ Goto(c, "a_backup", "a_record")
  /\ UNCHANGED <<item, holder, backup, file, writer>> /\ ApplyFrame

ApplyBackup(c) ==
  /\ pc[c] = "a_backup"
  /\ \/ /\ backup' = [backup EXCEPT ![req[c].run][cur] = item[req[c].run][cur].source]
        /\ pc' = [pc EXCEPT ![c] = "a_record"]
        /\ UNCHANGED <<item, holder>>
     \/ "backup" \in Faults /\ Skip(c, cur) /\ UNCHANGED backup
  /\ UNCHANGED <<file, writer>> /\ ApplyFrame

\* planned_hash and backup_path are committed before the file is written.
ApplyRecord(c) ==
  /\ Goto(c, "a_record", "a_recheck")
  /\ LET it == item[req[c].run][cur] IN
       UpdateItem(req[c].run, cur,
         [it EXCEPT !.planned = it.plan, !.saved = (it.source # None)])
  /\ UNCHANGED <<backup, file, holder, writer>> /\ ApplyFrame

ApplyRecheck(c) ==
  /\ pc[c] = "a_recheck"
  /\ \/ /\ file[cur] = item[req[c].run][cur].source
        /\ touched' = FALSE
        /\ pc' = [pc EXCEPT ![c] = "a_replace"]
        /\ UNCHANGED <<item, todo, cur>>
     \/ /\ file[cur] # item[req[c].run][cur].source \/ "read" \in Faults
        /\ Skip(c, cur)
  /\ UNCHANGED <<backup, file, writer>> /\ ApplyFrame

\* os.replace puts the new file in place, whatever is there by now.
ApplyReplace(c) ==
  /\ pc[c] = "a_replace"
  /\ \/ /\ file' = [file EXCEPT ![cur] = item[req[c].run][cur].plan]
        /\ writer' = [writer EXCEPT ![cur] = req[c].run]
        /\ pc' = [pc EXCEPT ![c] = "a_verify"]
        /\ UNCHANGED <<item, holder>>
     \/ "write" \in Faults /\ Skip(c, cur) /\ UNCHANGED <<file, writer>>
  /\ UNCHANGED backup /\ ApplyFrame

ApplyVerify(c) ==
  /\ pc[c] = "a_verify"
  /\ LET it == item[req[c].run][cur] IN
     \/ /\ file[cur] = it.plan
        /\ UpdateItem(req[c].run, cur,
             [it EXCEPT !.status = "applied", !.applied = it.plan, !.appliedAt = TRUE])
        /\ NextItem(c, cur, "a_next")
     \/ /\ file[cur] # it.plan \/ "verify" \in Faults
        /\ Skip(c, cur)
  /\ UNCHANGED <<backup, file, writer>> /\ ApplyFrame

\* Mutant of ApplyVerdict: a partial apply passes for a full one.
ApplyVerdictGenerous(r) ==
  IF \E f \in Files : item[r][f].status = "applied" THEN "applied" ELSE "failed"

\* _finish_apply's verdict on a run.
ApplyVerdict(r) ==
  LET approved == {f \in Files : item[r][f].approvedAt}
      applied  == {f \in approved : item[r][f].status = "applied"}
  IN  IF approved # {} /\ applied = approved THEN "applied"
      ELSE IF applied # {} THEN "partial" ELSE "failed"

\* Mutant of ApplyFinish: the request is answered, the run's row is not updated.
ApplyFinishSilent(c) ==
  /\ pc[c] = "a_next" /\ todo = {}
  /\ Release(c)
  /\ UNCHANGED <<status, item, backup, file, worker, env, writer>>

ApplyFinish(c) ==
  /\ pc[c] = "a_next" /\ todo = {}
  /\ status' = [status EXCEPT ![req[c].run] = ApplyVerdict(req[c].run)]
  /\ Release(c)
  /\ UNCHANGED <<item, backup, file, worker, env, writer>>

Apply(c) ==
  \/ ApplyRead(c) \/ ApplyLock(c) \/ ApplyRefuse(c) \/ ApplyCheck(c) \/ ApplyClaim(c)
  \/ ApplyLost(c) \/ ApplyMark(c) \/ ApplyListed(c) \/ ApplyItem(c) \/ ApplyBackup(c)
  \/ ApplyRecord(c) \/ ApplyRecheck(c) \/ ApplyReplace(c) \/ ApplyVerify(c) \/ ApplyFinish(c)

-----------------------------------------------------------------------------
(* env_setup.revert_run.                                                   *)

RevertRead(c) ==
  /\ Goto(c, "idle", "r_lock")
  /\ \E r \in Runs :
       /\ status[r] # "none"
       /\ req' = [req EXCEPT ![c] = [run |-> r, saw |-> status[r], chosen |-> {}]]
  /\ UNCHANGED <<durable, file, lock, holder, worker, env, writer>>

RevertLock(c) == Acquire(c, "r_lock", "r_check")

RevertAllowed(c) ==
  /\ req[c].saw \in {"applied", "partial"}
  /\ Having(req[c].run, "applied") # {}
  /\ ~OtherActive(req[c].run)

RevertRefuse(c) ==
  /\ pc[c] = "r_check" /\ ~RevertAllowed(c)
  /\ Release(c)
  /\ UNCHANGED <<durable, file, worker, env, writer>>

RevertCheck(c) ==
  /\ Goto(c, "r_check", "r_cas") /\ RevertAllowed(c)
  /\ UNCHANGED <<durable, file, lock, req, holder, worker, env, writer>>

RevertClaim(c) ==
  /\ pc[c] = "r_cas"
  /\ IF status[req[c].run] \in {"applied", "partial"}
     THEN /\ status' = [status EXCEPT ![req[c].run] = "reverting"]
          /\ pc' = [pc EXCEPT ![c] = "r_next"]
          /\ todo' = Having(req[c].run, "applied")
          /\ UNCHANGED <<lock, req, cur, touched>>
     ELSE Release(c) /\ UNCHANGED status
  /\ UNCHANGED <<item, backup, file, worker, env, writer>>

\* _revert_one: the file must still hold what this run applied, and the backup
\* of a file that existed must be there and be the original; otherwise the item
\* stays "applied" and only its reason tells.
RevertItem(c) ==
  /\ pc[c] = "r_next"
  /\ \E f \in todo :
       LET it   == item[req[c].run][f]
           fits == file[f] = it.applied /\
                   (it.source # None => it.saved /\ backup[req[c].run][f] = it.source)
       IN
       \/ /\ fits
          /\ cur' = f /\ touched' = FALSE /\ pc' = [pc EXCEPT ![c] = "r_write"]
          /\ UNCHANGED todo
       \/ /\ ~fits \/ "read" \in Faults
          /\ NextItem(c, f, "r_next")
  /\ UNCHANGED <<item, backup, file, writer>> /\ ApplyFrame

\* Put the original bytes back, or unlink the file the run had created.
RevertWrite(c) ==
  /\ pc[c] = "r_write"
  /\ \/ /\ file' = [file EXCEPT ![cur] = item[req[c].run][cur].source]
        /\ writer' = [writer EXCEPT ![cur] = 0]
        /\ pc' = [pc EXCEPT ![c] = "r_commit"]
        /\ UNCHANGED holder
     \/ /\ "write" \in Faults
        /\ NextItem(c, cur, "r_next")
        /\ UNCHANGED <<file, writer>>
  /\ UNCHANGED <<item, backup>> /\ ApplyFrame

\* A restored file is read again before the item counts as reverted; an
\* unlinked one is not.
RevertCommit(c) ==
  /\ pc[c] = "r_commit"
  /\ LET it == item[req[c].run][cur] IN
     \/ /\ it.source # None => file[cur] = it.source
        /\ UpdateItem(req[c].run, cur, [it EXCEPT !.status = "reverted"])
     \/ /\ it.source # None /\ (file[cur] # it.source \/ "verify" \in Faults)
        /\ UNCHANGED item
  /\ NextItem(c, cur, "r_next")
  /\ UNCHANGED <<backup, file, writer>> /\ ApplyFrame

\* _finish_revert's verdict; "before" is the status to fall back on.
RevertVerdict(r, before) ==
  IF Having(r, "reverted") # {}
  THEN IF Having(r, "applied") = {} THEN "reverted" ELSE "partial"
  ELSE before

RevertFinish(c) ==
  /\ pc[c] = "r_next" /\ todo = {}
  /\ status' = [status EXCEPT ![req[c].run] = RevertVerdict(req[c].run, req[c].saw)]
  /\ Release(c)
  /\ UNCHANGED <<item, backup, file, worker, env, writer>>

Revert(c) ==
  \/ RevertRead(c) \/ RevertLock(c) \/ RevertRefuse(c) \/ RevertCheck(c) \/ RevertClaim(c)
  \/ RevertItem(c) \/ RevertWrite(c) \/ RevertCommit(c) \/ RevertFinish(c)

-----------------------------------------------------------------------------
(* The environment, and recover_on_startup.                                *)

\* An editor, a git checkout, the project's own Claude session: no lock.
UserEdit ==
  /\ edits < MaxEdits /\ edits' = edits + 1
  /\ \E f \in Files, x \in Hash :
       /\ x # file[f]
       /\ file' = [file EXCEPT ![f] = x]
       /\ writer' = [writer EXCEPT ![f] = 0]
       /\ touched' = (touched \/ f = cur)
  /\ UNCHANGED <<durable, phase, lock, pc, req, todo, cur, worker, seen, crashes>>

\* The process stops: threads, the lock and the job registry are gone.
Crash ==
  /\ crashes < MaxCrashes /\ crashes' = crashes + 1
  /\ phase' = "recovering" /\ lock' = Free
  /\ pc'  = [c \in Clients |-> "idle"]
  /\ req' = [c \in Clients |-> Idle]
  /\ todo' = {} /\ cur' = None /\ touched' = FALSE /\ seen' = {}
  /\ JobEnds
  /\ UNCHANGED <<durable, file, edits, writer>>

In(s) == {r \in Runs : status[r] \in s}

RecoverFrame == UNCHANGED <<backup, file, lock, pc, req, holder, worker, edits, crashes, writer>>

RecoverDraft ==
  /\ \E r \in In({"queued", "running"}) : status' = [status EXCEPT ![r] = "failed"]
  /\ UNCHANGED <<item, phase, seen>> /\ RecoverFrame

\* Mutant of RecoverApplyItem: an unfinished item is never found to be written.
RecoverApplyItemSkips ==
  /\ In({"queued", "running"}) = {}
  /\ \E r \in In({"applying"}) : \E f \in Having(r, "approved") :
       UpdateItem(r, f, [item[r][f] EXCEPT !.status = "skipped"])
  /\ UNCHANGED <<status, phase, seen>> /\ RecoverFrame

\* An approved item of an interrupted apply, judged by the file alone.
RecoverApplyItem ==
  /\ In({"queued", "running"}) = {}
  /\ \E r \in In({"applying"}) : \E f \in Having(r, "approved") :
       LET it == item[r][f]
           written == it.planned # None /\ file[f] = it.planned
       IN
       \/ /\ written
          /\ UpdateItem(r, f, [it EXCEPT !.status = "applied",
                                         !.applied = it.planned, !.appliedAt = TRUE])
       \/ /\ ~written \/ "read" \in Faults
          /\ UpdateItem(r, f, [it EXCEPT !.status = "skipped"])
  /\ UNCHANGED <<status, phase, seen>> /\ RecoverFrame

RecoverApplyDone ==
  /\ In({"queued", "running"}) = {}
  /\ \E r \in In({"applying"}) :
       /\ Having(r, "approved") = {}
       /\ status' = [status EXCEPT ![r] = ApplyVerdict(r)]
  /\ UNCHANGED <<item, phase, seen>> /\ RecoverFrame

\* Mutant of RecoverRevertItem: any file that is not the applied one counts as
\* put back.
RecoverRevertItemLoose ==
  /\ In({"queued", "running", "applying"}) = {}
  /\ \E r \in In({"reverting"}) : \E f \in Having(r, "applied") \ seen :
       /\ seen' = seen \cup {f}
       /\ \/ /\ file[f] # item[r][f].applied
             /\ UpdateItem(r, f, [item[r][f] EXCEPT !.status = "reverted"])
          \/ file[f] = item[r][f].applied /\ UNCHANGED item
  /\ UNCHANGED <<status, phase>> /\ RecoverFrame

RecoverRevertItem ==
  /\ In({"queued", "running", "applying"}) = {}
  /\ \E r \in In({"reverting"}) : \E f \in Having(r, "applied") \ seen :
       /\ seen' = seen \cup {f}
       /\ \/ /\ file[f] = item[r][f].source
             /\ UpdateItem(r, f, [item[r][f] EXCEPT !.status = "reverted"])
          \/ /\ file[f] # item[r][f].source \/ "read" \in Faults
             /\ UNCHANGED item
  /\ UNCHANGED <<status, phase>> /\ RecoverFrame

RecoverRevertDone ==
  /\ In({"queued", "running", "applying"}) = {}
  /\ \E r \in In({"reverting"}) :
       /\ Having(r, "applied") \subseteq seen
       /\ status' = [status EXCEPT ![r] = RevertVerdict(r,
                       IF \E f \in Files : item[r][f].appliedAt THEN "partial" ELSE "failed")]
  /\ seen' = {}
  /\ UNCHANGED <<item, phase>> /\ RecoverFrame

\* Mutant of RecoverDone: the server serves before the hook has finished.
RecoverDoneEarly ==
  /\ phase' = "serving"
  /\ UNCHANGED <<status, item, seen>> /\ RecoverFrame

RecoverDone ==
  /\ ActiveRuns = {}
  /\ phase' = "serving"
  /\ UNCHANGED <<status, item, seen>> /\ RecoverFrame

Recover ==
  /\ phase = "recovering"
  /\ \/ RecoverDraft \/ RecoverApplyItem \/ RecoverApplyDone
     \/ RecoverRevertItem \/ RecoverRevertDone \/ RecoverDone

Start(c) == StartCheck(c) \/ StartCreate(c) \/ StartJob(c)
Request(c) == phase = "serving" /\ (Start(c) \/ Apply(c) \/ Revert(c))

Next == (\E c \in Clients : Request(c)) \/ Job \/ UserEdit \/ Crash \/ Recover

Spec == Init /\ [][Next]_vars

-----------------------------------------------------------------------------
(* What must hold.                                                         *)

\* Every variable keeps its type.
TypeOK ==
  /\ status \in [Runs -> RunState]
  /\ item \in [Runs -> [Files -> Item]]
  /\ backup \in [Runs -> [Files -> Hash]]
  /\ file \in [Files -> Hash] /\ snap \in [Files -> Hash]
  /\ phase \in {"serving", "recovering"} /\ lock \in Clients \cup {Free}
  /\ pc \in [Clients -> PCs]
  /\ req \in [Clients -> [run: Runs \cup {0}, saw: RunState, chosen: SUBSET Files]]
  /\ todo \subseteq Files /\ cur \in Files \cup {None} /\ touched \in BOOLEAN
  /\ job \in [run: Runs \cup {0}, at: {"none", "claim", "collect", "ask", "publish"}]
  /\ seen \subseteq Files /\ edits \in 0..MaxEdits /\ crashes \in 0..MaxCrashes
  /\ writer \in [Files -> Runs \cup {0}]

\* At most one run of the project is being applied or reverted, whatever the
\* requests had read before they got the lock, and also after a crash: two of
\* them would write the same files (env_setup._lock around apply and revert).
OneWriter ==
  \A r, q \in Runs :
    status[r] \in {"applying", "reverting"} /\ status[q] \in {"applying", "reverting"} => r = q

\* While the server answers requests, a run that is being applied or reverted
\* has a live request working on it: a crash leaves none behind that recovery
\* has not settled, and no handler returns with the status half way.
NoStrandedWriter ==
  phase = "serving" =>
    \A r \in In({"applying", "reverting"}) :
      \E c \in Clients : req[c].run = r /\ pc[c] \in ApplyPC \cup RevertPC

\* A file last written by a run is known to be the run's own once the run is
\* settled, so that a revert restores it: the item says "applied" and its hash
\* is the file's (env_setup: revert_run restores what the run really wrote).
\* A plan equal to its source changes nothing and needs no revert.
WrittenIsRevertible ==
  \A r \in Runs : \A f \in Files :
    writer[f] = r /\ file[f] # item[r][f].source /\ status[r] \notin {"applying", "reverting"}
      => item[r][f].status = "applied" /\ item[r][f].applied = file[f]

\* What the engine may write: one file at a time, of an approved item of the
\* run being applied, with its original saved and its planned hash on record,
\* in place of exactly the snapshot's content; or the original of an applied
\* item of the run being reverted, in place of exactly what was applied.  The
\* one exception is an edit the user makes after the last check of that file.
EngineWriteAllowed(f) ==
  \E r \in Runs :
    LET it == item[r][f] IN
    \/ /\ status[r] = "applying" /\ it.status = "approved"
       /\ file'[f] = it.plan /\ it.planned = it.plan
       /\ it.source # None => backup[r][f] = it.source
       /\ file[f] = it.source \/ touched
    \/ /\ status[r] = "reverting" /\ it.status = "applied"
       /\ file'[f] = it.source
       /\ file[f] = it.applied \/ touched

EngineWritesAreSafe ==
  [][\A f \in Files : file'[f] # file[f] /\ edits' = edits => EngineWriteAllowed(f)]_vars

\* An item becomes "reverted" only when its file is back to the snapshot's
\* content (or gone, if the run had created it), unless the user wrote the
\* file after the engine's last check; recovery obeys the same rule.
RevertedMeansRestored ==
  [][\A r \in Runs : \A f \in Files :
       item'[r][f].status = "reverted" /\ item[r][f].status # "reverted"
         => file[f] = item[r][f].source \/ touched]_vars

\* What a settled run tells the user agrees with its items: "applied" when all
\* that was approved is applied, "reverted" when nothing is applied any more.
VerdictAgrees ==
  \A r \in Runs :
    /\ status[r] = "applied" => \A f \in Files : item[r][f].approvedAt => item[r][f].status = "applied"
    /\ status[r] = "reverted" => Having(r, "applied") = {} /\ Having(r, "reverted") # {}
    /\ status[r] = "failed" => Having(r, "applied") = {}

\* What the ledger sees of a state: who writes the files, whether that run is
\* being reverted, which runs have been claimed or have failed, and, by run, the
\* approved items, the ones ever applied, and the ones reverted.
Writing   == In({"applying", "reverting"})
Owner     == IF Writing = {} THEN 0 ELSE CHOOSE r \in Writing : TRUE
Undoing   == In({"reverting"}) # {}
Spent     == Runs \ In({"none", "queued", "running", "proposed"})
Consented == [r \in Runs |-> {f \in Files : item[r][f].approvedAt}]
Made      == [r \in Runs |-> {f \in Files : item[r][f].appliedAt}]
TakenBack == [r \in Runs |-> Having(r, "reverted")]

\* The abstract promise: the runs being applied or reverted own the files, an
\* approval is a consent, an item once applied is a change made, and a reverted
\* one a change taken back.  Recovery's steps are steps of the ledger too.
Ledger == INSTANCE ConsentLedger WITH
  Nobody <- 0, owner <- Owner, undoing <- Undoing, spent <- Spent,
  consent <- Consented, done <- Made, undone <- TakenBack

KeepsTheLedger == Ledger!Spec

\* Threads are scheduled, the model call times out (LLM_TIMEOUT), the start-up
\* hook runs to its end; users and crashes owe nothing.
Fairness ==
  /\ \A c \in Clients : WF_vars(pc[c] # "idle" /\ Request(c))
  /\ WF_vars(Job) /\ WF_vars(Recover)

FairSpec == Spec /\ Fairness

\* Once begun, an apply or a revert comes to an end, across crashes too.
WritersFinish ==
  \A r \in Runs :
    status[r] \in {"applying", "reverting"} ~> status[r] \notin {"applying", "reverting"}

-----------------------------------------------------------------------------
(* Control: where the threads can be, given what the rows say.  With TypeOK  *)
(* it is inductive, and it implies OneWriter and NoStrandedWriter.           *)

\* Nothing runs before the start-up hook is done; the client in the critical
\* section is the one that holds the lock.
ThreadsAgree ==
  /\ phase = "recovering" => job = NoJob /\ lock = Free /\ \A c \in Clients : pc[c] = "idle"
  /\ \A c \in Clients : pc[c] \in Critical <=> lock = c

\* A request that is under way has a run, and the run's status says how far.
RequestsAgree ==
  \A c \in Clients :
    /\ pc[c] \notin {"idle", "s_create"} => req[c].run \in Runs
    /\ pc[c] = "s_job" => status[req[c].run] = "queued"
    /\ pc[c] \in ApplyPC => status[req[c].run] = "applying"
    /\ pc[c] \in RevertPC => status[req[c].run] = "reverting"
    /\ pc[c] \in RevertPC \cup {"r_cas"} => req[c].saw \in {"applied", "partial"}

\* The job works on a queued or running run that no starting request still has.
JobAgrees ==
  /\ job.at # "none" => job.run \in Runs
  /\ job.at = "claim" => status[job.run] = "queued"
  /\ job.at \in {"collect", "ask", "publish"} => status[job.run] = "running"
  /\ \A c, d \in Clients :
       pc[c] = "s_job" /\ (pc[d] = "s_job" /\ c # d) => req[c].run # req[d].run
  /\ \A c \in Clients : pc[c] = "s_job" /\ job.at # "none" => job.run # req[c].run

\* An item is only written when a text was planned for it.
CurrentAgrees ==
  \A c \in Clients :
    /\ pc[c] \in {"a_backup", "a_record", "a_recheck", "a_replace", "a_verify"}
         => cur \in Files /\ item[req[c].run][cur].plan # NoPlan
    /\ pc[c] \in {"r_write", "r_commit"} => cur \in Files

Control == ThreadsAgree /\ RequestsAgree /\ JobAgrees /\ CurrentAgrees /\ NoStrandedWriter /\ OneWriter

-----------------------------------------------------------------------------
(* Rows: what the items say, given the runs and the threads.  On top of      *)
(* Control it is inductive, and the properties of items follow from it.      *)

Draft == {"none", "queued", "running", "proposed"}

\* Nothing is agreed, recorded or changed before a run is claimed; nothing is
\* left to be judged once it is settled; the time stamps say what became of it.
RowsAgree ==
  \A r \in Runs : \A f \in Files :
    LET it == item[r][f] IN
    /\ status[r] \in Draft => it.status \in {"none", "proposed"} /\ it.planned = None
    /\ it.status = "approved" => status[r] = "applying"
    /\ it.approvedAt <=> it.status \in {"approved", "applied", "skipped", "reverted"}
    /\ it.appliedAt  <=> it.status \in {"applied", "reverted"}
    /\ it.planned \in {None, it.plan}

\* The lock holder's list: what is still to be marked, written or restored.
ListAgrees(c) ==
  LET r == req[c].run IN
  /\ pc[c] = "a_mark" => \A f \in Files : /\ f \in todo => item[r][f].status = "proposed"
                                          /\ ~item[r][f].appliedAt
  /\ pc[c] \in ApplyPC \ {"a_mark"} => todo = Having(r, "approved")
  /\ pc[c] \in RevertPC => todo \subseteq Having(r, "applied")
  /\ pc[c] \in (ApplyPC \cup RevertPC) \ {"a_mark", "a_next", "r_next"} => cur \in todo

\* The file the lock holder has in hand, between its last check and its commit.
FileAgrees(c) ==
  LET it == item[req[c].run][cur] IN
  /\ pc[c] \in {"a_record", "a_recheck", "a_replace"} /\ it.source # None
       => backup[req[c].run][cur] = it.source
  /\ pc[c] \in {"a_recheck", "a_replace", "a_verify"} => it.planned = it.plan
  /\ pc[c] = "a_replace" => file[cur] = it.source \/ touched
  /\ pc[c] = "r_write"   => file[cur] = it.applied \/ touched
  /\ pc[c] = "r_commit"  => (file[cur] = it.source \/ touched) /\ writer[cur] = 0

\* What a reverting request read of its run before it had the lock may be stale,
\* but not beyond this: a settled apply is only ever undone.
SawAgrees(c) ==
  LET r == req[c].run IN
  /\ pc[c] \in {"r_lock", "r_check", "r_cas"} \cup RevertPC /\ req[c].saw \in {"applied", "partial"}
       => /\ status[r] \in {"applied", "partial", "reverting", "reverted"}
          /\ req[c].saw = "applied" =>
               \A f \in Files : item[r][f].approvedAt => item[r][f].status \in {"applied", "reverted"}
  /\ pc[c] = "r_cas" => Having(r, "applied") # {}

Rows ==
  /\ RowsAgree /\ VerdictAgrees
  /\ \A c \in Clients : ListAgrees(c) /\ FileAgrees(c) /\ SawAgrees(c)

\* A file last written by a run is on that run's record: as applied, or as the
\* one write that a live request or the recovery has still to judge.
WritesAgree ==
  \A r \in Runs : \A f \in Files :
    LET it == item[r][f] IN
    writer[f] = r =>
      /\ it.approvedAt
      /\ file[f] # it.source =>
           \/ it.status = "applied" /\ it.applied = file[f]
           \/ /\ it.status = "approved" /\ it.planned = file[f] /\ file[f] # None
              /\ \/ phase = "recovering"
                 \/ \E c \in Clients : pc[c] = "a_verify" /\ req[c].run = r /\ cur = f

-----------------------------------------------------------------------------
(* What the repository says of the program and the code does not do.       *)

\* cc/env_setup.py: a broken answer leaves the run "failed"; so a run is queued
\* or running only while its request or its job is at work on it.
NoStrandedDraft ==
  phase = "serving" =>
    \A r \in In({"queued", "running"}) :
      job.run = r \/ \E c \in Clients : req[c].run = r /\ pc[c] = "s_job"
=============================================================================
