--------------------------- MODULE EnvSetupProofs ---------------------------
(***************************************************************************)
(* Theorems about EnvSetup, for every number of runs, clients, files,      *)
(* contents, edits and crashes, and for every set of faults.  First the    *)
(* types and the control: one writer, nobody left behind.  Then, on top of *)
(* it, what a thread has read of its run's rows and files (Rows), the      *)
(* verdict of a run and the writes; what was written and can be taken back *)
(* (WritesAgree), if the read-back of a written file does not fail; and    *)
(* the refinement of ConsentLedger, step by step.                          *)
(***************************************************************************)
EXTENDS EnvSetup, TLAPS

\* The inductive invariant: types need control, because a file only gets a
\* text that was planned for it, and the rows of a run only change while the
\* thread that has the run is where its status says.
IInv == TypeOK /\ Control

\* Replacing one row of the item table by an item keeps the table's type, and
\* leaves every other row as it was.
LEMMA RowUpdate ==
  ASSUME NEW t \in [Runs -> [Files -> Item]], NEW r \in Runs, NEW f \in Files, NEW row \in Item
  PROVE  /\ [t EXCEPT ![r][f] = row] \in [Runs -> [Files -> Item]]
         /\ \A q \in Runs, g \in Files :
              [t EXCEPT ![r][f] = row][q][g] = IF q = r /\ g = f THEN row ELSE t[q][g]
<1>1. [t[r] EXCEPT ![f] = row] \in [Files -> Item]
  OBVIOUS
<1> QED
  BY <1>1

\* update_item with an item keeps the table's type.
LEMMA UpdateType ==
  ASSUME TypeOK, NEW r \in Runs, NEW f \in Files, NEW row \in Item, UpdateItem(r, f, row)
  PROVE  /\ item' \in [Runs -> [Files -> Item]]
         /\ \A q \in Runs, g \in Files :
              item'[q][g] = IF q = r /\ g = f THEN row ELSE item[q][g]
BY RowUpdate DEF TypeOK, UpdateItem

\* The row stored for a file is an item, and it carries no history yet.
LEMMA ProposedType ==
  ASSUME NEW s \in Hash, NEW p \in Plans
  PROVE  Proposed(s, p) \in Item
BY NamesAssumption DEF Proposed, Blank, Item, ItemState, Hash

\* The verdicts are statuses.
LEMMA VerdictType ==
  ASSUME NEW r, NEW before \in RunState
  PROVE  ApplyVerdict(r) \in RunState /\ RevertVerdict(r, before) \in RunState
BY DEF ApplyVerdict, RevertVerdict, RunState

\* Leaving the critical section keeps the types of what it resets.
LEMMA ReleaseType ==
  ASSUME TypeOK, NEW c \in Clients, Release(c)
  PROVE  /\ lock' \in Clients \cup {Free} /\ pc' \in [Clients -> PCs]
         /\ req' \in [Clients -> [run: Runs \cup {0}, saw: RunState, chosen: SUBSET Files]]
         /\ todo' \subseteq Files /\ cur' \in Files \cup {None} /\ touched' \in BOOLEAN
BY DEF TypeOK, Release, Idle, PCs, RunState

USE DEF durable, holder, worker, env, ApplyFrame, JobFrame, RecoverFrame

LEMMA StartType ==
  ASSUME TypeOK, NEW c \in Clients, Start(c), UNCHANGED phase
  PROVE  TypeOK'
<1>1. CASE StartCheck(c)
  BY <1>1 DEF TypeOK, StartCheck, Goto, PCs
<1>2. CASE StartCreate(c)
  <2>1. PICK r \in Runs : /\ status' = [status EXCEPT ![r] = "queued"]
                          /\ req' = [req EXCEPT ![c].run = r]
    BY <1>2 DEF StartCreate
  <2>2. status' \in [Runs -> RunState]
    BY <2>1 DEF TypeOK, RunState
  <2>3. req' \in [Clients -> [run: Runs \cup {0}, saw: RunState, chosen: SUBSET Files]]
    BY <2>1 DEF TypeOK
  <2>4. pc' \in [Clients -> PCs]
    BY <1>2 DEF TypeOK, StartCreate, Goto, PCs
  <2> QED
    BY <1>2, <2>2, <2>3, <2>4 DEF TypeOK, StartCreate
<1>3. CASE StartJob(c)
  <2>1. req[c].run \in Runs \cup {0}
    BY DEF TypeOK
  <2> QED
    BY <1>3, <2>1 DEF TypeOK, StartJob, Goto, PCs, RunState, Idle, NoJob
<1> QED
  BY <1>1, <1>2, <1>3 DEF Start

LEMMA JobType ==
  ASSUME TypeOK, Job
  PROVE  TypeOK'
<1>1. CASE JobClaim
  <2>1. status' \in [Runs -> RunState]
    BY <1>1 DEF TypeOK, JobClaim, RunState
  <2>2. job' \in [run: Runs \cup {0}, at: {"none", "claim", "collect", "ask", "publish"}]
    BY <1>1 DEF TypeOK, JobClaim, JobEnds, NoJob
  <2>3. snap' \in [Files -> Hash]
    BY <1>1 DEF TypeOK, JobClaim, JobEnds, Hash
  <2> QED
    BY <1>1, <2>1, <2>2, <2>3 DEF TypeOK, JobClaim
<1>2. CASE JobCollect
  BY <1>2 DEF TypeOK, JobCollect
<1>3. CASE JobFail
  BY <1>3 DEF TypeOK, JobFail, JobEnds, NoJob, RunState, Hash
<1>4. CASE JobRaise
  BY <1>4 DEF TypeOK, JobRaise, JobEnds, NoJob, Hash
<1>5. CASE JobStore
  <2>1. PICK p \in [Files -> Plans] :
          item' = [item EXCEPT ![job.run] = [f \in Files |-> Proposed(snap[f], p[f])]]
    BY <1>5 DEF JobStore
  <2>2. [f \in Files |-> Proposed(snap[f], p[f])] \in [Files -> Item]
    BY ProposedType DEF TypeOK
  <2>3. item' \in [Runs -> [Files -> Item]]
    BY <2>1, <2>2 DEF TypeOK
  <2> QED
    BY <1>5, <2>3 DEF TypeOK, JobStore
<1>6. CASE JobPublish
  BY <1>6 DEF TypeOK, JobPublish, JobEnds, NoJob, RunState, Hash
<1> QED
  BY <1>1, <1>2, <1>3, <1>4, <1>5, <1>6 DEF Job

\* Giving up on an item: its row keeps its type, the list shrinks.
LEMMA SkipType ==
  ASSUME TypeOK, NEW c \in Clients, NEW f \in Files, req[c].run \in Runs, Skip(c, f)
  PROVE  /\ item' \in [Runs -> [Files -> Item]] /\ pc' \in [Clients -> PCs]
         /\ todo' \subseteq Files /\ cur' \in Files \cup {None} /\ touched' \in BOOLEAN
<1>0. item[req[c].run][f] \in Item
  BY DEF TypeOK
<1>1. [item[req[c].run][f] EXCEPT !.status = "skipped"] \in Item
  BY <1>0 DEF Item, ItemState
<1>2. item' \in [Runs -> [Files -> Item]]
  BY <1>1, UpdateType DEF Skip
<1> QED
  BY <1>2 DEF TypeOK, Skip, NextItem, PCs, Critical, ApplyPC

LEMMA ApplyEntryType ==
  ASSUME IInv, NEW c \in Clients, UNCHANGED phase,
         \/ ApplyRead(c) \/ ApplyLock(c) \/ ApplyRefuse(c) \/ ApplyCheck(c)
         \/ ApplyClaim(c) \/ ApplyLost(c) \/ ApplyMark(c) \/ ApplyListed(c)
  PROVE  TypeOK'
<1> USE DEF IInv, Control
<1>1. CASE ApplyRead(c)
  <2>1. PICK r \in Runs : \E S \in SUBSET {f \in Files : item[r][f].applicable} :
          req' = [req EXCEPT ![c] = [run |-> r, saw |-> status[r], chosen |-> S]]
    BY <1>1 DEF ApplyRead
  <2>2. req' \in [Clients -> [run: Runs \cup {0}, saw: RunState, chosen: SUBSET Files]]
    BY <2>1 DEF TypeOK
  <2> QED
    BY <1>1, <2>2 DEF TypeOK, ApplyRead, Goto, PCs
<1>2. CASE ApplyLock(c)
  BY <1>2 DEF TypeOK, ApplyLock, Acquire, Goto, PCs, Critical
<1>3. CASE ApplyRefuse(c) \/ ApplyLost(c)
  BY <1>3, ReleaseType DEF TypeOK, ApplyRefuse, ApplyLost
<1>4. CASE ApplyCheck(c)
  BY <1>4 DEF TypeOK, ApplyCheck, Goto, PCs, Critical
<1>5. CASE ApplyClaim(c)
  <2>1. status' \in [Runs -> RunState]
    BY <1>5 DEF TypeOK, ApplyClaim, RunState
  <2>2. todo' \subseteq Files /\ pc' \in [Clients -> PCs]
    BY <1>5 DEF TypeOK, ApplyClaim, PCs, Critical, ApplyPC
  <2> QED
    BY <1>5, <2>1, <2>2 DEF TypeOK, ApplyClaim
<1>6. CASE ApplyMark(c)
  <2> DEFINE it(f) == item[req[c].run][f]
             row(f) == IF f \in req[c].chosen
                       THEN [it(f) EXCEPT !.status = "approved", !.approvedAt = TRUE]
                       ELSE [it(f) EXCEPT !.status = "rejected"]
  <2>1. PICK f \in todo : UpdateItem(req[c].run, f, row(f)) /\ todo' = todo \ {f}
    BY <1>6 DEF ApplyMark
  <2>2. req[c].run \in Runs
    BY <1>6 DEF ApplyMark, RequestsAgree
  <2>6. f \in Files /\ it(f) \in Item
    BY <2>2 DEF TypeOK
  <2>3. row(f) \in Item
    BY <2>6 DEF Item, ItemState
  <2>4. item' \in [Runs -> [Files -> Item]]
    BY <2>1, <2>2, <2>6, <2>3, UpdateType
  <2> QED
    BY <1>6, <2>1, <2>4 DEF TypeOK, ApplyMark
<1>7. CASE ApplyListed(c)
  BY <1>7 DEF TypeOK, ApplyListed, Having, Goto, PCs, Critical, ApplyPC
<1> QED
  BY <1>1, <1>2, <1>3, <1>4, <1>5, <1>6, <1>7

LEMMA ApplyWorkType ==
  ASSUME IInv, NEW c \in Clients, UNCHANGED phase,
         \/ ApplyItem(c) \/ ApplyBackup(c) \/ ApplyRecord(c) \/ ApplyRecheck(c)
         \/ ApplyReplace(c) \/ ApplyVerify(c) \/ ApplyFinish(c)
  PROVE  TypeOK'
<1> USE DEF IInv, Control
<1> DEFINE r == req[c].run
           it == item[r][cur]
<1>0. ASSUME pc[c] \in {"a_backup", "a_record", "a_recheck", "a_replace", "a_verify"}
      PROVE  /\ r \in Runs /\ cur \in Files /\ it \in Item /\ it.plan \in Contents
             /\ Skip(c, cur) =>
                 /\ item' \in [Runs -> [Files -> Item]] /\ pc' \in [Clients -> PCs]
                 /\ todo' \subseteq Files /\ cur' \in Files \cup {None} /\ touched' \in BOOLEAN
  <2>1. r \in Runs /\ cur \in Files /\ it.plan # NoPlan
    BY <1>0 DEF RequestsAgree, CurrentAgrees
  <2>2. it \in Item
    BY <2>1 DEF TypeOK
  <2>3. it.plan \in Contents
    BY <2>1, <2>2 DEF Item
  <2> QED
    BY <2>1, <2>2, <2>3, SkipType
<1>1. CASE ApplyItem(c)
  <2>1. PICK f \in todo :
          \/ Skip(c, f)
          \/ /\ cur' = f /\ UNCHANGED <<item, todo, touched>>
             /\ pc' = [pc EXCEPT ![c] = IF item[r][f].source = None
                                       THEN "a_record" ELSE "a_backup"]
    BY <1>1 DEF ApplyItem
  <2>2. f \in Files /\ r \in Runs
    BY <1>1 DEF TypeOK, ApplyItem, ApplyPC, RequestsAgree
  <2>3. CASE Skip(c, f)
    BY <1>1, <2>2, <2>3, SkipType DEF TypeOK, ApplyItem
  <2>4. CASE ~Skip(c, f)
    BY <1>1, <2>1, <2>2, <2>4 DEF TypeOK, ApplyItem, PCs, Critical, ApplyPC
  <2> QED
    BY <2>3, <2>4
<1>2. CASE ApplyBackup(c)
  <2>1. CASE Skip(c, cur) /\ UNCHANGED backup
    BY <1>0, <1>2, <2>1 DEF TypeOK, ApplyBackup
  <2>2. CASE /\ backup' = [backup EXCEPT ![r][cur] = it.source]
             /\ pc' = [pc EXCEPT ![c] = "a_record"]
             /\ UNCHANGED <<item, todo, cur, touched>>
    <3>1. backup' \in [Runs -> [Files -> Hash]]
      BY <1>0, <1>2, <2>2 DEF TypeOK, Item, ApplyBackup
    <3> QED
      BY <1>2, <2>2, <3>1 DEF TypeOK, ApplyBackup, PCs, Critical, ApplyPC
  <2> QED
    BY <1>2, <2>1, <2>2 DEF ApplyBackup
<1>3. CASE ApplyRecord(c)
  <2>1. UpdateItem(r, cur, [it EXCEPT !.planned = it.plan, !.saved = (it.source # None)])
    BY <1>3 DEF ApplyRecord
  <2>2. r \in Runs /\ cur \in Files /\ it \in Item /\ it.plan \in Contents
    BY <1>0, <1>3 DEF ApplyRecord, Goto
  <2>3. [it EXCEPT !.planned = it.plan, !.saved = (it.source # None)] \in Item
    BY <2>2 DEF Item, Hash
  <2>5. item' \in [Runs -> [Files -> Item]]
    BY <2>1, <2>2, <2>3, UpdateType
  <2> QED
    BY <1>3, <2>5 DEF TypeOK, ApplyRecord, Goto, PCs, Critical, ApplyPC
<1>4. CASE ApplyRecheck(c)
  <2>1. CASE Skip(c, cur)
    BY <1>0, <1>4, <2>1 DEF TypeOK, ApplyRecheck
  <2>2. CASE ~Skip(c, cur)
    BY <1>4, <2>2 DEF TypeOK, ApplyRecheck, PCs, Critical, ApplyPC
  <2> QED
    BY <2>1, <2>2
<1>5. CASE ApplyReplace(c)
  <2>1. CASE Skip(c, cur) /\ UNCHANGED <<file, writer>>
    BY <1>0, <1>5, <2>1 DEF TypeOK, ApplyReplace
  <2>2. CASE /\ file' = [file EXCEPT ![cur] = it.plan]
             /\ writer' = [writer EXCEPT ![cur] = r]
             /\ pc' = [pc EXCEPT ![c] = "a_verify"]
             /\ UNCHANGED <<item, todo, cur, touched>>
    <3>1. file' \in [Files -> Hash] /\ writer' \in [Files -> Runs \cup {0}]
      BY <1>0, <1>5, <2>2 DEF TypeOK, Hash, ApplyReplace
    <3> QED
      BY <1>5, <2>2, <3>1 DEF TypeOK, ApplyReplace, PCs, Critical, ApplyPC
  <2> QED
    BY <1>5, <2>1, <2>2 DEF ApplyReplace
<1>6. CASE ApplyVerify(c)
  <2>1. CASE Skip(c, cur)
    BY <1>0, <1>6, <2>1 DEF TypeOK, ApplyVerify
  <2>2. CASE /\ UpdateItem(r, cur,
                  [it EXCEPT !.status = "applied", !.applied = it.plan, !.appliedAt = TRUE])
             /\ NextItem(c, cur, "a_next")
    <3>1. [it EXCEPT !.status = "applied", !.applied = it.plan, !.appliedAt = TRUE] \in Item
      BY <1>0, <1>6 DEF Item, ItemState, Hash, ApplyVerify
    <3>2. item' \in [Runs -> [Files -> Item]]
      BY <1>0, <1>6, <2>2, <3>1, UpdateType DEF ApplyVerify
    <3> QED
      BY <1>6, <2>2, <3>2 DEF TypeOK, ApplyVerify, NextItem, PCs, Critical, ApplyPC
  <2> QED
    BY <1>6, <2>1, <2>2 DEF ApplyVerify
<1>7. CASE ApplyFinish(c)
  <2>1. ApplyVerdict(r) \in RunState
    BY VerdictType DEF RunState
  <2> QED
    BY <1>7, <2>1, ReleaseType DEF TypeOK, ApplyFinish
<1> QED
  BY <1>1, <1>2, <1>3, <1>4, <1>5, <1>6, <1>7

\* A row that only gets another status stays an item.
LEMMA StatusType ==
  ASSUME TypeOK, NEW r \in Runs, NEW f \in Files, NEW s \in ItemState
  PROVE  [item[r][f] EXCEPT !.status = s] \in Item
<1>1. item[r][f] \in Item
  BY DEF TypeOK
<1> QED
  BY <1>1 DEF Item

LEMMA RevertType ==
  ASSUME IInv, NEW c \in Clients, UNCHANGED phase, Revert(c)
  PROVE  TypeOK'
<1> USE DEF IInv, Control
<1> DEFINE r == req[c].run
           it == item[r][cur]
<1>0. ASSUME pc[c] \in {"r_write", "r_commit"}
      PROVE  r \in Runs /\ cur \in Files /\ it \in Item
  <2>1. r \in Runs /\ cur \in Files
    BY <1>0 DEF RequestsAgree, CurrentAgrees
  <2> QED
    BY <2>1 DEF TypeOK
<1>1. CASE RevertRead(c)
  BY <1>1 DEF TypeOK, RevertRead, Goto, PCs
<1>2. CASE RevertLock(c)
  BY <1>2 DEF TypeOK, RevertLock, Acquire, Goto, PCs, Critical
<1>3. CASE RevertRefuse(c)
  BY <1>3, ReleaseType DEF TypeOK, RevertRefuse
<1>4. CASE RevertCheck(c)
  BY <1>4 DEF TypeOK, RevertCheck, Goto, PCs, Critical
<1>5. CASE RevertClaim(c)
  <2>1. CASE status[r] \in {"applied", "partial"}
    <3>0. status' = [status EXCEPT ![r] = "reverting"]
      BY <1>5, <2>1 DEF RevertClaim
    <3>1. status' \in [Runs -> RunState]
      BY <3>0 DEF TypeOK, RunState
    <3>2. todo' \subseteq Files /\ pc' \in [Clients -> PCs]
      BY <1>5, <2>1 DEF TypeOK, RevertClaim, Having, PCs, Critical, RevertPC
    <3> QED
      BY <1>5, <2>1, <3>1, <3>2 DEF TypeOK, RevertClaim
  <2>2. CASE status[r] \notin {"applied", "partial"}
    BY <1>5, <2>2, ReleaseType DEF TypeOK, RevertClaim
  <2> QED
    BY <2>1, <2>2
<1>6. CASE RevertItem(c)
  <2>1. PICK f \in todo :
          \/ cur' = f /\ touched' = FALSE /\ UNCHANGED todo /\ pc' = [pc EXCEPT ![c] = "r_write"]
          \/ NextItem(c, f, "r_next")
    BY <1>6 DEF RevertItem
  <2> QED
    BY <1>6, <2>1 DEF TypeOK, RevertItem, NextItem, PCs, Critical, RevertPC
<1>7. CASE RevertWrite(c)
  <2>1. CASE file' = file /\ writer' = writer
    BY <1>7, <2>1 DEF TypeOK, RevertWrite, NextItem, PCs, Critical, RevertPC
  <2>2. CASE file' = [file EXCEPT ![cur] = it.source] /\ writer' = [writer EXCEPT ![cur] = 0]
    <3>0. cur \in Files /\ it.source \in Hash
      BY <1>0, <1>7 DEF Item, RevertWrite
    <3>1. file' \in [Files -> Hash] /\ writer' \in [Files -> Runs \cup {0}]
      BY <2>2, <3>0 DEF TypeOK
    <3> QED
      BY <1>7, <3>1 DEF TypeOK, RevertWrite, NextItem, PCs, Critical, RevertPC
  <2> QED
    BY <1>7, <2>1, <2>2 DEF RevertWrite
<1>8. CASE RevertCommit(c)
  <2>1. item' \in [Runs -> [Files -> Item]]
    <3>1. CASE UNCHANGED item
      BY <3>1 DEF TypeOK
    <3>2. CASE UpdateItem(r, cur, [it EXCEPT !.status = "reverted"])
      BY <1>0, <1>8, <3>2, StatusType, UpdateType DEF RevertCommit, ItemState
    <3> QED
      BY <1>8, <3>1, <3>2 DEF RevertCommit
  <2> QED
    BY <1>8, <2>1 DEF TypeOK, RevertCommit, NextItem, PCs, Critical, RevertPC
<1>9. CASE RevertFinish(c)
  <2>1. req[c].saw \in RunState
    BY DEF TypeOK
  <2>2. RevertVerdict(r, req[c].saw) \in RunState
    BY <2>1, VerdictType
  <2> QED
    BY <1>9, <2>2, ReleaseType DEF TypeOK, RevertFinish
<1> QED
  BY <1>1, <1>2, <1>3, <1>4, <1>5, <1>6, <1>7, <1>8, <1>9 DEF Revert

LEMMA EnvironmentType ==
  ASSUME TypeOK, UserEdit \/ Crash
  PROVE  TypeOK'
<1>1. CASE UserEdit
  BY <1>1, RunsAssumption DEF TypeOK, UserEdit
<1>2. CASE Crash
  <2>1. pc' \in [Clients -> PCs] /\ snap' \in [Files -> Hash]
    BY <1>2 DEF Crash, JobEnds, PCs, Hash
  <2>2. req' \in [Clients -> [run: Runs \cup {0}, saw: RunState, chosen: SUBSET Files]]
    BY <1>2 DEF Crash, Idle, RunState
  <2>3. job' \in [run: Runs \cup {0}, at: {"none", "claim", "collect", "ask", "publish"}]
    BY <1>2 DEF Crash, JobEnds, NoJob
  <2>4. crashes' \in 0..MaxCrashes
    BY <1>2, RunsAssumption DEF TypeOK, Crash
  <2> QED
    BY <1>2, <2>1, <2>2, <2>3, <2>4 DEF TypeOK, Crash
<1> QED
  BY <1>1, <1>2

LEMMA RecoverType ==
  ASSUME TypeOK, Recover
  PROVE  TypeOK'
<1>1. CASE RecoverDraft
  BY <1>1 DEF TypeOK, RecoverDraft, RunState
<1>2. CASE RecoverApplyItem
  <2>1. PICK r \in Runs : \E f \in Files :
          \/ UpdateItem(r, f, [item[r][f] EXCEPT !.status = "applied",
                                 !.applied = item[r][f].planned, !.appliedAt = TRUE])
          \/ UpdateItem(r, f, [item[r][f] EXCEPT !.status = "skipped"])
    BY <1>2 DEF RecoverApplyItem, In, Having
  <2>2. PICK f \in Files :
          \/ UpdateItem(r, f, [item[r][f] EXCEPT !.status = "applied",
                                 !.applied = item[r][f].planned, !.appliedAt = TRUE])
          \/ UpdateItem(r, f, [item[r][f] EXCEPT !.status = "skipped"])
    BY <2>1
  <2>3. item[r][f] \in Item
    BY DEF TypeOK
  <2>4. [item[r][f] EXCEPT !.status = "applied", !.applied = item[r][f].planned,
                           !.appliedAt = TRUE] \in Item
    BY <2>3 DEF Item, ItemState
  <2>5. item' \in [Runs -> [Files -> Item]]
    BY <2>2, <2>4, StatusType, UpdateType DEF ItemState
  <2> QED
    BY <1>2, <2>5 DEF TypeOK, RecoverApplyItem
<1>3. CASE RecoverApplyDone
  <2>1. PICK r \in Runs : status' = [status EXCEPT ![r] = ApplyVerdict(r)]
    BY <1>3 DEF RecoverApplyDone, In
  <2>2. ApplyVerdict(r) \in RunState
    BY VerdictType DEF RunState
  <2> QED
    BY <1>3, <2>1, <2>2 DEF TypeOK, RecoverApplyDone
<1>4. CASE RecoverRevertItem
  <2>1. PICK r \in Runs : \E f \in Files :
          /\ seen' = seen \cup {f}
          /\ \/ UpdateItem(r, f, [item[r][f] EXCEPT !.status = "reverted"])
             \/ UNCHANGED item
    BY <1>4 DEF RecoverRevertItem, In, Having
  <2>2. item' \in [Runs -> [Files -> Item]] /\ seen' \subseteq Files
    BY <2>1, StatusType, UpdateType DEF ItemState, TypeOK
  <2> QED
    BY <1>4, <2>2 DEF TypeOK, RecoverRevertItem
<1>5. CASE RecoverRevertDone
  <2> DEFINE before(r) == IF \E f \in Files : item[r][f].appliedAt THEN "partial" ELSE "failed"
  <2>1. PICK r \in Runs : status' = [status EXCEPT ![r] = RevertVerdict(r, before(r))]
    BY <1>5 DEF RecoverRevertDone, In
  <2>2. before(r) \in RunState
    BY DEF RunState
  <2>3. RevertVerdict(r, before(r)) \in RunState
    BY <2>2, VerdictType
  <2>4. status' \in [Runs -> RunState]
    BY <2>1, <2>3 DEF TypeOK
  <2> QED
    BY <1>5, <2>4 DEF TypeOK, RecoverRevertDone
<1>6. CASE RecoverDone
  BY <1>6 DEF TypeOK, RecoverDone
<1> QED
  BY <1>1, <1>2, <1>3, <1>4, <1>5, <1>6 DEF Recover

-----------------------------------------------------------------------------
(* Control is preserved.  Most steps are of two shapes: the lock holder     *)
(* moves on inside its apply or revert, or it leaves the critical section.  *)

PCSets == ApplyPC \cup RevertPC

\* Critical, apply and revert positions do not meet the others.
LEMMA Positions ==
  /\ ApplyPC \subseteq Critical /\ RevertPC \subseteq Critical
  /\ ApplyPC \cap RevertPC = {}
  /\ {"idle", "s_create", "s_job", "a_lock", "r_lock"} \cap Critical = {}
  /\ {"a_check", "a_cas", "r_check", "r_cas"} \cap PCSets = {}
BY DEF ApplyPC, RevertPC, Critical, PCSets

\* Only the lock holder is in the critical section.
LEMMA OthersOutside ==
  ASSUME IInv, NEW c \in Clients, pc[c] \in Critical, NEW d \in Clients, d # c
  PROVE  lock = c /\ pc[d] \notin Critical
BY DEF IInv, Control, ThreadsAgree

\* While a client serves inside the lock but has not claimed its run, no run
\* is being applied or reverted.
LEMMA NoWriterYet ==
  ASSUME IInv, NEW c \in Clients, pc[c] \in Critical, pc[c] \notin PCSets, NEW q \in Runs
  PROVE  status[q] \notin {"applying", "reverting"}
<1>1. phase = "serving"
  BY Positions DEF IInv, Control, ThreadsAgree, TypeOK
<1>2. SUFFICES ASSUME status[q] \in {"applying", "reverting"}
              PROVE  FALSE
  OBVIOUS
<1>3. PICK d \in Clients : pc[d] \in PCSets
  BY <1>1, <1>2 DEF IInv, Control, NoStrandedWriter, In, PCSets
<1> QED
  BY <1>3, OthersOutside, Positions DEF PCSets

\* The lock holder moves on.
LEMMA WorkStep ==
  ASSUME IInv, NEW c \in Clients, NEW to,
         \/ pc[c] \in ApplyPC /\ to \in ApplyPC
         \/ pc[c] \in RevertPC /\ to \in RevertPC,
         pc' = [pc EXCEPT ![c] = to], UNCHANGED <<status, lock, req, job, phase>>
  PROVE  ThreadsAgree' /\ RequestsAgree' /\ JobAgrees' /\ NoStrandedWriter' /\ OneWriter'
<1> USE DEF IInv, Control
<1>0. pc \in [Clients -> PCs] /\ pc[c] \in Critical /\ to \in Critical
  BY Positions DEF TypeOK
<1>1. ThreadsAgree'
  <2>1. phase' = "serving"
    BY <1>0, Positions DEF ThreadsAgree, TypeOK
  <2> QED
    BY <1>0, <2>1 DEF ThreadsAgree
<1>2. RequestsAgree'
  <2>1. pc[c] \in RevertPC <=> to \in RevertPC
    BY Positions
  <2>2. pc[c] \in ApplyPC <=> to \in ApplyPC
    BY Positions
  <2>3. to \notin {"idle", "s_create", "s_job", "r_cas"}
    BY Positions DEF PCSets
  <2>4. pc[c] \notin {"idle", "s_create"}
    BY <1>0, Positions
  <2> QED
    BY <1>0, <2>1, <2>2, <2>3, <2>4 DEF RequestsAgree
<1>3. JobAgrees'
  BY <1>0, Positions DEF JobAgrees
<1>4. NoStrandedWriter'
  <2>1. SUFFICES ASSUME phase = "serving", NEW r \in Runs, status[r] \in {"applying", "reverting"}
                PROVE  \E d \in Clients : req[d].run = r /\ pc'[d] \in ApplyPC \cup RevertPC
    BY DEF NoStrandedWriter, In
  <2>2. PICK d \in Clients : req[d].run = r /\ pc[d] \in ApplyPC \cup RevertPC
    BY <2>1 DEF NoStrandedWriter, In
  <2>3. pc'[d] \in ApplyPC \cup RevertPC
    BY <1>0, <2>2
  <2> QED
    BY <2>2, <2>3
<1>5. OneWriter'
  BY DEF OneWriter
<1> QED
  BY <1>1, <1>2, <1>3, <1>4, <1>5

\* The lock holder leaves, having settled its run if it had claimed it.
LEMMA ReleaseStep ==
  ASSUME IInv, NEW c \in Clients, pc[c] \in Critical, Release(c), UNCHANGED <<job, phase>>,
         \/ pc[c] \notin PCSets /\ UNCHANGED status
         \/ pc[c] \in PCSets /\ \E s \in {"applied", "partial", "failed", "reverted"} :
                                  status' = [status EXCEPT ![req[c].run] = s]
  PROVE  Control'
<1> USE DEF IInv, Control
<1>0. /\ pc' = [pc EXCEPT ![c] = "idle"] /\ req' = [req EXCEPT ![c] = Idle] /\ lock' = Free
      /\ pc \in [Clients -> PCs] /\ lock = c /\ phase = "serving"
  BY Positions DEF Release, TypeOK, ThreadsAgree
<1>1. \A d \in Clients : pc'[d] \notin Critical /\ (d # c => pc'[d] = pc[d] /\ req'[d] = req[d])
  BY <1>0, OthersOutside, Positions DEF TypeOK
<1>2. ThreadsAgree'
  BY <1>0, <1>1, NamesAssumption DEF ThreadsAgree
<1>3. \A q \in Runs : status'[q] = status[q] \/ (q = req[c].run /\ pc[c] \in PCSets)
  BY DEF TypeOK
<1>4. pc[c] \in PCSets => status[req[c].run] \in {"applying", "reverting"}
  BY DEF PCSets, RequestsAgree
<1>5. \A q \in Runs : status[q] \in {"queued", "running"} => status'[q] = status[q]
  BY <1>3, <1>4
<1>6. RequestsAgree'
  <2>1. SUFFICES ASSUME NEW d \in Clients, pc'[d] # "idle"
                PROVE  /\ pc'[d] # "s_create" => req'[d].run \in Runs
                       /\ pc'[d] = "s_job" => status'[req'[d].run] = "queued"
    BY <1>1, Positions DEF RequestsAgree, Critical
  <2>2. d # c /\ pc'[d] = pc[d] /\ req'[d] = req[d]
    BY <1>0, <1>1, <2>1
  <2> QED
    BY <1>5, <2>1, <2>2 DEF RequestsAgree
<1>7. JobAgrees'
  <2>1. \A d \in Clients : pc'[d] = "s_job" => pc[d] = "s_job" /\ req'[d] = req[d]
    BY <1>0, <1>1
  <2> QED
    BY <1>5, <2>1 DEF JobAgrees
<1>8. CurrentAgrees'
  BY <1>1 DEF CurrentAgrees, Critical, ApplyPC, RevertPC
<1>9. \A q \in Runs : status'[q] \notin {"applying", "reverting"}
  <2>1. CASE pc[c] \notin PCSets
    BY <2>1, <1>3, NoWriterYet
  <2>2. CASE pc[c] \in PCSets
    <3>1. PICK s \in {"applied", "partial", "failed", "reverted"} :
            status' = [status EXCEPT ![req[c].run] = s]
      BY <2>2
    <3>2. req[c].run \in Runs
      BY <1>4, <2>2, Positions DEF RequestsAgree, PCSets
    <3>3. \A q \in Runs : q # req[c].run => status[q] \notin {"applying", "reverting"}
      BY <1>4, <2>2, <3>2 DEF OneWriter
    <3> QED
      BY <3>1, <3>2, <3>3 DEF TypeOK
  <2> QED
    BY <2>1, <2>2
<1>10. NoStrandedWriter' /\ OneWriter'
  BY <1>9 DEF NoStrandedWriter, OneWriter, In
<1> QED
  BY <1>2, <1>6, <1>7, <1>8, <1>10

\* Steps that neither claim nor settle a run leave the writers alone.
LEMMA WritersKept ==
  ASSUME IInv, phase' = phase,
         \A q \in Runs : status'[q] = status[q]
                         \/ (status[q] \notin {"applying", "reverting"}
                             /\ status'[q] \notin {"applying", "reverting"}),
         \A d \in Clients : pc[d] \in PCSets => pc'[d] = pc[d] /\ req'[d] = req[d]
  PROVE  NoStrandedWriter' /\ OneWriter'
<1> USE DEF IInv, Control
<1>1. NoStrandedWriter'
  <2>1. SUFFICES ASSUME phase = "serving", NEW r \in Runs, status'[r] \in {"applying", "reverting"}
                PROVE  \E d \in Clients : req'[d].run = r /\ pc'[d] \in ApplyPC \cup RevertPC
    BY DEF NoStrandedWriter, In
  <2>2. PICK d \in Clients : req[d].run = r /\ pc[d] \in ApplyPC \cup RevertPC
    BY <2>1 DEF NoStrandedWriter, In
  <2> QED
    BY <2>2 DEF PCSets
<1>2. OneWriter'
  BY DEF OneWriter
<1> QED
  BY <1>1, <1>2

\* A request moves outside the claimed part of the critical section.
LEMMA MoveStep ==
  ASSUME IInv, phase = "serving", NEW c \in Clients, pc[c] \notin PCSets,
         NEW to \in {"idle", "s_create", "a_lock", "r_lock", "a_check", "a_cas", "r_check", "r_cas"},
         pc' = [pc EXCEPT ![c] = to], UNCHANGED <<status, item, cur, job, phase>>,
         \A d \in Clients : d # c => req'[d] = req[d] /\ (lock' = d <=> lock = d),
         lock' = c <=> to \in Critical,
         to \notin {"idle", "s_create"} => req'[c].run \in Runs,
         to = "r_cas" => req'[c].saw \in {"applied", "partial"}
  PROVE  Control'
<1> USE DEF IInv, Control
<1>0. /\ pc'[c] = to
      /\ \A d \in Clients : d # c => pc'[d] = pc[d] /\ req'[d] = req[d]
  BY DEF TypeOK
<1>1. to \notin PCSets /\ to # "s_job"
  BY Positions DEF PCSets, ApplyPC, RevertPC
<1>2. ThreadsAgree'
  <2>1. \A d \in Clients : pc'[d] \in Critical <=> lock' = d
    BY <1>0 DEF ThreadsAgree
  <2> QED
    BY <2>1 DEF ThreadsAgree
<1>3. RequestsAgree'
  BY <1>0, <1>1 DEF RequestsAgree, PCSets
<1>4. JobAgrees'
  BY <1>0, <1>1 DEF JobAgrees
<1>5. CurrentAgrees'
  BY <1>0, <1>1 DEF CurrentAgrees, PCSets, ApplyPC, RevertPC
<1>6. NoStrandedWriter' /\ OneWriter'
  BY <1>0, WritersKept
<1> QED
  BY <1>2, <1>3, <1>4, <1>5, <1>6

\* Starting a run.
LEMMA StartControl ==
  ASSUME IInv, phase = "serving", NEW c \in Clients, Start(c)
  PROVE  Control'
<1> USE DEF IInv, Control
<1>1. CASE StartCheck(c)
  <2>1. pc[c] \notin PCSets
    BY <1>1, Positions DEF StartCheck, Goto, PCSets
  <2>2. lock # c /\ "s_create" \notin Critical
    BY <1>1, Positions DEF StartCheck, Goto, ThreadsAgree
  <2> QED
    BY <1>1, <2>1, <2>2, MoveStep DEF StartCheck, Goto
<1>2. CASE StartCreate(c)
  <2>1. PICK r \in Runs : /\ status[r] = "none" /\ status' = [status EXCEPT ![r] = "queued"]
                          /\ req' = [req EXCEPT ![c].run = r]
    BY <1>2 DEF StartCreate
  <2>2. /\ pc[c] = "s_create" /\ pc'[c] = "s_job" /\ req'[c].run = r
        /\ \A d \in Clients : d # c => pc'[d] = pc[d] /\ req'[d] = req[d]
        /\ UNCHANGED <<lock, phase, job, item, cur>>
    BY <1>2, <2>1 DEF TypeOK, StartCreate, Goto
  <2>3. status'[r] = "queued" /\ \A q \in Runs : q # r => status'[q] = status[q]
    BY <2>1 DEF TypeOK
  <2>4. ThreadsAgree'
    BY <2>2, Positions DEF ThreadsAgree
  <2>5. RequestsAgree'
    BY <2>1, <2>2, <2>3, Positions DEF RequestsAgree, Critical
  <2>6. job.at # "none" => job.run # r
    BY <2>1 DEF JobAgrees, TypeOK
  <2>7. \A d \in Clients : pc[d] = "s_job" => req[d].run # r
    BY <2>1 DEF RequestsAgree
  <2>8. JobAgrees'
    BY <2>2, <2>3, <2>6, <2>7 DEF JobAgrees
  <2>9. CurrentAgrees'
    BY <2>2 DEF CurrentAgrees
  <2>10. NoStrandedWriter' /\ OneWriter'
    BY <2>1, <2>2, <2>3, Positions, WritersKept DEF PCSets
  <2> QED
    BY <2>4, <2>5, <2>8, <2>9, <2>10
<1>3. CASE StartJob(c)
  <2> DEFINE r == req[c].run
  <2>1. /\ pc[c] = "s_job" /\ pc'[c] = "idle" /\ req'[c] = Idle
        /\ \A d \in Clients : d # c => pc'[d] = pc[d] /\ req'[d] = req[d]
        /\ UNCHANGED <<lock, phase, item, cur>>
    BY <1>3 DEF TypeOK, StartJob, Goto
  <2>2. r \in Runs /\ status[r] = "queued"
    BY <2>1 DEF RequestsAgree
  <2>3. \A q \in Runs : q # r => status'[q] = status[q]
    BY <1>3 DEF TypeOK, StartJob
  <2>4. status'[r] \in {"queued", "failed"}
    BY <1>3, <2>2 DEF TypeOK, StartJob
  <2>5. \A d \in Clients : d # c /\ pc[d] = "s_job" => req[d].run # r
    BY <2>1 DEF JobAgrees
  <2>6. ThreadsAgree'
    BY <2>1, Positions DEF ThreadsAgree
  <2>7. RequestsAgree'
    BY <2>1, <2>2, <2>3, <2>5 DEF RequestsAgree, ApplyPC, RevertPC
  <2>8. JobAgrees'
    <3>1. CASE job = NoJob /\ job' = [run |-> r, at |-> "claim"] /\ status' = status
      BY <3>1, <2>1, <2>2, <2>5 DEF JobAgrees
    <3>2. CASE UNCHANGED job
      BY <3>2, <2>1, <2>2, <2>3, <2>5 DEF JobAgrees
    <3> QED
      BY <1>3, <3>1, <3>2 DEF StartJob
  <2>9. CurrentAgrees'
    BY <2>1 DEF CurrentAgrees
  <2>10. NoStrandedWriter' /\ OneWriter'
    BY <2>1, <2>2, <2>3, <2>4, Positions, WritersKept DEF PCSets
  <2> QED
    BY <2>6, <2>7, <2>8, <2>9, <2>10
<1> QED
  BY <1>1, <1>2, <1>3 DEF Start

\* The proposal job.
LEMMA JobControl ==
  ASSUME IInv, Job
  PROVE  Control'
<1> USE DEF IInv, Control
<1>0. job.at # "none" /\ job.run \in Runs /\ phase = "serving"
  BY DEF Job, JobClaim, JobCollect, JobFail, JobRaise, JobStore, JobPublish, JobAgrees
<1>1. status[job.run] \in {"queued", "running"} /\ status'[job.run] \notin {"applying", "reverting"}
  BY <1>0 DEF Job, JobClaim, JobCollect, JobFail, JobRaise, JobStore, JobPublish, JobAgrees, TypeOK
<1>2. \A q \in Runs : q # job.run => status'[q] = status[q]
  BY <1>0 DEF Job, JobClaim, JobCollect, JobFail, JobRaise, JobStore, JobPublish, TypeOK
<1>3. UNCHANGED <<lock, phase, pc, req, cur>>
  BY DEF Job, JobClaim, JobCollect, JobFail, JobRaise, JobStore, JobPublish
<1>4. \A q \in Runs : q # job.run => item'[q] = item[q]
  BY <1>0 DEF Job, JobClaim, JobCollect, JobFail, JobRaise, JobStore, JobPublish, TypeOK
<1>5. \A c \in Clients : pc[c] \in PCSets \cup {"s_job"} => req[c].run # job.run
  BY <1>0, <1>1 DEF RequestsAgree, JobAgrees, PCSets
<1>6. ThreadsAgree'
  BY <1>0, <1>3 DEF ThreadsAgree
<1>7. RequestsAgree'
  BY <1>2, <1>3, <1>5 DEF RequestsAgree, PCSets, ApplyPC, RevertPC
<1>8. JobAgrees'
  <2>1. \/ job' = NoJob
        \/ /\ job'.run = job.run /\ job'.at \in {"collect", "ask", "publish"}
           /\ status'[job.run] = "running"
    BY <1>0 DEF Job, JobClaim, JobCollect, JobFail, JobRaise, JobStore, JobPublish, JobEnds,
                JobAgrees, TypeOK
  <2> QED
    BY <1>0, <1>3, <2>1 DEF JobAgrees, NoJob
<1>9. CurrentAgrees'
  <2>1. \A c \in Clients : pc[c] \in PCSets => item'[req[c].run] = item[req[c].run]
    BY <1>4, <1>5 DEF RequestsAgree, PCSets, ApplyPC, RevertPC
  <2> QED
    BY <1>3, <2>1 DEF CurrentAgrees, PCSets, ApplyPC
<1>10. NoStrandedWriter' /\ OneWriter'
  BY <1>1, <1>2, <1>3, WritersKept
<1> QED
  BY <1>6, <1>7, <1>8, <1>9, <1>10

\* Applying: up to the claim, the claim itself, and the work under it.
LEMMA ApplyEntryControl ==
  ASSUME IInv, phase = "serving", NEW c \in Clients,
         ApplyRead(c) \/ ApplyLock(c) \/ ApplyRefuse(c) \/ ApplyCheck(c) \/ ApplyLost(c)
  PROVE  Control'
<1> USE DEF IInv, Control
<1>1. CASE ApplyRead(c)
  <2>1. pc[c] = "idle" /\ pc[c] \notin PCSets /\ lock # c /\ "a_lock" \notin Critical
    BY <1>1, Positions DEF ApplyRead, Goto, ThreadsAgree, PCSets
  <2>2. PICK r \in Runs : \E S \in SUBSET Files :
          req' = [req EXCEPT ![c] = [run |-> r, saw |-> status[r], chosen |-> S]]
    BY <1>1 DEF ApplyRead
  <2>3. req'[c].run \in Runs /\ \A d \in Clients : d # c => req'[d] = req[d]
    BY <2>2 DEF TypeOK
  <2> QED
    BY <1>1, <2>1, <2>3, MoveStep DEF ApplyRead, Goto
<1>2. CASE ApplyLock(c)
  <2>1. pc[c] = "a_lock" /\ pc[c] \notin PCSets /\ "a_check" \in Critical
    BY <1>2, Positions DEF ApplyLock, Acquire, Goto, PCSets, Critical
  <2>2. req[c].run \in Runs
    BY <2>1 DEF RequestsAgree
  <2> QED
    BY <1>2, <2>1, <2>2, NamesAssumption, MoveStep DEF ApplyLock, Acquire, Goto
<1>3. CASE ApplyRefuse(c) \/ ApplyLost(c)
  <2>1. pc[c] \in Critical /\ pc[c] \notin PCSets
    BY <1>3, Positions DEF ApplyRefuse, ApplyLost, Critical, PCSets
  <2> QED
    BY <1>3, <2>1, ReleaseStep DEF ApplyRefuse, ApplyLost
<1>4. CASE ApplyCheck(c)
  <2>1. pc[c] = "a_check" /\ pc[c] \notin PCSets /\ "a_cas" \in Critical /\ lock = c
    BY <1>4, Positions DEF ApplyCheck, Goto, PCSets, Critical, ThreadsAgree
  <2>2. req[c].run \in Runs
    BY <2>1 DEF RequestsAgree
  <2> QED
    BY <1>4, <2>1, <2>2, MoveStep DEF ApplyCheck, Goto
<1> QED
  BY <1>1, <1>2, <1>3, <1>4

\* A claim: the lock holder, before any other run is being written, takes its run.
LEMMA ClaimStep ==
  ASSUME IInv, phase = "serving", NEW c \in Clients, pc[c] \in {"a_cas", "r_cas"}, NEW to, NEW s,
         \/ pc[c] = "a_cas" /\ to = "a_mark" /\ s = "applying" /\ status[req[c].run] = "proposed"
         \/ pc[c] = "r_cas" /\ to = "r_next" /\ s = "reverting"
            /\ status[req[c].run] \in {"applied", "partial"},
         status' = [status EXCEPT ![req[c].run] = s], pc' = [pc EXCEPT ![c] = to],
         UNCHANGED <<lock, req, item, job, phase>>
  PROVE  Control'
<1> USE DEF IInv, Control
<1> DEFINE r == req[c].run
<1>1. pc[c] \in Critical /\ pc[c] \notin PCSets /\ to \in PCSets /\ to \in Critical
  BY Positions DEF Critical, PCSets, ApplyPC, RevertPC
<1>2. r \in Runs
  BY DEF RequestsAgree
<1>3. /\ pc'[c] = to /\ \A d \in Clients : d # c => pc'[d] = pc[d] /\ pc[d] \notin Critical
      /\ lock = c
  BY <1>1, OthersOutside DEF TypeOK, ThreadsAgree
<1>4. status'[r] = s /\ \A q \in Runs : q # r => status'[q] = status[q]
  BY <1>2 DEF TypeOK
<1>5. ThreadsAgree'
  BY <1>1, <1>3 DEF ThreadsAgree
<1>6. RequestsAgree'
  <2>1. SUFFICES ASSUME NEW d \in Clients
                PROVE  /\ pc'[d] \notin {"idle", "s_create"} => req[d].run \in Runs
                       /\ pc'[d] = "s_job" => status'[req[d].run] = "queued"
                       /\ pc'[d] \in ApplyPC => status'[req[d].run] = "applying"
                       /\ pc'[d] \in RevertPC => status'[req[d].run] = "reverting"
                       /\ pc'[d] \in RevertPC \cup {"r_cas"} => req[d].saw \in {"applied", "partial"}
    BY DEF RequestsAgree
  <2>2. CASE d = c
    BY <1>2, <1>3, <1>4, <2>2 DEF RequestsAgree, ApplyPC, RevertPC
  <2>3. CASE d # c
    <3>1. pc'[d] = pc[d] /\ pc[d] \notin ApplyPC \cup RevertPC \cup {"r_cas"}
      BY <1>3, <2>3 DEF Critical
    <3>2. pc[d] = "s_job" => status[req[d].run] = "queued" /\ req[d].run \in Runs
      BY DEF RequestsAgree
    <3>3. pc[d] = "s_job" => status'[req[d].run] = "queued"
      BY <1>4, <3>2
    <3> QED
      BY <3>1, <3>3 DEF RequestsAgree
  <2> QED
    BY <2>2, <2>3
<1>7. JobAgrees'
  <2>1. job.at \in {"claim", "collect", "ask", "publish"} => status'[job.run] = status[job.run]
    BY <1>4 DEF JobAgrees
  <2>2. \A d \in Clients : pc'[d] = "s_job" => pc[d] = "s_job"
    BY <1>3 DEF ApplyPC, RevertPC
  <2> QED
    BY <2>1, <2>2 DEF JobAgrees
<1>8. CurrentAgrees'
  BY <1>3 DEF CurrentAgrees, Critical, ApplyPC, RevertPC
<1>9. \A q \in Runs : q # r => status'[q] \notin {"applying", "reverting"}
  BY <1>1, <1>4, NoWriterYet
<1>10. OneWriter'
  BY <1>9 DEF OneWriter
<1>11. NoStrandedWriter'
  BY <1>1, <1>3, <1>9 DEF NoStrandedWriter, In, PCSets
<1> QED
  BY <1>5, <1>6, <1>7, <1>8, <1>10, <1>11

LEMMA ApplyWorkControl ==
  ASSUME IInv, phase = "serving", NEW c \in Clients,
         \/ ApplyClaim(c) \/ ApplyMark(c) \/ ApplyListed(c) \/ ApplyItem(c) \/ ApplyBackup(c)
         \/ ApplyRecord(c) \/ ApplyRecheck(c) \/ ApplyReplace(c) \/ ApplyVerify(c) \/ ApplyFinish(c)
  PROVE  Control'
<1> USE DEF IInv, Control
<1> DEFINE r == req[c].run
<1>1. CASE ApplyClaim(c)
  BY <1>1, ClaimStep DEF ApplyClaim
<1>2. CASE ApplyFinish(c)
  <2>1. pc[c] \in Critical /\ pc[c] \in PCSets
    BY <1>2, Positions DEF ApplyFinish, PCSets, ApplyPC
  <2>2. ApplyVerdict(r) \in {"applied", "partial", "failed", "reverted"}
    BY DEF ApplyVerdict
  <2> QED
    BY <1>2, <2>1, <2>2, ReleaseStep DEF ApplyFinish
<1>3. CASE \/ ApplyMark(c) \/ ApplyListed(c) \/ ApplyItem(c) \/ ApplyBackup(c)
           \/ ApplyRecord(c) \/ ApplyRecheck(c) \/ ApplyReplace(c) \/ ApplyVerify(c)
  <2>1. pc[c] \in ApplyPC /\ pc[c] \in Critical /\ r \in Runs
    BY <1>3, Positions DEF ApplyMark, ApplyListed, ApplyItem, ApplyBackup, ApplyRecord, Goto,
       ApplyRecheck, ApplyReplace, ApplyVerify, ApplyPC, RequestsAgree
  <2>2. PICK to \in ApplyPC : pc' = [pc EXCEPT ![c] = to]
    <3>1. CASE ApplyMark(c) \/ ApplyListed(c) \/ ApplyRecord(c)
      BY <3>1, <2>1 DEF TypeOK, ApplyMark, ApplyListed, ApplyRecord, Goto, ApplyPC
    <3>2. CASE ApplyItem(c) \/ ApplyBackup(c)
      BY <3>2 DEF ApplyItem, ApplyBackup, Skip, NextItem, ApplyPC
    <3>3. CASE ApplyRecheck(c) \/ ApplyReplace(c) \/ ApplyVerify(c)
      BY <3>3 DEF ApplyRecheck, ApplyReplace, ApplyVerify, Skip, NextItem, ApplyPC
    <3> QED
      BY <1>3, <3>1, <3>2, <3>3
  <2>3. UNCHANGED <<status, lock, req, job, phase>>
    BY <1>3 DEF ApplyMark, ApplyListed, ApplyItem, ApplyBackup, ApplyRecord, Goto,
       ApplyRecheck, ApplyReplace, ApplyVerify
  <2>4. ThreadsAgree' /\ RequestsAgree' /\ JobAgrees' /\ NoStrandedWriter' /\ OneWriter'
    BY <2>1, <2>2, <2>3, WorkStep
  <2>5. \A d \in Clients : d # c => pc'[d] \notin Critical
    BY <2>1, <2>2, OthersOutside DEF TypeOK
  <2>6. pc'[c] \in {"a_backup", "a_record", "a_recheck", "a_replace", "a_verify"}
          => cur' \in Files /\ item'[r][cur'].plan # NoPlan
    <3>1. CASE ApplyMark(c) \/ ApplyListed(c)
      BY <3>1 DEF TypeOK, ApplyMark, ApplyListed, Goto
    <3>2. CASE ApplyItem(c)
      <4>1. PICK f \in Files : Skip(c, f) \/ (item[r][f].plan # NoPlan /\ cur' = f /\ UNCHANGED item)
        BY <3>2 DEF TypeOK, ApplyItem
      <4> QED
        BY <4>1 DEF TypeOK, Skip, NextItem
    <3>3. CASE ApplyRecord(c)
      <4>1. cur \in Files /\ item[r][cur].plan # NoPlan
        BY <3>3 DEF ApplyRecord, Goto, CurrentAgrees
      <4>2. item'[r][cur].plan = item[r][cur].plan
        BY <2>1, <3>3, <4>1 DEF ApplyRecord, UpdateItem, TypeOK, Item
      <4> QED
        BY <3>3, <4>1, <4>2 DEF ApplyRecord
    <3>4. CASE ApplyBackup(c) \/ ApplyRecheck(c) \/ ApplyReplace(c) \/ ApplyVerify(c)
      <4>1. cur \in Files /\ item[r][cur].plan # NoPlan
        BY <3>4 DEF ApplyBackup, ApplyRecheck, ApplyReplace, ApplyVerify, CurrentAgrees
      <4>2. pc'[c] = "a_next" \/ UNCHANGED <<item, cur>>
        BY <3>4 DEF TypeOK, ApplyBackup, ApplyRecheck, ApplyReplace, ApplyVerify, Skip, NextItem
      <4> QED
        BY <4>1, <4>2
    <3> QED
      BY <1>3, <3>1, <3>2, <3>3, <3>4
  <2>7. CurrentAgrees'
    BY <2>1, <2>2, <2>3, <2>5, <2>6 DEF CurrentAgrees, Critical, ApplyPC, RevertPC
  <2> QED
    BY <2>4, <2>7
<1> QED
  BY <1>1, <1>2, <1>3

LEMMA RevertControl ==
  ASSUME IInv, phase = "serving", NEW c \in Clients, Revert(c)
  PROVE  Control'
<1> USE DEF IInv, Control
<1> DEFINE r == req[c].run
<1>1. CASE RevertRead(c)
  <2>1. pc[c] = "idle" /\ pc[c] \notin PCSets /\ lock # c /\ "r_lock" \notin Critical
    BY <1>1, Positions DEF RevertRead, Goto, ThreadsAgree, PCSets
  <2>2. PICK q \in Runs : req' = [req EXCEPT ![c] = [run |-> q, saw |-> status[q], chosen |-> {}]]
    BY <1>1 DEF RevertRead
  <2>3. req'[c].run \in Runs /\ \A d \in Clients : d # c => req'[d] = req[d]
    BY <2>2 DEF TypeOK
  <2> QED
    BY <1>1, <2>1, <2>3, MoveStep DEF RevertRead, Goto
<1>2. CASE RevertLock(c)
  <2>1. pc[c] = "r_lock" /\ pc[c] \notin PCSets /\ "r_check" \in Critical
    BY <1>2, Positions DEF RevertLock, Acquire, Goto, PCSets, Critical
  <2>2. r \in Runs
    BY <2>1 DEF RequestsAgree
  <2> QED
    BY <1>2, <2>1, <2>2, NamesAssumption, MoveStep DEF RevertLock, Acquire, Goto
<1>3. CASE RevertRefuse(c)
  <2>1. pc[c] \in Critical /\ pc[c] \notin PCSets
    BY <1>3, Positions DEF RevertRefuse, Critical, PCSets
  <2> QED
    BY <1>3, <2>1, ReleaseStep DEF RevertRefuse
<1>4. CASE RevertCheck(c)
  <2>1. pc[c] = "r_check" /\ pc[c] \notin PCSets /\ "r_cas" \in Critical /\ lock = c
    BY <1>4, Positions DEF RevertCheck, Goto, PCSets, Critical, ThreadsAgree
  <2>2. r \in Runs /\ req[c].saw \in {"applied", "partial"}
    BY <1>4, <2>1 DEF RequestsAgree, RevertCheck, RevertAllowed
  <2> QED
    BY <1>4, <2>1, <2>2, MoveStep DEF RevertCheck, Goto
<1>5. CASE RevertClaim(c)
  <2>1. CASE status[r] \in {"applied", "partial"}
    BY <1>5, <2>1, ClaimStep DEF RevertClaim
  <2>2. CASE status[r] \notin {"applied", "partial"}
    <3>1. pc[c] \in Critical /\ pc[c] \notin PCSets
      BY <1>5, Positions DEF RevertClaim, Critical, PCSets
    <3> QED
      BY <1>5, <2>2, <3>1, ReleaseStep DEF RevertClaim
  <2> QED
    BY <2>1, <2>2
<1>6. CASE RevertItem(c) \/ RevertWrite(c) \/ RevertCommit(c)
  <2>1. pc[c] \in RevertPC /\ pc[c] \in Critical
    BY <1>6, Positions DEF RevertItem, RevertWrite, RevertCommit, RevertPC
  <2>2. PICK to \in RevertPC : pc' = [pc EXCEPT ![c] = to]
    BY <1>6 DEF RevertItem, RevertWrite, RevertCommit, NextItem, RevertPC
  <2>3. UNCHANGED <<status, lock, req, job, phase>>
    BY <1>6 DEF RevertItem, RevertWrite, RevertCommit
  <2>4. ThreadsAgree' /\ RequestsAgree' /\ JobAgrees' /\ NoStrandedWriter' /\ OneWriter'
    BY <2>1, <2>2, <2>3, WorkStep
  <2>5. \A d \in Clients : d # c => pc'[d] \notin Critical
    BY <2>1, <2>2, OthersOutside DEF TypeOK
  <2>6. pc'[c] \in {"r_write", "r_commit"} => cur' \in Files
    <3>1. CASE RevertItem(c)
      BY <3>1 DEF TypeOK, RevertItem, NextItem
    <3>2. CASE RevertWrite(c)
      BY <3>2 DEF TypeOK, RevertWrite, NextItem, CurrentAgrees
    <3>3. CASE RevertCommit(c)
      BY <3>3 DEF TypeOK, RevertCommit, NextItem
    <3> QED
      BY <1>6, <3>1, <3>2, <3>3
  <2>7. CurrentAgrees'
    BY <2>1, <2>2, <2>5, <2>6, Positions DEF TypeOK, CurrentAgrees, Critical, ApplyPC, RevertPC
  <2> QED
    BY <2>4, <2>7
<1>7. CASE RevertFinish(c)
  <2>1. pc[c] \in Critical /\ pc[c] \in PCSets /\ pc[c] \in RevertPC
    BY <1>7, Positions DEF RevertFinish, PCSets, RevertPC
  <2>2. req[c].saw \in {"applied", "partial"}
    BY <2>1 DEF RequestsAgree
  <2>3. RevertVerdict(r, req[c].saw) \in {"applied", "partial", "failed", "reverted"}
    BY <2>2 DEF RevertVerdict
  <2> QED
    BY <1>7, <2>1, <2>3, ReleaseStep DEF RevertFinish
<1> QED
  BY <1>1, <1>2, <1>3, <1>4, <1>5, <1>6, <1>7 DEF Revert

LEMMA EnvironmentControl ==
  ASSUME IInv, UserEdit \/ Crash
  PROVE  Control'
<1> USE DEF IInv, Control
<1>1. CASE UserEdit
  <2>1. UNCHANGED <<status, item, phase, lock, pc, req, cur, job>>
    BY <1>1 DEF UserEdit
  <2> QED
    BY <2>1 DEF ThreadsAgree, RequestsAgree, JobAgrees, CurrentAgrees, NoStrandedWriter, OneWriter, In
<1>2. CASE Crash
  <2>1. /\ phase' = "recovering" /\ lock' = Free /\ job' = NoJob /\ status' = status
        /\ \A c \in Clients : pc'[c] = "idle"
    BY <1>2 DEF Crash, JobEnds
  <2>2. ThreadsAgree'
    BY <2>1, Positions, NamesAssumption DEF ThreadsAgree
  <2>3. RequestsAgree' /\ CurrentAgrees'
    BY <2>1 DEF RequestsAgree, CurrentAgrees, ApplyPC, RevertPC
  <2>4. JobAgrees'
    BY <2>1 DEF JobAgrees, NoJob
  <2>5. NoStrandedWriter' /\ OneWriter'
    BY <2>1 DEF NoStrandedWriter, OneWriter
  <2> QED
    BY <2>2, <2>3, <2>4, <2>5
<1> QED
  BY <1>1, <1>2

\* Recovery only ever settles runs, and serves again once all are settled.
LEMMA RecoverControl ==
  ASSUME IInv, Recover
  PROVE  Control'
<1> USE DEF IInv, Control
<1>1. /\ job = NoJob /\ lock = Free /\ \A c \in Clients : pc[c] = "idle"
      /\ UNCHANGED <<job, lock, pc, req>>
  BY DEF Recover, ThreadsAgree, RecoverDraft, RecoverApplyItem, RecoverApplyDone,
         RecoverRevertItem, RecoverRevertDone, RecoverDone
<1>2. ThreadsAgree'
  BY <1>1 DEF ThreadsAgree
<1>3. RequestsAgree' /\ CurrentAgrees'
  BY <1>1 DEF RequestsAgree, CurrentAgrees, ApplyPC, RevertPC
<1>4. JobAgrees'
  BY <1>1 DEF JobAgrees, NoJob
<1>5. \A q \in Runs : status'[q] \in {"applying", "reverting"} => status'[q] = status[q]
  <2>1. CASE RecoverDraft
    BY <2>1 DEF RecoverDraft, TypeOK
  <2>2. CASE RecoverApplyDone
    BY <2>2 DEF RecoverApplyDone, ApplyVerdict, TypeOK
  <2>3. CASE RecoverRevertDone
    BY <2>3 DEF RecoverRevertDone, RevertVerdict, TypeOK
  <2>4. CASE RecoverApplyItem \/ RecoverRevertItem \/ RecoverDone
    BY <2>4 DEF RecoverApplyItem, RecoverRevertItem, RecoverDone
  <2> QED
    BY <2>1, <2>2, <2>3, <2>4 DEF Recover
<1>6. OneWriter'
  BY <1>5 DEF OneWriter
<1>7. NoStrandedWriter'
  <2>1. phase' = "serving" => ActiveRuns = {} /\ status' = status
    BY DEF Recover, RecoverDraft, RecoverApplyItem, RecoverApplyDone,
           RecoverRevertItem, RecoverRevertDone, RecoverDone
  <2> QED
    BY <2>1 DEF NoStrandedWriter, In, ActiveRuns, ACTIVE
<1> QED
  BY <1>2, <1>3, <1>4, <1>6, <1>7

-----------------------------------------------------------------------------
(* The theorems.                                                           *)

\* Only a crash and recovery move the server's phase.
LEMMA PhaseKept ==
  ASSUME NEW c \in Clients, Start(c) \/ Apply(c) \/ Revert(c)
  PROVE  UNCHANGED phase
<1>1. CASE Start(c)
  BY <1>1 DEF Start, StartCheck, StartCreate, StartJob
<1>2. CASE Apply(c)
  BY <1>2 DEF Apply, ApplyRead, ApplyLock, Acquire, ApplyRefuse, ApplyCheck, ApplyClaim, ApplyLost,
     ApplyMark, ApplyListed, ApplyItem, ApplyBackup, ApplyRecord, ApplyRecheck, ApplyReplace,
     ApplyVerify, ApplyFinish
<1>3. CASE Revert(c)
  BY <1>3 DEF Revert, RevertRead, RevertLock, Acquire, RevertRefuse, RevertCheck, RevertClaim,
     RevertItem, RevertWrite, RevertCommit, RevertFinish
<1> QED
  BY <1>1, <1>2, <1>3

LEMMA InitIInv == Init => IInv
<1> SUFFICES ASSUME Init
             PROVE  IInv
  OBVIOUS
<1>1. TypeOK
  <2>1. Blank \in Item
    BY DEF Blank, Item, ItemState, Hash
  <2>2. /\ status \in [Runs -> RunState] /\ item \in [Runs -> [Files -> Item]]
        /\ backup \in [Runs -> [Files -> Hash]]
    BY <2>1 DEF Init, RunState, Hash
  <2>3. /\ pc \in [Clients -> PCs] /\ job = NoJob
        /\ req \in [Clients -> [run: Runs \cup {0}, saw: RunState, chosen: SUBSET Files]]
    BY DEF Init, PCs, Idle, RunState
  <2>4. edits \in 0..MaxEdits /\ crashes \in 0..MaxCrashes
    BY RunsAssumption DEF Init
  <2>5. job \in [run: Runs \cup {0}, at: {"none", "claim", "collect", "ask", "publish"}]
    BY <2>3 DEF NoJob
  <2>6. /\ file \in [Files -> Hash] /\ snap \in [Files -> Hash]
        /\ writer \in [Files -> Runs \cup {0}]
    BY DEF Init, Hash
  <2> QED
    BY <2>2, <2>3, <2>4, <2>5, <2>6 DEF Init, TypeOK
<1>2. Control
  <2>1. ThreadsAgree
    BY Positions, NamesAssumption DEF Init, ThreadsAgree
  <2>2. RequestsAgree /\ CurrentAgrees
    BY DEF Init, RequestsAgree, CurrentAgrees, ApplyPC, RevertPC
  <2>3. JobAgrees
    BY DEF Init, JobAgrees, NoJob
  <2>4. NoStrandedWriter /\ OneWriter
    BY DEF Init, NoStrandedWriter, OneWriter, In
  <2> QED
    BY <2>1, <2>2, <2>3, <2>4 DEF Control
<1> QED
  BY <1>1, <1>2 DEF IInv

LEMMA StepIInv == IInv /\ [Next]_vars => IInv'
<1> SUFFICES ASSUME IInv, [Next]_vars
             PROVE  IInv'
  OBVIOUS
<1>0. TypeOK
  BY DEF IInv
<1>1. CASE \E c \in Clients : Request(c)
  <2>1. PICK c \in Clients : Request(c)
    BY <1>1
  <2>2. phase = "serving"
    BY <2>1 DEF Request
  <2>3. CASE Start(c)
    BY <1>0, <2>2, <2>3, PhaseKept, StartType, StartControl DEF IInv
  <2>4. CASE Apply(c)
    <3>1. TypeOK'
      BY <2>4, PhaseKept, ApplyEntryType, ApplyWorkType DEF Apply, IInv
    <3>2. Control'
      BY <2>2, <2>4, ApplyEntryControl, ApplyWorkControl DEF Apply
    <3> QED
      BY <3>1, <3>2 DEF IInv
  <2>5. CASE Revert(c)
    BY <2>2, <2>5, PhaseKept, RevertType, RevertControl DEF IInv
  <2> QED
    BY <2>1, <2>3, <2>4, <2>5 DEF Request
<1>2. CASE Job
  BY <1>0, <1>2, JobType, JobControl DEF IInv
<1>3. CASE UserEdit \/ Crash
  BY <1>0, <1>3, EnvironmentType, EnvironmentControl DEF IInv
<1>4. CASE Recover
  BY <1>0, <1>4, RecoverType, RecoverControl DEF IInv
<1>5. CASE UNCHANGED vars
  BY <1>5 DEF vars, IInv, TypeOK, Control, ThreadsAgree, RequestsAgree, JobAgrees, CurrentAgrees,
              NoStrandedWriter, OneWriter, In, Having
<1> QED
  BY <1>1, <1>2, <1>3, <1>4, <1>5 DEF Next

\* Every variable keeps its type, for any number of runs, files and threads.
THEOREM TypeCorrect == Spec => []TypeOK
<1>1. IInv => TypeOK
  BY DEF IInv
<1> QED
  BY <1>1, InitIInv, StepIInv, PTL DEF Spec

\* Where a thread is and what the rows say agree at every step: the lock holder
\* alone is in the critical section, and the run it works on has its status.
THEOREM ControlHolds == Spec => []Control
<1>1. IInv => Control
  BY DEF IInv
<1> QED
  BY <1>1, InitIInv, StepIInv, PTL DEF Spec

\* At most one run is ever being applied or reverted: the lock together with
\* the check under it and the compare-and-set, across crashes and recovery.
THEOREM OneWriterAlways == Spec => []OneWriter
<1>1. IInv => OneWriter
  BY DEF IInv, Control
<1> QED
  BY <1>1, InitIInv, StepIInv, PTL DEF Spec

\* While the server serves, a run that is being applied or reverted has a live
\* request at work on it, so none is left half way by a crash or a handler.
THEOREM NoStrandedWriterAlways == Spec => []NoStrandedWriter
<1>1. IInv => NoStrandedWriter
  BY DEF IInv, Control
<1> QED
  BY <1>1, InitIInv, StepIInv, PTL DEF Spec

-----------------------------------------------------------------------------
(* Rows is preserved, on top of Control: what the items say, given the runs *)
(* and the threads.                                                         *)

Settled == {"applied", "partial", "reverting", "reverted"}

\* The three facts about one client.
ClientRows(c) == ListAgrees(c) /\ FileAgrees(c) /\ SawAgrees(c)

\* A step of somebody else who leaves the lock holder's list, its run's rows
\* and backups and, the user apart, its file alone.
LEMMA Undisturbed ==
  ASSUME IInv, Rows, NEW d \in Clients, pc'[d] = pc[d], req'[d] = req[d],
         req[d].run \in Runs => item'[req[d].run] = item[req[d].run] /\ backup' = backup,
         pc[d] \in PCSets => UNCHANGED <<todo, cur>>,
         \A q \in Runs : status[q] \in Settled => status'[q] \in Settled,
         pc[d] \in PCSets => \/ UNCHANGED <<file, writer, touched>>
                             \/ UserEdit
  PROVE  ClientRows(d)'
<1> USE DEF IInv, Control, Rows
<1>1. pc[d] \in PCSets \cup {"r_lock", "r_check", "r_cas"} => req[d].run \in Runs
  BY DEF RequestsAgree, PCSets, ApplyPC, RevertPC
<1>2. ListAgrees(d)'
  BY <1>1 DEF ListAgrees, Having, PCSets, ApplyPC
<1>3. FileAgrees(d)'
  <2>1. CASE pc[d] \notin PCSets
    BY <2>1 DEF FileAgrees, PCSets, ApplyPC, RevertPC
  <2>2. CASE pc[d] \in PCSets /\ UNCHANGED <<file, writer, touched>>
    BY <1>1, <2>2 DEF FileAgrees
  <2>3. CASE pc[d] \in PCSets /\ UserEdit
    <3>1. PICK f \in Files, x \in Hash :
            /\ file' = [file EXCEPT ![f] = x] /\ writer' = [writer EXCEPT ![f] = 0]
            /\ touched' = (touched \/ f = cur)
      BY <2>3 DEF UserEdit
    <3>2. cur' = cur
      BY <2>3
    <3>3. touched => touched'
      BY <3>1
    <3>4. CASE pc[d] \in {"a_mark", "a_next", "r_next", "a_backup"}
      BY <3>4 DEF FileAgrees
    <3>5. CASE pc[d] \notin {"a_mark", "a_next", "r_next", "a_backup"}
      <4>1. cur \in Files
        BY <2>3, <3>5 DEF CurrentAgrees, PCSets, ApplyPC, RevertPC
      <4>2. file'[cur] = file[cur] \/ touched'
        BY <3>1, <4>1 DEF TypeOK
      <4>3. writer[cur] = 0 => writer'[cur] = 0
        BY <3>1, <4>1 DEF TypeOK
      <4> QED
        BY <1>1, <2>3, <3>2, <3>3, <4>2, <4>3 DEF FileAgrees
    <3> QED
      BY <3>4, <3>5
  <2> QED
    BY <2>1, <2>2, <2>3
<1>4. SawAgrees(d)'
  BY <1>1 DEF SawAgrees, Having, Settled, PCSets
<1> QED
  BY <1>2, <1>3, <1>4 DEF ClientRows

\* A step of the lock holder, seen by a client outside of the critical section:
\* rows of settled runs only change from applied to reverted.
LEMMA Bystander ==
  ASSUME IInv, Rows, NEW c \in Clients, pc[c] \in Critical,
         NEW d \in Clients, d # c, pc'[d] = pc[d], req'[d] = req[d],
         \A q \in Runs : status[q] \in Settled => status'[q] \in Settled,
         \A q \in Runs, f \in Files : status[q] \in Settled =>
           \/ item'[q][f] = item[q][f]
           \/ item[q][f].status = "applied" /\ item'[q][f].status = "reverted"
  PROVE  ClientRows(d)'
<1> USE DEF IInv, Control, Rows
<1>1. pc[d] \notin Critical
  BY OthersOutside
<1>2. ListAgrees(d)' /\ FileAgrees(d)'
  BY <1>1, Positions DEF ListAgrees, FileAgrees, ApplyPC, RevertPC, Critical
<1>3. SawAgrees(d)'
  <2>1. pc[d] = "r_lock" => req[d].run \in Runs
    BY DEF RequestsAgree
  <2>2. pc[d] \notin {"r_check", "r_cas"} \cup RevertPC
    BY <1>1, Positions DEF Critical
  <2>3. SUFFICES ASSUME pc[d] = "r_lock", req[d].saw \in {"applied", "partial"}
                PROVE  /\ status'[req[d].run] \in Settled
                       /\ req[d].saw = "applied" =>
                            \A f \in Files : item'[req[d].run][f].approvedAt
                              => item'[req[d].run][f].status \in {"applied", "reverted"}
    BY <2>2 DEF SawAgrees, Settled
  <2>4. SawAgrees(d)
    OBVIOUS
  <2>5. status[req[d].run] \in Settled
    BY <2>3, <2>4 DEF SawAgrees, Settled
  <2>6. req[d].saw = "applied" => \A f \in Files : item[req[d].run][f].approvedAt
                                     => item[req[d].run][f].status \in {"applied", "reverted"}
    BY <2>3, <2>4 DEF SawAgrees
  <2> QED
    BY <2>1, <2>3, <2>5, <2>6
<1> QED
  BY <1>2, <1>3 DEF ClientRows

\* How a status moves while the rows stay: within the drafts or out of them,
\* out of "applying" once no row is left to be judged, in or out of "reverting".
StatusMove(q) ==
  \/ status'[q] = status[q]
  \/ status[q] \in Draft /\ status'[q] \in Draft \cup {"failed", "applying"}
  \/ status[q] \notin Draft /\ status'[q] = "reverting" /\ Having(q, "approved") = {}
  \/ status[q] = "applying" /\ Having(q, "approved") = {} /\ status'[q] = ApplyVerdict(q)
  \/ /\ status[q] = "reverting"
     /\ \E before \in {"applied", "partial", "failed"} :
          /\ status'[q] = RevertVerdict(q, before)
          /\ before = "applied" => \A f \in Files : item[q][f].approvedAt
                                     => item[q][f].status \in {"applied", "reverted"}
          /\ before = "failed" => \A f \in Files : ~item[q][f].appliedAt

LEMMA StatusRows ==
  ASSUME IInv, Rows, item' = item, \A q \in Runs : StatusMove(q)
  PROVE  RowsAgree' /\ VerdictAgrees'
<1> USE DEF IInv, Rows
<1>1. ASSUME NEW q \in Runs, NEW f \in Files
      PROVE  /\ status'[q] \in Draft => status[q] \in Draft
             /\ item[q][f].status = "approved" => status'[q] = "applying"
  <2>1. item[q][f].status = "approved" => status[q] = "applying"
    BY DEF RowsAgree
  <2>2. item[q][f].status = "approved" => Having(q, "approved") # {}
    BY DEF Having
  <2>3. ApplyVerdict(q) \notin Draft
    BY DEF ApplyVerdict, Draft
  <2>4. \A before \in {"applied", "partial", "failed"} : RevertVerdict(q, before) \notin Draft
    BY DEF RevertVerdict, Draft
  <2> QED
    BY <2>1, <2>2, <2>3, <2>4 DEF Draft, StatusMove
<1>2. RowsAgree'
  BY <1>1 DEF RowsAgree
<1>3. VerdictAgrees'
  <2>1. SUFFICES ASSUME NEW q \in Runs
                PROVE  /\ status'[q] = "applied" =>
                            \A f \in Files : item[q][f].approvedAt => item[q][f].status = "applied"
                       /\ status'[q] = "reverted" => Having(q, "applied") = {} /\ Having(q, "reverted") # {}
                       /\ status'[q] = "failed" => Having(q, "applied") = {}
    BY DEF VerdictAgrees, Having
  <2>2. CASE status'[q] = status[q]
    BY <2>2 DEF VerdictAgrees
  <2>3. CASE status[q] \in Draft /\ status'[q] \in Draft \cup {"failed", "applying"}
    BY <2>3 DEF RowsAgree, Having, Draft
  <2>4. CASE status'[q] = "reverting"
    BY <2>4
  <2>5. CASE status'[q] = ApplyVerdict(q)
    <3>1. \A f \in Files : item[q][f].status = "applied" => item[q][f].approvedAt
      BY DEF RowsAgree
    <3> QED
      BY <2>5, <3>1 DEF ApplyVerdict, Having
  <2>6. ASSUME NEW before \in {"applied", "partial", "failed"}, status'[q] = RevertVerdict(q, before),
               before = "applied" => \A f \in Files : item[q][f].approvedAt
                                       => item[q][f].status \in {"applied", "reverted"},
               before = "failed" => \A f \in Files : ~item[q][f].appliedAt
        PROVE  /\ status'[q] = "applied" =>
                    \A f \in Files : item[q][f].approvedAt => item[q][f].status = "applied"
               /\ status'[q] = "reverted" => Having(q, "applied") = {} /\ Having(q, "reverted") # {}
               /\ status'[q] = "failed" => Having(q, "applied") = {}
    <3>1. \A f \in Files : item[q][f].status = "applied" => item[q][f].appliedAt
      BY DEF RowsAgree
    <3> QED
      BY <2>6, <3>1 DEF RevertVerdict, Having
  <2> QED
    BY <2>2, <2>3, <2>4, <2>5, <2>6 DEF StatusMove
<1> QED
  BY <1>2, <1>3

\* A client moves outside the claimed part: nothing but its position changes.
LEMMA MoveRows ==
  ASSUME IInv, Rows, NEW c \in Clients, pc'[c] \notin PCSets,
         UNCHANGED <<status, item, backup, file, writer>>,
         \A d \in Clients : d # c => pc'[d] = pc[d] /\ req'[d] = req[d],
         pc[c] \in Critical \/ UNCHANGED <<todo, cur, touched>>,
         SawAgrees(c)'
  PROVE  Rows'
<1>0. item' = item /\ \A q \in Runs : StatusMove(q)
  BY DEF StatusMove
<1>1. RowsAgree' /\ VerdictAgrees'
  BY <1>0, StatusRows
<1> USE DEF Rows
<1>2. ClientRows(c)'
  BY DEF ClientRows, ListAgrees, FileAgrees, PCSets, ApplyPC, RevertPC
<1>3. ASSUME NEW d \in Clients, d # c
      PROVE  ClientRows(d)'
  <2>1. pc[c] \in Critical => pc[d] \notin PCSets
    BY <1>3, OthersOutside, Positions DEF PCSets
  <2> QED
    BY <1>3, <2>1, Undisturbed
<1> QED
  BY <1>1, <1>2, <1>3 DEF ClientRows

\* A starting request, the job, or nobody: only drafts move.
LEMMA DraftRows ==
  ASSUME IInv, Rows, UNCHANGED <<item, backup, file, writer, todo, cur, touched>>,
         \A q \in Runs : \/ status'[q] = status[q]
                         \/ status[q] \in Draft /\ status'[q] \in Draft \cup {"failed"},
         \A d \in Clients : \/ pc'[d] = pc[d] /\ req'[d] = req[d]
                            \/ pc'[d] \in {"idle", "s_create", "s_job"}
  PROVE  Rows'
<1>1. RowsAgree' /\ VerdictAgrees'
  <2>1. \A q \in Runs : StatusMove(q)
    BY DEF StatusMove
  <2> QED
    BY <2>1, StatusRows
<1>2. \A q \in Runs : status[q] \in Settled => status'[q] \in Settled
  BY DEF Settled, Draft
<1>3. ASSUME NEW d \in Clients
      PROVE  ClientRows(d)'
  <2>1. CASE pc'[d] = pc[d] /\ req'[d] = req[d]
    BY <1>2, <2>1, Undisturbed
  <2>2. CASE pc'[d] \in {"idle", "s_create", "s_job"}
    BY <2>2 DEF ClientRows, ListAgrees, FileAgrees, SawAgrees, ApplyPC, RevertPC
  <2> QED
    BY <2>1, <2>2
<1> QED
  BY <1>1, <1>3 DEF Rows, ClientRows

LEMMA StartRows ==
  ASSUME IInv, Rows, NEW c \in Clients, Start(c)
  PROVE  Rows'
<1> USE DEF IInv, Control
<1>1. \A d \in Clients : d # c => pc'[d] = pc[d] /\ req'[d] = req[d]
  BY DEF TypeOK, Start, StartCheck, StartCreate, StartJob, Goto
<1>2. pc'[c] \in {"idle", "s_create", "s_job"}
  BY DEF TypeOK, Start, StartCheck, StartCreate, StartJob, Goto
<1>3. UNCHANGED <<item, backup, file, writer, todo, cur, touched>>
  BY DEF Start, StartCheck, StartCreate, StartJob
<1>4. \A q \in Runs : \/ status'[q] = status[q]
                      \/ status[q] \in Draft /\ status'[q] \in Draft \cup {"failed"}
  <2>1. CASE StartCheck(c)
    BY <2>1 DEF StartCheck
  <2>2. CASE StartCreate(c)
    BY <2>2 DEF TypeOK, StartCreate, Draft
  <2>3. CASE StartJob(c)
    BY <2>3 DEF TypeOK, StartJob, Goto, RequestsAgree, Draft
  <2> QED
    BY <2>1, <2>2, <2>3 DEF Start
<1> QED
  BY <1>1, <1>2, <1>3, <1>4, DraftRows

LEMMA JobRows ==
  ASSUME IInv, Rows, Job
  PROVE  Rows'
<1> USE DEF IInv, Control
<1>1. UNCHANGED <<backup, file, writer, todo, cur, touched, pc, req>>
  BY DEF Job, JobClaim, JobCollect, JobFail, JobRaise, JobStore, JobPublish
<1>2. CASE JobClaim \/ JobCollect \/ JobFail \/ JobRaise \/ JobPublish
  <2>1. item' = item
    BY <1>2 DEF JobClaim, JobCollect, JobFail, JobRaise, JobPublish
  <2>2. \A q \in Runs : \/ status'[q] = status[q]
                        \/ status[q] \in Draft /\ status'[q] \in Draft \cup {"failed"}
    <3>1. CASE JobClaim
      BY <3>1 DEF TypeOK, JobClaim, JobAgrees, Draft
    <3>2. CASE JobFail \/ JobPublish
      BY <3>2 DEF TypeOK, JobFail, JobPublish, JobAgrees, Draft
    <3>3. CASE JobCollect \/ JobRaise
      BY <3>3 DEF JobCollect, JobRaise
    <3> QED
      BY <1>2, <3>1, <3>2, <3>3
  <2> QED
    BY <1>1, <2>1, <2>2, DraftRows
<1>3. CASE JobStore
  <2>1. PICK p \in [Files -> Plans] :
          item' = [item EXCEPT ![job.run] = [f \in Files |-> Proposed(snap[f], p[f])]]
    BY <1>3 DEF JobStore
  <2>2. job.run \in Runs /\ status[job.run] = "running" /\ UNCHANGED status
    BY <1>3 DEF JobStore, JobAgrees
  <2>3. ASSUME NEW s, NEW q
        PROVE  /\ Proposed(s, q).status \in {"none", "proposed"} /\ Proposed(s, q).planned = None
               /\ ~Proposed(s, q).approvedAt /\ ~Proposed(s, q).appliedAt
    BY DEF Proposed, Blank
  <2>4. \A q \in Runs : q # job.run => item'[q] = item[q]
    BY <2>1 DEF TypeOK
  <2>5. \A f \in Files : /\ item'[job.run][f].status \in {"none", "proposed"}
                         /\ item'[job.run][f].planned = None
                         /\ ~item'[job.run][f].approvedAt /\ ~item'[job.run][f].appliedAt
    BY <2>1, <2>2, <2>3 DEF TypeOK
  <2>6. RowsAgree'
    BY <2>2, <2>4, <2>5 DEF Rows, RowsAgree
  <2>7. VerdictAgrees'
    BY <2>2, <2>4 DEF Rows, VerdictAgrees, Having
  <2>8. ASSUME NEW d \in Clients
        PROVE  ClientRows(d)'
    <3>1. CASE req[d].run # job.run
      BY <1>1, <2>2, <2>4, <3>1, Undisturbed
    <3>2. CASE req[d].run = job.run
      <4>1. pc[d] \notin PCSets
        BY <2>2, <3>2 DEF RequestsAgree, PCSets
      <4>2. ~(pc[d] \in {"r_lock", "r_check", "r_cas"} /\ req[d].saw \in {"applied", "partial"})
        BY <2>2, <3>2 DEF Rows, SawAgrees
      <4>3. pc[d] # "r_cas"
        BY <4>2 DEF RequestsAgree
      <4> QED
        BY <1>1, <4>1, <4>2, <4>3 DEF ClientRows, ListAgrees, FileAgrees, SawAgrees, PCSets, ApplyPC, RevertPC
    <3> QED
      BY <3>1, <3>2
  <2> QED
    BY <2>6, <2>7, <2>8 DEF Rows, ClientRows
<1> QED
  BY <1>2, <1>3 DEF Job

LEMMA EnvironmentRows ==
  ASSUME IInv, Rows, UserEdit \/ Crash
  PROVE  Rows'
<1>0. UNCHANGED <<status, item, backup>> /\ \A q \in Runs : StatusMove(q)
  BY DEF UserEdit, Crash, StatusMove
<1>1. RowsAgree' /\ VerdictAgrees'
  BY <1>0, StatusRows
<1>2. CASE UserEdit
  <2>1. UNCHANGED <<pc, req, todo, cur>>
    BY <1>2 DEF UserEdit
  <2>2. \A d \in Clients : ClientRows(d)'
    BY <1>0, <1>2, <2>1, Undisturbed
  <2> QED
    BY <1>1, <2>2 DEF Rows, ClientRows
<1>3. CASE Crash
  <2>1. \A d \in Clients : pc'[d] = "idle"
    BY <1>3 DEF Crash
  <2>2. \A d \in Clients : ClientRows(d)'
    BY <2>1 DEF ClientRows, ListAgrees, FileAgrees, SawAgrees, ApplyPC, RevertPC
  <2> QED
    BY <1>1, <2>2 DEF Rows, ClientRows
<1> QED
  BY <1>2, <1>3

\* Requests outside of the claimed part of the critical section.
LEMMA EntryRows ==
  ASSUME IInv, Rows, NEW c \in Clients,
         \/ ApplyRead(c) \/ ApplyLock(c) \/ ApplyRefuse(c) \/ ApplyCheck(c) \/ ApplyLost(c)
         \/ RevertRead(c) \/ RevertLock(c) \/ RevertRefuse(c) \/ RevertCheck(c)
         \/ RevertClaim(c) /\ status[req[c].run] \notin {"applied", "partial"}
  PROVE  Rows'
<1> USE DEF IInv, Control
<1>1. \A d \in Clients : d # c => pc'[d] = pc[d] /\ req'[d] = req[d]
  BY DEF TypeOK, ApplyRead, ApplyLock, Acquire, ApplyRefuse, ApplyCheck, ApplyLost, RevertRead,
     RevertLock, RevertRefuse, RevertCheck, RevertClaim, Release, Goto
<1>2. UNCHANGED <<status, item, backup, file, writer>>
  BY DEF ApplyRead, ApplyLock, Acquire, ApplyRefuse, ApplyCheck, ApplyLost, RevertRead,
     RevertLock, RevertRefuse, RevertCheck, RevertClaim
<1>3. pc[c] \in Critical \/ UNCHANGED <<todo, cur, touched>>
  BY DEF ApplyRead, ApplyLock, Acquire, ApplyRefuse, ApplyCheck, ApplyLost, RevertRead,
     RevertLock, RevertRefuse, RevertCheck, RevertClaim, Goto, Critical
<1>4. CASE \/ ApplyRead(c) \/ ApplyLock(c) \/ ApplyRefuse(c) \/ ApplyCheck(c) \/ ApplyLost(c)
           \/ RevertRefuse(c)
           \/ RevertClaim(c) /\ status[req[c].run] \notin {"applied", "partial"}
  <2>1. pc'[c] \in {"idle", "a_lock", "a_check", "a_cas"}
    BY <1>4 DEF TypeOK, ApplyRead, ApplyLock, Acquire, ApplyRefuse, ApplyCheck, ApplyLost,
       RevertRefuse, RevertClaim, Release, Goto
  <2>2. SawAgrees(c)' /\ pc'[c] \notin PCSets
    BY <2>1 DEF SawAgrees, PCSets, ApplyPC, RevertPC
  <2> QED
    BY <1>1, <1>2, <1>3, <2>2, MoveRows
<1>5. CASE RevertRead(c)
  <2>1. PICK r \in Runs : req' = [req EXCEPT ![c] = [run |-> r, saw |-> status[r], chosen |-> {}]]
    BY <1>5 DEF RevertRead
  <2>2. req'[c].run = r /\ req'[c].saw = status[r] /\ pc'[c] = "r_lock"
    BY <1>5, <2>1 DEF TypeOK, RevertRead, Goto
  <2>3. \A f \in Files : status[r] = "applied" /\ item[r][f].approvedAt => item[r][f].status = "applied"
    BY DEF Rows, VerdictAgrees
  <2>4. SawAgrees(c)'
    BY <1>2, <2>2, <2>3 DEF SawAgrees
  <2>5. pc'[c] \notin PCSets
    BY <2>2 DEF PCSets, ApplyPC, RevertPC
  <2> QED
    BY <1>1, <1>2, <1>3, <2>4, <2>5, MoveRows
<1>6. CASE RevertLock(c)
  <2>1. pc[c] = "r_lock" /\ pc'[c] = "r_check" /\ req' = req
    BY <1>6 DEF TypeOK, RevertLock, Acquire, Goto
  <2>2. SawAgrees(c)' /\ pc'[c] \notin PCSets
    BY <1>2, <2>1 DEF Rows, SawAgrees, Having, PCSets, ApplyPC, RevertPC
  <2> QED
    BY <1>1, <1>2, <1>3, <2>2, MoveRows
<1>7. CASE RevertCheck(c)
  <2>1. pc[c] = "r_check" /\ pc'[c] = "r_cas" /\ req' = req /\ Having(req[c].run, "applied") # {}
    BY <1>7 DEF TypeOK, RevertCheck, RevertAllowed, Goto
  <2>2. SawAgrees(c)' /\ pc'[c] \notin PCSets
    BY <1>2, <2>1 DEF Rows, SawAgrees, Having, PCSets, ApplyPC, RevertPC
  <2> QED
    BY <1>1, <1>2, <1>3, <2>2, MoveRows
<1> QED
  BY <1>4, <1>5, <1>6, <1>7

\* The rows and the files stay; the lock holder takes its run.
LEMMA ClaimRows ==
  ASSUME IInv, Rows, NEW c \in Clients,
         \/ ApplyClaim(c)
         \/ RevertClaim(c) /\ status[req[c].run] \in {"applied", "partial"}
  PROVE  Rows'
<1> USE DEF IInv, Control
<1> DEFINE r == req[c].run
<1>1. r \in Runs /\ pc[c] \in Critical
  BY DEF ApplyClaim, RevertClaim, RequestsAgree, Critical
<1>2. UNCHANGED <<item, backup, file, writer, req>>
  BY DEF ApplyClaim, RevertClaim
<1>3. \A d \in Clients : d # c => pc'[d] = pc[d]
  BY DEF TypeOK, ApplyClaim, RevertClaim
<1>4. \A q \in Runs : StatusMove(q)
  <2>1. CASE ApplyClaim(c)
    BY <1>1, <2>1 DEF TypeOK, ApplyClaim, StatusMove, Draft
  <2>2. CASE RevertClaim(c) /\ status[r] \in {"applied", "partial"}
    <3>1. Having(r, "approved") = {}
      BY <1>1, <2>2 DEF Rows, RowsAgree, Having
    <3> QED
      BY <1>1, <2>2, <3>1 DEF TypeOK, RevertClaim, StatusMove, Draft
  <2> QED
    BY <2>1, <2>2
<1>5. RowsAgree' /\ VerdictAgrees'
  BY <1>2, <1>4, StatusRows
<1>6. \A q \in Runs : status[q] \in Settled => status'[q] \in Settled
  BY DEF TypeOK, ApplyClaim, RevertClaim, Settled
<1>7. ASSUME NEW d \in Clients, d # c
      PROVE  ClientRows(d)'
  BY <1>1, <1>2, <1>3, <1>6, <1>7, Bystander
<1>8. ClientRows(c)'
  <2>1. CASE ApplyClaim(c)
    <3>1. pc'[c] = "a_mark" /\ status[r] = "proposed"
      BY <2>1 DEF TypeOK, ApplyClaim
    <3>2. \A f \in Files : ~item[r][f].appliedAt
      BY <1>1, <3>1 DEF Rows, RowsAgree, Draft
    <3>3. \A f \in todo' : item[r][f].status = "proposed"
      BY <2>1 DEF ApplyClaim
    <3> QED
      BY <1>2, <3>1, <3>2, <3>3 DEF ClientRows, ListAgrees, FileAgrees, SawAgrees, ApplyPC, RevertPC
  <2>2. CASE RevertClaim(c) /\ status[r] \in {"applied", "partial"}
    <3>1. pc[c] = "r_cas" /\ pc'[c] = "r_next" /\ todo' = Having(r, "applied") /\ status'[r] = "reverting"
      BY <1>1, <2>2 DEF TypeOK, RevertClaim
    <3>2. SawAgrees(c)
      BY DEF Rows
    <3>3. SawAgrees(c)'
      BY <1>2, <3>1, <3>2 DEF SawAgrees, Having
    <3> QED
      BY <1>2, <3>1, <3>3 DEF ClientRows, ListAgrees, FileAgrees, ApplyPC, RevertPC, Having
  <2> QED
    BY <2>1, <2>2
<1> QED
  BY <1>5, <1>7, <1>8 DEF Rows, ClientRows

\* The lock holder leaves with a verdict on its run.
LEMMA FinishRows ==
  ASSUME IInv, Rows, NEW c \in Clients, ApplyFinish(c) \/ RevertFinish(c)
  PROVE  Rows'
<1> USE DEF IInv, Control
<1> DEFINE r == req[c].run
<1>1. r \in Runs /\ pc[c] \in Critical
  BY DEF ApplyFinish, RevertFinish, RequestsAgree, Critical, ApplyPC, RevertPC
<1>2. UNCHANGED <<item, backup, file, writer>>
  BY DEF ApplyFinish, RevertFinish
<1>3. \A d \in Clients : d # c => pc'[d] = pc[d] /\ req'[d] = req[d]
  BY DEF TypeOK, ApplyFinish, RevertFinish, Release
<1>4. pc'[c] = "idle"
  BY DEF TypeOK, ApplyFinish, RevertFinish, Release
<1>5. CASE ApplyFinish(c)
  <2>1. status[r] = "applying" /\ Having(r, "approved") = {}
    BY <1>5 DEF ApplyFinish, RequestsAgree, ApplyPC, Rows, ListAgrees
  <2>2. \A q \in Runs : StatusMove(q)
    BY <1>1, <1>5, <2>1 DEF TypeOK, ApplyFinish, StatusMove
  <2>3. \A q \in Runs : status[q] \in Settled => status'[q] \in Settled
    BY <1>1, <1>5, <2>1 DEF TypeOK, ApplyFinish, Settled
  <2> QED
    BY <2>2, <2>3, <1>1, <1>2, <1>3, <1>4, StatusRows, Bystander
       DEF Rows, ClientRows, ListAgrees, FileAgrees, SawAgrees, ApplyPC, RevertPC
<1>6. CASE RevertFinish(c)
  <2>1. status[r] = "reverting" /\ req[c].saw \in {"applied", "partial"}
    BY <1>6 DEF RevertFinish, RequestsAgree, RevertPC
  <2>2. req[c].saw = "applied" => \A f \in Files : item[r][f].approvedAt
                                    => item[r][f].status \in {"applied", "reverted"}
    BY <1>6, <2>1 DEF RevertFinish, Rows, SawAgrees, RevertPC
  <2>3. status' = [status EXCEPT ![r] = RevertVerdict(r, req[c].saw)]
    BY <1>6 DEF RevertFinish
  <2>4. \A q \in Runs : StatusMove(q)
    BY <1>1, <2>1, <2>2, <2>3 DEF TypeOK, StatusMove
  <2>5. \A q \in Runs : status[q] \in Settled => status'[q] \in Settled
    BY <1>1, <2>1, <2>3 DEF TypeOK, RevertVerdict, Settled
  <2> QED
    BY <2>4, <2>5, <1>1, <1>2, <1>3, <1>4, StatusRows, Bystander
       DEF Rows, ClientRows, ListAgrees, FileAgrees, SawAgrees, ApplyPC, RevertPC
<1> QED
  BY <1>5, <1>6

\* One row changes, of the run that is being applied or reverted.
RowMove(r, f) ==
  LET old == item[r][f]  new == item'[r][f] IN
  /\ \A q \in Runs, g \in Files : q # r \/ g # f => item'[q][g] = item[q][g]
  /\ new.status = "approved" => status[r] = "applying"
  /\ new.approvedAt <=> new.status \in {"approved", "applied", "skipped", "reverted"}
  /\ new.appliedAt  <=> new.status \in {"applied", "reverted"}
  /\ new.planned \in {None, new.plan}

LEMMA RowRows ==
  ASSUME IInv, Rows, NEW r \in Runs, NEW f \in Files, RowMove(r, f),
         status[r] \in {"applying", "reverting"}, status' = status
  PROVE  RowsAgree' /\ VerdictAgrees'
<1>1. RowsAgree'
  <2>1. ASSUME NEW q \in Runs, NEW g \in Files, q # r \/ g # f
        PROVE  item'[q][g] = item[q][g]
    BY <2>1 DEF RowMove
  <2> QED
    BY <2>1 DEF Rows, RowsAgree, RowMove, Draft
<1>2. VerdictAgrees'
  <2>1. ASSUME NEW q \in Runs, q # r, NEW g \in Files
        PROVE  item'[q][g] = item[q][g]
    BY <2>1 DEF RowMove
  <2>2. \A q \in Runs : status[q] \in {"applied", "reverted", "failed"} => q # r
    OBVIOUS
  <2> QED
    BY <2>1, <2>2 DEF Rows, VerdictAgrees, Having
<1> QED
  BY <1>1, <1>2

\* The lock holder moves on in its list, changing at most one row of its run.
LEMMA WorkRows ==
  ASSUME IInv, Rows, NEW c \in Clients, pc[c] \in PCSets, UNCHANGED <<status, req>>,
         NEW to, pc' = [pc EXCEPT ![c] = to], to \in PCSets,
         to \in RevertPC => pc[c] \in RevertPC,
         \/ item' = item
         \/ \E f \in Files :
              /\ RowMove(req[c].run, f)
              /\ pc[c] \in RevertPC => /\ item[req[c].run][f].status = "applied"
                                       /\ item'[req[c].run][f].status = "reverted",
         ListAgrees(c)', FileAgrees(c)'
  PROVE  Rows'
<1> USE DEF IInv, Control
<1> DEFINE r == req[c].run
<1>1. r \in Runs /\ pc[c] \in Critical /\ status[r] \in {"applying", "reverting"}
  BY Positions DEF RequestsAgree, PCSets, ApplyPC, RevertPC
<1>2. pc[c] \in RevertPC <=> status[r] = "reverting"
  BY DEF RequestsAgree, PCSets
<1>3. ASSUME NEW q \in Runs, NEW f \in Files, status[q] \in Settled
      PROVE  \/ item'[q][f] = item[q][f]
             \/ item[q][f].status = "applied" /\ item'[q][f].status = "reverted"
  <2>1. CASE item' = item
    BY <2>1
  <2>2. ASSUME NEW g \in Files, RowMove(r, g),
               pc[c] \in RevertPC => item[r][g].status = "applied" /\ item'[r][g].status = "reverted"
        PROVE  \/ item'[q][f] = item[q][f]
               \/ item[q][f].status = "applied" /\ item'[q][f].status = "reverted"
    <3>1. CASE q # r \/ f # g
      BY <2>2, <3>1 DEF RowMove
    <3>2. CASE q = r /\ f = g
      BY <1>1, <1>2, <1>3, <2>2, <3>2 DEF Settled
    <3> QED
      BY <3>1, <3>2
  <2> QED
    BY <2>1, <2>2
<1>4. RowsAgree' /\ VerdictAgrees'
  <2>1. CASE item' = item
    BY <2>1, StatusRows DEF StatusMove
  <2>2. CASE \E f \in Files : RowMove(r, f)
    BY <1>1, <2>2, RowRows
  <2> QED
    BY <2>1, <2>2
<1>5. ASSUME NEW d \in Clients, d # c
      PROVE  ClientRows(d)'
  <2>1. pc'[d] = pc[d] /\ req'[d] = req[d]
    BY <1>5 DEF TypeOK
  <2>2. \A q \in Runs : status[q] \in Settled => status'[q] \in Settled
    OBVIOUS
  <2> QED
    BY <1>1, <1>3, <1>5, <2>1, <2>2, Bystander
<1>6. SawAgrees(c)'
  <2>1. pc'[c] = to /\ req' = req /\ status' = status
    BY DEF TypeOK
  <2>2. CASE to \notin RevertPC
    BY <2>1, <2>2 DEF SawAgrees, PCSets, ApplyPC
  <2>3. CASE to \in RevertPC
    <3>1. SawAgrees(c) /\ pc[c] \in RevertPC /\ status[r] = "reverting"
      BY <1>2, <2>3 DEF Rows
    <3>2. \A f \in Files : item'[r][f].approvedAt => item[r][f].approvedAt
      <4>1. RowsAgree
        BY DEF Rows
      <4>2. ASSUME NEW f \in Files, item'[r][f] # item[r][f]
            PROVE  item[r][f].approvedAt
        <5>1. item[r][f].status = "applied"
          BY <1>1, <1>3, <3>1, <4>2 DEF Settled
        <5> QED
          BY <1>1, <4>1, <5>1 DEF RowsAgree
      <4> QED
        BY <4>2
    <3>3. \A f \in Files : item'[r][f].status = item[r][f].status \/ item'[r][f].status = "reverted"
      BY <1>1, <1>3, <3>1 DEF Settled
    <3> QED
      BY <1>1, <2>1, <2>3, <3>1, <3>2, <3>3 DEF SawAgrees, RevertPC
  <2> QED
    BY <2>2, <2>3
<1> QED
  BY <1>4, <1>5, <1>6 DEF Rows, ClientRows

\* What a row update of the lock holder's run means for that row.
LEMMA RowUpdated ==
  ASSUME IInv, Rows, NEW r \in Runs, NEW f \in Files, NEW row \in Item, UpdateItem(r, f, row)
  PROVE  /\ item'[r][f] = row
         /\ \A q \in Runs, g \in Files : q # r \/ g # f => item'[q][g] = item[q][g]
         /\ Having(r, "approved")' = IF row.status = "approved" THEN Having(r, "approved") \cup {f}
                                     ELSE Having(r, "approved") \ {f}
         /\ Having(r, "applied")' = IF row.status = "applied" THEN Having(r, "applied") \cup {f}
                                    ELSE Having(r, "applied") \ {f}
<1>1. \A q \in Runs, g \in Files : item'[q][g] = IF q = r /\ g = f THEN row ELSE item[q][g]
  BY UpdateType DEF IInv
<1> QED
  BY <1>1 DEF Having

\* Where the lock holder is in an apply, what it has in hand.
LEMMA ApplyHand ==
  ASSUME IInv, Rows, NEW c \in Clients,
         pc[c] \in {"a_backup", "a_record", "a_recheck", "a_replace", "a_verify"}
  PROVE  /\ req[c].run \in Runs /\ cur \in Files /\ cur \in todo
         /\ todo = Having(req[c].run, "approved")
         /\ item[req[c].run][cur] \in Item /\ item[req[c].run][cur].plan \in Contents
         /\ item[req[c].run][cur].status = "approved" /\ item[req[c].run][cur].approvedAt
         /\ ~item[req[c].run][cur].appliedAt
         /\ item[req[c].run][cur].planned \in {None, item[req[c].run][cur].plan}
         /\ status[req[c].run] = "applying"
         /\ pc[c] \in ApplyPC /\ pc[c] \in PCSets /\ pc[c] \notin RevertPC
<1> DEFINE r == req[c].run
<1>1. r \in Runs /\ cur \in Files /\ item[r][cur].plan # NoPlan /\ status[r] = "applying"
  BY DEF IInv, Control, RequestsAgree, CurrentAgrees, ApplyPC
<1>2. item[r][cur] \in Item /\ item[r][cur].plan \in Contents
  BY <1>1 DEF IInv, TypeOK, Item
<1>3. todo = Having(r, "approved") /\ cur \in todo
  BY DEF Rows, ListAgrees, ApplyPC
<1>4. item[r][cur].status = "approved"
  BY <1>3 DEF Having
<1>5. item[r][cur].approvedAt /\ ~item[r][cur].appliedAt /\ item[r][cur].planned \in {None, item[r][cur].plan}
  BY <1>1, <1>4 DEF Rows, RowsAgree
<1> QED
  BY <1>1, <1>2, <1>3, <1>4, <1>5 DEF PCSets, ApplyPC, RevertPC

\* Giving up on an item keeps the rows.
LEMMA SkipRows ==
  ASSUME IInv, Rows, NEW c \in Clients, pc[c] \in ApplyPC, pc[c] # "a_mark", NEW f \in todo,
         Skip(c, f), UNCHANGED <<status, req>>
  PROVE  Rows'
<1> USE DEF IInv
<1> DEFINE r == req[c].run
           row == [item[r][f] EXCEPT !.status = "skipped"]
<1>1. r \in Runs /\ f \in Files /\ pc[c] \notin RevertPC /\ pc[c] \in PCSets
  BY Positions DEF Control, RequestsAgree, TypeOK, PCSets, ApplyPC
<1>2. todo = Having(r, "approved")
  BY DEF Rows, ListAgrees
<1>3. item[r][f].approvedAt /\ ~item[r][f].appliedAt /\ item[r][f].planned \in {None, item[r][f].plan}
  BY <1>1, <1>2 DEF Rows, RowsAgree, Having
<1>4. item[r][f] \in Item /\ row \in Item
  <2>1. TypeOK /\ "skipped" \in ItemState
    BY DEF ItemState
  <2>2. item[r][f] \in Item
    BY <1>1, <2>1 DEF TypeOK
  <2> QED
    BY <1>1, <2>1, <2>2, StatusType
<1>5. UpdateItem(r, f, row)
  BY DEF Skip
<1>6. RowMove(r, f)
  BY <1>1, <1>3, <1>4, <1>5, RowUpdated DEF RowMove, Item
<1>7. row.status = "skipped"
  BY <1>4 DEF Item
<1>8. Having(r, "approved")' = todo'
  BY <1>1, <1>2, <1>4, <1>5, <1>7, RowUpdated DEF Skip, NextItem
<1>9. pc' = [pc EXCEPT ![c] = "a_next"] /\ pc'[c] = "a_next"
  BY DEF Skip, NextItem, TypeOK
<1>10. ListAgrees(c)' /\ FileAgrees(c)'
  BY <1>8, <1>9 DEF ListAgrees, FileAgrees, ApplyPC, RevertPC, Having
<1> QED
  BY <1>1, <1>6, <1>9, <1>10, WorkRows DEF PCSets, ApplyPC, RevertPC

LEMMA ApplyWorkRows ==
  ASSUME IInv, Rows, NEW c \in Clients,
         \/ ApplyMark(c) \/ ApplyListed(c) \/ ApplyItem(c) \/ ApplyBackup(c)
         \/ ApplyRecord(c) \/ ApplyRecheck(c) \/ ApplyReplace(c) \/ ApplyVerify(c)
  PROVE  Rows'
<1> USE DEF IInv
<1> DEFINE r == req[c].run
           it == item[r][cur]
<1>0. /\ pc[c] \in ApplyPC /\ pc[c] \in PCSets /\ pc[c] \notin RevertPC /\ r \in Runs
      /\ UNCHANGED <<status, req>>
  BY Positions DEF ApplyMark, ApplyListed, ApplyItem, ApplyBackup, ApplyRecord, Goto, ApplyRecheck,
     ApplyReplace, ApplyVerify, ApplyPC, PCSets, Control, RequestsAgree
<1>1. CASE ApplyMark(c)
  <2> DEFINE old(f) == item[r][f]
             row(f) == IF f \in req[c].chosen
                       THEN [old(f) EXCEPT !.status = "approved", !.approvedAt = TRUE]
                       ELSE [old(f) EXCEPT !.status = "rejected"]
  <2>1. PICK f \in todo : UpdateItem(r, f, row(f)) /\ todo' = todo \ {f}
    BY <1>1 DEF ApplyMark
  <2>2. pc[c] = "a_mark" /\ pc' = pc /\ f \in Files
    BY <1>1 DEF ApplyMark, TypeOK
  <2>3. \A g \in Files : (g \in todo => item[r][g].status = "proposed") /\ ~item[r][g].appliedAt
    BY <2>2 DEF Rows, ListAgrees
  <2>4. /\ old(f) \in Item /\ old(f).status = "proposed" /\ old(f).appliedAt = FALSE
        /\ old(f).approvedAt = FALSE /\ old(f).planned \in {None, old(f).plan}
    <3>1. old(f) \in Item
      BY <1>0, <2>2 DEF TypeOK
    <3>2. old(f).appliedAt \in BOOLEAN /\ old(f).approvedAt \in BOOLEAN
      BY <3>1 DEF Item
    <3>3. old(f).status = "proposed" /\ ~old(f).appliedAt
      BY <2>1, <2>2, <2>3
    <3>4. RowsAgree
      BY DEF Rows
    <3>5. ~old(f).approvedAt /\ old(f).planned \in {None, old(f).plan}
      BY <1>0, <2>2, <3>3, <3>4 DEF RowsAgree
    <3> QED
      BY <3>1, <3>2, <3>3, <3>5
  <2>5. /\ row(f) \in Item /\ row(f).appliedAt = FALSE
        /\ row(f).plan = old(f).plan /\ row(f).planned = old(f).planned
        /\ \/ row(f).status = "approved" /\ row(f).approvedAt = TRUE
           \/ row(f).status = "rejected" /\ row(f).approvedAt = FALSE
    <3>1. CASE f \in req[c].chosen
      <4>1. row(f) = [old(f) EXCEPT !.status = "approved", !.approvedAt = TRUE]
        BY <3>1
      <4> QED
        BY <2>4, <4>1 DEF Item, ItemState
    <3>2. CASE f \notin req[c].chosen
      <4>1. row(f) = [old(f) EXCEPT !.status = "rejected"]
        BY <3>2
      <4> QED
        BY <2>4, <4>1 DEF Item, ItemState
    <3> QED
      BY <3>1, <3>2
  <2>6. /\ item'[r][f] = row(f)
        /\ \A q \in Runs, g \in Files : q # r \/ g # f => item'[q][g] = item[q][g]
    <3> HIDE DEF row
    <3> QED
      BY <1>0, <2>1, <2>2, <2>5, RowUpdated
  <2>7. status[r] = "applying"
    BY <1>0 DEF Control, RequestsAgree
  <2>8. RowMove(r, f)
    <3> HIDE DEF row
    <3> QED
      BY <2>4, <2>5, <2>6, <2>7 DEF RowMove
  <2>9. ListAgrees(c)' /\ FileAgrees(c)'
    <3>1. ~item'[r][f].appliedAt /\ f \notin todo'
      BY <2>1, <2>5, <2>6
    <3>2. \A g \in Files : /\ g \in todo' => item'[r][g].status = "proposed"
                           /\ ~item'[r][g].appliedAt
      BY <1>0, <2>1, <2>3, <2>6, <3>1
    <3>3. pc'[c] = "a_mark" /\ req'[c].run = r
      BY <1>0, <2>2
    <3> QED
      BY <3>2, <3>3 DEF ListAgrees, FileAgrees, ApplyPC, RevertPC
  <2>10. pc' = [pc EXCEPT ![c] = "a_mark"]
    BY <2>2 DEF TypeOK
  <2> QED
    BY <1>0, <2>2, <2>8, <2>9, <2>10, WorkRows DEF PCSets, ApplyPC, RevertPC
<1>2. CASE ApplyListed(c)
  <2>1. pc' = [pc EXCEPT ![c] = "a_next"] /\ pc'[c] = "a_next" /\ item' = item /\ todo' = Having(r, "approved")
    BY <1>2 DEF ApplyListed, Goto, TypeOK
  <2>2. ListAgrees(c)' /\ FileAgrees(c)'
    BY <1>0, <2>1 DEF ListAgrees, FileAgrees, ApplyPC, RevertPC, Having
  <2> QED
    BY <1>0, <2>1, <2>2, WorkRows DEF PCSets, ApplyPC, RevertPC
<1>3. CASE ApplyItem(c)
  <2>1. PICK f \in todo : \/ Skip(c, f)
                          \/ /\ cur' = f /\ UNCHANGED <<item, todo, touched>>
                             /\ pc' = [pc EXCEPT ![c] = IF item[r][f].source = None
                                                       THEN "a_record" ELSE "a_backup"]
    BY <1>3 DEF ApplyItem
  <2>2. CASE Skip(c, f)
    BY <1>0, <1>3, <2>2, SkipRows DEF ApplyItem
  <2>3. CASE ~Skip(c, f)
    <3>1. PICK to \in {"a_record", "a_backup"} :
            pc' = [pc EXCEPT ![c] = to] /\ (to = "a_record" => item[r][f].source = None)
      BY <2>1, <2>3
    <3>2. pc'[c] = to /\ item' = item /\ todo' = todo /\ cur' = f /\ todo = Having(r, "approved")
      BY <1>0, <1>3, <2>1, <2>3, <3>1 DEF TypeOK, ApplyItem, Rows, ListAgrees
    <3>3. ListAgrees(c)' /\ FileAgrees(c)'
      BY <1>0, <3>1, <3>2 DEF ListAgrees, FileAgrees, ApplyPC, RevertPC, Having
    <3> QED
      BY <1>0, <3>1, <3>2, <3>3, WorkRows DEF PCSets, ApplyPC, RevertPC
  <2> QED
    BY <2>2, <2>3
<1>4. CASE ApplyBackup(c)
  <2>1. CASE Skip(c, cur)
    BY <1>0, <1>4, <2>1, ApplyHand, SkipRows DEF ApplyBackup
  <2>2. CASE ~Skip(c, cur)
    <3>1. /\ pc[c] = "a_backup" /\ backup' = [backup EXCEPT ![r][cur] = it.source]
          /\ pc' = [pc EXCEPT ![c] = "a_record"]
          /\ UNCHANGED <<item, todo, cur, touched>>
      BY <1>4, <2>2 DEF ApplyBackup
    <3>2. backup'[r][cur] = it.source /\ pc'[c] = "a_record"
      BY <1>0, <3>1, ApplyHand DEF TypeOK
    <3>3. ListAgrees(c)' /\ FileAgrees(c)'
      BY <1>0, <3>1, <3>2, ApplyHand DEF ListAgrees, FileAgrees, ApplyPC, RevertPC, Having
    <3> QED
      BY <1>0, <3>1, <3>3, WorkRows DEF PCSets, ApplyPC, RevertPC
  <2> QED
    BY <2>1, <2>2
<1>5. CASE ApplyRecord(c)
  <2> DEFINE row == [it EXCEPT !.planned = it.plan, !.saved = (it.source # None)]
  <2>1. /\ pc[c] = "a_record" /\ pc' = [pc EXCEPT ![c] = "a_recheck"] /\ UpdateItem(r, cur, row)
        /\ UNCHANGED <<backup, todo, cur, touched>>
    BY <1>5 DEF ApplyRecord, Goto
  <2>2. it \in Item /\ it.plan \in Contents /\ it.status = "approved" /\ it.approvedAt /\ ~it.appliedAt
        /\ cur \in Files /\ cur \in todo /\ todo = Having(r, "approved") /\ status[r] = "applying"
    BY <2>1, ApplyHand
  <2>3. /\ row \in Item /\ row.status = "approved" /\ row.approvedAt /\ ~row.appliedAt
        /\ row.planned = it.plan /\ row.plan = it.plan /\ row.source = it.source
    BY <2>2 DEF Item, Hash
  <2>4. /\ item'[r][cur] = row
        /\ \A q \in Runs, g \in Files : q # r \/ g # cur => item'[q][g] = item[q][g]
        /\ Having(r, "approved")' = Having(r, "approved") \cup {cur}
    <3> HIDE DEF row
    <3> QED
      BY <1>0, <2>1, <2>2, <2>3, RowUpdated
  <2>5. RowMove(r, cur)
    BY <2>2, <2>3, <2>4 DEF RowMove
  <2>6. pc'[c] = "a_recheck" /\ req' = req
    BY <1>0, <2>1 DEF TypeOK
  <2>7. ListAgrees(c)'
    BY <2>1, <2>2, <2>4, <2>6 DEF ListAgrees, ApplyPC, RevertPC, Having
  <2>8. FileAgrees(c)
    BY DEF Rows
  <2>9. FileAgrees(c)'
    BY <2>1, <2>3, <2>4, <2>6, <2>8 DEF FileAgrees
  <2> QED
    BY <1>0, <2>1, <2>2, <2>5, <2>7, <2>9, WorkRows DEF PCSets, ApplyPC, RevertPC
<1>6. CASE ApplyRecheck(c)
  <2>1. CASE Skip(c, cur)
    BY <1>0, <1>6, <2>1, ApplyHand, SkipRows DEF ApplyRecheck
  <2>2. CASE ~Skip(c, cur)
    <3>1. /\ pc[c] = "a_recheck" /\ file[cur] = it.source /\ pc' = [pc EXCEPT ![c] = "a_replace"]
          /\ UNCHANGED <<item, todo, cur, file, backup>>
      BY <1>6, <2>2 DEF ApplyRecheck
    <3>2. pc'[c] = "a_replace" /\ FileAgrees(c)
      BY <3>1 DEF TypeOK, Rows
    <3>3. ListAgrees(c)' /\ FileAgrees(c)'
      BY <1>0, <3>1, <3>2, ApplyHand DEF ListAgrees, FileAgrees, ApplyPC, RevertPC, Having
    <3> QED
      BY <1>0, <3>1, <3>3, WorkRows DEF PCSets, ApplyPC, RevertPC
  <2> QED
    BY <2>1, <2>2
<1>7. CASE ApplyReplace(c)
  <2>1. CASE Skip(c, cur)
    BY <1>0, <1>7, <2>1, ApplyHand, SkipRows DEF ApplyReplace
  <2>2. CASE ~Skip(c, cur)
    <3>1. /\ pc[c] = "a_replace" /\ pc' = [pc EXCEPT ![c] = "a_verify"]
          /\ UNCHANGED <<item, todo, cur>>
      BY <1>7, <2>2 DEF ApplyReplace
    <3>2. pc'[c] = "a_verify" /\ FileAgrees(c)
      BY <3>1 DEF TypeOK, Rows
    <3>3. ListAgrees(c)' /\ FileAgrees(c)'
      BY <1>0, <3>1, <3>2, ApplyHand DEF ListAgrees, FileAgrees, ApplyPC, RevertPC, Having
    <3> QED
      BY <1>0, <3>1, <3>3, WorkRows DEF PCSets, ApplyPC, RevertPC
  <2> QED
    BY <2>1, <2>2
<1>8. CASE ApplyVerify(c)
  <2>1. CASE Skip(c, cur)
    BY <1>0, <1>8, <2>1, ApplyHand, SkipRows DEF ApplyVerify
  <2>2. CASE ~Skip(c, cur)
    <3> DEFINE row == [it EXCEPT !.status = "applied", !.applied = it.plan, !.appliedAt = TRUE]
    <3>1. pc[c] = "a_verify" /\ UpdateItem(r, cur, row) /\ NextItem(c, cur, "a_next")
      BY <1>8, <2>2 DEF ApplyVerify
    <3>2. it \in Item /\ it.plan \in Contents /\ it.status = "approved" /\ it.approvedAt
          /\ it.planned \in {None, it.plan}
          /\ cur \in Files /\ cur \in todo /\ todo = Having(r, "approved") /\ status[r] = "applying"
      BY <3>1, ApplyHand
    <3>3. /\ row \in Item /\ row.status = "applied" /\ row.approvedAt /\ row.appliedAt
          /\ row.planned \in {None, row.plan}
      BY <3>2 DEF Item, ItemState, Hash
    <3>4. /\ item'[r][cur] = row
          /\ \A q \in Runs, g \in Files : q # r \/ g # cur => item'[q][g] = item[q][g]
          /\ Having(r, "approved")' = Having(r, "approved") \ {cur}
      <4> HIDE DEF row
      <4> QED
        BY <1>0, <3>1, <3>2, <3>3, RowUpdated
    <3>5. RowMove(r, cur)
      BY <3>2, <3>3, <3>4 DEF RowMove
    <3>6. pc' = [pc EXCEPT ![c] = "a_next"] /\ pc'[c] = "a_next" /\ todo' = todo \ {cur} /\ req' = req
      BY <1>0, <3>1 DEF NextItem, TypeOK
    <3>7. ListAgrees(c)' /\ FileAgrees(c)'
      BY <3>2, <3>4, <3>6 DEF ListAgrees, FileAgrees, ApplyPC, RevertPC, Having
    <3> QED
      BY <1>0, <3>2, <3>5, <3>6, <3>7, WorkRows DEF PCSets, ApplyPC, RevertPC
  <2> QED
    BY <2>1, <2>2
<1> QED
  BY <1>1, <1>2, <1>3, <1>4, <1>5, <1>6, <1>7, <1>8

\* Where the lock holder is in a revert, what it has in hand.
LEMMA RevertHand ==
  ASSUME IInv, Rows, NEW c \in Clients, pc[c] \in RevertPC
  PROVE  /\ req[c].run \in Runs /\ status[req[c].run] = "reverting"
         /\ pc[c] \in PCSets /\ todo \subseteq Having(req[c].run, "applied")
         /\ pc[c] # "r_next" => /\ cur \in Files /\ cur \in todo
                                /\ item[req[c].run][cur] \in Item
                                /\ item[req[c].run][cur].status = "applied"
<1> DEFINE r == req[c].run
<1>1. r \in Runs /\ status[r] = "reverting" /\ pc[c] \in PCSets
  BY DEF IInv, Control, RequestsAgree, RevertPC, PCSets
<1>2. todo \subseteq Having(r, "applied") /\ (pc[c] # "r_next" => cur \in todo)
  BY DEF Rows, ListAgrees, RevertPC
<1>3. \A f \in todo : f \in Files /\ item[r][f].status = "applied"
  BY <1>2 DEF Having
<1>4. \A f \in Files : item[r][f] \in Item
  BY <1>1 DEF IInv, TypeOK
<1> QED
  BY <1>1, <1>2, <1>3, <1>4

\* An applied row that is found restored.
LEMMA UndoneRow ==
  ASSUME IInv, Rows, NEW r \in Runs, NEW f \in Files, item[r][f].status = "applied",
         UpdateItem(r, f, [item[r][f] EXCEPT !.status = "reverted"])
  PROVE  RowMove(r, f) /\ item'[r][f].status = "reverted"
<1> DEFINE row == [item[r][f] EXCEPT !.status = "reverted"]
<1>1. item[r][f] \in Item
  BY DEF IInv, TypeOK
<1>2. /\ row \in Item /\ row.status = "reverted" /\ row.approvedAt = item[r][f].approvedAt
      /\ row.appliedAt = item[r][f].appliedAt
      /\ row.planned = item[r][f].planned /\ row.plan = item[r][f].plan
  BY <1>1 DEF Item, ItemState
<1>3. item[r][f].approvedAt /\ item[r][f].appliedAt /\ item[r][f].planned \in {None, item[r][f].plan}
  BY DEF Rows, RowsAgree
<1>4. /\ item'[r][f] = row
      /\ \A q \in Runs, g \in Files : q # r \/ g # f => item'[q][g] = item[q][g]
  <2>1. UpdateItem(r, f, row)
    OBVIOUS
  <2> HIDE DEF row
  <2> QED
    BY <1>2, <2>1, UpdateType DEF IInv
<1> HIDE DEF row
<1> QED
  BY <1>2, <1>3, <1>4 DEF RowMove

LEMMA RevertWorkRows ==
  ASSUME IInv, Rows, NEW c \in Clients, RevertItem(c) \/ RevertWrite(c) \/ RevertCommit(c)
  PROVE  Rows'
<1> USE DEF IInv
<1> DEFINE r == req[c].run
           it == item[r][cur]
<1>0. pc[c] \in RevertPC /\ UNCHANGED <<status, req>>
  BY DEF RevertItem, RevertWrite, RevertCommit, RevertPC
<1>1. /\ r \in Runs /\ status[r] = "reverting" /\ pc[c] \in PCSets
      /\ todo \subseteq Having(r, "applied")
      /\ pc[c] # "r_next" => /\ cur \in Files /\ cur \in todo /\ it \in Item /\ it.status = "applied"
  BY <1>0, RevertHand
<1>2. ASSUME NEW f \in todo, NextItem(c, f, "r_next"),
             \/ item' = item
             \/ RowMove(r, f) /\ item[r][f].status = "applied" /\ item'[r][f].status = "reverted"
      PROVE  Rows'
  <2>1. pc' = [pc EXCEPT ![c] = "r_next"] /\ pc'[c] = "r_next" /\ todo' = todo \ {f} /\ f \in Files
    BY <1>2 DEF NextItem, TypeOK
  <2>2. todo' \subseteq Having(r, "applied")'
    <3>1. \A g \in Files : g # f => item'[r][g] = item[r][g]
      BY <1>1, <1>2 DEF RowMove
    <3> QED
      BY <1>0, <1>1, <2>1, <3>1 DEF Having
  <2>3. ListAgrees(c)' /\ FileAgrees(c)'
    BY <1>0, <2>1, <2>2 DEF ListAgrees, FileAgrees, ApplyPC, RevertPC, Having
  <2> QED
    BY <1>0, <1>1, <1>2, <2>1, <2>3, WorkRows DEF PCSets, ApplyPC, RevertPC
<1>3. CASE RevertItem(c)
  <2>1. PICK f \in todo :
          \/ NextItem(c, f, "r_next")
          \/ /\ cur' = f /\ todo' = todo /\ pc' = [pc EXCEPT ![c] = "r_write"]
             /\ file[f] = item[r][f].applied
    BY <1>3 DEF RevertItem
  <2>2. UNCHANGED <<item, file>>
    BY <1>3 DEF RevertItem
  <2>3. CASE NextItem(c, f, "r_next")
    BY <1>2, <2>2, <2>3
  <2>4. CASE ~NextItem(c, f, "r_next")
    <3>1. pc'[c] = "r_write"
      BY <2>1, <2>4 DEF TypeOK
    <3>2. ListAgrees(c)' /\ FileAgrees(c)'
      BY <1>0, <1>1, <2>1, <2>2, <2>4, <3>1 DEF ListAgrees, FileAgrees, ApplyPC, RevertPC, Having
    <3> QED
      BY <1>0, <1>1, <2>1, <2>2, <2>4, <3>2, WorkRows DEF PCSets, ApplyPC, RevertPC
  <2> QED
    BY <2>3, <2>4
<1>4. CASE RevertWrite(c)
  <2>1. pc[c] = "r_write" /\ item' = item
    BY <1>4 DEF RevertWrite
  <2>2. CASE NextItem(c, cur, "r_next")
    BY <1>1, <1>2, <2>1, <2>2
  <2>3. CASE ~NextItem(c, cur, "r_next")
    <3>1. /\ file' = [file EXCEPT ![cur] = it.source] /\ writer' = [writer EXCEPT ![cur] = 0]
          /\ pc' = [pc EXCEPT ![c] = "r_commit"] /\ UNCHANGED <<todo, cur>>
      BY <1>4, <2>3 DEF RevertWrite
    <3>2. pc'[c] = "r_commit" /\ file'[cur] = it.source /\ writer'[cur] = 0
      BY <1>1, <2>1, <3>1 DEF TypeOK
    <3>3. ListAgrees(c)' /\ FileAgrees(c)'
      BY <1>0, <1>1, <2>1, <3>1, <3>2 DEF ListAgrees, FileAgrees, ApplyPC, RevertPC, Having
    <3> QED
      BY <1>0, <1>1, <2>1, <3>1, <3>3, WorkRows DEF PCSets, ApplyPC, RevertPC
  <2> QED
    BY <2>2, <2>3
<1>5. CASE RevertCommit(c)
  <2>1. pc[c] = "r_commit" /\ NextItem(c, cur, "r_next")
        /\ (item' = item \/ UpdateItem(r, cur, [it EXCEPT !.status = "reverted"]))
    BY <1>5 DEF RevertCommit
  <2>2. \/ item' = item
        \/ RowMove(r, cur) /\ item'[r][cur].status = "reverted"
    <3>1. CASE UpdateItem(r, cur, [it EXCEPT !.status = "reverted"])
      <4>1. cur \in Files /\ item[r][cur].status = "applied" /\ r \in Runs
        BY <1>1, <2>1
      <4> QED
        BY <3>1, <4>1, UndoneRow
    <3> QED
      BY <2>1, <3>1
  <2> QED
    BY <1>1, <1>2, <2>1, <2>2
<1> QED
  BY <1>3, <1>4, <1>5

\* Recovery works when no client is under way.
LEMMA RecoverRows ==
  ASSUME IInv, Rows, Recover
  PROVE  Rows'
<1> USE DEF IInv, Control
<1>0. \A d \in Clients : pc'[d] = "idle"
  <2>1. UNCHANGED pc
    BY DEF Recover, RecoverDraft, RecoverApplyItem, RecoverApplyDone,
           RecoverRevertItem, RecoverRevertDone, RecoverDone
  <2> QED
    BY <2>1 DEF Recover, ThreadsAgree
<1>1. \A d \in Clients : ClientRows(d)'
  BY <1>0 DEF ClientRows, ListAgrees, FileAgrees, SawAgrees, ApplyPC, RevertPC
<1>2. CASE RecoverDraft \/ RecoverApplyDone \/ RecoverRevertDone \/ RecoverDone
  <2>1. item' = item
    BY <1>2 DEF RecoverDraft, RecoverApplyDone, RecoverRevertDone, RecoverDone
  <2>2. \A q \in Runs : StatusMove(q)
    <3>1. CASE RecoverDraft
      BY <3>1 DEF TypeOK, RecoverDraft, In, StatusMove, Draft
    <3>2. CASE RecoverApplyDone
      BY <3>2 DEF TypeOK, RecoverApplyDone, In, StatusMove
    <3>3. CASE RecoverRevertDone
      <4> DEFINE before(r) == IF \E f \in Files : item[r][f].appliedAt THEN "partial" ELSE "failed"
      <4>1. PICK r \in In({"reverting"}) : status' = [status EXCEPT ![r] = RevertVerdict(r, before(r))]
        BY <3>3 DEF RecoverRevertDone
      <4>2. before(r) \in {"partial", "failed"} /\ (before(r) = "failed" => \A f \in Files : ~item[r][f].appliedAt)
        OBVIOUS
      <4>3. r \in Runs /\ status[r] = "reverting"
        BY DEF In
      <4> HIDE DEF before
      <4>4. status'[r] = RevertVerdict(r, before(r)) /\ \A q \in Runs : q # r => status'[q] = status[q]
        BY <4>1, <4>3 DEF TypeOK
      <4>5. StatusMove(r)
        BY <4>2, <4>3, <4>4 DEF StatusMove
      <4> QED
        BY <4>4, <4>5 DEF StatusMove
    <3>4. CASE RecoverDone
      BY <3>4 DEF RecoverDone, StatusMove
    <3> QED
      BY <1>2, <3>1, <3>2, <3>3, <3>4
  <2> QED
    BY <1>1, <2>1, <2>2, StatusRows DEF Rows, ClientRows
<1>3. CASE RecoverApplyItem
  <2>1. PICK r \in In({"applying"}) : \E f \in Having(r, "approved") :
          LET it == item[r][f] IN
          \/ /\ it.planned # None
             /\ UpdateItem(r, f, [it EXCEPT !.status = "applied", !.applied = it.planned, !.appliedAt = TRUE])
          \/ UpdateItem(r, f, [it EXCEPT !.status = "skipped"])
    BY <1>3 DEF RecoverApplyItem
  <2>2. PICK f \in Having(r, "approved") :
          \/ /\ item[r][f].planned # None
             /\ UpdateItem(r, f, [item[r][f] EXCEPT !.status = "applied", !.applied = item[r][f].planned,
                                                    !.appliedAt = TRUE])
          \/ UpdateItem(r, f, [item[r][f] EXCEPT !.status = "skipped"])
    BY <2>1
  <2> DEFINE old == item[r][f]
             done == [old EXCEPT !.status = "applied", !.applied = old.planned, !.appliedAt = TRUE]
             skip == [old EXCEPT !.status = "skipped"]
  <2>3. r \in Runs /\ f \in Files /\ status[r] = "applying" /\ status' = status
    BY <1>3 DEF RecoverApplyItem, In, Having
  <2>4. old \in Item /\ old.status = "approved"
    BY <2>3 DEF TypeOK, Having
  <2>5. old.approvedAt /\ old.appliedAt = FALSE /\ old.planned \in {None, old.plan}
    <3>1. old.appliedAt \in BOOLEAN
      BY <2>4 DEF Item
    <3> QED
      BY <2>3, <2>4, <3>1 DEF Rows, RowsAgree
  <2>6. /\ done \in Item /\ done.status = "applied" /\ done.appliedAt = TRUE
        /\ done.approvedAt = old.approvedAt /\ done.planned = old.planned /\ done.plan = old.plan
    BY <2>4 DEF Item, ItemState
  <2>7. /\ skip \in Item /\ skip.status = "skipped" /\ skip.appliedAt = FALSE
        /\ skip.approvedAt = old.approvedAt /\ skip.planned = old.planned /\ skip.plan = old.plan
    BY <2>4, <2>5 DEF Item, ItemState
  <2>8. UpdateItem(r, f, done) \/ UpdateItem(r, f, skip)
    BY <2>2
  <2> HIDE DEF done, skip
  <2>9. RowMove(r, f)
    <3>1. CASE UpdateItem(r, f, done)
      BY <2>3, <2>5, <2>6, <3>1, RowUpdated DEF RowMove
    <3>2. CASE UpdateItem(r, f, skip)
      <4>1. /\ item'[r][f] = skip
            /\ \A q \in Runs, g \in Files : q # r \/ g # f => item'[q][g] = item[q][g]
        BY <2>3, <2>7, <3>2, UpdateType
      <4>2. skip.approvedAt /\ ~skip.appliedAt /\ skip.planned \in {None, skip.plan}
        BY <2>5, <2>7
      <4> QED
        BY <2>7, <4>1, <4>2 DEF RowMove
    <3> QED
      BY <2>8, <3>1, <3>2
  <2> QED
    BY <1>1, <2>3, <2>9, RowRows DEF Rows, ClientRows
<1>4. CASE RecoverRevertItem
  <2>1. PICK r \in In({"reverting"}) : \E f \in Having(r, "applied") :
          UpdateItem(r, f, [item[r][f] EXCEPT !.status = "reverted"]) \/ item' = item
    BY <1>4 DEF RecoverRevertItem
  <2>2. PICK f \in Having(r, "applied") :
          UpdateItem(r, f, [item[r][f] EXCEPT !.status = "reverted"]) \/ item' = item
    BY <2>1
  <2>3. r \in Runs /\ f \in Files /\ status[r] = "reverting" /\ status' = status /\ item[r][f].status = "applied"
    BY <1>4 DEF RecoverRevertItem, In, Having
  <2>4. CASE item' = item
    BY <1>1, <2>3, <2>4, StatusRows DEF Rows, ClientRows, StatusMove
  <2>5. CASE UpdateItem(r, f, [item[r][f] EXCEPT !.status = "reverted"])
    BY <1>1, <2>3, <2>5, UndoneRow, RowRows DEF Rows, ClientRows
  <2> QED
    BY <2>2, <2>4, <2>5
<1> QED
  BY <1>2, <1>3, <1>4 DEF Recover

LEMMA InitRows == Init => Rows
<1> SUFFICES ASSUME Init
             PROVE  Rows
  OBVIOUS
<1>1. \A r \in Runs : status[r] = "none" /\ \A f \in Files : item[r][f] = Blank
  BY DEF Init
<1>2. RowsAgree /\ VerdictAgrees
  BY <1>1 DEF RowsAgree, VerdictAgrees, Blank
<1>3. \A c \in Clients : pc[c] = "idle"
  BY DEF Init
<1> QED
  BY <1>2, <1>3 DEF Rows, ListAgrees, FileAgrees, SawAgrees, ApplyPC, RevertPC

LEMMA StepRows == IInv /\ Rows /\ [Next]_vars => Rows'
<1> SUFFICES ASSUME IInv, Rows, [Next]_vars
             PROVE  Rows'
  OBVIOUS
<1>1. ASSUME NEW c \in Clients, Request(c)
      PROVE  Rows'
  <2>1. CASE Start(c)
    BY <2>1, StartRows
  <2>2. CASE Apply(c)
    BY <2>2, EntryRows, ClaimRows, ApplyWorkRows, FinishRows DEF Apply
  <2>3. CASE Revert(c)
    BY <2>3, EntryRows, ClaimRows, RevertWorkRows, FinishRows DEF Revert
  <2> QED
    BY <1>1, <2>1, <2>2, <2>3 DEF Request
<1>2. CASE Job
  BY <1>2, JobRows
<1>3. CASE UserEdit \/ Crash
  BY <1>3, EnvironmentRows
<1>4. CASE Recover
  BY <1>4, RecoverRows
<1>5. CASE UNCHANGED vars
  BY <1>5 DEF vars, Rows, RowsAgree, VerdictAgrees, ListAgrees, FileAgrees, SawAgrees, Having
<1> QED
  BY <1>1, <1>2, <1>3, <1>4, <1>5 DEF Next

\* What a settled run tells the user agrees with what became of its items, for
\* whatever the reverting request had read of the run before it got the lock.
THEOREM VerdictAgreesAlways == Spec => []VerdictAgrees
<1>1. Rows => VerdictAgrees
  BY DEF Rows
<1> QED
  BY <1>1, InitIInv, StepIInv, InitRows, StepRows, PTL DEF Spec

-----------------------------------------------------------------------------
(* What a step does to the items: at most one row of the one run that is    *)
(* being applied or reverted, in one of these ways.                         *)

Ways == {"reject", "agree", "record", "skip", "make", "undo"}

RowWay(r, f, way) ==
  LET old == item[r][f]  new == item'[r][f] IN
  /\ RowMove(r, f) /\ new.source = old.source
  /\ way \in {"reject", "agree"} => old.status = "proposed" /\ \A g \in Files : ~item[r][g].appliedAt
  /\ way \in {"record", "skip", "make"} => old.status = "approved"
  /\ way = "undo" => old.status = "applied"
  /\ new.status = CASE way = "reject" -> "rejected"
                    [] way \in {"agree", "record"} -> "approved"
                    [] way = "skip" -> "skipped"
                    [] way = "make" -> "applied"
                    [] way = "undo" -> "reverted"
  /\ way = "make" => new.applied = file[f]
  /\ way = "undo" => file[f] = old.source \/ touched

\* Giving up on an approved row, at a place where the list is the approved ones.
LEMMA SkipWay ==
  ASSUME IInv, Rows, NEW c \in Clients, pc[c] \in ApplyPC, pc[c] # "a_mark", NEW f \in todo, Skip(c, f)
  PROVE  req[c].run \in Runs /\ f \in Files /\ RowWay(req[c].run, f, "skip")
<1> USE DEF IInv
<1> DEFINE r == req[c].run
           row == [item[r][f] EXCEPT !.status = "skipped"]
<1>1. r \in Runs /\ f \in Files
  BY DEF Control, RequestsAgree, TypeOK, ApplyPC
<1>2. item[r][f] \in Item /\ item[r][f].status = "approved"
  BY <1>1 DEF Rows, ListAgrees, Having, TypeOK
<1>3. item[r][f].approvedAt /\ ~item[r][f].appliedAt /\ item[r][f].planned \in {None, item[r][f].plan}
  BY <1>1, <1>2 DEF Rows, RowsAgree
<1>4. /\ row \in Item /\ row.status = "skipped" /\ row.source = item[r][f].source
      /\ row.approvedAt = item[r][f].approvedAt /\ row.appliedAt = item[r][f].appliedAt
      /\ row.planned = item[r][f].planned /\ row.plan = item[r][f].plan
  BY <1>2 DEF Item, ItemState
<1>5. UpdateItem(r, f, row)
  BY DEF Skip
<1> HIDE DEF row
<1>6. /\ item'[r][f] = row
      /\ \A q \in Runs, g \in Files : q # r \/ g # f => item'[q][g] = item[q][g]
  BY <1>1, <1>4, <1>5, UpdateType
<1>7. row.approvedAt /\ ~row.appliedAt /\ row.planned \in {None, row.plan}
  BY <1>3, <1>4
<1> QED
  BY <1>1, <1>2, <1>4, <1>6, <1>7 DEF RowMove, RowWay

LEMMA ApplyWay ==
  ASSUME IInv, Rows, NEW c \in Clients, Apply(c), item' # item
  PROVE  /\ req[c].run \in Runs /\ status[req[c].run] = "applying" /\ status' = status
         /\ \E f \in Files, way \in Ways \ {"undo"} : RowWay(req[c].run, f, way)
<1> USE DEF IInv
<1> DEFINE r == req[c].run
           it == item[r][cur]
<1>1. CASE ApplyMark(c)
  <2>1. PICK f \in todo :
          UpdateItem(r, f, IF f \in req[c].chosen
                           THEN [item[r][f] EXCEPT !.status = "approved", !.approvedAt = TRUE]
                           ELSE [item[r][f] EXCEPT !.status = "rejected"])
    BY <1>1 DEF ApplyMark
  <2> DEFINE old == item[r][f]
             yes == [old EXCEPT !.status = "approved", !.approvedAt = TRUE]
             no  == [old EXCEPT !.status = "rejected"]
  <2>2. pc[c] = "a_mark" /\ f \in Files /\ r \in Runs /\ status[r] = "applying" /\ status' = status
    BY <1>1 DEF ApplyMark, TypeOK, Control, RequestsAgree, ApplyPC
  <2>3. old.status = "proposed" /\ \A g \in Files : ~item[r][g].appliedAt
    BY <2>2 DEF Rows, ListAgrees
  <2>4. old \in Item
    BY <2>2 DEF TypeOK
  <2>5. ~old.approvedAt /\ old.planned \in {None, old.plan}
    BY <2>2, <2>3 DEF Rows, RowsAgree
  <2>6. old.approvedAt = FALSE /\ old.appliedAt = FALSE
    BY <2>2, <2>3, <2>4, <2>5 DEF Item
  <2>7. /\ yes \in Item /\ yes.status = "approved" /\ yes.approvedAt = TRUE /\ yes.appliedAt = FALSE
        /\ yes.planned = old.planned /\ yes.plan = old.plan /\ yes.source = old.source
    BY <2>4, <2>6 DEF Item, ItemState
  <2>8. /\ no \in Item /\ no.status = "rejected" /\ no.approvedAt = FALSE /\ no.appliedAt = FALSE
        /\ no.planned = old.planned /\ no.plan = old.plan /\ no.source = old.source
    BY <2>4, <2>6 DEF Item, ItemState
  <2>9. UpdateItem(r, f, yes) \/ UpdateItem(r, f, no)
    BY <2>1
  <2> HIDE DEF yes, no
  <2>10. CASE UpdateItem(r, f, yes)
    <3>1. /\ item'[r][f] = yes
          /\ \A q \in Runs, g \in Files : q # r \/ g # f => item'[q][g] = item[q][g]
      BY <2>2, <2>7, <2>10, UpdateType
    <3>2. RowWay(r, f, "agree")
      BY <2>2, <2>3, <2>5, <2>7, <3>1 DEF RowMove, RowWay
    <3> QED
      BY <2>2, <3>2 DEF Ways
  <2>11. CASE UpdateItem(r, f, no)
    <3>1. /\ item'[r][f] = no
          /\ \A q \in Runs, g \in Files : q # r \/ g # f => item'[q][g] = item[q][g]
      BY <2>2, <2>8, <2>11, UpdateType
    <3>2. RowWay(r, f, "reject")
      BY <2>2, <2>3, <2>5, <2>8, <3>1 DEF RowMove, RowWay
    <3> QED
      BY <2>2, <3>2 DEF Ways
  <2> QED
    BY <2>9, <2>10, <2>11
<1>2. CASE ApplyRecord(c)
  <2> DEFINE row == [it EXCEPT !.planned = it.plan, !.saved = (it.source # None)]
  <2>1. pc[c] = "a_record" /\ UpdateItem(r, cur, row) /\ status' = status
    BY <1>2 DEF ApplyRecord, Goto
  <2>2. it \in Item /\ it.plan \in Contents /\ it.status = "approved" /\ it.approvedAt /\ ~it.appliedAt
        /\ r \in Runs /\ cur \in Files /\ status[r] = "applying"
    BY <2>1, ApplyHand
  <2>3. /\ row \in Item /\ row.status = "approved" /\ row.approvedAt /\ ~row.appliedAt
        /\ row.planned = it.plan /\ row.plan = it.plan /\ row.source = it.source
    BY <2>2 DEF Item, Hash
  <2> HIDE DEF row
  <2>4. /\ item'[r][cur] = row
        /\ \A q \in Runs, g \in Files : q # r \/ g # cur => item'[q][g] = item[q][g]
    BY <2>1, <2>2, <2>3, UpdateType
  <2>5. RowWay(r, cur, "record")
    BY <2>2, <2>3, <2>4 DEF RowMove, RowWay
  <2> QED
    BY <2>1, <2>2, <2>5 DEF Ways
<1>3. ASSUME NEW f \in todo, Skip(c, f), pc[c] \in ApplyPC, pc[c] # "a_mark", status' = status
      PROVE  /\ r \in Runs /\ status[r] = "applying" /\ status' = status
             /\ \E g \in Files, way \in Ways \ {"undo"} : RowWay(r, g, way)
  <2>1. status[r] = "applying"
    BY <1>3 DEF Control, RequestsAgree
  <2> QED
    BY <1>3, <2>1, SkipWay DEF Ways
<1>4. CASE ApplyVerify(c)
  <2> DEFINE row == [it EXCEPT !.status = "applied", !.applied = it.plan, !.appliedAt = TRUE]
  <2>1. /\ pc[c] = "a_verify" /\ status' = status
        /\ (file[cur] = it.plan /\ UpdateItem(r, cur, row)) \/ Skip(c, cur)
    BY <1>4 DEF ApplyVerify
  <2>2. it \in Item /\ it.plan \in Contents /\ it.status = "approved" /\ it.approvedAt
        /\ it.planned \in {None, it.plan}
        /\ r \in Runs /\ cur \in Files /\ cur \in todo /\ status[r] = "applying"
    BY <2>1, ApplyHand
  <2>3. CASE Skip(c, cur)
    BY <1>3, <2>1, <2>2, <2>3 DEF ApplyPC
  <2>4. CASE file[cur] = it.plan /\ UpdateItem(r, cur, row)
    <3>1. /\ row \in Item /\ row.status = "applied" /\ row.approvedAt /\ row.appliedAt
          /\ row.planned \in {None, row.plan} /\ row.source = it.source /\ row.applied = it.plan
      BY <2>2 DEF Item, ItemState, Hash
    <3> HIDE DEF row
    <3>2. /\ item'[r][cur] = row
          /\ \A q \in Runs, g \in Files : q # r \/ g # cur => item'[q][g] = item[q][g]
      BY <2>2, <2>4, <3>1, UpdateType
    <3>3. RowWay(r, cur, "make")
      BY <2>2, <2>4, <3>1, <3>2 DEF RowMove, RowWay
    <3> QED
      BY <2>1, <2>2, <3>3 DEF Ways
  <2> QED
    BY <2>1, <2>3, <2>4
<1>5. CASE ApplyItem(c) \/ ApplyBackup(c) \/ ApplyRecheck(c) \/ ApplyReplace(c)
  <2>1. pc[c] \in ApplyPC /\ pc[c] # "a_mark" /\ status' = status
    BY <1>5 DEF ApplyItem, ApplyBackup, ApplyRecheck, ApplyReplace, ApplyPC
  <2>2. CASE ApplyItem(c)
    <3>1. PICK f \in todo : Skip(c, f)
      BY <2>2 DEF ApplyItem
    <3> QED
      BY <1>3, <2>1, <3>1
  <2>3. CASE ApplyBackup(c) \/ ApplyRecheck(c) \/ ApplyReplace(c)
    <3>1. Skip(c, cur)
      BY <2>3 DEF ApplyBackup, ApplyRecheck, ApplyReplace
    <3>2. cur \in todo
      BY <2>3, ApplyHand DEF ApplyBackup, ApplyRecheck, ApplyReplace
    <3> QED
      BY <1>3, <2>1, <3>1, <3>2
  <2> QED
    BY <1>5, <2>2, <2>3
<1>6. CASE \/ ApplyRead(c) \/ ApplyLock(c) \/ ApplyRefuse(c) \/ ApplyCheck(c) \/ ApplyClaim(c)
           \/ ApplyLost(c) \/ ApplyListed(c) \/ ApplyFinish(c)
  BY <1>6 DEF ApplyRead, ApplyLock, Acquire, ApplyRefuse, ApplyCheck, ApplyClaim, ApplyLost,
     ApplyListed, ApplyFinish
<1> QED
  BY <1>1, <1>2, <1>4, <1>5, <1>6 DEF Apply

LEMMA UndoWay ==
  ASSUME IInv, Rows, NEW r \in Runs, NEW f \in Files, item[r][f].status = "applied",
         UpdateItem(r, f, [item[r][f] EXCEPT !.status = "reverted"]),
         file[f] = item[r][f].source \/ touched
  PROVE  RowWay(r, f, "undo")
<1> DEFINE row == [item[r][f] EXCEPT !.status = "reverted"]
<1>1. item[r][f] \in Item
  BY DEF IInv, TypeOK
<1>2. row \in Item /\ row.source = item[r][f].source
  BY <1>1 DEF Item, ItemState
<1>3. item'[r][f] = row
  <2>1. UpdateItem(r, f, row)
    OBVIOUS
  <2> HIDE DEF row
  <2> QED
    BY <1>2, <2>1, UpdateType DEF IInv
<1>4. item'[r][f].source = item[r][f].source
  BY <1>2, <1>3
<1> QED
  BY <1>4, UndoneRow DEF RowWay

LEMMA RevertWay ==
  ASSUME IInv, Rows, NEW c \in Clients, Revert(c), item' # item
  PROVE  /\ req[c].run \in Runs /\ status[req[c].run] = "reverting" /\ status' = status
         /\ pc[c] = "r_commit" /\ cur \in Files /\ RowWay(req[c].run, cur, "undo")
<1> DEFINE r == req[c].run
           it == item[r][cur]
<1>1. CASE RevertCommit(c)
  <2>1. /\ pc[c] = "r_commit" /\ status' = status
        /\ UpdateItem(r, cur, [it EXCEPT !.status = "reverted"])
    BY <1>1 DEF RevertCommit
  <2>2. r \in Runs /\ status[r] = "reverting" /\ cur \in Files /\ item[r][cur].status = "applied"
    BY <2>1, RevertHand DEF RevertPC
  <2>3. file[cur] = item[r][cur].source \/ touched
    BY <2>1 DEF Rows, FileAgrees
  <2>4. RowWay(r, cur, "undo")
    BY <2>1, <2>2, <2>3, UndoWay
  <2> QED
    BY <2>1, <2>2, <2>4
<1>2. CASE \/ RevertRead(c) \/ RevertLock(c) \/ RevertRefuse(c) \/ RevertCheck(c) \/ RevertClaim(c)
           \/ RevertItem(c) \/ RevertWrite(c) \/ RevertFinish(c)
  BY <1>2 DEF RevertRead, RevertLock, Acquire, RevertRefuse, RevertCheck, RevertClaim,
     RevertItem, RevertWrite, RevertFinish
<1> QED
  BY <1>1, <1>2 DEF Revert

LEMMA RecoverWay ==
  ASSUME IInv, Rows, Recover, item' # item
  PROVE  /\ status' = status
         /\ \E r \in Runs, f \in Files :
              \/ status[r] = "applying" /\ RowWay(r, f, "make")
              \/ /\ status[r] = "applying" /\ RowWay(r, f, "skip")
                 /\ \/ item[r][f].planned = None \/ file[f] # item[r][f].planned
                    \/ "read" \in Faults
              \/ status[r] = "reverting" /\ RowWay(r, f, "undo") /\ file[f] = item[r][f].source
<1> USE DEF IInv
<1>1. CASE RecoverApplyItem
  <2>1. PICK r \in In({"applying"}) : \E f \in Having(r, "approved") :
          LET it == item[r][f] IN
          \/ /\ it.planned # None /\ file[f] = it.planned
             /\ UpdateItem(r, f, [it EXCEPT !.status = "applied", !.applied = it.planned, !.appliedAt = TRUE])
          \/ /\ it.planned = None \/ file[f] # it.planned \/ "read" \in Faults
             /\ UpdateItem(r, f, [it EXCEPT !.status = "skipped"])
    BY <1>1 DEF RecoverApplyItem
  <2>2. PICK f \in Having(r, "approved") :
          \/ /\ item[r][f].planned # None /\ file[f] = item[r][f].planned
             /\ UpdateItem(r, f, [item[r][f] EXCEPT !.status = "applied", !.applied = item[r][f].planned,
                                                    !.appliedAt = TRUE])
          \/ /\ item[r][f].planned = None \/ file[f] # item[r][f].planned \/ "read" \in Faults
             /\ UpdateItem(r, f, [item[r][f] EXCEPT !.status = "skipped"])
    BY <2>1
  <2> DEFINE old == item[r][f]
             done == [old EXCEPT !.status = "applied", !.applied = old.planned, !.appliedAt = TRUE]
             skip == [old EXCEPT !.status = "skipped"]
  <2>3. r \in Runs /\ f \in Files /\ status[r] = "applying" /\ status' = status /\ old.status = "approved"
    BY <1>1 DEF RecoverApplyItem, In, Having
  <2>4. old \in Item
    BY <2>3 DEF TypeOK
  <2>5. old.approvedAt /\ old.appliedAt = FALSE /\ old.planned \in {None, old.plan}
    <3>1. old.appliedAt \in BOOLEAN
      BY <2>4 DEF Item
    <3> QED
      BY <2>3, <3>1 DEF Rows, RowsAgree
  <2>6. /\ done \in Item /\ done.status = "applied" /\ done.appliedAt = TRUE /\ done.source = old.source
        /\ done.approvedAt = old.approvedAt /\ done.planned = old.planned /\ done.plan = old.plan
        /\ done.applied = old.planned
    BY <2>4 DEF Item, ItemState
  <2>7. /\ skip \in Item /\ skip.status = "skipped" /\ skip.appliedAt = FALSE /\ skip.source = old.source
        /\ skip.approvedAt = old.approvedAt /\ skip.planned = old.planned /\ skip.plan = old.plan
    BY <2>4, <2>5 DEF Item, ItemState
  <2>8. \/ file[f] = old.planned /\ UpdateItem(r, f, done)
        \/ /\ old.planned = None \/ file[f] # old.planned \/ "read" \in Faults
           /\ UpdateItem(r, f, skip)
    BY <2>2
  <2> HIDE DEF done, skip
  <2>9. CASE file[f] = old.planned /\ UpdateItem(r, f, done)
    <3>1. /\ item'[r][f] = done
          /\ \A q \in Runs, g \in Files : q # r \/ g # f => item'[q][g] = item[q][g]
      BY <2>3, <2>6, <2>9, UpdateType
    <3>2. done.approvedAt /\ done.appliedAt /\ done.planned \in {None, done.plan}
      BY <2>5, <2>6
    <3>3. RowWay(r, f, "make")
      BY <2>3, <2>6, <2>9, <3>1, <3>2 DEF RowMove, RowWay
    <3> QED
      BY <2>3, <3>3
  <2>10. CASE /\ old.planned = None \/ file[f] # old.planned \/ "read" \in Faults
              /\ UpdateItem(r, f, skip)
    <3>1. /\ item'[r][f] = skip
          /\ \A q \in Runs, g \in Files : q # r \/ g # f => item'[q][g] = item[q][g]
      BY <2>3, <2>7, <2>10, UpdateType
    <3>2. skip.approvedAt /\ ~skip.appliedAt /\ skip.planned \in {None, skip.plan}
      BY <2>5, <2>7
    <3>3. RowWay(r, f, "skip")
      BY <2>3, <2>7, <3>1, <3>2 DEF RowMove, RowWay
    <3> QED
      BY <2>3, <2>10, <3>3
  <2> QED
    BY <2>8, <2>9, <2>10
<1>2. CASE RecoverRevertItem
  <2>1. PICK r \in In({"reverting"}) : \E f \in Having(r, "applied") :
          UpdateItem(r, f, [item[r][f] EXCEPT !.status = "reverted"]) /\ file[f] = item[r][f].source
    BY <1>2 DEF RecoverRevertItem
  <2>2. PICK f \in Having(r, "applied") :
          UpdateItem(r, f, [item[r][f] EXCEPT !.status = "reverted"]) /\ file[f] = item[r][f].source
    BY <2>1
  <2>3. r \in Runs /\ f \in Files /\ status[r] = "reverting" /\ status' = status /\ item[r][f].status = "applied"
    BY <1>2 DEF RecoverRevertItem, In, Having
  <2>4. RowWay(r, f, "undo")
    BY <2>2, <2>3, UndoWay
  <2> QED
    BY <2>2, <2>3, <2>4
<1>3. CASE RecoverDraft \/ RecoverApplyDone \/ RecoverRevertDone \/ RecoverDone
  BY <1>3 DEF RecoverDraft, RecoverApplyDone, RecoverRevertDone, RecoverDone
<1> QED
  BY <1>1, <1>2, <1>3 DEF Recover

\* The job stores the rows of a draft, with nothing agreed or changed.
LEMMA JobWay ==
  ASSUME IInv, Rows, Job, item' # item
  PROVE  /\ job.run \in Runs /\ status[job.run] = "running" /\ UNCHANGED <<status, file, phase>>
         /\ \A q \in Runs : q # job.run => item'[q] = item[q]
         /\ \A f \in Files : /\ item'[job.run][f].status \in {"none", "proposed"}
                             /\ ~item'[job.run][f].approvedAt /\ ~item'[job.run][f].appliedAt
<1> USE DEF IInv, Control
<1>1. JobStore
  BY DEF Job, JobClaim, JobCollect, JobFail, JobRaise, JobPublish
<1>2. PICK p \in [Files -> Plans] :
        item' = [item EXCEPT ![job.run] = [f \in Files |-> Proposed(snap[f], p[f])]]
  BY <1>1 DEF JobStore
<1>3. job.run \in Runs /\ status[job.run] = "running" /\ UNCHANGED <<status, file, phase>>
  BY <1>1 DEF JobStore, JobAgrees
<1>4. ASSUME NEW s, NEW q
      PROVE  /\ Proposed(s, q).status \in {"none", "proposed"}
             /\ ~Proposed(s, q).approvedAt /\ ~Proposed(s, q).appliedAt
  BY DEF Proposed, Blank
<1> QED
  BY <1>2, <1>3, <1>4 DEF TypeOK

\* Which steps change an item at all, and how.
LEMMA ItemWays ==
  ASSUME IInv, Rows, Next, item' # item
  PROVE  \/ Job
         \/ /\ status' = status
            /\ \E r \in Runs, f \in Files :
                 \/ status[r] = "applying" /\ \E way \in Ways \ {"undo"} : RowWay(r, f, way)
                 \/ status[r] = "reverting" /\ RowWay(r, f, "undo")
<1>1. ASSUME NEW c \in Clients, Request(c)
      PROVE  /\ status' = status
             /\ \E r \in Runs, f \in Files :
                  \/ status[r] = "applying" /\ \E way \in Ways \ {"undo"} : RowWay(r, f, way)
                  \/ status[r] = "reverting" /\ RowWay(r, f, "undo")
  <2>1. ~Start(c)
    BY DEF Start, StartCheck, StartCreate, StartJob
  <2>2. CASE Apply(c)
    BY <2>2, ApplyWay
  <2>3. CASE Revert(c)
    BY <2>3, RevertWay
  <2> QED
    BY <1>1, <2>1, <2>2, <2>3 DEF Request
<1>2. CASE Recover
  <2>1. "skip" \in Ways \ {"undo"} /\ "make" \in Ways \ {"undo"}
    BY DEF Ways
  <2> QED
    BY <1>2, <2>1, RecoverWay
<1>3. ~UserEdit /\ ~Crash
  BY DEF UserEdit, Crash
<1> QED
  BY <1>1, <1>2, <1>3 DEF Next

\* An item becomes "reverted" only with its file back to what it was, for any
\* faults and any stops; recovery obeys the same rule.
THEOREM RevertedMeansRestoredAlways == Spec => RevertedMeansRestored
<1> DEFINE Restored == \A r \in Runs : \A f \in Files :
             item'[r][f].status = "reverted" /\ item[r][f].status # "reverted"
               => file[f] = item[r][f].source \/ touched
<1>1. IInv /\ Rows /\ [Next]_vars => [Restored]_vars
  <2> SUFFICES ASSUME IInv, Rows, Next, NEW r \in Runs, NEW f \in Files,
                      item'[r][f].status = "reverted", item[r][f].status # "reverted"
               PROVE  file[f] = item[r][f].source \/ touched
    OBVIOUS
  <2>1. CASE Job
    BY <2>1, JobWay
  <2>2. ASSUME NEW q \in Runs, NEW g \in Files, NEW way \in Ways, RowWay(q, g, way)
        PROVE  file[f] = item[r][f].source \/ touched
    <3>1. q = r /\ g = f
      BY <2>2 DEF RowWay, RowMove
    <3>2. way = "undo"
      BY <2>2, <3>1 DEF RowWay, Ways
    <3> QED
      BY <2>2, <3>1, <3>2 DEF RowWay
  <2>3. "undo" \in Ways
    BY DEF Ways
  <2> QED
    BY <2>1, <2>2, <2>3, ItemWays
<1> QED
  BY <1>1, InitIInv, StepIInv, InitRows, StepRows, PTL DEF Spec, RevertedMeansRestored

\* The engine writes one file at a time, with consent, in place of exactly what
\* it had checked, and with the original saved, for any faults and any stops;
\* only an edit after the last check of the file can come in between.
THEOREM EngineWritesAreSafeAlways == Spec => EngineWritesAreSafe
<1> DEFINE Safe == \A f \in Files : file'[f] # file[f] /\ edits' = edits => EngineWriteAllowed(f)
<1>1. IInv /\ Rows /\ [Next]_vars => [Safe]_vars
  <2> SUFFICES ASSUME IInv, Rows, Next, NEW f \in Files, file'[f] # file[f], edits' = edits
               PROVE  EngineWriteAllowed(f)
    OBVIOUS
  <2>1. ~UserEdit
    BY DEF UserEdit, IInv, TypeOK
  <2>2. \E c \in Clients : ApplyReplace(c) \/ RevertWrite(c)
    <3>1. ~Job /\ ~Recover /\ ~Crash
      BY DEF Job, JobClaim, JobCollect, JobFail, JobRaise, JobStore, JobPublish, Crash,
             Recover, RecoverDraft, RecoverApplyItem, RecoverApplyDone,
             RecoverRevertItem, RecoverRevertDone, RecoverDone
    <3>2. PICK c \in Clients : Start(c) \/ Apply(c) \/ Revert(c)
      BY <2>1, <3>1 DEF Next, Request
    <3>3. ~Start(c)
      BY DEF Start, StartCheck, StartCreate, StartJob
    <3>4. CASE Apply(c)
      BY <3>4 DEF Apply, ApplyRead, ApplyLock, Acquire, ApplyRefuse, ApplyCheck, ApplyClaim, ApplyLost,
         ApplyMark, ApplyListed, ApplyItem, ApplyBackup, ApplyRecord, ApplyRecheck, ApplyVerify, ApplyFinish
    <3>5. CASE Revert(c)
      BY <3>5 DEF Revert, RevertRead, RevertLock, Acquire, RevertRefuse, RevertCheck, RevertClaim,
         RevertItem, RevertCommit, RevertFinish
    <3> QED
      BY <3>2, <3>3, <3>4, <3>5
  <2>3. PICK c \in Clients : ApplyReplace(c) \/ RevertWrite(c)
    BY <2>2
  <2> DEFINE r == req[c].run
             it == item[r][cur]
  <2>4. FileAgrees(c)
    BY DEF Rows
  <2>5. CASE ApplyReplace(c)
    <3>1. pc[c] = "a_replace" /\ file' = [file EXCEPT ![cur] = it.plan]
      BY <2>5 DEF ApplyReplace
    <3>2. r \in Runs /\ status[r] = "applying" /\ it.status = "approved"
      BY <3>1, ApplyHand
    <3>3. f = cur /\ file'[f] = it.plan
      BY <3>1 DEF IInv, TypeOK
    <3>4. it.planned = it.plan /\ (file[cur] = it.source \/ touched)
          /\ (it.source # None => backup[r][cur] = it.source)
      BY <2>4, <3>1 DEF FileAgrees
    <3> QED
      BY <3>2, <3>3, <3>4 DEF EngineWriteAllowed
  <2>6. CASE RevertWrite(c)
    <3>1. pc[c] = "r_write" /\ file' = [file EXCEPT ![cur] = it.source]
      BY <2>6 DEF RevertWrite
    <3>2. r \in Runs /\ status[r] = "reverting" /\ it.status = "applied"
      BY <3>1, RevertHand DEF RevertPC
    <3>3. f = cur /\ file'[f] = it.source
      BY <3>1 DEF IInv, TypeOK
    <3>4. file[cur] = it.applied \/ touched
      BY <2>4, <3>1 DEF FileAgrees
    <3> QED
      BY <3>2, <3>3, <3>4 DEF EngineWriteAllowed
  <2> QED
    BY <2>3, <2>5, <2>6
<1> QED
  BY <1>1, InitIInv, StepIInv, InitRows, StepRows, PTL DEF Spec, EngineWritesAreSafe

-----------------------------------------------------------------------------
(* What is written stays on record, as long as files can be read back.      *)

\* A write that awaits its verdict keeps its place until the verdict or a stop.
LEMMA AwaitsVerdict ==
  ASSUME IInv, NEW d \in Clients, pc[d] = "a_verify", ~ApplyVerify(d), NEW c \in Clients, Request(c)
  PROVE  /\ pc'[d] = "a_verify" /\ req'[d] = req[d] /\ cur' = cur /\ phase' = phase
         /\ UNCHANGED <<item, file, writer>>
<1> USE DEF IInv, Control
<1>1. pc[d] \in Critical /\ lock = d /\ lock # Free
  BY NamesAssumption DEF Critical, ApplyPC, ThreadsAgree
<1>2. c # d
  <2> SUFFICES ASSUME c = d
               PROVE  FALSE
    OBVIOUS
  <2>1. ~Start(d)
    BY DEF Start, StartCheck, StartCreate, StartJob, Goto
  <2>2. ~Revert(d)
    BY DEF Revert, RevertRead, RevertLock, Acquire, RevertRefuse, RevertCheck, RevertClaim, RevertItem,
       RevertWrite, RevertCommit, RevertFinish, Goto
  <2>3. ~Apply(d)
    BY DEF Apply, ApplyRead, ApplyLock, Acquire, ApplyRefuse, ApplyCheck, ApplyClaim, ApplyLost,
       ApplyMark, ApplyListed, ApplyItem, ApplyBackup, ApplyRecord, ApplyRecheck, ApplyReplace,
       ApplyFinish, Goto
  <2> QED
    BY <2>1, <2>2, <2>3 DEF Request
<1>3. pc[c] \notin Critical
  BY <1>1, <1>2, OthersOutside
<1>4. StartCheck(c) \/ StartCreate(c) \/ StartJob(c) \/ ApplyRead(c) \/ RevertRead(c)
  <2>1. ~Apply(c) \/ ApplyRead(c)
    BY <1>1, <1>3 DEF Apply, ApplyLock, Acquire, ApplyRefuse, ApplyCheck, ApplyClaim, ApplyLost,
       ApplyMark, ApplyListed, ApplyItem, ApplyBackup, ApplyRecord, ApplyRecheck, ApplyReplace,
       ApplyVerify, ApplyFinish, Goto, Critical, ApplyPC
  <2>2. ~Revert(c) \/ RevertRead(c)
    BY <1>1, <1>3 DEF Revert, RevertLock, Acquire, RevertRefuse, RevertCheck, RevertClaim, RevertItem,
       RevertWrite, RevertCommit, RevertFinish, Goto, Critical, RevertPC
  <2> QED
    BY <2>1, <2>2 DEF Request, Start
<1>5. UNCHANGED <<item, file, writer, cur, phase>>
  BY <1>4 DEF StartCheck, StartCreate, StartJob, ApplyRead, RevertRead
<1>6. pc'[d] = pc[d]
  BY <1>2, <1>4 DEF StartCheck, StartCreate, StartJob, ApplyRead, RevertRead, Goto, TypeOK
<1>7. req'[d] = req[d]
  BY <1>2, <1>4 DEF StartCheck, StartCreate, StartJob, ApplyRead, RevertRead, TypeOK
<1> QED
  BY <1>5, <1>6, <1>7

\* The user's edits and the job's rows do not touch what a run has on record.
LEMMA EditsKeepWrites ==
  ASSUME IInv, Rows, WritesAgree, Job \/ UserEdit
  PROVE  WritesAgree'
<1> USE DEF IInv
<1>1. SUFFICES ASSUME NEW r \in Runs, NEW f \in Files, writer'[f] = r
              PROVE  /\ item'[r][f].approvedAt
                     /\ file'[f] # item'[r][f].source =>
                          \/ item'[r][f].status = "applied" /\ item'[r][f].applied = file'[f]
                          \/ /\ item'[r][f].status = "approved" /\ item'[r][f].planned = file'[f]
                             /\ file'[f] # None
                             /\ \/ phase' = "recovering"
                                \/ \E c \in Clients : pc'[c] = "a_verify" /\ req'[c].run = r /\ cur' = f
  BY DEF WritesAgree
<1>2. UNCHANGED <<pc, req, cur, phase>>
  BY DEF Job, JobClaim, JobCollect, JobFail, JobRaise, JobStore, JobPublish, UserEdit
<1>3. writer[f] = r /\ file'[f] = file[f]
  <2>1. CASE Job
    BY <1>1, <2>1 DEF Job, JobClaim, JobCollect, JobFail, JobRaise, JobStore, JobPublish
  <2>2. CASE UserEdit
    <3>1. PICK g \in Files, x \in Hash : file' = [file EXCEPT ![g] = x] /\ writer' = [writer EXCEPT ![g] = 0]
      BY <2>2 DEF UserEdit
    <3>2. g # f
      BY <1>1, <3>1 DEF TypeOK, Runs
    <3> QED
      BY <1>1, <3>1, <3>2 DEF TypeOK
  <2> QED
    BY <2>1, <2>2
<1>4. item'[r] = item[r]
  <2>1. CASE UserEdit
    BY <2>1 DEF UserEdit
  <2>2. CASE Job /\ item' # item
    <3>1. job.run # r
      <4>1. item[r][f].approvedAt
        BY <1>3 DEF WritesAgree
      <4>2. status[r] \notin Draft
        BY <4>1 DEF Rows, RowsAgree
      <4> QED
        BY <2>2, <4>2, JobWay DEF Draft
    <3> QED
      BY <2>2, <3>1, JobWay
  <2> QED
    BY <2>1, <2>2
<1> QED
  BY <1>2, <1>3, <1>4 DEF WritesAgree

\* The verdict on the one write that awaited it.
LEMMA VerdictKeepsWrites ==
  ASSUME IInv, Rows, WritesAgree, "verify" \notin Faults, NEW d \in Clients, ApplyVerify(d)
  PROVE  WritesAgree'
<1> USE DEF IInv
<1> DEFINE q == req[d].run
           it == item[q][cur]
           row == [it EXCEPT !.status = "applied", !.applied = it.plan, !.appliedAt = TRUE]
           skip == [it EXCEPT !.status = "skipped"]
<1>0. /\ pc[d] = "a_verify" /\ UNCHANGED <<file, writer, phase>>
      /\ \/ file[cur] = it.plan /\ UpdateItem(q, cur, row)
         \/ file[cur] # it.plan /\ UpdateItem(q, cur, skip)
  BY DEF ApplyVerify, Skip
<1>1. /\ q \in Runs /\ cur \in Files /\ it \in Item /\ it.plan \in Contents /\ it.approvedAt
      /\ it.status = "approved"
  BY <1>0, ApplyHand
<1>2. it.planned = it.plan
  BY <1>0 DEF Rows, FileAgrees
<1>3. /\ row \in Item /\ row.status = "applied" /\ row.applied = it.plan /\ row.approvedAt
      /\ row.source = it.source
  BY <1>1 DEF Item, ItemState, Hash
<1>4. skip \in Item /\ skip.approvedAt /\ skip.source = it.source
  BY <1>1 DEF Item, ItemState
<1>5. \A c \in Clients : c # d => pc[c] # "a_verify"
  BY <1>0, OthersOutside DEF Critical, ApplyPC
<1>6. phase = "serving"
  BY <1>0 DEF Control, ThreadsAgree, TypeOK
<1> HIDE DEF row, skip
<1>7. ASSUME NEW r \in Runs, NEW f \in Files, writer[f] = r, r # q \/ f # cur
      PROVE  item'[r][f] = item[r][f] /\ item[r][f].approvedAt
             /\ (file[f] # item[r][f].source => item[r][f].status = "applied" /\ item[r][f].applied = file[f])
  <2>1. item'[r][f] = item[r][f]
    BY <1>0, <1>1, <1>3, <1>4, <1>7, UpdateType
  <2>2. ~\E c \in Clients : pc[c] = "a_verify" /\ req[c].run = r /\ cur = f
    BY <1>5, <1>7
  <2> QED
    BY <1>6, <1>7, <2>1, <2>2 DEF WritesAgree
<1>8. ASSUME writer[cur] = q
      PROVE  item'[q][cur].approvedAt
             /\ (file[cur] # item'[q][cur].source =>
                   item'[q][cur].status = "applied" /\ item'[q][cur].applied = file[cur])
  <2>1. file[cur] # it.source => file[cur] = it.planned
    BY <1>1, <1>8 DEF WritesAgree
  <2>2. CASE file[cur] = it.plan /\ UpdateItem(q, cur, row)
    <3>1. item'[q][cur] = row
      BY <1>1, <1>3, <2>2, UpdateType
    <3> QED
      BY <1>3, <2>2, <3>1
  <2>3. CASE file[cur] # it.plan /\ UpdateItem(q, cur, skip)
    <3>1. item'[q][cur] = skip
      BY <1>1, <1>4, <2>3, UpdateType
    <3> QED
      BY <1>2, <1>4, <2>1, <2>3, <3>1
  <2> QED
    BY <1>0, <2>2, <2>3
<1> QED
  BY <1>0, <1>7, <1>8 DEF WritesAgree

\* Recovery's verdicts, on files it can read.
LEMMA RecoveryKeepsWrites ==
  ASSUME IInv, Rows, WritesAgree, "read" \notin Faults, Recover
  PROVE  WritesAgree'
<1> USE DEF IInv
<1>1. UNCHANGED <<file, writer>>
  BY DEF Recover, RecoverDraft, RecoverApplyItem, RecoverApplyDone,
         RecoverRevertItem, RecoverRevertDone, RecoverDone
<1>2. CASE item' = item
  <2>1. CASE RecoverDone
    <3>1. \A r \in Runs, f \in Files : item[r][f].status # "approved"
      <4>1. \A r \in Runs : status[r] # "applying"
        BY <2>1 DEF RecoverDone, ActiveRuns, ACTIVE
      <4> QED
        BY <4>1 DEF Rows, RowsAgree
    <3> QED
      BY <1>1, <1>2, <3>1 DEF WritesAgree
  <2>2. CASE ~RecoverDone
    <3>1. phase' = phase /\ phase = "recovering"
      BY <2>2 DEF Recover, RecoverDraft, RecoverApplyItem, RecoverApplyDone,
         RecoverRevertItem, RecoverRevertDone
    <3> QED
      BY <1>1, <1>2, <3>1 DEF WritesAgree
  <2> QED
    BY <2>1, <2>2
<1>3. CASE item' # item
  <2>0. phase' = phase /\ phase = "recovering"
    BY <1>3 DEF Recover, RecoverDraft, RecoverApplyItem, RecoverApplyDone,
       RecoverRevertItem, RecoverRevertDone, RecoverDone
  <2>1. PICK q \in Runs, g \in Files :
          \/ RowWay(q, g, "make")
          \/ /\ RowWay(q, g, "skip")
             /\ item[q][g].planned = None \/ file[g] # item[q][g].planned
          \/ RowWay(q, g, "undo") /\ file[g] = item[q][g].source
    BY <1>3, RecoverWay
  <2>2. PICK way \in {"skip", "make", "undo"} : RowWay(q, g, way)
    BY <2>1
  <2>3. ASSUME NEW r \in Runs, NEW f \in Files, r # q \/ f # g
        PROVE  item'[r][f] = item[r][f]
    BY <2>2, <2>3 DEF RowWay, RowMove
  <2>4. ASSUME writer[g] = q
        PROVE  /\ item'[q][g].approvedAt
               /\ file[g] # item'[q][g].source =>
                    item'[q][g].status = "applied" /\ item'[q][g].applied = file[g]
    <3>1. item'[q][g].approvedAt /\ item'[q][g].source = item[q][g].source
      BY <2>2 DEF RowWay, RowMove
    <3>2. CASE RowWay(q, g, "make")
      BY <3>1, <3>2 DEF RowWay
    <3>3. CASE RowWay(q, g, "undo") /\ file[g] = item[q][g].source
      BY <3>1, <3>3
    <3>4. CASE /\ RowWay(q, g, "skip")
               /\ item[q][g].planned = None \/ file[g] # item[q][g].planned
      <4>1. item[q][g].status = "approved"
        BY <3>4 DEF RowWay
      <4>2. file[g] # item[q][g].source => item[q][g].planned = file[g] /\ file[g] # None
        BY <2>4, <4>1 DEF WritesAgree
      <4> QED
        BY <3>1, <3>4, <4>2
    <3> QED
      BY <2>1, <3>2, <3>3, <3>4
  <2> QED
    BY <1>1, <2>0, <2>3, <2>4 DEF WritesAgree
<1> QED
  BY <1>2, <1>3

\* With no write awaiting its verdict, what differs from a run's snapshot and
\* was written by the run is on record as applied.
LEMMA SettledWrites ==
  ASSUME IInv, WritesAgree, phase = "serving", \A d \in Clients : pc[d] # "a_verify",
         NEW r \in Runs, NEW f \in Files, writer[f] = r
  PROVE  /\ item[r][f].approvedAt
         /\ file[f] # item[r][f].source => item[r][f].status = "applied" /\ item[r][f].applied = file[f]
BY DEF WritesAgree

\* A row that changes while its file and its writer do not.
LEMMA WayKeepsWrites ==
  ASSUME IInv, Rows, WritesAgree, phase = "serving", \A d \in Clients : pc[d] # "a_verify",
         UNCHANGED <<file, writer>>,
         NEW q \in Runs, NEW g \in Files, NEW way \in Ways, RowWay(q, g, way),
         way = "undo" => writer[g] = 0
  PROVE  WritesAgree'
<1>1. ASSUME NEW r \in Runs, NEW f \in Files, writer[f] = r, r # q \/ f # g
      PROVE  item'[r][f] = item[r][f]
  BY <1>1 DEF RowWay, RowMove
<1>2. ASSUME writer[g] = q
      PROVE  /\ item'[q][g].approvedAt
             /\ file[g] # item'[q][g].source =>
                  item'[q][g].status = "applied" /\ item'[q][g].applied = file[g]
  <2>1. /\ item[q][g].approvedAt
        /\ file[g] # item[q][g].source =>
             item[q][g].status = "applied" /\ item[q][g].applied = file[g]
    BY <1>2, SettledWrites
  <2>2. item[q][g].status # "proposed"
    BY <2>1 DEF Rows, RowsAgree
  <2>3. q # 0
    BY DEF Runs
  <2>4. way \in {"record", "skip", "make"}
    BY <1>2, <2>2, <2>3 DEF RowWay, Ways
  <2>5. item'[q][g].approvedAt /\ item'[q][g].source = item[q][g].source
    BY <2>4 DEF RowWay, RowMove
  <2>6. item[q][g].status = "approved"
    BY <2>4 DEF RowWay
  <2> QED
    BY <2>1, <2>5, <2>6
<1> QED
  BY <1>1, <1>2, SettledWrites DEF WritesAgree

\* The write itself: it awaits its verdict.
LEMMA ReplaceKeepsWrites ==
  ASSUME IInv, Rows, WritesAgree, phase = "serving", \A d \in Clients : pc[d] # "a_verify",
         NEW c \in Clients, ApplyReplace(c)
  PROVE  WritesAgree'
<1> DEFINE q == req[c].run
<1>1. pc[c] = "a_replace"
  BY DEF ApplyReplace
<1>2. /\ q \in Runs /\ cur \in Files /\ item[q][cur].plan \in Contents /\ item[q][cur].approvedAt
      /\ item[q][cur].status = "approved" /\ cur \in todo
  BY <1>1, ApplyHand
<1>3. item[q][cur].planned = item[q][cur].plan
  BY <1>1 DEF Rows, FileAgrees
<1>4. CASE /\ file' = [file EXCEPT ![cur] = item[q][cur].plan]
           /\ writer' = [writer EXCEPT ![cur] = q]
           /\ pc' = [pc EXCEPT ![c] = "a_verify"]
           /\ UNCHANGED <<item, holder>>
  <2>1. /\ file'[cur] = item[q][cur].plan /\ writer'[cur] = q /\ pc'[c] = "a_verify"
        /\ UNCHANGED <<item, cur, req>>
    BY <1>2, <1>4 DEF ApplyReplace, IInv, TypeOK
  <2>2. \A f \in Files : f # cur => file'[f] = file[f] /\ writer'[f] = writer[f]
    BY <1>4 DEF IInv, TypeOK
  <2>3. file'[cur] # None
    BY <1>2, <2>1, NamesAssumption
  <2>4. ASSUME NEW r \in Runs, NEW f \in Files, writer'[f] = r, f # cur
        PROVE  /\ item'[r][f].approvedAt
               /\ file'[f] # item'[r][f].source =>
                    item'[r][f].status = "applied" /\ item'[r][f].applied = file'[f]
    BY <2>1, <2>2, <2>4, SettledWrites
  <2>5. \E d \in Clients : pc'[d] = "a_verify" /\ req'[d].run = q /\ cur' = cur
    BY <2>1
  <2> QED
    BY <1>2, <1>3, <2>1, <2>3, <2>4, <2>5 DEF WritesAgree
<1>5. CASE Skip(c, cur) /\ UNCHANGED <<file, writer>>
  <2>1. RowWay(q, cur, "skip")
    BY <1>1, <1>2, <1>5, SkipWay DEF ApplyPC
  <2> QED
    BY <1>2, <1>5, <2>1, WayKeepsWrites DEF Ways
<1> QED
  BY <1>4, <1>5 DEF ApplyReplace

\* Putting an original back takes the file off the run's record.
LEMMA RestoreKeepsWrites ==
  ASSUME IInv, Rows, WritesAgree, phase = "serving", \A d \in Clients : pc[d] # "a_verify",
         NEW c \in Clients, RevertWrite(c)
  PROVE  WritesAgree'
<1>1. item' = item
  BY DEF RevertWrite
<1>2. ASSUME NEW r \in Runs, NEW f \in Files, writer'[f] = r
      PROVE  writer[f] = r /\ file'[f] = file[f]
  <2>1. r # 0
    BY DEF Runs
  <2>2. CASE UNCHANGED <<file, writer>>
    BY <1>2, <2>2
  <2>3. CASE /\ file' = [file EXCEPT ![cur] = item[req[c].run][cur].source]
             /\ writer' = [writer EXCEPT ![cur] = 0]
    <3>1. f # cur
      BY <1>2, <2>1, <2>3 DEF IInv, TypeOK
    <3> QED
      BY <1>2, <2>3, <3>1 DEF IInv, TypeOK
  <2> QED
    BY <2>2, <2>3 DEF RevertWrite
<1> QED
  BY <1>1, <1>2, SettledWrites DEF WritesAgree

\* Any request's step when no write awaits its verdict.
LEMMA RequestKeepsWrites ==
  ASSUME IInv, Rows, WritesAgree, \A d \in Clients : pc[d] # "a_verify",
         NEW c \in Clients, Request(c)
  PROVE  WritesAgree'
<1>1. phase = "serving"
  BY DEF Request
<1>2. CASE ApplyReplace(c) \/ RevertWrite(c)
  BY <1>1, <1>2, ReplaceKeepsWrites, RestoreKeepsWrites
<1>3. CASE ~ApplyReplace(c) /\ ~RevertWrite(c)
  <2>1. UNCHANGED <<file, writer, phase>>
    <3>1. CASE Start(c)
      BY <3>1 DEF Start, StartCheck, StartCreate, StartJob
    <3>2. CASE Apply(c)
      BY <1>3, <3>2 DEF Apply, ApplyRead, ApplyLock, Acquire, ApplyRefuse, ApplyCheck, ApplyClaim,
         ApplyLost, ApplyMark, ApplyListed, ApplyItem, ApplyBackup, ApplyRecord, ApplyRecheck,
         ApplyVerify, ApplyFinish
    <3>3. CASE Revert(c)
      BY <1>3, <3>3 DEF Revert, RevertRead, RevertLock, Acquire, RevertRefuse, RevertCheck,
         RevertClaim, RevertItem, RevertCommit, RevertFinish
    <3> QED
      BY <3>1, <3>2, <3>3 DEF Request
  <2>2. CASE item' = item
    BY <1>1, <2>1, <2>2, SettledWrites DEF WritesAgree
  <2>3. CASE item' # item
    <3>1. ~Start(c)
      BY <2>3 DEF Start, StartCheck, StartCreate, StartJob
    <3>2. CASE Apply(c)
      <4>1. PICK q \in Runs, g \in Files, way \in Ways \ {"undo"} : RowWay(q, g, way)
        BY <2>3, <3>2, ApplyWay
      <4> QED
        BY <1>1, <2>1, <4>1, WayKeepsWrites
    <3>3. CASE Revert(c)
      <4>1. pc[c] = "r_commit" /\ cur \in Files /\ req[c].run \in Runs /\ RowWay(req[c].run, cur, "undo")
        BY <2>3, <3>3, RevertWay
      <4>2. writer[cur] = 0
        BY <4>1 DEF Rows, FileAgrees
      <4> QED
        BY <1>1, <2>1, <4>1, <4>2, WayKeepsWrites DEF Ways
    <3> QED
      BY <3>1, <3>2, <3>3 DEF Request
  <2> QED
    BY <2>2, <2>3
<1> QED
  BY <1>2, <1>3

LEMMA InitWrites == Init => WritesAgree
BY DEF Init, WritesAgree, Runs

LEMMA StepWrites ==
  {"read", "verify"} \cap Faults = {} =>
    (IInv /\ Rows /\ WritesAgree /\ [Next]_vars => WritesAgree')
<1> SUFFICES ASSUME {"read", "verify"} \cap Faults = {}, IInv, Rows, WritesAgree, [Next]_vars
             PROVE  WritesAgree'
  OBVIOUS
<1>1. CASE UNCHANGED vars
  BY <1>1 DEF vars, WritesAgree
<1>2. CASE Crash
  BY <1>2 DEF Crash, WritesAgree
<1>3. CASE Job \/ UserEdit
  BY <1>3, EditsKeepWrites
<1>4. CASE Recover
  BY <1>4, RecoveryKeepsWrites
<1>5. ASSUME NEW c \in Clients, Request(c)
      PROVE  WritesAgree'
  <2>1. CASE \A d \in Clients : pc[d] # "a_verify"
    BY <1>5, <2>1, RequestKeepsWrites
  <2>2. ASSUME NEW d \in Clients, pc[d] = "a_verify"
        PROVE  WritesAgree'
    <3>1. CASE ApplyVerify(d)
      BY <3>1, VerdictKeepsWrites
    <3>2. CASE ~ApplyVerify(d)
      <4>1. /\ pc'[d] = "a_verify" /\ req'[d] = req[d] /\ cur' = cur /\ phase' = phase
            /\ UNCHANGED <<item, file, writer>>
        BY <1>5, <2>2, <3>2, AwaitsVerdict
      <4>2. \A e \in Clients : pc[e] = "a_verify" => e = d
        BY <2>2, OthersOutside DEF Critical, ApplyPC, IInv, Control
      <4> QED
        BY <4>1, <4>2 DEF WritesAgree
    <3> QED
      BY <3>1, <3>2
  <2> QED
    BY <2>1, <2>2
<1> QED
  BY <1>1, <1>2, <1>3, <1>4, <1>5 DEF Next

\* A file last written by a run stays on the run's record, across stops and
\* whatever the user edits meanwhile, as long as files can be read back (a run
\* whose file cannot be read after the write has nothing to judge it by), so
\* that a revert knows it for the run's own.
THEOREM WrittenIsRevertibleAlways ==
  {"read", "verify"} \cap Faults = {} => (Spec => []WrittenIsRevertible)
<1> SUFFICES ASSUME {"read", "verify"} \cap Faults = {}
             PROVE  Spec => []WrittenIsRevertible
  OBVIOUS
<1>1. IInv /\ Rows /\ WritesAgree => WrittenIsRevertible
  BY DEF Rows, RowsAgree, WritesAgree, WrittenIsRevertible
<1>2. IInv /\ Rows /\ WritesAgree /\ [Next]_vars => WritesAgree'
  BY StepWrites
<1> QED
  BY <1>1, <1>2, InitIInv, StepIInv, InitRows, StepRows, InitWrites, PTL DEF Spec

-----------------------------------------------------------------------------
(* The refinement of ConsentLedger: every step of the program is a step of  *)
(* the ledger, or none at all.                                              *)

LedgerSees == <<Owner, Undoing, Spent, Consented, Made, TakenBack>>

\* With one writer, the owner is the run that is being applied or reverted.
LEMMA OwnerIs ==
  ASSUME OneWriter, NEW r \in Runs, status[r] \in {"applying", "reverting"}
  PROVE  Owner = r /\ (Undoing <=> status[r] = "reverting")
<1>1. r \in Writing /\ \A q \in Writing : q = r
  BY DEF OneWriter, Writing, In
<1>2. Owner = r
  BY <1>1 DEF Owner
<1>3. Undoing <=> status[r] = "reverting"
  BY DEF Undoing, In, OneWriter
<1> QED
  BY <1>2, <1>3

LEMMA NobodyOwns ==
  ASSUME \A q \in Runs : status[q] \notin {"applying", "reverting"}
  PROVE  Owner = 0 /\ Undoing = FALSE
BY DEF Owner, Writing, Undoing, In

\* What the ledger sees of the items does not change with the items.
LEMMA ItemsSeen ==
  ASSUME item' = item
  PROVE  UNCHANGED <<Consented, Made, TakenBack>>
BY DEF Consented, Made, TakenBack, Having

\* ... and of the runs, not with their statuses.
LEMMA StatusSeen ==
  ASSUME status' = status
  PROVE  UNCHANGED <<Owner, Undoing, Spent>>
BY DEF Owner, Writing, Undoing, Spent, In

\* A proposal goes its way, or comes to nothing.
LEMMA DraftStep ==
  ASSUME IInv, NEW r \in Runs, status[r] \in Draft, NEW s \in Draft \cup {"failed"},
         status' = [status EXCEPT ![r] = s], item' = item
  PROVE  Ledger!Forgo(r) \/ UNCHANGED LedgerSees
<1> USE DEF IInv
<1>1. status'[r] = s /\ \A q \in Runs : q # r => status'[q] = status[q]
  BY DEF TypeOK
<1>2. Writing' = Writing /\ In({"reverting"})' = In({"reverting"})
  BY <1>1 DEF Writing, In, Draft
<1>3. Owner' = Owner /\ Undoing' = Undoing
  BY <1>2 DEF Owner, Undoing
<1>4. UNCHANGED <<Consented, Made, TakenBack>>
  BY ItemsSeen
<1>5. CASE s \in Draft
  <2>1. Spent' = Spent
    BY <1>1, <1>5 DEF Spent, In, Draft
  <2> QED
    BY <1>3, <1>4, <2>1 DEF LedgerSees
<1>6. CASE s = "failed"
  <2>1. r \notin Spent /\ Spent' = Spent \cup {r}
    BY <1>1, <1>6 DEF Spent, In, Draft
  <2> QED
    BY <1>3, <1>4, <2>1 DEF Ledger!Forgo
<1> QED
  BY <1>5, <1>6

\* A run is claimed, for an apply or for a revert, while nobody writes.
LEMMA BeginStep ==
  ASSUME IInv, NEW r \in Runs, \A q \in Runs : status[q] \notin {"applying", "reverting"},
         status[r] = "proposed", status' = [status EXCEPT ![r] = "applying"], item' = item
  PROVE  Ledger!Begin(r)
<1> USE DEF IInv
<1>1. status'[r] = "applying" /\ \A q \in Runs : q # r => status'[q] = status[q]
  BY DEF TypeOK
<1>2. Writing' = {r} /\ In({"reverting"})' = {}
  BY <1>1 DEF Writing, In
<1>3. Owner' = r /\ Undoing' = FALSE
  BY <1>2 DEF Owner, Undoing
<1>4. Owner = 0 /\ Undoing = FALSE
  BY NobodyOwns
<1>5. r \notin Spent /\ Spent' = Spent \cup {r}
  BY <1>1 DEF Spent, In
<1>6. UNCHANGED <<Consented, Made, TakenBack>>
  BY ItemsSeen
<1> QED
  BY <1>3, <1>4, <1>5, <1>6 DEF Ledger!Begin

LEMMA BeginUndoStep ==
  ASSUME IInv, Rows, NEW r \in Runs, \A q \in Runs : status[q] \notin {"applying", "reverting"},
         status[r] \in {"applied", "partial"}, Having(r, "applied") # {},
         status' = [status EXCEPT ![r] = "reverting"], item' = item
  PROVE  Ledger!BeginUndo(r)
<1> USE DEF IInv
<1>1. status'[r] = "reverting" /\ \A q \in Runs : q # r => status'[q] = status[q]
  BY DEF TypeOK
<1>2. Writing' = {r} /\ In({"reverting"})' = {r}
  BY <1>1 DEF Writing, In
<1>3. Owner' = r /\ Undoing' = TRUE
  BY <1>2 DEF Owner, Undoing
<1>4. Owner = 0
  BY NobodyOwns
<1>5. r \in Spent /\ Spent' = Spent
  BY <1>1 DEF Spent, In
<1>6. Made[r] # TakenBack[r]
  <2>1. PICK f \in Files : item[r][f].status = "applied"
    BY DEF Having
  <2>2. item[r][f].appliedAt
    BY <2>1 DEF Rows, RowsAgree
  <2>3. f \in Made[r] /\ f \notin TakenBack[r]
    BY <2>1, <2>2 DEF Made, TakenBack, Having
  <2> QED
    BY <2>3
<1>7. UNCHANGED <<Consented, Made, TakenBack>>
  BY ItemsSeen
<1> QED
  BY <1>3, <1>4, <1>5, <1>6, <1>7 DEF Ledger!BeginUndo

\* The one writer is done.
LEMMA EndStep ==
  ASSUME IInv, NEW r \in Runs, status[r] \in {"applying", "reverting"},
         NEW s \in {"applied", "partial", "failed", "reverted"},
         status' = [status EXCEPT ![r] = s], item' = item
  PROVE  Ledger!End
<1> USE DEF IInv, Control
<1>1. status'[r] = s /\ \A q \in Runs : q # r => status'[q] = status[q]
  BY DEF TypeOK
<1>2. Owner = r /\ r # 0
  BY OwnerIs DEF Runs
<1>3. Writing' = {} /\ In({"reverting"})' = {}
  BY <1>1 DEF Writing, In, OneWriter
<1>4. Owner' = 0 /\ Undoing' = FALSE
  BY <1>3 DEF Owner, Undoing
<1>5. Spent' = Spent
  BY <1>1 DEF Spent, In
<1>6. UNCHANGED <<Consented, Made, TakenBack>>
  BY ItemsSeen
<1> QED
  BY <1>2, <1>4, <1>5, <1>6 DEF Ledger!End

\* One run's entry grows by one file.
LEMMA EntryGrows ==
  ASSUME NEW S \in [Runs -> SUBSET Files], NEW T \in [Runs -> SUBSET Files],
         NEW r \in Runs, NEW f \in Files, T[r] = S[r] \cup {f},
         \A q \in Runs : q # r => T[q] = S[q]
  PROVE  T = [S EXCEPT ![r] = @ \cup {f}]
OBVIOUS

\* One row changes, of the run that writes.
LEMMA WayStep ==
  ASSUME IInv, Rows, NEW r \in Runs, NEW f \in Files, NEW way \in Ways, RowWay(r, f, way),
         status' = status, status[r] = IF way = "undo" THEN "reverting" ELSE "applying"
  PROVE  Ledger!Agree(r, f) \/ Ledger!Make(r, f) \/ Ledger!Undo(r, f) \/ UNCHANGED LedgerSees
<1> USE DEF IInv, Control
<1>1. Owner = r /\ (Undoing <=> way = "undo")
  BY OwnerIs
<1>2. UNCHANGED <<Owner, Undoing, Spent>>
  BY StatusSeen
<1>3. \A q \in Runs, g \in Files : q # r \/ g # f => item'[q][g] = item[q][g]
  BY DEF RowWay, RowMove
<1>4. /\ item[r][f].approvedAt <=> item[r][f].status \in {"approved", "applied", "skipped", "reverted"}
      /\ item[r][f].appliedAt <=> item[r][f].status \in {"applied", "reverted"}
      /\ item'[r][f].approvedAt <=> item'[r][f].status \in {"approved", "applied", "skipped", "reverted"}
      /\ item'[r][f].appliedAt <=> item'[r][f].status \in {"applied", "reverted"}
  BY DEF Rows, RowsAgree, RowWay, RowMove
<1>5. ASSUME item'[r][f].approvedAt <=> item[r][f].approvedAt
      PROVE  Consented' = Consented
  BY <1>3, <1>5 DEF Consented
<1>6. ASSUME item'[r][f].appliedAt <=> item[r][f].appliedAt
      PROVE  Made' = Made
  BY <1>3, <1>6 DEF Made
<1>7. ASSUME item'[r][f].status = "reverted" <=> item[r][f].status = "reverted"
      PROVE  TakenBack' = TakenBack
  BY <1>3, <1>7 DEF TakenBack, Having
<1>8. CASE way \in {"reject", "record", "skip"}
  <2>1. /\ item[r][f].status \in {"proposed", "approved"}
        /\ way = "reject" => item[r][f].status = "proposed" /\ item'[r][f].status = "rejected"
        /\ way # "reject" => item[r][f].status = "approved" /\ item'[r][f].status \in {"approved", "skipped"}
    BY <1>8 DEF RowWay
  <2> QED
    BY <1>2, <1>4, <1>5, <1>6, <1>7, <2>1 DEF LedgerSees
<1>9. CASE way = "agree"
  <2>1. item[r][f].status = "proposed" /\ item'[r][f].status = "approved" /\ Made[r] = {}
    BY <1>9 DEF RowWay, Made
  <2>2. Consented' = [Consented EXCEPT ![r] = @ \cup {f}]
    <3>1. Consented \in [Runs -> SUBSET Files] /\ Consented' \in [Runs -> SUBSET Files]
      BY DEF Consented
    <3>2. Consented'[r] = Consented[r] \cup {f}
      BY <1>3, <1>4, <2>1 DEF Consented
    <3>3. \A q \in Runs : q # r => Consented'[q] = Consented[q]
      BY <1>3 DEF Consented
    <3> QED
      BY <3>1, <3>2, <3>3, EntryGrows
  <2> QED
    BY <1>1, <1>2, <1>4, <1>6, <1>7, <1>9, <2>1, <2>2 DEF Ledger!Agree
<1>10. CASE way = "make"
  <2>1. item[r][f].status = "approved" /\ item'[r][f].status = "applied"
    BY <1>10 DEF RowWay
  <2>2. Made' = [Made EXCEPT ![r] = @ \cup {f}]
    <3>1. Made \in [Runs -> SUBSET Files] /\ Made' \in [Runs -> SUBSET Files]
      BY DEF Made
    <3>2. Made'[r] = Made[r] \cup {f}
      BY <1>3, <1>4, <2>1 DEF Made
    <3>3. \A q \in Runs : q # r => Made'[q] = Made[q]
      BY <1>3 DEF Made
    <3> QED
      BY <3>1, <3>2, <3>3, EntryGrows
  <2>3. f \in Consented[r] \ Made[r]
    BY <1>4, <2>1 DEF Consented, Made
  <2> QED
    BY <1>1, <1>2, <1>4, <1>5, <1>7, <1>10, <2>1, <2>2, <2>3 DEF Ledger!Make
<1>11. CASE way = "undo"
  <2>1. item[r][f].status = "applied" /\ item'[r][f].status = "reverted"
    BY <1>11 DEF RowWay
  <2>2. TakenBack' = [TakenBack EXCEPT ![r] = @ \cup {f}]
    <3>1. TakenBack \in [Runs -> SUBSET Files] /\ TakenBack' \in [Runs -> SUBSET Files]
      BY DEF TakenBack, Having
    <3>2. TakenBack'[r] = TakenBack[r] \cup {f}
      BY <1>3, <2>1 DEF TakenBack, Having
    <3>3. \A q \in Runs : q # r => TakenBack'[q] = TakenBack[q]
      BY <1>3 DEF TakenBack, Having
    <3> QED
      BY <3>1, <3>2, <3>3, EntryGrows
  <2>3. f \in Made[r] \ TakenBack[r]
    BY <1>4, <2>1 DEF Made, TakenBack, Having
  <2> QED
    BY <1>1, <1>2, <1>4, <1>5, <1>6, <1>11, <2>1, <2>2, <2>3 DEF Ledger!Undo
<1> QED
  BY <1>8, <1>9, <1>10, <1>11 DEF Ways

LEMMA NothingSeen ==
  ASSUME UNCHANGED <<status, item>>
  PROVE  UNCHANGED LedgerSees
BY ItemsSeen, StatusSeen DEF LedgerSees

LedgerStep == Ledger!Next \/ UNCHANGED LedgerSees

LEMMA StartLedger ==
  ASSUME IInv, Rows, NEW c \in Clients, Start(c)
  PROVE  LedgerStep
<1> USE DEF IInv, Control
<1>1. CASE StartCheck(c)
  BY <1>1, NothingSeen DEF StartCheck, LedgerStep
<1>2. CASE StartCreate(c)
  <2>1. PICK r \in Runs : status[r] = "none" /\ status' = [status EXCEPT ![r] = "queued"]
    BY <1>2 DEF StartCreate
  <2>2. item' = item /\ "none" \in Draft /\ "queued" \in Draft
    BY <1>2 DEF StartCreate, Draft
  <2> QED
    BY <2>1, <2>2, DraftStep DEF LedgerStep, Ledger!Next
<1>3. CASE StartJob(c)
  <2>1. req[c].run \in Runs /\ status[req[c].run] = "queued" /\ "queued" \in Draft /\ item' = item
    BY <1>3 DEF StartJob, Goto, RequestsAgree, Draft
  <2>2. CASE status' = status
    BY <2>1, <2>2, NothingSeen DEF LedgerStep
  <2>3. CASE status' = [status EXCEPT ![req[c].run] = "failed"]
    BY <2>1, <2>3, DraftStep DEF LedgerStep, Ledger!Next
  <2> QED
    BY <1>3, <2>2, <2>3 DEF StartJob
<1> QED
  BY <1>1, <1>2, <1>3 DEF Start

LEMMA ApplyLedger ==
  ASSUME IInv, Rows, NEW c \in Clients, Apply(c)
  PROVE  LedgerStep
<1> USE DEF IInv, Control
<1> DEFINE r == req[c].run
<1>1. CASE item' # item
  <2>1. r \in Runs /\ status[r] = "applying" /\ status' = status
    BY <1>1, ApplyWay
  <2>2. PICK f \in Files, way \in Ways \ {"undo"} : RowWay(r, f, way)
    BY <1>1, ApplyWay
  <2>3. Ledger!Agree(r, f) \/ Ledger!Make(r, f) \/ Ledger!Undo(r, f) \/ UNCHANGED LedgerSees
    BY <2>1, <2>2, WayStep
  <2> QED
    BY <2>1, <2>3 DEF LedgerStep, Ledger!Next
<1>2. CASE ApplyClaim(c)
  <2>1. pc[c] = "a_cas" /\ status[r] = "proposed" /\ item' = item
        /\ status' = [status EXCEPT ![r] = "applying"]
    BY <1>2 DEF ApplyClaim
  <2>2. r \in Runs /\ \A q \in Runs : status[q] \notin {"applying", "reverting"}
    BY <2>1, NoWriterYet, Positions DEF RequestsAgree, Critical
  <2> QED
    BY <2>1, <2>2, BeginStep DEF LedgerStep, Ledger!Next
<1>3. CASE ApplyFinish(c)
  <2>1. pc[c] = "a_next" /\ item' = item /\ status' = [status EXCEPT ![r] = ApplyVerdict(r)]
    BY <1>3 DEF ApplyFinish
  <2>2. r \in Runs /\ status[r] = "applying"
    BY <2>1 DEF RequestsAgree, ApplyPC
  <2>3. ApplyVerdict(r) \in {"applied", "partial", "failed", "reverted"}
    BY DEF ApplyVerdict
  <2> QED
    BY <2>1, <2>2, <2>3, EndStep DEF LedgerStep, Ledger!Next
<1>4. CASE item' = item /\ ~ApplyClaim(c) /\ ~ApplyFinish(c)
  <2>1. status' = status
    BY <1>4 DEF Apply, ApplyRead, ApplyLock, Acquire, ApplyRefuse, ApplyCheck, ApplyLost,
       ApplyMark, ApplyListed, ApplyItem, ApplyBackup, ApplyRecord, ApplyRecheck, ApplyReplace, ApplyVerify
  <2> QED
    BY <1>4, <2>1, NothingSeen DEF LedgerStep
<1> QED
  BY <1>1, <1>2, <1>3, <1>4

LEMMA RevertLedger ==
  ASSUME IInv, Rows, NEW c \in Clients, Revert(c)
  PROVE  LedgerStep
<1> USE DEF IInv, Control
<1> DEFINE r == req[c].run
<1>1. CASE item' # item
  <2>1. r \in Runs /\ status[r] = "reverting" /\ status' = status /\ cur \in Files /\ RowWay(r, cur, "undo")
    BY <1>1, RevertWay
  <2>2. Ledger!Agree(r, cur) \/ Ledger!Make(r, cur) \/ Ledger!Undo(r, cur) \/ UNCHANGED LedgerSees
    BY <2>1, WayStep DEF Ways
  <2> QED
    BY <2>1, <2>2 DEF LedgerStep, Ledger!Next
<1>2. CASE RevertClaim(c)
  <2>1. pc[c] = "r_cas" /\ item' = item
    BY <1>2 DEF RevertClaim
  <2>2. r \in Runs /\ \A q \in Runs : status[q] \notin {"applying", "reverting"}
    BY <2>1, NoWriterYet, Positions DEF RequestsAgree, Critical
  <2>3. Having(r, "applied") # {}
    BY <2>1 DEF Rows, SawAgrees
  <2>4. CASE status[r] \in {"applied", "partial"} /\ status' = [status EXCEPT ![r] = "reverting"]
    BY <2>1, <2>2, <2>3, <2>4, BeginUndoStep DEF LedgerStep, Ledger!Next
  <2>5. CASE status' = status
    BY <2>1, <2>5, NothingSeen DEF LedgerStep
  <2> QED
    BY <1>2, <2>4, <2>5 DEF RevertClaim
<1>3. CASE RevertFinish(c)
  <2>1. pc[c] = "r_next" /\ item' = item /\ status' = [status EXCEPT ![r] = RevertVerdict(r, req[c].saw)]
    BY <1>3 DEF RevertFinish
  <2>2. r \in Runs /\ status[r] = "reverting" /\ req[c].saw \in {"applied", "partial"}
    BY <2>1 DEF RequestsAgree, RevertPC
  <2>3. RevertVerdict(r, req[c].saw) \in {"applied", "partial", "failed", "reverted"}
    BY <2>2 DEF RevertVerdict
  <2> QED
    BY <2>1, <2>2, <2>3, EndStep DEF LedgerStep, Ledger!Next
<1>4. CASE item' = item /\ ~RevertClaim(c) /\ ~RevertFinish(c)
  <2>1. status' = status
    BY <1>4 DEF Revert, RevertRead, RevertLock, Acquire, RevertRefuse, RevertCheck,
       RevertItem, RevertWrite, RevertCommit
  <2> QED
    BY <1>4, <2>1, NothingSeen DEF LedgerStep
<1> QED
  BY <1>1, <1>2, <1>3, <1>4

LEMMA JobLedger ==
  ASSUME IInv, Rows, Job
  PROVE  LedgerStep
<1> USE DEF IInv, Control
<1>1. CASE item' # item
  <2> DEFINE r == job.run
  <2>1. /\ r \in Runs /\ status[r] = "running" /\ status' = status
        /\ \A q \in Runs : q # r => item'[q] = item[q]
        /\ \A f \in Files : /\ item'[r][f].status # "reverted"
                            /\ ~item'[r][f].approvedAt /\ ~item'[r][f].appliedAt
    BY <1>1, JobWay
  <2>2. \A f \in Files : /\ item[r][f].status # "reverted"
                         /\ ~item[r][f].approvedAt /\ ~item[r][f].appliedAt
    BY <2>1 DEF Rows, RowsAgree, Draft
  <2>3. UNCHANGED <<Consented, Made, TakenBack>>
    BY <2>1, <2>2 DEF Consented, Made, TakenBack, Having
  <2> QED
    BY <2>1, <2>3, StatusSeen DEF LedgerStep, LedgerSees
<1>2. CASE item' = item
  <2>1. PICK s \in Draft \cup {"failed"} :
          \/ status' = status
          \/ /\ job.run \in Runs /\ status[job.run] \in Draft
             /\ status' = [status EXCEPT ![job.run] = s]
    <3>1. CASE JobClaim
      BY <3>1 DEF JobClaim, JobAgrees, Draft
    <3>2. CASE JobFail
      BY <3>2 DEF JobFail, JobAgrees, Draft
    <3>3. CASE JobPublish
      BY <3>3 DEF JobPublish, JobAgrees, Draft
    <3>4. CASE JobCollect \/ JobRaise \/ JobStore
      BY <3>4 DEF JobCollect, JobRaise, JobStore
    <3> QED
      BY <3>1, <3>2, <3>3, <3>4 DEF Job
  <2> QED
    BY <1>2, <2>1, NothingSeen, DraftStep DEF LedgerStep, Ledger!Next
<1> QED
  BY <1>1, <1>2

LEMMA RecoverLedger ==
  ASSUME IInv, Rows, Recover
  PROVE  LedgerStep
<1> USE DEF IInv, Control
<1>1. CASE item' # item
  <2>1. PICK r \in Runs, f \in Files, way \in {"make", "skip", "undo"} :
          RowWay(r, f, way) /\ status[r] = IF way = "undo" THEN "reverting" ELSE "applying"
    BY <1>1, RecoverWay
  <2>2. status' = status
    BY <1>1, RecoverWay
  <2>3. Ledger!Agree(r, f) \/ Ledger!Make(r, f) \/ Ledger!Undo(r, f) \/ UNCHANGED LedgerSees
    BY <2>1, <2>2, WayStep DEF Ways
  <2> QED
    BY <2>3 DEF LedgerStep, Ledger!Next
<1>2. CASE RecoverDraft
  <2>1. PICK r \in Runs : status[r] \in Draft /\ status' = [status EXCEPT ![r] = "failed"]
    BY <1>2 DEF RecoverDraft, In, Draft
  <2> QED
    BY <1>2, <2>1, DraftStep DEF RecoverDraft, LedgerStep, Ledger!Next
<1>3. CASE RecoverApplyDone \/ RecoverRevertDone
  <2>1. PICK r \in Runs, s \in {"applied", "partial", "failed", "reverted"} :
          status[r] \in {"applying", "reverting"} /\ status' = [status EXCEPT ![r] = s]
    <3>1. CASE RecoverApplyDone
      BY <3>1 DEF RecoverApplyDone, In, ApplyVerdict
    <3>2. CASE RecoverRevertDone
      BY <3>2 DEF RecoverRevertDone, In, RevertVerdict
    <3> QED
      BY <1>3, <3>1, <3>2
  <2>2. item' = item
    BY <1>3 DEF RecoverApplyDone, RecoverRevertDone
  <2> QED
    BY <2>1, <2>2, EndStep DEF LedgerStep, Ledger!Next
<1>4. CASE item' = item /\ (RecoverApplyItem \/ RecoverRevertItem \/ RecoverDone)
  BY <1>4, NothingSeen DEF RecoverApplyItem, RecoverRevertItem, RecoverDone, LedgerStep
<1> QED
  BY <1>1, <1>2, <1>3, <1>4 DEF Recover

LEMMA InitLedger == Init => Ledger!Init
<1> SUFFICES ASSUME Init
             PROVE  Ledger!Init
  OBVIOUS
<1>1. Owner = 0 /\ Undoing = FALSE
  BY NobodyOwns DEF Init
<1>2. Spent = {}
  BY DEF Init, Spent, In
<1>3. /\ Consented = [r \in Runs |-> {}] /\ Made = [r \in Runs |-> {}]
      /\ TakenBack = [r \in Runs |-> {}]
  BY DEF Init, Consented, Made, TakenBack, Having, Blank
<1> QED
  BY <1>1, <1>2, <1>3 DEF Ledger!Init

LEMMA StepLedger == IInv /\ Rows /\ [Next]_vars => [Ledger!Next]_(Ledger!vars)
<1> SUFFICES ASSUME IInv, Rows, [Next]_vars
             PROVE  LedgerStep
  BY DEF LedgerStep, LedgerSees, Ledger!vars
<1>1. ASSUME NEW c \in Clients, Request(c)
      PROVE  LedgerStep
  BY <1>1, StartLedger, ApplyLedger, RevertLedger DEF Request
<1>2. CASE UserEdit \/ Crash \/ UNCHANGED vars
  BY <1>2, NothingSeen DEF UserEdit, Crash, vars, LedgerStep
<1> QED
  BY <1>1, <1>2, JobLedger, RecoverLedger DEF Next

\* The whole feature keeps the promise the approval screen makes: one run owns
\* the files at a time, changes only what was agreed to, once, and undoes only
\* what it made; stops and the recovery after them included.
THEOREM KeepsTheLedgerAlways == Spec => KeepsTheLedger
BY InitIInv, StepIInv, InitRows, StepRows, InitLedger, StepLedger, PTL DEF Spec, KeepsTheLedger, Ledger!Spec
=============================================================================
