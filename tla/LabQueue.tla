------------------------------ MODULE LabQueue ------------------------------
(***************************************************************************)
(* The lab's research requests: src/cc/lab.py (request_note,               *)
(* process_requests, _write_note, resume_requests), the lab_requests table *)
(* of src/db/lab.py and the background-job registry of src/jobs.py.        *)
(*                                                                         *)
(* A request is a row that waits in the database.  Each client thread adds *)
(* its row and then wakes the one job that works the queue off; the job    *)
(* asks a model, writes a note file and marks the row.  A stop of the      *)
(* server loses threads and registry but neither rows nor notes.           *)
(***************************************************************************)
EXTENDS Naturals, FiniteSets

CONSTANTS
  MaxNoteRequests, \* bound: requests ever made
  Topics,       \* what _note_key makes of a topic, the day included
  Threads,      \* threads the registry may start the job on
  Nobody,       \* no thread is registered under NOTE_JOB
  MaxNotes,     \* bound: notes of one topic
  MaxCrashes    \* bound: stops of the server

ASSUME BoundsAssumption == MaxNoteRequests \in Nat /\ MaxNotes \in Nat /\ MaxCrashes \in Nat
ASSUME NobodyAssumption == Nobody \notin Threads

VARIABLES
  status,   \* lab_requests.status, by request id
  topic,    \* the request's topic
  noteKey,  \* lab_requests.note_key
  notes,    \* the note files: which request each was written for, 0 if absent
  waking,   \* requests whose thread has added the row and not yet woken the job
  phase,    \* "serving", or a step of the start-up hook
  job,      \* _JOBS[NOTE_JOB]: the thread of the latest start
  running,  \* the "running" flag of each thread's state record
  doing, has, key, \* where a thread is, the request it works on, the note's name
  crashes

request == <<status, topic, noteKey>>
thread  == <<doing, has, key>>
queueVars ==
  <<status, topic, noteKey, notes, waking, phase, job, running, doing, has, key, crashes>>

Ids  == 1..MaxNoteRequests
Keys == Topics \X (1..MaxNotes)
NoKey == <<>>
Working == {"poll", "claim", "ask", "name", "write", "finish", "exit"}

Queued == {i \in Ids : status[i] = "queued"}

QueueInit ==
  /\ status = [i \in Ids |-> "none"] /\ topic \in [Ids -> Topics]
  /\ noteKey = [i \in Ids |-> NoKey] /\ notes = [k \in Keys |-> 0]
  /\ waking = {} /\ phase = "serving"
  /\ job = Nobody /\ running = [t \in Threads |-> FALSE]
  /\ doing = [t \in Threads |-> "off"] /\ has = [t \in Threads |-> 0]
  /\ key = [t \in Threads |-> NoKey]
  /\ crashes = 0

-----------------------------------------------------------------------------
(* jobs.start and jobs.is_running.                                         *)

\* Mutant of IsRunning: the registry never sees a job.
IsRunningNever == FALSE

IsRunning == job # Nobody /\ running[job] /\ doing[job] # "off"

\* Under the registry's lock: refuse while the job runs, else start a thread.
StartJob ==
  IF IsRunning THEN UNCHANGED <<job, running, thread>>
  ELSE \E t \in Threads :
         /\ doing[t] = "off"
         /\ job' = t /\ running' = [running EXCEPT ![t] = TRUE]
         /\ doing' = [doing EXCEPT ![t] = "poll"] /\ has' = [has EXCEPT ![t] = 0]
         /\ UNCHANGED key

\* The thread's finally clause.
JobEnds(t) ==
  /\ doing[t] = "exit"
  /\ running' = [running EXCEPT ![t] = FALSE] /\ doing' = [doing EXCEPT ![t] = "off"]
  /\ UNCHANGED <<request, notes, waking, phase, job, has, key, crashes>>

-----------------------------------------------------------------------------
(* lab.request_note: add the row, then wake the job.                       *)

AddRequest(i) ==
  /\ phase = "serving"
  /\ status[i] = "none" /\ \A j \in Ids : j < i => status[j] # "none"
  /\ status' = [status EXCEPT ![i] = "queued"]
  /\ waking' = waking \cup {i}
  /\ UNCHANGED <<topic, noteKey, notes, phase, job, running, thread, crashes>>

Wake(i) ==
  /\ i \in waking /\ waking' = waking \ {i}
  /\ StartJob
  /\ UNCHANGED <<request, notes, phase, crashes>>

-----------------------------------------------------------------------------
(* lab.process_requests, on a thread of the registry.                      *)

Goes(t, from, to) == doing[t] = from /\ doing' = [doing EXCEPT ![t] = to]
JobFrame == UNCHANGED <<topic, waking, phase, job, running, crashes>>

\* next_queued reads the oldest queued row ...
Poll(t) ==
  /\ \/ Queued = {} /\ Goes(t, "poll", "exit") /\ UNCHANGED has
     \/ \E i \in Queued :
          /\ \A j \in Queued : i <= j
          /\ Goes(t, "poll", "claim") /\ has' = [has EXCEPT ![t] = i]
  /\ UNCHANGED <<status, noteKey, notes, key>> /\ JobFrame

\* ... and then marks it, without looking again.
Claim(t) ==
  /\ Goes(t, "claim", "ask")
  /\ status' = [status EXCEPT ![has[t]] = "running"]
  /\ UNCHANGED <<noteKey, notes, has, key>> /\ JobFrame

Answer(t) ==
  /\ Goes(t, "ask", "name")
  /\ UNCHANGED <<request, notes, has, key>> /\ JobFrame

\* Mutant of PickName: whether the name is taken is not looked at.
NameTaken(t) ==
  /\ Goes(t, "name", "write")
  /\ key' = [key EXCEPT ![t] = <<topic[has[t]], 1>>]
  /\ UNCHANGED <<request, notes, has>> /\ JobFrame

\* The first name no note has yet: key, key-2, key-3, ...
PickName(t) ==
  /\ Goes(t, "name", "write")
  /\ \E n \in 1..MaxNotes :
       /\ notes[<<topic[has[t]], n>>] = 0
       /\ \A m \in 1..(n - 1) : notes[<<topic[has[t]], m>>] # 0
       /\ key' = [key EXCEPT ![t] = <<topic[has[t]], n>>]
  /\ UNCHANGED <<request, notes, has>> /\ JobFrame

Write(t) ==
  /\ Goes(t, "write", "finish")
  /\ notes' = [notes EXCEPT ![key[t]] = has[t]]
  /\ UNCHANGED <<request, has, key>> /\ JobFrame

Finish(t) ==
  /\ Goes(t, "finish", "poll")
  /\ status' = [status EXCEPT ![has[t]] = "done"]
  /\ noteKey' = [noteKey EXCEPT ![has[t]] = key[t]]
  /\ has' = [has EXCEPT ![t] = 0]
  /\ UNCHANGED <<notes, key>> /\ JobFrame

\* The answer is no note, or the file cannot be written: the row is marked
\* failed and the next request is looked for.
Fail(t) ==
  /\ doing[t] \in {"ask", "write"} /\ doing' = [doing EXCEPT ![t] = "poll"]
  /\ status' = [status EXCEPT ![has[t]] = "failed"]
  /\ has' = [has EXCEPT ![t] = 0]
  /\ UNCHANGED <<noteKey, notes, key>> /\ JobFrame

Job(t) ==
  \/ Poll(t) \/ Claim(t) \/ Answer(t) \/ PickName(t) \/ Write(t) \/ Finish(t) \/ Fail(t) \/ JobEnds(t)

-----------------------------------------------------------------------------
(* The server stops; lab.resume_requests runs before it serves again.      *)

Crash ==
  /\ crashes < MaxCrashes /\ crashes' = crashes + 1
  /\ phase' = "requeue" /\ waking' = {}
  /\ job' = Nobody /\ running' = [t \in Threads |-> FALSE]
  /\ doing' = [t \in Threads |-> "off"] /\ has' = [t \in Threads |-> 0]
  /\ key' = [t \in Threads |-> NoKey]
  /\ UNCHANGED <<request, notes>>

Requeue ==
  /\ phase = "requeue" /\ phase' = "resume"
  /\ status' = [i \in Ids |-> IF status[i] = "running" THEN "queued" ELSE status[i]]
  /\ UNCHANGED <<topic, noteKey, notes, waking, job, running, thread, crashes>>

\* Mutant of Resume: what waits is not taken up.
ResumeIdle ==
  /\ phase = "resume" /\ phase' = "serving"
  /\ UNCHANGED <<request, notes, waking, job, running, thread, crashes>>

Resume ==
  /\ phase = "resume" /\ phase' = "serving"
  /\ IF Queued # {} THEN StartJob ELSE UNCHANGED <<job, running, thread>>
  /\ UNCHANGED <<request, notes, waking, crashes>>

QueueNext ==
  \/ \E i \in Ids : AddRequest(i) \/ Wake(i)
  \/ \E t \in Threads : Job(t)
  \/ Crash \/ Requeue \/ Resume

QueueSpec == QueueInit /\ [][QueueNext]_queueVars

-----------------------------------------------------------------------------
(* What must hold.                                                         *)

QueueTypeOK ==
  /\ status \in [Ids -> {"none", "queued", "running", "done", "failed"}]
  /\ topic \in [Ids -> Topics]
  /\ noteKey \in [Ids -> Keys \cup {NoKey}]
  /\ notes \in [Keys -> Ids \cup {0}]
  /\ waking \subseteq Ids
  /\ phase \in {"serving", "requeue", "resume"}
  /\ job \in Threads \cup {Nobody}
  /\ running \in [Threads -> BOOLEAN]
  /\ doing \in [Threads -> Working \cup {"off"}]
  /\ has \in [Threads -> Ids \cup {0}]
  /\ key \in [Threads -> Keys \cup {NoKey}]
  /\ crashes \in 0..MaxCrashes

\* One thread works the queue off at a time, however the wakes of requests, the
\* end of a job and the start-up hook interleave (jobs.start's guard): two
\* would claim the same row, since next_queued marks without comparing.
OneWorker == \A t, u \in Threads : doing[t] # "off" /\ doing[u] # "off" => t = u

\* A note once written is never overwritten: its name is looked for before the
\* file is put in place, and nobody else takes the name in between.
NotesAreKept ==
  [][\A k \in Keys : notes[k] # 0 => notes'[k] = notes[k]]_queueVars

\* A request that is done leads to a note, and that note was written for it.
DoneHasItsNote ==
  \A i \in Ids : status[i] = "done" => noteKey[i] \in Keys /\ notes[noteKey[i]] = i

\* While the server serves, a request that is said to be under way is worked on.
RunningIsHeld ==
  phase = "serving" =>
    \A i \in Ids : status[i] = "running" => \E t \in Threads : has[t] = i /\ doing[t] # "off"

\* Threads are scheduled and the model call has a timeout (NOTE_TIMEOUT).
Fairness ==
  /\ \A i \in Ids : WF_queueVars(Wake(i))
  /\ \A t \in Threads : WF_queueVars(Job(t))
  /\ WF_queueVars(Requeue \/ Resume)

FairQueueSpec == QueueSpec /\ Fairness

\* The start-up hook takes up whatever waits, what the last life of the server
\* had left behind included.
LeftoversAreAnswered ==
  \A i \in Ids : phase = "resume" /\ status[i] = "queued" ~> status[i] \in {"done", "failed"}

\* lab.py: "if the job already runs, it goes on and picks the request up".
QueuedIsTakenUp == \A i \in Ids : status[i] = "queued" ~> status[i] # "queued"

-----------------------------------------------------------------------------
(* With QueueTypeOK this is inductive; it gives OneWorker, NotesAreKept,    *)
(* DoneHasItsNote and RunningIsHeld.                                        *)

\* A thread at work is the registered one and flagged as running, and there is
\* none while the start-up hook is under way.
WorkerAgrees ==
  /\ \A t \in Threads : doing[t] # "off" => job = t /\ running[t] /\ phase = "serving"
  /\ phase # "serving" => waking = {}

\* What a thread holds, by where it is.
HoldingAgrees ==
  \A t \in Threads :
    /\ doing[t] \in {"claim", "ask", "name", "write", "finish"} => has[t] \in Ids
    /\ doing[t] \in {"poll", "exit"} => has[t] = 0
    /\ doing[t] = "claim" => status[has[t]] = "queued"
    /\ doing[t] \in {"ask", "name", "write", "finish"} => status[has[t]] = "running"
    /\ doing[t] = "write" => key[t] \in Keys /\ notes[key[t]] = 0
    /\ doing[t] = "finish" => key[t] \in Keys /\ notes[key[t]] = has[t]

RowsAgree ==
  /\ phase = "resume" => \A i \in Ids : status[i] # "running"
  /\ RunningIsHeld /\ DoneHasItsNote

Queue == WorkerAgrees /\ HoldingAgrees /\ RowsAgree
=============================================================================
