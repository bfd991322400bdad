---------------------------- MODULE BoardSession ----------------------------
(***************************************************************************)
(* The runner of board discussions: src/cc/board_session.py with the       *)
(* board_sessions rows of src/db/sessions.py.                              *)
(*                                                                         *)
(* A discussion is a row and a thread.  start() closes rows no live thread *)
(* stands behind, creates the new row and starts its thread, all under     *)
(* _LOCK; stop() takes no lock: it reads the active row, marks it          *)
(* "stopping" and sets the thread's event, in three steps.  The thread     *)
(* goes through the stages, looks at the event before every model call,    *)
(* records the scores and closes the row.  A stop of the server loses      *)
(* threads and events; the start-up hook closes the rows left open.        *)
(***************************************************************************)
EXTENDS Naturals, FiniteSets

CONSTANTS
  MaxSessions,  \* bound: discussions ever started
  Stages,       \* len(PHASE_PLAN)
  MaxCalls,     \* bound: model calls of a stage
  Clients,      \* request threads
  Free,         \* _LOCK is not held
  MaxCrashes    \* bound: stops of the server

ASSUME BoundsAssumption ==
  MaxSessions \in Nat /\ Stages \in Nat /\ MaxCalls \in Nat /\ MaxCrashes \in Nat
ASSUME FreeAssumption == Free \notin Clients

VARIABLES
  status,   \* board_sessions.status, by session id
  scored,   \* sessions whose scores are recorded (discussion_scores)
  run,      \* where the session's thread is
  stage,    \* the stage the thread's loop is at
  calls,    \* model calls launched in that stage
  events,   \* _STOP_EVENTS: sessions with a registered event
  set,      \* sessions whose event is set
  lock, pc, req, todo,  \* _LOCK, and what the request threads are doing
  phase,    \* "serving", or "recovering" in the start-up hook
  crashes,
  told,     \* history: sessions whose stop() has answered "ok"
  raised    \* history: sessions whose thread, or scoring at start-up, raised

row    == <<status, scored>>
thread == <<run, stage, calls>>
signal == <<events, set>>
client == <<lock, pc, req, todo>>
vars   == <<status, scored, run, stage, calls, events, set, lock, pc, req, todo,
            phase, crashes, told, raised>>

Sessions == 1..MaxSessions
Active   == {s \in Sessions : status[s] \in {"running", "stopping"}}
Latest(s, S) == s \in S /\ \A q \in S : q <= s

\* Until its row is closed a thread may still launch calls or write scores.
Working == {"loop", "stage", "decide", "last_scores", "scores", "reflect", "close_stopped", "close_done"}
Alive(s) == run[s] \in Working \cup {"finally"}

Init ==
  /\ status = [s \in Sessions |-> "none"] /\ scored = {}
  /\ run = [s \in Sessions |-> "none"]
  /\ stage = [s \in Sessions |-> 0] /\ calls = [s \in Sessions |-> 0]
  /\ events = {} /\ set = {}
  /\ lock = Free /\ pc = [c \in Clients |-> "idle"] /\ req = [c \in Clients |-> 0] /\ todo = {}
  /\ phase = "serving" /\ crashes = 0 /\ told = {} /\ raised = {}

-----------------------------------------------------------------------------
(* start(minutes, paths), under _LOCK.                                     *)

Goto(c, from, to) == pc[c] = from /\ pc' = [pc EXCEPT ![c] = to]
ClientFrame == UNCHANGED <<phase, crashes, raised>>

\* Bound: while a session id is left.
StartLock(c) ==
  /\ Goto(c, "idle", "s_scan")
  /\ \E s \in Sessions : status[s] = "none"
  /\ lock = Free /\ lock' = c
  /\ todo' = Active
  /\ UNCHANGED <<row, thread, signal, req, told>> /\ ClientFrame

\* A live thread stands behind an active row: refuse.
StartRefuse(c) ==
  /\ Goto(c, "s_scan", "idle")
  /\ \E s \in Sessions : Latest(s, todo) /\ Alive(s)
  /\ lock' = Free /\ todo' = {}
  /\ UNCHANGED <<row, thread, signal, req, told>> /\ ClientFrame

\* Mutant of StartCloses: the row is closed under a live thread too.
StartClosesAny(c) ==
  /\ pc[c] = "s_scan"
  /\ \E s \in Sessions :
       /\ Latest(s, todo)
       /\ status' = [status EXCEPT ![s] = "stopped"]
       /\ todo' = todo \ {s}
  /\ UNCHANGED <<scored, thread, signal, lock, pc, req, told>> /\ ClientFrame

\* No thread: the row was left behind; close it.
StartCloses(c) ==
  /\ pc[c] = "s_scan"
  /\ \E s \in Sessions :
       /\ Latest(s, todo) /\ ~Alive(s)
       /\ status' = [status EXCEPT ![s] = "stopped"]
       /\ todo' = todo \ {s}
  /\ UNCHANGED <<scored, thread, signal, lock, pc, req, told>> /\ ClientFrame

StartCreates(c) ==
  /\ Goto(c, "s_scan", "s_thread")
  /\ todo = {}
  /\ \E s \in Sessions :
       /\ status[s] = "none" /\ \A q \in Sessions : q < s => status[q] # "none"
       /\ status' = [status EXCEPT ![s] = "running"]
       /\ req' = [req EXCEPT ![c] = s]
  /\ UNCHANGED <<scored, thread, signal, lock, todo, told>> /\ ClientFrame

\* The event is registered, and the thread started, after the row is there.
StartThread(c) ==
  /\ Goto(c, "s_thread", "idle")
  /\ events' = events \cup {req[c]}
  /\ run' = [run EXCEPT ![req[c]] = "loop"] /\ stage' = [stage EXCEPT ![req[c]] = 1]
  /\ lock' = Free /\ req' = [req EXCEPT ![c] = 0]
  /\ UNCHANGED <<row, calls, set, todo, told>> /\ ClientFrame

-----------------------------------------------------------------------------
(* stop(): no lock.                                                        *)

StopReads(c) ==
  /\ Goto(c, "idle", "p_mark")
  /\ \E s \in Sessions : Latest(s, Active) /\ req' = [req EXCEPT ![c] = s]
  /\ UNCHANGED <<row, thread, signal, lock, todo, told>> /\ ClientFrame

\* Mutant of StopMarks: the request itself closes the row.
StopMarksStopped(c) ==
  /\ Goto(c, "p_mark", "p_signal")
  /\ status' = [status EXCEPT ![req[c]] = "stopped"]
  /\ UNCHANGED <<scored, thread, signal, lock, req, todo, told>> /\ ClientFrame

StopMarks(c) ==
  /\ Goto(c, "p_mark", "p_signal")
  /\ status' = [status EXCEPT ![req[c]] = "stopping"]
  /\ UNCHANGED <<scored, thread, signal, lock, req, todo, told>> /\ ClientFrame

\* Only a registered event can be set; the answer is "ok" in any case.
StopSignals(c) ==
  /\ Goto(c, "p_signal", "idle")
  /\ set' = IF req[c] \in events THEN set \cup {req[c]} ELSE set
  /\ told' = told \cup {req[c]}
  /\ req' = [req EXCEPT ![c] = 0]
  /\ UNCHANGED <<row, thread, events, lock, todo>> /\ ClientFrame

Request(c) ==
  /\ phase = "serving"
  /\ \/ StartLock(c) \/ StartRefuse(c) \/ StartCloses(c) \/ StartCreates(c) \/ StartThread(c)
     \/ StopReads(c) \/ StopMarks(c) \/ StopSignals(c)

-----------------------------------------------------------------------------
(* _run: the session's thread.                                             *)

Step(s, from, to) == run[s] = from /\ run' = [run EXCEPT ![s] = to]
RunFrame == UNCHANGED <<client, phase, crashes, told>>

\* The loop over PHASE_PLAN: leave it when the event is set, pass over a stage
\* whose time is used up, or run it.
Loop(s) ==
  /\ \/ /\ s \in set \/ stage[s] > Stages
        /\ Step(s, "loop", "decide") /\ UNCHANGED stage
     \/ /\ s \notin set /\ stage[s] <= Stages
        /\ \/ Step(s, "loop", "stage") /\ UNCHANGED stage
           \/ /\ run[s] = "loop" /\ UNCHANGED run
              /\ stage' = [stage EXCEPT ![s] = @ + 1]
  /\ calls' = [calls EXCEPT ![s] = 0]
  /\ UNCHANGED <<row, signal, raised>> /\ RunFrame

\* _should_skip and the reflection's check: no new call once the event is set.
Launch(s) ==
  /\ run[s] \in {"stage", "reflect"} /\ s \notin set
  /\ calls[s] < MaxCalls /\ calls' = [calls EXCEPT ![s] = @ + 1]
  /\ UNCHANGED <<row, run, stage, signal, raised>> /\ RunFrame

StageEnds(s) ==
  /\ Step(s, "stage", "loop")
  /\ stage' = [stage EXCEPT ![s] = @ + 1]
  /\ UNCHANGED <<row, calls, signal, raised>> /\ RunFrame

\* Stopped: the scores only.  Otherwise the scores and the reflection.
Decide(s) ==
  /\ Step(s, "decide", IF s \in set THEN "last_scores" ELSE "scores")
  /\ UNCHANGED <<row, stage, calls, signal, raised>> /\ RunFrame

\* Mutant of RecordScores: the scores are counted and not stored.
RecordScoresNot(s) ==
  /\ Step(s, "last_scores", "close_stopped") \/ Step(s, "scores", "reflect")
  /\ UNCHANGED <<row, stage, calls, signal, raised>> /\ RunFrame

RecordScores(s) ==
  /\ Step(s, "last_scores", "close_stopped") \/ Step(s, "scores", "reflect")
  /\ scored' = scored \cup {s}
  /\ UNCHANGED <<status, stage, calls, signal, raised>> /\ RunFrame

ReflectEnds(s) ==
  /\ Step(s, "reflect", "close_done")
  /\ UNCHANGED <<row, stage, calls, signal, raised>> /\ RunFrame

\* The last word on the row, whatever it says by now.
Close(s) ==
  /\ \/ Step(s, "close_stopped", "finally") /\ status' = [status EXCEPT ![s] = "stopped"]
     \/ Step(s, "close_done", "finally") /\ status' = [status EXCEPT ![s] = "done"]
  /\ UNCHANGED <<scored, stage, calls, signal, raised>> /\ RunFrame

Raise(s) ==
  /\ run[s] \in {"stage", "last_scores", "scores", "reflect"}
  /\ run' = [run EXCEPT ![s] = "finally"]
  /\ status' = [status EXCEPT ![s] = "failed"]
  /\ raised' = raised \cup {s}
  /\ UNCHANGED <<scored, stage, calls, signal>> /\ RunFrame

Finally(s) ==
  /\ Step(s, "finally", "dead")
  /\ events' = events \ {s} /\ set' = set \ {s}
  /\ stage' = [stage EXCEPT ![s] = 0] /\ calls' = [calls EXCEPT ![s] = 0]
  /\ UNCHANGED <<row, raised>> /\ RunFrame

Run(s) ==
  \/ Loop(s) \/ Launch(s) \/ StageEnds(s) \/ Decide(s) \/ RecordScores(s) \/ ReflectEnds(s)
  \/ Close(s) \/ Raise(s) \/ Finally(s)

-----------------------------------------------------------------------------
(* The server stops; recover_on_startup runs before it serves again.       *)

Crash ==
  /\ crashes < MaxCrashes /\ crashes' = crashes + 1
  /\ phase' = "recovering"
  /\ run' = [s \in Sessions |-> IF run[s] = "none" THEN "none" ELSE "dead"]
  /\ stage' = [s \in Sessions |-> 0] /\ calls' = [s \in Sessions |-> 0]
  /\ events' = {} /\ set' = {}
  /\ lock' = Free /\ pc' = [c \in Clients |-> "idle"] /\ req' = [c \in Clients |-> 0] /\ todo' = {}
  /\ UNCHANGED <<row, told, raised>>

RecoverScores ==
  /\ phase = "recovering"
  /\ \E s \in Sessions : Latest(s, Active) /\ s \notin scored /\ scored' = scored \cup {s}
  /\ UNCHANGED <<status, thread, signal, client, phase, crashes, told, raised>>

\* An exception of the scoring is logged and the row closed all the same.
RecoverCloses ==
  /\ phase = "recovering"
  /\ \E s \in Sessions :
       /\ Latest(s, Active) /\ status' = [status EXCEPT ![s] = "stopped"]
       /\ raised' = IF s \in scored THEN raised ELSE raised \cup {s}
  /\ UNCHANGED <<scored, thread, signal, client, phase, crashes, told>>

\* Mutant of RecoverDone: the server serves before the hook has finished.
RecoverDoneEarly ==
  /\ phase = "recovering" /\ phase' = "serving"
  /\ UNCHANGED <<row, thread, signal, client, crashes, told, raised>>

RecoverDone ==
  /\ phase = "recovering" /\ Active = {} /\ phase' = "serving"
  /\ UNCHANGED <<row, thread, signal, client, crashes, told, raised>>

Recover == RecoverScores \/ RecoverCloses \/ RecoverDone

Next ==
  \/ \E c \in Clients : Request(c)
  \/ \E s \in Sessions : Run(s)
  \/ Crash \/ Recover

Spec == Init /\ [][Next]_vars

-----------------------------------------------------------------------------
(* What must hold.                                                         *)

TypeOK ==
  /\ status \in [Sessions -> {"none", "running", "stopping", "stopped", "done", "failed"}]
  /\ scored \subseteq Sessions
  /\ run \in [Sessions -> Working \cup {"none", "finally", "dead"}]
  /\ stage \in [Sessions -> 0..(Stages + 1)] /\ calls \in [Sessions -> 0..MaxCalls]
  /\ events \subseteq Sessions /\ set \subseteq Sessions
  /\ lock \in Clients \cup {Free}
  /\ pc \in [Clients -> {"idle", "s_scan", "s_thread", "p_mark", "p_signal"}]
  /\ req \in [Clients -> Sessions \cup {0}] /\ todo \subseteq Sessions
  /\ phase \in {"serving", "recovering"} /\ crashes \in 0..MaxCrashes
  /\ told \subseteq Sessions /\ raised \subseteq Sessions

\* One discussion at a time: two threads never launch calls or write scores
\* together, though stop() may turn a closed row back into an active one, and
\* rows without a thread are closed by the next start (start's check of the
\* threads under _LOCK).
OneDiscussion ==
  \A s, q \in Sessions : run[s] \in Working /\ run[q] \in Working => s = q

\* A row that says the discussion is over is right: its thread launches no
\* more calls, and so the scores of the session no longer move.
ClosedIsQuiet ==
  \A s \in Sessions : status[s] \in {"stopped", "done", "failed"} => run[s] \notin Working

\* A discussion closed as done or stopped has its scores recorded, whoever
\* closed it: its thread, the start-up hook or the next start (board_session:
\* a stopped or interrupted discussion still leaves its scores).
ClosedHasScores ==
  \A s \in Sessions : status[s] \in {"done", "stopped"} => s \in scored \cup raised

\* Threads are scheduled, model calls time out (BOARD_TIMEOUT), the start-up
\* hook runs to its end.
Fairness ==
  /\ \A c \in Clients : WF_vars(pc[c] # "idle" /\ Request(c))
  /\ \A s \in Sessions : WF_vars(Run(s))
  /\ WF_vars(Recover)

FairSpec == Spec /\ Fairness

\* A discussion that was started comes to an end and its row says so at least
\* once, by its own thread or after a stop of the server.
DiscussionEnds ==
  \A s \in Sessions : status[s] = "running" ~> status[s] \in {"stopped", "done", "failed"}

-----------------------------------------------------------------------------
(* What the repository says of the program and the code does not do.       *)

\* board_session.py: after a stop, running calls end and no new one is launched.
NoCallAfterStop ==
  [][\A s \in Sessions : calls'[s] > calls[s] => s \notin told]_vars

-----------------------------------------------------------------------------
(* With TypeOK this is inductive; it gives OneDiscussion, ClosedIsQuiet and *)
(* ClosedHasScores.                                                        *)

LockAgrees ==
  /\ \A c \in Clients : pc[c] \in {"s_scan", "s_thread"} <=> lock = c
  /\ phase = "recovering" => lock = Free /\ \A s \in Sessions : run[s] \notin Working
  /\ phase = "recovering" => \A c \in Clients : pc[c] = "idle"

\* A thread at work has an active row; the one who starts has gone through all
\* rows with such a thread before it creates its own.
RunAgrees ==
  /\ \A s \in Sessions : run[s] \in Working => status[s] \in {"running", "stopping"}
  /\ \A c \in Clients : pc[c] = "s_scan" => \A s \in Sessions : run[s] \in Working => s \in todo
  /\ \A c \in Clients : pc[c] = "s_thread" =>
       /\ req[c] \in Sessions /\ status[req[c]] \in {"running", "stopping"} /\ run[req[c]] = "none"
       /\ \A s \in Sessions : run[s] \notin Working
  /\ \A c \in Clients : pc[c] \in {"p_mark", "p_signal"} => req[c] \in Sessions /\ status[req[c]] # "none"
  /\ \A s \in todo : status[s] # "none"
  /\ \A s \in Sessions : status[s] = "none" => run[s] = "none"
  /\ \A s \in Sessions : run[s] = "stage" => stage[s] <= Stages

\* An active row without a thread at work is about to get one, or has its
\* scores already, or its thread raised; the start-up hook sees to the rest.
ScoresAgree ==
  /\ \A s \in Sessions : run[s] \in {"reflect", "close_stopped", "close_done"} => s \in scored
  /\ \A s \in Sessions : status[s] = "failed" => s \in raised
  /\ \A s \in Sessions :
       phase = "serving" /\ status[s] \in {"running", "stopping"} /\ run[s] \notin Working
         => s \in scored \cup raised \/ \E c \in Clients : pc[c] = "s_thread" /\ req[c] = s
  /\ ClosedHasScores

Control == LockAgrees /\ RunAgrees /\ OneDiscussion /\ ScoresAgree
=============================================================================
