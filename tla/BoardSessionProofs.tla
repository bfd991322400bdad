------------------------- MODULE BoardSessionProofs -------------------------
(* The safety of the discussion runner, for any number of sessions, request *)
(* threads, stages, calls and stops of the server.                          *)
EXTENDS BoardSession, TLAPS

IInv == TypeOK /\ Control

USE DEF row, thread, signal, client, Sessions, Active, Working, Alive

-----------------------------------------------------------------------------
(* The type of every variable.                                              *)

LEMMA RequestType ==
  ASSUME IInv, NEW c \in Clients, Request(c)
  PROVE  TypeOK'
<1> USE DEF IInv
<1>1. CASE StartLock(c)
  BY <1>1 DEF TypeOK, StartLock, Goto, ClientFrame
<1>2. CASE StartRefuse(c)
  BY <1>2 DEF TypeOK, StartRefuse, Goto, ClientFrame
<1>3. CASE StartCloses(c)
  BY <1>3 DEF TypeOK, StartCloses, Latest, ClientFrame
<1>4. CASE StartCreates(c)
  BY <1>4 DEF TypeOK, StartCreates, Goto, ClientFrame
<1>5. CASE StartThread(c)
  <2>1. req[c] \in Sessions
    BY <1>5 DEF StartThread, Goto, Control, RunAgrees
  <2>2. stage' \in [Sessions -> 0..(Stages + 1)]
    <3>1. 1 \in 0..(Stages + 1)
      BY BoundsAssumption
    <3>2. stage' = [stage EXCEPT ![req[c]] = 1]
      BY <1>5 DEF StartThread
    <3> QED
      BY <3>1, <3>2 DEF TypeOK
  <2> QED
    BY <1>5, <2>1, <2>2 DEF TypeOK, StartThread, Goto, ClientFrame
<1>6. CASE StopReads(c)
  BY <1>6 DEF TypeOK, StopReads, Goto, ClientFrame
<1>7. CASE StopMarks(c)
  BY <1>7 DEF TypeOK, StopMarks, Goto, ClientFrame
<1>8. CASE StopSignals(c)
  <2>1. req[c] \in Sessions
    BY <1>8 DEF StopSignals, Goto, Control, RunAgrees
  <2> QED
    BY <1>8, <2>1 DEF TypeOK, StopSignals, Goto, ClientFrame
<1> QED
  BY <1>1, <1>2, <1>3, <1>4, <1>5, <1>6, <1>7, <1>8 DEF Request

LEMMA RunType ==
  ASSUME IInv, NEW s \in Sessions, Run(s)
  PROVE  TypeOK'
<1> USE BoundsAssumption DEF IInv
<1>1. CASE Loop(s)
  <2>1. stage' = stage \/ (stage[s] <= Stages /\ stage' = [stage EXCEPT ![s] = @ + 1])
    BY <1>1 DEF Loop
  <2>2. stage[s] <= Stages => stage[s] + 1 \in 0..(Stages + 1)
    BY DEF TypeOK
  <2>3. stage' \in [Sessions -> 0..(Stages + 1)]
    BY <2>1, <2>2 DEF TypeOK
  <2>4. calls' \in [Sessions -> 0..MaxCalls]
    <3>1. 0 \in 0..MaxCalls /\ calls' = [calls EXCEPT ![s] = 0]
      BY <1>1 DEF Loop
    <3> QED
      BY <3>1 DEF TypeOK
  <2>5. run' \in [Sessions -> Working \cup {"none", "finally", "dead"}]
    <3>1. \E to \in {"decide", "stage", run[s]} : run' = [run EXCEPT ![s] = to]
      BY <1>1 DEF Loop, Step, TypeOK
    <3> QED
      BY <3>1 DEF TypeOK, Working
  <2> QED
    BY <1>1, <2>3, <2>4, <2>5 DEF TypeOK, Loop, RunFrame
<1>2. CASE Launch(s)
  <2>1. calls[s] + 1 \in 0..MaxCalls /\ calls' = [calls EXCEPT ![s] = @ + 1]
    BY <1>2 DEF TypeOK, Launch
  <2>2. calls' \in [Sessions -> 0..MaxCalls]
    BY <2>1 DEF TypeOK
  <2> QED
    BY <1>2, <2>2 DEF TypeOK, Launch, RunFrame
<1>3. CASE StageEnds(s)
  <2>1. stage[s] <= Stages /\ stage' = [stage EXCEPT ![s] = @ + 1]
    BY <1>3 DEF StageEnds, Step, Control, RunAgrees
  <2>2. stage[s] + 1 \in 0..(Stages + 1)
    BY <2>1 DEF TypeOK
  <2>3. stage' \in [Sessions -> 0..(Stages + 1)]
    BY <2>1, <2>2 DEF TypeOK
  <2> QED
    BY <1>3, <2>3 DEF TypeOK, StageEnds, Step, RunFrame
<1>4. CASE Decide(s)
  BY <1>4 DEF TypeOK, Decide, Step, RunFrame
<1>5. CASE RecordScores(s)
  BY <1>5 DEF TypeOK, RecordScores, Step, RunFrame
<1>6. CASE ReflectEnds(s)
  BY <1>6 DEF TypeOK, ReflectEnds, Step, RunFrame
<1>7. CASE Close(s)
  BY <1>7 DEF TypeOK, Close, Step, RunFrame
<1>8. CASE Raise(s)
  BY <1>8 DEF TypeOK, Raise, RunFrame
<1>9. CASE Finally(s)
  BY <1>9 DEF TypeOK, Finally, Step, RunFrame
<1> QED
  BY <1>1, <1>2, <1>3, <1>4, <1>5, <1>6, <1>7, <1>8, <1>9 DEF Run

LEMMA RestartType ==
  ASSUME IInv, Crash \/ Recover
  PROVE  TypeOK'
<1> USE BoundsAssumption DEF IInv
<1>1. CASE Crash
  BY <1>1 DEF TypeOK, Crash
<1>2. CASE RecoverScores
  BY <1>2 DEF TypeOK, RecoverScores, Latest
<1>3. CASE RecoverCloses
  BY <1>3 DEF TypeOK, RecoverCloses, Latest
<1>4. CASE RecoverDone
  BY <1>4 DEF TypeOK, RecoverDone
<1> QED
  BY <1>1, <1>2, <1>3, <1>4 DEF Recover

-----------------------------------------------------------------------------
(* Every step keeps Control.                                                *)

\* Only the client that holds _LOCK is inside start().
LEMMA LockHolder ==
  ASSUME IInv, NEW c \in Clients, pc[c] \in {"s_scan", "s_thread"},
         NEW d \in Clients, d # c
  PROVE  pc[d] \notin {"s_scan", "s_thread"}
BY DEF IInv, Control, LockAgrees

LEMMA RequestControl ==
  ASSUME IInv, NEW c \in Clients, Request(c)
  PROVE  Control'
<1> USE DEF IInv, Control
<1>0. phase = "serving"
  BY DEF Request
<1>1. CASE StartLock(c)
  <2>1. LockAgrees'
    BY <1>0, <1>1, FreeAssumption DEF TypeOK, LockAgrees, StartLock, Goto, ClientFrame
  <2>2. RunAgrees'
    BY <1>1 DEF TypeOK, RunAgrees, StartLock, Goto, ClientFrame
  <2>3. OneDiscussion'
    BY <1>1 DEF OneDiscussion, StartLock
  <2>4. ScoresAgree'
    BY <1>1 DEF TypeOK, ScoresAgree, ClosedHasScores, StartLock, Goto, ClientFrame
  <2> QED
    BY <2>1, <2>2, <2>3, <2>4
<1>2. CASE StartRefuse(c)
  <2>1. LockAgrees'
    BY <1>0, <1>2, FreeAssumption DEF TypeOK, LockAgrees, StartRefuse, Goto, ClientFrame
  <2>2. RunAgrees'
    <3>1. pc' = [pc EXCEPT ![c] = "idle"] /\ UNCHANGED <<row, thread, signal, req>> /\ todo' = {}
      BY <1>2 DEF StartRefuse, Goto
    <3>2. \A d \in Clients : pc'[d] # "s_scan" /\ (pc'[d] # "idle" => pc'[d] = pc[d])
      BY <1>2, <3>1, LockHolder DEF TypeOK, StartRefuse, Goto
    <3> QED
      BY <3>1, <3>2 DEF RunAgrees
  <2>3. OneDiscussion'
    BY <1>2 DEF OneDiscussion, StartRefuse
  <2>4. ScoresAgree'
    BY <1>2 DEF TypeOK, ScoresAgree, ClosedHasScores, StartRefuse, Goto, ClientFrame
  <2> QED
    BY <2>1, <2>2, <2>3, <2>4
<1>3. CASE StartCloses(c)
  <2>1. PICK s \in Sessions : /\ Latest(s, todo) /\ ~Alive(s)
                              /\ status' = [status EXCEPT ![s] = "stopped"]
                              /\ todo' = todo \ {s}
    BY <1>3 DEF StartCloses
  <2>2. pc[c] = "s_scan" /\ UNCHANGED <<scored, thread, signal, lock, pc, req, told, phase, raised>>
    BY <1>3 DEF StartCloses, ClientFrame
  <2>3. \A d \in Clients : pc[d] = "s_thread" => FALSE
    BY <2>2, LockHolder
  <2>4. s \in todo /\ status[s] # "none"
    BY <2>1 DEF Latest, RunAgrees
  <2>5. LockAgrees'
    BY <2>2 DEF LockAgrees
  <2>6. RunAgrees'
    <3>1. \A d \in Clients : pc[d] \in {"p_mark", "p_signal"} => req'[d] \in Sessions /\ status'[req'[d]] # "none"
      BY <2>1, <2>2 DEF RunAgrees, TypeOK
    <3> QED
      BY <2>1, <2>2, <2>3, <2>4, <3>1, LockHolder DEF RunAgrees, TypeOK
  <2>7. OneDiscussion'
    BY <2>2 DEF OneDiscussion
  <2>8. status[s] \in {"running", "stopping"} => s \in scored \cup raised
    BY <1>0, <2>1, <2>3 DEF ScoresAgree
  <2>9. s \in scored \cup raised
    BY <2>4, <2>8 DEF ScoresAgree, ClosedHasScores, TypeOK
  <2>10. ScoresAgree'
    BY <2>1, <2>2, <2>9 DEF ScoresAgree, ClosedHasScores, TypeOK
  <2> QED
    BY <2>5, <2>6, <2>7, <2>10
<1>4. CASE StartCreates(c)
  <2>1. PICK s \in Sessions : /\ status[s] = "none"
                              /\ status' = [status EXCEPT ![s] = "running"]
                              /\ req' = [req EXCEPT ![c] = s]
    BY <1>4 DEF StartCreates
  <2>2. /\ pc[c] = "s_scan" /\ pc' = [pc EXCEPT ![c] = "s_thread"] /\ todo = {}
        /\ UNCHANGED <<scored, thread, signal, lock, todo, told, phase, raised>>
    BY <1>4 DEF StartCreates, Goto, ClientFrame
  <2>3. \A q \in Sessions : run[q] \notin Working
    BY <2>2 DEF RunAgrees
  <2>4. \A d \in Clients : d # c => pc'[d] = pc[d] /\ req'[d] = req[d] /\ pc[d] \notin {"s_scan", "s_thread"}
    BY <2>1, <2>2, LockHolder DEF TypeOK
  <2>5. pc'[c] = "s_thread" /\ req'[c] = s /\ status'[s] = "running" /\ run[s] = "none"
    BY <2>1, <2>2 DEF TypeOK, RunAgrees
  <2>6. LockAgrees'
    BY <1>0, <2>2, <2>4, <2>5 DEF LockAgrees
  <2>7. RunAgrees'
    <3>1. \A d \in Clients : pc'[d] \in {"p_mark", "p_signal"} => req'[d] \in Sessions /\ status'[req'[d]] # "none"
      BY <2>1, <2>4, <2>5 DEF RunAgrees, TypeOK
    <3> QED
      BY <2>1, <2>2, <2>3, <2>4, <2>5, <3>1 DEF RunAgrees, TypeOK
  <2>8. OneDiscussion'
    BY <2>2 DEF OneDiscussion
  <2>9. ScoresAgree'
    BY <2>1, <2>2, <2>4, <2>5 DEF ScoresAgree, ClosedHasScores, TypeOK
  <2> QED
    BY <2>6, <2>7, <2>8, <2>9
<1>5. CASE StartThread(c)
  <2> DEFINE r == req[c]
  <2>1. /\ pc[c] = "s_thread" /\ pc' = [pc EXCEPT ![c] = "idle"]
        /\ run' = [run EXCEPT ![r] = "loop"] /\ stage' = [stage EXCEPT ![r] = 1]
        /\ lock' = Free /\ req' = [req EXCEPT ![c] = 0]
        /\ UNCHANGED <<row, todo, phase, raised>>
    BY <1>5 DEF StartThread, Goto, ClientFrame
  <2>2. /\ r \in Sessions /\ status[r] \in {"running", "stopping"}
        /\ \A s \in Sessions : run[s] \notin Working
    BY <2>1 DEF RunAgrees
  <2>3. \A d \in Clients : d # c => pc'[d] = pc[d] /\ req'[d] = req[d] /\ pc[d] \notin {"s_scan", "s_thread"}
    BY <2>1, LockHolder DEF TypeOK
  <2>4. pc'[c] = "idle"
    BY <2>1 DEF TypeOK
  <2>5. \A s \in Sessions : run'[s] = IF s = r THEN "loop" ELSE run[s]
    BY <2>1, <2>2 DEF TypeOK
  <2> HIDE DEF r
  <2>6. LockAgrees'
    BY <1>0, <2>1, <2>3, <2>4, FreeAssumption DEF LockAgrees
  <2>7. RunAgrees'
    <3>1. \A s \in Sessions : run'[s] = "stage" => stage'[s] <= Stages
      BY <2>1, <2>2, <2>5 DEF RunAgrees, TypeOK
    <3>2. \A d \in Clients : pc'[d] \in {"p_mark", "p_signal"} => req'[d] \in Sessions /\ status'[req'[d]] # "none"
      BY <2>1, <2>3, <2>4 DEF RunAgrees
    <3> QED
      BY <2>1, <2>2, <2>3, <2>4, <2>5, <3>1, <3>2 DEF RunAgrees
  <2>8. OneDiscussion'
    BY <2>2, <2>5 DEF OneDiscussion
  <2>9. \A s \in Sessions : s # r => ~\E d \in Clients : pc[d] = "s_thread" /\ req[d] = s
    BY <2>1, LockHolder DEF r
  <2>10. ScoresAgree'
    BY <2>1, <2>2, <2>5, <2>9 DEF ScoresAgree, ClosedHasScores
  <2> QED
    BY <2>6, <2>7, <2>8, <2>10
<1>6. CASE StopReads(c)
  <2>1. PICK s \in Sessions : Latest(s, Active) /\ req' = [req EXCEPT ![c] = s]
    BY <1>6 DEF StopReads
  <2>2. /\ pc[c] = "idle" /\ pc' = [pc EXCEPT ![c] = "p_mark"]
        /\ UNCHANGED <<row, thread, signal, lock, todo, phase, raised>>
    BY <1>6 DEF StopReads, Goto, ClientFrame
  <2>3. \A d \in Clients : d # c => pc'[d] = pc[d] /\ req'[d] = req[d]
    BY <2>1, <2>2 DEF TypeOK
  <2>4. pc'[c] = "p_mark" /\ req'[c] = s /\ status[s] # "none"
    BY <2>1, <2>2 DEF TypeOK, Latest
  <2>5. LockAgrees'
    BY <1>0, <2>2, <2>3, <2>4 DEF LockAgrees
  <2>6. RunAgrees'
    BY <2>2, <2>3, <2>4 DEF RunAgrees
  <2>7. OneDiscussion'
    BY <2>2 DEF OneDiscussion
  <2>8. ScoresAgree'
    BY <2>2, <2>3, <2>4 DEF ScoresAgree, ClosedHasScores
  <2> QED
    BY <2>5, <2>6, <2>7, <2>8
<1>7. CASE StopMarks(c)
  <2>1. /\ pc[c] = "p_mark" /\ pc' = [pc EXCEPT ![c] = "p_signal"]
        /\ status' = [status EXCEPT ![req[c]] = "stopping"]
        /\ UNCHANGED <<scored, thread, signal, lock, req, todo, phase, raised>>
    BY <1>7 DEF StopMarks, Goto, ClientFrame
  <2>2. req[c] \in Sessions /\ status[req[c]] # "none"
    BY <2>1 DEF RunAgrees
  <2>3. \A d \in Clients : d # c => pc'[d] = pc[d]
    BY <2>1 DEF TypeOK
  <2>4. pc'[c] = "p_signal"
    BY <2>1 DEF TypeOK
  <2>5. \A s \in Sessions : status'[s] = IF s = req[c] THEN "stopping" ELSE status[s]
    BY <2>1, <2>2 DEF TypeOK
  <2>6. LockAgrees'
    BY <1>0, <2>1, <2>3, <2>4 DEF LockAgrees
  <2>7. RunAgrees'
    <3>1. \A d \in Clients : pc'[d] \in {"p_mark", "p_signal"} => req'[d] \in Sessions /\ status'[req'[d]] # "none"
      BY <2>1, <2>2, <2>3, <2>5 DEF RunAgrees
    <3> QED
      BY <2>1, <2>2, <2>3, <2>4, <2>5, <3>1 DEF RunAgrees
  <2>8. OneDiscussion'
    BY <2>1 DEF OneDiscussion
  <2>9. ScoresAgree'
    <3>1. SUFFICES ASSUME NEW s \in Sessions,
                          status'[s] \in {"running", "stopping"}, run'[s] \notin Working
                   PROVE  s \in scored \cup raised \/ \E d \in Clients : pc'[d] = "s_thread" /\ req'[d] = s
      BY <2>1, <2>5 DEF ScoresAgree, ClosedHasScores
    <3>2. CASE status[s] \in {"running", "stopping"}
      BY <1>0, <2>1, <2>3, <3>1, <3>2 DEF ScoresAgree
    <3>3. CASE status[s] \notin {"running", "stopping"}
      <4>1. s = req[c] /\ status[s] \in {"stopped", "done", "failed"}
        BY <2>2, <2>5, <3>1, <3>3 DEF TypeOK
      <4> QED
        BY <4>1 DEF ScoresAgree, ClosedHasScores
    <3> QED
      BY <3>2, <3>3
  <2> QED
    BY <2>6, <2>7, <2>8, <2>9
<1>8. CASE StopSignals(c)
  <2>1. /\ pc[c] = "p_signal" /\ pc' = [pc EXCEPT ![c] = "idle"] /\ req' = [req EXCEPT ![c] = 0]
        /\ UNCHANGED <<row, thread, lock, todo, phase, raised>>
    BY <1>8 DEF StopSignals, Goto, ClientFrame
  <2>2. \A d \in Clients : d # c => pc'[d] = pc[d] /\ req'[d] = req[d]
    BY <2>1 DEF TypeOK
  <2>3. pc'[c] = "idle"
    BY <2>1 DEF TypeOK
  <2>4. LockAgrees'
    BY <1>0, <2>1, <2>2, <2>3 DEF LockAgrees
  <2>5. RunAgrees'
    BY <2>1, <2>2, <2>3 DEF RunAgrees
  <2>6. OneDiscussion'
    BY <2>1 DEF OneDiscussion
  <2>7. ScoresAgree'
    BY <2>1, <2>2, <2>3 DEF ScoresAgree, ClosedHasScores
  <2> QED
    BY <2>4, <2>5, <2>6, <2>7
<1> QED
  BY <1>1, <1>2, <1>3, <1>4, <1>5, <1>6, <1>7, <1>8 DEF Request

\* A thread's step: it goes on working with its row as it is, or it leaves with
\* its row closed.
LEMMA RunControl ==
  ASSUME IInv, NEW s \in Sessions, Run(s)
  PROVE  Control'
<1> USE DEF IInv, Control
<1>1. UNCHANGED <<client, phase>>
  BY DEF Run, Loop, Launch, StageEnds, Decide, RecordScores, ReflectEnds, Close, Raise, Finally, RunFrame
<1>2. run[s] \in Working \cup {"finally"}
  BY DEF Run, Loop, Launch, StageEnds, Decide, RecordScores, ReflectEnds, Close, Raise, Finally, Step
<1>3. \A q \in Sessions : q # s => run'[q] = run[q] /\ stage'[q] = stage[q] /\ status'[q] = status[q]
  BY DEF TypeOK, Run, Loop, Launch, StageEnds, Decide, RecordScores, ReflectEnds, Close, Raise, Finally, Step
<1>4. scored \subseteq scored' /\ raised \subseteq raised'
  BY DEF Run, Loop, Launch, StageEnds, Decide, RecordScores, ReflectEnds, Close, Raise, Finally
<1>5. \/ run[s] \in Working /\ run'[s] \in Working /\ status'[s] = status[s]
      \/ run[s] \in Working /\ run'[s] = "finally" /\ status'[s] \in {"stopped", "done", "failed"}
      \/ run[s] = "finally" /\ run'[s] = "dead" /\ status'[s] = status[s]
  BY DEF TypeOK, Run, Loop, Launch, StageEnds, Decide, RecordScores, ReflectEnds, Close, Raise, Finally, Step
<1>6. /\ run'[s] = "stage" => stage'[s] <= Stages
      /\ run'[s] \in {"reflect", "close_stopped", "close_done"} => s \in scored'
      /\ run'[s] = "finally" => IF status'[s] = "failed" THEN s \in raised' ELSE s \in scored'
  <2>1. CASE Loop(s)
    <3>1. \/ stage[s] <= Stages /\ stage' = stage
          \/ run' = [run EXCEPT ![s] = "decide"]
          \/ run[s] = "loop" /\ run' = run
      BY <2>1 DEF Loop, Step
    <3>2. run'[s] \in {"decide", "loop"} \/ (run'[s] = "stage" /\ stage[s] <= Stages /\ stage' = stage)
      BY <2>1, <3>1 DEF TypeOK, Loop, Step
    <3> QED
      BY <3>2
  <2>2. CASE Launch(s)
    BY <2>2 DEF TypeOK, RunAgrees, ScoresAgree, Launch
  <2>3. CASE StageEnds(s)
    BY <2>3 DEF TypeOK, RunAgrees, ScoresAgree, StageEnds, Step
  <2>4. CASE Decide(s)
    BY <2>4 DEF TypeOK, RunAgrees, ScoresAgree, Decide, Step
  <2>5. CASE RecordScores(s)
    BY <2>5 DEF TypeOK, RunAgrees, ScoresAgree, RecordScores, Step
  <2>6. CASE ReflectEnds(s)
    BY <2>6 DEF TypeOK, RunAgrees, ScoresAgree, ReflectEnds, Step
  <2>7. CASE Close(s)
    <3>1. s \in scored /\ scored' = scored
      BY <2>7 DEF ScoresAgree, Close, Step
    <3>2. run'[s] = "finally" /\ status'[s] \in {"stopped", "done"}
      BY <2>7 DEF TypeOK, Close, Step
    <3> QED
      BY <3>1, <3>2
  <2>8. CASE Raise(s)
    <3>1. run'[s] = "finally" /\ status'[s] = "failed" /\ s \in raised'
      BY <2>8 DEF TypeOK, Raise
    <3> QED
      BY <3>1
  <2>9. CASE Finally(s)
    BY <2>9 DEF TypeOK, RunAgrees, ScoresAgree, Finally, Step
  <2> QED
    BY <2>1, <2>2, <2>3, <2>4, <2>5, <2>6, <2>7, <2>8, <2>9 DEF Run
<1>9. \A d \in Clients : pc[d] # "s_thread" \/ req[d] # s
  BY <1>2 DEF RunAgrees
<1>10. LockAgrees'
  BY <1>1, <1>3, <1>5 DEF LockAgrees
<1>11. RunAgrees'
  <2>1. \A q \in Sessions : status[q] # "none" <=> status'[q] # "none"
    BY <1>2, <1>3, <1>5 DEF RunAgrees
  <2>2. \A d \in Clients : pc[d] \in {"p_mark", "p_signal"} => req[d] \in Sessions /\ status'[req[d]] # "none"
    BY <2>1 DEF RunAgrees
  <2>3. \A q \in todo : status'[q] # "none"
    BY <2>1 DEF RunAgrees, TypeOK
  <2>4. \A d \in Clients : pc[d] = "s_thread" =>
          /\ req[d] \in Sessions /\ status'[req[d]] \in {"running", "stopping"} /\ run'[req[d]] = "none"
          /\ \A q \in Sessions : run'[q] \notin Working
    BY <1>3, <1>5, <1>9 DEF RunAgrees
  <2>5. \A q \in Sessions : run'[q] \in Working => run[q] \in Working /\ status'[q] \in {"running", "stopping"}
    BY <1>3, <1>5 DEF RunAgrees
  <2> QED
    BY <1>1, <1>2, <1>3, <1>6, <2>1, <2>2, <2>3, <2>4, <2>5 DEF RunAgrees
<1>12. OneDiscussion'
  BY <1>3, <1>5 DEF OneDiscussion
<1>13. ScoresAgree'
  <2>1. status'[s] = "failed" => s \in raised'
    BY <1>4, <1>5, <1>6 DEF ScoresAgree
  <2>2. status'[s] \in {"done", "stopped"} => s \in scored' \cup raised'
    BY <1>4, <1>5, <1>6 DEF ScoresAgree, ClosedHasScores
  <2>3. phase' = "serving" /\ status'[s] \in {"running", "stopping"} /\ run'[s] \notin Working
          => s \in scored' \cup raised'
    BY <1>1, <1>4, <1>5, <1>6, <1>9 DEF ScoresAgree, RunAgrees
  <2> QED
    BY <1>1, <1>3, <1>4, <1>6, <2>1, <2>2, <2>3 DEF ScoresAgree, ClosedHasScores
<1> QED
  BY <1>10, <1>11, <1>12, <1>13

LEMMA RestartControl ==
  ASSUME IInv, Crash \/ Recover
  PROVE  Control'
<1> USE DEF IInv, Control
<1>1. CASE Crash
  <2>1. \A s \in Sessions : run'[s] \in {"none", "dead"} /\ (run'[s] = "none" <=> run[s] = "none")
    BY <1>1 DEF Crash
  <2>2. \A c \in Clients : pc'[c] = "idle"
    BY <1>1 DEF Crash
  <2>3. UNCHANGED <<row, raised>> /\ phase' = "recovering" /\ lock' = Free /\ todo' = {}
    BY <1>1 DEF Crash
  <2> QED
    BY <2>1, <2>2, <2>3, FreeAssumption
    DEF LockAgrees, RunAgrees, OneDiscussion, ScoresAgree, ClosedHasScores
<1>2. CASE RecoverScores
  BY <1>2 DEF RecoverScores, LockAgrees, RunAgrees, OneDiscussion, ScoresAgree, ClosedHasScores
<1>3. CASE RecoverCloses
  <2>1. PICK s \in Sessions : /\ status' = [status EXCEPT ![s] = "stopped"] /\ Latest(s, Active)
                              /\ raised' = IF s \in scored THEN raised ELSE raised \cup {s}
    BY <1>3 DEF RecoverCloses
  <2>2. phase = "recovering" /\ UNCHANGED <<scored, thread, client, phase>>
    BY <1>3 DEF RecoverCloses
  <2>3. (\A c \in Clients : pc[c] = "idle") /\ (\A q \in Sessions : run[q] \notin Working)
    BY <2>2 DEF LockAgrees
  <2>4. \A q \in Sessions : status'[q] = IF q = s THEN "stopped" ELSE status[q]
    BY <2>1 DEF TypeOK
  <2>5. status[s] # "none"
    BY <2>1 DEF Latest
  <2> QED
    BY <2>1, <2>2, <2>3, <2>4, <2>5
    DEF TypeOK, LockAgrees, RunAgrees, OneDiscussion, ScoresAgree, ClosedHasScores
<1>4. CASE RecoverDone
  BY <1>4 DEF TypeOK, RecoverDone, LockAgrees, RunAgrees, OneDiscussion, ScoresAgree, ClosedHasScores
<1> QED
  BY <1>1, <1>2, <1>3, <1>4 DEF Recover

-----------------------------------------------------------------------------

LEMMA InitIInv == Init => IInv
BY BoundsAssumption, FreeAssumption
DEF Init, IInv, TypeOK, Control, LockAgrees, RunAgrees, OneDiscussion, ScoresAgree, ClosedHasScores

LEMMA NextIInv == IInv /\ [Next]_vars => IInv'
<1>1. ASSUME IInv, Next PROVE IInv'
  <2>1. CASE \E c \in Clients : Request(c)
    BY <1>1, <2>1, RequestType, RequestControl DEF IInv
  <2>2. CASE \E s \in Sessions : Run(s)
    BY <1>1, <2>2, RunType, RunControl DEF IInv
  <2>3. CASE Crash \/ Recover
    BY <1>1, <2>3, RestartType, RestartControl DEF IInv
  <2> QED
    BY <1>1, <2>1, <2>2, <2>3 DEF Next
<1>2. ASSUME IInv, UNCHANGED vars PROVE IInv'
  BY <1>2 DEF vars, IInv, TypeOK, Control, LockAgrees, RunAgrees, OneDiscussion, ScoresAgree, ClosedHasScores
<1> QED
  BY <1>1, <1>2

LEMMA Inductive == Spec => []IInv
BY InitIInv, NextIInv, PTL DEF Spec

\* Rows, thread, events, lock and requests keep their types.
THEOREM TypeCorrect == Spec => []TypeOK
<1>1. IInv => TypeOK
  BY DEF IInv
<1> QED
  BY <1>1, Inductive, PTL

\* One discussion at a time, however starts, stops and restarts meet.
THEOREM OneDiscussionAlways == Spec => []OneDiscussion
<1>1. IInv => OneDiscussion
  BY DEF IInv, Control
<1> QED
  BY <1>1, Inductive, PTL

\* A closed row has no thread at work: nothing is posted, scored or spent for
\* the session any more.
THEOREM ClosedIsQuietAlways == Spec => []ClosedIsQuiet
<1>1. IInv => ClosedIsQuiet
  BY DEF IInv, Control, RunAgrees, ClosedIsQuiet
<1> QED
  BY <1>1, Inductive, PTL

\* A discussion closed as done or stopped has its scores, unless its thread or
\* the scoring at start-up raised.
THEOREM ClosedHasScoresAlways == Spec => []ClosedHasScores
<1>1. IInv => ClosedHasScores
  BY DEF IInv, Control, ScoresAgree
<1> QED
  BY <1>1, Inductive, PTL
=============================================================================
