---------------------------- MODULE ConsentLedger ----------------------------
(***************************************************************************)
(* What the environment setup promises, seen from the approval screen: the *)
(* project's files have one owner at a time, a run owns them once to make  *)
(* the changes the user consented to, and later only to undo changes it    *)
(* really made.  Stops of the server take ownership from nobody.           *)
(***************************************************************************)
CONSTANTS Runs, Files, Nobody   \* Nobody is not a run

VARIABLES
  owner,    \* the run that may write the project's files, or Nobody
  undoing,  \* the owner is undoing its changes
  spent,    \* runs that have had their one chance to make changes
  consent,  \* changes the user agreed to, by run
  done,     \* changes made, by run
  undone    \* changes taken back, by run

vars == <<owner, undoing, spent, consent, done, undone>>

Init ==
  /\ owner = Nobody /\ undoing = FALSE /\ spent = {}
  /\ consent = [r \in Runs |-> {}] /\ done = [r \in Runs |-> {}]
  /\ undone = [r \in Runs |-> {}]

Begin(r) ==
  /\ owner = Nobody /\ r \notin spent
  /\ owner' = r /\ spent' = spent \cup {r}
  /\ UNCHANGED <<undoing, consent, done, undone>>

\* A proposal that came to nothing.
Forgo(r) ==
  /\ r \notin spent /\ spent' = spent \cup {r}
  /\ UNCHANGED <<owner, undoing, consent, done, undone>>

Agree(r, f) ==
  /\ owner = r /\ ~undoing /\ done[r] = {}
  /\ consent' = [consent EXCEPT ![r] = @ \cup {f}]
  /\ UNCHANGED <<owner, undoing, spent, done, undone>>

Make(r, f) ==
  /\ owner = r /\ ~undoing /\ f \in consent[r] \ done[r]
  /\ done' = [done EXCEPT ![r] = @ \cup {f}]
  /\ UNCHANGED <<owner, undoing, spent, consent, undone>>

BeginUndo(r) ==
  /\ owner = Nobody /\ r \in spent /\ done[r] # undone[r]
  /\ owner' = r /\ undoing' = TRUE
  /\ UNCHANGED <<spent, consent, done, undone>>

Undo(r, f) ==
  /\ owner = r /\ undoing /\ f \in done[r] \ undone[r]
  /\ undone' = [undone EXCEPT ![r] = @ \cup {f}]
  /\ UNCHANGED <<owner, undoing, spent, consent, done>>

End ==
  /\ owner # Nobody
  /\ owner' = Nobody /\ undoing' = FALSE
  /\ UNCHANGED <<spent, consent, done, undone>>

Next ==
  \/ End
  \/ \E r \in Runs : Forgo(r) \/ Begin(r) \/ BeginUndo(r)
  \/ \E r \in Runs, f \in Files : Agree(r, f) \/ Make(r, f) \/ Undo(r, f)

Spec == Init /\ [][Next]_vars
=============================================================================
