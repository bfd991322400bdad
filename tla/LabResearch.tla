----------------------------- MODULE LabResearch -----------------------------
(***************************************************************************)
(* The research of the lab: src/cc/lab.py (28-331), src/db/lab.py (1-40),  *)
(* src/scheduler.py, composed with ProjectFolder, into whose directory the *)
(* proposals for a project are written.                                    *)
(*                                                                         *)
(* A research is started by the weekly job, which takes the researchers    *)
(* one after the other, or by a click, which runs as a background job of   *)
(* the researcher's name (src/jobs.py).  The two know each other only by   *)
(* _RUNNING.  Researchers write the same proposals.md; a file is read in   *)
(* one step and written in a later one.  The queue of requested notes, of  *)
(* the same source file, is LabQueue.                                      *)
(***************************************************************************)
EXTENDS ProjectFolder

CONSTANTS
  RESEARCHERS,   \* the researchers, in their order
  Catalog,       \* those with mode "catalog", who write no wiki themselves
  Titles,        \* titles of proposals
  MaxResearches, \* bound: calls of research
  MaxFaults      \* bound: stops of the server, and writes that raise

Researchers == ToSet(RESEARCHERS)
Weekly      == "weekly"
Actors      == {Weekly} \cup Researchers
All         == "all"    \* target_project NULL: for all projects

ASSUME ResearchersAssumption ==
  /\ RESEARCHERS \in Seq(Researchers) \ {<<>>} /\ IsInjective(RESEARCHERS)
  /\ Weekly \notin Researchers /\ Catalog \subseteq Researchers /\ All \notin Projects
ASSUME ResearchBounds == MaxResearches \in Nat /\ MaxFaults \in Nat

VARIABLES
  _RUNNING,  \* the guard: researchers being researched
  at, left,  \* a caller's place in research; the researchers it has left
  by_name,   \* the projects the model was told of
  answer,    \* what it proposed and is not stored yet
  rows,      \* lab_proposals
  cur,       \* the row a caller is at
  copy,      \* the file it has read
  wiki,      \* sections in docs/lab/<researcher>.md
  last,      \* "ok" of data/lab/<researcher>.json
  raced,     \* history: researchers added to _RUNNING while in it
  gone,      \* history: proposals removed with the directory, or by a caller
             \* that wrote a file back it had read before they were in it
  researches, faults

labVars == <<_RUNNING, at, left, by_name, answer, rows, cur, copy, wiki, last,
             raced, gone, researches, faults>>
vars == <<folderVars, labVars>>

\* The projects are discovered and installed, as a scan and a discovery
\* leave them.
Init ==
  /\ known = [p \in Projects |-> "on"] /\ installed = [p \in Projects |-> p \notin Self]
  /\ dir = installed
  /\ md = [p \in Projects |-> IF p \in Self THEN <<>>
                             ELSE [f \in ToSet(INSTRUCTION_FILES) |-> [Blank EXCEPT !.block = TRUE]]]
  /\ Quiet
  /\ _RUNNING = {} /\ at = [a \in Actors |-> "idle"] /\ left = [a \in Actors |-> <<>>]
  /\ by_name = [a \in Actors |-> {}] /\ answer = [a \in Actors |-> <<>>]
  /\ rows = <<>> /\ cur = [a \in Actors |-> 0] /\ copy = [a \in Actors |-> <<>>]
  /\ wiki = [r \in Researchers |-> 0] /\ last = [r \in Researchers |-> "none"]
  /\ raced = {} /\ gone = {} /\ researches = 0 /\ faults = 0

Rid(a) == Head(left[a])
Moves(a, from, to) == at[a] = from /\ at' = [at EXCEPT ![a] = to]
Folder == UNCHANGED folderVars

\* What is left of a caller that comes back from research.
Forget(a) ==
  /\ by_name' = [by_name EXCEPT ![a] = {}] /\ answer' = [answer EXCEPT ![a] = <<>>]
  /\ cur' = [cur EXCEPT ![a] = 0] /\ copy' = [copy EXCEPT ![a] = <<>>]

-----------------------------------------------------------------------------
(* Who calls research.                                                     *)

\* _run_lab_job, once a week: research_all.  A job that still runs is not
\* started again (_running).
_run_lab_job ==
  /\ Moves(Weekly, "idle", "check") /\ researches < MaxResearches
  /\ left' = [left EXCEPT ![Weekly] = RESEARCHERS] /\ researches' = researches + 1
  /\ Folder
  /\ UNCHANGED <<_RUNNING, by_name, answer, rows, cur, copy, wiki, last, raced, gone, faults>>

\* jobs.start refuses while the job of this researcher runs.
run_lab(r) ==
  /\ Moves(r, "idle", "check") /\ researches < MaxResearches
  /\ left' = [left EXCEPT ![r] = <<r>>] /\ researches' = researches + 1
  /\ Folder
  /\ UNCHANGED <<_RUNNING, by_name, answer, rows, cur, copy, wiki, last, raced, gone, faults>>

Returns(a) ==
  /\ left' = [left EXCEPT ![a] = Tail(@)]
  /\ at' = [at EXCEPT ![a] = IF Len(left[a]) = 1 THEN "idle" ELSE "check"]
  /\ Forget(a)

-----------------------------------------------------------------------------
(* research: the guard, the model call, the wiki.                          *)

Refused(a) ==
  /\ at[a] = "check" /\ Rid(a) \in _RUNNING /\ Returns(a)
  /\ Folder /\ UNCHANGED <<_RUNNING, rows, wiki, last, raced, gone, researches, faults>>

Check(a) ==
  /\ Moves(a, "check", "add") /\ Rid(a) \notin _RUNNING
  /\ Folder
  /\ UNCHANGED <<_RUNNING, left, by_name, answer, rows, cur, copy, wiki, last, raced, gone, researches, faults>>

\* _projects_text: the enabled projects but ohmyPM's own.
Add(a) ==
  /\ Moves(a, "add", "ask") /\ _RUNNING' = _RUNNING \cup {Rid(a)}
  /\ raced' = IF Rid(a) \in _RUNNING THEN raced \cup {Rid(a)} ELSE raced
  /\ by_name' = [by_name EXCEPT ![a] = {p \in Projects \ Self : known[p] = "on"}]
  /\ Folder /\ UNCHANGED <<left, answer, rows, cur, copy, wiki, last, gone, researches, faults>>

\* A section on top, in one step: the file is the researcher's own.
_prepend_wiki(r) == wiki' = IF r \in Catalog THEN wiki ELSE [wiki EXCEPT ![r] = @ + 1]

\* The answer has findings and, as a bound, one proposal.  The model names a
\* title and a project; one nobody knows means all.
Proposals(a) == [title : Titles, to : by_name[a] \cup {All}]
Answers(a) ==
  /\ Moves(a, "ask", "store")
  /\ \E prop \in Proposals(a) : answer' = [answer EXCEPT ![a] = <<prop>>]
  /\ _prepend_wiki(Rid(a))
  /\ Folder
  /\ UNCHANGED <<_RUNNING, left, by_name, rows, cur, copy, last, raced, gone, researches, faults>>

_save_state(a, ok) == last' = [last EXCEPT ![Rid(a)] = ok]

\* No answer, or one of another form, raises; a researcher of the catalog
\* then has no proposals.
AskFails(a) ==
  /\ at[a] = "ask"
  /\ IF Rid(a) \in Catalog
     THEN Moves(a, "ask", "store") /\ UNCHANGED last
     ELSE Moves(a, "ask", "finally") /\ _save_state(a, "failed")
  /\ Folder
  /\ UNCHANGED <<_RUNNING, left, by_name, answer, rows, cur, copy, wiki, raced, gone, researches, faults>>

-----------------------------------------------------------------------------
(* _store_proposals: for every proposal look for it, insert it, write it.  *)

Proposed(r, t) == \E i \in DOMAIN rows : rows[i].rid = r /\ rows[i].title = t

Duplicate(a) ==
  /\ at[a] = "store" /\ answer[a] # <<>> /\ Proposed(Rid(a), Head(answer[a]).title)
  /\ answer' = [answer EXCEPT ![a] = Tail(@)]
  /\ Folder
  /\ UNCHANGED <<_RUNNING, at, left, by_name, rows, cur, copy, wiki, last, raced, gone, researches, faults>>

\* Mutant of LooksNew: any row of this title, that of any day.
LooksNewAnyway(a) ==
  /\ Moves(a, "store", "insert") /\ answer[a] # <<>>
  /\ Folder
  /\ UNCHANGED <<_RUNNING, left, by_name, answer, rows, cur, copy, wiki, last, raced, gone, researches, faults>>

LooksNew(a) ==
  /\ Moves(a, "store", "insert") /\ answer[a] # <<>>
  /\ ~Proposed(Rid(a), Head(answer[a]).title)
  /\ Folder
  /\ UNCHANGED <<_RUNNING, left, by_name, answer, rows, cur, copy, wiki, last, raced, gone, researches, faults>>

add_proposal(a) ==
  LET new == Head(answer[a]) IN
  /\ at[a] = "insert"
  /\ rows' = Append(rows, [rid |-> Rid(a), title |-> new.title, to |-> new.to, written |-> FALSE])
  /\ cur' = [cur EXCEPT ![a] = Len(rows')] /\ answer' = [answer EXCEPT ![a] = Tail(@)]
  /\ at' = [at EXCEPT ![a] = IF new.to # All /\ dir[new.to] THEN "read" ELSE "store"]
  /\ Folder /\ UNCHANGED <<_RUNNING, left, by_name, copy, wiki, last, raced, gone, researches, faults>>

Target(a) == rows[cur[a]].to

ReadProposals(a) ==
  /\ Moves(a, "read", "write") /\ copy' = [copy EXCEPT ![a] = proposals[Target(a)]]
  /\ Folder
  /\ UNCHANGED <<_RUNNING, left, by_name, answer, rows, cur, wiki, last, raced, gone, researches, faults>>

\* What the file has now and the caller has not read is written over.
_prepend_proposal(a) ==
  LET p == Target(a) IN
  /\ Moves(a, "write", "mark") /\ dir[p]
  /\ proposals' = [proposals EXCEPT ![p] = <<cur[a]>> \o copy[a]]
  /\ gone' = gone \cup (ToSet(proposals[p]) \ ToSet(copy[a]))
  /\ copy' = [copy EXCEPT ![a] = <<>>]
  /\ UNCHANGED <<known, installed, dir, backup, md, place, file, my, calm, late, counts>>
  /\ UNCHANGED <<_RUNNING, left, by_name, answer, rows, cur, wiki, last, raced, researches, faults>>

\* Mutant of WriteRaises: the row is marked all the same.
WriteRaisesMarks(a) ==
  /\ Moves(a, "write", "mark") /\ copy' = [copy EXCEPT ![a] = <<>>]
  /\ dir[Target(a)] => faults < MaxFaults
  /\ faults' = IF dir[Target(a)] THEN faults + 1 ELSE faults
  /\ Folder /\ UNCHANGED <<_RUNNING, left, by_name, answer, rows, cur, wiki, last, raced, gone, researches>>

\* Writing raises, for one if the directory is gone.
WriteRaises(a) ==
  /\ Moves(a, "write", "store") /\ copy' = [copy EXCEPT ![a] = <<>>]
  /\ dir[Target(a)] => faults < MaxFaults
  /\ faults' = IF dir[Target(a)] THEN faults + 1 ELSE faults
  /\ Folder /\ UNCHANGED <<_RUNNING, left, by_name, answer, rows, cur, wiki, last, raced, gone, researches>>

mark_written(a) ==
  /\ Moves(a, "mark", "store") /\ rows' = [rows EXCEPT ![cur[a]].written = TRUE]
  /\ Folder
  /\ UNCHANGED <<_RUNNING, left, by_name, answer, cur, copy, wiki, last, raced, gone, researches, faults>>

Stored(a) ==
  /\ Moves(a, "store", "finally") /\ answer[a] = <<>> /\ _save_state(a, "ok")
  /\ Folder
  /\ UNCHANGED <<_RUNNING, left, by_name, answer, rows, cur, copy, wiki, raced, gone, researches, faults>>

\* Mutant of Finally: a research that failed does not give the guard back.
FinallyIfOk(a) ==
  /\ at[a] = "finally" /\ Returns(a)
  /\ _RUNNING' = IF last[Rid(a)] = "ok" THEN _RUNNING \ {Rid(a)} ELSE _RUNNING
  /\ Folder /\ UNCHANGED <<rows, wiki, last, raced, gone, researches, faults>>

Finally(a) ==
  /\ at[a] = "finally" /\ _RUNNING' = _RUNNING \ {Rid(a)} /\ Returns(a)
  /\ Folder /\ UNCHANGED <<rows, wiki, last, raced, gone, researches, faults>>

-----------------------------------------------------------------------------
\* The server stops: what is in memory is gone, the requests too.
Stop ==
  /\ faults < MaxFaults /\ faults' = faults + 1
  /\ _RUNNING' = {} /\ at' = [a \in Actors |-> "idle"] /\ left' = [a \in Actors |-> <<>>]
  /\ by_name' = [a \in Actors |-> {}] /\ answer' = [a \in Actors |-> <<>>]
  /\ cur' = [a \in Actors |-> 0] /\ copy' = [a \in Actors |-> <<>>]
  /\ pc' = [k \in Clients |-> "idle"] /\ kind' = [k \in Clients |-> "none"]
  /\ todo' = [k \in Clients |-> <<>>]
  /\ file' = [k \in Clients |-> 0] /\ my' = [k \in Clients |-> Blank]
  /\ calm' = [k \in Clients |-> FALSE] /\ late' = [k \in Clients |-> FALSE]
  /\ UNCHANGED <<known, installed, dir, backup, proposals, md, counts>>
  /\ UNCHANGED <<rows, wiki, last, raced, gone, researches>>

\* A step of the projects' directories; what goes with one is noted.
Install ==
  /\ FolderNext
  /\ gone' = gone \cup UNION {ToSet(proposals[p]) \ ToSet(proposals'[p]) : p \in Projects}
  /\ UNCHANGED <<_RUNNING, at, left, by_name, answer, rows, cur, copy, wiki, last, raced, researches, faults>>

Research(a) ==
  \/ Refused(a) \/ Check(a) \/ Add(a) \/ Answers(a) \/ AskFails(a)
  \/ Duplicate(a) \/ LooksNew(a) \/ add_proposal(a)
  \/ ReadProposals(a) \/ _prepend_proposal(a) \/ WriteRaises(a) \/ mark_written(a)
  \/ Stored(a) \/ Finally(a)

Next ==
  \/ _run_lab_job \/ Install \/ Stop
  \/ \E r \in Researchers : run_lab(r)
  \/ \E a \in Actors : Research(a)

Spec == Init /\ [][Next]_vars

-----------------------------------------------------------------------------
\* Every variable keeps its type.
TypeOK ==
  /\ FolderTypeOK
  /\ _RUNNING \subseteq Researchers /\ raced \subseteq Researchers
  /\ at \in [Actors -> {"idle", "check", "add", "ask", "store", "insert", "read", "write", "mark", "finally"}]
  /\ left \in [Actors -> Seq(Researchers)] /\ by_name \in [Actors -> SUBSET Projects]
  /\ answer \in [Actors -> Seq([title : Titles, to : Projects \cup {All}])]
  /\ rows \in Seq([rid : Researchers, title : Titles, to : Projects \cup {All}, written : BOOLEAN])
  /\ cur \in [Actors -> Nat] /\ copy \in [Actors -> Seq(Nat)]
  /\ wiki \in [Researchers -> Nat] /\ last \in [Researchers -> {"none", "ok", "failed"}]
  /\ gone \subseteq DOMAIN rows /\ researches \in 0..MaxResearches /\ faults \in 0..MaxFaults

\* A row says "written" only if the proposal was written (schema.sql:146):
\* it is in its project's file, unless the directory was removed since or
\* another caller wrote back the file as it was before.
WrittenIsInFile ==
  \A i \in DOMAIN rows : rows[i].written =>
    i \in gone \/ i \in ToSet(proposals[rows[i].to])

\* A researcher proposes a title once, however often the weekly job and the
\* clicks start it, unless two of them passed the check of _RUNNING before
\* either was in it (lab.py:286).
ProposedOnce ==
  \A i, j \in DOMAIN rows :
    i # j /\ rows[i].rid = rows[j].rid /\ rows[i].title = rows[j].title => rows[i].rid \in raced

\* The guard is kept as long as somebody researches and given back whatever
\* fails, so that no researcher stays "running" for good, with the exception
\* of two who passed its check together.
Researching(a) == at[a] \notin {"idle", "check", "add"}
GuardAgrees ==
  \A r \in Researchers \ raced :
    r \in _RUNNING <=> \E a \in Actors : Researching(a) /\ Rid(a) = r
=============================================================================
