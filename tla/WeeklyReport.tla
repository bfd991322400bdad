---------------------------- MODULE WeeklyReport ----------------------------
(***************************************************************************)
(* The weekly report: src/cc/weekly_report.py, and its start in            *)
(* src/web/routers/api.py through src/jobs.py.                             *)
(*                                                                         *)
(* A run collects the projects, lets the project manager talk with the     *)
(* agent of every active one (CONVO_WORKERS at a time), reviews the        *)
(* changes, asks one model for the summary of all and stores it: in the    *)
(* room of the day, in a room per project and in ohmypm/weekly.md.  A run  *)
(* of chosen projects (paths) merges its sections into the report of the   *)
(* day; it is started by hand in a process of its own, so it may overlap   *)
(* with the run of the server.  What the project manager does to the       *)
(* cards is in RoomChat.                                                   *)
(***************************************************************************)
EXTENDS Naturals, Sequences, FiniteSets, SequencesExt

CONSTANTS
  Projects,   \* projects discovered
  Installed,  \* those with an ohmypm directory
  Runs,       \* the runs of one day, and the bound of their number
  Chosen,     \* the projects of a run (paths; Projects if not given)
  Answers,    \* what the model may answer: sections (names), the places of
              \* those without a text, and quiet names
  Rounds,     \* MAX_ROUNDS
  Workers,    \* CONVO_WORKERS
  MaxStops    \* bound: processes that stop in the middle of a run

Partial(r) == Chosen[r] # Projects
Names      == UNION {ToSet(a.secs) \cup a.quiet : a \in Answers}

ASSUME InstalledAssumption == Installed \subseteq Projects
ASSUME ChosenAssumption == Chosen \in [Runs -> SUBSET Projects]
\* Nobody checks an answer: it may name a project twice, call one quiet that has a
\* section, or name nobody.
ASSUME AnswersAssumption == Answers \subseteq [secs : Seq(Names), bare : SUBSET Nat, quiet : SUBSET Names]
ASSUME BoundsAssumption ==
  Rounds \in Nat \ {0} /\ Workers \in Nat \ {0} /\ MaxStops \in Nat

VARIABLES
  phase,    \* where run_weekly_report is
  active,   \* the projects the run talks about
  at, turns,  \* the worker of a project: where its conversation is
  wrote,    \* what a run left in the room of the day and project: lines
            \* of the conversation or review ("talk"), its part ("part")
  report,   \* last message of the day's room: its sections (with the run
            \* that wrote them) by their place in the text, quiet names,
            \* the end of the text (0 if there is none), and the runs whose
            \* raw text it is
  base,     \* the report a run of chosen projects has read, if there was one
  answer,   \* what the model answered
  todo,     \* the places in it of the sections still to store
  file,     \* weekly.md: the runs with a block, newest first
  written,  \* the result's list of projects whose file was written
  stops

talk == <<active, at, turns>>
save == <<answer, todo, file, written>>
vars == <<phase, active, at, turns, wrote, report, base, answer, todo, file, written, stops>>

Nothing  == [secs |-> <<>>, bare |-> {}, quiet |-> {}]
NoReport == [secs |-> <<>>, quiet |-> {}, end |-> 0, raw |-> {}]
Ended    == {"done", "failed", "dead"}

Init ==
  /\ phase = [r \in Runs |-> "none"] /\ active = [r \in Runs |-> {}]
  /\ at = [r \in Runs |-> [p \in Projects |-> "idle"]]
  /\ turns = [r \in Runs |-> [p \in Projects |-> 0]]
  /\ wrote = [r \in Runs |-> [p \in Projects |-> {}]]
  /\ report = NoReport /\ base = [r \in Runs |-> NoReport]
  /\ answer = [r \in Runs |-> Nothing] /\ todo = [r \in Runs |-> {}]
  /\ file = [p \in Projects |-> <<>>] /\ written = [r \in Runs |-> {}]
  /\ stops = 0

Goto(r, from, to)     == phase[r] = from /\ phase' = [phase EXCEPT ![r] = to]
Says(r, p, what)      == wrote' = [wrote EXCEPT ![r][p] = @ \cup {what}]
Place(r, p, from, to) == at[r][p] \in from /\ at' = [at EXCEPT ![r][p] = to]

-----------------------------------------------------------------------------
(* Collection and conversations.                                           *)

\* jobs.start refuses a second run of the server.  A project is active if
\* it has commits or a note on its state.
Collect(r) ==
  /\ Goto(r, "none", "talk")
  /\ Partial(r) \/ \A q \in Runs : Partial(q) \/ phase[q] \in {"none"} \cup Ended
  /\ \E A \in SUBSET Chosen[r] :
       /\ active' = [active EXCEPT ![r] = A]
       /\ at' = [at EXCEPT ![r] = [p \in Projects |-> IF p \in A THEN "wait" ELSE "over"]]
  /\ UNCHANGED <<turns, wrote, report, base, save, stops>>

\* Mutant of Talking: a worker is not given back.
TalkingOnce(r) == {p \in active[r] : at[r][p] # "wait"}
Talking(r) == {p \in Projects : at[r][p] \in {"pm", "agent", "review"}}
TalkFrame  == UNCHANGED <<phase, active, report, base, save, stops>>

BeginTalk(r, p) ==
  /\ Place(r, p, {"wait"}, "pm") /\ Cardinality(Talking(r)) < Workers
  /\ UNCHANGED <<turns, wrote>> /\ TalkFrame

\* No answer, or a broken one: said in the room if it is the first.
PmFails(r, p) ==
  /\ Place(r, p, {"pm"}, "review")
  /\ IF turns[r][p] = 0 THEN Says(r, p, "talk") ELSE UNCHANGED wrote
  /\ UNCHANGED turns /\ TalkFrame

PmCloses(r, p) ==
  /\ Place(r, p, {"pm"}, "review") /\ Says(r, p, "talk")
  /\ UNCHANGED turns /\ TalkFrame

PmAsks(r, p) ==
  /\ Place(r, p, {"pm"}, "agent") /\ Says(r, p, "talk")
  /\ UNCHANGED turns /\ TalkFrame

AgentAnswers(r, p) ==
  /\ turns' = [turns EXCEPT ![r][p] = @ + 1]
  /\ Place(r, p, {"agent"}, IF turns'[r][p] = Rounds THEN "review" ELSE "pm")
  /\ Says(r, p, "talk")
  /\ TalkFrame

\* Mutant of TalkRaises: the exception is only logged.
TalkRaisesQuietly(r, p) ==
  /\ Place(r, p, {"pm", "agent"}, "review")
  /\ UNCHANGED <<wrote, turns>> /\ TalkFrame

TalkRaises(r, p) ==
  /\ Place(r, p, {"pm", "agent"}, "review") /\ Says(r, p, "talk")
  /\ UNCHANGED turns /\ TalkFrame

\* Skipped without commits, plugin or changes; an exception is logged.
Review(r, p) ==
  /\ Place(r, p, {"review"}, "over")
  /\ Says(r, p, "talk") \/ UNCHANGED wrote
  /\ turns' = [turns EXCEPT ![r][p] = 0]
  /\ TalkFrame

Talk(r, p) ==
  \/ BeginTalk(r, p) \/ PmFails(r, p) \/ PmCloses(r, p) \/ PmAsks(r, p)
  \/ AgentAnswers(r, p) \/ TalkRaises(r, p) \/ Review(r, p)

-----------------------------------------------------------------------------
(* The summary.                                                            *)

HasReport == report # NoReport
AllTalked(r) == \A p \in Projects : at[r][p] = "over"

\* The model answers with JSON; a run of chosen projects then reads the
\* report of the day.
Summarise(r) ==
  /\ Goto(r, "talk", "save") /\ AllTalked(r)
  /\ \E a \in Answers :
       answer' = [answer EXCEPT ![r] = a]
  /\ base' = [base EXCEPT ![r] = IF Partial(r) THEN report ELSE NoReport]
  /\ UNCHANGED <<talk, wrote, report, todo, file, written, stops>>

\* The place of a section of an answer in a report: that of the first section of
\* its name; without one, after the end, and once for all sections of that name.
Where(rep, n) == {x \in DOMAIN rep.secs : rep.secs[x].name = n}
Alike(secs, new, i) == {j \in new : secs[j].name = secs[i].name}
Spot(rep, secs, new, i) ==
  IF Where(rep, secs[i].name) = {} THEN rep.end + Min(Alike(secs, new, i))
                                   ELSE Min(Where(rep, secs[i].name))

\* The sections that stay, and those of secs at the places spot gives them: of two
\* at one place the later one.
Put(rep, secs, stay, spot) ==
  [secs  |-> [x \in stay \cup Range(spot) |->
                IF x \in Range(spot) THEN secs[Max({i \in DOMAIN spot : spot[i] = x})]
                ELSE rep.secs[x]],
   quiet |-> rep.quiet \ {secs[i].name : i \in DOMAIN spot},
   end   |-> rep.end + Len(secs),
   raw   |-> rep.raw]

\* Mutants of _merge_report: a section is always added; the new section
\* replaces everything up to the end of the report.
MergeAppends(rep, secs, new) ==
  Put(rep, secs, DOMAIN rep.secs, [i \in new |-> rep.end + i])
MergeCuts(rep, secs, new) ==
  LET spot == [i \in new |-> Spot(rep, secs, new, i)] IN
  Put(rep, secs, {x \in DOMAIN rep.secs : \A y \in Range(spot) : x < y}, spot)

\* The sections of secs at the places new are put into the report.
_merge_report(rep, secs, new) ==
  Put(rep, secs, DOMAIN rep.secs, [i \in new |-> Spot(rep, secs, new, i)])

\* _render_report of whatever the answer names, or _merge_report of the sections of
\* chosen projects that have a text.
Known(r)    == {i \in DOMAIN answer[r].secs : answer[r].secs[i] \in Chosen[r] /\ i \notin answer[r].bare}
Sections(r) == [i \in DOMAIN answer[r].secs |-> [name |-> answer[r].secs[i], run |-> r]]
_render_report(r) ==
  [secs |-> Sections(r), quiet |-> answer[r].quiet, end |-> Len(answer[r].secs) + 1, raw |-> {}]
SaveReport(r) ==
  /\ Goto(r, "save", "spread")
  /\ report' = IF base[r] = NoReport THEN _render_report(r)
               ELSE _merge_report(base[r], Sections(r), Known(r))
  /\ todo' = [todo EXCEPT ![r] = Known(r)]
  /\ UNCHANGED <<talk, wrote, base, answer, file, written, stops>>

\* The JSON is broken: the text is kept, by a run of chosen projects in
\* their rooms if the day has a report.
KeepRaw(r) ==
  /\ Goto(r, "talk", "done") /\ AllTalked(r)
  /\ IF Partial(r) /\ HasReport
     THEN /\ wrote' = [wrote EXCEPT ![r] = [p \in Projects |->
                         IF p \in Chosen[r] THEN @[p] \cup {"part"} ELSE @[p]]]
          /\ UNCHANGED report
     ELSE report' = [NoReport EXCEPT !.raw = {r}] /\ UNCHANGED wrote
  /\ UNCHANGED <<talk, base, save, stops>>

\* JSON of another shape than expected: the run raises before it stores
\* anything.  No answer at all: there is no report.
SummaryFails(r) ==
  /\ AllTalked(r) /\ Goto(r, "talk", "failed")
  /\ UNCHANGED <<talk, wrote, report, base, save, stops>>

-----------------------------------------------------------------------------
(* Every project gets its part: in its room, then in its weekly.md.        *)

\* The sections in the order of the answer.
First(r)    == Min(todo[r])
ToStore(r)  == answer[r].secs[First(r)]
Stored(r)   == todo' = [todo EXCEPT ![r] = @ \ {First(r)}]

StoreInRoom(r) ==
  /\ todo[r] # {} /\ Says(r, ToStore(r), "part")
  /\ IF ToStore(r) \in Installed
     THEN Goto(r, "spread", "file") /\ UNCHANGED todo
     ELSE phase[r] = "spread" /\ UNCHANGED phase /\ Stored(r)
  /\ UNCHANGED <<talk, report, base, answer, file, written, stops>>

_prepend_weekly_md(r, p) == file' = [file EXCEPT ![p] = <<r>> \o @]

\* Writing the file may raise: the project is then "not written".
StoreInFile(r) ==
  /\ Goto(r, "file", "spread") /\ Stored(r)
  /\ \/ /\ _prepend_weekly_md(r, ToStore(r))
        /\ written' = [written EXCEPT ![r] = @ \cup {ToStore(r)}]
     \/ UNCHANGED <<file, written>>
  /\ UNCHANGED <<talk, wrote, report, base, answer, stops>>

Finish(r) ==
  /\ Goto(r, "spread", "done") /\ todo[r] = {}
  /\ UNCHANGED <<talk, wrote, report, base, save, stops>>

\* The process of the run stops.
Stop(r) ==
  /\ stops < MaxStops /\ stops' = stops + 1
  /\ phase[r] \notin {"none"} \cup Ended /\ phase' = [phase EXCEPT ![r] = "dead"]
  /\ UNCHANGED <<talk, wrote, report, base, save>>

-----------------------------------------------------------------------------
\* While the run's process lives.
Work(r) ==
  \/ phase[r] = "talk" /\ \E p \in Projects : Talk(r, p)
  \/ Summarise(r) \/ KeepRaw(r) \/ SummaryFails(r)
  \/ SaveReport(r) \/ StoreInRoom(r) \/ StoreInFile(r) \/ Finish(r)

Next == \E r \in Runs : Collect(r) \/ Work(r) \/ Stop(r)

Spec == Init /\ [][Next]_vars

\* Every model call ends (LLM_TIMEOUT, AGENT_TIMEOUT, REVIEW_TIMEOUT).
FairSpec == Spec /\ \A r \in Runs : WF_vars(Work(r))

-----------------------------------------------------------------------------
Places  == {"idle", "wait", "pm", "agent", "review", "over"}
IsReport(rep) ==
  /\ DOMAIN rep = {"secs", "quiet", "end", "raw"}
  /\ rep.secs \in [DOMAIN rep.secs -> [name : Names, run : Runs]]
  /\ rep.end \in Nat /\ DOMAIN rep.secs \subseteq 1..rep.end
  /\ rep.quiet \subseteq Names /\ rep.raw \subseteq Runs

\* Every variable keeps its type.
TypeOK ==
  /\ phase \in [Runs -> {"none", "talk", "save", "spread", "file"} \cup Ended]
  /\ active \in [Runs -> SUBSET Projects]
  /\ at \in [Runs -> [Projects -> Places]] /\ turns \in [Runs -> [Projects -> 0..Rounds]]
  /\ wrote \in [Runs -> [Projects -> SUBSET {"talk", "part"}]]
  /\ IsReport(report)
  /\ base \in [Runs -> {base[r] : r \in Runs}] /\ \A r \in Runs : IsReport(base[r])
  /\ answer \in [Runs -> Answers \cup {Nothing}] /\ todo \in [Runs -> SUBSET Nat]
  /\ file \in [Projects -> Seq(Runs)] /\ written \in [Runs -> SUBSET Projects]
  /\ stops \in 0..MaxStops

\* No active project drops out of the week in silence (converse, "놓침0"):
\* when the summary is made, the run has left a line in the room of each.
NobodyGoesMissing ==
  \A r \in Runs : AllTalked(r) =>
    \A p \in active[r] : "talk" \in wrote[r][p]

\* However runs of chosen projects are merged, and in whatever order they read and
\* store the report of the day, a name has a second section in it, or a section and
\* a place among the quiet ones, only if one answer that was rendered whole, and
\* wrote that section, named it so (_render_report renders any answer); no merge adds
\* one (_merge_report).
Whole(r)    == base[r] = NoReport
Twice(r, n) == \E i, j \in DOMAIN answer[r].secs : i < j /\ answer[r].secs[i] = n /\ answer[r].secs[j] = n
NamedOnce(rep) ==
  \A x, y \in DOMAIN rep.secs :
    LET n == rep.secs[y].name
        r == rep.secs[y].run IN
    /\ x < y /\ rep.secs[x].name = n => Whole(r) /\ Twice(r, n)
    /\ n \in rep.quiet => Whole(r) /\ n \in answer[r].quiet
OneSectionEach == NamedOnce(report)

\* A run of chosen projects leaves the sections of the others as they are
\* and where they are, and the text of a broken answer too, unless another
\* run stored a report since it read the one it merges into.
Others(r, rep) == [x \in {x \in DOMAIN rep.secs : rep.secs[x].name \notin Chosen[r]} |->
                     rep.secs[x]]
OthersStand ==
  [][\A r \in Runs :
       /\ Partial(r) /\ HasReport
       /\ phase[r] \in {"talk", "save"} /\ phase'[r] # phase[r]
       /\ base[r] = report \/ phase[r] = "talk"
       => Others(r, report') = Others(r, report) /\ report'.raw = report.raw]_vars

\* Every run comes to an end, with fewer workers than projects too.
RunEnds == \A r \in Runs : phase[r] = "talk" ~> phase[r] \in Ended
=============================================================================
