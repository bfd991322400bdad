# ohmyPM: verification project

ohmyPM is a local web server that keeps one "agent" per software project. Headless model calls
(`claude -p`) write and comment on a shared board, answer research requests, collect news about
models, and propose changes to a project's own settings files. State is kept in one SQLite file
and in files below `data/` and `docs/`; work is done by request threads, by background threads,
by one discussion thread and by a cron-like scheduler, all in one process, plus command line
scripts that use the same files.

This directory holds TLA+ modules translated from the Python source (paths below are relative to
the repository, whose package is itself called `src/`), TLC configurations that check them on
small instances, and proofs checked by TLAPS for every value of the constants.

## 1. Inventory

| Component | Source | State it keeps | Operations |
|---|---|---|---|
| Environment setup | `src/env_setup.py`, `src/cc/env_setup.py`, `src/db/env_setup.py` | `env_setup_runs`, `env_setup_items`, backup directories, the project's files, one lock per project | propose (job), apply, revert, recovery at start-up |
| Background jobs | `src/jobs.py` | `_JOBS`: name to thread and state | `start`, `is_running`, end of a job |
| Lab request queue | `src/cc/lab.py` (334-436), `src/db/lab.py` | `lab_requests`, note files | request, claim, write a note, finish, requeue and resume at start-up |
| Lab research | `src/cc/lab.py` (1-333), `src/db/lab.py` (1-40) | wiki files, `_RUNNING`, `lab_proposals`, `ohmypm/proposals.md` | research by the weekly job or a click, proposals |
| Discussion session | `src/cc/board_session.py`, `src/db/sessions.py` | `sessions` row, `_THREADS`, `_STOP_EVENTS`, `_LOCK` | start, stop, the thread's stages, recovery at start-up |
| Board discussion | `src/cc/board.py`, `src/db/board.py` | `posts`, `comments`, `board_reactions` | write, look around, author's feedback, follow-up, user reactions |
| Reflection and scores | `src/cc/reflect.py`, `src/db/agents.py` | `session_scores`, agent notes | count a session, store scores, ask every agent to reflect |
| Model catalog | `src/cc/model_catalog.py` | a lock file, `state.json` and applied texts per vendor, wiki files | collect a source, refresh profiles, collect all |
| Room chat and cards | `src/cc/room_agent.py`, `src/cc/cards.py`, `src/db/cards.py`, `src/db/messages.py` | `messages`, `cards` | ask, answer, retry, resume after a restart, operations on cards |
| Weekly report | `src/cc/weekly_report.py` | `weekly::` rooms, `weekly.md` and report files | collect commits, converse per project, merge the report |
| Ports | `src/portctl.py`, `src/portscan.py`, `src/db/ports.py` | `ports`; the list a screen shows | register, delete, list, start and stop a process |
| Install and scan | `src/install.py`, `src/scan/`, `src/db/projects.py` | the block in a project's CLAUDE.md and AGENTS.md, its `ohmypm/` folder, `projects` | install, uninstall, discover, remove |
| Database client | `src/db/client.py` | one connection per thread | connect, migrate |
| Model client and policy | `src/cc/client.py`, `models.py`, `permissions.py`, `prompts.py`, `expert.py` | none | one headless call with a timeout |
| Scheduler and server | `src/scheduler.py`, `src/web/server.py` | cron jobs | recovery hooks in order, then serve |
| Pages and API | `src/web/routers/` | none | HTTP to calls of the above, HTML |

How they interact: the API's handlers call the components in a thread pool; long work goes to
`jobs.start` (environment setup, lab) or to a thread of its own (discussion). Everything shared is
either a committed row, a file, or a module-level dictionary that a stop of the server empties.
`web/server.py` runs every recovery hook before it accepts requests, so recovery meets no request.

What is hard here, by component:

- **Environment setup** writes the user's own files. The run and its items are read before the
  lock is taken; the user edits the same files without any lock; the server may stop between any
  two file operations and statements; one item of several may raise. What must hold: one writer,
  nothing overwritten that the user changed, every write undoable, an honest verdict.
- **Lab queue**: wakes race the end of the one worker; a stop between the note and the row repeats
  work; `next_queued` does not compare when it marks. What must hold: one worker, no note
  overwritten, no request abandoned.
- **Discussion session**: start, stop and the thread write the same row without comparing;
  registration of the thread's event comes after the row's commit. What must hold: one discussion
  at a time, a closed one is quiet and has its scores, none stays open.
- **Board**: stages read once and then act from several threads while users and the next session
  act on the same posts; an answer is carried out commit by commit. What must hold: one post a
  day, nothing rewarded that was not opened or by its own author, one verdict on a comment, a
  reply followed up in one session only, scores counted when nobody works any more.
- **Model catalog**: a lock file with take-over after ten minutes, model calls that may take
  longer under it; a state file that cannot be read counts as none; two files per source written
  one after the other. What must hold: nothing is marked as reflected that was not read, a lock
  left behind is freed, and what is recorded is lost only by a save of a process that could not
  read the state or whose lock was taken from it.
- **Room chat and cards**: replies are made in the background, two may be under way in one room, and
  whether a question is open is read off the last message; card changes are committed before the
  reply, a title is looked for before it is inserted, and a reply may raise anywhere, which nobody
  tells the room. What must hold: a question is passed over only where its own reply has ended
  without an answer, every waiting room is answered unless its own reply raises, no other
  project's cards touched, no card twice but by a race.
- **Weekly report**: a pool of workers whose calls fail one by one, a merge into a report read
  earlier, answers nobody checks, files that cannot be written. What must hold: no active project
  missing, no second section for a name by a merge, nothing of others lost, every run ends.
- **Lab research**: the weekly job and clicks meet only in `_RUNNING`, checked and set in two steps;
  several researchers write one `proposals.md`. What must hold: the guard is given back whatever
  fails, a proposal is stored once, and one called written is in its file.
- **Install and scan**: the program edits files that the user edits, read in one step and written in
  a later one, and removes a directory that may hold backups. What must hold: the user's text and
  the backups stay, Claude is given the block once.
- **Ports**: the list, the confirmation and the scan before a kill are three looks at processes
  that live on their own, and pids are given out again. What must hold: what is killed is what was
  confirmed, no second server, no conflict of a project with itself.

## 2. Modules

### EnvSetup, ConsentLedger, MCEnvSetup, EnvSetupProofs

`EnvSetup` is one project's environment setup: the proposal job, any number of clients that start,
apply and revert, a user who edits the files, stops of the server and the start-up recovery.

| Variable | Code |
|---|---|
| `status`, `item`, `backup` | `env_setup_runs.status`, `env_setup_items`, the run's backup directory |
| `file` | the project's writable targets |
| `lock`, `pc`, `req`, `todo`, `cur` | `_LOCKS[project]`, each request thread's place, the run and rows it has read, the loop over the items |
| `job`, `snap` | the background job and its snapshot |
| `phase`, `seen` | serving, or in `recover_on_startup`; the files it has looked at |
| `writer`, `touched` | history: who wrote a file last; whether the user wrote it after the engine's last check |

A step is one committed statement or one file operation, so `apply_run` is a sequence of actions:
`ApplyRead` (before the lock), `ApplyLock`, `ApplyRefuse` / `ApplyCheck`, `ApplyClaim` /
`ApplyLost` (`db.transition`), `ApplyMark`, then per item `ApplyItem` (plan_text and the first
comparison), `ApplyBackup`, `ApplyRecord` (planned hash), `ApplyRecheck`, `ApplyReplace`
(os.replace), `ApplyVerify`, and `ApplyFinish`. `Revert*` and `Recover*` follow their functions in
the same way. A hash is the content it is taken of; a file's content is one of a few values; what
`plan_text` and `validate_proposal` compute is abstracted to the text they allow to be written, or
to their refusal.

`ConsentLedger` is the abstract promise, 66 lines: a run owns the files alone, changes only what
was consented to while it owns them, and takes back only what it has changed, once.
`EnvSetup!KeepsTheLedger` is the refinement (`INSTANCE ConsentLedger WITH ...`), checked as a
property of `env_core`.

### LabQueue, MCLabQueue, LabProofs (second part)

`lab_requests` rows (`status`, `topic`, `noteKey`), the note files (`notes`), the registry of
`src/jobs.py` (`job`, `running`), the threads' places (`doing`, `has`, `key`), requests whose row is
added but whose wake has not happened (`waking`), and the start-up hook (`phase`). `Wake` is
`jobs.start` as `request_note` calls it; `Poll`, `Claim`, `Answer`, `PickName`, `Write`, `Finish`,
`Fail` are `process_requests` with `next_queued` and `_write_note`; `JobEnds` is the registry's
own bookkeeping after the function has returned; `Requeue` and `Resume` are `resume_requests`. Its
specification is `QueueSpec`.

### BoardSession, MCBoardSession, BoardSessionProofs

The `sessions` row (`status`, `scored`), the thread (`run`, `stage`, `calls`), `_STOP_EVENTS`
(`events`, `set`), `_LOCK` (`lock`) and the request threads (`pc`, `req`, `todo`). `Start*` is
`start` (all of it under the lock), `Stop*` is `stop` (`StopReads`, then the row, then the
event), `Loop` ... `Finally` is `_run`, `Recover*` is `recover_on_startup`. What a stage does on
the board is abstracted to the calls it launches, each guarded by `_should_skip`.

### BoardDiscussion, MCBoardDiscussion, BoardDiscussionProofs

What the stages do on the board, which `BoardSession` leaves abstract. `posts`, `comments` and
`reactions` are the tables; a deleted row stays in its sequence, marked `gone`, so that an index is
a row's id. `session` and `stage` are `_run`; `seen` is what the stage has read (`list_posts` and
the date), `todo[a]` what the worker of an agent may still ask about, `ops[a]` the statements of its
answer that are still to be carried out: each when no other one comes before it (`Before`, the order
of the loops). An answer may name the same post, comment or reply several times (`Times` says how
often, `Each` numbers them), because the loops over it drop no repetition. `NextStage` reads the
board and hands out the work; `AskWrite`, `AskBrowse`, `AskFeedback` and `AskFollowup` are the four
workers up to the parsed answer (`BrowseSteps` is `_parse_board_response` with the loops after it);
`Do` is one statement (`add_post`, `react` under the unique key, `add_comment`). A worker that asks
nothing, or whose call fails, changes nothing and has no action. `WorkerRaises`, `StageRaises`,
`Crash`, `UserSays`, `Disable` / `DeletePosts` (`remove_project`) and `NextDay` are what interferes.
`Score` is `record_scores`, with `Counted` the reactions that `session_stats` credits. Names of
agents are unique and stay; every day is within `RECENT_DAYS`.

### ModelCatalog, MCModelCatalog, ModelCatalogProofs

One vendor's collection, by processes that share files. `lock` and `old` are the lock file and
whether it is older than `LOCK_STALE_SECONDS`; `state` is `state.json` (`hash`, `changes`,
`history`, `batches`, the `entry_count` of each profile), `applied` the reflected texts; `at` and `my`
are each process's place and local variables. `TakeLock`, `FindStale`, `RemoveStale`, `GiveUp`,
`Unlock` and `Leave` are `_locked`; `Load`, `Fetch`, `Compare`, `Ask`, `Merge`, `Store`, `Save`,
`Render` are `collect_source` with `_changed_sections`, `_apply_changes` and `_save_state` in the
order of the code (`changes` is a set with the order `newer`, to which `InFront` adds at the
front); `Load` and `Profile` are `refresh_profiles`. `LoadUnreadable` is the other end of
`_load_state`: a `state.json` that cannot be read or parsed counts as none, and what is saved later
replaces it. `Age` makes a lock old, that of a process at work too: several calls of 300 s run
under a limit of 600 s, so that two holders do occur. Bodies are sets of sections, and a section
gives at most one entry. `read`, `reported` and, for what is lost by whom, `blind` (could not read),
`behind` (saved over since it loaded) and `lost` are history.

### RoomChat, MCRoomChat, RoomChatProofs

`room` is the messages of each project's room, every question numbered and every answer with the
questions of the history it was made from; `managed` the project's place in `remove_project`; `cards`
the table. A thread (a background task, the thread "room-resume", or an editor: a request or a
worker of the weekly report) has a place `pc`, a project `about`, the history it `saw`, the changes
`ops` still to do and the ids `mine` that `apply_ops` has read. `Post`, `Retry`, `Begin`,
`ModelAnswers`, `Answer` are the handlers and `reply_in_room`; `AddFound`, `AddChecked`,
`AddInserts`, `SkipForeign` and `Changes` are `apply_ops` with the two statements of `add_card`;
`Disable`, `DeleteMessages`, `DeleteCards` are `remove_project`; `Crash`, `Restart`, `ResumeNext` the
stop and `resume_dangling`. `Raises` is an exception at any statement of a reply or an edit: the
answer reaches `apply_ops` unchecked, a note that is no string makes the insert raise, and after
that the thread's connection is left in an open transaction, so that later writes of any reply may
raise "database is locked". It ends the reply without a word in the room; the resume thread goes on
with the next room. `missed` (questions), `failed` (rooms whose reply has raised), `passed`, `met`,
`raced` and `edited` are history.

### WeeklyReport, MCWeeklyReport, WeeklyReportProofs

One variable per piece of `run_weekly_report`: `phase`, the `active` projects, for each the place
`at` of its conversation and its `turns`, what the run `wrote` into rooms, the `report` of the day,
the `base` a run of chosen projects has read, the model's `answer`, the sections `todo`, the `file`
of each project and the list of `written` ones. `Collect` is `collect_weekly_commits`, `BeginTalk`,
`Pm*`, `AgentAnswers`, `Review` and `TalkRaises` are `_converse_all` with its pool, `Summarise`
to `StoreInFile` the rest. A report is its sections by their place in the text, the names of its
quiet line and its `end`; `_merge_report` is an operator on such texts that puts the sections of an
answer where the report has them and the new ones at the end, of two on one place the later
(`Where`, `Alike`, `Spot`, `Put`), and `todo` the places of the answer whose sections are still to be
stored, taken in their order. Nobody checks an answer: it may name a project twice, or as active
and quiet, leave out a text (`bare`), name somebody unknown, or nobody; `_render_report` renders it as
it is. Names are distinct, and no text of a section holds another section's heading.
Two runs overlap when the second is started by hand in a process of its own; in one process
`jobs.start` refuses it.

### ProjectFolder, LabResearch, MCProjectFolder, MCLabResearch, LabProofs (first part)

`ProjectFolder` is what `install.py`, `scan/` and `projects` keep: the row (`known`, `installed`), the
directory (`dir`, `backup`, `proposals`) and the instruction files (`md`). A text is whose it is,
whether it imports AGENTS.md and whether it has the block. A request (`pc`, `kind`, `todo`, `file`,
`my`) goes through the steps of `install_project` or `uninstall_project`, project by project for a
scan; a file is read in one step and written in a later one. `UserEdits`, `ApplyBackup`,
`UserDropsBackup` and `remove_project` come in between. `LabResearch` extends it: research's callers
(the weekly job and clicks) with their place `at`, the researchers `left`, the model's `answer`, the
row `cur` and the `copy` of the file they have read, over `_RUNNING`, `rows` (`lab_proposals`) and the
`proposals` of the directory that an uninstallation removes.

### Ports, MCPorts, PortsProofs

`ports` is the table by id, with `lastrowid` for AUTOINCREMENT; `procs` every process ever started,
with its pid, port and life (a number tells processes apart that share a pid); `view` what each tab
shows. A request has a place `pc`, the row `reg` it has read, the id or process it has `found` and
the process the user has `confirmed`. `register`, `Insert`, `Update` are `register_port` in its two
statements; `StartScan`, `AlreadyRuns`, `Launch`, `LaunchFails` are `start_port`, `StopScan`,
`NotRunning`, `Kill`, `KillFails` are `stop_port`; `OtherStarts`, `Listens`, `Exits` are the system's.
`moved`, `late`, `blind` and `twice` are history.

## 3. Runs

| Run | Instance | Properties |
|---|---|---|
| `env_core` | 2 clients, 2 runs, 1 file, 1 user edit, 1 stop | `OneWriter`, `NoStrandedWriter`, `WrittenIsRevertible`, `RevertedMeansRestored`, and the refinement `KeepsTheLedger`, over every interleaving of two requests, job, edit and stop |
| `env_faults` | 1 client, 1 run, 2 files, every kind of plan; reading, backup and writing may raise, 1 edit, 1 stop | `VerdictAgrees`, `EngineWritesAreSafe`; under fairness `WritersFinish` |
| `lab` | 3 requests, 2 topics, 2 threads, 1 stop | `OneWorker`, `NotesAreKept`; under fairness `LeftoversAreAnswered` |
| `session` | 2 sessions, 2 clients, 1 stage of 1 call, 1 stop | `OneDiscussion`, `ClosedIsQuiet`, `ClosedHasScores`; under fairness `DiscussionEnds` |
| `session_lost_stop` | violation | a stop between the row's commit and the event's registration is answered "ok" and stops nothing (`NoCallAfterStop`) |
| `board` | 2 agents, 2 sessions, 5 answers of 1 or 2 steps, 1 interference | `OnePostADay`, `OneVerdict`, `FollowUpInOneSession`, `ScoresAreFinal` |
| `catalog` | 2 processes, 1 page of 2 sections that changes once, 1 recent entry per model, 1 fault (an exception, an unreadable `state.json` or a slow holder), 1 stop | `NothingUnreadIsApplied`, `ReportedIsRecorded`, `RecordedStays`; under fairness `DeadLockIsFreed` |
| `rooms` | 2 rooms, 2 tasks, the resume thread, 1 editor, 2 questions or retries, 2 cards, 1 removal, 1 stop, exceptions anywhere | `QuestionsAreRead`, `DuplicatesNeedARace`, `ForeignCardsUntouched`; under fairness `WaitingIsAnswered` |
| `weekly` | 2 projects, 1 worker, 2 rounds, a run of all and one of a single project, 6 answers (also with repeated names), 1 stop | `NobodyGoesMissing`, `OneSectionEach`, `OthersStand`; under fairness `RunEnds` |
| `folder` | 1 project and ohmyPM's own, 2 requests, 1 edit, 1 backup | `BlockLoadedOnce`, `UserTextStands`, `BackupsStand` |
| `research` | 2 researchers (1 of the catalog), 1 title, 2 calls, 1 request on the directory, 1 fault | `WrittenIsInFile`, `ProposedOnce`, `GuardAgrees` |
| `ports` | 2 screens, 5 requests, 2 rows, 2 ports, 2 processes, 2 pids, 1 failing scan | `KilledAsConfirmed`, `NoSecondServer`, `ConflictIsTwoProjects` |

**Bounds.** Two clients and two runs are the least with which one request can act between another's
reading and its lock, and a run can be proposed while another is applied; two files the least with
which a run is partly applied; one user edit reaches every window between two engine steps, and one
stop every pair of steps. A second stop only repeats the first, because recovery starts from rows
and files alone; recovery itself may be interrupted, which the one stop also reaches when it comes
late. Three requests on two topics let one wait behind another and two share a note's name. On the
board, five answers are a post, a view with a comment on it, its author's reply and follow-ups to it
in two stages, in any order and split over two sessions in any way; two
steps are the least with which an answer names a comment or a reply twice; the one interference (a
user's comment, a removal, the end of a day, an exception or a stop) may come before any statement.
`MAX_COMMENTS_PER_AGENT` is 1 and an answer names one post, so that a second comment of an answer is
always cut. In `catalog` the one fault is an exception anywhere under the lock, a state file that
one process cannot read, or a live lock that grows old, after which two processes work at once; a
stop may come besides. Two processes, one of which may stop, do not reach two processes that find
the same stale lock. One recent entry per model fills the list at once, so that roll-up and the
count used as a version number are reached.

In `rooms`, two questions in one room are the least with which an answer may overtake another and
one room be left over by `RESUME_MAX_ROOMS` (1 here); exceptions are not bounded. The history limit
of 20 messages is not reached; the theorem covers it. One title and a reply that finishes a card and
adds it again let two threads check the same title together. In `weekly` one worker for two projects
makes one wait, and the two runs overlap in every way; the answers name both projects, one, a name
nobody knows, one project twice (once without a text), one as active and quiet, or nobody. `folder`
has all pairs of requests and every combination of files the project may have before; `research`
lets the two callers meet on one researcher, or two researchers write one file, with the directory
removed or made at any step. In `ports` five requests are two registrations, a list, a confirmed
stop and one more of any kind; two processes are enough for a pid to come back and for two servers
on a port.

**Fairness.** Threads that are under way are scheduled (weak fairness of each request, job or thread
step): model calls and file operations end because every headless call has a timeout (`LLM_TIMEOUT`,
`NOTE_TIMEOUT`, `BOARD_TIMEOUT`), and an operation that raises also ends. In the catalog requests
and calls time out as well, time passes for a lock that was left behind, and a process that is alive
begins a collection because the scheduler does every week. In `ModelCatalog` and `RoomChat` weak
fairness of a thread is written as what it amounts to for a thread that can always take a step: it
stops, or it takes steps for ever (`Moves`). The start-up hook runs to its end; a server that was
stopped is started again (`rooms`), and a run of the weekly report that is under way goes on, its
pool included (`weekly`). `folder`, `research` and `ports` check safety only. Users owe nothing: no
request has to come; stops are bounded. `CHECK_DEADLOCK FALSE` is set where the bounds let the
system stop: all sessions or requests used up and nothing left to do.

## 4. Proofs

The proofs hold for every value of the constants under the named assumptions of the modules
(`RunsAssumption`, `NamesAssumption`, ... : bounds are naturals, the special values differ from
the ordinary ones). `MaxRuns`, `MaxEdits`, `MaxCrashes` and their like are parameters of the
theorems, so the bounds that TLC needs do not limit what is proved.

Every safety property of the runs, action properties included, is a theorem, and so is the
refinement. What stays with TLC is listed at the end.

- **EnvSetupProofs**: `TypeCorrect`, `ControlHolds`, `OneWriterAlways`, `NoStrandedWriterAlways`.
  `OneWriter` is not inductive: a step of an apply is only right if the thread that takes it holds
  the lock and the row says "applying". `Control` collects that: whoever is in the critical
  section holds the lock and the other way round (`ThreadsAgree`), how far a request has come
  determines its run's status (`RequestsAgree`), the job's place its run's (`JobAgrees`), and the
  item being written has a plan (`CurrentAgrees`). With `TypeOK` it is inductive; recovery keeps
  it because nobody is in the critical section until it is done.

  On top of it `Rows` says what has become of each file of a run: the time stamps agree with the
  row, and nothing is left to judge once a run is settled (`RowsAgree`); the lock holder's list is
  the rows still to be written or restored (`ListAgrees`); the file in hand has its backup, its
  planned hash, and is as it was found or the user has written it since (`FileAgrees`); what a
  request read before it had the lock may be stale, but not beyond an apply that settled
  meanwhile (`SawAgrees`). From it: `VerdictAgreesAlways`, `RevertedMeansRestoredAlways`,
  `EngineWritesAreSafeAlways`. `WritesAgree` adds who wrote a file last, and gives
  `WrittenIsRevertibleAlways`, on condition that a file can be read back after it was written: a
  run whose read-back fails does leave a written file that no revert knows (section 5).

  `KeepsTheLedgerAlways` is the refinement: the initial states map to the ledger's, and for each
  action there is the step of `ConsentLedger` it makes, or none. One writer makes the owner
  unique; `Rows` makes a row's change an agreement, a change made, or one taken back.
- **LabProofs**, first part. The folder (`FolderSpec`): `BackupsStandAlways`, from what an
  uninstallation that has looked still knows (`LateIsKnown`); `BlockLoadedOnceAlways` and
  `UserTextStandsAlways` from what a request nobody disturbed has reached (`Reached`: its copy is the
  file, and when it is at AGENTS.md, CLAUDE.md has the block or the import and not both).
  `FolderStandsWithLab` carries the three over to the researchers who write into the same
  directory, and to stops in the middle of a request. The researchers (`Spec`): `GuardAgreesAlways`,
  where `OneEach` makes the guard inductive: two who research the same researcher have passed the
  check together; `ProposedOnceAlways`, since then whoever is about to insert a title is the only one
  of his researcher, so that the look before is still right (`InsertsNew`);
  `WrittenIsInFileAlways`, since whoever is about to mark a row has put it into the file, and
  whatever takes it out again is noted (`FileInv`). The types `LabTypeCorrect` need that each
  number in a file, or in a copy of it, names a row (`Named`).
- **LabProofs**, second part: `OneWorkerAlways`, `NotesAreKeptAlways` from the invariant `Queue`: a
  thread at work is the registered one and flagged as running, what it holds agrees with the row,
  and the name it has chosen is still free.
- **BoardSessionProofs**: `OneDiscussionAlways`, `ClosedIsQuietAlways`, `ClosedHasScoresAlways`
  from `Control`: a thread at work has an active row, `start` goes through all such rows before it
  creates its own, and an active row without a thread has its scores or will get them.
- **BoardDiscussionProofs**: `OnePostADayAlways`, `OneVerdictAlways`, `FollowUpInOneSessionAlways`,
  `ScoresAreFinalAlways`. The properties are about rows, the invariant about what is still to be
  written: the workers' statements are those of the stage (`WorkFits`) and of rows that are there
  (`Linked`), and nobody is about to write where he has already written (`Unwritten`), judged
  (`Unjudged`) or followed up (`Unfollowed`). These hold though a stage reads the board once: what
  others write meanwhile is never the worker's own. Scores are of sessions that are over
  (`ScoredOver`), whose reactions nobody adds to.
- **ModelCatalogProofs**: `NothingUnreadIsAppliedAlways`. The invariant says of each process how
  much of the body in its hands has been answered for (`Reading`: what is left to ask about, what
  was read and what is old make up the body), and that every hash in memory and on file is covered
  likewise (`Answered`). Nothing in it mentions the lock, so that it holds with two holders, too.

  `RecordedStaysAlways` and `ReportedIsRecordedAlways` have no condition either: they hold with slow
  holders, with two at work and with state files that cannot be read, because they name what those
  lose. Their invariant `RecordInv` says that whoever works holds all that is on record unless he is
  `blind` or `behind`, and that what was reported is on record, lost, or in the hands of a process
  about to save it. What the lock is for comes last: a lock is found stale in one step and removed
  in another, and may grow stale under a live holder. As long as nobody is about to remove a lock
  while another one works (`TakesOverSafely`, which is not always so), one process works at a time
  (`SerialisedWhileSafe`) and nobody is saved over (`NobodyIsOvertakenWhileSafe`), so that only an
  unreadable file or a process that ends between its two files loses anything.
- **RoomChatProofs**: `ForeignCardsUntouchedAlways`, from the ids a thread has read being ids of its
  project (`MineOK`). `DuplicatesNeedARaceAlways`, from `TitleInv`: two who are about to insert one
  title have met (`BothMet`), and an open card that a thread about to insert did not find was inserted
  by one it has met, or made open by an edit (`Overtaken`). `QuestionsAreReadAlways`: replies in the
  making will have read every question still unread that is not `missed`, or the room waits and none
  is under way (`QuestionInv`). A question is missed when its reply ended by an exception or a stop
  while another answer hides it, or when more than `HISTORY_LIMIT` messages came before a reply
  began. Nothing is assumed of how many messages a room gets.
- **WeeklyReportProofs**: `NobodyGoesMissingAlways`, since what a conversation has left in the room
  follows from its place (`Fits`, `TalkInv`). `OneSectionEachAlways` and `OthersStandAlways`, for any
  answers: a report is `Clean` if it names nobody twice, in sections or quietly, but where one answer
  rendered whole did, and its sections are of runs that have their answer; the merge of a clean report
  and an answer is clean (`MergeIsClean`) and leaves every section it does not replace at its place
  (`MergeKeepsOthers`). An answer once given stays (`Settled`), so that a clean report stays clean. Every
  report that was ever stored is clean, the one that a run has read and still holds included
  (`ReportInv`), so that a merge into an old report is one, too.
- **PortsProofs**: `ConflictsAreReal`, `StartsAlone`, `KillsTheConfirmed`, the last two
  action properties. The invariant `Registry` says what each look is still worth: a row about to be
  inserted is not there unless its request was overtaken (`RowsAgree`), nobody listens where a
  server is about to be started (`StartAgrees`), and on a port where nothing began or ended
  listening the process shown, confirmed and found is the one that listens (`StopAgrees`). That no
  two living processes share a pid, part of `TypeOK`, carries the kill from the pid to the process.

Proved and in no run, because a run shows nothing beyond the theorem: the types of every module
(`TypeCorrect`, `QueueTypeCorrect`, `FolderTypeCorrect`, `LabTypeCorrect`), `DoneHasItsNoteAlways`
and `RunningIsHeldAlways` of the queue, `SerialisedWhileSafe` and `NobodyIsOvertakenWhileSafe` of
the catalog.

Only model-checked: what is stated under fairness (`WritersFinish`, `LeftoversAreAnswered`,
`DiscussionEnds`, `DeadLockIsFreed`, `WaitingIsAnswered`, `RunEnds`), which is out of the prover's
reach, and the counterexample `NoCallAfterStop`. The fairness is not needed for anything that is
proved.

## 5. Statements the code does not keep

Five modules contain a definition of what a comment says and the code does not do.
Added to the `cfg` of the run named here, TLC finds a counterexample in seconds:

| Definition | Add to | What happens |
|---|---|---|
| `EnvSetup!NoStrandedDraft` (invariant) | `env_faults` | any exception the proposal job does not name leaves its run "running" and the project refused until a restart |
| `EnvSetup!WrittenIsRevertible` (invariant) | `env_faults` with `Faults <- AllFaults` | a failing read-back after `os.replace` marks a written file "skipped", and a revert leaves it |
| `LabQueue!QueuedIsTakenUp` (property) | `lab` | a request added between the job's last look at the queue and its end waits for the next one |
| `BoardDiscussion!FollowUpOnce` (invariant) | `board` | an agent "answers once more" (`board.py:302`), but an answer that names a reply twice writes two comments |
| `ModelCatalog!Serialised` (invariant) | `catalog` | the lock "serialises" (`model_catalog.py:168`), but a process that works for more than ten minutes loses it to one that waits |
| `RoomChat!EveryQuestionIsAnswered` (invariant) | `rooms` | a failing reply should leave a message in the room (`room_agent.py:22`), but one that raises leaves none, and a stop may hide an earlier question behind a later answer |

Each has its way into a property that does hold: `QuestionsAreRead` excepts the questions `missed`
and `WaitingIsAnswered` the rooms `failed`, `RecordedStays` names what a second holder overwrites
(`behind`, `lost`), `FollowUpInOneSession` allows repetitions within one session,
`LeftoversAreAnswered` speaks of what a stop left, `WrittenIsRevertible` is checked in `env_core`
without failing read-backs.

Other behaviour met while modelling, admitted by name in the properties: a late stop turns a row
that was just closed back to "stopping" until the next start closes it; a second run can be drafted
while another is applied (never applied with it); an edit between the last comparison and
`os.replace` is lost; a process that ends between the reflected text and `state.json` loses that
collection's entries, and a `state.json` that cannot be read is saved over
(`ReportedIsRecorded`, `RecordedStays`, `lost`); a stop button ends whoever listens on the port by
then (`KilledAsConfirmed`, `moved`); two starts, or one with a failing scan, run a server twice
(`NoSecondServer`, `late`, `blind`); two researchers who write one `proposals.md` lose the earlier
proposal, which stays marked as written (`WrittenIsInFile`, `gone`); backups made after an
uninstallation has looked go with the directory (`BackupsStand`, `late`).

And outside the properties: an installation makes a CLAUDE.md that imports AGENTS.md, and the
uninstallation leaves it; a scan sets `installed` from the directory before it installs; a project
removed while its worker waits for an answer gets that post or comment after its clean-up; an answer
of the weekly report that names a project twice gives two sections and two blocks in `weekly.md`, and
a later merge replaces only the first section; a section longer than the limit of one call is cut and
counts as reflected.

The exceptions named in a property are hazards that the property does not rule out: the entries
under "hazards" of `PROJECT.json` say for each of them which part is caught and which is not.

## 6. What is not modelled, and the plan

Abstracted in the modules: discovery, and making a directory after a look at it, are one step; the
check of an import and the block's read are one read; a researcher's answer has one proposal, its
wiki file is written in one step, and the 60 days in which a title counts as known never pass;
the catalog's wiki file is a step (`Render`) whose text is left out, since nothing reads it back;
`get_ports` reads rows and processes in one step, a confirmation and its request are one step, and
labels, commands, the range check and the children that `taskkill /T` ends with a process are left
out.

Not modelled by choice: HTML pages (but for the dialog before a stop), prompts, settings and
scripts (rendering and wording); the headless client (a call either answers, times out or raises,
which is how it appears in every module); the experts of `src/cc/expert.py` and the counters users
press on the board (single statements); the reflection calls after a session, whose notes nothing
else reads; the loop of the scheduler that compares the clock; the database client (a connection
per thread and atomic commits are the step size of the modules).

Planned, in this order:

1. Proofs: what `ConsentLedger` promises, by itself and carried over to `EnvSetup`
   by the refinement; an abstract specification of the registry of jobs that `LabQueue` implements.
2. `PlanText`: the pure rules of `plan_text` and `validate_proposal` (protected ranges never change,
   a plan is accepted only when its anchors are unique), checked against a reference definition.
3. The reflection after a session: notes, profiles and the weights of topics.
