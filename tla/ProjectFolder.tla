---------------------------- MODULE ProjectFolder ----------------------------
(***************************************************************************)
(* What ohmyPM leaves in a project: src/install.py, src/scan/, the         *)
(* projects table (src/db/projects.py) and their handlers in               *)
(* src/web/routers/api.py.                                                 *)
(*                                                                         *)
(* Installing makes the directory ohmypm/ and puts one marked block into   *)
(* CLAUDE.md and AGENTS.md, files the user edits too; uninstalling takes   *)
(* both back unless the directory holds backups of an environment setup    *)
(* (EnvSetup), which nothing locks out.  Requests run in a thread pool: a  *)
(* file is read in one step and written in a later one.  LabResearch adds  *)
(* the researchers, who write ohmypm/proposals.md.                         *)
(***************************************************************************)
EXTENDS Naturals, Sequences, FiniteSets, SequencesExt, Functions, TLC

CONSTANTS
  Projects,     \* directories below projects_root that are not hidden
  Self,         \* ohmyPM's own directory among them
  Clients,      \* request threads
  MaxRequests,  \* bound: requests
  MaxEdits,     \* bound: times the user saves or deletes a file
  MaxApplies    \* bound: applies of an environment setup, which make backups

ASSUME SelfAssumption == Self \subseteq Projects /\ IsFiniteSet(Projects)
ASSUME FolderBounds == MaxRequests \in Nat /\ MaxEdits \in Nat /\ MaxApplies \in Nat

VARIABLES
  known,      \* projects: "no" row, enabled ("on") or excluded ("off")
  installed,  \* projects.installed
  dir,        \* the directory ohmypm/ is there
  backup,     \* ohmypm/setup-backup/ holds a file
  proposals,  \* ohmypm/proposals.md: the proposals in it, newest first
  md,         \* the instruction files that are there, and their text
  pc, kind, todo,  \* a request: its place, its handler, the projects left
  file, my,   \* the instruction file it is at, and the text it has read
  calm,       \* history: nobody else wrote in its project since it began there
  late,       \* history: a backup was made since it looked for one
  requests, edits, applies

place  == <<pc, kind, todo>>
counts == <<requests, edits, applies>>
folderVars == <<known, installed, dir, backup, proposals, md, pc, kind, todo,
                file, my, calm, late, requests, edits, applies>>

\* The instruction files in the order they are gone through.
INSTRUCTION_FILES == <<"CLAUDE.md", "AGENTS.md">>

\* A text: which of the user's texts it has (0: none), whether a line of it
\* imports AGENTS.md, and whether it has the block.
Text  == [own : 0..MaxEdits + 1, import : BOOLEAN, block : BOOLEAN]
Blank == [own |-> 0, import |-> FALSE, block |-> FALSE]
User(t) == [t EXCEPT !.block = FALSE]

_read(p, f) == IF f \in DOMAIN md[p] THEN md[p][f] ELSE Blank
_write(p, f, t) == md' = [md EXCEPT ![p] = [g \in DOMAIN @ \cup {f} |-> IF g = f THEN t ELSE @[g]]]
Unlink(p, f)    == md' = [md EXCEPT ![p] = Restrict(@, DOMAIN @ \ {f})]

\* No request yet.
Quiet ==
  /\ backup = [p \in Projects |-> FALSE] /\ proposals = [p \in Projects |-> <<>>]
  /\ pc = [k \in Clients |-> "idle"] /\ kind = [k \in Clients |-> "none"]
  /\ todo = [k \in Clients |-> <<>>]
  /\ file = [k \in Clients |-> 0] /\ my = [k \in Clients |-> Blank]
  /\ calm = [k \in Clients |-> FALSE] /\ late = [k \in Clients |-> FALSE]
  /\ requests = 0 /\ edits = 0 /\ applies = 0

\* A new project may have either file already.  ohmyPM's own are never
\* touched, and left out.
FolderInit ==
  /\ known = [p \in Projects |-> "no"] /\ installed = [p \in Projects |-> FALSE]
  /\ dir = [p \in Projects |-> FALSE]
  /\ md \in [Projects -> UNION {[F -> {[Blank EXCEPT !.own = 1], [Blank EXCEPT !.import = TRUE]}] :
                                 F \in SUBSET ToSet(INSTRUCTION_FILES)}]
  /\ \A p \in Projects : ~_read(p, "AGENTS.md").import /\ (p \in Self => DOMAIN md[p] = {})
  /\ Quiet

At(k)   == Head(todo[k])
Name(k) == INSTRUCTION_FILES[file[k]]
Goto(k, from, to) == pc[k] = from /\ pc' = [pc EXCEPT ![k] = to]

\* Somebody, k if it is a client, writes in p.
Disturbs(p, k) ==
  calm' = [c \in Clients |-> calm[c] /\ (c = k \/ todo[c] = <<>> \/ At(c) # p)]

-----------------------------------------------------------------------------
(* Discovery and requests.                                                 *)

\* Every directory that is not excluded gets its row, as it is now.
discover_projects ==
  /\ known' = [p \in Projects |-> IF known[p] = "off" THEN "off" ELSE "on"]
  /\ installed' = [p \in Projects |-> IF known[p] = "off" THEN installed[p] ELSE dir[p]]

Request(k, what, first, ps) ==
  /\ pc[k] = "idle" /\ requests < MaxRequests /\ requests' = requests + 1
  /\ pc' = [pc EXCEPT ![k] = first] /\ kind' = [kind EXCEPT ![k] = what]
  /\ todo' = [todo EXCEPT ![k] = ps]
  /\ calm' = [calm EXCEPT ![k] = TRUE] /\ late' = [late EXCEPT ![k] = FALSE]
  /\ UNCHANGED <<dir, backup, proposals, md, file, my, edits, applies>>

\* run_scan: discover, then install in each.
trigger_scan(k) ==
  /\ discover_projects /\ \E p \in Projects : known[p] # "off"
  /\ Request(k, "scan", "dir", SetToSeq({p \in Projects : known[p] # "off"}))

install_one(k, p) == Request(k, "install", "dir", <<p>>) /\ UNCHANGED <<known, installed>>

uninstall_one(k, p) == Request(k, "uninstall", "look", <<p>>) /\ UNCHANGED <<known, installed>>

\* A request is done with a project: a scan goes on with the next one, the
\* others discover again if they did not fail.
Leave(k, ok) ==
  /\ IF kind[k] = "scan" /\ Len(todo[k]) > 1
     THEN /\ pc' = [pc EXCEPT ![k] = "dir"] /\ todo' = [todo EXCEPT ![k] = Tail(@)]
          /\ calm' = [calm EXCEPT ![k] = TRUE] /\ UNCHANGED kind
     ELSE /\ pc' = [pc EXCEPT ![k] = "idle"] /\ todo' = [todo EXCEPT ![k] = <<>>]
          /\ kind' = [kind EXCEPT ![k] = "none"] /\ calm' = [calm EXCEPT ![k] = FALSE]
  /\ IF ok /\ kind[k] # "scan" THEN discover_projects ELSE UNCHANGED <<known, installed>>
  /\ file' = [file EXCEPT ![k] = 0] /\ my' = [my EXCEPT ![k] = Blank]
  /\ UNCHANGED <<dir, backup, proposals, md, late, counts>>

Done(k) == pc[k] = "done" /\ Leave(k, TRUE)

-----------------------------------------------------------------------------
(* install_project.                                                        *)

SkipSelf(k) == pc[k] = "dir" /\ At(k) \in Self /\ Leave(k, TRUE)

InstallDir(k) ==
  /\ Goto(k, "dir", "kit") /\ At(k) \notin Self
  /\ dir' = [dir EXCEPT ![At(k)] = TRUE]
  /\ UNCHANGED <<known, installed, backup, proposals, md, kind, todo, file, my, calm, late, counts>>

\* .gitignore, README.md and state.md go into the directory; if it has been
\* removed meanwhile, writing them raises.
InstallKit(k) ==
  /\ Goto(k, "kit", "import") /\ dir[At(k)]
  /\ UNCHANGED <<known, installed, dir, backup, proposals, md, kind, todo, file, my, calm, late, counts>>

InstallRaises(k) == pc[k] = "kit" /\ ~dir[At(k)] /\ Leave(k, FALSE)

\* A CLAUDE.md made next to an AGENTS.md with text imports it.
InstallImport(k) ==
  /\ Goto(k, "import", "read") /\ file' = [file EXCEPT ![k] = 1]
  /\ IF "CLAUDE.md" \notin DOMAIN md[At(k)] /\ User(_read(At(k), "AGENTS.md")) # Blank
     THEN _write(At(k), "CLAUDE.md", [Blank EXCEPT !.import = TRUE]) /\ Disturbs(At(k), k)
     ELSE UNCHANGED <<md, calm>>
  /\ UNCHANGED <<known, installed, dir, backup, proposals, kind, todo, my, late, counts>>

-----------------------------------------------------------------------------
(* uninstall_project.                                                      *)

Blocked(k) == pc[k] = "look" /\ backup[At(k)] /\ Leave(k, FALSE)

\* Mutant of LookForBackups: it does not look.
DoNotLook(k) ==
  /\ Goto(k, "look", "rmtree") /\ late' = [late EXCEPT ![k] = FALSE]
  /\ UNCHANGED <<known, installed, dir, backup, proposals, md, kind, todo, file, my, calm, counts>>

LookForBackups(k) ==
  /\ Goto(k, "look", "rmtree") /\ ~backup[At(k)] /\ late' = [late EXCEPT ![k] = FALSE]
  /\ UNCHANGED <<known, installed, dir, backup, proposals, md, kind, todo, file, my, calm, counts>>

RemoveDir(k) ==
  /\ Goto(k, "rmtree", "read") /\ file' = [file EXCEPT ![k] = 1]
  /\ dir' = [dir EXCEPT ![At(k)] = FALSE]
  /\ backup' = [backup EXCEPT ![At(k)] = FALSE]
  /\ proposals' = [proposals EXCEPT ![At(k)] = <<>>]
  /\ Disturbs(At(k), k)
  /\ UNCHANGED <<known, installed, md, kind, todo, my, late, counts>>

-----------------------------------------------------------------------------
(* The block: a file is read, then written.                                *)

ReadFile(k) ==
  /\ Goto(k, "read", "write")
  /\ my' = [my EXCEPT ![k] = _read(At(k), Name(k))]
  /\ UNCHANGED <<known, installed, dir, backup, proposals, md, kind, todo, file, calm, late, counts>>

_imports_agents(k) == file[k] = 1 /\ my[k].import

_upsert_block(k) ==
  IF my[k].block THEN UNCHANGED md
  ELSE _write(At(k), Name(k), [my[k] EXCEPT !.block = TRUE])

\* Mutant of _remove_block: the file always goes.
RemoveFile(k) == IF my[k].block THEN Unlink(At(k), Name(k)) ELSE UNCHANGED md

\* A file that had nothing but the block goes.
_remove_block(k) ==
  IF ~my[k].block THEN UNCHANGED md
  ELSE IF User(my[k]) = Blank THEN Unlink(At(k), Name(k))
  ELSE _write(At(k), Name(k), User(my[k]))

\* Mutant of PutOrTake: CLAUDE.md gets its block though it imports AGENTS.md.
PutEverywhere(k) == IF kind[k] = "uninstall" THEN _remove_block(k) ELSE _upsert_block(k)

PutOrTake(k) ==
  IF kind[k] = "uninstall" \/ _imports_agents(k) THEN _remove_block(k) ELSE _upsert_block(k)

WriteFile(k) ==
  /\ pc[k] = "write" /\ PutOrTake(k)
  /\ IF md' = md THEN UNCHANGED calm ELSE Disturbs(At(k), k)
  /\ IF file[k] < Len(INSTRUCTION_FILES)
     THEN file' = [file EXCEPT ![k] = @ + 1] /\ pc' = [pc EXCEPT ![k] = "read"]
     ELSE pc' = [pc EXCEPT ![k] = "done"] /\ UNCHANGED file
  /\ UNCHANGED <<known, installed, dir, backup, proposals, kind, todo, my, late, counts>>

-----------------------------------------------------------------------------
(* What happens around the requests.                                       *)

remove_project(p) ==
  /\ known[p] = "on" /\ known' = [known EXCEPT ![p] = "off"]
  /\ UNCHANGED <<installed, dir, backup, proposals, md, place, file, my, calm, late, counts>>

\* The user saves a text, with the block that was there or without it, or
\* deletes the file.
UserEdits(p, f) ==
  /\ p \notin Self /\ edits < MaxEdits /\ edits' = edits + 1
  /\ \/ f \in DOMAIN md[p] /\ Unlink(p, f)
     \/ \E b \in {FALSE, _read(p, f).block} : \E i \in {FALSE, f = "CLAUDE.md"} :
          _write(p, f, [own |-> edits + 2, import |-> i, block |-> b])
  /\ calm' = [c \in Clients |-> calm[c] /\ (todo[c] = <<>> \/ At(c) # p)]
  /\ UNCHANGED <<known, installed, dir, backup, proposals, place, file, my, late, requests, applies>>

\* apply_run of an environment setup backs a file up (_prepare_backup_dir
\* makes the directory if it is not there).
ApplyBackup(p) ==
  /\ p \notin Self /\ applies < MaxApplies /\ applies' = applies + 1
  /\ dir' = [dir EXCEPT ![p] = TRUE] /\ backup' = [backup EXCEPT ![p] = TRUE]
  /\ late' = [c \in Clients |-> late[c] \/ (pc[c] = "rmtree" /\ At(c) = p)]
  /\ UNCHANGED <<known, installed, proposals, md, place, file, my, calm, requests, edits>>

\* The user clears the backups away.
UserDropsBackup(p) ==
  /\ backup[p] /\ backup' = [backup EXCEPT ![p] = FALSE]
  /\ UNCHANGED <<known, installed, dir, proposals, md, place, file, my, calm, late, counts>>

Step(k) ==
  \/ Done(k) \/ SkipSelf(k) \/ InstallDir(k) \/ InstallKit(k) \/ InstallRaises(k)
  \/ InstallImport(k) \/ Blocked(k) \/ LookForBackups(k) \/ RemoveDir(k)
  \/ ReadFile(k) \/ WriteFile(k)

FolderNext ==
  \/ \E k \in Clients : trigger_scan(k) \/ Step(k)
  \/ \E k \in Clients, p \in Projects : install_one(k, p) \/ uninstall_one(k, p)
  \/ \E p \in Projects : remove_project(p) \/ ApplyBackup(p) \/ UserDropsBackup(p)
  \/ \E p \in Projects, f \in ToSet(INSTRUCTION_FILES) : UserEdits(p, f)

FolderSpec == FolderInit /\ [][FolderNext]_folderVars

-----------------------------------------------------------------------------
\* Every variable keeps its type.
FolderTypeOK ==
  /\ known \in [Projects -> {"no", "on", "off"}]
  /\ installed \in [Projects -> BOOLEAN] /\ dir \in [Projects -> BOOLEAN]
  /\ backup \in [Projects -> BOOLEAN]
  /\ \A p \in Projects : /\ DOMAIN md[p] \subseteq ToSet(INSTRUCTION_FILES)
                         /\ \A f \in DOMAIN md[p] : md[p][f] \in Text
  /\ pc \in [Clients -> {"idle", "dir", "kit", "import", "look", "rmtree", "read", "write", "done"}]
  /\ kind \in [Clients -> {"none", "scan", "install", "uninstall"}]
  /\ todo \in [Clients -> Seq(Projects)]
  /\ file \in [Clients -> 0..Len(INSTRUCTION_FILES)] /\ my \in [Clients -> Text]
  /\ calm \in [Clients -> BOOLEAN] /\ late \in [Clients -> BOOLEAN]
  /\ requests \in 0..MaxRequests /\ edits \in 0..MaxEdits /\ applies \in 0..MaxApplies

\* Installing and uninstalling leave the user's own text as it is and leave
\* no empty file behind, unless the user saved between the read and the
\* write of that file (test_board.py:88, idempotent and reversible).
UserTextStands ==
  [][\A k \in Clients, p \in Projects, f \in ToSet(INSTRUCTION_FILES) :
       /\ pc[k] = "write" /\ pc'[k] # "write" /\ At(k) = p /\ Name(k) = f
       /\ _read(p, f) = my[k]
       => /\ User(_read(p, f)') = User(my[k])
          /\ f \in DOMAIN md'[p] => md'[p][f] # Blank]_folderVars

\* When an installation in which nobody interfered is done, from whatever was
\* there before, AGENTS.md has the block and Claude, which reads CLAUDE.md
\* and what it imports, is given it once (install.py:123, "not loaded
\* twice"); after an uninstallation neither file has it.
Loaded(p) ==
  (IF _read(p, "CLAUDE.md").block THEN 1 ELSE 0)
    + (IF _read(p, "CLAUDE.md").import /\ _read(p, "AGENTS.md").block THEN 1 ELSE 0)
BlockLoadedOnce ==
  \A k \in Clients : pc[k] = "done" /\ calm[k] =>
    IF kind[k] = "uninstall"
    THEN \A f \in ToSet(INSTRUCTION_FILES) : ~_read(At(k), f).block
    ELSE Loaded(At(k)) = 1 /\ _read(At(k), "AGENTS.md").block

\* Backups go with the directory only if they were made after the
\* uninstallation had looked for them (install.py:144).
BackupsStand ==
  [][\A p \in Projects : backup[p] /\ dir[p] /\ ~dir'[p] =>
       \E k \in Clients : pc[k] = "rmtree" /\ At(k) = p /\ late[k]]_folderVars
=============================================================================
