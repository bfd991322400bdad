------------------------------ MODULE LabProofs ------------------------------
(* The lab and the project folders it writes into.  First the folder and its *)
(* researchers, for any number of projects, requests, saves of the user,     *)
(* applies, researchers, weekly jobs, clicks and stops: the backups, the     *)
(* user's text and the block (FolderSpec), the guard of the researchers,     *)
(* their rows and their files (Spec).  Then the queue of requested notes     *)
(* (QueueSpec), for any number of requests, threads, notes and stops.        *)
EXTENDS LabResearch, LabQueue, FiniteSetTheorems, TLAPS

USE DEF place, counts

\* What is left of a list after its first.
LEMMA TailOf ==
  ASSUME NEW S, NEW s \in Seq(S), s # <<>>
  PROVE  Tail(s) \in Seq(S) /\ (Len(s) # 1 => Tail(s) # <<>>)
<1>1. Len(s) \in Nat \ {0} /\ Len(Tail(s)) = Len(s) - 1 /\ Tail(s) \in Seq(S)
  OBVIOUS
<1>2. Len(s) # 1 => Len(Tail(s)) # 0
  BY <1>1
<1>3. Len(<<>>) = 0
  OBVIOUS
<1>4. ASSUME Tail(s) = <<>> PROVE Len(s) = 1
  <2>1. Len(Tail(s)) = 0
    BY <1>3, <1>4, Zenon
  <2> QED
    BY <1>2, <2>1
<1> QED
  BY <1>1, <1>4

-----------------------------------------------------------------------------
(* The folder alone (FolderSpec): the backups and the uninstallation.      *)

\* Whoever has looked for backups and found none has been overtaken if there
\* are some.
LateIsKnown ==
  \A k \in Clients, p \in Projects :
    pc[k] = "rmtree" /\ At(k) = p /\ backup[p] => late[k]

FolderInv ==
  /\ pc \in [Clients -> {"idle", "dir", "kit", "import", "look", "rmtree", "read", "write", "done"}]
  /\ late \in [Clients -> BOOLEAN] /\ DOMAIN todo = Clients
  /\ DOMAIN backup = Projects /\ DOMAIN dir = Projects
  /\ LateIsKnown

\* A step of a request that neither looks for backups nor makes any.
LEMMA OtherStep ==
  ASSUME FolderInv, NEW k \in Clients,
         NEW to \in {"idle", "dir", "kit", "import", "look", "read", "write", "done"},
         pc' = [pc EXCEPT ![k] = to], DOMAIN todo' = Clients,
         \A c \in Clients \ {k} : todo'[c] = todo[c] /\ late'[c] = late[c],
         late' \in [Clients -> BOOLEAN],
         backup' = backup, DOMAIN dir' = DOMAIN dir
  PROVE  FolderInv'
<1>1. \A c \in Clients : pc'[c] = "rmtree" => c # k /\ pc[c] = "rmtree" /\ At(c)' = At(c)
  BY DEF FolderInv, At
<1>2. LateIsKnown'
  BY <1>1 DEF FolderInv, LateIsKnown
<1> QED
  BY <1>2 DEF FolderInv

LEMMA RequestHolds ==
  ASSUME FolderInv, NEW k \in Clients, NEW what, NEW first \in {"dir", "look"}, NEW ps,
         Request(k, what, first, ps)
  PROVE  FolderInv'
<1>1. /\ pc' = [pc EXCEPT ![k] = first] /\ todo' = [todo EXCEPT ![k] = ps]
      /\ late' = [late EXCEPT ![k] = FALSE] /\ UNCHANGED <<backup, dir>>
  BY DEF Request
<1>2. /\ DOMAIN todo' = Clients /\ late' \in [Clients -> BOOLEAN]
      /\ \A c \in Clients \ {k} : todo'[c] = todo[c] /\ late'[c] = late[c]
  BY <1>1 DEF FolderInv
<1> QED
  BY <1>1, <1>2, OtherStep

LEMMA LeaveHolds ==
  ASSUME FolderInv, NEW k \in Clients, NEW ok, Leave(k, ok)
  PROVE  FolderInv'
<1>1. PICK to \in {"dir", "idle"} : pc' = [pc EXCEPT ![k] = to] /\ \E s : todo' = [todo EXCEPT ![k] = s]
  BY DEF Leave
<1>2. UNCHANGED <<backup, late, dir>>
  BY DEF Leave
<1>3. /\ DOMAIN todo' = Clients /\ late' \in [Clients -> BOOLEAN]
      /\ \A c \in Clients \ {k} : todo'[c] = todo[c] /\ late'[c] = late[c]
  BY <1>1, <1>2 DEF FolderInv
<1> QED
  BY <1>1, <1>2, <1>3, OtherStep

LEMMA RequestStepHolds ==
  ASSUME FolderInv, NEW k \in Clients, Step(k)
  PROVE  FolderInv'
<1>1. CASE Done(k) \/ SkipSelf(k) \/ InstallRaises(k) \/ Blocked(k)
  BY <1>1, LeaveHolds DEF Done, SkipSelf, InstallRaises, Blocked
<1>2. CASE InstallDir(k) \/ InstallKit(k) \/ InstallImport(k) \/ ReadFile(k) \/ WriteFile(k)
  <2>1. PICK to \in {"kit", "import", "read", "write", "done"} : pc' = [pc EXCEPT ![k] = to]
    BY <1>2 DEF InstallDir, InstallKit, InstallImport, ReadFile, WriteFile, Goto
  <2>2. UNCHANGED <<backup, todo, late>> /\ DOMAIN dir' = DOMAIN dir
    BY <1>2 DEF InstallDir, InstallKit, InstallImport, ReadFile, WriteFile
  <2> QED
    BY <2>1, <2>2, OtherStep DEF FolderInv
<1>3. CASE LookForBackups(k)
  <2>1. /\ pc' = [pc EXCEPT ![k] = "rmtree"] /\ late' = [late EXCEPT ![k] = FALSE]
        /\ ~backup[At(k)] /\ UNCHANGED <<backup, todo, dir>>
    BY <1>3 DEF LookForBackups, Goto
  <2>2. LateIsKnown'
    BY <2>1 DEF FolderInv, LateIsKnown, At
  <2> QED
    BY <2>1, <2>2 DEF FolderInv
<1>4. CASE RemoveDir(k)
  <2>1. /\ pc' = [pc EXCEPT ![k] = "read"] /\ backup' = [backup EXCEPT ![At(k)] = FALSE]
        /\ UNCHANGED <<todo, late>> /\ DOMAIN dir' = DOMAIN dir
    BY <1>4 DEF RemoveDir, Goto
  <2>2. \A p \in Projects : backup'[p] => backup[p]
    BY <2>1 DEF FolderInv
  <2>3. LateIsKnown'
    BY <2>1, <2>2 DEF FolderInv, LateIsKnown, At
  <2> QED
    BY <2>1, <2>3 DEF FolderInv
<1> QED
  BY <1>1, <1>2, <1>3, <1>4 DEF Step

LEMMA FolderStepHolds == FolderInv /\ [FolderNext]_folderVars => FolderInv'
<1> SUFFICES ASSUME FolderInv, [FolderNext]_folderVars
             PROVE  FolderInv'
  OBVIOUS
<1>1. CASE \E k \in Clients : trigger_scan(k) \/ \E p \in Projects : install_one(k, p) \/ uninstall_one(k, p)
  BY <1>1, RequestHolds DEF trigger_scan, install_one, uninstall_one
<1>2. CASE \E k \in Clients : Step(k)
  BY <1>2, RequestStepHolds
<1>3. CASE \E p \in Projects : ApplyBackup(p)
  <2>1. PICK p \in Projects : ApplyBackup(p)
    BY <1>3
  <2>2. /\ backup' = [backup EXCEPT ![p] = TRUE] /\ UNCHANGED <<pc, todo>> /\ DOMAIN dir' = DOMAIN dir
        /\ late' = [c \in Clients |-> late[c] \/ (pc[c] = "rmtree" /\ At(c) = p)]
    BY <2>1 DEF ApplyBackup
  <2>3. late' \in [Clients -> BOOLEAN] /\ \A c \in Clients : late[c] \/ (pc[c] = "rmtree" /\ At(c) = p) => late'[c]
    BY <2>2, Zenon
  <2>4. LateIsKnown'
    BY <2>2, <2>3 DEF FolderInv, LateIsKnown, At
  <2> QED
    BY <2>2, <2>3, <2>4 DEF FolderInv
<1>4. CASE \/ \E p \in Projects : remove_project(p) \/ UserDropsBackup(p)
           \/ \E p \in Projects, f \in ToSet(INSTRUCTION_FILES) : UserEdits(p, f)
           \/ UNCHANGED folderVars
  <2>1. /\ UNCHANGED <<pc, todo, late, dir>>
        /\ backup' = backup \/ \E p \in Projects : backup' = [backup EXCEPT ![p] = FALSE]
    BY <1>4 DEF remove_project, UserDropsBackup, UserEdits, folderVars
  <2>2. DOMAIN backup' = Projects /\ \A p \in Projects : backup'[p] => backup[p]
    BY <2>1 DEF FolderInv
  <2>3. LateIsKnown'
    BY <2>1, <2>2 DEF FolderInv, LateIsKnown, At
  <2> QED
    BY <2>1, <2>2, <2>3 DEF FolderInv
<1> QED
  BY <1>1, <1>2, <1>3, <1>4 DEF FolderNext

-----------------------------------------------------------------------------
\* What BackupsStand says of a step.
BackupsStep ==
  \A p \in Projects : backup[p] /\ dir[p] /\ ~dir'[p] =>
    \E k \in Clients : pc[k] = "rmtree" /\ At(k) = p /\ late[k]

LEMMA BackupsStepHolds == FolderInv /\ FolderNext => BackupsStep
<1> SUFFICES ASSUME FolderInv, FolderNext, NEW p \in Projects, backup[p], dir[p], ~dir'[p]
             PROVE  \E k \in Clients : pc[k] = "rmtree" /\ At(k) = p /\ late[k]
  BY DEF BackupsStep
<1>1. PICK k \in Clients : RemoveDir(k)
  <2>1. DOMAIN dir = Projects /\ dir' # dir
    BY DEF FolderInv
  <2>2. CASE \E k \in Clients : InstallDir(k)
    <3>1. PICK k \in Clients : dir' = [dir EXCEPT ![At(k)] = TRUE]
      BY <2>2 DEF InstallDir
    <3> QED
      BY <2>1, <3>1
  <2>3. CASE \E q \in Projects : ApplyBackup(q)
    BY <2>1, <2>3 DEF ApplyBackup
  <2>4. CASE \E k \in Clients : Step(k) /\ ~InstallDir(k)
    BY <2>1, <2>4 DEF Step, Done, SkipSelf, InstallKit, InstallRaises, InstallImport, Blocked,
       LookForBackups, ReadFile, WriteFile, Leave
  <2> QED
    BY <2>1, <2>2, <2>3, <2>4 DEF FolderNext, trigger_scan, install_one, uninstall_one, Request,
       remove_project, UserDropsBackup, UserEdits
<1>2. pc[k] = "rmtree" /\ dir' = [dir EXCEPT ![At(k)] = FALSE]
  BY <1>1 DEF RemoveDir, Goto
<1>3. At(k) = p
  BY <1>2 DEF FolderInv
<1> QED
  BY <1>2, <1>3 DEF FolderInv, LateIsKnown

\* An uninstallation takes the backups of an environment setup with it only if
\* they were made after it had looked for them.
THEOREM BackupsStandAlways == FolderSpec => BackupsStand
<1>1. FolderInit => FolderInv
  BY DEF FolderInit, Quiet, FolderInv, LateIsKnown
<1>2. FolderInv /\ [FolderNext]_folderVars => [BackupsStep]_folderVars
  BY BackupsStepHolds
<1> QED
  BY <1>1, <1>2, FolderStepHolds, PTL DEF FolderSpec, BackupsStand, BackupsStep

-----------------------------------------------------------------------------
(* The folder alone: the instruction files and the block.                  *)


\* All of a finite set, in some order.
LEMMA InSomeOrder ==
  ASSUME NEW S, IsFiniteSet(S), S # {}
  PROVE  SetToSeq(S) \in Seq(S) /\ SetToSeq(S) # <<>>
<1>1. Cardinality(S) \in Nat /\ Cardinality(S) # 0 /\ ExistsBijection(1..Cardinality(S), S)
  BY FS_CardinalityType, FS_EmptySet
<1>2. \E f \in [1..Cardinality(S) -> S] : IsInjective(f)
  BY <1>1 DEF ExistsBijection, Bijection, Injection, IsInjective
<1>3. SetToSeq(S) \in [1..Cardinality(S) -> S]
  BY <1>2 DEF SetToSeq
<1>4. 1 \in 1..Cardinality(S)
  BY <1>1
<1> QED
  BY <1>1, <1>3, <1>4

Files == {"CLAUDE.md", "AGENTS.md"}

LEMMA FilesAre ==
  /\ ToSet(INSTRUCTION_FILES) = Files /\ Len(INSTRUCTION_FILES) = 2
  /\ INSTRUCTION_FILES[1] = "CLAUDE.md" /\ INSTRUCTION_FILES[2] = "AGENTS.md"
BY DEF ToSet, INSTRUCTION_FILES, Files

\* The texts of the instruction files that are there; none is empty.
FilesOK(fs) == DOMAIN fs \subseteq Files /\ \A f \in DOMAIN fs : fs[f] \in Text \ {Blank}
MdTypes == DOMAIN md = Projects /\ \A p \in Projects : FilesOK(md[p])

\* The text of p's file f after a step, and the step that has put t there, or
\* has taken the file away if t is empty.
After(p, f) == IF f \in DOMAIN md'[p] THEN md'[p][f] ELSE Blank
Put(p, f, t) ==
  /\ MdTypes' /\ After(p, f) = t
  /\ \A g \in Files \ {f} : After(p, g) = _read(p, g)
  /\ \A q \in Projects \ {p} : md'[q] = md[q]

LEMMA Written ==
  ASSUME MdTypes, NEW p \in Projects, NEW f \in Files, NEW t \in Text \ {Blank}, _write(p, f, t)
  PROVE  Put(p, f, t)
<1> DEFINE fs == [g \in DOMAIN md[p] \cup {f} |-> IF g = f THEN t ELSE md[p][g]]
<1>1. /\ DOMAIN md' = Projects /\ md'[p] = fs
      /\ \A q \in Projects \ {p} : md'[q] = md[q]
  BY DEF _write, MdTypes
<1>2. FilesOK(fs)
  BY DEF MdTypes, FilesOK
<1>3. DOMAIN fs = DOMAIN md[p] \cup {f} /\ fs[f] = t /\ \A g \in DOMAIN md[p] \ {f} : fs[g] = md[p][g]
  OBVIOUS
<1> HIDE DEF fs
<1>4. MdTypes'
  BY <1>1, <1>2 DEF MdTypes
<1>5. After(p, f) = t
  BY <1>1, <1>3 DEF After
<1>6. \A g \in Files \ {f} : After(p, g) = _read(p, g)
  BY <1>1, <1>3 DEF _read, After
<1> QED
  BY <1>1, <1>4, <1>5, <1>6 DEF Put

LEMMA Unlinked ==
  ASSUME MdTypes, NEW p \in Projects, NEW f \in Files, Unlink(p, f)
  PROVE  Put(p, f, Blank)
<1> DEFINE fs == Restrict(md[p], DOMAIN md[p] \ {f})
<1>1. /\ DOMAIN md' = Projects /\ md'[p] = fs
      /\ \A q \in Projects \ {p} : md'[q] = md[q]
  BY DEF Unlink, MdTypes
<1>2. DOMAIN fs = DOMAIN md[p] \ {f} /\ \A g \in DOMAIN md[p] \ {f} : fs[g] = md[p][g]
  BY DEF Restrict
<1> HIDE DEF fs
<1>3. FilesOK(fs)
  BY <1>2 DEF MdTypes, FilesOK
<1>4. MdTypes'
  BY <1>1, <1>3 DEF MdTypes
<1>5. After(p, f) = Blank
  BY <1>1, <1>2 DEF After
<1>6. \A g \in Files \ {f} : After(p, g) = _read(p, g)
  BY <1>1, <1>2 DEF _read, After
<1> QED
  BY <1>1, <1>4, <1>5, <1>6 DEF Put

\* What a request makes of a text it has read.
Made(k) ==
  IF kind[k] = "uninstall" \/ _imports_agents(k) THEN User(my[k]) ELSE [my[k] EXCEPT !.block = TRUE]

LEMMA TextIs ==
  ASSUME NEW t \in Text
  PROVE  /\ User(t) \in Text /\ User(User(t)) = User(t) /\ ~User(t).block /\ User(t).import = t.import
         /\ ~t.block => User(t) = t
         /\ LET b == [t EXCEPT !.block = TRUE] IN
            /\ b \in Text /\ b.block /\ b # Blank /\ User(b) = User(t) /\ b.import = t.import
            /\ t.block => b = t
         /\ t.import => User(t) # Blank
BY DEF Text, User, Blank

\* What a request does to a file: it makes the text of what it has read, or
\* leaves the file alone where it had nothing to change.
LEMMA PutOrTakeIs ==
  ASSUME MdTypes, NEW k \in Clients, At(k) \in Projects, Name(k) \in Files, my[k] \in Text, PutOrTake(k)
  PROVE  \/ Put(At(k), Name(k), Made(k))
         \/ md' = md /\ my[k] = Made(k)
<1>1. CASE kind[k] = "uninstall" \/ _imports_agents(k)
  <2>1. _remove_block(k) /\ Made(k) = User(my[k])
    BY <1>1 DEF PutOrTake, Made
  <2>2. CASE ~my[k].block
    BY <2>1, <2>2, TextIs DEF _remove_block
  <2>3. CASE my[k].block /\ User(my[k]) = Blank
    BY <2>1, <2>3, Unlinked DEF _remove_block
  <2>4. CASE my[k].block /\ User(my[k]) # Blank
    <3>1. User(my[k]) \in Text \ {Blank}
      BY <2>4, TextIs
    <3>2. _write(At(k), Name(k), User(my[k]))
      BY <2>1, <2>4 DEF _remove_block
    <3> QED
      BY <2>1, <3>1, <3>2, Written
  <2> QED
    BY <2>2, <2>3, <2>4
<1>2. CASE ~(kind[k] = "uninstall" \/ _imports_agents(k))
  <2>1. _upsert_block(k) /\ Made(k) = [my[k] EXCEPT !.block = TRUE]
    BY <1>2 DEF PutOrTake, Made
  <2>2. CASE my[k].block
    BY <2>1, <2>2, TextIs DEF _upsert_block
  <2>3. CASE ~my[k].block
    <3>1. [my[k] EXCEPT !.block = TRUE] \in Text \ {Blank}
      BY TextIs
    <3>2. _write(At(k), Name(k), [my[k] EXCEPT !.block = TRUE])
      BY <2>1, <2>3 DEF _upsert_block
    <3> QED
      BY <2>1, <3>1, <3>2, Written
  <2> QED
    BY <2>2, <2>3
<1> QED
  BY <1>1, <1>2

-----------------------------------------------------------------------------
\* What an undisturbed request has reached: its copy is the file, CLAUDE.md has
\* the block or imports AGENTS.md and not both, and then AGENTS.md has it.
Reached(k) ==
  LET claude == _read(At(k), "CLAUDE.md") IN
  /\ pc[k] = "write" => my[k] = _read(At(k), Name(k))
  /\ pc[k] \in {"read", "write", "done"} /\ file[k] = 2 =>
       IF kind[k] = "uninstall" THEN ~claude.block ELSE claude.block # claude.import
  /\ pc[k] = "done" => (kind[k] # "uninstall" <=> _read(At(k), "AGENTS.md").block)

ClientOK(k) ==
  /\ pc[k] # "idle" => todo[k] # <<>>
  /\ pc[k] \in {"read", "write"} => file[k] \in {1, 2}
  /\ pc[k] = "done" => file[k] = 2
  /\ calm[k] => Reached(k)

TextTypes ==
  /\ MdTypes
  /\ pc \in [Clients -> {"idle", "dir", "kit", "import", "look", "rmtree", "read", "write", "done"}]
  /\ DOMAIN kind = Clients /\ DOMAIN calm = Clients
  /\ todo \in [Clients -> Seq(Projects)] /\ file \in [Clients -> Nat] /\ my \in [Clients -> Text]
  /\ edits \in 0..MaxEdits

TextInv == TextTypes /\ \A k \in Clients : ClientOK(k)

LEMMA AtWork ==
  ASSUME TextInv, NEW k \in Clients, pc[k] # "idle"
  PROVE  At(k) \in Projects /\ (pc[k] \in {"read", "write"} => Name(k) \in Files)
<1>1. todo[k] \in Seq(Projects) /\ todo[k] # <<>>
  BY DEF TextInv, TextTypes, ClientOK
<1>2. At(k) \in Projects
  BY <1>1 DEF At
<1>3. ASSUME pc[k] \in {"read", "write"} PROVE Name(k) \in Files
  <2>1. file[k] \in {1, 2}
    BY <1>3 DEF TextInv, ClientOK
  <2> QED
    BY <2>1, FilesAre DEF Name, Files
<1> QED
  BY <1>2, <1>3

\* A client that does nothing, with its files as they were or its calm gone.
Idles(c) ==
  /\ pc'[c] = pc[c] /\ kind'[c] = kind[c] /\ todo'[c] = todo[c] /\ file'[c] = file[c] /\ my'[c] = my[c]
  /\ calm'[c] => calm[c] /\ (todo[c] = <<>> \/ md'[At(c)] = md[At(c)])

LEMMA IdlesHolds ==
  ASSUME NEW c \in Clients, ClientOK(c), Idles(c)
  PROVE  ClientOK(c)'
<1>1. CASE ~calm'[c] \/ todo[c] = <<>>
  BY <1>1 DEF Idles, ClientOK, Reached
<1>2. CASE calm'[c] /\ todo[c] # <<>>
  <2>1. At(c)' = At(c) /\ Name(c)' = Name(c) /\ md'[At(c)] = md[At(c)] /\ calm[c]
    BY <1>2 DEF Idles, At, Name
  <2>2. \A f : _read(At(c), f)' = _read(At(c), f)
    BY <2>1 DEF _read
  <2>3. Reached(c)'
    BY <2>1, <2>2 DEF Idles, ClientOK, Reached
  <2> QED
    BY <2>3 DEF Idles, ClientOK
<1> QED
  BY <1>1, <1>2

LEMMA Alone ==
  ASSUME TextInv, NEW k \in Clients, TextTypes', ClientOK(k)', \A c \in Clients \ {k} : Idles(c)
  PROVE  TextInv'
<1>1. \A c \in Clients \ {k} : ClientOK(c)'
  BY IdlesHolds DEF TextInv
<1> QED
  BY <1>1 DEF TextInv

LEMMA DisturbsIs ==
  ASSUME NEW p, NEW k, Disturbs(p, k)
  PROVE  /\ DOMAIN calm' = Clients
         /\ \A c \in Clients : calm'[c] => calm[c] /\ (c = k \/ todo[c] = <<>> \/ At(c) # p)
BY Zenon DEF Disturbs

LEMMA RequestText ==
  ASSUME TextInv, NEW k \in Clients, NEW what, NEW first \in {"dir", "look"},
         NEW ps \in Seq(Projects), ps # <<>>, Request(k, what, first, ps)
  PROVE  TextInv'
<1>1. /\ pc' = [pc EXCEPT ![k] = first] /\ kind' = [kind EXCEPT ![k] = what]
      /\ todo' = [todo EXCEPT ![k] = ps] /\ calm' = [calm EXCEPT ![k] = TRUE]
      /\ UNCHANGED <<md, file, my, edits>>
  BY DEF Request
<1>2. TextTypes'
  BY <1>1 DEF TextInv, TextTypes, MdTypes
<1>3. ClientOK(k)'
  BY <1>1 DEF TextInv, TextTypes, ClientOK, Reached
<1>4. \A c \in Clients \ {k} : Idles(c)
  BY <1>1 DEF TextInv, TextTypes, Idles
<1> QED
  BY <1>2, <1>3, <1>4, Alone

LEMMA LeaveText ==
  ASSUME TextInv, NEW k \in Clients, NEW ok, Leave(k, ok)
  PROVE  TextInv'
<1>1. UNCHANGED <<md, edits>> /\ file' = [file EXCEPT ![k] = 0] /\ my' = [my EXCEPT ![k] = Blank]
  BY DEF Leave
<1>2. Blank \in Text
  BY FolderBounds DEF Blank, Text
<1>3. todo[k] \in Seq(Projects)
  BY DEF TextInv, TextTypes
<1>4. CASE kind[k] = "scan" /\ Len(todo[k]) > 1
  <2>1. /\ pc' = [pc EXCEPT ![k] = "dir"] /\ todo' = [todo EXCEPT ![k] = Tail(@)]
        /\ calm' = [calm EXCEPT ![k] = TRUE] /\ UNCHANGED kind
    BY <1>4 DEF Leave
  <2>2. Len(todo[k]) # 1 /\ Len(todo[k]) # 0
    <3>1. Len(todo[k]) \in Nat /\ Len(todo[k]) > 1
      BY <1>3, <1>4
    <3>2. \A n \in Nat : n > 1 => n # 1 /\ n # 0
      OBVIOUS
    <3> QED
      BY <3>1, <3>2, Zenon
  <2>3. Tail(todo[k]) \in Seq(Projects) /\ Tail(todo[k]) # <<>>
    <3>1. Len(<<>>) = 0
      OBVIOUS
    <3>2. todo[k] # <<>>
      BY <2>2, <3>1, Zenon
    <3> QED
      BY <1>3, <2>2, <3>2, TailOf
  <2>4. TextTypes'
    BY <1>1, <1>2, <2>1, <2>3 DEF TextInv, TextTypes, MdTypes
  <2>5. ClientOK(k)'
    BY <2>1, <2>3 DEF TextInv, TextTypes, ClientOK, Reached
  <2>6. \A c \in Clients \ {k} : Idles(c)
    BY <1>1, <2>1 DEF TextInv, TextTypes, Idles
  <2> QED
    BY <2>4, <2>5, <2>6, Alone
<1>5. CASE ~(kind[k] = "scan" /\ Len(todo[k]) > 1)
  <2>1. /\ pc' = [pc EXCEPT ![k] = "idle"] /\ todo' = [todo EXCEPT ![k] = <<>>]
        /\ calm' = [calm EXCEPT ![k] = FALSE] /\ kind' = [kind EXCEPT ![k] = "none"]
    BY <1>5 DEF Leave
  <2>2. <<>> \in Seq(Projects)
    OBVIOUS
  <2>3. TextTypes'
    BY <1>1, <1>2, <2>1, <2>2 DEF TextInv, TextTypes, MdTypes
  <2>4. ClientOK(k)'
    BY <2>1 DEF TextInv, TextTypes, ClientOK, Reached
  <2>5. \A c \in Clients \ {k} : Idles(c)
    BY <1>1, <2>1 DEF TextInv, TextTypes, Idles
  <2> QED
    BY <2>3, <2>4, <2>5, Alone
<1> QED
  BY <1>4, <1>5

\* Steps before the files: nothing is claimed of them.
LEMMA BeforeText ==
  ASSUME TextInv, NEW k \in Clients, InstallDir(k) \/ InstallKit(k) \/ LookForBackups(k)
  PROVE  TextInv'
<1>1. PICK to \in {"kit", "import", "rmtree"} : pc[k] # "idle" /\ pc' = [pc EXCEPT ![k] = to]
  BY DEF InstallDir, InstallKit, LookForBackups, Goto
<1>2. UNCHANGED <<md, kind, todo, file, my, calm, edits>>
  BY DEF InstallDir, InstallKit, LookForBackups
<1>3. TextTypes'
  BY <1>1, <1>2 DEF TextInv, TextTypes, MdTypes
<1>4. ClientOK(k)'
  BY <1>1, <1>2 DEF TextInv, TextTypes, ClientOK, Reached
<1>5. \A c \in Clients \ {k} : Idles(c)
  BY <1>1, <1>2 DEF TextInv, TextTypes, Idles
<1> QED
  BY <1>3, <1>4, <1>5, Alone

LEMMA FirstFileText ==
  ASSUME TextInv, NEW k \in Clients, InstallImport(k) \/ RemoveDir(k)
  PROVE  TextInv'
<1>1. /\ pc[k] # "idle" /\ pc' = [pc EXCEPT ![k] = "read"] /\ file' = [file EXCEPT ![k] = 1]
      /\ UNCHANGED <<kind, todo, my, edits>>
  BY DEF InstallImport, RemoveDir, Goto
<1>2. At(k) \in Projects
  BY <1>1, AtWork
<1>3. /\ DOMAIN calm' = Clients /\ MdTypes'
      /\ \A c \in Clients : calm'[c] => calm[c] /\ (c = k \/ todo[c] = <<>> \/ md'[At(c)] = md[At(c)])
  <2>1. CASE UNCHANGED <<md, calm>>
    BY <2>1 DEF TextInv, TextTypes, MdTypes
  <2>2. CASE UNCHANGED md /\ Disturbs(At(k), k)
    BY <2>2, DisturbsIs DEF TextInv, TextTypes, MdTypes
  <2>3. CASE _write(At(k), "CLAUDE.md", [Blank EXCEPT !.import = TRUE]) /\ Disturbs(At(k), k)
    <3>1. [Blank EXCEPT !.import = TRUE] \in Text \ {Blank}
      <4>1. Blank \in Text /\ ~Blank.import
        BY FolderBounds DEF Blank, Text
      <4>2. [Blank EXCEPT !.import = TRUE] \in Text /\ [Blank EXCEPT !.import = TRUE].import
        BY <4>1 DEF Text
      <4> QED
        BY <4>1, <4>2
    <3>2. Put(At(k), "CLAUDE.md", [Blank EXCEPT !.import = TRUE])
      BY <1>2, <2>3, <3>1, Written DEF TextInv, TextTypes, Files
    <3>3. \A c \in Clients : todo[c] # <<>> => At(c) \in Projects
      BY DEF TextInv, TextTypes, At
    <3> QED
      BY <2>3, <3>2, <3>3, DisturbsIs DEF Put
  <2> QED
    BY <2>1, <2>2, <2>3 DEF InstallImport, RemoveDir
<1>4. TextTypes'
  BY <1>1, <1>3 DEF TextInv, TextTypes
<1>5. ClientOK(k)'
  BY <1>1 DEF TextInv, TextTypes, ClientOK, Reached
<1>6. \A c \in Clients \ {k} : Idles(c)
  BY <1>1, <1>3 DEF TextInv, TextTypes, Idles
<1> QED
  BY <1>4, <1>5, <1>6, Alone

LEMMA ReadText ==
  ASSUME TextInv, NEW k \in Clients, ReadFile(k)
  PROVE  TextInv'
<1>1. /\ pc[k] = "read" /\ pc' = [pc EXCEPT ![k] = "write"] /\ my' = [my EXCEPT ![k] = _read(At(k), Name(k))]
      /\ UNCHANGED <<md, kind, todo, file, calm, edits>>
  BY DEF ReadFile, Goto
<1>2. At(k) \in Projects /\ Name(k) \in Files /\ At(k)' = At(k) /\ Name(k)' = Name(k)
  BY <1>1, AtWork DEF At, Name
<1>3. _read(At(k), Name(k)) \in Text
  <2>1. Blank \in Text
    BY FolderBounds DEF Blank, Text
  <2> QED
    BY <1>2, <2>1 DEF _read, TextInv, TextTypes, MdTypes, FilesOK
<1>4. TextTypes'
  BY <1>1, <1>3 DEF TextInv, TextTypes, MdTypes
<1>5. pc'[k] = "write" /\ my'[k] = _read(At(k), Name(k)) /\ ClientOK(k)
  BY <1>1 DEF TextInv, TextTypes
<1>6. \A f : _read(At(k), f)' = _read(At(k), f)
  BY <1>1, <1>2 DEF _read
<1>7. ClientOK(k)'
  <2>1. calm'[k] => Reached(k)'
    BY <1>1, <1>2, <1>5, <1>6 DEF ClientOK, Reached
  <2> QED
    BY <1>1, <1>5, <2>1 DEF ClientOK
<1>8. \A c \in Clients \ {k} : Idles(c)
  BY <1>1 DEF TextInv, TextTypes, Idles
<1> QED
  BY <1>4, <1>7, <1>8, Alone

\* The write: of an undisturbed request it is made from the file as it is.
LEMMA WriteText ==
  ASSUME TextInv, NEW k \in Clients, WriteFile(k)
  PROVE  TextInv'
<1>1. /\ pc[k] = "write" /\ PutOrTake(k) /\ UNCHANGED <<kind, todo, my, edits>>
      /\ IF md' = md THEN UNCHANGED calm ELSE Disturbs(At(k), k)
      /\ IF file[k] < 2
         THEN file' = [file EXCEPT ![k] = @ + 1] /\ pc' = [pc EXCEPT ![k] = "read"]
         ELSE pc' = [pc EXCEPT ![k] = "done"] /\ UNCHANGED file
  BY FilesAre DEF WriteFile
<1>2. /\ At(k) \in Projects /\ Name(k) \in Files /\ At(k)' = At(k) /\ my[k] \in Text
      /\ ClientOK(k) /\ file[k] \in {1, 2} /\ todo[k] # <<>>
  BY <1>1, AtWork DEF At, TextInv, TextTypes, ClientOK
<1>3. \/ Put(At(k), Name(k), Made(k))
      \/ md' = md /\ my[k] = Made(k)
  BY <1>1, <1>2, PutOrTakeIs DEF TextInv, TextTypes
<1>4. \A c \in Clients : todo[c] # <<>> => At(c) \in Projects
  BY DEF TextInv, TextTypes, At
<1>5. /\ DOMAIN calm' = Clients /\ MdTypes'
      /\ \A c \in Clients : calm'[c] => calm[c] /\ (c = k \/ todo[c] = <<>> \/ md'[At(c)] = md[At(c)])
  <2>1. CASE md' = md
    BY <1>1, <2>1 DEF TextInv, TextTypes, MdTypes
  <2>2. CASE md' # md
    BY <1>1, <1>3, <1>4, <2>2, DisturbsIs DEF Put
  <2> QED
    BY <2>1, <2>2
<1>6. \/ file[k] = 1 /\ file' = [file EXCEPT ![k] = 2] /\ pc' = [pc EXCEPT ![k] = "read"]
      \/ file[k] = 2 /\ file' = file /\ pc' = [pc EXCEPT ![k] = "done"]
  BY <1>1, <1>2
<1>7. TextTypes'
  <2>1. file' \in [Clients -> Nat]
    <3>1. file \in [Clients -> Nat]
      BY DEF TextInv, TextTypes
    <3>2. file' = file \/ file' = [file EXCEPT ![k] = 2]
      BY <1>6
    <3> QED
      BY <3>1, <3>2
  <2>2. PICK to \in {"read", "done"} : pc' = [pc EXCEPT ![k] = to]
    BY <1>6
  <2>3. pc' \in [Clients -> {"idle", "dir", "kit", "import", "look", "rmtree", "read", "write", "done"}]
    BY <2>2 DEF TextInv, TextTypes
  <2> QED
    BY <1>1, <1>5, <2>1, <2>3 DEF TextInv, TextTypes
<1>8. \A c \in Clients \ {k} : Idles(c)
  BY <1>1, <1>5, <1>6 DEF TextInv, TextTypes, Idles
<1>9. ASSUME calm'[k]
      PROVE  /\ After(At(k), Name(k)) = Made(k)
             /\ \A g \in Files \ {Name(k)} : After(At(k), g) = _read(At(k), g)
             /\ Reached(k)
  <2>1. my[k] = _read(At(k), Name(k)) /\ Reached(k)
    BY <1>1, <1>2, <1>5, <1>9 DEF ClientOK, Reached
  <2>2. CASE Put(At(k), Name(k), Made(k))
    BY <2>1, <2>2 DEF Put
  <2>3. CASE md' = md /\ my[k] = Made(k)
    BY <2>1, <2>3 DEF _read, After
  <2> QED
    BY <1>3, <2>2, <2>3
<1>10. /\ _read(At(k), "CLAUDE.md")' = After(At(k), "CLAUDE.md")
       /\ _read(At(k), "AGENTS.md")' = After(At(k), "AGENTS.md")
  BY <1>2 DEF _read, After
<1>11. /\ ~User(my[k]).block /\ User(my[k]).import = my[k].import
       /\ User(my[k]).block \in BOOLEAN /\ my[k].import \in BOOLEAN
       /\ [my[k] EXCEPT !.block = TRUE].block = TRUE
       /\ [my[k] EXCEPT !.block = TRUE].import = my[k].import
  BY <1>2 DEF Text, User
<1>12. CASE file[k] = 1
  <2>1. file'[k] = 2 /\ pc'[k] = "read" /\ Name(k) = "CLAUDE.md" /\ kind'[k] = kind[k]
    BY <1>1, <1>6, <1>12, FilesAre DEF Name, TextInv, TextTypes
  <2>2. kind[k] = "uninstall" => ~Made(k).block
    BY <1>11 DEF Made
  <2>3. kind[k] # "uninstall" => Made(k).block # Made(k).import
    <3>1. CASE my[k].import
      <4>1. _imports_agents(k) /\ Made(k) = User(my[k])
        BY <1>12, <3>1 DEF _imports_agents, Made
      <4> QED
        BY <1>11, <3>1, <4>1
    <3>2. CASE ~my[k].import
      <4>1. ~_imports_agents(k)
        BY <3>2 DEF _imports_agents
      <4>2. kind[k] # "uninstall" => Made(k) = [my[k] EXCEPT !.block = TRUE]
        BY <4>1 DEF Made
      <4> QED
        BY <1>11, <3>2, <4>2
    <3> QED
      BY <3>1, <3>2
  <2>4. ASSUME calm'[k] PROVE Reached(k)'
    <3>1. _read(At(k), "CLAUDE.md")' = Made(k)
      BY <1>9, <1>10, <2>1, <2>4
    <3> QED
      BY <2>1, <2>2, <2>3, <3>1 DEF Reached
  <2>5. ClientOK(k)'
    BY <1>1, <1>2, <2>1, <2>4 DEF ClientOK
  <2> QED
    BY <1>7, <1>8, <2>5, Alone
<1>13. CASE file[k] = 2
  <2>1. file'[k] = 2 /\ pc'[k] = "done" /\ Name(k) = "AGENTS.md" /\ kind'[k] = kind[k]
    BY <1>1, <1>6, <1>13, FilesAre DEF Name, TextInv, TextTypes
  <2>2. kind[k] # "uninstall" <=> Made(k).block
    <3>1. ~_imports_agents(k)
      BY <1>13 DEF _imports_agents
    <3>2. Made(k) = IF kind[k] = "uninstall" THEN User(my[k]) ELSE [my[k] EXCEPT !.block = TRUE]
      BY <3>1 DEF Made
    <3> QED
      BY <1>11, <3>2
  <2>3. ASSUME calm'[k] PROVE Reached(k)'
    <3>1. _read(At(k), "AGENTS.md")' = Made(k) /\ _read(At(k), "CLAUDE.md")' = _read(At(k), "CLAUDE.md")
      BY <1>9, <1>10, <2>1, <2>3 DEF Files
    <3>2. IF kind[k] = "uninstall" THEN ~_read(At(k), "CLAUDE.md").block
          ELSE _read(At(k), "CLAUDE.md").block # _read(At(k), "CLAUDE.md").import
      BY <1>1, <1>9, <1>13, <2>3 DEF Reached
    <3> QED
      BY <2>1, <2>2, <3>1, <3>2 DEF Reached
  <2>4. ClientOK(k)'
    BY <1>1, <1>2, <2>1, <2>3 DEF ClientOK
  <2> QED
    BY <1>7, <1>8, <2>4, Alone
<1> QED
  BY <1>2, <1>12, <1>13

\* The user's texts are never empty, and disturb whoever is at the project.
LEMMA UserText ==
  ASSUME TextInv, NEW p \in Projects, NEW f \in Files, UserEdits(p, f)
  PROVE  TextInv'
<1>1. /\ edits < MaxEdits /\ edits' = edits + 1
      /\ UNCHANGED <<pc, kind, todo, file, my>>
      /\ calm' = [c \in Clients |-> calm[c] /\ (todo[c] = <<>> \/ At(c) # p)]
  BY DEF UserEdits
<1>2. DOMAIN calm' = Clients /\ \A c \in Clients : calm'[c] => calm[c] /\ (todo[c] = <<>> \/ At(c) # p)
  BY <1>1, Zenon
<1>3. PICK t : Put(p, f, t)
  <2>1. CASE Unlink(p, f)
    BY <2>1, Unlinked DEF TextInv, TextTypes
  <2>2. CASE \E b \in {FALSE, _read(p, f).block} : \E i \in {FALSE, f = "CLAUDE.md"} :
               _write(p, f, [own |-> edits + 2, import |-> i, block |-> b])
    <3>1. PICK b \in {FALSE, _read(p, f).block} : \E i \in {FALSE, f = "CLAUDE.md"} :
                 _write(p, f, [own |-> edits + 2, import |-> i, block |-> b])
      BY <2>2
    <3>2. PICK i \in {FALSE, f = "CLAUDE.md"} : _write(p, f, [own |-> edits + 2, import |-> i, block |-> b])
      BY <3>1
    <3>3. _read(p, f).block \in BOOLEAN
      BY DEF _read, TextInv, TextTypes, MdTypes, FilesOK, Text, Blank
    <3>4. b \in BOOLEAN /\ i \in BOOLEAN
      BY <3>3
    <3>5. edits + 2 \in 0..MaxEdits + 1 /\ edits + 2 # 0
      BY <1>1, FolderBounds DEF TextInv, TextTypes
    <3>6. [own |-> edits + 2, import |-> i, block |-> b] \in Text \ {Blank}
      BY <3>4, <3>5 DEF Text, Blank
    <3> QED
      BY <3>2, <3>6, Written DEF TextInv, TextTypes
  <2> QED
    BY <2>1, <2>2 DEF UserEdits
<1>4. \A c \in Clients : todo[c] # <<>> => At(c) \in Projects
  BY DEF TextInv, TextTypes, At
<1>5. \A c \in Clients : Idles(c)
  BY <1>1, <1>2, <1>3, <1>4 DEF Idles, Put
<1>6. edits' \in 0..MaxEdits
  BY <1>1, FolderBounds DEF TextInv, TextTypes
<1>7. TextTypes'
  BY <1>1, <1>2, <1>3, <1>6 DEF TextInv, TextTypes, Put
<1> QED
  BY <1>5, <1>7, IdlesHolds DEF TextInv

LEMMA TextStepHolds == TextInv /\ [FolderNext]_folderVars => TextInv'
<1> SUFFICES ASSUME TextInv, [FolderNext]_folderVars
             PROVE  TextInv'
  OBVIOUS
<1>1. CASE \E k \in Clients : trigger_scan(k)
  <2>1. PICK k \in Clients : trigger_scan(k)
    BY <1>1
  <2> DEFINE S == {p \in Projects : known[p] # "off"}
  <2>2. Request(k, "scan", "dir", SetToSeq(S)) /\ S # {} /\ S \in SUBSET Projects
    BY <2>1 DEF trigger_scan
  <2> HIDE DEF S
  <2>3. IsFiniteSet(S)
    BY <2>2, SelfAssumption, FS_Subset
  <2>4. SetToSeq(S) \in Seq(S) /\ SetToSeq(S) # <<>>
    BY <2>2, <2>3, InSomeOrder
  <2>5. SetToSeq(S) \in Seq(Projects)
    BY <2>2, <2>4
  <2> QED
    BY <2>2, <2>4, <2>5, RequestText
<1>2. CASE \E k \in Clients, p \in Projects : install_one(k, p) \/ uninstall_one(k, p)
  <2>1. PICK k \in Clients, p \in Projects : install_one(k, p) \/ uninstall_one(k, p)
    BY <1>2
  <2>2. <<p>> \in Seq(Projects) /\ <<p>> # <<>>
    OBVIOUS
  <2> QED
    BY <2>1, <2>2, RequestText DEF install_one, uninstall_one
<1>3. CASE \E k \in Clients : Step(k)
  <2>1. PICK k \in Clients : Step(k)
    BY <1>3
  <2>2. CASE Done(k) \/ SkipSelf(k) \/ InstallRaises(k) \/ Blocked(k)
    BY <2>2, LeaveText DEF Done, SkipSelf, InstallRaises, Blocked
  <2> QED
    BY <2>1, <2>2, BeforeText, FirstFileText, ReadText, WriteText DEF Step
<1>4. CASE \E p \in Projects, f \in ToSet(INSTRUCTION_FILES) : UserEdits(p, f)
  BY <1>4, UserText, FilesAre
<1>5. CASE \/ \E p \in Projects : remove_project(p) \/ ApplyBackup(p) \/ UserDropsBackup(p)
           \/ UNCHANGED folderVars
  <2>1. UNCHANGED <<md, pc, kind, todo, file, my, calm, edits>>
    BY <1>5 DEF remove_project, ApplyBackup, UserDropsBackup, folderVars
  <2>2. \A c \in Clients : Idles(c)
    BY <2>1 DEF Idles
  <2> QED
    BY <2>1, <2>2, IdlesHolds DEF TextInv, TextTypes, MdTypes
<1> QED
  BY <1>1, <1>2, <1>3, <1>4, <1>5 DEF FolderNext

LEMMA TextInit == FolderInit => TextInv
<1> SUFFICES ASSUME FolderInit PROVE TextInv
  OBVIOUS
<1> DEFINE T == {[Blank EXCEPT !.own = 1], [Blank EXCEPT !.import = TRUE]}
<1>1. T \subseteq Text \ {Blank}
  <2>1. Blank \in Text /\ Blank.own = 0 /\ Blank.import = FALSE /\ 1 \in 0..MaxEdits + 1
    BY FolderBounds DEF Text, Blank
  <2>2. [Blank EXCEPT !.own = 1] \in Text /\ [Blank EXCEPT !.own = 1].own = 1
    BY <2>1 DEF Text
  <2>3. [Blank EXCEPT !.import = TRUE] \in Text /\ [Blank EXCEPT !.import = TRUE].import = TRUE
    BY <2>1 DEF Text
  <2>4. [Blank EXCEPT !.own = 1] # Blank
    <3>1. \A t : t.own = 1 => t # Blank
      BY DEF Blank
    <3> QED
      BY <2>2, <3>1, Zenon
  <2>5. [Blank EXCEPT !.import = TRUE] # Blank
    <3>1. \A t \in Text : t = Blank => ~t.import
      BY DEF Text, Blank
    <3> QED
      BY <2>3, <3>1
  <2> QED
    BY <2>2, <2>3, <2>4, <2>5
<1>2. md \in [Projects -> UNION {[F -> T] : F \in SUBSET Files}]
  BY FilesAre DEF FolderInit
<1> HIDE DEF T
<1>3. MdTypes
  <2>1. ASSUME NEW p \in Projects PROVE FilesOK(md[p])
    <3>1. PICK F \in SUBSET Files : md[p] \in [F -> T]
      BY <1>2, <2>1
    <3> QED
      BY <1>1, <3>1 DEF FilesOK
  <2> QED
    BY <1>2, <2>1 DEF MdTypes
<1>4. TextTypes
  <2>1. Blank \in Text /\ 0 \in 0..MaxEdits
    BY FolderBounds DEF Blank, Text
  <2>2. <<>> \in Seq(Projects)
    OBVIOUS
  <2> QED
    BY <1>3, <2>1, <2>2 DEF FolderInit, Quiet, TextTypes
<1> QED
  BY <1>4 DEF FolderInit, Quiet, TextInv, ClientOK

LEMMA LoadedOnce == TextInv => BlockLoadedOnce
<1> SUFFICES ASSUME TextInv, NEW k \in Clients, pc[k] = "done", calm[k]
             PROVE  IF kind[k] = "uninstall"
                    THEN \A f \in Files : ~_read(At(k), f).block
                    ELSE Loaded(At(k)) = 1 /\ _read(At(k), "AGENTS.md").block
  BY FilesAre DEF BlockLoadedOnce
<1>1. file[k] = 2 /\ Reached(k)
  BY DEF TextInv, ClientOK
<1>2. /\ IF kind[k] = "uninstall" THEN ~_read(At(k), "CLAUDE.md").block
         ELSE _read(At(k), "CLAUDE.md").block # _read(At(k), "CLAUDE.md").import
      /\ kind[k] # "uninstall" <=> _read(At(k), "AGENTS.md").block
  BY <1>1 DEF Reached
<1>3. _read(At(k), "CLAUDE.md") \in Text
  <2>1. At(k) \in Projects /\ Blank \in Text
    BY AtWork, FolderBounds DEF Blank, Text
  <2> QED
    BY <2>1 DEF _read, TextInv, TextTypes, MdTypes, FilesOK
<1>4. _read(At(k), "CLAUDE.md").block \in BOOLEAN /\ _read(At(k), "CLAUDE.md").import \in BOOLEAN
  BY <1>3 DEF Text
<1> QED
  BY <1>2, <1>4 DEF Loaded, Files

\* What UserTextStands says of a step.
TextStep ==
  \A k \in Clients, p \in Projects, f \in ToSet(INSTRUCTION_FILES) :
    /\ pc[k] = "write" /\ pc'[k] # "write" /\ At(k) = p /\ Name(k) = f
    /\ _read(p, f) = my[k]
    => /\ User(_read(p, f)') = User(my[k])
       /\ f \in DOMAIN md'[p] => md'[p][f] # Blank

LEMMA TextsStand == TextInv /\ FolderNext => TextStep
<1> SUFFICES ASSUME TextInv, FolderNext, NEW k \in Clients, NEW p \in Projects, NEW f \in Files,
                    pc[k] = "write", pc'[k] # "write", At(k) = p, Name(k) = f, _read(p, f) = my[k]
             PROVE  /\ User(_read(p, f)') = User(my[k])
                    /\ f \in DOMAIN md'[p] => md'[p][f] # Blank
  BY FilesAre DEF TextStep
<1>1. WriteFile(k)
  <2>1. CASE \E c \in Clients : Step(c)
    <3>1. PICK c \in Clients : Step(c)
      BY <2>1
    <3>2. c = k
      <4>1. c # k => pc'[k] = pc[k]
        BY <3>1 DEF Step, Done, SkipSelf, InstallDir, InstallKit, InstallRaises, InstallImport, Blocked,
           LookForBackups, RemoveDir, ReadFile, WriteFile, Leave, Goto, TextInv, TextTypes
      <4> QED
        BY <4>1
    <3> QED
      BY <3>1, <3>2 DEF Step, Done, SkipSelf, InstallDir, InstallKit, InstallRaises, InstallImport, Blocked,
         LookForBackups, RemoveDir, ReadFile, Goto
  <2>2. CASE \E c \in Clients : trigger_scan(c) \/ \E q \in Projects : install_one(c, q) \/ uninstall_one(c, q)
    BY <2>2 DEF trigger_scan, install_one, uninstall_one, Request, TextInv, TextTypes
  <2> QED
    BY <2>1, <2>2 DEF FolderNext, remove_project, ApplyBackup, UserDropsBackup, UserEdits
<1>2. my[k] \in Text /\ PutOrTake(k)
  BY <1>1 DEF WriteFile, TextInv, TextTypes
<1>3. MdTypes' /\ _read(p, f)' = Made(k)
  <2>1. CASE Put(p, f, Made(k))
    BY <2>1 DEF Put, After, _read
  <2>2. CASE md' = md /\ my[k] = Made(k)
    BY <2>2 DEF _read, TextInv, TextTypes, MdTypes
  <2> QED
    BY <1>2, <2>1, <2>2, PutOrTakeIs DEF TextInv, TextTypes
<1>4. User(Made(k)) = User(my[k])
  BY <1>2, TextIs DEF Made
<1>5. f \in DOMAIN md'[p] => md'[p][f] # Blank
  BY <1>3 DEF MdTypes, FilesOK
<1> QED
  BY <1>3, <1>4, <1>5

\* An installation nobody interfered with leaves the block where Claude loads it
\* once, and an uninstallation leaves it nowhere, from whatever the user had.
THEOREM BlockLoadedOnceAlways == FolderSpec => []BlockLoadedOnce
BY LoadedOnce, TextInit, TextStepHolds, PTL DEF FolderSpec

\* A request gives a file back with the user's text as it read it, and leaves
\* none behind that is empty.
THEOREM UserTextStandsAlways == FolderSpec => UserTextStands
<1>1. TextInv /\ [FolderNext]_folderVars => [TextStep]_folderVars
  BY TextsStand
<1> QED
  BY <1>1, TextInit, TextStepHolds, PTL DEF FolderSpec, UserTextStands, TextStep

-----------------------------------------------------------------------------
(* The researchers too (Spec): the guard.                                  *)

USE DEF folderVars, labVars, Folder

\* Of two who research the same researcher, the later one passed the check of
\* _RUNNING before the earlier one was in it.
OneEach ==
  \A a, b \in Actors :
    Researching(a) /\ Researching(b) /\ Rid(a) = Rid(b) /\ Rid(a) \notin raced => a = b

IInv ==
  /\ at \in [Actors -> {"idle", "check", "add", "ask", "store", "insert", "read", "write", "mark", "finally"}]
  /\ left \in [Actors -> Seq(Researchers)] /\ \A a \in Actors : at[a] # "idle" => left[a] # <<>>
  /\ GuardAgrees /\ OneEach

\* A caller moves between places where it researches.
Within(a) ==
  \E to \in {"ask", "store", "insert", "read", "write", "mark", "finally"} :
    /\ Researching(a) /\ at' = [at EXCEPT ![a] = to] /\ UNCHANGED <<_RUNNING, left, raced>>

\* A caller moves between places where it does not.
Outside(a) ==
  /\ ~Researching(a) /\ UNCHANGED <<_RUNNING, raced>>
  /\ \E to \in {"idle", "check", "add"}, s \in Seq(Researchers) :
       /\ at' = [at EXCEPT ![a] = to] /\ left' = [left EXCEPT ![a] = s]
       /\ to # "idle" => s # <<>>

LEMMA WithinHolds ==
  ASSUME IInv, NEW a \in Actors, Within(a)
  PROVE  IInv'
<1>1. PICK to \in {"ask", "store", "insert", "read", "write", "mark", "finally"} :
        Researching(a) /\ at' = [at EXCEPT ![a] = to] /\ UNCHANGED <<_RUNNING, left, raced>>
  BY DEF Within
<1>2. /\ at' \in [Actors -> {"idle", "check", "add", "ask", "store", "insert", "read", "write", "mark", "finally"}]
      /\ \A b \in Actors : at'[b] # "idle" => left'[b] # <<>>
  BY <1>1 DEF IInv, Researching
<1>3. \A b \in Actors : (Researching(b)' <=> Researching(b)) /\ Rid(b)' = Rid(b)
  BY <1>1 DEF IInv, Researching, Rid
<1>4. GuardAgrees' /\ OneEach'
  BY <1>1, <1>3 DEF IInv, GuardAgrees, OneEach
<1> QED
  BY <1>1, <1>2, <1>4 DEF IInv

LEMMA OutsideHolds ==
  ASSUME IInv, NEW a \in Actors, Outside(a)
  PROVE  IInv'
<1>1. PICK to \in {"idle", "check", "add"}, s \in Seq(Researchers) :
        /\ at' = [at EXCEPT ![a] = to] /\ left' = [left EXCEPT ![a] = s]
        /\ ~Researching(a) /\ UNCHANGED <<_RUNNING, raced>> /\ (to # "idle" => s # <<>>)
  BY DEF Outside
<1>2. /\ at' \in [Actors -> {"idle", "check", "add", "ask", "store", "insert", "read", "write", "mark", "finally"}]
      /\ left' \in [Actors -> Seq(Researchers)]
      /\ \A b \in Actors : at'[b] # "idle" => left'[b] # <<>>
  BY <1>1 DEF IInv
<1>3. /\ ~Researching(a)'
      /\ \A b \in Actors \ {a} : (Researching(b)' <=> Researching(b)) /\ Rid(b)' = Rid(b)
  BY <1>1 DEF IInv, Researching, Rid
<1>4. GuardAgrees' /\ OneEach'
  BY <1>1, <1>3 DEF IInv, GuardAgrees, OneEach
<1> QED
  BY <1>2, <1>4 DEF IInv

\* _RUNNING.add, of one who researches from now on.
LEMMA AddHolds ==
  ASSUME IInv, NEW a \in Actors, Add(a)
  PROVE  IInv'
<1>1. /\ at[a] = "add" /\ at' = [at EXCEPT ![a] = "ask"] /\ _RUNNING' = _RUNNING \cup {Rid(a)}
      /\ raced' = (IF Rid(a) \in _RUNNING THEN raced \cup {Rid(a)} ELSE raced) /\ left' = left
  BY DEF Add, Moves
<1>2. /\ at' \in [Actors -> {"idle", "check", "add", "ask", "store", "insert", "read", "write", "mark", "finally"}]
      /\ left' \in [Actors -> Seq(Researchers)]
      /\ \A b \in Actors : at'[b] # "idle" => left'[b] # <<>>
  BY <1>1 DEF IInv
<1>3. /\ Researching(a)' /\ ~Researching(a) /\ \A b \in Actors : Rid(b)' = Rid(b)
      /\ \A b \in Actors \ {a} : Researching(b)' <=> Researching(b)
  BY <1>1 DEF IInv, Researching, Rid
<1>4. GuardAgrees'
  BY <1>1, <1>3 DEF IInv, GuardAgrees
<1>5. \A b \in Actors : Researching(b) /\ Rid(b) = Rid(a) /\ Rid(a) \notin raced' => FALSE
  <2> SUFFICES ASSUME NEW b \in Actors, Researching(b), Rid(b) = Rid(a), Rid(a) \notin raced'
               PROVE  FALSE
    OBVIOUS
  <2>1. Rid(a) \notin raced /\ Rid(a) \notin _RUNNING
    BY <1>1
  <2>2. Rid(a) \in Researchers
    <3>1. left[a] \in Seq(Researchers) /\ left[a] # <<>>
      BY <1>1 DEF IInv
    <3> QED
      BY <3>1 DEF Rid
  <2> QED
    BY <2>1, <2>2 DEF IInv, GuardAgrees
<1>6. OneEach'
  BY <1>1, <1>3, <1>5 DEF IInv, OneEach
<1> QED
  BY <1>2, <1>4, <1>6 DEF IInv

\* _RUNNING.discard in the finally.
LEMMA FinallyHolds ==
  ASSUME IInv, NEW a \in Actors, Finally(a)
  PROVE  IInv'
<1>1. /\ at[a] = "finally" /\ _RUNNING' = _RUNNING \ {Rid(a)} /\ raced' = raced
      /\ left' = [left EXCEPT ![a] = Tail(@)]
      /\ at' = [at EXCEPT ![a] = IF Len(left[a]) = 1 THEN "idle" ELSE "check"]
  BY DEF Finally, Returns
<1>2. left[a] \in Seq(Researchers) /\ left[a] # <<>>
  BY <1>1 DEF IInv
<1>3. Tail(left[a]) \in Seq(Researchers) /\ (Len(left[a]) # 1 => Tail(left[a]) # <<>>)
  BY <1>2, TailOf
<1>4. /\ at' \in [Actors -> {"idle", "check", "add", "ask", "store", "insert", "read", "write", "mark", "finally"}]
      /\ left' \in [Actors -> Seq(Researchers)]
      /\ \A b \in Actors : at'[b] # "idle" => left'[b] # <<>>
  BY <1>1, <1>3 DEF IInv
<1>5. /\ ~Researching(a)' /\ Researching(a)
      /\ \A b \in Actors \ {a} : (Researching(b)' <=> Researching(b)) /\ Rid(b)' = Rid(b)
  BY <1>1 DEF IInv, Researching, Rid
<1>6. GuardAgrees' /\ OneEach'
  BY <1>1, <1>5 DEF IInv, GuardAgrees, OneEach
<1> QED
  BY <1>4, <1>6 DEF IInv

LEMMA StopHolds == IInv /\ Stop => IInv'
<1> SUFFICES ASSUME IInv, Stop
             PROVE  IInv'
  OBVIOUS
<1>1. /\ _RUNNING' = {} /\ at' = [a \in Actors |-> "idle"] /\ left' = [a \in Actors |-> <<>>]
      /\ raced' = raced
  BY DEF Stop
<1>2. \A a \in Actors : ~Researching(a)'
  BY <1>1 DEF Researching
<1>3. /\ at' \in [Actors -> {"idle", "check", "add", "ask", "store", "insert", "read", "write", "mark", "finally"}]
      /\ left' \in [Actors -> Seq(Researchers)]
      /\ \A b \in Actors : at'[b] # "idle" => left'[b] # <<>>
  BY <1>1
<1>4. GuardAgrees' /\ OneEach'
  BY <1>1, <1>2 DEF GuardAgrees, OneEach
<1> QED
  BY <1>3, <1>4 DEF IInv

LEMMA ResearchHolds ==
  ASSUME IInv, NEW a \in Actors, Research(a)
  PROVE  IInv'
<1>1. CASE Refused(a)
  <2>1. left[a] \in Seq(Researchers) /\ left[a] # <<>>
    BY <1>1 DEF Refused, IInv
  <2>2. Tail(left[a]) \in Seq(Researchers) /\ (Len(left[a]) # 1 => Tail(left[a]) # <<>>)
    BY <2>1, TailOf
  <2>3. Outside(a)
    BY <1>1, <2>2 DEF Refused, Returns, Outside, Researching
  <2> QED
    BY <2>3, OutsideHolds
<1>2. CASE Check(a)
  <2>1. left[a] \in Seq(Researchers) /\ left[a] # <<>> /\ left' = [left EXCEPT ![a] = left[a]]
    BY <1>2 DEF Check, Moves, IInv
  <2>2. Outside(a)
    BY <1>2, <2>1 DEF Check, Moves, Outside, Researching
  <2> QED
    BY <2>2, OutsideHolds
<1>3. CASE Add(a)
  BY <1>3, AddHolds
<1>4. CASE Finally(a)
  BY <1>4, FinallyHolds
<1>5. CASE \/ Answers(a) \/ AskFails(a) \/ Duplicate(a) \/ LooksNew(a) \/ add_proposal(a)
           \/ ReadProposals(a) \/ _prepend_proposal(a) \/ WriteRaises(a) \/ mark_written(a) \/ Stored(a)
  <2>1. Within(a)
    <3>1. Duplicate(a) => at' = [at EXCEPT ![a] = "store"] /\ at[a] = "store"
      BY DEF Duplicate, IInv
    <3>2. CASE Duplicate(a)
      BY <3>1, <3>2 DEF Duplicate, Within, Researching
    <3>3. CASE AskFails(a)
      BY <3>3 DEF AskFails, Moves, Within, Researching
    <3>4. CASE add_proposal(a)
      <4>1. PICK to \in {"read", "store"} : at[a] = "insert" /\ at' = [at EXCEPT ![a] = to]
        BY <3>4 DEF add_proposal
      <4> QED
        BY <3>4, <4>1 DEF add_proposal, Within, Researching
    <3>5. CASE \/ Answers(a) \/ LooksNew(a) \/ ReadProposals(a) \/ _prepend_proposal(a)
               \/ WriteRaises(a) \/ mark_written(a) \/ Stored(a)
      BY <3>5 DEF Answers, LooksNew, ReadProposals, _prepend_proposal, WriteRaises, mark_written, Stored,
         Moves, Within, Researching
    <3> QED
      BY <1>5, <3>2, <3>3, <3>4, <3>5
  <2> QED
    BY <2>1, WithinHolds
<1> QED
  BY <1>1, <1>2, <1>3, <1>4, <1>5 DEF Research

LEMMA LabStepHolds == IInv /\ [Next]_vars => IInv'
<1> SUFFICES ASSUME IInv, [Next]_vars
             PROVE  IInv'
  OBVIOUS
<1>1. CASE _run_lab_job
  <2>1. Outside(Weekly) /\ Weekly \in Actors
    BY <1>1, ResearchersAssumption DEF _run_lab_job, Moves, Outside, Researching, Actors
  <2> QED
    BY <2>1, OutsideHolds
<1>2. CASE \E r \in Researchers : run_lab(r)
  <2>1. PICK r \in Researchers : run_lab(r)
    BY <1>2
  <2>2. PICK s \in Seq(Researchers) : s # <<>> /\ left' = [left EXCEPT ![r] = s]
    <3>1. <<r>> \in Seq(Researchers) /\ <<r>> # <<>>
      OBVIOUS
    <3> QED
      BY <2>1, <3>1 DEF run_lab
  <2>3. Outside(r) /\ r \in Actors
    BY <2>1, <2>2 DEF run_lab, Moves, Outside, Researching, Actors
  <2> QED
    BY <2>3, OutsideHolds
<1>3. CASE Stop
  BY <1>3, StopHolds
<1>4. CASE \E a \in Actors : Research(a)
  BY <1>4, ResearchHolds
<1>5. CASE Install \/ UNCHANGED vars
  <2>1. UNCHANGED <<at, left, _RUNNING, raced>>
    BY <1>5 DEF Install, vars
  <2> QED
    BY <2>1 DEF IInv, GuardAgrees, OneEach, Researching, Rid
<1> QED
  BY <1>1, <1>2, <1>3, <1>4, <1>5 DEF Next

-----------------------------------------------------------------------------
\* The guard _RUNNING is kept as long as somebody researches and given back
\* whatever fails, unless two have passed its check together.
THEOREM GuardAgreesAlways == Spec => []GuardAgrees
<1>1. Init => IInv
  BY DEF Init, IInv, GuardAgrees, OneEach, Researching
<1>2. IInv => GuardAgrees
  BY DEF IInv
<1> QED
  BY <1>1, <1>2, LabStepHolds, PTL DEF Spec

-----------------------------------------------------------------------------
(* The rows of the proposals.                                              *)

Prop == [title : Titles, to : Projects \cup {All}]
RowT == [rid : Researchers, title : Titles, to : Projects \cup {All}, written : BOOLEAN]

RowTypes ==
  /\ rows \in Seq(RowT) /\ answer \in [Actors -> Seq(Prop)]
  /\ by_name \in [Actors -> SUBSET Projects]

\* What is about to be inserted is still new, for one who researches alone.
InsertsNew ==
  \A a \in Actors :
    at[a] = "insert" =>
      answer[a] # <<>> /\ (Rid(a) \in raced \/ ~Proposed(Rid(a), Head(answer[a]).title))

RInv == IInv /\ RowTypes /\ InsertsNew /\ ProposedOnce

\* A step that leaves the rows' researchers and titles, and what others are
\* about to insert.
LEMMA RowsKept ==
  ASSUME InsertsNew, ProposedOnce, raced \subseteq raced',
         DOMAIN rows' = DOMAIN rows,
         \A i \in DOMAIN rows : rows'[i].rid = rows[i].rid /\ rows'[i].title = rows[i].title,
         \A b \in Actors : at'[b] = "insert" =>
           at[b] = "insert" /\ answer'[b] = answer[b] /\ left'[b] = left[b]
  PROVE  InsertsNew' /\ ProposedOnce'
<1>1. \A r, t : Proposed(r, t)' <=> Proposed(r, t)
  BY DEF Proposed
<1>2. ProposedOnce'
  BY DEF ProposedOnce
<1>3. InsertsNew'
  BY <1>1 DEF InsertsNew, Rid
<1> QED
  BY <1>2, <1>3

\* The row is inserted: whoever else inserts for the same researcher has
\* passed the guard together with this one.
LEMMA AddProposalHolds ==
  ASSUME RInv, NEW a \in Actors, add_proposal(a)
  PROVE  RowTypes' /\ InsertsNew' /\ ProposedOnce'
<1> DEFINE new == Head(answer[a])
           row == [rid |-> Rid(a), title |-> new.title, to |-> new.to, written |-> FALSE]
<1>1. /\ at[a] = "insert" /\ rows' = Append(rows, row) /\ answer' = [answer EXCEPT ![a] = Tail(@)]
      /\ at' = [at EXCEPT ![a] = IF new.to # All /\ dir[new.to] THEN "read" ELSE "store"]
      /\ UNCHANGED <<left, by_name, raced>>
  BY DEF add_proposal
<1>2. answer[a] \in Seq(Prop) /\ answer[a] # <<>> /\ left[a] \in Seq(Researchers) /\ left[a] # <<>>
  BY <1>1 DEF RInv, IInv, RowTypes, InsertsNew
<1>3. new \in Prop /\ Tail(answer[a]) \in Seq(Prop)
  BY <1>2
<1>4. Rid(a) \in Researchers
  BY <1>2 DEF Rid
<1>5. row \in RowT /\ row.rid = Rid(a) /\ row.title = new.title
  BY <1>3, <1>4 DEF RowT, Prop
<1> HIDE DEF row
<1>6. rows \in Seq(RowT)
  BY DEF RInv, RowTypes
<1>7. /\ rows' \in Seq(RowT) /\ DOMAIN rows' = 1..(Len(rows) + 1) /\ DOMAIN rows = 1..Len(rows)
      /\ rows'[Len(rows) + 1] = row /\ \A i \in DOMAIN rows : rows'[i] = rows[i]
      /\ Len(rows) \in Nat
  BY <1>1, <1>5, <1>6
<1>8. RowTypes'
  BY <1>1, <1>3, <1>7 DEF RInv, RowTypes
<1>9. \A i \in DOMAIN rows' : i \in DOMAIN rows \/ i = Len(rows) + 1
  BY <1>7
<1>10. \A r, t : Proposed(r, t)' => Proposed(r, t) \/ (r = Rid(a) /\ t = new.title)
  BY <1>5, <1>7, <1>9 DEF Proposed
<1>11. Rid(a) \notin raced => ~Proposed(Rid(a), new.title)
  BY <1>1 DEF RInv, InsertsNew
<1>12. ProposedOnce'
  <2> SUFFICES ASSUME NEW i \in DOMAIN rows', NEW j \in DOMAIN rows', i # j,
                      rows'[i].rid = rows'[j].rid, rows'[i].title = rows'[j].title
               PROVE  rows'[i].rid \in raced
    BY <1>1 DEF ProposedOnce
  <2>1. CASE i \in DOMAIN rows /\ j \in DOMAIN rows
    BY <1>7, <2>1 DEF RInv, ProposedOnce
  <2>2. CASE i = Len(rows) + 1 /\ j \in DOMAIN rows
    BY <1>5, <1>7, <1>11, <2>2 DEF Proposed
  <2>3. CASE j = Len(rows) + 1 /\ i \in DOMAIN rows
    BY <1>5, <1>7, <1>11, <2>3 DEF Proposed
  <2> QED
    BY <1>9, <2>1, <2>2, <2>3
<1>13. InsertsNew'
  <2> SUFFICES ASSUME NEW b \in Actors, at'[b] = "insert"
               PROVE  /\ answer'[b] # <<>>
                      /\ Rid(b)' \in raced \/ ~Proposed(Rid(b), Head(answer[b]).title)'
    BY <1>1 DEF InsertsNew
  <2>1. b # a /\ at[b] = "insert" /\ answer'[b] = answer[b] /\ Rid(b)' = Rid(b)
    BY <1>1 DEF RInv, IInv, RowTypes, Rid
  <2>2. Rid(b) # Rid(a) \/ Rid(b) \in raced
    BY <1>1, <2>1 DEF RInv, IInv, OneEach, Researching
  <2> QED
    BY <1>10, <2>1, <2>2 DEF RInv, InsertsNew
<1> QED
  BY <1>8, <1>12, <1>13

\* A step that leaves the proposals alone.
LEMMA AnswersKept ==
  ASSUME RInv, raced \subseteq raced', UNCHANGED <<rows, answer>>,
         by_name' \in [Actors -> SUBSET Projects],
         \A b \in Actors : at'[b] = "insert" => at[b] = "insert" /\ left'[b] = left[b]
  PROVE  RowTypes' /\ InsertsNew' /\ ProposedOnce'
<1>1. RowTypes'
  BY DEF RInv, RowTypes
<1>2. InsertsNew' /\ ProposedOnce'
  BY RowsKept DEF RInv
<1> QED
  BY <1>1, <1>2

LEMMA RowsStep ==
  ASSUME RInv, NEW a \in Actors, Research(a)
  PROVE  RowTypes' /\ InsertsNew' /\ ProposedOnce'
<1> USE DEF RInv, IInv
<1>1. CASE add_proposal(a)
  BY <1>1, AddProposalHolds
<1>2. CASE Check(a) \/ ReadProposals(a) \/ _prepend_proposal(a) \/ WriteRaises(a) \/ Stored(a)
  <2>1. PICK to \in {"add", "write", "mark", "store", "finally"} :
          at' = [at EXCEPT ![a] = to] /\ UNCHANGED <<rows, answer, by_name, left, raced>>
    BY <1>2 DEF Check, ReadProposals, _prepend_proposal, WriteRaises, Stored, Moves
  <2> QED
    BY <2>1, AnswersKept DEF RowTypes
<1>3. CASE Add(a)
  <2>1. /\ at' = [at EXCEPT ![a] = "ask"] /\ UNCHANGED <<rows, answer, left>> /\ raced \subseteq raced'
        /\ by_name' = [by_name EXCEPT ![a] = {p \in Projects \ Self : known[p] = "on"}]
    BY <1>3 DEF Add, Moves
  <2>2. by_name' \in [Actors -> SUBSET Projects]
    BY <2>1 DEF RowTypes
  <2> QED
    BY <2>1, <2>2, AnswersKept
<1>4. CASE Answers(a)
  <2>1. PICK prop \in Proposals(a) : answer' = [answer EXCEPT ![a] = <<prop>>]
    BY <1>4 DEF Answers
  <2>2. at' = [at EXCEPT ![a] = "store"] /\ UNCHANGED <<rows, by_name, left, raced>>
    BY <1>4 DEF Answers, Moves
  <2>3. prop \in Prop /\ <<prop>> \in Seq(Prop)
    BY DEF Proposals, Prop, RowTypes
  <2>4. RowTypes'
    BY <2>1, <2>2, <2>3 DEF RowTypes
  <2>5. InsertsNew' /\ ProposedOnce'
    BY <2>1, <2>2, RowsKept DEF RowTypes
  <2> QED
    BY <2>4, <2>5
<1>5. CASE AskFails(a)
  <2>1. PICK to \in {"store", "finally"} :
          at' = [at EXCEPT ![a] = to] /\ UNCHANGED <<rows, answer, by_name, left, raced>>
    BY <1>5 DEF AskFails, Moves
  <2> QED
    BY <2>1, AnswersKept DEF RowTypes
<1>6. CASE Duplicate(a)
  <2>1. /\ at[a] = "store" /\ answer[a] # <<>> /\ answer' = [answer EXCEPT ![a] = Tail(@)]
        /\ UNCHANGED <<at, rows, by_name, left, raced>>
    BY <1>6 DEF Duplicate
  <2>2. Tail(answer[a]) \in Seq(Prop)
    BY <2>1, TailOf DEF RowTypes
  <2>3. RowTypes'
    BY <2>1, <2>2 DEF RowTypes
  <2>4. InsertsNew' /\ ProposedOnce'
    BY <2>1, RowsKept DEF RowTypes
  <2> QED
    BY <2>3, <2>4
<1>7. CASE LooksNew(a)
  <2>1. /\ at' = [at EXCEPT ![a] = "insert"] /\ UNCHANGED <<rows, answer, by_name, left, raced>>
        /\ answer[a] # <<>> /\ ~Proposed(Rid(a), Head(answer[a]).title)
    BY <1>7 DEF LooksNew, Moves
  <2>2. RowTypes' /\ ProposedOnce'
    BY <2>1 DEF RowTypes, ProposedOnce
  <2>3. InsertsNew'
    BY <2>1 DEF InsertsNew, Proposed, Rid
  <2> QED
    BY <2>2, <2>3
<1>8. CASE mark_written(a)
  <2>1. /\ at' = [at EXCEPT ![a] = "store"] /\ rows' = [rows EXCEPT ![cur[a]].written = TRUE]
        /\ UNCHANGED <<answer, by_name, left, raced>>
    BY <1>8 DEF mark_written, Moves
  <2>2. /\ rows' \in Seq(RowT) /\ DOMAIN rows' = DOMAIN rows
        /\ \A i \in DOMAIN rows : rows'[i].rid = rows[i].rid /\ rows'[i].title = rows[i].title
    <3> DEFINE row == [rows[cur[a]] EXCEPT !.written = TRUE]
    <3>1. rows \in Seq(RowT) /\ rows' = [rows EXCEPT ![cur[a]] = row]
      BY <2>1 DEF RowTypes
    <3>2. cur[a] \in DOMAIN rows => rows[cur[a]] \in RowT
      BY <3>1
    <3>3. cur[a] \in DOMAIN rows =>
            row \in RowT /\ row.rid = rows[cur[a]].rid /\ row.title = rows[cur[a]].title
      BY <3>2 DEF RowT
    <3> HIDE DEF row
    <3>4. /\ DOMAIN rows' = DOMAIN rows /\ \A i \in DOMAIN rows : i # cur[a] => rows'[i] = rows[i]
          /\ cur[a] \in DOMAIN rows => rows'[cur[a]] = row
      BY <3>1
    <3>5. rows' \in Seq(RowT)
      <4>1. CASE cur[a] \in DOMAIN rows
        BY <3>1, <3>3, <4>1
      <4>2. CASE cur[a] \notin DOMAIN rows
        <5>1. DOMAIN rows = 1..Len(rows)
          BY <3>1
        <5>2. rows' = rows
          BY <3>1, <4>2, <5>1
        <5> QED
          BY <3>1, <5>2
      <4> QED
        BY <4>1, <4>2
    <3> QED
      BY <3>3, <3>4, <3>5
  <2>3. RowTypes'
    BY <2>1, <2>2 DEF RowTypes
  <2>4. InsertsNew' /\ ProposedOnce'
    BY <2>1, <2>2, RowsKept
  <2> QED
    BY <2>3, <2>4
<1>9. CASE Refused(a) \/ Finally(a)
  <2>1. PICK to \in {"idle", "check"} : at' = [at EXCEPT ![a] = to]
    BY <1>9 DEF Refused, Finally, Returns
  <2>2. /\ left' = [left EXCEPT ![a] = Tail(@)] /\ answer' = [answer EXCEPT ![a] = <<>>]
        /\ by_name' = [by_name EXCEPT ![a] = {}] /\ UNCHANGED <<rows, raced>>
    BY <1>9 DEF Refused, Finally, Returns, Forget
  <2>3. RowTypes'
    BY <2>2 DEF RowTypes
  <2>4. InsertsNew' /\ ProposedOnce'
    BY <2>1, <2>2, RowsKept DEF RowTypes
  <2> QED
    BY <2>3, <2>4
<1> QED
  BY <1>1, <1>2, <1>3, <1>4, <1>5, <1>6, <1>7, <1>8, <1>9 DEF Research

LEMMA RStepHolds == RInv /\ [Next]_vars => RInv'
<1> SUFFICES ASSUME RInv, [Next]_vars
             PROVE  RInv'
  OBVIOUS
<1>1. IInv'
  BY LabStepHolds DEF RInv
<1>2. RowTypes' /\ InsertsNew' /\ ProposedOnce'
  <2>1. CASE _run_lab_job
    <3>1. at' = [at EXCEPT ![Weekly] = "check"] /\ left' = [left EXCEPT ![Weekly] = RESEARCHERS]
          /\ UNCHANGED <<rows, answer, by_name, raced>> /\ at[Weekly] = "idle"
      BY <2>1 DEF _run_lab_job, Moves
    <3> QED
      BY <3>1, AnswersKept DEF RInv, IInv, RowTypes
  <2>2. CASE \E r \in Researchers : run_lab(r)
    <3>1. PICK r \in Researchers : run_lab(r)
      BY <2>2
    <3>2. at' = [at EXCEPT ![r] = "check"] /\ left' = [left EXCEPT ![r] = <<r>>]
          /\ UNCHANGED <<rows, answer, by_name, raced>> /\ at[r] = "idle"
      BY <3>1 DEF run_lab, Moves
    <3> QED
      BY <3>2, AnswersKept DEF RInv, IInv, RowTypes
  <2>3. CASE Stop
    <3>1. /\ UNCHANGED <<rows, raced>> /\ at' = [b \in Actors |-> "idle"]
          /\ answer' = [b \in Actors |-> <<>>] /\ by_name' = [b \in Actors |-> {}]
      BY <2>3 DEF Stop
    <3>2. RowTypes'
      BY <3>1 DEF RInv, RowTypes
    <3>3. InsertsNew' /\ ProposedOnce'
      BY <3>1 DEF RInv, InsertsNew, ProposedOnce
    <3> QED
      BY <3>2, <3>3
  <2>4. CASE \E b \in Actors : Research(b)
    BY <2>4, RowsStep
  <2>5. CASE Install \/ UNCHANGED vars
    <3>1. UNCHANGED <<at, left, answer, rows, by_name, raced>>
      BY <2>5 DEF Install, vars
    <3> QED
      BY <3>1, AnswersKept DEF RInv, RowTypes
  <2> QED
    BY <2>1, <2>2, <2>3, <2>4, <2>5 DEF Next
<1> QED
  BY <1>1, <1>2 DEF RInv

\* A researcher proposes a title once, unless two have passed the check of
\* _RUNNING together.
THEOREM ProposedOnceAlways == Spec => []ProposedOnce
<1>1. Init => RInv
  BY DEF Init, RInv, IInv, GuardAgrees, OneEach, Researching, RowTypes, InsertsNew, ProposedOnce
<1>2. RInv => ProposedOnce
  BY DEF RInv
<1> QED
  BY <1>1, <1>2, RStepHolds, PTL DEF Spec

-----------------------------------------------------------------------------
(* The rows and the files.                                                  *)

\* The proposal of row i is in its project's file, or was removed from it.
InFile(i) ==
  rows[i].to \in Projects /\ (i \in gone \/ i \in ToSet(proposals[rows[i].to]))

FileTypes ==
  /\ cur \in [Actors -> Nat] /\ copy \in [Actors -> Seq(Nat)]
  /\ proposals \in [Projects -> Seq(Nat)]

\* Whoever is about to mark a row has put it into the file.
FileInv ==
  /\ \A a \in Actors : at[a] \in {"read", "write", "mark"} => cur[a] \in DOMAIN rows /\ Target(a) \in Projects
  /\ \A a \in Actors : at[a] = "mark" => InFile(cur[a])
  /\ \A i \in DOMAIN rows : rows[i].written => InFile(i)

WInv == RInv /\ FileTypes /\ FileInv

LEMMA Prepended ==
  ASSUME NEW s \in Seq(Nat), NEW x \in Nat
  PROVE  <<x>> \o s \in Seq(Nat) /\ ToSet(<<x>> \o s) = {x} \cup ToSet(s)
<1> DEFINE t == <<x>> \o s
<1>1. t \in Seq(Nat) /\ Len(t) = Len(s) + 1 /\ t[1] = x /\ Len(s) \in Nat
      /\ DOMAIN t = 1..Len(t) /\ DOMAIN s = 1..Len(s)
  OBVIOUS
<1>2. \A i \in 1..Len(s) : t[i + 1] = s[i]
  OBVIOUS
<1> HIDE DEF t
<1>3. ASSUME NEW y \in ToSet(t) PROVE y \in {x} \cup ToSet(s)
  <2>1. PICK i \in DOMAIN t : y = t[i]
    BY <1>3 DEF ToSet
  <2>2. CASE i = 1
    BY <1>1, <2>1, <2>2
  <2>3. CASE i # 1
    <3>1. i - 1 \in 1..Len(s) /\ (i - 1) + 1 = i
      BY <1>1, <2>3
    <3>2. t[i] = s[i - 1]
      BY <1>2, <3>1
    <3> QED
      BY <1>1, <2>1, <3>1, <3>2 DEF ToSet
  <2> QED
    BY <2>2, <2>3
<1>4. ASSUME NEW y \in {x} \cup ToSet(s) PROVE y \in ToSet(t)
  <2>1. CASE y = x
    <3>1. 1 \in DOMAIN t
      BY <1>1
    <3> QED
      BY <1>1, <2>1, <3>1 DEF ToSet
  <2>2. CASE y \in ToSet(s)
    <3>1. PICK i \in 1..Len(s) : y = s[i]
      BY <1>1, <2>2 DEF ToSet
    <3>2. i + 1 \in DOMAIN t /\ y = t[i + 1]
      BY <1>1, <1>2, <3>1
    <3> QED
      BY <3>2 DEF ToSet
  <2> QED
    BY <1>4, <2>1, <2>2
<1>5. ToSet(t) = {x} \cup ToSet(s)
  BY <1>3, <1>4
<1> QED
  BY <1>1, <1>5 DEF t

\* Rows stay what they were, and what leaves a file is noted.
LEMMA InFileKept ==
  ASSUME NEW i \in DOMAIN rows, InFile(i), rows'[i].to = rows[i].to, gone \subseteq gone',
         \A p \in Projects : ToSet(proposals[p]) \subseteq ToSet(proposals'[p]) \cup gone'
  PROVE  InFile(i)'
BY DEF InFile

LEMMA FileKept ==
  ASSUME FileInv, gone \subseteq gone',
         \A p \in Projects : ToSet(proposals[p]) \subseteq ToSet(proposals'[p]) \cup gone',
         \A i \in DOMAIN rows : i \in DOMAIN rows' /\ rows'[i].to = rows[i].to,
         \A i \in DOMAIN rows' : rows'[i].written => (i \in DOMAIN rows /\ rows[i].written) \/ InFile(i)',
         \A b \in Actors : at'[b] \in {"read", "write", "mark"} =>
           \/ cur'[b] = cur[b] /\ at[b] \in {"read", "write", "mark"} /\ (at'[b] = "mark" => at[b] = "mark")
           \/ cur'[b] \in DOMAIN rows' /\ Target(b)' \in Projects /\ (at'[b] = "mark" => InFile(cur[b])')
  PROVE  FileInv'
<1>1. \A i \in DOMAIN rows : InFile(i) => InFile(i)'
  BY InFileKept
<1>2. \A i \in DOMAIN rows' : rows'[i].written => InFile(i)'
  BY <1>1 DEF FileInv
<1>3. ASSUME NEW b \in Actors, at'[b] \in {"read", "write", "mark"}
      PROVE  /\ cur'[b] \in DOMAIN rows' /\ Target(b)' \in Projects
             /\ at'[b] = "mark" => InFile(cur[b])'
  <2>1. CASE /\ cur'[b] = cur[b] /\ at[b] \in {"read", "write", "mark"}
             /\ at'[b] = "mark" => at[b] = "mark"
    <3>1. cur[b] \in DOMAIN rows /\ Target(b) \in Projects /\ (at[b] = "mark" => InFile(cur[b]))
      BY <2>1 DEF FileInv
    <3>2. at[b] = "mark" => InFile(cur[b])'
      <4>1. ASSUME NEW i \in DOMAIN rows, i = cur[b], InFile(i) PROVE InFile(cur[b])'
        <5>1. InFile(i)'
          BY <1>1, <4>1
        <5> QED
          BY <2>1, <4>1, <5>1 DEF InFile
      <4> QED
        BY <3>1, <4>1
    <3> QED
      BY <2>1, <3>1, <3>2 DEF Target
  <2>2. CASE /\ cur'[b] \in DOMAIN rows' /\ Target(b)' \in Projects
             /\ at'[b] = "mark" => InFile(cur[b])'
    BY <2>2
  <2> QED
    BY <1>3, <2>1, <2>2
<1> QED
  BY <1>2, <1>3 DEF FileInv

\* Steps of research that touch neither a file nor a row.
LEMMA PlainStep ==
  ASSUME WInv, NEW a \in Actors,
         NEW to \in {"idle", "check", "add", "ask", "store", "insert", "finally"},
         at' = [at EXCEPT ![a] = to], UNCHANGED <<rows, gone, proposals>>,
         cur' = cur \/ cur' = [cur EXCEPT ![a] = 0],
         copy' = copy \/ copy' = [copy EXCEPT ![a] = <<>>]
  PROVE  FileTypes' /\ FileInv'
<1>1. FileTypes'
  <2>1. cur' \in [Actors -> Nat]
    <3>1. cur \in [Actors -> Nat]
      BY DEF WInv, FileTypes
    <3>2. CASE cur' = [cur EXCEPT ![a] = 0]
      BY <3>1, <3>2
    <3> QED
      BY <3>1, <3>2
  <2>2. copy' \in [Actors -> Seq(Nat)]
    <3>1. <<>> \in Seq(Nat) /\ copy \in [Actors -> Seq(Nat)]
      BY DEF WInv, FileTypes
    <3> QED
      BY <3>1
  <2> QED
    BY <2>1, <2>2 DEF WInv, FileTypes
<1>2. \A b \in Actors : at'[b] \in {"read", "write", "mark"} => b # a /\ at'[b] = at[b] /\ cur'[b] = cur[b]
  <2>1. at'[a] = to /\ \A b \in Actors \ {a} : at'[b] = at[b]
    BY DEF WInv, RInv, IInv
  <2>2. \A b \in Actors \ {a} : cur'[b] = cur[b]
    BY DEF WInv, FileTypes
  <2> QED
    BY <2>1, <2>2
<1>3. FileInv'
  BY <1>2, FileKept DEF WInv
<1> QED
  BY <1>1, <1>3

\* A new row, not written yet, that is perhaps to be.
LEMMA AddProposalFile ==
  ASSUME WInv, NEW a \in Actors, add_proposal(a)
  PROVE  FileTypes' /\ FileInv'
<1> DEFINE new == Head(answer[a])
           row == [rid |-> Rid(a), title |-> new.title, to |-> new.to, written |-> FALSE]
<1>1. /\ at[a] = "insert" /\ rows' = Append(rows, row) /\ cur' = [cur EXCEPT ![a] = Len(rows')]
      /\ at' = [at EXCEPT ![a] = IF new.to # All /\ dir[new.to] THEN "read" ELSE "store"]
      /\ UNCHANGED <<copy, gone, proposals>>
  BY DEF add_proposal
<1>2. answer[a] \in Seq(Prop) /\ answer[a] # <<>> /\ left[a] \in Seq(Researchers) /\ left[a] # <<>>
  BY <1>1 DEF WInv, RInv, IInv, RowTypes, InsertsNew
<1>3. new \in Prop /\ Rid(a) \in Researchers
  BY <1>2 DEF Rid
<1>4. row \in RowT /\ row.to = new.to /\ ~row.written /\ new.to \in Projects \cup {All}
  BY <1>3 DEF RowT, Prop
<1>5. rows \in Seq(RowT)
  BY DEF WInv, RInv, RowTypes
<1> HIDE DEF row, new
<1>6. /\ rows' \in Seq(RowT) /\ DOMAIN rows' = 1..(Len(rows) + 1) /\ DOMAIN rows = 1..Len(rows)
      /\ rows'[Len(rows) + 1] = row /\ \A i \in DOMAIN rows : rows'[i] = rows[i]
      /\ Len(rows) \in Nat /\ Len(rows') = Len(rows) + 1
  BY <1>1, <1>4, <1>5
<1>7. \A b \in Actors \ {a} : at'[b] = at[b] /\ cur'[b] = cur[b]
  <2>1. \A b \in Actors \ {a} : at'[b] = at[b]
    BY <1>1 DEF WInv, RInv, IInv
  <2>2. \A b \in Actors \ {a} : cur'[b] = cur[b]
    BY <1>1 DEF WInv, FileTypes
  <2> QED
    BY <2>1, <2>2
<1>8. /\ cur'[a] = Len(rows) + 1 /\ at'[a] \in {"read", "store"}
      /\ at'[a] = "read" => new.to \in Projects
  BY <1>1, <1>4, <1>6 DEF WInv, RInv, IInv, FileTypes
<1>9. FileTypes'
  <2>1. cur' \in [Actors -> Nat]
    BY <1>1, <1>6 DEF WInv, FileTypes
  <2> QED
    BY <1>1, <2>1 DEF WInv, FileTypes
<1>10. \A i \in DOMAIN rows' : rows'[i].written => i \in DOMAIN rows /\ rows[i].written
  BY <1>4, <1>6
<1>11. at'[a] = "read" => cur'[a] \in DOMAIN rows' /\ Target(a)' \in Projects
  BY <1>4, <1>6, <1>8 DEF Target
<1>12. \A b \in Actors : at'[b] \in {"read", "write", "mark"} =>
           \/ cur'[b] = cur[b] /\ at[b] \in {"read", "write", "mark"} /\ (at'[b] = "mark" => at[b] = "mark")
           \/ cur'[b] \in DOMAIN rows' /\ Target(b)' \in Projects /\ (at'[b] = "mark" => InFile(cur[b])')
  BY <1>7, <1>8, <1>11
<1>13. \A i \in DOMAIN rows : i \in DOMAIN rows' /\ rows'[i].to = rows[i].to
  BY <1>6
<1>14. FileInv'
  BY <1>1, <1>10, <1>12, <1>13, FileKept DEF WInv
<1> QED
  BY <1>9, <1>14

LEMMA ReadFileHolds ==
  ASSUME WInv, NEW a \in Actors, ReadProposals(a)
  PROVE  FileTypes' /\ FileInv'
<1>1. /\ at[a] = "read" /\ at' = [at EXCEPT ![a] = "write"] /\ copy' = [copy EXCEPT ![a] = proposals[Target(a)]]
      /\ UNCHANGED <<rows, cur, gone, proposals>>
  BY DEF ReadProposals, Moves
<1>2. Target(a) \in Projects
  BY <1>1 DEF WInv, FileInv
<1>3. FileTypes'
  BY <1>1, <1>2 DEF WInv, FileTypes
<1>4. \A b \in Actors : at'[b] \in {"read", "write", "mark"} =>
        at[b] \in {"read", "write", "mark"} /\ (at'[b] = "mark" => at[b] = "mark")
  BY <1>1 DEF WInv, RInv, IInv
<1>5. FileInv'
  BY <1>1, <1>4, FileKept DEF WInv
<1> QED
  BY <1>3, <1>5

\* The file is written back with the proposal on top: it is in it, and what was
\* not in the copy is noted as gone.
LEMMA PrependHolds ==
  ASSUME WInv, NEW a \in Actors, _prepend_proposal(a)
  PROVE  FileTypes' /\ FileInv'
<1> DEFINE p == Target(a)
           text == <<cur[a]>> \o copy[a]
<1>1. /\ at[a] = "write" /\ at' = [at EXCEPT ![a] = "mark"] /\ proposals' = [proposals EXCEPT ![p] = text]
      /\ gone' = gone \cup (ToSet(proposals[p]) \ ToSet(copy[a])) /\ copy' = [copy EXCEPT ![a] = <<>>]
      /\ UNCHANGED <<rows, cur>>
  BY DEF _prepend_proposal, Moves
<1>2. cur[a] \in DOMAIN rows /\ p \in Projects /\ cur[a] \in Nat /\ copy[a] \in Seq(Nat)
  BY <1>1 DEF WInv, FileInv, FileTypes
<1>3. text \in Seq(Nat) /\ ToSet(text) = {cur[a]} \cup ToSet(copy[a])
  BY <1>2, Prepended
<1> HIDE DEF text
<1>4. FileTypes'
  <2>1. proposals' \in [Projects -> Seq(Nat)]
    BY <1>1, <1>3 DEF WInv, FileTypes
  <2>2. copy' \in [Actors -> Seq(Nat)]
    BY <1>1 DEF WInv, FileTypes
  <2> QED
    BY <1>1, <2>1, <2>2 DEF WInv, FileTypes
<1>5. \A q \in Projects : ToSet(proposals[q]) \subseteq ToSet(proposals'[q]) \cup gone'
  <2>1. proposals'[p] = text /\ \A q \in Projects \ {p} : proposals'[q] = proposals[q]
    BY <1>1, <1>2 DEF WInv, FileTypes
  <2> QED
    BY <1>1, <1>3, <2>1
<1>6. InFile(cur[a])'
  <2>1. proposals'[p] = text /\ cur'[a] = cur[a] /\ rows'[cur'[a]].to = p
    BY <1>1, <1>2 DEF WInv, FileTypes, Target
  <2> QED
    BY <1>2, <1>3, <2>1 DEF InFile
<1>7. \A b \in Actors \ {a} : at'[b] = at[b]
  BY <1>1 DEF WInv, RInv, IInv
<1>8. cur'[a] \in DOMAIN rows' /\ Target(a)' \in Projects
  BY <1>1, <1>2 DEF Target
<1>9. \A b \in Actors : at'[b] \in {"read", "write", "mark"} =>
        \/ cur'[b] = cur[b] /\ at[b] \in {"read", "write", "mark"} /\ (at'[b] = "mark" => at[b] = "mark")
        \/ cur'[b] \in DOMAIN rows' /\ Target(b)' \in Projects /\ (at'[b] = "mark" => InFile(cur[b])')
  BY <1>1, <1>6, <1>7, <1>8
<1>10. FileInv'
  BY <1>1, <1>5, <1>9, FileKept DEF WInv
<1> QED
  BY <1>4, <1>10

LEMMA MarkHolds ==
  ASSUME WInv, NEW a \in Actors, mark_written(a)
  PROVE  FileTypes' /\ FileInv'
<1>1. /\ at[a] = "mark" /\ at' = [at EXCEPT ![a] = "store"] /\ rows' = [rows EXCEPT ![cur[a]].written = TRUE]
      /\ UNCHANGED <<cur, copy, gone, proposals>>
  BY DEF mark_written, Moves
<1>2. cur[a] \in DOMAIN rows /\ InFile(cur[a]) /\ rows \in Seq(RowT)
  BY <1>1 DEF WInv, FileInv, RInv, RowTypes
<1>3. /\ DOMAIN rows' = DOMAIN rows /\ \A i \in DOMAIN rows : rows'[i].to = rows[i].to
      /\ \A i \in DOMAIN rows : rows'[i].written => i = cur[a] \/ rows[i].written
  <2> DEFINE row == [rows[cur[a]] EXCEPT !.written = TRUE]
  <2>1. rows' = [rows EXCEPT ![cur[a]] = row]
    BY <1>1
  <2>2. rows[cur[a]] \in RowT
    BY <1>2
  <2>3. row.to = rows[cur[a]].to
    BY <2>2 DEF RowT
  <2> HIDE DEF row
  <2>4. DOMAIN rows' = DOMAIN rows /\ \A i \in DOMAIN rows : rows'[i] = IF i = cur[a] THEN row ELSE rows[i]
    BY <1>2, <2>1
  <2> QED
    BY <2>3, <2>4
<1>4. InFile(cur[a])'
  BY <1>1, <1>2, <1>3 DEF InFile
<1>5. \A i \in DOMAIN rows' : rows'[i].written => (i \in DOMAIN rows /\ rows[i].written) \/ InFile(i)'
  <2>1. ASSUME NEW i \in DOMAIN rows', i = cur[a] PROVE InFile(i)'
    BY <1>1, <1>4, <2>1 DEF InFile
  <2> QED
    BY <1>3, <2>1
<1>6. \A b \in Actors : at'[b] \in {"read", "write", "mark"} => b # a /\ at'[b] = at[b]
  BY <1>1 DEF WInv, RInv, IInv
<1>7. FileInv'
  BY <1>1, <1>3, <1>5, <1>6, FileKept DEF WInv
<1>8. FileTypes'
  BY <1>1 DEF WInv, FileTypes
<1> QED
  BY <1>7, <1>8

LEMMA FileStep ==
  ASSUME WInv, NEW a \in Actors, Research(a)
  PROVE  FileTypes' /\ FileInv'
<1>1. CASE add_proposal(a)
  BY <1>1, AddProposalFile
<1>2. CASE ReadProposals(a)
  BY <1>2, ReadFileHolds
<1>3. CASE _prepend_proposal(a)
  BY <1>3, PrependHolds
<1>4. CASE mark_written(a)
  BY <1>4, MarkHolds
<1>5. CASE Refused(a) \/ Finally(a)
  <2>1. PICK to \in {"idle", "check"} : at' = [at EXCEPT ![a] = to]
    BY <1>5 DEF Refused, Finally, Returns
  <2>2. /\ UNCHANGED <<rows, gone, proposals>>
        /\ cur' = [cur EXCEPT ![a] = 0] /\ copy' = [copy EXCEPT ![a] = <<>>]
    BY <1>5 DEF Refused, Finally, Returns, Forget
  <2> QED
    BY <2>1, <2>2, PlainStep
<1>6. CASE Check(a) \/ Add(a) \/ Answers(a) \/ AskFails(a) \/ LooksNew(a) \/ Stored(a)
  <2>1. PICK to \in {"add", "ask", "store", "insert", "finally"} : at' = [at EXCEPT ![a] = to]
    BY <1>6 DEF Check, Add, Answers, AskFails, LooksNew, Stored, Moves
  <2>2. UNCHANGED <<rows, gone, proposals, cur, copy>>
    BY <1>6 DEF Check, Add, Answers, AskFails, LooksNew, Stored
  <2> QED
    BY <2>1, <2>2, PlainStep
<1>7. CASE Duplicate(a)
  <2>1. at' = [at EXCEPT ![a] = "store"] /\ UNCHANGED <<rows, gone, proposals, cur, copy>>
    BY <1>7 DEF Duplicate, WInv, RInv, IInv
  <2> QED
    BY <2>1, PlainStep
<1>8. CASE WriteRaises(a)
  <2>1. /\ at' = [at EXCEPT ![a] = "store"] /\ UNCHANGED <<rows, gone, proposals, cur>>
        /\ copy' = [copy EXCEPT ![a] = <<>>]
    BY <1>8 DEF WriteRaises, Moves
  <2> QED
    BY <2>1, PlainStep
<1> QED
  BY <1>1, <1>2, <1>3, <1>4, <1>5, <1>6, <1>7, <1>8 DEF Research

\* A step of the projects' directories notes what goes with one.
\* A step of the folder leaves the proposals, or removes a directory.
LEMMA ProposalsOrDir ==
  ASSUME FolderNext
  PROVE  proposals' = proposals \/ \E k \in Clients : RemoveDir(k)
<1> SUFFICES ASSUME ~\E k \in Clients : RemoveDir(k) PROVE proposals' = proposals
  OBVIOUS
<1>1. \A k \in Clients : Step(k) => proposals' = proposals
  BY DEF Step, Done, SkipSelf, InstallDir, InstallKit, InstallRaises, InstallImport, Blocked,
     LookForBackups, ReadFile, WriteFile, Leave
<1> QED
  BY <1>1 DEF FolderNext, trigger_scan, install_one, uninstall_one, Request,
     remove_project, UserDropsBackup, UserEdits, ApplyBackup

LEMMA FolderKeepsProposals ==
  ASSUME WInv, FolderNext
  PROVE  \A p \in Projects : proposals'[p] = proposals[p] \/ proposals'[p] = <<>>
<1>1. DOMAIN proposals = Projects
  BY DEF WInv, FileTypes
<1>2. CASE \E k \in Clients : RemoveDir(k)
  BY <1>1, <1>2 DEF RemoveDir
<1> QED
  BY <1>2, ProposalsOrDir

LEMMA InstallFile ==
  ASSUME WInv, Install
  PROVE  FileTypes' /\ FileInv'
<1>1. /\ UNCHANGED <<rows, at, cur, copy>>
      /\ gone' = gone \cup UNION {ToSet(proposals[p]) \ ToSet(proposals'[p]) : p \in Projects}
      /\ FolderNext
  BY DEF Install
<1>2. \A p \in Projects : ToSet(proposals[p]) \subseteq ToSet(proposals'[p]) \cup gone'
  BY <1>1
<1>3. proposals' \in [Projects -> Seq(Nat)]
  <2>1. proposals \in [Projects -> Seq(Nat)]
    BY DEF WInv, FileTypes
  <2>2. CASE \E k \in Clients : RemoveDir(k)
    <3>1. PICK k \in Clients : proposals' = [proposals EXCEPT ![At(k)] = <<>>]
      BY <2>2 DEF RemoveDir
    <3>2. <<>> \in Seq(Nat)
      OBVIOUS
    <3> QED
      BY <2>1, <3>1, <3>2
  <2>3. CASE proposals' = proposals
    BY <2>1, <2>3
  <2> QED
    BY <1>1, <2>2, <2>3, ProposalsOrDir
<1>4. FileInv'
  BY <1>1, <1>2, FileKept DEF WInv
<1> QED
  BY <1>1, <1>3, <1>4 DEF WInv, FileTypes

LEMMA WStepHolds == WInv /\ [Next]_vars => WInv'
<1> SUFFICES ASSUME WInv, [Next]_vars
             PROVE  WInv'
  OBVIOUS
<1>1. RInv'
  BY RStepHolds DEF WInv
<1>2. FileTypes' /\ FileInv'
  <2>1. CASE _run_lab_job
    <3>1. at' = [at EXCEPT ![Weekly] = "check"] /\ UNCHANGED <<rows, gone, proposals, cur, copy>> /\ Weekly \in Actors
      BY <2>1 DEF _run_lab_job, Moves, Actors
    <3> QED
      BY <3>1, PlainStep
  <2>2. CASE \E r \in Researchers : run_lab(r)
    <3>1. PICK r \in Researchers : run_lab(r)
      BY <2>2
    <3>2. at' = [at EXCEPT ![r] = "check"] /\ UNCHANGED <<rows, gone, proposals, cur, copy>> /\ r \in Actors
      BY <3>1 DEF run_lab, Moves, Actors
    <3> QED
      BY <3>2, PlainStep
  <2>3. CASE Stop
    <3>1. /\ UNCHANGED <<rows, gone, proposals>> /\ at' = [b \in Actors |-> "idle"]
          /\ cur' = [b \in Actors |-> 0] /\ copy' = [b \in Actors |-> <<>>]
      BY <2>3 DEF Stop
    <3>2. FileTypes'
      BY <3>1 DEF WInv, FileTypes
    <3>3. FileInv'
      BY <3>1, FileKept DEF WInv
    <3> QED
      BY <3>2, <3>3
  <2>4. CASE \E b \in Actors : Research(b)
    BY <2>4, FileStep
  <2>5. CASE Install
    BY <2>5, InstallFile
  <2>6. CASE UNCHANGED vars
    <3>1. UNCHANGED <<rows, gone, proposals, at, cur, copy>>
      BY <2>6 DEF vars
    <3> QED
      BY <3>1, FileKept DEF WInv, FileTypes
  <2> QED
    BY <2>1, <2>2, <2>3, <2>4, <2>5, <2>6 DEF Next
<1> QED
  BY <1>1, <1>2 DEF WInv

LEMMA WInvInitially == Init => WInv
<1>1. Init => RInv
  BY DEF Init, RInv, IInv, GuardAgrees, OneEach, Researching, RowTypes, InsertsNew, ProposedOnce
<1>2. Init => FileTypes /\ FileInv
  BY DEF Init, Quiet, FileTypes, FileInv
<1> QED
  BY <1>1, <1>2 DEF WInv

\* A row says "written" only if its proposal reached its project's file, where
\* it is still, unless the directory was removed or another researcher wrote
\* back the file as it had been before.
THEOREM WrittenIsInFileAlways == Spec => []WrittenIsInFile
<1>1. WInv => WrittenIsInFile
  BY DEF WInv, FileInv, InFile, WrittenIsInFile
<1> QED
  BY <1>1, WInvInitially, WStepHolds, PTL DEF Spec

-----------------------------------------------------------------------------
(* The folder among the researchers: the same promises, over stops too.    *)

\* Beside a step of the folder a step of Spec leaves all that a request is
\* made of, or is a stop, which ends every request.
Aside ==
  /\ UNCHANGED <<known, installed, dir, backup, md, counts>>
  /\ \/ UNCHANGED <<pc, kind, todo, file, my, calm, late>>
     \/ /\ pc' = [k \in Clients |-> "idle"] /\ kind' = [k \in Clients |-> "none"]
        /\ todo' = [k \in Clients |-> <<>>]
        /\ file' = [k \in Clients |-> 0] /\ my' = [k \in Clients |-> Blank]
        /\ calm' = [k \in Clients |-> FALSE] /\ late' = [k \in Clients |-> FALSE]

LEMMA EitherStep == [Next]_vars => FolderNext \/ Aside
<1> SUFFICES ASSUME [Next]_vars PROVE FolderNext \/ Aside
  OBVIOUS
<1>1. CASE \E a \in Actors : Research(a)
  <2>1. PICK a \in Actors : Research(a)
    BY <1>1
  <2>2. CASE Folder
    BY <2>2 DEF Aside
  <2>3. CASE ~Folder
    BY <2>1, <2>3 DEF Research, Refused, Check, Add, Answers, AskFails, Duplicate, LooksNew,
       add_proposal, ReadProposals, _prepend_proposal, WriteRaises, mark_written, Stored, Finally, Aside
  <2> QED
    BY <2>2, <2>3
<1>2. CASE _run_lab_job \/ \E r \in Researchers : run_lab(r)
  BY <1>2 DEF _run_lab_job, run_lab, Aside
<1>3. CASE Stop
  BY <1>3 DEF Stop, Aside
<1>4. CASE UNCHANGED vars
  BY <1>4 DEF vars, Aside
<1> QED
  BY <1>1, <1>2, <1>3, <1>4 DEF Next, Install

LEMMA AsideHolds ==
  ASSUME FolderInv, TextInv, Aside
  PROVE  FolderInv' /\ TextInv' /\ BackupsStep /\ TextStep
<1>1. FolderInv'
  BY DEF Aside, FolderInv, LateIsKnown, At
<1>2. BackupsStep
  BY DEF Aside, BackupsStep
<1>3. CASE UNCHANGED <<pc, kind, todo, file, my, calm, late>>
  <2>1. TextTypes' /\ \A c \in Clients : Idles(c)
    BY <1>3 DEF Aside, TextInv, TextTypes, MdTypes, Idles
  <2>2. TextStep
    BY <1>3 DEF TextStep
  <2> QED
    BY <1>1, <1>2, <2>1, <2>2, IdlesHolds DEF TextInv
<1>4. CASE ~UNCHANGED <<pc, kind, todo, file, my, calm, late>>
  <2>1. /\ pc' = [k \in Clients |-> "idle"] /\ kind' = [k \in Clients |-> "none"]
        /\ todo' = [k \in Clients |-> <<>>]
        /\ file' = [k \in Clients |-> 0] /\ my' = [k \in Clients |-> Blank]
        /\ DOMAIN calm' = Clients /\ (\A k \in Clients : calm'[k] = FALSE) /\ UNCHANGED <<md, edits>>
    BY <1>4, Zenon DEF Aside
  <2>2. Blank \in Text /\ <<>> \in Seq(Projects)
    BY FolderBounds DEF Blank, Text
  <2>3. TextTypes'
    BY <2>1, <2>2 DEF TextInv, TextTypes, MdTypes
  <2>4. \A k \in Clients : ClientOK(k)'
    BY <2>1 DEF ClientOK
  <2>5. TextStep
    <3> SUFFICES ASSUME NEW p \in Projects, NEW f, NEW k \in Clients, _read(p, f) = my[k]
                 PROVE  /\ User(_read(p, f)') = User(my[k])
                        /\ f \in DOMAIN md'[p] => md'[p][f] # Blank
      BY DEF TextStep
    <3>1. _read(p, f)' = _read(p, f)
      BY <2>1 DEF _read
    <3> QED
      BY <2>1, <3>1 DEF TextInv, TextTypes, MdTypes, FilesOK
  <2> QED
    BY <1>1, <1>2, <2>3, <2>4, <2>5 DEF TextInv
<1> QED
  BY <1>3, <1>4

LEMMA FolderInitHolds == Init => FolderInv /\ TextInv
<1> SUFFICES ASSUME Init PROVE FolderInv /\ TextInv
  OBVIOUS
<1>1. FolderInv
  BY DEF Init, Quiet, FolderInv, LateIsKnown
<1>2. MdTypes
  <2> DEFINE b == [Blank EXCEPT !.block = TRUE]
  <2>1. Blank \in Text
    BY FolderBounds DEF Blank, Text
  <2>2. b \in Text \ {Blank}
    BY <2>1, TextIs
  <2>3. md = [p \in Projects |-> IF p \in Self THEN <<>> ELSE [f \in Files |-> b]]
    BY FilesAre DEF Init
  <2> HIDE DEF b
  <2>4. DOMAIN <<>> = {}
    OBVIOUS
  <2>5. \A p \in Projects : FilesOK(md[p])
    BY <2>2, <2>3, <2>4 DEF FilesOK
  <2> QED
    BY <2>3, <2>5 DEF MdTypes
<1>3. TextTypes
  <2>1. Blank \in Text /\ <<>> \in Seq(Projects) /\ 0 \in 0..MaxEdits
    BY FolderBounds DEF Blank, Text
  <2> QED
    BY <1>2, <2>1 DEF Init, Quiet, TextTypes
<1> QED
  BY <1>1, <1>3 DEF Init, Quiet, TextInv, ClientOK

\* Researchers who write into the same directories, and stops in the middle of
\* any request, take nothing from what the folder promises.
THEOREM FolderStandsWithLab ==
  Spec => []BlockLoadedOnce /\ UserTextStands /\ BackupsStand
<1> DEFINE Both == FolderInv /\ TextInv
<1>1. Both /\ [Next]_vars => Both' /\ [BackupsStep]_folderVars /\ [TextStep]_folderVars
  BY EitherStep, AsideHolds, FolderStepHolds, TextStepHolds, BackupsStepHolds, TextsStand
<1>2. Init => Both
  BY FolderInitHolds
<1>3. Both => BlockLoadedOnce
  BY LoadedOnce
<1> HIDE DEF Both
<1> QED
  BY <1>1, <1>2, <1>3, PTL DEF Spec, BackupsStand, BackupsStep, UserTextStands, TextStep

-----------------------------------------------------------------------------
(* The types.  What the files of a project name are rows of the table.     *)

FolderTypes ==
  /\ known \in [Projects -> {"no", "on", "off"}]
  /\ installed \in [Projects -> BOOLEAN] /\ dir \in [Projects -> BOOLEAN]
  /\ backup \in [Projects -> BOOLEAN]
  /\ kind \in [Clients -> {"none", "scan", "install", "uninstall"}]
  /\ file \in [Clients -> 0..2]
  /\ calm \in [Clients -> BOOLEAN] /\ late \in [Clients -> BOOLEAN]
  /\ requests \in 0..MaxRequests /\ applies \in 0..MaxApplies

LEMMA DiscoverType ==
  ASSUME FolderTypes, discover_projects
  PROVE  known' \in [Projects -> {"no", "on", "off"}] /\ installed' \in [Projects -> BOOLEAN]
<1>1. known' \in [Projects -> {"no", "on", "off"}]
  BY DEF FolderTypes, discover_projects
<1>2. installed' \in [Projects -> BOOLEAN]
  BY Zenon DEF FolderTypes, discover_projects
<1> QED
  BY <1>1, <1>2

LEMMA DisturbsType ==
  ASSUME NEW p, NEW k, Disturbs(p, k) PROVE calm' \in [Clients -> BOOLEAN]
BY Zenon DEF Disturbs

LEMMA RequestType ==
  ASSUME FolderTypes, NEW k \in Clients, NEW what \in {"scan", "install", "uninstall"},
         NEW first, NEW ps, Request(k, what, first, ps),
         UNCHANGED <<known, installed>> \/ discover_projects
  PROVE  FolderTypes'
<1>1. requests' \in 0..MaxRequests
  BY FolderBounds DEF Request, FolderTypes
<1>2. known' \in [Projects -> {"no", "on", "off"}] /\ installed' \in [Projects -> BOOLEAN]
  BY DiscoverType DEF FolderTypes
<1>3. /\ kind' = [kind EXCEPT ![k] = what] /\ calm' = [calm EXCEPT ![k] = TRUE]
      /\ late' = [late EXCEPT ![k] = FALSE] /\ UNCHANGED <<dir, backup, file, applies>>
  BY DEF Request
<1> QED
  BY <1>1, <1>2, <1>3 DEF FolderTypes

LEMMA LeaveType ==
  ASSUME FolderTypes, NEW k \in Clients, NEW ok, Leave(k, ok)
  PROVE  FolderTypes'
<1>1. known' \in [Projects -> {"no", "on", "off"}] /\ installed' \in [Projects -> BOOLEAN]
  <2>1. CASE ok /\ kind[k] # "scan"
    BY <2>1, DiscoverType DEF Leave
  <2>2. CASE ~(ok /\ kind[k] # "scan")
    BY <2>2 DEF Leave, FolderTypes
  <2> QED
    BY <2>1, <2>2
<1>2. PICK b \in BOOLEAN : calm' = [calm EXCEPT ![k] = b]
  BY DEF Leave
<1>3. kind' = kind \/ kind' = [kind EXCEPT ![k] = "none"]
  BY DEF Leave
<1>4. file' = [file EXCEPT ![k] = 0] /\ UNCHANGED <<dir, backup, late, requests, applies>>
  BY DEF Leave
<1> QED
  BY <1>1, <1>2, <1>3, <1>4 DEF FolderTypes

LEMMA FolderTypesHold == FolderTypes /\ [FolderNext]_folderVars => FolderTypes'
<1> SUFFICES ASSUME FolderTypes, [FolderNext]_folderVars PROVE FolderTypes'
  OBVIOUS
<1>1. ASSUME NEW k \in Clients,
             trigger_scan(k) \/ \E p \in Projects : install_one(k, p) \/ uninstall_one(k, p)
      PROVE  FolderTypes'
  BY <1>1, RequestType DEF trigger_scan, install_one, uninstall_one
<1>2. ASSUME NEW k \in Clients, Done(k) \/ SkipSelf(k) \/ InstallRaises(k) \/ Blocked(k)
      PROVE  FolderTypes'
  BY <1>2, LeaveType DEF Done, SkipSelf, InstallRaises, Blocked
<1>3. ASSUME NEW k \in Clients, InstallDir(k) \/ InstallKit(k) \/ LookForBackups(k) \/ ReadFile(k)
      PROVE  FolderTypes'
  BY <1>3 DEF InstallDir, InstallKit, LookForBackups, ReadFile, FolderTypes
<1>4. ASSUME NEW k \in Clients, InstallImport(k) PROVE FolderTypes'
  <2>1. calm' \in [Clients -> BOOLEAN]
    BY <1>4, DisturbsType DEF InstallImport, FolderTypes
  <2>2. file' = [file EXCEPT ![k] = 1] /\ UNCHANGED <<known, installed, dir, backup, kind, late, counts>>
    BY <1>4 DEF InstallImport
  <2> QED
    BY <2>1, <2>2 DEF FolderTypes
<1>5. ASSUME NEW k \in Clients, RemoveDir(k) PROVE FolderTypes'
  <2>1. calm' \in [Clients -> BOOLEAN]
    BY <1>5, DisturbsType DEF RemoveDir
  <2>2. /\ file' = [file EXCEPT ![k] = 1] /\ dir' = [dir EXCEPT ![At(k)] = FALSE]
        /\ backup' = [backup EXCEPT ![At(k)] = FALSE]
        /\ UNCHANGED <<known, installed, kind, late, counts>>
    BY <1>5 DEF RemoveDir
  <2>3. dir' \in [Projects -> BOOLEAN] /\ backup' \in [Projects -> BOOLEAN]
    BY <2>2 DEF FolderTypes
  <2>4. file' \in [Clients -> 0..2]
    BY <2>2 DEF FolderTypes
  <2> QED
    BY <2>1, <2>2, <2>3, <2>4 DEF FolderTypes
<1>6. ASSUME NEW k \in Clients, WriteFile(k) PROVE FolderTypes'
  <2>1. calm' \in [Clients -> BOOLEAN]
    BY <1>6, DisturbsType DEF WriteFile, FolderTypes
  <2>2. file' \in [Clients -> 0..2]
    BY <1>6, FilesAre DEF WriteFile, FolderTypes
  <2> QED
    BY <1>6, <2>1, <2>2 DEF WriteFile, FolderTypes
<1>7. ASSUME NEW p \in Projects, remove_project(p) \/ UserDropsBackup(p) PROVE FolderTypes'
  BY <1>7 DEF remove_project, UserDropsBackup, FolderTypes
<1>8. ASSUME NEW p \in Projects, ApplyBackup(p) PROVE FolderTypes'
  <2>1. late' \in [Clients -> BOOLEAN]
    BY <1>8, Zenon DEF ApplyBackup
  <2>2. applies' \in 0..MaxApplies
    BY <1>8, FolderBounds DEF ApplyBackup, FolderTypes
  <2>3. /\ dir' = [dir EXCEPT ![p] = TRUE] /\ backup' = [backup EXCEPT ![p] = TRUE]
        /\ UNCHANGED <<known, installed, kind, file, calm, requests>>
    BY <1>8 DEF ApplyBackup
  <2> QED
    BY <2>1, <2>2, <2>3 DEF FolderTypes
<1>9. ASSUME NEW p \in Projects, NEW f, UserEdits(p, f) PROVE FolderTypes'
  <2>1. calm' \in [Clients -> BOOLEAN]
    BY <1>9, Zenon DEF UserEdits
  <2> QED
    BY <1>9, <2>1 DEF UserEdits, FolderTypes
<1>10. CASE UNCHANGED folderVars
  BY <1>10 DEF FolderTypes
<1> QED
  BY <1>1, <1>2, <1>3, <1>4, <1>5, <1>6, <1>7, <1>8, <1>9, <1>10 DEF FolderNext, Step

LEMMA FolderTypesStart == FolderInit \/ Init => FolderTypes
<1>1. 0 \in 0..MaxRequests /\ 0 \in 0..MaxApplies /\ 0 \in 0..2
  BY FolderBounds
<1> SUFFICES ASSUME FolderInit \/ Init PROVE FolderTypes
  OBVIOUS
<1>2. installed \in [Projects -> BOOLEAN] /\ dir \in [Projects -> BOOLEAN]
  <2>1. CASE FolderInit
    BY <2>1 DEF FolderInit
  <2>2. CASE Init
    <3>1. installed = [p \in Projects |-> p \notin Self] /\ dir = installed
      BY <2>2 DEF Init
    <3>2. installed \in [Projects -> BOOLEAN]
      BY <3>1, Zenon
    <3> QED
      BY <3>1, <3>2
  <2> QED
    BY <2>1, <2>2
<1>3. known \in [Projects -> {"no", "on", "off"}] /\ Quiet
  BY DEF FolderInit, Init
<1>4. /\ backup \in [Projects -> BOOLEAN] /\ calm \in [Clients -> BOOLEAN]
      /\ late \in [Clients -> BOOLEAN]
  <2>1. /\ backup = [p \in Projects |-> FALSE] /\ calm = [c \in Clients |-> FALSE]
        /\ late = [c \in Clients |-> FALSE]
    BY <1>3, Zenon DEF Quiet
  <2> QED
    BY <2>1
<1>5. kind \in [Clients -> {"none", "scan", "install", "uninstall"}] /\ file \in [Clients -> 0..2] /\ requests = 0 /\ applies = 0
  BY <1>1, <1>3 DEF Quiet
<1> QED
  BY <1>1, <1>2, <1>3, <1>4, <1>5 DEF FolderTypes

LEMMA FolderTyped == TextInv /\ FolderTypes => FolderTypeOK
BY FilesAre DEF TextInv, TextTypes, MdTypes, FilesOK, FolderTypes, FolderTypeOK

\* The row, the directory, the files and the requests of a project keep their types.
THEOREM FolderTypeCorrect == FolderSpec => []FolderTypeOK
BY FolderTyped, FolderTypesStart, FolderTypesHold, TextInit, TextStepHolds, PTL DEF FolderSpec

\* Every number in a file, in a copy of one, or among the gone names a row.
Named ==
  /\ \A p \in Projects : ToSet(proposals[p]) \subseteq DOMAIN rows
  /\ \A a \in Actors : ToSet(copy[a]) \subseteq DOMAIN rows
  /\ gone \subseteq DOMAIN rows

LabTypes ==
  /\ _RUNNING \subseteq Researchers /\ raced \subseteq Researchers
  /\ wiki \in [Researchers -> Nat] /\ last \in [Researchers -> {"none", "ok", "failed"}]
  /\ researches \in 0..MaxResearches /\ faults \in 0..MaxFaults

\* Rows are only added, files only shrink, and a copy is of a file.
LEMMA NamedKept ==
  ASSUME Named, DOMAIN rows \subseteq DOMAIN rows',
         \A p \in Projects : proposals'[p] = proposals[p] \/ proposals'[p] = <<>>,
         \A a \in Actors : \/ copy'[a] = <<>> \/ copy'[a] = copy[a]
                           \/ \E p \in Projects : copy'[a] = proposals[p],
         \A i \in gone' : i \in gone \/ \E p \in Projects : i \in ToSet(proposals[p])
  PROVE  Named'
<1>1. ToSet(<<>>) = {}
  BY DEF ToSet
<1> QED
  BY <1>1 DEF Named

LEMMA NamedHolds == WInv /\ Named /\ [Next]_vars => Named'
<1> SUFFICES ASSUME WInv, Named, [Next]_vars PROVE Named'
  OBVIOUS
<1>0. /\ DOMAIN copy = Actors /\ DOMAIN proposals = Projects /\ rows \in Seq(RowT)
      /\ copy \in [Actors -> Seq(Nat)]
  BY DEF WInv, RInv, RowTypes, FileTypes
<1>1. ASSUME NEW a \in Actors, Research(a) PROVE Named'
  <2>1. CASE add_proposal(a)
    <3>1. PICK row : rows' = Append(rows, row)
      BY <2>1 DEF add_proposal
    <3>2. DOMAIN rows \subseteq DOMAIN rows'
      BY <1>0, <3>1
    <3> QED
      BY <2>1, <3>2, NamedKept DEF add_proposal
  <2>2. CASE mark_written(a)
    <3>1. DOMAIN rows' = DOMAIN rows
      BY <1>0, <2>2 DEF mark_written
    <3> QED
      BY <2>2, <3>1, NamedKept DEF mark_written
  <2>3. CASE ReadProposals(a)
    <3>1. Target(a) \in Projects
      BY <2>3 DEF ReadProposals, Moves, WInv, FileInv
    <3>2. copy' = [copy EXCEPT ![a] = proposals[Target(a)]] /\ UNCHANGED <<rows, gone, proposals>>
      BY <2>3 DEF ReadProposals
    <3> QED
      BY <1>0, <3>1, <3>2, NamedKept
  <2>4. CASE _prepend_proposal(a)
    <3>1. cur[a] \in DOMAIN rows /\ Target(a) \in Projects
      BY <2>4 DEF _prepend_proposal, Moves, WInv, FileInv
    <3>2. cur[a] \in Nat /\ copy[a] \in Seq(Nat)
      BY DEF WInv, FileTypes
    <3>3. ToSet(<<cur[a]>> \o copy[a]) = {cur[a]} \cup ToSet(copy[a])
      BY <3>2, Prepended
    <3>4. /\ proposals' = [proposals EXCEPT ![Target(a)] = <<cur[a]>> \o copy[a]]
          /\ gone' = gone \cup (ToSet(proposals[Target(a)]) \ ToSet(copy[a]))
          /\ copy' = [copy EXCEPT ![a] = <<>>] /\ rows' = rows
      BY <2>4 DEF _prepend_proposal
    <3>5. \A p \in Projects : ToSet(proposals'[p]) \subseteq DOMAIN rows
      BY <1>0, <3>1, <3>3, <3>4 DEF Named
    <3>6. \A b \in Actors : ToSet(copy'[b]) \subseteq DOMAIN rows
      <4>1. ToSet(<<>>) = {}
        BY DEF ToSet
      <4> QED
        BY <1>0, <3>4, <4>1 DEF Named
    <3> QED
      BY <3>1, <3>4, <3>5, <3>6 DEF Named
  <2>5. CASE \/ Refused(a) \/ Check(a) \/ Add(a) \/ Answers(a) \/ AskFails(a) \/ Duplicate(a)
             \/ LooksNew(a) \/ WriteRaises(a) \/ Stored(a) \/ Finally(a)
    <3>1. UNCHANGED <<rows, gone, proposals>> /\ (copy' = copy \/ copy' = [copy EXCEPT ![a] = <<>>])
      BY <2>5 DEF Refused, Check, Add, Answers, AskFails, Duplicate, LooksNew, WriteRaises, Stored, Finally,
         Returns, Forget
    <3> QED
      BY <1>0, <3>1, NamedKept
  <2> QED
    BY <1>1, <2>1, <2>2, <2>3, <2>4, <2>5 DEF Research
<1>2. CASE Install
  <2>1. UNCHANGED <<rows, copy>> /\ FolderNext
        /\ gone' = gone \cup UNION {ToSet(proposals[p]) \ ToSet(proposals'[p]) : p \in Projects}
    BY <1>2 DEF Install
  <2>2. \A i \in gone' : i \in gone \/ \E p \in Projects : i \in ToSet(proposals[p])
    BY <2>1
  <2> QED
    BY <2>1, <2>2, FolderKeepsProposals, NamedKept
<1>3. CASE Stop
  BY <1>3, NamedKept DEF Stop
<1>4. CASE _run_lab_job \/ (\E r \in Researchers : run_lab(r)) \/ UNCHANGED vars
  BY <1>4, NamedKept DEF _run_lab_job, run_lab, vars
<1> QED
  BY <1>1, <1>2, <1>3, <1>4 DEF Next

LEMMA LabTypesHold == IInv /\ LabTypes /\ [Next]_vars => LabTypes'
<1> SUFFICES ASSUME IInv, LabTypes, [Next]_vars PROVE LabTypes'
  OBVIOUS
<1>1. ASSUME NEW a \in Actors, Research(a) PROVE LabTypes'
  <2>1. Rid(a) \in Researchers
    <3>1. at[a] # "idle"
      BY <1>1 DEF Research, Refused, Check, Add, Answers, AskFails, Duplicate, LooksNew, add_proposal,
         ReadProposals, _prepend_proposal, WriteRaises, mark_written, Stored, Finally, Moves
    <3>2. left[a] \in Seq(Researchers) /\ left[a] # <<>>
      BY <3>1 DEF IInv
    <3> QED
      BY <3>2 DEF Rid
  <2>2. CASE Add(a)
    BY <2>1, <2>2 DEF Add, LabTypes
  <2>3. CASE Answers(a)
    <3>1. wiki' \in [Researchers -> Nat]
      BY <2>1, <2>3 DEF Answers, _prepend_wiki, LabTypes
    <3> QED
      BY <2>3, <3>1 DEF Answers, LabTypes
  <2>4. CASE AskFails(a) \/ Stored(a)
    <3>1. last' \in [Researchers -> {"none", "ok", "failed"}]
      BY <2>1, <2>4 DEF AskFails, Stored, _save_state, LabTypes
    <3> QED
      BY <2>4, <3>1 DEF AskFails, Stored, LabTypes
  <2>5. CASE WriteRaises(a)
    <3>1. faults' \in 0..MaxFaults
      BY <2>5, ResearchBounds DEF WriteRaises, LabTypes
    <3> QED
      BY <2>5, <3>1 DEF WriteRaises, LabTypes
  <2>6. CASE Finally(a)
    BY <2>6 DEF Finally, LabTypes
  <2>7. CASE \/ Refused(a) \/ Check(a) \/ Duplicate(a) \/ LooksNew(a) \/ add_proposal(a)
             \/ ReadProposals(a) \/ _prepend_proposal(a) \/ mark_written(a)
    BY <2>7 DEF Refused, Check, Duplicate, LooksNew, add_proposal, ReadProposals, _prepend_proposal,
       mark_written, LabTypes
  <2> QED
    BY <1>1, <2>2, <2>3, <2>4, <2>5, <2>6, <2>7 DEF Research
<1>2. CASE _run_lab_job \/ \E r \in Researchers : run_lab(r)
  <2>1. researches' \in 0..MaxResearches
    BY <1>2, ResearchBounds DEF _run_lab_job, run_lab, LabTypes
  <2> QED
    BY <1>2, <2>1 DEF _run_lab_job, run_lab, LabTypes
<1>3. CASE Stop
  <2>1. faults' \in 0..MaxFaults
    BY <1>3, ResearchBounds DEF Stop, LabTypes
  <2> QED
    BY <1>3, <2>1 DEF Stop, LabTypes
<1>4. CASE Install \/ UNCHANGED vars
  BY <1>4 DEF Install, vars, LabTypes
<1> QED
  BY <1>1, <1>2, <1>3, <1>4 DEF Next

LEMMA AsideTypes == FolderTypes /\ [Next]_vars => FolderTypes'
<1> SUFFICES ASSUME FolderTypes, Aside PROVE FolderTypes'
  BY EitherStep, FolderTypesHold
<1>1. UNCHANGED <<known, installed, dir, backup, requests, applies>>
  BY DEF Aside
<1>2. CASE UNCHANGED <<pc, kind, todo, file, my, calm, late>>
  BY <1>1, <1>2 DEF FolderTypes
<1>3. CASE ~UNCHANGED <<pc, kind, todo, file, my, calm, late>>
  <2>1. /\ kind' = [k \in Clients |-> "none"] /\ file' = [k \in Clients |-> 0]
        /\ calm' = [k \in Clients |-> FALSE] /\ late' = [k \in Clients |-> FALSE]
    BY <1>3, Zenon DEF Aside
  <2>2. file' \in [Clients -> 0..2]
    BY <2>1
  <2> QED
    BY <1>1, <2>1, <2>2 DEF FolderTypes
<1> QED
  BY <1>2, <1>3

\* The researchers' state keeps its types; what a project's file names are rows
\* that are there.
THEOREM LabTypeCorrect == Spec => []TypeOK
<1> DEFINE I == WInv /\ FolderInv /\ TextInv /\ FolderTypes /\ LabTypes /\ Named
<1>1. Init => I
  <2> SUFFICES ASSUME Init PROVE LabTypes /\ Named
    BY WInvInitially, FolderInitHolds, FolderTypesStart
  <2>1. 0 \in 0..MaxResearches /\ 0 \in 0..MaxFaults
    BY ResearchBounds
  <2>2. ToSet(<<>>) = {}
    BY DEF ToSet
  <2> QED
    BY <2>1, <2>2 DEF Init, Quiet, LabTypes, Named
<1>2. I /\ [Next]_vars => I'
  <2> SUFFICES ASSUME I, [Next]_vars PROVE I'
    OBVIOUS
  <2>1. WInv' /\ Named' /\ FolderTypes'
    BY WStepHolds, NamedHolds, AsideTypes
  <2>2. LabTypes'
    BY LabTypesHold DEF WInv, RInv
  <2>3. FolderInv' /\ TextInv'
    BY EitherStep, AsideHolds, FolderStepHolds, TextStepHolds
  <2> QED
    BY <2>1, <2>2, <2>3
<1>3. I => TypeOK
  BY FolderTyped DEF WInv, RInv, IInv, RowTypes, RowT, Prop, FileTypes, LabTypes, Named, TypeOK
<1> QED
  BY <1>1, <1>2, <1>3, PTL DEF Spec

-----------------------------------------------------------------------------
(* The queue of requested notes.                                            *)

QueueInv == QueueTypeOK /\ Queue

USE DEF request, thread, JobFrame

\* StartJob only ever puts one idle thread to work, and only if none works.
LEMMA StartStep ==
  ASSUME QueueInv, StartJob, phase \in {"serving", "resume"}
  PROVE  /\ job' \in Threads \cup {Nobody} /\ running' \in [Threads -> BOOLEAN]
         /\ doing' \in [Threads -> Working \cup {"off"}] /\ has' \in [Threads -> Ids \cup {0}]
         /\ key' = key
         /\ \A t \in Threads :
              \/ doing'[t] = doing[t] /\ has'[t] = has[t] /\ (doing[t] # "off" => job' = job /\ running'[t] = running[t])
              \/ doing[t] = "off" /\ doing'[t] = "poll" /\ has'[t] = 0 /\ job' = t /\ running'[t] = TRUE
         /\ \A t, u \in Threads : doing'[t] # "off" /\ doing'[u] # "off" => t = u
<1> USE DEF QueueInv, Queue
<1>1. CASE IsRunning
  BY <1>1 DEF StartJob, QueueTypeOK, WorkerAgrees
<1>2. CASE ~IsRunning
  <2>1. \A t \in Threads : doing[t] = "off"
    BY <1>2, NobodyAssumption DEF IsRunning, WorkerAgrees, QueueTypeOK
  <2>2. PICK t \in Threads : /\ job' = t /\ running' = [running EXCEPT ![t] = TRUE]
                             /\ doing' = [doing EXCEPT ![t] = "poll"]
                             /\ has' = [has EXCEPT ![t] = 0] /\ key' = key
    BY <1>2 DEF StartJob
  <2>3. "poll" \in Working
    BY DEF Working
  <2> QED
    BY <2>1, <2>2, <2>3 DEF QueueTypeOK
<1> QED
  BY <1>1, <1>2

\* A thread other than the one at work is off.
LEMMA OthersOff ==
  ASSUME QueueInv, NEW t \in Threads, doing[t] # "off", NEW u \in Threads, u # t
  PROVE  doing[u] = "off"
BY DEF QueueInv, Queue, WorkerAgrees

LEMMA StartType ==
  ASSUME QueueInv, \/ \E i \in Ids : AddRequest(i) \/ Wake(i)
               \/ Crash \/ Requeue \/ Resume
  PROVE  QueueTypeOK'
<1> USE DEF QueueInv
<1>1. CASE \E i \in Ids : AddRequest(i)
  <2>1. PICK i \in Ids : AddRequest(i)
    BY <1>1
  <2> QED
    BY <2>1 DEF QueueTypeOK, AddRequest
<1>2. CASE \E i \in Ids : Wake(i)
  <2>1. PICK i \in Ids : Wake(i)
    BY <1>2
  <2>2. phase = "serving"
    BY <2>1 DEF Wake, Queue, WorkerAgrees
  <2> QED
    BY <2>1, <2>2, StartStep DEF QueueTypeOK, Wake
<1>3. CASE Crash
  BY <1>3, BoundsAssumption DEF QueueTypeOK, Crash
<1>4. CASE Requeue
  BY <1>4 DEF QueueTypeOK, Requeue
<1>5. CASE Resume
  <2>1. CASE StartJob
    <3>1. phase = "resume" /\ phase' = "serving" /\ UNCHANGED <<request, notes, waking, crashes>>
      BY <1>5 DEF Resume
    <3>2. /\ job' \in Threads \cup {Nobody} /\ running' \in [Threads -> BOOLEAN]
          /\ doing' \in [Threads -> Working \cup {"off"}] /\ has' \in [Threads -> Ids \cup {0}]
          /\ key' = key
      BY <2>1, <3>1, StartStep
    <3> QED
      BY <3>1, <3>2 DEF QueueTypeOK
  <2>2. CASE UNCHANGED <<job, running, thread>>
    BY <1>5, <2>2 DEF QueueTypeOK, Resume
  <2> QED
    BY <1>5, <2>1, <2>2 DEF Resume
<1> QED
  BY <1>1, <1>2, <1>3, <1>4, <1>5

LEMMA JobType ==
  ASSUME QueueInv, NEW t \in Threads, Job(t)
  PROVE  QueueTypeOK'
<1> USE DEF QueueInv, Queue
<1>1. CASE Poll(t)
  BY <1>1 DEF QueueTypeOK, Poll, Goes, Working, Queued
<1>2. CASE Claim(t)
  BY <1>2 DEF QueueTypeOK, Claim, Goes, Working
<1>3. CASE Answer(t)
  BY <1>3 DEF QueueTypeOK, Answer, Goes, Working
<1>4. CASE PickName(t)
  <2>1. has[t] \in Ids /\ topic[has[t]] \in Topics
    BY <1>4 DEF QueueTypeOK, PickName, Goes, HoldingAgrees
  <2>2. PICK n \in 1..MaxNotes : key' = [key EXCEPT ![t] = <<topic[has[t]], n>>]
    BY <1>4 DEF PickName
  <2>3. key' \in [Threads -> Keys \cup {NoKey}]
    BY <2>1, <2>2 DEF QueueTypeOK, Keys
  <2> QED
    BY <1>4, <2>3 DEF QueueTypeOK, PickName, Goes, Working
<1>5. CASE Write(t)
  BY <1>5 DEF QueueTypeOK, Write, Goes, Working
<1>6. CASE Finish(t)
  BY <1>6 DEF QueueTypeOK, Finish, Goes, Working
<1>7. CASE Fail(t)
  BY <1>7 DEF QueueTypeOK, Fail, Working
<1>8. CASE JobEnds(t)
  BY <1>8 DEF QueueTypeOK, JobEnds
<1> QED
  BY <1>1, <1>2, <1>3, <1>4, <1>5, <1>6, <1>7, <1>8 DEF Job

-----------------------------------------------------------------------------

LEMMA StartQueue ==
  ASSUME QueueInv, \/ \E i \in Ids : AddRequest(i) \/ Wake(i)
               \/ Crash \/ Requeue \/ Resume
  PROVE  Queue'
<1> USE DEF QueueInv, Queue
<1>1. CASE \E i \in Ids : AddRequest(i)
  <2>1. PICK i \in Ids : AddRequest(i)
    BY <1>1
  <2>2. WorkerAgrees'
    BY <2>1 DEF AddRequest, WorkerAgrees
  <2>3. /\ status[i] = "none" /\ status' = [status EXCEPT ![i] = "queued"]
        /\ UNCHANGED <<noteKey, notes, phase, doing, has, key>> /\ phase = "serving"
    BY <2>1 DEF AddRequest
  <2>4. HoldingAgrees'
    BY <2>3 DEF QueueTypeOK, HoldingAgrees
  <2>5. RowsAgree'
    BY <2>3 DEF QueueTypeOK, RowsAgree, RunningIsHeld, DoneHasItsNote
  <2> QED
    BY <2>2, <2>4, <2>5
<1>2. CASE \E i \in Ids : Wake(i)
  <2>1. PICK i \in Ids : Wake(i)
    BY <1>2
  <2>2. phase = "serving" /\ StartJob /\ UNCHANGED <<status, noteKey, notes, phase>>
    BY <2>1 DEF Wake, WorkerAgrees
  <2>3. WorkerAgrees'
    BY <2>2, StartStep DEF WorkerAgrees
  <2>4. HoldingAgrees'
    <3>1. key' = key /\ \A t \in Threads :
            \/ doing'[t] = doing[t] /\ has'[t] = has[t]
            \/ doing'[t] = "poll" /\ has'[t] = 0
      BY <2>2, StartStep
    <3> QED
      BY <2>2, <3>1 DEF HoldingAgrees
  <2>5. RowsAgree'
    <3>1. \A t \in Threads : doing[t] # "off" => doing'[t] = doing[t] /\ has'[t] = has[t]
      BY <2>2, StartStep
    <3> QED
      BY <2>2, <3>1 DEF RowsAgree, RunningIsHeld, DoneHasItsNote
  <2> QED
    BY <2>3, <2>4, <2>5
<1>3. CASE Crash
  BY <1>3 DEF Crash, WorkerAgrees, HoldingAgrees, RowsAgree, RunningIsHeld, DoneHasItsNote
<1>4. CASE Requeue
  <2>1. \A t \in Threads : doing[t] = "off"
    BY <1>4 DEF Requeue, WorkerAgrees
  <2>2. \A i \in Ids : status'[i] # "running" /\ (status'[i] = "done" => status[i] = "done")
    BY <1>4 DEF Requeue, QueueTypeOK
  <2> QED
    BY <1>4, <2>1, <2>2 DEF Requeue, WorkerAgrees, HoldingAgrees, RowsAgree, RunningIsHeld, DoneHasItsNote
<1>5. CASE Resume
  <2>1. /\ \A i \in Ids : status[i] # "running"
        /\ \A t \in Threads : doing[t] = "off"
        /\ phase' = "serving" /\ UNCHANGED <<status, noteKey, notes, waking>> /\ phase = "resume"
    BY <1>5 DEF Resume, RowsAgree, WorkerAgrees
  <2>2. RowsAgree'
    BY <2>1 DEF RowsAgree, RunningIsHeld, DoneHasItsNote
  <2>3. CASE StartJob
    BY <2>1, <2>2, <2>3, StartStep DEF WorkerAgrees, HoldingAgrees
  <2>4. CASE UNCHANGED <<job, running, thread>>
    BY <2>1, <2>2, <2>4 DEF WorkerAgrees, HoldingAgrees
  <2> QED
    BY <1>5, <2>3, <2>4 DEF Resume
<1> QED
  BY <1>1, <1>2, <1>3, <1>4, <1>5

LEMMA JobQueue ==
  ASSUME QueueInv, NEW t \in Threads, Job(t)
  PROVE  Queue'
<1> USE DEF QueueInv, Queue
<1>0. /\ doing[t] # "off" /\ phase = "serving" /\ UNCHANGED <<phase, waking, job>>
      /\ \A u \in Threads : u # t => doing[u] = "off"
  <2>1. doing[t] # "off" /\ UNCHANGED <<phase, waking, job>>
    BY DEF Job, Poll, Claim, Answer, PickName, Write, Finish, Fail, JobEnds, Goes
  <2> QED
    BY <2>1, OthersOff DEF WorkerAgrees
<1>1. \A u \in Threads : u # t => doing'[u] = "off"
  BY <1>0 DEF QueueTypeOK, Job, Poll, Claim, Answer, PickName, Write, Finish, Fail, JobEnds, Goes
<1>2. WorkerAgrees'
  <2>1. doing'[t] # "off" => running'[t] = running[t]
    BY DEF QueueTypeOK, Job, Poll, Claim, Answer, PickName, Write, Finish, Fail, JobEnds, Goes
  <2> QED
    BY <1>0, <1>1, <2>1 DEF WorkerAgrees
<1>3. HoldingAgrees'
  <2>1. SUFFICES
          /\ doing'[t] \in {"claim", "ask", "name", "write", "finish"} => has'[t] \in Ids
          /\ doing'[t] \in {"poll", "exit"} => has'[t] = 0
          /\ doing'[t] = "claim" => status'[has'[t]] = "queued"
          /\ doing'[t] \in {"ask", "name", "write", "finish"} => status'[has'[t]] = "running"
          /\ doing'[t] = "write" => key'[t] \in Keys /\ notes'[key'[t]] = 0
          /\ doing'[t] = "finish" => key'[t] \in Keys /\ notes'[key'[t]] = has'[t]
    BY <1>1 DEF HoldingAgrees
  <2>2. CASE Poll(t)
    BY <2>2 DEF QueueTypeOK, Poll, Goes, Queued, HoldingAgrees
  <2>3. CASE Claim(t) \/ Answer(t)
    BY <2>3 DEF QueueTypeOK, Claim, Answer, Goes, HoldingAgrees
  <2>4. CASE PickName(t)
    <3>1. PICK n \in 1..MaxNotes : /\ notes[<<topic[has[t]], n>>] = 0
                                   /\ key' = [key EXCEPT ![t] = <<topic[has[t]], n>>]
      BY <2>4 DEF PickName
    <3>2. topic[has[t]] \in Topics
      BY <2>4 DEF QueueTypeOK, PickName, Goes, HoldingAgrees
    <3>3. key'[t] = <<topic[has[t]], n>> /\ key'[t] \in Keys
      BY <3>1, <3>2 DEF QueueTypeOK, Keys
    <3>4. doing'[t] = "write" /\ doing[t] = "name" /\ UNCHANGED <<status, has, notes>>
      BY <2>4 DEF QueueTypeOK, PickName, Goes
    <3> QED
      BY <3>1, <3>3, <3>4 DEF HoldingAgrees
  <2>5. CASE Write(t)
    BY <2>5 DEF QueueTypeOK, Write, Goes, HoldingAgrees
  <2>6. CASE Finish(t) \/ Fail(t) \/ JobEnds(t)
    BY <2>6 DEF QueueTypeOK, Finish, Fail, JobEnds, Goes
  <2> QED
    BY <2>2, <2>3, <2>4, <2>5, <2>6 DEF Job
<1>4. RunningIsHeld'
  <2>1. \A i \in Ids : status[i] = "running" => has[t] = i /\ doing[t] \in {"ask", "name", "write", "finish"}
    BY <1>0 DEF RowsAgree, RunningIsHeld, HoldingAgrees, QueueTypeOK, Working, Ids
  <2>2. SUFFICES ASSUME NEW i \in Ids, status'[i] = "running"
                PROVE  has'[t] = i /\ doing'[t] # "off"
    BY DEF RunningIsHeld
  <2>3. CASE Claim(t)
    BY <2>1, <2>2, <2>3 DEF QueueTypeOK, Claim, Goes, HoldingAgrees
  <2>4. CASE Finish(t) \/ Fail(t)
    BY <2>1, <2>2, <2>4 DEF QueueTypeOK, Finish, Fail, Goes, HoldingAgrees
  <2>5. CASE Poll(t) \/ JobEnds(t)
    BY <2>1, <2>2, <2>5 DEF Poll, JobEnds, Goes
  <2>6. CASE Answer(t) \/ PickName(t) \/ Write(t)
    BY <2>1, <2>2, <2>6 DEF QueueTypeOK, Answer, PickName, Write, Goes
  <2> QED
    BY <2>3, <2>4, <2>5, <2>6 DEF Job
<1>5. DoneHasItsNote'
  <2>1. CASE Write(t)
    <3>1. key[t] \in Keys /\ notes[key[t]] = 0
      BY <2>1 DEF Write, Goes, HoldingAgrees
    <3> QED
      BY <2>1, <3>1 DEF QueueTypeOK, Write, RowsAgree, DoneHasItsNote, Ids
  <2>2. CASE Finish(t)
    BY <2>2 DEF QueueTypeOK, Finish, Goes, HoldingAgrees, RowsAgree, DoneHasItsNote
  <2>3. CASE Claim(t) \/ Fail(t)
    BY <2>3 DEF QueueTypeOK, Claim, Fail, Goes, RowsAgree, DoneHasItsNote
  <2>4. CASE Poll(t) \/ Answer(t) \/ PickName(t) \/ JobEnds(t)
    BY <2>4 DEF Poll, Answer, PickName, JobEnds, RowsAgree, DoneHasItsNote
  <2> QED
    BY <2>1, <2>2, <2>3, <2>4 DEF Job
<1> QED
  BY <1>0, <1>2, <1>3, <1>4, <1>5 DEF RowsAgree

LEMMA QueueInitially == QueueInit => QueueInv
<1> SUFFICES ASSUME QueueInit
             PROVE  QueueInv
  OBVIOUS
<1>1. QueueTypeOK
  BY BoundsAssumption DEF QueueInit, QueueTypeOK, Working
<1>2. Queue
  BY DEF QueueInit, Queue, WorkerAgrees, HoldingAgrees, RowsAgree, RunningIsHeld, DoneHasItsNote
<1> QED
  BY <1>1, <1>2 DEF QueueInv

LEMMA QueueHolds == QueueInv /\ [QueueNext]_queueVars => QueueInv'
<1> SUFFICES ASSUME QueueInv, [QueueNext]_queueVars
             PROVE  QueueInv'
  OBVIOUS
<1>1. CASE \E t \in Threads : Job(t)
  BY <1>1, JobType, JobQueue DEF QueueInv
<1>2. CASE (\E i \in Ids : AddRequest(i) \/ Wake(i)) \/ Crash \/ Requeue \/ Resume
  BY <1>2, StartType, StartQueue DEF QueueInv
<1>3. CASE UNCHANGED queueVars
  BY <1>3 DEF queueVars, QueueInv, QueueTypeOK, Queue, WorkerAgrees, HoldingAgrees, RowsAgree,
              RunningIsHeld, DoneHasItsNote
<1> QED
  BY <1>1, <1>2, <1>3 DEF QueueNext

\* Every variable of the queue keeps its type.
THEOREM QueueTypeCorrect == QueueSpec => []QueueTypeOK
<1>1. QueueInv => QueueTypeOK
  BY DEF QueueInv
<1> QED
  BY <1>1, QueueInitially, QueueHolds, PTL DEF QueueSpec

\* However requests, the end of the job, stops of the server and its start-up
\* hook interleave, one thread at a time works the queue off.
THEOREM OneWorkerAlways == QueueSpec => []OneWorker
<1>1. QueueInv => OneWorker
  BY DEF QueueInv, Queue, WorkerAgrees, OneWorker
<1> QED
  BY <1>1, QueueInitially, QueueHolds, PTL DEF QueueSpec

\* A request that is done leads to a note that was written for it.
THEOREM DoneHasItsNoteAlways == QueueSpec => []DoneHasItsNote
<1>1. QueueInv => DoneHasItsNote
  BY DEF QueueInv, Queue, RowsAgree
<1> QED
  BY <1>1, QueueInitially, QueueHolds, PTL DEF QueueSpec

\* While the server serves, a request under way is held by a live thread.
THEOREM RunningIsHeldAlways == QueueSpec => []RunningIsHeld
<1>1. QueueInv => RunningIsHeld
  BY DEF QueueInv, Queue, RowsAgree
<1> QED
  BY <1>1, QueueInitially, QueueHolds, PTL DEF QueueSpec

\* No note is ever overwritten: the check of the name and the write of the file
\* are two steps, and only one thread takes them.
THEOREM NotesAreKeptAlways == QueueSpec => NotesAreKept
<1>1. QueueInv /\ [QueueNext]_queueVars => [\A k \in Keys : notes[k] # 0 => notes'[k] = notes[k]]_queueVars
  <2> SUFFICES ASSUME QueueInv, QueueNext, NEW k \in Keys, notes[k] # 0
               PROVE  notes'[k] = notes[k]
    OBVIOUS
  <2>1. CASE \E t \in Threads : Write(t)
    <3>1. PICK t \in Threads : Write(t)
      BY <2>1
    <3>2. notes[key[t]] = 0
      BY <3>1 DEF QueueInv, Queue, HoldingAgrees, Write, Goes
    <3> QED
      BY <3>1, <3>2 DEF QueueInv, QueueTypeOK, Write
  <2>2. CASE ~\E t \in Threads : Write(t)
    <3>1. UNCHANGED notes
      BY <2>2 DEF QueueNext, AddRequest, Wake, Crash, Requeue, Resume, Job, Poll, Claim, Answer, PickName,
                  Finish, Fail, JobEnds
    <3> QED
      BY <3>1
  <2> QED
    BY <2>1, <2>2
<1> QED
  BY <1>1, QueueInitially, QueueHolds, PTL DEF QueueSpec, NotesAreKept
=============================================================================
