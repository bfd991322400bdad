------------------------------ MODULE RoomChat ------------------------------
(***************************************************************************)
(* The rooms of the projects and their kanban cards:                       *)
(* src/cc/room_agent.py, src/cc/cards.py, src/db/cards.py, and the         *)
(* handlers of src/web/routers/api.py that post, retry, edit cards and     *)
(* remove a project.                                                       *)
(*                                                                         *)
(* A question starts a background task that reads the room, asks the       *)
(* model, carries out the card changes of the answer one commit at a time  *)
(* and writes the answer.  Cards are also changed by the user and by the   *)
(* project manager's turns of the weekly report; nothing is locked.  An    *)
(* exception ends a reply without an answer.  A stop of the server kills   *)
(* the tasks; the start-up hook asks again in the first ResumeMax rooms    *)
(* whose last message is a question.                                       *)
(***************************************************************************)
EXTENDS Naturals, Sequences, FiniteSets

CONSTANTS
  Projects,      \* projects, numbered in the order of their names
  Tasks,         \* background tasks of the web server
  Resumer,       \* the thread "room-resume"
  Editors,       \* requests and weekly-report workers that change cards
  Titles, Keep,  \* card titles; an edit that leaves the title
  Replies,       \* the lists of card changes a model may answer with
  HistoryLimit,  \* HISTORY_LIMIT
  ResumeMax,     \* RESUME_MAX_ROOMS
  Removable,     \* bound: projects that may be removed
  MaxQuestions,  \* bound: questions and retries
  MaxEdits, MaxCards, MaxCrashes  \* bounds

Threads == Tasks \cup {Resumer} \cup Editors

ASSUME ProjectsAssumption == Projects \subseteq Nat
ASSUME ThreadsAssumption ==
  /\ Resumer \notin Tasks \cup Editors /\ Tasks \cap Editors = {}
ASSUME TitlesAssumption == Keep \notin Titles
ASSUME BoundsAssumption ==
  /\ HistoryLimit \in Nat /\ ResumeMax \in Nat
  /\ MaxQuestions \in Nat /\ MaxEdits \in Nat
  /\ MaxCards \in Nat /\ MaxCrashes \in Nat

\* A card change: a new card, or a new title and column of card "id".
Op == [do : {"add", "change"}, id : Nat, title : Titles \cup {Keep},
       to : {"open", "done", "deleted"}]
ASSUME RepliesAssumption ==
  /\ Replies \subseteq Seq(Op)
  /\ \A r \in Replies : \A i \in DOMAIN r :
        r[i].do = "add" => r[i].title \in Titles /\ r[i].to = "open"

VARIABLES
  room,      \* messages, by project; qs: the questions asked, or read
  managed,   \* projects.enabled, and how far remove_project has come
  cards,     \* the rows of cards, by id; ids are never used twice
  pc, about, saw, ops, mine,  \* the threads: place, project, history read,
                              \* changes to do, card ids of the project
  resume,    \* rooms the resume thread has still to answer
  up,        \* the server is serving
  asked, edits, crashes,  \* counters of the bounds
  missed,    \* history: questions whose reply ended without an answer, or began too late
  failed,    \* history: rooms where a reply raised, and none was asked for since
  passed,    \* history: rooms left over by ResumeMax at the last start
  met,       \* history: threads that checked a title together with another
  raced,     \* history: cards inserted by such threads
  edited     \* history: cards given an open title by an edit

chat   == <<room, managed>>
thread == <<pc, about, saw, ops, mine>>
count  == <<asked, edits, crashes>>
past   == <<missed, failed, passed>>
races  == <<met, raced, edited>>
vars   == <<room, managed, cards, pc, about, saw, ops, mine, resume, up, asked,
            edits, crashes, missed, failed, passed, met, raced, edited>>

Repliers     == Tasks \cup {Resumer}
Enabled(p)   == managed[p] = "enabled"
Waiting(p)   == room[p] # <<>> /\ room[p][Len(room[p])].by = "user"
Pending(p)   == \E t \in Repliers : pc[t] # "idle" /\ about[t] = p
Said(p, who) == UNION {room[p][i].qs : i \in {j \in DOMAIN room[p] : room[p][j].by = who}}
Unread(p)    == Said(p, "user") \ Said(p, "agent")

\* A reply in the making that has read the question or is still to read the room.
Reads(t, p, q) == about[t] = p /\ pc[t] # "idle" /\ (pc[t] = "queued" \/ q \in saw[t])

Open(p, title) ==
  {c \in DOMAIN cards : cards[c].in = p /\ cards[c].title = title /\ cards[c].state = "open"}

Init ==
  /\ room = [p \in Projects |-> <<>>] /\ managed = [p \in Projects |-> "enabled"]
  /\ cards = <<>>
  /\ pc = [t \in Threads |-> "idle"] /\ about = [t \in Threads |-> 0]
  /\ saw = [t \in Threads |-> {}] /\ ops = [t \in Threads |-> <<>>]
  /\ mine = [t \in Threads |-> {}]
  /\ resume = {} /\ up = TRUE
  /\ asked = 0 /\ edits = 0 /\ crashes = 0
  /\ missed = {} /\ failed = {} /\ passed = {} /\ met = {} /\ raced = {} /\ edited = {}

-----------------------------------------------------------------------------
(* Questions, retries and replies.                                         *)

Queue(t, p) ==
  /\ t \in Tasks /\ pc[t] = "idle"
  /\ pc' = [pc EXCEPT ![t] = "queued"] /\ about' = [about EXCEPT ![t] = p]
  /\ failed' = failed \ {p}

\* Mutant of Post: no second reply while one is in the making.
PostOneReply(p) ==
  /\ up /\ asked < MaxQuestions
  /\ asked' = asked + 1
  /\ room' = [room EXCEPT ![p] = Append(@, [by |-> "user", qs |-> {asked + 1}])]
  /\ IF Enabled(p) /\ ~Pending(p) THEN \E t \in Tasks : Queue(t, p) ELSE UNCHANGED <<pc, about, failed>>
  /\ UNCHANGED <<managed, cards, saw, ops, mine, resume, up, edits, crashes,
                 missed, passed, races>>

\* post_message: the question is there before its task; a project that is
\* not managed gets no reply.  Bound: MaxQuestions.
Post(p) ==
  /\ up /\ asked < MaxQuestions
  /\ asked' = asked + 1
  /\ room' = [room EXCEPT ![p] = Append(@, [by |-> "user", qs |-> {asked + 1}])]
  /\ IF Enabled(p) THEN \E t \in Tasks : Queue(t, p) ELSE UNCHANGED <<pc, about, failed>>
  /\ UNCHANGED <<managed, cards, saw, ops, mine, resume, up, edits, crashes,
                 missed, passed, races>>

\* retry_room_reply.  Bound: MaxQuestions.
Retry(p) ==
  /\ up /\ asked < MaxQuestions
  /\ Enabled(p) /\ Waiting(p)
  /\ \E t \in Tasks : Queue(t, p)
  /\ asked' = asked + 1
  /\ UNCHANGED <<chat, cards, saw, ops, mine, resume, up, edits, crashes,
                 missed, passed, races>>

\* The questions of the last HistoryLimit messages.
History(p) ==
  UNION {room[p][i].qs : i \in {j \in DOMAIN room[p] :
           room[p][j].by = "user" /\ j + HistoryLimit > Len(room[p])}}

Begin(t) ==
  /\ pc[t] = "queued" /\ pc' = [pc EXCEPT ![t] = "model"]
  /\ saw' = [saw EXCEPT ![t] = History(about[t])]
  /\ missed' = missed \cup (Unread(about[t]) \ History(about[t]))
  /\ UNCHANGED <<chat, cards, about, ops, mine, resume, up, count, failed, passed, races>>

\* Bound: MaxCards.
Adds(changes) == {i \in DOMAIN changes : changes[i].do = "add"}
Fits(r) == Adds(r) = {} \/
  Len(cards) + Cardinality(Adds(r)) + Cardinality(UNION {{t} \X Adds(ops[t]) : t \in Threads})
    <= MaxCards

\* A failed call or an answer without a block leaves no changes to do.
ModelAnswers(t) ==
  /\ pc[t] = "model"
  /\ \E r \in {q \in Replies : Fits(q)} :
       /\ ops' = [ops EXCEPT ![t] = r]
       /\ pc' = [pc EXCEPT ![t] = IF r = <<>> THEN "answer" ELSE "mine"]
  /\ UNCHANGED <<chat, cards, about, saw, mine, resume, up, count, past, races>>

Answer(t) ==
  /\ pc[t] = "answer" /\ pc' = [pc EXCEPT ![t] = "idle"]
  /\ room' = [room EXCEPT ![about[t]] = Append(@, [by |-> "agent", qs |-> saw[t]])]
  /\ about' = [about EXCEPT ![t] = 0] /\ saw' = [saw EXCEPT ![t] = {}]
  /\ UNCHANGED <<managed, cards, ops, mine, resume, up, count, past, races>>

\* The questions left to nobody when the replies of D end without an answer.  A
\* room that waits while nobody is at work leaves none: the next reply reads it.
Dropped(D) ==
  LET left == Repliers \ D
      rooms == {p \in Projects :
                  /\ \E t \in D \cap Repliers : pc[t] # "idle" /\ about[t] = p
                  /\ ~Waiting(p) \/ \E u \in left : pc[u] # "idle" /\ about[u] = p}
  IN UNION {{q \in Unread(p) : \A u \in left : ~Reads(u, p, q)} : p \in rooms}

\* An exception ends a reply, or an edit, between two statements: the note of a new
\* card reaches the INSERT unchecked, and that thread's connection is then left in a
\* transaction in which later statements fail too.  Nothing is written in the room.
Raises(t) ==
  /\ pc[t] # "idle" /\ pc' = [pc EXCEPT ![t] = "idle"]
  /\ about' = [about EXCEPT ![t] = 0] /\ saw' = [saw EXCEPT ![t] = {}]
  /\ ops' = [ops EXCEPT ![t] = <<>>] /\ mine' = [mine EXCEPT ![t] = {}]
  /\ met' = met \ {t}
  /\ missed' = missed \cup Dropped({t})
  /\ failed' = IF t \in Repliers THEN failed \cup {about[t]} ELSE failed
  /\ UNCHANGED <<chat, cards, resume, up, count, passed, raced, edited>>

-----------------------------------------------------------------------------
(* Card changes.                                                           *)

\* The project manager's turn (weekly report) and the user's new card go
\* through the same code as a reply.  Bound: MaxEdits.
EditorBegins(e, p) ==
  /\ up /\ pc[e] = "idle" /\ edits < MaxEdits /\ edits' = edits + 1
  /\ \E r \in {q \in Replies \ {<<>>} : Fits(q)} : ops' = [ops EXCEPT ![e] = r]
  /\ pc' = [pc EXCEPT ![e] = "mine"] /\ about' = [about EXCEPT ![e] = p]
  /\ UNCHANGED <<chat, cards, saw, mine, resume, up, asked, crashes,
                 past, races>>

\* apply_ops reads the ids of the project's cards once.
ReadMine(t) ==
  /\ pc[t] = "mine" /\ pc' = [pc EXCEPT ![t] = "ops"]
  /\ mine' = [mine EXCEPT ![t] =
       {c \in DOMAIN cards : cards[c].in = about[t] /\ cards[c].state # "deleted"}]
  /\ UNCHANGED <<chat, cards, about, saw, ops, resume, up, count, past, races>>

Todo(t) == Head(ops[t])

\* The first change is done (or skipped): on to the next, or to the answer.
OpDone(t) ==
  LET last == Len(ops[t]) = 1
      free == last /\ t \in Editors IN
  /\ ops' = [ops EXCEPT ![t] = Tail(@)]
  /\ pc' = [pc EXCEPT ![t] = IF free THEN "idle" ELSE IF last THEN "answer" ELSE "ops"]
  /\ about' = [about EXCEPT ![t] = IF free THEN 0 ELSE @]
  /\ mine' = [mine EXCEPT ![t] = IF last THEN {} ELSE @]

\* add_card, first statement: an open card of that title is there.
AddFound(t) ==
  /\ pc[t] = "ops" /\ Todo(t).do = "add"
  /\ Open(about[t], Todo(t).title) # {}
  /\ OpDone(t)
  /\ UNCHANGED <<chat, cards, saw, resume, up, count, past, races>>

Together(t, u) ==
  u # t /\ pc[u] = "insert" /\ about[u] = about[t] /\ Todo(u).title = Todo(t).title

\* Mutant of AddChecked: add_card does not look for an open card.
AddUnchecked(t) ==
  /\ pc[t] = "ops" /\ Todo(t).do = "add"
  /\ pc' = [pc EXCEPT ![t] = "insert"]
  /\ met' = LET others == {u \in Threads : Together(t, u)} IN
            IF others = {} THEN met ELSE met \cup others \cup {t}
  /\ UNCHANGED <<chat, cards, about, saw, ops, mine, resume, up, count, past,
                 raced, edited>>

AddChecked(t) ==
  /\ pc[t] = "ops" /\ Todo(t).do = "add"
  /\ Open(about[t], Todo(t).title) = {}
  /\ pc' = [pc EXCEPT ![t] = "insert"]
  /\ met' = LET others == {u \in Threads : Together(t, u)} IN
            IF others = {} THEN met ELSE met \cup others \cup {t}
  /\ UNCHANGED <<chat, cards, about, saw, ops, mine, resume, up, count, past,
                 raced, edited>>

\* add_card, second statement.
AddInserts(t) ==
  /\ pc[t] = "insert"
  /\ cards' = Append(cards, [in |-> about[t], title |-> Todo(t).title, state |-> "open"])
  /\ raced' = IF t \in met THEN raced \cup {Len(cards) + 1} ELSE raced
  /\ met' = met \ {t}
  /\ OpDone(t)
  /\ UNCHANGED <<chat, saw, resume, up, count, past, edited>>

\* A card of another project, or one that was not there when mine was read.
SkipForeign(t) ==
  /\ pc[t] = "ops" /\ Todo(t).do = "change" /\ Todo(t).id \notin mine[t]
  /\ OpDone(t)
  /\ UNCHANGED <<chat, cards, saw, resume, up, count, past, races>>

\* update_card and delete_card: a row that is gone stays gone.
Changed(card, op) ==
  IF card.state = "deleted" THEN card
  ELSE [card EXCEPT !.title = IF op.title = Keep THEN @ ELSE op.title, !.state = op.to]
Change(c, op) ==
  /\ cards' = [cards EXCEPT ![c] = Changed(@, op)]
  /\ edited' = IF op.to = "open" /\ Changed(cards[c], op) # cards[c]
               THEN edited \cup {c} ELSE edited

\* Mutant of Changes: the id is not compared with mine.
ChangesAny(t) ==
  /\ pc[t] = "ops" /\ Todo(t).do = "change" /\ Todo(t).id \in DOMAIN cards
  /\ Change(Todo(t).id, Todo(t))
  /\ OpDone(t)
  /\ UNCHANGED <<chat, saw, resume, up, count, past, met, raced>>

Changes(t) ==
  /\ pc[t] = "ops" /\ Todo(t).do = "change" /\ Todo(t).id \in mine[t]
  /\ Change(Todo(t).id, Todo(t))
  /\ OpDone(t)
  /\ UNCHANGED <<chat, saw, resume, up, count, past, met, raced>>

\* edit_card and remove_card, by the user.  Bound: MaxEdits.
UserChanges(c) ==
  /\ up /\ edits < MaxEdits /\ edits' = edits + 1
  /\ \E title \in Titles \cup {Keep}, to \in {"open", "done", "deleted"} :
       Change(c, [do |-> "change", id |-> c, title |-> title, to |-> to])
  /\ UNCHANGED <<chat, thread, resume, up, asked, crashes, past,
                 met, raced>>

-----------------------------------------------------------------------------
(* remove_project: four commits (the board's posts are left out).          *)

RemoveStep(p, from, to) ==
  /\ up /\ managed[p] = from /\ managed' = [managed EXCEPT ![p] = to]
  /\ UNCHANGED <<thread, resume, up, count, past, races>>

Disable(p)        == /\ p \in Removable /\ RemoveStep(p, "enabled", "disabled")
                     /\ UNCHANGED <<room, cards>>
DeleteMessages(p) == /\ RemoveStep(p, "disabled", "emptied")
                     /\ room' = [room EXCEPT ![p] = <<>>] /\ UNCHANGED cards
DeleteCards(p)    ==
  /\ RemoveStep(p, "emptied", "removed")
  /\ cards' = [c \in DOMAIN cards |->
                 IF cards[c].in = p THEN [cards[c] EXCEPT !.state = "deleted"] ELSE cards[c]]
  /\ UNCHANGED room

-----------------------------------------------------------------------------
(* The server stops, and starts again.                                     *)

Crash ==
  /\ up /\ crashes < MaxCrashes
  /\ up' = FALSE /\ crashes' = crashes + 1
  /\ missed' = missed \cup Dropped(Threads)
  /\ pc' = [t \in Threads |-> "idle"] /\ about' = [t \in Threads |-> 0]
  /\ saw' = [t \in Threads |-> {}] /\ ops' = [t \in Threads |-> <<>>]
  /\ mine' = [t \in Threads |-> {}] /\ resume' = {} /\ met' = {}
  /\ managed' = [p \in Projects |->
       IF managed[p] \in {"disabled", "emptied"} THEN "cut" ELSE managed[p]]
  /\ UNCHANGED <<room, cards, asked, edits, failed, passed, raced, edited>>

dangling_rooms == {p \in Projects : Enabled(p) /\ Waiting(p)}
First(S)       == {p \in S : Cardinality({q \in S : q < p}) < ResumeMax}

\* Mutant of Restart: the hook is not called.
RestartOnly ==
  /\ ~up /\ up' = TRUE
  /\ UNCHANGED <<chat, cards, thread, resume, count, past, races>>

Restart ==
  /\ ~up /\ up' = TRUE
  /\ resume' = First(dangling_rooms) /\ passed' = dangling_rooms \ First(dangling_rooms)
  /\ failed' = {}
  /\ UNCHANGED <<chat, cards, thread, count, missed, races>>

\* One room after the other, also when the reply before has raised; the room is
\* not looked at again before the reply.
ResumeNext ==
  /\ pc[Resumer] = "idle"
  /\ \E p \in resume :
       /\ \A q \in resume : p <= q
       /\ resume' = resume \ {p}
       /\ about' = [about EXCEPT ![Resumer] = p]
       /\ failed' = failed \ {p}
  /\ pc' = [pc EXCEPT ![Resumer] = "queued"]
  /\ UNCHANGED <<chat, cards, saw, ops, mine, up, count, missed, passed, races>>

-----------------------------------------------------------------------------
Step(t) ==
  \/ Begin(t) \/ ModelAnswers(t) \/ Answer(t)
  \/ ReadMine(t) \/ AddFound(t) \/ AddChecked(t) \/ AddInserts(t)
  \/ SkipForeign(t) \/ Changes(t) \/ Raises(t)

Next ==
  \/ \E p \in Projects : Post(p) \/ Retry(p) \/ Disable(p) \/ DeleteMessages(p) \/ DeleteCards(p)
  \/ \E e \in Editors, p \in Projects : EditorBegins(e, p)
  \/ \E c \in DOMAIN cards : UserChanges(c)
  \/ \E t \in Threads : Step(t)
  \/ Crash \/ Restart \/ ResumeNext

Spec == Init /\ [][Next]_vars

\* Model calls end (CHAT_TIMEOUT), threads run, and the server is started again after
\* a stop.  A thread at work can always take a step (it may raise), and goes on
\* taking one: that is WF_vars(Step(t)).
Moves(t) == pc'[t] # pc[t] \/ ops'[t] # ops[t]
FairSpec ==
  /\ Spec /\ WF_vars(Restart) /\ WF_vars(ResumeNext)
  /\ \A t \in Threads : []<>(pc[t] = "idle") \/ []<><<Moves(t)>>_vars

-----------------------------------------------------------------------------
Message == [by : {"user", "agent"}, qs : SUBSET (1..MaxQuestions)]
Card    == [in : Projects, title : Titles, state : {"open", "done", "deleted"}]

\* Every variable keeps its type.
TypeOK ==
  /\ room \in [Projects -> Seq(Message)]
  /\ managed \in [Projects -> {"enabled", "disabled", "emptied", "removed", "cut"}]
  /\ cards \in Seq(Card)
  /\ pc \in [Threads -> {"idle", "queued", "model", "answer", "mine", "ops", "insert"}]
  /\ about \in [Threads -> Projects \cup {0}]
  /\ saw \in [Threads -> SUBSET (1..MaxQuestions)]
  /\ ops \in [Threads -> Seq(Op)]
  /\ mine \in [Threads -> SUBSET Nat]
  /\ resume \in SUBSET Projects /\ up \in BOOLEAN
  /\ asked \in 0..MaxQuestions /\ edits \in Nat /\ crashes \in Nat
  /\ missed \in SUBSET (1..MaxQuestions)
  /\ failed \in SUBSET Projects /\ passed \in SUBSET Projects
  /\ met \in SUBSET Threads /\ raced \in SUBSET Nat /\ edited \in SUBSET Nat

\* No question is silently passed over (room_agent.py, "놓침0"): it was in
\* the history of an answer that stands in the room, or a reply is in the
\* making, or it is still last, so that the screen, the retry and the
\* start-up hook see it.  Two ways out are named: its reply ended without an
\* answer, by an exception or a stop, while another answer hides it; and it had
\* left the history before a reply began.
QuestionsAreRead ==
  \A p \in Projects :
    Enabled(p) => Pending(p) \/ Waiting(p) \/ Unread(p) \subseteq missed

\* A room that waits for an answer gets one, also over stops of the server
\* and after an exception in the reply to another room, unless its own reply
\* raises, it was left over by ResumeMax or its project is removed.
WaitingIsAnswered ==
  \A p \in Projects :
    Waiting(p) ~> ~Waiting(p) \/ ~Enabled(p) \/ p \in passed \/ p \in failed

\* Whoever works for a project changes and deletes cards of that project
\* only, whatever ids the model named (apply_ops).
ForeignCardsUntouched ==
  [][\A t \in Threads : pc[t] = "ops" /\ ops'[t] # ops[t] =>
       \A c \in DOMAIN cards : cards'[c] # cards[c] => cards[c].in = about[t]]_vars

\* Two open cards of one title come only from two threads that both looked
\* before either inserted, or from an edit (add_card).
DuplicatesNeedARace ==
  \A c, d \in DOMAIN cards :
    c # d /\ d \in Open(cards[c].in, cards[c].title) /\ cards[c].state = "open" =>
      {c, d} \subseteq raced \/ {c, d} \cap edited # {}

-----------------------------------------------------------------------------
(* What the repository says of the program and the code does not do.       *)

\* "even when it fails it leaves a message in the room, to avoid a silent failure"
\* (room_agent.py:22): at rest nothing is unread and no room waits.  It does not
\* hold: an exception leaves no message (room_agent.py:51-54), and nobody tells the
\* room (room_agent.py:94-95).
EveryQuestionIsAnswered ==
  \A p \in Projects : Enabled(p) /\ up /\ resume = {} => Pending(p) \/ Unread(p) = {}
=============================================================================
