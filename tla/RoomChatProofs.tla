--------------------------- MODULE RoomChatProofs ---------------------------
(* The rooms and the cards, for any number of projects, threads, questions,  *)
(* edits and stops of the server: the types, the cards of one title, the     *)
(* cards of other projects, and the questions that nobody passes over.       *)
EXTENDS RoomChat, FiniteSetTheorems, TLAPS

USE DEF chat, thread, count, races, past

-----------------------------------------------------------------------------
(* The types.                                                              *)

Places == {"idle", "queued", "model", "answer", "mine", "ops", "insert"}

\* The changes a thread has still to do, as the model gave them.
Doable(os) == os \in Seq(Op) /\ \A i \in DOMAIN os : os[i].do = "add" => os[i].title \in Titles

\* Whoever works works for a project and has a change at hand where it needs
\* one; only the tasks and the start-up thread answer questions.
Working ==
  \A t \in Threads :
    /\ pc[t] # "idle" => about[t] \in Projects
    /\ Doable(ops[t]) /\ (pc[t] \in {"mine", "ops", "insert"} => ops[t] # <<>>)
    /\ pc[t] = "insert" => Todo(t).do = "add"
    /\ t \in Editors => pc[t] \notin {"queued", "model", "answer"}

ChatTypes ==
  /\ room \in [Projects -> Seq(Message)]
  /\ managed \in [Projects -> {"enabled", "disabled", "emptied", "removed", "cut"}]
  /\ resume \in SUBSET Projects /\ asked \in 0..MaxQuestions
  /\ saw \in [Threads -> SUBSET (1..MaxQuestions)]

ThreadTypes ==
  /\ pc \in [Threads -> Places] /\ about \in [Threads -> Projects \cup {0}]
  /\ ops \in [Threads -> Seq(Op)] /\ mine \in [Threads -> SUBSET Nat]
  /\ met \in SUBSET Threads /\ Working

CardTypes ==
  /\ cards \in Seq(Card) /\ raced \in SUBSET Nat /\ edited \in SUBSET Nat

CountTypes ==
  /\ up \in BOOLEAN /\ edits \in Nat /\ crashes \in Nat
  /\ passed \in SUBSET Projects

Types == ChatTypes /\ ThreadTypes /\ CardTypes /\ CountTypes

LEMMA Appended ==
  ASSUME NEW S, NEW s \in Seq(S), NEW x \in S
  PROVE  /\ Append(s, x) \in Seq(S) /\ Len(Append(s, x)) = Len(s) + 1 /\ Len(s) \in Nat
         /\ DOMAIN Append(s, x) = DOMAIN s \cup {Len(s) + 1} /\ Len(s) + 1 \notin DOMAIN s
         /\ \A i \in DOMAIN s : Append(s, x)[i] = s[i]
         /\ Append(s, x)[Len(s) + 1] = x
OBVIOUS

\* Rows rewritten one by one are still rows.
LEMMA SameRows ==
  ASSUME NEW S, NEW s \in Seq(S), NEW r, DOMAIN r = DOMAIN s, \A i \in DOMAIN s : r[i] \in S,
         r = [i \in DOMAIN r |-> r[i]]
  PROVE  r \in Seq(S)
<1>1. Len(s) \in Nat /\ DOMAIN s = 1..Len(s)
  OBVIOUS
<1>2. r \in [1..Len(s) -> S]
  BY <1>1
<1> QED
  BY <1>1, <1>2

LEMMA DoableTail ==
  ASSUME NEW os, Doable(os), os # <<>>
  PROVE  Doable(Tail(os)) /\ Head(os) \in Op /\ (Head(os).do = "add" => Head(os).title \in Titles)
         /\ Len(os) \in Nat \ {0} /\ (Len(os) # 1 => Tail(os) # <<>>)
<1>1. /\ os \in Seq(Op) /\ Len(os) \in Nat \ {0} /\ Tail(os) \in Seq(Op) /\ Len(Tail(os)) = Len(os) - 1
      /\ DOMAIN os = 1..Len(os) /\ DOMAIN Tail(os) = 1..Len(os) - 1 /\ Head(os) = os[1]
  BY DEF Doable
<1>2. \A i \in DOMAIN Tail(os) : i + 1 \in DOMAIN os /\ Tail(os)[i] = os[i + 1]
  BY <1>1
<1>3. ASSUME Tail(os) = <<>> PROVE Len(os) = 1
  <2>1. Len(<<>>) = 0
    OBVIOUS
  <2>2. Len(Tail(os)) = 0
    BY <1>3, <2>1, Zenon
  <2>3. \A n \in Nat \ {0} : n - 1 = 0 => n = 1
    OBVIOUS
  <2> QED
    BY <1>1, <2>2, <2>3, Zenon
<1>4. 1 \in DOMAIN os
  BY <1>1
<1> QED
  BY <1>1, <1>2, <1>3, <1>4 DEF Doable

LEMMA ReplyIs == ASSUME NEW r \in Replies PROVE Doable(r)
BY RepliesAssumption DEF Doable

\* What a step leaves of the threads beside t, and what t must be for the types.
Fits1(t) ==
  /\ pc'[t] # "idle" => about'[t] \in Projects
  /\ Doable(ops'[t]) /\ (pc'[t] \in {"mine", "ops", "insert"} => ops'[t] # <<>>)
  /\ pc'[t] = "insert" => Head(ops'[t]).do = "add"
  /\ t \in Editors => pc'[t] \notin {"queued", "model", "answer"}

Others(t) ==
  \A u \in Threads \ {t} : pc'[u] = pc[u] /\ about'[u] = about[u] /\ ops'[u] = ops[u]

LEMMA ThreadMoves ==
  ASSUME ThreadTypes, NEW t \in Threads, Fits1(t), Others(t),
         pc' \in [Threads -> Places], about' \in [Threads -> Projects \cup {0}],
         ops' \in [Threads -> Seq(Op)], mine' \in [Threads -> SUBSET Nat], met' \in SUBSET Threads
  PROVE  ThreadTypes'
<1>1. \A u \in Threads \ {t} :
        /\ pc'[u] # "idle" => about'[u] \in Projects
        /\ Doable(ops'[u]) /\ (pc'[u] \in {"mine", "ops", "insert"} => ops'[u] # <<>>)
        /\ pc'[u] = "insert" => Todo(u)'.do = "add"
        /\ u \in Editors => pc'[u] \notin {"queued", "model", "answer"}
  BY DEF ThreadTypes, Working, Others, Todo
<1>2. Working'
  BY <1>1 DEF Working, Fits1, Todo
<1> QED
  BY <1>2 DEF ThreadTypes

\* A thread is done with the first of its changes.
LEMMA OpDoneIs ==
  ASSUME ThreadTypes, NEW t \in Threads, pc[t] \in {"ops", "insert"}, OpDone(t), met' \in SUBSET Threads
  PROVE  /\ ThreadTypes' /\ Others(t) /\ pc'[t] \in {"idle", "answer", "ops"}
         /\ pc'[t] = "idle" <=> pc'[t] # "ops" /\ t \in Editors
         /\ pc'[t] # "idle" => about'[t] = about[t]
         /\ pc'[t] = "ops" => mine'[t] = mine[t]
         /\ \A u \in Threads \ {t} : mine'[u] = mine[u]
         /\ about[t] \in Projects /\ Todo(t) \in Op /\ (Todo(t).do = "add" => Todo(t).title \in Titles)
<1>1. Doable(ops[t]) /\ ops[t] # <<>> /\ about[t] \in Projects
  BY DEF ThreadTypes, Working
<1>2. /\ Doable(Tail(ops[t])) /\ (Len(ops[t]) # 1 => Tail(ops[t]) # <<>>)
      /\ Todo(t) \in Op /\ (Todo(t).do = "add" => Todo(t).title \in Titles)
  BY <1>1, DoableTail DEF Todo
<1>3. PICK to \in {"idle", "answer", "ops"}, p \in {0, about[t]}, m \in {{}, mine[t]} :
        /\ pc' = [pc EXCEPT ![t] = to] /\ about' = [about EXCEPT ![t] = p]
        /\ mine' = [mine EXCEPT ![t] = m]
        /\ to = "idle" <=> to # "ops" /\ t \in Editors
        /\ to # "idle" => p = about[t]
        /\ to = "ops" => m = mine[t] /\ Len(ops[t]) # 1
  BY DEF OpDone
<1>4. ops' = [ops EXCEPT ![t] = Tail(ops[t])]
  BY DEF OpDone
<1>5. pc'[t] = to /\ about'[t] = p /\ mine'[t] = m /\ ops'[t] = Tail(ops[t]) /\ Others(t)
  BY <1>3, <1>4 DEF ThreadTypes, Others
<1>6. /\ pc' \in [Threads -> Places] /\ about' \in [Threads -> Projects \cup {0}]
      /\ ops' \in [Threads -> Seq(Op)] /\ mine' \in [Threads -> SUBSET Nat]
  <2>1. Tail(ops[t]) \in Seq(Op)
    BY <1>2 DEF Doable
  <2> QED
    BY <1>3, <1>4, <2>1 DEF ThreadTypes, Places
<1>7. Fits1(t)
  BY <1>1, <1>2, <1>3, <1>5 DEF Fits1
<1>8. ThreadTypes'
  BY <1>5, <1>6, <1>7, ThreadMoves
<1>9. \A u \in Threads \ {t} : mine'[u] = mine[u]
  BY <1>3 DEF ThreadTypes
<1> QED
  BY <1>1, <1>2, <1>3, <1>5, <1>8, <1>9

-----------------------------------------------------------------------------
\* Steps of one thread that leave the cards alone.
LEMMA MessageType ==
  ASSUME ChatTypes, NEW p \in Projects, NEW m \in Message, room' = [room EXCEPT ![p] = Append(@, m)]
  PROVE  room' \in [Projects -> Seq(Message)]
<1>1. Append(room[p], m) \in Seq(Message)
  BY Appended DEF ChatTypes
<1> QED
  BY <1>1 DEF ChatTypes

LEMMA HistoryType == ASSUME ChatTypes, NEW p \in Projects PROVE History(p) \in SUBSET (1..MaxQuestions)
<1>1. \A i \in DOMAIN room[p] : room[p][i] \in Message
  BY DEF ChatTypes
<1>2. \A i \in DOMAIN room[p] : room[p][i].qs \in SUBSET (1..MaxQuestions)
  BY <1>1 DEF Message
<1> QED
  BY <1>2 DEF History

LEMMA QueueType ==
  ASSUME ThreadTypes, NEW t, NEW p \in Projects, Queue(t, p), UNCHANGED <<ops, mine, met>>
  PROVE  ThreadTypes'
<1>1. /\ t \in Threads \ Editors /\ pc' = [pc EXCEPT ![t] = "queued"]
      /\ about' = [about EXCEPT ![t] = p]
  BY ThreadsAssumption DEF Queue, Threads
<1>2. Others(t) /\ pc'[t] = "queued" /\ about'[t] = p /\ ops'[t] = ops[t]
  BY <1>1 DEF ThreadTypes, Others
<1>3. Fits1(t)
  BY <1>1, <1>2 DEF Fits1, ThreadTypes, Working
<1>4. pc' \in [Threads -> Places] /\ about' \in [Threads -> Projects \cup {0}]
  BY <1>1 DEF ThreadTypes, Places
<1> QED
  BY <1>1, <1>2, <1>3, <1>4, ThreadMoves DEF ThreadTypes

LEMMA PostTypes ==
  ASSUME Types, NEW p \in Projects, Post(p) \/ Retry(p)
  PROVE  Types'
<1>1. asked \in Nat /\ MaxQuestions \in Nat /\ asked < MaxQuestions /\ asked' = asked + 1
  BY BoundsAssumption DEF Types, ChatTypes, Post, Retry
<1>2. asked' \in 1..MaxQuestions
  BY <1>1
<1>3. room' \in [Projects -> Seq(Message)]
  <2>1. CASE Post(p)
    <3>1. [by |-> "user", qs |-> {asked + 1}] \in Message
      BY <1>1, <1>2 DEF Message
    <3> QED
      BY <2>1, <3>1, MessageType DEF Post, Types
  <2>2. CASE Retry(p)
    BY <2>2 DEF Retry, Types, ChatTypes
  <2> QED
    BY <2>1, <2>2
<1>4. ThreadTypes'
  <2>1. CASE \E t \in Tasks : Queue(t, p)
    BY <2>1, QueueType DEF Post, Retry, Types
  <2>2. CASE UNCHANGED <<pc, about>>
    BY <2>2 DEF Post, Retry, Types, ThreadTypes, Working, Todo
  <2> QED
    BY <2>1, <2>2 DEF Post, Retry
<1>5. UNCHANGED <<managed, cards, saw, resume, up, edits, crashes, passed, raced, edited>>
  BY DEF Post, Retry
<1>6. ChatTypes'
  BY <1>2, <1>3, <1>5 DEF Types, ChatTypes
<1> QED
  BY <1>4, <1>5, <1>6 DEF Types, CardTypes, CountTypes

LEMMA TalkTypes ==
  ASSUME Types, NEW t \in Threads, Begin(t) \/ ModelAnswers(t) \/ Answer(t)
  PROVE  Types'
<1>1. pc[t] \in {"queued", "model", "answer"} /\ t \notin Editors /\ about[t] \in Projects
  BY DEF Begin, ModelAnswers, Answer, Types, ThreadTypes, Working
<1>2. UNCHANGED <<managed, resume, asked, mine, met, cards, raced, edited, up, edits, crashes, passed>>
  BY DEF Begin, ModelAnswers, Answer
<1>3. ChatTypes'
  <2>1. room' \in [Projects -> Seq(Message)]
    <3>1. CASE Answer(t)
      <4>1. [by |-> "agent", qs |-> saw[t]] \in Message
        BY DEF Message, Types, ChatTypes
      <4> QED
        BY <1>1, <3>1, <4>1, MessageType DEF Answer, Types
    <3>2. CASE ~Answer(t)
      BY <3>2 DEF Begin, ModelAnswers, Types, ChatTypes
    <3> QED
      BY <3>1, <3>2
  <2>2. saw' \in [Threads -> SUBSET (1..MaxQuestions)]
    <3>1. \E s \in SUBSET (1..MaxQuestions) : saw' = [saw EXCEPT ![t] = s] \/ saw' = saw
      BY <1>1, HistoryType DEF Begin, ModelAnswers, Answer, Types
    <3>2. PICK s \in SUBSET (1..MaxQuestions) : saw' = [saw EXCEPT ![t] = s] \/ saw' = saw
      BY <3>1
    <3> QED
      BY <3>2 DEF Types, ChatTypes
  <2> QED
    BY <1>2, <2>1, <2>2 DEF Types, ChatTypes
<1>4. /\ Doable(ops[t]) /\ DOMAIN pc = Threads /\ DOMAIN about = Threads /\ ops \in [Threads -> Seq(Op)]
      /\ pc \in [Threads -> Places] /\ about \in [Threads -> Projects \cup {0}]
  BY DEF Types, ThreadTypes, Working
<1>5. Others(t) /\ Fits1(t) /\ ops' \in [Threads -> Seq(Op)]
  <2>1. CASE Begin(t)
    <3>1. Others(t) /\ pc'[t] = "model" /\ about'[t] = about[t] /\ ops'[t] = ops[t]
      BY <1>4, <2>1 DEF Begin, Others
    <3> QED
      BY <1>1, <1>4, <2>1, <3>1 DEF Begin, Fits1
  <2>2. CASE Answer(t)
    <3>1. Others(t) /\ pc'[t] = "idle" /\ ops'[t] = ops[t]
      BY <1>4, <2>2 DEF Answer, Others
    <3> QED
      BY <1>4, <2>2, <3>1 DEF Answer, Fits1
  <2>3. CASE ModelAnswers(t)
    <3>1. PICK r \in Replies : /\ ops' = [ops EXCEPT ![t] = r]
                               /\ pc' = [pc EXCEPT ![t] = IF r = <<>> THEN "answer" ELSE "mine"]
                               /\ about' = about
      BY <2>3 DEF ModelAnswers
    <3>2. Others(t) /\ about'[t] = about[t] /\ ops'[t] = r /\ pc'[t] = IF r = <<>> THEN "answer" ELSE "mine"
      BY <1>4, <3>1 DEF Others
    <3>3. r \in Seq(Op) /\ Doable(r)
      BY ReplyIs DEF Doable
    <3> QED
      BY <1>1, <1>4, <3>1, <3>2, <3>3 DEF Fits1
  <2> QED
    BY <2>1, <2>2, <2>3
<1>6. pc' \in [Threads -> Places]
  <2>1. PICK to \in {"model", "answer", "mine", "idle"} : pc' = [pc EXCEPT ![t] = to]
    BY DEF Begin, ModelAnswers, Answer
  <2> QED
    BY <1>4, <2>1 DEF Places
<1>7. about' \in [Threads -> Projects \cup {0}]
  BY <1>4 DEF Begin, ModelAnswers, Answer
<1>8. ThreadTypes'
  BY <1>2, <1>5, <1>6, <1>7, ThreadMoves DEF Types, ThreadTypes
<1> QED
  BY <1>2, <1>3, <1>8 DEF Types, CardTypes, CountTypes

\* A card that is changed is still one of its project.
LEMMA ChangeIs ==
  ASSUME CardTypes, NEW c \in DOMAIN cards, NEW op, op.title \in Titles \cup {Keep},
         op.to \in {"open", "done", "deleted"}, Change(c, op), raced' = raced
  PROVE  /\ CardTypes' /\ DOMAIN cards' = DOMAIN cards
         /\ \A d \in DOMAIN cards : cards'[d].in = cards[d].in
         /\ \A d \in DOMAIN cards \ {c} : cards'[d] = cards[d]
         /\ edited \subseteq edited'
         /\ cards'[c] = cards[c] \/ cards'[c].state # "open" \/ c \in edited'
<1>1. cards[c] \in Card /\ c \in Nat
  BY DEF CardTypes
<1> DEFINE n == Changed(cards[c], op)
<1>2. n \in Card /\ n.in = cards[c].in /\ (n = cards[c] \/ n.state = op.to)
  <2>1. CASE cards[c].state = "deleted"
    BY <1>1, <2>1 DEF Changed
  <2>2. CASE cards[c].state # "deleted"
    <3>1. n = [cards[c] EXCEPT !.title = IF op.title = Keep THEN @ ELSE op.title, !.state = op.to]
      BY <2>2 DEF Changed
    <3> QED
      BY <1>1, <3>1 DEF Card
  <2> QED
    BY <2>1, <2>2
<1>3. /\ cards' = [cards EXCEPT ![c] = n]
      /\ edited' = IF op.to = "open" /\ n # cards[c] THEN edited \cup {c} ELSE edited
  BY DEF Change
<1> HIDE DEF n
<1>4. cards' \in Seq(Card) /\ DOMAIN cards' = DOMAIN cards /\ cards'[c] = n
      /\ \A d \in DOMAIN cards \ {c} : cards'[d] = cards[d]
  BY <1>2, <1>3 DEF CardTypes
<1>5. edited \subseteq edited' /\ edited' \in SUBSET Nat
  BY <1>1, <1>3 DEF CardTypes
<1>6. cards'[c] = cards[c] \/ cards'[c].state # "open" \/ c \in edited'
  BY <1>2, <1>3, <1>4
<1>7. \A d \in DOMAIN cards : cards'[d].in = cards[d].in
  BY <1>2, <1>4
<1>8. raced' \in SUBSET Nat
  BY DEF CardTypes
<1> QED
  BY <1>4, <1>5, <1>6, <1>7, <1>8 DEF CardTypes

LEMMA BeginsTypes ==
  ASSUME Types, NEW t \in Threads,
         (t \in Editors /\ \E p \in Projects : EditorBegins(t, p)) \/ ReadMine(t) \/ AddChecked(t)
  PROVE  Types'
<1>1. /\ UNCHANGED <<room, managed, resume, asked, saw, cards, raced, edited, up, crashes, passed>>
      /\ edits' \in {edits, edits + 1}
  BY DEF EditorBegins, ReadMine, AddChecked
<1>2. /\ Doable(ops[t]) /\ DOMAIN pc = Threads /\ DOMAIN about = Threads /\ ops \in [Threads -> Seq(Op)]
      /\ pc \in [Threads -> Places] /\ about \in [Threads -> Projects \cup {0}]
      /\ mine \in [Threads -> SUBSET Nat] /\ met \in SUBSET Threads
  BY DEF Types, ThreadTypes, Working
<1>3. Others(t) /\ Fits1(t) /\ ops' \in [Threads -> Seq(Op)]
  <2>1. CASE t \in Editors /\ \E p \in Projects : EditorBegins(t, p)
    <3>1. PICK p \in Projects : EditorBegins(t, p)
      BY <2>1
    <3>2. PICK r \in Replies \ {<<>>} : ops' = [ops EXCEPT ![t] = r]
      BY <3>1 DEF EditorBegins
    <3>3. Others(t) /\ pc'[t] = "mine" /\ about'[t] = p /\ ops'[t] = r
      BY <1>2, <3>1, <3>2 DEF EditorBegins, Others
    <3>4. r \in Seq(Op) /\ Doable(r)
      BY ReplyIs DEF Doable
    <3> QED
      BY <1>2, <3>2, <3>3, <3>4 DEF Fits1
  <2>2. CASE ReadMine(t)
    <3>1. /\ Others(t) /\ pc'[t] = "ops" /\ about'[t] = about[t] /\ ops' = ops /\ pc[t] = "mine"
      BY <1>2, <2>2 DEF ReadMine, Others
    <3> QED
      BY <1>2, <3>1 DEF Fits1, Types, ThreadTypes, Working
  <2>3. CASE AddChecked(t)
    <3>1. /\ Others(t) /\ pc'[t] = "insert" /\ about'[t] = about[t] /\ ops' = ops /\ pc[t] = "ops"
          /\ Head(ops[t]).do = "add"
      BY <1>2, <2>3 DEF AddChecked, Others, Todo
    <3> QED
      BY <1>2, <3>1 DEF Fits1, Types, ThreadTypes, Working
  <2> QED
    BY <2>1, <2>2, <2>3
<1>4. pc' \in [Threads -> Places]
  <2>1. PICK to \in {"mine", "ops", "insert"} : pc' = [pc EXCEPT ![t] = to]
    BY DEF EditorBegins, ReadMine, AddChecked
  <2> QED
    BY <1>2, <2>1 DEF Places
<1>5. about' \in [Threads -> Projects \cup {0}]
  BY <1>2 DEF EditorBegins, ReadMine, AddChecked
<1>6. mine' \in [Threads -> SUBSET Nat]
  <2>1. DOMAIN cards \subseteq Nat
    BY DEF Types, CardTypes
  <2>2. CASE ReadMine(t)
    <3>1. mine' = [mine EXCEPT ![t] =
            {c \in DOMAIN cards : cards[c].in = about[t] /\ cards[c].state # "deleted"}]
      BY <2>2 DEF ReadMine
    <3> QED
      BY <1>2, <2>1, <3>1
  <2>3. CASE ~ReadMine(t)
    BY <1>2, <2>3 DEF EditorBegins, AddChecked
  <2> QED
    BY <2>2, <2>3
<1>7. met' \in SUBSET Threads
  BY <1>2 DEF EditorBegins, ReadMine, AddChecked
<1>8. ThreadTypes'
  BY <1>3, <1>4, <1>5, <1>6, <1>7, ThreadMoves DEF Types
<1> QED
  BY <1>1, <1>8 DEF Types, ChatTypes, CardTypes, CountTypes

LEMMA CardTypesHold ==
  ASSUME Types, NEW t \in Threads, AddFound(t) \/ AddInserts(t) \/ SkipForeign(t) \/ Changes(t)
  PROVE  Types'
<1>1. /\ UNCHANGED <<room, managed, resume, asked, saw, up, edits, crashes, passed>>
      /\ pc[t] \in {"ops", "insert"} /\ OpDone(t) /\ met' \in SUBSET met
  BY DEF AddFound, AddInserts, SkipForeign, Changes
<1>2. /\ ThreadTypes' /\ about[t] \in Projects /\ Todo(t) \in Op
      /\ (Todo(t).do = "add" => Todo(t).title \in Titles)
  BY <1>1, OpDoneIs DEF Types, ThreadTypes
<1>3. CardTypes'
  <2>1. CASE AddFound(t) \/ SkipForeign(t)
    BY <2>1 DEF AddFound, SkipForeign, Types, CardTypes
  <2>2. CASE AddInserts(t)
    <3>1. Todo(t).do = "add"
      BY <2>2 DEF AddInserts, Types, ThreadTypes, Working
    <3> DEFINE new == [in |-> about[t], title |-> Todo(t).title, state |-> "open"]
    <3>2. new \in Card
      BY <1>2, <3>1 DEF Card
    <3>3. cards' = Append(cards, new) /\ raced' \subseteq raced \cup {Len(cards) + 1} /\ edited' = edited
      BY <2>2 DEF AddInserts
    <3> HIDE DEF new
    <3>4. cards \in Seq(Card) /\ raced \in SUBSET Nat /\ edited \in SUBSET Nat
      BY DEF Types, CardTypes
    <3>5. cards' \in Seq(Card) /\ Len(cards) + 1 \in Nat
      BY <3>2, <3>3, <3>4, Appended
    <3> QED
      BY <3>3, <3>4, <3>5 DEF CardTypes
  <2>3. CASE Changes(t)
    <3>1. Change(Todo(t).id, Todo(t)) /\ UNCHANGED raced /\ Todo(t).id \in mine[t]
      BY <2>3 DEF Changes
    <3>2. CASE Todo(t).id \in DOMAIN cards
      BY <1>2, <3>1, <3>2, ChangeIs DEF Op, Types
    <3>3. CASE Todo(t).id \notin DOMAIN cards
      <4>1. PICK x : cards' = [cards EXCEPT ![Todo(t).id] = x]
        BY <3>1 DEF Change
      <4>2. DOMAIN cards' = DOMAIN cards /\ \A i \in DOMAIN cards : cards'[i] = cards[i]
        BY <3>3, <4>1
      <4>3. cards' = [i \in DOMAIN cards' |-> cards'[i]]
        BY <4>1
      <4>4. cards \in Seq(Card) /\ \A i \in DOMAIN cards : cards[i] \in Card
        BY DEF Types, CardTypes
      <4>5. cards' \in Seq(Card)
        BY <4>2, <4>3, <4>4, SameRows
      <4>6. edited' \subseteq edited \cup {Todo(t).id} /\ Todo(t).id \in Nat
        BY <1>2, <3>1 DEF Change, Op
      <4> QED
        BY <3>1, <4>5, <4>6 DEF Types, CardTypes
    <3> QED
      BY <3>2, <3>3
  <2> QED
    BY <2>1, <2>2, <2>3
<1> QED
  BY <1>1, <1>2, <1>3 DEF Types, ChatTypes, CountTypes

LEMMA UserTypes ==
  ASSUME Types, NEW c \in DOMAIN cards, UserChanges(c)
  PROVE  Types'
<1>1. /\ UNCHANGED <<room, managed, resume, asked, saw, pc, about, ops, mine, met, up, crashes, passed, raced>>
      /\ edits' = edits + 1
  BY DEF UserChanges
<1>2. PICK op : op.title \in Titles \cup {Keep} /\ op.to \in {"open", "done", "deleted"} /\ Change(c, op)
  BY DEF UserChanges
<1>3. CardTypes'
  BY <1>1, <1>2, ChangeIs DEF Types
<1> QED
  BY <1>1, <1>3 DEF Types, ChatTypes, ThreadTypes, Working, Todo, CountTypes

LEMMA RemoveTypes ==
  ASSUME Types, NEW p \in Projects, Disable(p) \/ DeleteMessages(p) \/ DeleteCards(p)
  PROVE  Types'
<1>1. /\ UNCHANGED <<resume, asked, saw, pc, about, ops, mine, met, up, edits, crashes, passed, raced, edited>>
      /\ \E to \in {"disabled", "emptied", "removed"} : managed' = [managed EXCEPT ![p] = to]
  BY DEF Disable, DeleteMessages, DeleteCards, RemoveStep
<1>2. room' \in [Projects -> Seq(Message)]
  <2>1. <<>> \in Seq(Message)
    OBVIOUS
  <2> QED
    BY <2>1 DEF Disable, DeleteMessages, DeleteCards, Types, ChatTypes
<1>3. cards' \in Seq(Card)
  <2>1. CASE DeleteCards(p)
    <3>1. /\ cards \in Seq(Card) /\ \A c \in DOMAIN cards : cards[c] \in Card
      BY DEF Types, CardTypes
    <3>2. cards' = [c \in DOMAIN cards |->
                     IF cards[c].in = p THEN [cards[c] EXCEPT !.state = "deleted"] ELSE cards[c]]
      BY <2>1 DEF DeleteCards
    <3>3. DOMAIN cards' = DOMAIN cards /\ cards' = [i \in DOMAIN cards' |-> cards'[i]]
      BY <3>2
    <3>4. \A c \in DOMAIN cards : cards'[c] \in Card
      BY <3>1, <3>2 DEF Card
    <3> QED
      BY <3>1, <3>3, <3>4, SameRows
  <2>2. CASE ~DeleteCards(p)
    BY <2>2 DEF Disable, DeleteMessages, Types, CardTypes
  <2> QED
    BY <2>1, <2>2
<1>4. managed' \in [Projects -> {"enabled", "disabled", "emptied", "removed", "cut"}]
  BY <1>1 DEF Types, ChatTypes
<1>5. ChatTypes'
  BY <1>1, <1>2, <1>4 DEF Types, ChatTypes
<1> QED
  BY <1>1, <1>3, <1>5 DEF Types, ThreadTypes, Working, Todo, CardTypes, CountTypes

LEMMA StopTypes ==
  ASSUME Types, Crash \/ Restart
  PROVE  Types'
<1>1. CASE Crash
  <2>1. /\ pc' = [t \in Threads |-> "idle"] /\ about' = [t \in Threads |-> 0]
        /\ saw' = [t \in Threads |-> {}] /\ ops' = [t \in Threads |-> <<>>]
        /\ mine' = [t \in Threads |-> {}] /\ resume' = {} /\ met' = {}
        /\ UNCHANGED <<room, cards, asked, edits, passed, raced, edited>>
        /\ up' = FALSE /\ crashes' = crashes + 1
    BY <1>1 DEF Crash
  <2>2. Doable(<<>>)
    BY DEF Doable
  <2>3. ThreadTypes'
    BY <2>1, <2>2 DEF ThreadTypes, Working, Places
  <2>4. managed' \in [Projects -> {"enabled", "disabled", "emptied", "removed", "cut"}]
    BY <1>1 DEF Crash, Types, ChatTypes
  <2>5. ChatTypes'
    BY <2>1, <2>4 DEF Types, ChatTypes
  <2>6. CountTypes'
    <3>1. crashes' \in Nat /\ edits' \in Nat /\ passed' \in SUBSET Projects /\ up' \in BOOLEAN
      <4>1. crashes' = crashes + 1 /\ edits' = edits /\ passed' = passed /\ up' = FALSE
        BY <2>1, Zenon
      <4>2. crashes \in Nat /\ edits \in Nat /\ passed \in SUBSET Projects
        BY DEF Types, CountTypes
      <4>3. up' \in BOOLEAN
        BY <4>1, Zenon
      <4>4. crashes' \in Nat /\ edits' \in Nat
        BY <4>1, <4>2
      <4> QED
        BY <4>1, <4>2, <4>3, <4>4, Zenon
    <3> QED
      BY <3>1 DEF CountTypes
  <2>7. CardTypes'
    BY <2>1 DEF Types, CardTypes
  <2> QED
    BY <2>3, <2>5, <2>6, <2>7 DEF Types
<1>2. CASE Restart
  <2>1. /\ UNCHANGED <<room, managed, cards, pc, about, saw, ops, mine, asked, edits, crashes, met, raced, edited>>
        /\ resume' = First(dangling_rooms) /\ passed' = dangling_rooms \ First(dangling_rooms) /\ up' = TRUE
    BY <1>2 DEF Restart
  <2>2. resume' \in SUBSET Projects /\ passed' \in SUBSET Projects
    BY <2>1 DEF First, dangling_rooms
  <2> QED
    BY <2>1, <2>2 DEF Types, ChatTypes, ThreadTypes, Working, Todo, CardTypes, CountTypes
<1> QED
  BY <1>1, <1>2

LEMMA ResumeTypes ==
  ASSUME Types, ResumeNext
  PROVE  Types'
<1>1. PICK p \in resume : resume' = resume \ {p} /\ about' = [about EXCEPT ![Resumer] = p]
  BY DEF ResumeNext
<1>2. /\ pc' = [pc EXCEPT ![Resumer] = "queued"]
      /\ UNCHANGED <<room, managed, cards, saw, ops, mine, up, asked, edits, crashes, passed, met, raced, edited>>
  BY DEF ResumeNext
<1>3. Resumer \in Threads \ Editors /\ p \in Projects
  BY <1>1, ThreadsAssumption DEF Threads, Types, ChatTypes
<1>4. /\ Doable(ops[Resumer]) /\ pc \in [Threads -> Places] /\ about \in [Threads -> Projects \cup {0}]
      /\ ops \in [Threads -> Seq(Op)] /\ mine \in [Threads -> SUBSET Nat] /\ met \in SUBSET Threads
  BY <1>3 DEF Types, ThreadTypes, Working
<1>5. Others(Resumer) /\ Fits1(Resumer)
  BY <1>1, <1>2, <1>3, <1>4 DEF Others, Fits1
<1>6. pc' \in [Threads -> Places] /\ about' \in [Threads -> Projects \cup {0}]
  BY <1>1, <1>2, <1>3, <1>4 DEF Places
<1>7. ThreadTypes'
  BY <1>2, <1>3, <1>4, <1>5, <1>6, ThreadMoves DEF Types
<1> QED
  BY <1>1, <1>2, <1>7 DEF Types, ChatTypes, CardTypes, CountTypes

\* An exception: the thread is free, and has written nothing.
LEMMA RaisesTypes ==
  ASSUME Types, NEW t \in Threads, Raises(t)
  PROVE  Types'
<1>1. /\ pc' = [pc EXCEPT ![t] = "idle"] /\ about' = [about EXCEPT ![t] = 0]
      /\ saw' = [saw EXCEPT ![t] = {}] /\ ops' = [ops EXCEPT ![t] = <<>>]
      /\ mine' = [mine EXCEPT ![t] = {}] /\ met' = met \ {t}
      /\ UNCHANGED <<room, managed, cards, resume, up, asked, edits, crashes, passed, raced, edited>>
  BY DEF Raises
<1>2. /\ pc \in [Threads -> Places] /\ about \in [Threads -> Projects \cup {0}]
      /\ ops \in [Threads -> Seq(Op)] /\ mine \in [Threads -> SUBSET Nat] /\ met \in SUBSET Threads
  BY DEF Types, ThreadTypes
<1>3. Others(t) /\ pc'[t] = "idle" /\ ops'[t] = <<>>
  BY <1>1, <1>2 DEF Others
<1>4. Fits1(t)
  BY <1>3 DEF Fits1, Doable
<1>5. /\ pc' \in [Threads -> Places] /\ about' \in [Threads -> Projects \cup {0}]
      /\ ops' \in [Threads -> Seq(Op)] /\ mine' \in [Threads -> SUBSET Nat] /\ met' \in SUBSET Threads
  BY <1>1, <1>2 DEF Places
<1>6. ThreadTypes'
  BY <1>3, <1>4, <1>5, ThreadMoves DEF Types
<1>7. ChatTypes'
  BY <1>1 DEF Types, ChatTypes
<1> QED
  BY <1>1, <1>6, <1>7 DEF Types, CardTypes, CountTypes

LEMMA TypesHold == Types /\ [Next]_vars => Types'
<1> SUFFICES ASSUME Types, [Next]_vars PROVE Types'
  OBVIOUS
<1>1. CASE UNCHANGED vars
  BY <1>1 DEF vars, Types, ChatTypes, ThreadTypes, Working, Todo, CardTypes, CountTypes
<1>2. CASE \E t \in Threads : Step(t)
  BY <1>2, TalkTypes, BeginsTypes, CardTypesHold, RaisesTypes DEF Step
<1>3. CASE \E e \in Editors, p \in Projects : EditorBegins(e, p)
  <2>1. Editors \subseteq Threads
    BY DEF Threads
  <2> QED
    BY <1>3, <2>1, BeginsTypes
<1> QED
  BY <1>1, <1>2, <1>3, PostTypes, RemoveTypes, UserTypes, StopTypes, ResumeTypes DEF Next

LEMMA TypesInit == Init => Types
<1> SUFFICES ASSUME Init PROVE Types
  OBVIOUS
<1>1. Doable(<<>>)
  BY DEF Doable
<1>2. <<>> \in Seq(Message) /\ <<>> \in Seq(Card)
  OBVIOUS
<1>3. 0 \in 0..MaxQuestions
  BY BoundsAssumption
<1>4. ThreadTypes
  BY <1>1 DEF Init, ThreadTypes, Working, Places
<1>5. ChatTypes
  BY <1>2, <1>3 DEF Init, ChatTypes
<1> QED
  BY <1>2, <1>4, <1>5 DEF Init, Types, CardTypes, CountTypes

\* The history of questions and rooms.
PastTypes == missed \in SUBSET (1..MaxQuestions) /\ failed \in SUBSET Projects

LEMMA UnreadType == ASSUME ChatTypes, NEW p \in Projects PROVE Unread(p) \in SUBSET (1..MaxQuestions)
<1>1. \A i \in DOMAIN room[p] : room[p][i] \in Message
  BY DEF ChatTypes
<1>2. \A i \in DOMAIN room[p] : room[p][i].qs \in SUBSET (1..MaxQuestions)
  BY <1>1 DEF Message
<1> QED
  BY <1>2 DEF Unread, Said

LEMMA DroppedType == ASSUME ChatTypes, NEW D PROVE Dropped(D) \in SUBSET (1..MaxQuestions)
BY UnreadType DEF Dropped

LEMMA PastHolds ==
  ASSUME Types, PastTypes, [Next]_vars
  PROVE  PastTypes'
<1>1. CASE UNCHANGED <<missed, failed>>
  BY <1>1 DEF PastTypes
<1>2. CASE missed' = missed /\ \E S : failed' = failed \ S
  BY <1>2 DEF PastTypes
<1>3. CASE \E t \in Threads : Begin(t)
  <2>1. PICK t \in Threads : Begin(t)
    BY <1>3
  <2>2. about[t] \in Projects
    BY <2>1 DEF Begin, Types, ThreadTypes, Working
  <2>3. Unread(about[t]) \in SUBSET (1..MaxQuestions)
    BY <2>2, UnreadType DEF Types
  <2> QED
    BY <2>1, <2>3 DEF Begin, PastTypes
<1>4. CASE \E t \in Threads : Raises(t)
  <2>1. PICK t \in Threads : Raises(t)
    BY <1>4
  <2>2. about[t] \in Projects
    BY <2>1 DEF Raises, Types, ThreadTypes, Working
  <2>3. Dropped({t}) \in SUBSET (1..MaxQuestions)
    BY DroppedType DEF Types
  <2> QED
    BY <2>1, <2>2, <2>3 DEF Raises, PastTypes
<1>5. CASE Crash
  BY <1>5, DroppedType DEF Crash, PastTypes, Types
<1>6. CASE \E p \in Projects : Post(p) \/ Retry(p)
  BY <1>1, <1>2, <1>6 DEF Post, Retry, Queue
<1>7. CASE Restart \/ ResumeNext
  <2>1. CASE Restart
    BY <2>1 DEF Restart, PastTypes
  <2> QED
    BY <1>2, <1>7, <2>1 DEF ResumeNext
<1>8. CASE \E t \in Threads : Step(t)
  BY <1>1, <1>3, <1>4, <1>8 DEF Step, ModelAnswers, Answer, ReadMine, AddFound, AddChecked, AddInserts, SkipForeign, Changes
<1>9. CASE \/ \E c \in DOMAIN cards : UserChanges(c)
           \/ \E p \in Projects : Disable(p) \/ DeleteMessages(p) \/ DeleteCards(p)
           \/ \E e \in Editors, p \in Projects : EditorBegins(e, p)
           \/ UNCHANGED vars
  <2>1. UNCHANGED <<missed, failed>>
    BY <1>9 DEF UserChanges, Disable, DeleteMessages, DeleteCards, RemoveStep, EditorBegins, vars
  <2> QED
    BY <1>1, <2>1
<1> QED
  BY <1>5, <1>6, <1>7, <1>8, <1>9 DEF Next

\* Every variable of the rooms and the cards keeps its type.
THEOREM TypeCorrect == Spec => []TypeOK
<1> DEFINE I == Types /\ PastTypes
<1>1. I => TypeOK
  BY DEF Types, ChatTypes, ThreadTypes, Places, CardTypes, CountTypes, PastTypes, TypeOK
<1>2. Init => I
  BY TypesInit DEF Init, PastTypes
<1>3. I /\ [Next]_vars => I'
  BY TypesHold, PastHolds
<1> HIDE DEF I
<1> QED
  BY <1>1, <1>2, <1>3, PTL DEF Spec

-----------------------------------------------------------------------------
(* The cards.                                                              *)

\* No step moves a card to another project or forgets its row.
RowsStay == \A c \in DOMAIN cards : c \in DOMAIN cards' /\ cards'[c].in = cards[c].in

\* A step that inserts no card and makes none open but by an edit.
Edits ==
  /\ DOMAIN cards' = DOMAIN cards /\ raced \subseteq raced' /\ edited \subseteq edited'
  /\ \A c \in DOMAIN cards : cards'[c] = cards[c] \/ cards'[c].state # "open" \/ c \in edited'

\* The ids a thread compares with are those of cards of its project.
Own(c, t) == c \in DOMAIN cards /\ cards[c].in = about[t]

\* A thread at its changes was there before, or has just read its ids.
StaysAt(u) ==
  pc'[u] \in {"ops", "insert"} =>
    /\ about'[u] = about[u]
    /\ \/ pc[u] \in {"ops", "insert"} /\ mine'[u] = mine[u]
       \/ \A c \in mine'[u] : Own(c, u)

\* A thread that inserts next did so before, and is still known to have met others.
StaysMet(u) ==
  pc'[u] = "insert" =>
    pc[u] = "insert" /\ about'[u] = about[u] /\ ops'[u] = ops[u] /\ (u \in met => u \in met')

Quiet == Edits /\ \A u \in Threads : StaysMet(u)

LEMMA OneMoves ==
  ASSUME NEW t, Others(t), pc'[t] # "insert", UNCHANGED <<cards, met, raced, edited>>
  PROVE  Quiet /\ RowsStay
<1>1. \A u \in Threads : StaysMet(u)
  BY DEF StaysMet, Others
<1> QED
  BY <1>1 DEF Quiet, Edits, RowsStay

\* What a step of a thread is to the others.
LEMMA QueueIs ==
  ASSUME Types, NEW t, NEW p, Queue(t, p), UNCHANGED <<ops, mine, cards, met, raced, edited>>
  PROVE  Quiet /\ RowsStay /\ \A u \in Threads : StaysAt(u)
<1>1. pc' = [pc EXCEPT ![t] = "queued"] /\ about' = [about EXCEPT ![t] = p] /\ t \in Threads
  BY DEF Queue, Threads
<1>2. pc'[t] = "queued" /\ Others(t)
  BY <1>1 DEF Types, ThreadTypes, Others
<1> QED
  BY <1>2, OneMoves DEF StaysAt, Others

LEMMA TalkIs ==
  ASSUME Types, NEW t \in Threads, Begin(t) \/ ModelAnswers(t) \/ Answer(t)
  PROVE  Quiet /\ RowsStay /\ \A u \in Threads : StaysAt(u)
<1>1. UNCHANGED <<cards, met, raced, edited, mine>>
  BY DEF Begin, ModelAnswers, Answer
<1>2. Others(t) /\ pc'[t] \notin {"ops", "insert"}
  BY DEF Begin, ModelAnswers, Answer, Others, Types, ThreadTypes
<1> QED
  BY <1>1, <1>2, OneMoves DEF StaysAt, Others

LEMMA RaisesIs ==
  ASSUME Types, NEW t \in Threads, Raises(t)
  PROVE  Quiet /\ RowsStay /\ \A u \in Threads : StaysAt(u)
<1>1. UNCHANGED <<cards, raced, edited>> /\ met' = met \ {t}
  BY DEF Raises
<1>2. Others(t) /\ pc'[t] = "idle" /\ \A u \in Threads \ {t} : mine'[u] = mine[u]
  BY DEF Raises, Others, Types, ThreadTypes
<1>3. \A u \in Threads : StaysMet(u)
  BY <1>1, <1>2 DEF StaysMet, Others
<1> QED
  BY <1>1, <1>2, <1>3 DEF Quiet, Edits, RowsStay, StaysAt, Others

LEMMA BeginsIs ==
  ASSUME Types, NEW t \in Threads, (\E p \in Projects : EditorBegins(t, p)) \/ ReadMine(t)
  PROVE  Quiet /\ RowsStay /\ \A u \in Threads : StaysAt(u)
<1>1. UNCHANGED <<cards, met, raced, edited>>
  BY DEF EditorBegins, ReadMine
<1>2. Others(t) /\ pc'[t] # "insert" /\ \A u \in Threads \ {t} : mine'[u] = mine[u]
  BY DEF EditorBegins, ReadMine, Others, Types, ThreadTypes
<1>3. StaysAt(t)
  <2>1. CASE \E p \in Projects : EditorBegins(t, p)
    BY <2>1 DEF EditorBegins, StaysAt, Types, ThreadTypes
  <2>2. CASE ReadMine(t)
    <3>1. about' = about /\ mine'[t] = {c \in DOMAIN cards : cards[c].in = about[t] /\ cards[c].state # "deleted"}
      BY <2>2 DEF ReadMine, Types, ThreadTypes
    <3> QED
      BY <3>1 DEF StaysAt, Own
  <2> QED
    BY <2>1, <2>2
<1> QED
  BY <1>1, <1>2, <1>3, OneMoves DEF StaysAt, Others

LEMMA AddIs ==
  ASSUME Types, NEW t \in Threads, AddChecked(t) \/ AddInserts(t)
  PROVE  RowsStay /\ \A u \in Threads : StaysAt(u)
<1>1. CASE AddChecked(t)
  <2>1. UNCHANGED <<cards, about, mine>> /\ pc' = [pc EXCEPT ![t] = "insert"] /\ pc[t] = "ops"
    BY <1>1 DEF AddChecked
  <2> QED
    BY <2>1 DEF RowsStay, StaysAt, Types, ThreadTypes
<1>2. CASE AddInserts(t)
  <2>1. PICK new : cards' = Append(cards, new)
    BY <1>2 DEF AddInserts
  <2>2. cards \in Seq(Card)
    BY DEF Types, CardTypes
  <2>3. \A c \in DOMAIN cards : c \in DOMAIN cards' /\ cards'[c] = cards[c]
    BY <2>1, <2>2
  <2>4. pc[t] = "insert" /\ OpDone(t) /\ met' \in SUBSET Threads
    BY <1>2 DEF AddInserts, Types, ThreadTypes
  <2>5. \A u \in Threads : StaysAt(u)
    BY <2>4, OpDoneIs DEF StaysAt, Others, Types
  <2> QED
    BY <2>3, <2>5 DEF RowsStay
<1> QED
  BY <1>1, <1>2

LEMMA ChangesIs ==
  ASSUME Types, NEW t \in Threads, AddFound(t) \/ SkipForeign(t) \/ (Changes(t) /\ Todo(t).id \in DOMAIN cards)
  PROVE  /\ Quiet /\ RowsStay /\ \A u \in Threads : StaysAt(u)
         /\ \A c \in DOMAIN cards : cards'[c] # cards[c] => c \in mine[t]
<1>1. pc[t] = "ops" /\ OpDone(t) /\ met' = met /\ raced' = raced
  BY DEF AddFound, SkipForeign, Changes
<1>2. /\ Others(t) /\ pc'[t] # "insert" /\ Todo(t) \in Op
      /\ \A u \in Threads : StaysAt(u)
  BY <1>1, OpDoneIs DEF StaysAt, Others, Types, ThreadTypes
<1>3. CASE AddFound(t) \/ SkipForeign(t)
  BY <1>1, <1>2, <1>3, OneMoves DEF AddFound, SkipForeign
<1>4. CASE Changes(t) /\ Todo(t).id \in DOMAIN cards
  <2>1. Change(Todo(t).id, Todo(t)) /\ Todo(t).id \in mine[t]
    BY <1>4 DEF Changes
  <2>2. /\ DOMAIN cards' = DOMAIN cards /\ edited \subseteq edited'
        /\ \A d \in DOMAIN cards : cards'[d].in = cards[d].in
        /\ \A d \in DOMAIN cards \ {Todo(t).id} : cards'[d] = cards[d]
        /\ cards'[Todo(t).id] = cards[Todo(t).id] \/ cards'[Todo(t).id].state # "open" \/ Todo(t).id \in edited'
    BY <1>1, <1>2, <1>4, <2>1, ChangeIs DEF Op, Types
  <2>3. Edits
    BY <1>1, <2>2 DEF Edits
  <2>4. \A u \in Threads : StaysMet(u)
    BY <1>1, <1>2 DEF StaysMet, Others
  <2> QED
    BY <1>2, <2>1, <2>2, <2>3, <2>4 DEF Quiet, RowsStay
<1> QED
  BY <1>3, <1>4

\* Steps of no thread.
LEMMA OutsideIs ==
  ASSUME Types,
         \/ \E c \in DOMAIN cards : UserChanges(c)
         \/ \E p \in Projects : Disable(p) \/ DeleteMessages(p) \/ DeleteCards(p)
         \/ Crash \/ Restart \/ UNCHANGED vars
  PROVE  /\ Quiet /\ RowsStay /\ \A u \in Threads : StaysAt(u)
         /\ \/ UNCHANGED <<pc, about, ops, mine, saw, resume>>
            \/ Crash
            \/ UNCHANGED <<pc, about, ops, mine, saw>> /\ Restart
<1>1. CASE \E c \in DOMAIN cards : UserChanges(c)
  <2>1. PICK c \in DOMAIN cards : UserChanges(c)
    BY <1>1
  <2>2. UNCHANGED <<pc, about, ops, mine, saw, resume, met, raced>>
    BY <2>1 DEF UserChanges
  <2>3. PICK op : op.title \in Titles \cup {Keep} /\ op.to \in {"open", "done", "deleted"} /\ Change(c, op)
    BY <2>1 DEF UserChanges
  <2>4. Edits /\ RowsStay
    BY <2>2, <2>3, ChangeIs DEF Edits, RowsStay, Types
  <2> QED
    BY <2>2, <2>4 DEF Quiet, StaysMet, StaysAt
<1>2. CASE \E p \in Projects : Disable(p) \/ DeleteMessages(p) \/ DeleteCards(p)
  <2>1. PICK p \in Projects : Disable(p) \/ DeleteMessages(p) \/ DeleteCards(p)
    BY <1>2
  <2>2. UNCHANGED <<pc, about, ops, mine, saw, resume, met, raced, edited>>
    BY <2>1 DEF Disable, DeleteMessages, DeleteCards, RemoveStep
  <2>3. \/ cards' = cards
        \/ cards' = [c \in DOMAIN cards |->
             IF cards[c].in = p THEN [cards[c] EXCEPT !.state = "deleted"] ELSE cards[c]]
    BY <2>1 DEF Disable, DeleteMessages, DeleteCards
  <2>4. \A c \in DOMAIN cards : cards[c] \in Card
    BY DEF Types, CardTypes
  <2>5. /\ DOMAIN cards' = DOMAIN cards
        /\ \A c \in DOMAIN cards : cards'[c].in = cards[c].in /\ (cards'[c] = cards[c] \/ cards'[c].state # "open")
    <3>1. CASE cards' = cards
      BY <3>1
    <3>2. CASE cards' = [c \in DOMAIN cards |->
             IF cards[c].in = p THEN [cards[c] EXCEPT !.state = "deleted"] ELSE cards[c]]
      BY <2>4, <3>2 DEF Card
    <3> QED
      BY <2>3, <3>1, <3>2
  <2> QED
    BY <2>2, <2>5 DEF Quiet, Edits, RowsStay, StaysMet, StaysAt
<1>3. CASE Crash
  <2>1. UNCHANGED <<cards, raced, edited>> /\ pc' = [t \in Threads |-> "idle"]
    BY <1>3 DEF Crash
  <2> QED
    BY <1>3, <2>1 DEF Quiet, Edits, RowsStay, StaysMet, StaysAt
<1>4. CASE Restart
  <2>1. UNCHANGED <<cards, pc, about, saw, ops, mine, met, raced, edited>>
    BY <1>4 DEF Restart
  <2> QED
    BY <1>4, <2>1 DEF Quiet, Edits, RowsStay, StaysMet, StaysAt
<1>5. CASE UNCHANGED vars
  BY <1>5 DEF vars, Quiet, Edits, RowsStay, StaysMet, StaysAt
<1> QED
  BY <1>1, <1>2, <1>3, <1>4, <1>5

LEMMA ResumeIs ==
  ASSUME Types, ResumeNext
  PROVE  Quiet /\ RowsStay /\ \A u \in Threads : StaysAt(u)
<1>1. /\ pc' = [pc EXCEPT ![Resumer] = "queued"] /\ \E p : about' = [about EXCEPT ![Resumer] = p]
      /\ UNCHANGED <<cards, saw, ops, mine, met, raced, edited>>
  BY DEF ResumeNext
<1>2. pc'[Resumer] = "queued" /\ Others(Resumer)
  BY <1>1, ThreadsAssumption DEF Types, ThreadTypes, Threads, Others
<1> QED
  BY <1>1, <1>2, OneMoves DEF StaysAt, Others

MineOK == \A t \in Threads : pc[t] \in {"ops", "insert"} => \A c \in mine[t] : Own(c, t)

Calm == Quiet /\ RowsStay /\ \A u \in Threads : StaysAt(u)

\* Every step but the two statements of add_card is calm.
LEMMA StepIs ==
  ASSUME Types, MineOK, [Next]_vars
  PROVE  \/ Calm
         \/ \E t \in Threads : AddChecked(t) \/ AddInserts(t)
<1>1. CASE \E p \in Projects : Post(p) \/ Retry(p)
  <2>1. PICK p \in Projects : Post(p) \/ Retry(p)
    BY <1>1
  <2>2. CASE \E t \in Tasks : Queue(t, p)
    BY <2>1, <2>2, QueueIs DEF Post, Retry, Calm
  <2>3. CASE UNCHANGED <<pc, about>>
    BY <2>1, <2>3 DEF Post, Retry, Calm, Quiet, Edits, RowsStay, StaysMet, StaysAt
  <2> QED
    BY <2>1, <2>2, <2>3 DEF Post, Retry
<1>2. CASE \E e \in Editors, p \in Projects : EditorBegins(e, p)
  BY <1>2, BeginsIs DEF Calm, Threads
<1>3. CASE \E t \in Threads : Step(t)
  <2>1. PICK t \in Threads : Step(t)
    BY <1>3
  <2>2. CASE Changes(t)
    <3>1. Todo(t).id \in DOMAIN cards
      BY <2>2 DEF Changes, MineOK, Own
    <3> QED
      BY <2>2, <3>1, ChangesIs DEF Calm
  <2> QED
    BY <2>1, <2>2, TalkIs, BeginsIs, ChangesIs, RaisesIs DEF Step, Calm
<1> QED
  BY <1>1, <1>2, <1>3, OutsideIs, ResumeIs DEF Next, Calm

LEMMA MineHolds ==
  ASSUME Types, MineOK, [Next]_vars
  PROVE  MineOK'
<1>1. RowsStay /\ \A u \in Threads : StaysAt(u)
  BY StepIs, AddIs DEF Calm
<1>2. ASSUME NEW u \in Threads, pc'[u] \in {"ops", "insert"}, NEW c \in mine'[u]
      PROVE  c \in DOMAIN cards' /\ cards'[c].in = about'[u]
  <2>1. about'[u] = about[u] /\ Own(c, u)
    BY <1>1, <1>2 DEF StaysAt, MineOK
  <2> QED
    BY <1>1, <2>1 DEF Own, RowsStay
<1> QED
  BY <1>2 DEF MineOK, Own

\* Whatever ids the model names, a thread changes the cards of its project only.
ForeignStep ==
  \A t \in Threads : pc[t] = "ops" /\ ops'[t] # ops[t] =>
    \A c \in DOMAIN cards : cards'[c] # cards[c] => cards[c].in = about[t]

LEMMA ForeignHolds ==
  ASSUME Types, MineOK, [Next]_vars
  PROVE  ForeignStep
<1> SUFFICES ASSUME NEW t \in Threads, pc[t] = "ops", ops'[t] # ops[t],
                    NEW c \in DOMAIN cards, cards'[c] # cards[c]
             PROVE  cards[c].in = about[t]
  BY DEF ForeignStep
<1>1. CASE \E u \in Threads : Step(u)
  <2>1. PICK u \in Threads : Step(u)
    BY <1>1
  <2>2. AddFound(u) \/ AddInserts(u) \/ SkipForeign(u) \/ Changes(u)
    BY <2>1 DEF Step, Begin, ModelAnswers, Answer, ReadMine, AddChecked, Raises
  <2>3. u = t
    <3>1. met' \in SUBSET Threads /\ OpDone(u) /\ pc[u] \in {"ops", "insert"}
      BY <2>2 DEF AddFound, AddInserts, SkipForeign, Changes, Types, ThreadTypes
    <3> QED
      BY <3>1, OpDoneIs DEF Types, Others
  <2>4. CASE Changes(u)
    <3>1. Todo(u).id \in mine[u] /\ Todo(u).id \in DOMAIN cards
      BY <2>4 DEF Changes, MineOK, Own
    <3>2. c \in mine[u]
      BY <2>4, <3>1, ChangesIs
    <3> QED
      BY <2>3, <3>2 DEF MineOK, Own
  <2> QED
    BY <2>2, <2>3, <2>4 DEF AddFound, SkipForeign, AddInserts
<1>2. CASE ~\E u \in Threads : Step(u)
  <2>1. CASE Crash
    BY <2>1 DEF Crash
  <2>2. CASE UNCHANGED <<ops, cards>>
    BY <2>2
  <2>3. CASE \E e \in Editors, p \in Projects : EditorBegins(e, p)
    BY <2>3 DEF EditorBegins
  <2> QED
    BY <1>2, <2>1, <2>2, <2>3 DEF Next, vars, Post, Retry, Disable, DeleteMessages, DeleteCards,
       RemoveStep, UserChanges, Restart, ResumeNext
<1> QED
  BY <1>1, <1>2

\* Whoever works for a project changes cards of that project only.
THEOREM ForeignCardsUntouchedAlways == Spec => ForeignCardsUntouched
<1> DEFINE I == Types /\ MineOK
<1>1. Init => I
  BY TypesInit DEF Init, MineOK
<1>2. I /\ [Next]_vars => I' /\ [ForeignStep]_vars
  BY TypesHold, MineHolds, ForeignHolds
<1> HIDE DEF I
<1> QED
  BY <1>1, <1>2, PTL DEF Spec, ForeignCardsUntouched, ForeignStep

-----------------------------------------------------------------------------
(* The cards of one title.                                                 *)

\* Two threads about to insert a card of one title know of each other.
BothMet ==
  \A t, u \in Threads :
    t # u /\ pc[t] = "insert" /\ pc[u] = "insert" /\ about[u] = about[t] /\ Todo(u).title = Todo(t).title
      => t \in met

\* An open card that a thread about to insert did not find was inserted by one
\* it has met, or made open by an edit.
Overtaken ==
  \A t \in Threads : pc[t] = "insert" =>
    \A c \in Open(about[t], Todo(t).title) : c \notin edited => t \in met /\ c \in raced

TitleInv == BothMet /\ Overtaken /\ DuplicatesNeedARace

LEMMA QuietHolds ==
  ASSUME Types, TitleInv, Quiet, RowsStay
  PROVE  TitleInv'
<1>1. ASSUME NEW t \in Threads, pc'[t] = "insert"
      PROVE  /\ pc[t] = "insert" /\ about'[t] = about[t] /\ Todo(t)' = Todo(t)
             /\ t \in met => t \in met'
  BY <1>1 DEF Quiet, StaysMet, Todo
<1>2. ASSUME NEW c \in DOMAIN cards', cards'[c].state = "open", c \notin edited'
      PROVE  c \in DOMAIN cards /\ cards'[c] = cards[c] /\ c \notin edited
  BY <1>2 DEF Quiet, Edits
<1>3. BothMet'
  BY <1>1 DEF TitleInv, BothMet
<1>4. Overtaken'
  <2> SUFFICES ASSUME NEW t \in Threads, pc'[t] = "insert",
                      NEW c \in DOMAIN cards', cards'[c].in = about'[t], cards'[c].title = Todo(t)'.title,
                      cards'[c].state = "open", c \notin edited'
               PROVE  t \in met' /\ c \in raced'
    BY DEF Overtaken, Open
  <2>1. c \in Open(about[t], Todo(t).title) /\ c \notin edited
    BY <1>1, <1>2 DEF Open
  <2>2. t \in met /\ c \in raced
    BY <1>1, <2>1 DEF TitleInv, Overtaken
  <2> QED
    BY <1>1, <2>2 DEF Quiet, Edits
<1>5. DuplicatesNeedARace'
  <2> SUFFICES ASSUME NEW c \in DOMAIN cards', NEW d \in DOMAIN cards', c # d,
                      cards'[d].in = cards'[c].in, cards'[d].title = cards'[c].title,
                      cards'[d].state = "open", cards'[c].state = "open",
                      c \notin edited', d \notin edited'
               PROVE  c \in raced' /\ d \in raced'
    BY DEF DuplicatesNeedARace, Open
  <2>1. /\ c \in DOMAIN cards /\ cards'[c] = cards[c] /\ c \notin edited
        /\ d \in DOMAIN cards /\ cards'[d] = cards[d] /\ d \notin edited
    BY <1>2
  <2>2. d \in Open(cards[c].in, cards[c].title)
    BY <2>1 DEF Open
  <2>3. {c, d} \subseteq raced \/ {c, d} \cap edited # {}
    BY <2>1, <2>2 DEF TitleInv, DuplicatesNeedARace
  <2> QED
    BY <2>1, <2>3 DEF Quiet, Edits
<1> QED
  BY <1>3, <1>4, <1>5 DEF TitleInv

LEMMA CheckHolds ==
  ASSUME Types, TitleInv, NEW t \in Threads, AddChecked(t)
  PROVE  TitleInv'
<1>1. /\ pc' = [pc EXCEPT ![t] = "insert"] /\ Open(about[t], Todo(t).title) = {}
      /\ UNCHANGED <<cards, about, ops, raced, edited>>
      /\ met' = LET others == {u \in Threads : Together(t, u)} IN
                IF others = {} THEN met ELSE met \cup others \cup {t}
  BY DEF AddChecked
<1>2. /\ met \subseteq met'
      /\ \A u \in Threads : Together(t, u) => u \in met' /\ t \in met'
  BY <1>1
<1>3. pc'[t] = "insert" /\ (\A u \in Threads \ {t} : pc'[u] = pc[u]) /\ \A u \in Threads : Todo(u)' = Todo(u)
  BY <1>1 DEF Types, ThreadTypes, Todo
<1>4. BothMet'
  <2> SUFFICES ASSUME NEW v \in Threads, NEW u \in Threads, v # u, pc'[v] = "insert", pc'[u] = "insert",
                      about[u] = about[v], Todo(u).title = Todo(v).title
               PROVE  v \in met'
    BY <1>1, <1>3 DEF BothMet
  <2>1. CASE v = t
    BY <1>2, <1>3, <2>1 DEF Together
  <2>2. CASE u = t
    BY <1>2, <1>3, <2>2 DEF Together
  <2>3. CASE v # t /\ u # t
    BY <1>2, <1>3, <2>3 DEF TitleInv, BothMet
  <2> QED
    BY <2>1, <2>2, <2>3
<1>5. Overtaken'
  <2> SUFFICES ASSUME NEW u \in Threads, pc'[u] = "insert",
                      NEW c \in Open(about[u], Todo(u).title), c \notin edited
               PROVE  u \in met' /\ c \in raced
    BY <1>1, <1>3 DEF Overtaken, Open
  <2>1. u # t
    BY <1>1
  <2> QED
    BY <1>2, <1>3, <2>1 DEF TitleInv, Overtaken
<1>6. DuplicatesNeedARace'
  BY <1>1 DEF TitleInv, DuplicatesNeedARace, Open
<1> QED
  BY <1>4, <1>5, <1>6 DEF TitleInv

LEMMA InsertHolds ==
  ASSUME Types, TitleInv, NEW t \in Threads, AddInserts(t)
  PROVE  TitleInv'
<1> DEFINE new == Len(cards) + 1
<1>1. /\ pc[t] = "insert" /\ OpDone(t) /\ edited' = edited /\ met' = met \ {t}
      /\ cards' = Append(cards, [in |-> about[t], title |-> Todo(t).title, state |-> "open"])
      /\ raced' = IF t \in met THEN raced \cup {new} ELSE raced
  BY DEF AddInserts
<1>2. /\ Others(t) /\ pc'[t] # "insert" /\ Todo(t).do = "add"
      /\ about[t] \in Projects /\ Todo(t) \in Op /\ (Todo(t).do = "add" => Todo(t).title \in Titles)
  <2>1. met' \in SUBSET Threads
    BY <1>1 DEF Types, ThreadTypes
  <2> QED
    BY <1>1, <2>1, OpDoneIs DEF Types, ThreadTypes, Working
<1>3. /\ DOMAIN cards' = DOMAIN cards \cup {new} /\ new \notin DOMAIN cards
      /\ \A c \in DOMAIN cards : cards'[c] = cards[c]
      /\ cards'[new].in = about[t] /\ cards'[new].title = Todo(t).title /\ cards'[new].state = "open"
  <2> DEFINE card == [in |-> about[t], title |-> Todo(t).title, state |-> "open"]
  <2>1. card \in Card /\ cards \in Seq(Card)
    BY <1>2 DEF Card, Types, CardTypes
  <2>2. card.in = about[t] /\ card.title = Todo(t).title /\ card.state = "open"
    OBVIOUS
  <2>3. cards' = Append(cards, card)
    BY <1>1
  <2> HIDE DEF card
  <2> QED
    BY <2>1, <2>2, <2>3, Appended
<1> HIDE DEF new
<1>4. \A u \in Threads \ {t} : pc'[u] = pc[u] /\ about'[u] = about[u] /\ Todo(u)' = Todo(u)
  BY <1>2 DEF Others, Todo
<1>5. raced \subseteq raced' /\ (t \in met => new \in raced') /\ \A u \in Threads \ {t} : u \in met => u \in met'
  BY <1>1
<1>6. ASSUME NEW c \in DOMAIN cards, c \notin edited, cards[c].state = "open",
             cards[c].in = about[t], cards[c].title = Todo(t).title
      PROVE  c \in raced' /\ new \in raced'
  <2>1. c \in Open(about[t], Todo(t).title)
    BY <1>6 DEF Open
  <2>2. t \in met /\ c \in raced
    BY <1>1, <1>6, <2>1 DEF TitleInv, Overtaken
  <2> QED
    BY <1>5, <2>2
<1>7. BothMet'
  BY <1>2, <1>4, <1>5 DEF TitleInv, BothMet
<1>8. Overtaken'
  <2> SUFFICES ASSUME NEW u \in Threads, pc'[u] = "insert",
                      NEW c \in DOMAIN cards', cards'[c].in = about'[u], cards'[c].title = Todo(u)'.title,
                      cards'[c].state = "open", c \notin edited'
               PROVE  u \in met' /\ c \in raced'
    BY DEF Overtaken, Open
  <2>1. u # t /\ pc[u] = "insert" /\ about'[u] = about[u] /\ Todo(u)' = Todo(u)
    BY <1>2, <1>4
  <2>2. CASE c \in DOMAIN cards
    <3>1. c \in Open(about[u], Todo(u).title) /\ c \notin edited
      BY <1>1, <1>3, <2>1, <2>2 DEF Open
    <3>2. u \in met /\ c \in raced
      BY <2>1, <3>1 DEF TitleInv, Overtaken
    <3> QED
      BY <1>5, <2>1, <3>2
  <2>3. CASE c = new
    <3>1. about[u] = about[t] /\ Todo(u).title = Todo(t).title
      BY <1>3, <2>1, <2>3
    <3>2. t \in met /\ u \in met
      BY <1>1, <2>1, <3>1 DEF TitleInv, BothMet
    <3> QED
      BY <1>5, <2>1, <2>3, <3>2
  <2> QED
    BY <1>3, <2>2, <2>3
<1>9. DuplicatesNeedARace'
  <2> SUFFICES ASSUME NEW c \in DOMAIN cards', NEW d \in DOMAIN cards', c # d,
                      cards'[d].in = cards'[c].in, cards'[d].title = cards'[c].title,
                      cards'[d].state = "open", cards'[c].state = "open",
                      c \notin edited', d \notin edited'
               PROVE  c \in raced' /\ d \in raced'
    BY DEF DuplicatesNeedARace, Open
  <2>1. CASE c \in DOMAIN cards /\ d \in DOMAIN cards
    <3>1. d \in Open(cards[c].in, cards[c].title) /\ cards[c].state = "open" /\ c \notin edited /\ d \notin edited
      BY <1>1, <1>3, <2>1 DEF Open
    <3>2. {c, d} \subseteq raced \/ {c, d} \cap edited # {}
      BY <2>1, <3>1 DEF TitleInv, DuplicatesNeedARace
    <3> QED
      BY <1>5, <3>1, <3>2
  <2>2. CASE c = new /\ d \in DOMAIN cards
    BY <1>1, <1>3, <1>6, <2>2
  <2>3. CASE d = new /\ c \in DOMAIN cards
    BY <1>1, <1>3, <1>6, <2>3
  <2> QED
    BY <1>3, <2>1, <2>2, <2>3
<1> QED
  BY <1>7, <1>8, <1>9 DEF TitleInv

\* Two open cards of one title come from two threads that both looked before
\* either inserted, or from an edit.
THEOREM DuplicatesNeedARaceAlways == Spec => []DuplicatesNeedARace
<1> DEFINE I == Types /\ MineOK /\ TitleInv
<1>1. Init => I
  <2>1. Init => TitleInv
    <3>1. DOMAIN <<>> = {}
      OBVIOUS
    <3> QED
      BY <3>1 DEF Init, TitleInv, BothMet, Overtaken, DuplicatesNeedARace
  <2> QED
    BY <2>1, TypesInit DEF Init, MineOK
<1>2. I /\ [Next]_vars => I'
  BY TypesHold, MineHolds, StepIs, QuietHolds, CheckHolds, InsertHolds DEF Calm
<1>3. I => DuplicatesNeedARace
  BY DEF TitleInv
<1> HIDE DEF I
<1> QED
  BY <1>1, <1>2, <1>3, PTL DEF Spec

-----------------------------------------------------------------------------
(* The questions.                                                          *)

\* Replies in the making read whatever is unread; when nobody is at work the room
\* may wait, and the next reply reads it all.
QuestionInv ==
  \A p \in Projects : Enabled(p) =>
    \/ \A q \in Unread(p) \ missed : \E t \in Repliers : Reads(t, p, q)
    \/ ~Pending(p) /\ Waiting(p)

LEMMA SaidIs ==
  ASSUME NEW p, NEW who, NEW q
  PROVE  q \in Said(p, who) <=> \E i \in DOMAIN room[p] : room[p][i].by = who /\ q \in room[p][i].qs
BY DEF Said

\* A message more.
LEMMA SaidMore ==
  ASSUME ChatTypes, NEW p \in Projects, NEW m \in Message, room' = [room EXCEPT ![p] = Append(@, m)]
  PROVE  /\ \A who : Said(p, who)' = IF m.by = who THEN Said(p, who) \cup m.qs ELSE Said(p, who)
         /\ Waiting(p)' <=> m.by = "user"
         /\ \A r \in Projects \ {p} : room'[r] = room[r]
<1>1. room'[p] = Append(room[p], m) /\ room[p] \in Seq(Message) /\ \A r \in Projects \ {p} : room'[r] = room[r]
  BY DEF ChatTypes
<1>2. /\ DOMAIN room'[p] = DOMAIN room[p] \cup {Len(room[p]) + 1} /\ Len(room[p]) + 1 \notin DOMAIN room[p]
      /\ \A i \in DOMAIN room[p] : room'[p][i] = room[p][i]
      /\ room'[p][Len(room[p]) + 1] = m /\ Len(room'[p]) = Len(room[p]) + 1 /\ Len(room[p]) \in Nat
  BY <1>1, Appended
<1>3. Waiting(p)' <=> m.by = "user"
  <2>1. room'[p] # <<>>
    <3>1. Len(<<>>) = 0
      OBVIOUS
    <3>2. Len(room'[p]) # 0
      BY <1>2
    <3> QED
      BY <3>1, <3>2, Zenon
  <2> QED
    BY <1>2, <2>1 DEF Waiting
<1>4. ASSUME NEW who, NEW q
      PROVE  q \in Said(p, who)' <=> q \in Said(p, who) \/ (m.by = who /\ q \in m.qs)
  <2>1. q \in Said(p, who)' <=> \E i \in DOMAIN room'[p] : room'[p][i].by = who /\ q \in room'[p][i].qs
    BY DEF Said
  <2>2. q \in Said(p, who) <=> \E i \in DOMAIN room[p] : room[p][i].by = who /\ q \in room[p][i].qs
    BY SaidIs
  <2> QED
    BY <1>2, <2>1, <2>2
<1> QED
  BY <1>1, <1>3, <1>4

\* The questions of a room that nobody writes in.
LEMMA SameRoom ==
  ASSUME NEW p, room'[p] = room[p]
  PROVE  Unread(p)' = Unread(p) /\ (Waiting(p)' <=> Waiting(p))
BY DEF Unread, Said, Waiting

LEMMA ReplierIs == Repliers \subseteq Threads /\ Repliers \cap Editors = {}
BY ThreadsAssumption DEF Repliers, Threads

LEMMA PendingIs == ASSUME NEW p PROVE Pending(p) <=> \E t \in Repliers : pc[t] # "idle" /\ about[t] = p
BY DEF Pending, Repliers

\* Nothing happens to questions and replies, but to projects that are removed.
Leaves ==
  /\ missed \subseteq missed'
  /\ \A p \in Projects : Enabled(p)' => Enabled(p) /\ room'[p] = room[p]
  /\ \A t \in Repliers :
       /\ pc'[t] = "idle" <=> pc[t] = "idle"
       /\ pc[t] # "idle" => about'[t] = about[t] /\ saw'[t] = saw[t] /\ (pc[t] = "queued" => pc'[t] = "queued")

LEMMA LeavesHolds ==
  ASSUME QuestionInv, Leaves
  PROVE  QuestionInv'
<1> SUFFICES ASSUME NEW p \in Projects, Enabled(p)'
             PROVE  \/ \A q \in Unread(p)' \ missed' : \E t \in Repliers : Reads(t, p, q)'
                    \/ ~Pending(p)' /\ Waiting(p)'
  BY DEF QuestionInv
<1>1. Enabled(p) /\ Unread(p)' = Unread(p) /\ (Waiting(p)' <=> Waiting(p))
  BY SameRoom DEF Leaves
<1>2. \A t \in Repliers : \A q : Reads(t, p, q) => Reads(t, p, q)'
  BY DEF Leaves, Reads
<1>3. Pending(p)' => Pending(p)
  BY DEF Leaves, Pending, Repliers
<1>4. Unread(p)' \ missed' \subseteq Unread(p) \ missed
  BY <1>1 DEF Leaves
<1> QED
  BY <1>1, <1>2, <1>3, <1>4 DEF QuestionInv

\* A reply is asked for, maybe with a question more.
Asks(t, p) ==
  /\ t \in Repliers /\ pc[t] = "idle" /\ pc' = [pc EXCEPT ![t] = "queued"] /\ about' = [about EXCEPT ![t] = p]
  /\ UNCHANGED <<managed, saw, missed>> /\ \A r \in Projects \ {p} : room'[r] = room[r]

LEMMA AsksHolds ==
  ASSUME Types, QuestionInv, NEW t, NEW p \in Projects, Asks(t, p)
  PROVE  QuestionInv'
<1>1. t \in Threads /\ pc'[t] = "queued" /\ about'[t] = p /\ pc[t] = "idle" /\ t \in Repliers
  BY ReplierIs DEF Asks, Types, ThreadTypes
<1>2. \A u \in Repliers \ {t} : pc'[u] = pc[u] /\ about'[u] = about[u]
  BY ReplierIs DEF Asks, Types, ThreadTypes
<1> SUFFICES ASSUME NEW r \in Projects, Enabled(r)
             PROVE  \/ \A q \in Unread(r)' \ missed' : \E u \in Repliers : Reads(u, r, q)'
                    \/ ~Pending(r)' /\ Waiting(r)'
  BY DEF QuestionInv, Asks, Enabled
<1>3. CASE r = p
  BY <1>1, <1>3 DEF Reads
<1>4. CASE r # p
  <2>1. Unread(r)' = Unread(r) /\ (Waiting(r)' <=> Waiting(r))
    BY <1>4, SameRoom DEF Asks
  <2>2. \A u \in Repliers : \A q : Reads(u, r, q) => Reads(u, r, q)'
    BY <1>1, <1>2 DEF Asks, Reads
  <2>3. Pending(r)' => Pending(r)
    BY <1>1, <1>2, <1>4 DEF Pending, Repliers
  <2>4. Unread(r)' \ missed' = Unread(r) \ missed
    BY <2>1 DEF Asks
  <2> QED
    BY <2>1, <2>2, <2>3, <2>4 DEF QuestionInv
<1> QED
  BY <1>3, <1>4

\* A reply begins: what is unread and not in its history is noted.
LEMMA BeginHolds ==
  ASSUME Types, QuestionInv, NEW t \in Threads, Begin(t)
  PROVE  QuestionInv'
<1>1. /\ pc[t] = "queued" /\ pc' = [pc EXCEPT ![t] = "model"] /\ saw' = [saw EXCEPT ![t] = History(about[t])]
      /\ UNCHANGED <<room, managed, about>>
      /\ missed' = missed \cup (Unread(about[t]) \ History(about[t]))
  BY DEF Begin
<1>2. about[t] \in Projects /\ pc'[t] = "model" /\ saw'[t] = History(about[t])
  BY <1>1 DEF Types, ChatTypes, ThreadTypes, Working
<1>3. \A u \in Repliers \ {t} : pc'[u] = pc[u] /\ saw'[u] = saw[u]
  BY <1>1, ReplierIs DEF Types, ChatTypes, ThreadTypes
<1> SUFFICES ASSUME NEW p \in Projects, Enabled(p)
             PROVE  \/ \A q \in Unread(p) \ missed' : \E u \in Repliers : Reads(u, p, q)'
                    \/ ~Pending(p)' /\ Waiting(p)
  BY <1>1 DEF QuestionInv, Enabled, Unread, Said, Waiting
<1>4. ASSUME NEW q \in Unread(p) \ missed', NEW u \in Repliers, Reads(u, p, q)
      PROVE  Reads(u, p, q)'
  <2>1. CASE u = t
    <3>1. about[t] = p /\ q \in History(p)
      BY <1>1, <1>4, <2>1 DEF Reads
    <3> QED
      BY <1>1, <1>2, <2>1, <3>1 DEF Reads
  <2>2. CASE u # t
    BY <1>1, <1>3, <1>4, <2>2 DEF Reads
  <2> QED
    BY <2>1, <2>2
<1>5. Pending(p)' => Pending(p)
  BY <1>1, <1>2, <1>3 DEF Pending, Repliers
<1>6. Unread(p) \ missed' \subseteq Unread(p) \ missed
  BY <1>1
<1> QED
  BY <1>4, <1>5, <1>6 DEF QuestionInv

\* A reply is written: what it has read is read.
LEMMA AnswerHolds ==
  ASSUME Types, QuestionInv, NEW t \in Threads, Answer(t)
  PROVE  QuestionInv'
<1>1. /\ pc[t] = "answer" /\ pc' = [pc EXCEPT ![t] = "idle"]
      /\ about' = [about EXCEPT ![t] = 0] /\ saw' = [saw EXCEPT ![t] = {}]
      /\ room' = [room EXCEPT ![about[t]] = Append(@, [by |-> "agent", qs |-> saw[t]])]
      /\ UNCHANGED <<managed, missed>>
  BY DEF Answer
<1>2. about[t] \in Projects /\ t \in Repliers /\ saw[t] \in SUBSET (1..MaxQuestions)
  BY <1>1 DEF Types, ChatTypes, ThreadTypes, Working, Threads, Repliers
<1>3. /\ pc'[t] = "idle"
      /\ \A u \in Repliers \ {t} : pc'[u] = pc[u] /\ about'[u] = about[u] /\ saw'[u] = saw[u]
  BY <1>1, ReplierIs DEF Types, ChatTypes, ThreadTypes
<1> DEFINE m == [by |-> "agent", qs |-> saw[t]]
<1>4. m \in Message /\ m.by = "agent" /\ m.qs = saw[t]
  BY <1>2 DEF Message
<1>5. room' = [room EXCEPT ![about[t]] = Append(@, m)]
  BY <1>1
<1> HIDE DEF m
<1> SUFFICES ASSUME NEW p \in Projects, Enabled(p)
             PROVE  \/ \A q \in Unread(p)' \ missed' : \E u \in Repliers : Reads(u, p, q)'
                    \/ ~Pending(p)' /\ Waiting(p)'
  BY <1>1 DEF QuestionInv, Enabled
<1>6. CASE p = about[t]
  <2>1. PICK r \in Projects : r = about[t]
    BY <1>2
  <2>2. \A who : Said(r, who)' = IF m.by = who THEN Said(r, who) \cup m.qs ELSE Said(r, who)
    <3>1. room' = [room EXCEPT ![r] = Append(@, m)]
      BY <1>5, <2>1
    <3>2. ChatTypes
      BY DEF Types
    <3> QED
      BY <1>4, <3>1, <3>2, SaidMore
  <2>3. Said(p, "user")' = Said(p, "user") /\ Said(p, "agent")' = Said(p, "agent") \cup saw[t]
    <3>1. p = r
      BY <1>6, <2>1
    <3> QED
      BY <1>4, <2>2, <3>1
  <2>4. Pending(p)
    BY <1>1, <1>2, <1>6 DEF Pending, Repliers
  <2>5. ASSUME NEW q \in Unread(p)' \ missed PROVE \E u \in Repliers : Reads(u, p, q)'
    <3>1. q \in Unread(p) \ missed /\ q \notin saw[t]
      BY <2>3 DEF Unread
    <3>2. PICK u \in Repliers : Reads(u, p, q)
      BY <2>4, <3>1 DEF QuestionInv
    <3>3. u # t
      BY <1>1, <3>1, <3>2 DEF Reads
    <3> QED
      BY <1>3, <3>2, <3>3 DEF Reads
  <2> QED
    BY <1>1, <2>5
<1>7. CASE p # about[t]
  <2>1. room'[p] = room[p]
    BY <1>1, <1>2, <1>7 DEF Types, ChatTypes
  <2>2. Unread(p)' = Unread(p) /\ (Waiting(p)' <=> Waiting(p))
    BY <2>1, SameRoom
  <2>3. \A u \in Repliers : \A q : Reads(u, p, q) => Reads(u, p, q)'
    BY <1>3, <1>7 DEF Reads
  <2>4. Pending(p)' => Pending(p)
    BY <1>3 DEF Pending, Repliers
  <2> QED
    BY <1>1, <2>2, <2>3, <2>4 DEF QuestionInv
<1> QED
  BY <1>6, <1>7

\* A question that nobody is left to read is noted, but where the room waits and
\* nobody is at work.
LEMMA DroppedIs ==
  ASSUME NEW D, NEW p \in Projects, NEW q \in Unread(p), NEW t \in D \cap Repliers, pc[t] # "idle", about[t] = p,
         ~Waiting(p) \/ \E u \in Repliers \ D : pc[u] # "idle" /\ about[u] = p,
         \A u \in Repliers \ D : ~Reads(u, p, q)
  PROVE  q \in Dropped(D)
BY DEF Dropped

\* An exception ends a reply, or an edit.
LEMMA RaisesHolds ==
  ASSUME Types, QuestionInv, NEW t \in Threads, Raises(t)
  PROVE  QuestionInv'
<1>1. /\ pc[t] # "idle" /\ pc' = [pc EXCEPT ![t] = "idle"] /\ about' = [about EXCEPT ![t] = 0]
      /\ saw' = [saw EXCEPT ![t] = {}] /\ missed' = missed \cup Dropped({t}) /\ UNCHANGED <<room, managed>>
  BY DEF Raises
<1>2. /\ pc'[t] = "idle"
      /\ \A u \in Repliers \ {t} : pc'[u] = pc[u] /\ about'[u] = about[u] /\ saw'[u] = saw[u]
  BY <1>1, ReplierIs DEF Types, ChatTypes, ThreadTypes
<1> SUFFICES ASSUME NEW p \in Projects, Enabled(p)
             PROVE  \/ \A q \in Unread(p) \ missed' : \E u \in Repliers : Reads(u, p, q)'
                    \/ ~Pending(p)' /\ Waiting(p)
  <2>1. \A p \in Projects : Unread(p)' = Unread(p) /\ (Waiting(p)' <=> Waiting(p)) /\ (Enabled(p)' <=> Enabled(p))
    BY <1>1, SameRoom DEF Enabled
  <2> QED
    BY <2>1 DEF QuestionInv
<1>3. \A u \in Repliers \ {t} : \A q : Reads(u, p, q) => Reads(u, p, q)'
  BY <1>2 DEF Reads
<1>4. Pending(p)' => \E u \in Repliers \ {t} : pc[u] # "idle" /\ about[u] = p
  BY <1>2 DEF Pending
<1>5. CASE t \in Repliers /\ about[t] = p
  <2>1. CASE ~Waiting(p) \/ \E u \in Repliers \ {t} : pc[u] # "idle" /\ about[u] = p
    <3>1. ASSUME NEW q \in Unread(p) \ missed' PROVE \E u \in Repliers \ {t} : Reads(u, p, q)
      BY <1>1, <1>5, <2>1, DroppedIs
    <3> QED
      BY <1>3, <3>1
  <2>2. CASE Waiting(p) /\ ~\E u \in Repliers \ {t} : pc[u] # "idle" /\ about[u] = p
    BY <1>4, <2>2
  <2> QED
    BY <2>1, <2>2
<1>6. CASE ~(t \in Repliers /\ about[t] = p)
  <2>1. \A u \in Repliers : \A q : Reads(u, p, q) => Reads(u, p, q)'
    BY <1>3, <1>6 DEF Reads
  <2>2. Pending(p)' => Pending(p)
    BY <1>4 DEF Pending
  <2> QED
    BY <1>1, <2>1, <2>2 DEF QuestionInv
<1> QED
  BY <1>5, <1>6

\* A stop kills the replies, and what they leave to nobody is noted.
LEMMA CrashHolds ==
  ASSUME Types, QuestionInv, Crash
  PROVE  QuestionInv'
<1>1. /\ missed' = missed \cup Dropped(Threads) /\ room' = room /\ pc' = [t \in Threads |-> "idle"]
      /\ managed' = [p \in Projects |->
           IF managed[p] \in {"disabled", "emptied"} THEN "cut" ELSE managed[p]]
  BY DEF Crash
<1> SUFFICES ASSUME NEW p \in Projects, Enabled(p)'
             PROVE  \/ \A q \in Unread(p)' \ missed' : \E t \in Repliers : Reads(t, p, q)'
                    \/ ~Pending(p)' /\ Waiting(p)'
  BY DEF QuestionInv
<1>2. ~Pending(p)' /\ Enabled(p) /\ Unread(p)' = Unread(p) /\ (Waiting(p)' <=> Waiting(p))
  BY <1>1, SameRoom, ReplierIs DEF Pending, Enabled
<1>3. ASSUME ~Waiting(p), NEW q \in Unread(p) \ missed' PROVE FALSE
  <2>1. q \in Unread(p) \ missed /\ q \notin Dropped(Threads)
    BY <1>1
  <2>2. PICK t \in Repliers : Reads(t, p, q)
    BY <1>2, <1>3, <2>1 DEF QuestionInv
  <2>3. t \in Threads \cap Repliers /\ pc[t] # "idle" /\ about[t] = p /\ Repliers \ Threads = {}
    BY <2>2, ReplierIs DEF Reads
  <2> QED
    BY <1>3, <2>1, <2>3, DroppedIs
<1> QED
  BY <1>2, <1>3

LEMMA QuestionHolds ==
  ASSUME Types, QuestionInv, [Next]_vars
  PROVE  QuestionInv'
<1>1. CASE \E p \in Projects : Post(p) \/ Retry(p)
  <2>1. PICK p \in Projects : Post(p) \/ Retry(p)
    BY <1>1
  <2>2. UNCHANGED <<managed, saw, missed>> /\ \A r \in Projects \ {p} : room'[r] = room[r]
    BY <2>1 DEF Post, Retry, Types, ChatTypes
  <2>3. CASE \E t \in Tasks : Queue(t, p)
    BY <2>2, <2>3, AsksHolds DEF Queue, Asks, Repliers
  <2>4. CASE UNCHANGED <<pc, about>> /\ ~Enabled(p)
    BY <2>2, <2>4, LeavesHolds DEF Leaves, Enabled
  <2> QED
    BY <2>1, <2>3, <2>4 DEF Post, Retry
<1>2. CASE ResumeNext
  <2>1. PICK p \in resume : about' = [about EXCEPT ![Resumer] = p]
    BY <1>2 DEF ResumeNext
  <2>2. p \in Projects /\ Asks(Resumer, p)
    BY <1>2, <2>1 DEF ResumeNext, Asks, Repliers, Types, ChatTypes
  <2> QED
    BY <2>2, AsksHolds
<1>3. CASE \E e \in Editors, p \in Projects : EditorBegins(e, p)
  <2>1. PICK e \in Editors, p \in Projects : EditorBegins(e, p)
    BY <1>3
  <2>2. Leaves
    BY <2>1, ReplierIs DEF EditorBegins, Leaves, Enabled, Types, ThreadTypes, Threads
  <2> QED
    BY <2>2, LeavesHolds
<1>4. CASE \E t \in Threads : Step(t)
  <2>1. PICK t \in Threads : Step(t)
    BY <1>4
  <2>2. CASE ModelAnswers(t) \/ ReadMine(t) \/ AddChecked(t)
    <3>1. UNCHANGED <<room, managed, about, saw, missed>> /\ pc[t] \notin {"idle", "queued"}
      BY <2>2 DEF ModelAnswers, ReadMine, AddChecked
    <3>2. PICK to \in {"answer", "mine", "ops", "insert"} : pc' = [pc EXCEPT ![t] = to]
      BY <2>2 DEF ModelAnswers, ReadMine, AddChecked
    <3>3. Leaves
      BY <3>1, <3>2, ReplierIs DEF Leaves, Enabled, Types, ThreadTypes
    <3> QED
      BY <3>3, LeavesHolds
  <2>3. CASE AddFound(t) \/ AddInserts(t) \/ SkipForeign(t) \/ Changes(t)
    <3>1. UNCHANGED <<room, managed, saw, missed>> /\ OpDone(t) /\ pc[t] \in {"ops", "insert"} /\ met' \in SUBSET Threads
      BY <2>3 DEF AddFound, AddInserts, SkipForeign, Changes, Types, ThreadTypes
    <3>2. Leaves
      BY <3>1, OpDoneIs, ReplierIs DEF Leaves, Enabled, Types, Others
    <3> QED
      BY <3>2, LeavesHolds
  <2> QED
    BY <2>1, <2>2, <2>3, BeginHolds, AnswerHolds, RaisesHolds DEF Step
<1>5. CASE \/ \E c \in DOMAIN cards : UserChanges(c)
           \/ \E p \in Projects : Disable(p) \/ DeleteMessages(p) \/ DeleteCards(p)
           \/ Restart \/ UNCHANGED vars
  <2>1. UNCHANGED <<pc, about, saw, missed>>
    BY <1>5 DEF UserChanges, Disable, DeleteMessages, DeleteCards, RemoveStep, Restart, vars
  <2>2. \A p \in Projects : Enabled(p)' => Enabled(p) /\ room'[p] = room[p]
    BY <1>5 DEF UserChanges, Disable, DeleteMessages, DeleteCards, RemoveStep, Restart, vars, Enabled,
       Types, ChatTypes
  <2> QED
    BY <2>1, <2>2, LeavesHolds DEF Leaves
<1> QED
  BY <1>1, <1>2, <1>3, <1>4, <1>5, CrashHolds DEF Next

LEMMA ReadOrWaiting == QuestionInv => QuestionsAreRead
BY DEF QuestionInv, QuestionsAreRead, Unread, Reads, Pending, Repliers

\* No question is silently passed over: with any number of questions, whatever
\* raises and stops, and however short the history, one that no answer stands for,
\* nobody works on and no room waits with is one whose reply ended without an
\* answer or began too late.
THEOREM QuestionsAreReadAlways == Spec => []QuestionsAreRead
<1> DEFINE I == Types /\ QuestionInv
<1>1. Init => I
  <2>1. DOMAIN <<>> = {}
    OBVIOUS
  <2>2. Init => \A p \in Projects : Unread(p) = {}
    BY <2>1 DEF Init, Unread, Said
  <2> QED
    BY <2>2, TypesInit DEF QuestionInv
<1>2. I /\ [Next]_vars => I'
  BY TypesHold, QuestionHolds
<1>3. I => QuestionsAreRead
  BY ReadOrWaiting
<1> HIDE DEF I
<1> QED
  BY <1>1, <1>2, <1>3, PTL DEF Spec
=============================================================================
