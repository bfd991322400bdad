------------------------ MODULE BoardDiscussionProofs ------------------------
(***************************************************************************)
(* Theorems about BoardDiscussion, for every number of agents, sessions,   *)
(* answers, interferences and days.  The properties are about rows; the    *)
(* invariant adds what the workers are about to write: what each may still *)
(* ask about, and the statements of its answer, name rows that it has not  *)
(* judged or followed yet.                                                 *)
(***************************************************************************)
EXTENDS BoardDiscussion, SequenceTheorems, TLAPS

EventsTyped == events \in 0..MaxEvents /\ day \in 1..(1 + events)

USE DEF board, work, EventsTyped

StageNames == {"write", "browse", "feedback", "followup"}

LEMMA StagesAre == ToSet(Stages) = StageNames
BY DEF ToSet, Stages, StageNames

\* The rows but one stay where they are, and the new one is behind them.
LEMMA Appended ==
  ASSUME NEW S, NEW s \in Seq(S), NEW x \in S, NEW t, t = Append(s, x)
  PROVE  /\ t \in Seq(S) /\ DOMAIN t = DOMAIN s \cup {Len(s) + 1} /\ Len(s) + 1 \notin DOMAIN s
         /\ \A i \in DOMAIN s : t[i] = s[i]
         /\ t[Len(s) + 1] = x
<1>1. DOMAIN s = 1..Len(s) /\ Len(s) \in Nat
  OBVIOUS
<1>2. t \in Seq(S) /\ Len(t) = Len(s) + 1 /\ DOMAIN t = 1..Len(t)
  BY AppendProperties
<1>3. DOMAIN t = DOMAIN s \cup {Len(s) + 1} /\ Len(s) + 1 \notin DOMAIN s
  BY <1>1, <1>2
<1> QED
  BY <1>1, <1>2, <1>3, AppendProperties

\* Rows replaced one by one.
LEMMA SameRows ==
  ASSUME NEW S, NEW s \in Seq(S), NEW t, t = [i \in DOMAIN s |-> t[i]], \A i \in DOMAIN s : t[i] \in S
  PROVE  t \in Seq(S)
<1>1. DOMAIN s = 1..Len(s) /\ Len(s) \in Nat
  OBVIOUS
<1>2. t \in [1..Len(s) -> S]
  BY <1>1
<1> QED
  BY <1>1, <1>2, SeqDef

\* The parts of the invariant that the board alone decides.
BoardInv == Linked /\ OnePostADay /\ OneVerdict /\ FollowUpInOneSession
WorkInv  == WorkFits /\ Unwritten /\ Unjudged /\ Unfollowed
ScoreInv == ScoredOver /\ ScoresAreFinal

LEMMA Parts == IInv <=> TypeOK /\ BoardInv /\ WorkInv /\ ScoreInv
BY DEF IInv, BoardInv, WorkInv, ScoreInv

LEMMA BoardKept ==
  ASSUME BoardInv, UNCHANGED board
  PROVE  BoardInv'
BY DEF BoardInv, Linked, OnePostADay, OneVerdict, FollowUpInOneSession

\* No scores change and no reaction is added: what was counted stays final.
LEMMA ScoresKept ==
  ASSUME ScoresAreFinal, UNCHANGED <<board, scores>>, enabled' \subseteq enabled
  PROVE  ScoresAreFinal'
BY DEF ScoresAreFinal, Counted

\* Nobody has anything to do.
LEMMA AtRest ==
  ASSUME \A a \in Agents : todo'[a] = {} /\ ops'[a] = {}, stage' # "closed" => session' \in Sessions
  PROVE  WorkInv'
BY DEF WorkInv, WorkFits, Unwritten, Unjudged, Unfollowed

LEMMA RestsUnlessStage ==
  ASSUME IInv, stage \notin StageNames, NEW a \in Agents
  PROVE  todo[a] = {} /\ ops[a] = {}
BY StagesAre DEF IInv, WorkFits

-----------------------------------------------------------------------------
(* The session moves on.                                                    *)

LEMMA StartInv ==
  ASSUME IInv, Start
  PROVE  IInv'
<1> USE DEF Start
<1>1. session' \in Sessions /\ session' = session + 1 /\ session \in Nat
  BY BoundsAssumption DEF IInv, TypeOK, Sessions
<1>2. TypeOK'
  BY <1>1 DEF IInv, TypeOK, ToSet
<1>3. WorkInv'
  BY <1>1, RestsUnlessStage, AtRest DEF StageNames
<1>4. ScoreInv'
  <2>1. ScoredOver'
    BY <1>1 DEF IInv, ScoredOver, Sessions
  <2> QED
    BY <2>1, ScoresKept DEF IInv, ScoreInv
<1> QED
  BY <1>2, <1>3, <1>4, BoardKept DEF IInv, BoardInv, WorkInv, ScoreInv

LEMMA EndsInv ==
  ASSUME IInv, StagesEnd \/ StageRaises
  PROVE  IInv'
<1> USE DEF StagesEnd, StageRaises
<1>1. \A a \in Agents : todo'[a] = {} /\ ops'[a] = {}
  BY DEF Quiet
<1>2. stage # "closed" /\ UNCHANGED <<board, enabled, session, scores>>
  BY StagesAre DEF StageNames
<1>3. TypeOK'
  <2>1. seen' \in [posts: SUBSET DOMAIN posts, comments: SUBSET DOMAIN comments, day: Nat]
    BY DEF Nothing
  <2>2. EventsTyped'
    BY BoundsAssumption DEF IInv, TypeOK, Event
  <2>3. todo' \in [Agents -> SUBSET ({0} \cup DOMAIN posts)] /\ stage' \in {"score", "closed"}
    OBVIOUS
  <2>4. UNCHANGED <<deleting, ops, day, answers>>
    OBVIOUS
  <2> QED
    BY <1>2, <2>1, <2>2, <2>3, <2>4 DEF IInv, TypeOK
<1>4. WorkInv'
  BY <1>1, <1>2, AtRest DEF IInv, WorkFits
<1>5. ScoreInv'
  <2>1. ScoredOver'
    BY <1>2 DEF IInv, ScoredOver
  <2> QED
    BY <1>2, <2>1, ScoresKept DEF IInv, ScoreInv
<1> QED
  BY <1>2, <1>3, <1>4, <1>5, BoardKept DEF IInv, BoardInv, WorkInv, ScoreInv

LEMMA ScoreStepInv ==
  ASSUME IInv, Score
  PROVE  IInv'
<1> USE DEF Score
<1>1. session \in Sessions
  BY DEF IInv, WorkFits
<1>2. TypeOK'
  <2>1. Counted(session) \subseteq Reaction
    BY DEF Counted, IInv, TypeOK
  <2>2. scores' \in [Sessions -> [taken : BOOLEAN, of : SUBSET Reaction]]
    BY <1>1, <2>1 DEF IInv, TypeOK
  <2> QED
    BY <2>2 DEF IInv, TypeOK
<1>3. WorkInv'
  BY RestsUnlessStage, AtRest DEF StageNames
<1>4. /\ scores'[session] = [taken |-> TRUE, of |-> Counted(session)]
      /\ \A s \in Sessions : s # session => scores'[s] = scores[s]
  BY <1>1 DEF IInv, TypeOK
<1>5. \A s \in Sessions : Counted(s)' = Counted(s)
  BY DEF Counted
<1>6. ScoredOver'
  BY <1>4 DEF IInv, ScoredOver
<1>7. ScoresAreFinal'
  BY <1>4, <1>5 DEF IInv, ScoresAreFinal
<1> QED
  BY <1>2, <1>3, <1>6, <1>7, BoardKept DEF IInv, BoardInv, WorkInv, ScoreInv

\* A stop: what was under way is gone, and its session is to be scored.
LEMMA CrashInv ==
  ASSUME IInv, Crash
  PROVE  IInv'
<1> USE DEF Crash
<1>1. \A a \in Agents : todo'[a] = {} /\ ops'[a] = {}
  OBVIOUS
<1>2. TypeOK'
  <2>1. seen' \in [posts: SUBSET DOMAIN posts, comments: SUBSET DOMAIN comments, day: Nat]
    BY DEF Nothing
  <2>2. EventsTyped'
    BY BoundsAssumption DEF IInv, TypeOK, Event
  <2>3. todo' \in [Agents -> SUBSET ({0} \cup DOMAIN posts)] /\ ops' \in [Agents -> SUBSET Steps]
    OBVIOUS
  <2> QED
    BY <2>1, <2>2, <2>3 DEF IInv, TypeOK
<1>3. WorkInv'
  BY <1>1, AtRest DEF IInv, WorkFits
<1>4. ScoreInv'
  <2>1. ScoredOver'
    BY DEF IInv, ScoredOver
  <2> QED
    BY <2>1, ScoresKept DEF IInv, ScoreInv
<1> QED
  BY <1>2, <1>3, <1>4, BoardKept DEF IInv, BoardInv, WorkInv, ScoreInv

\* A stage reads the board and finds out whom it concerns.
LEMMA NextStageInv ==
  ASSUME IInv, NextStage
  PROVE  IInv'
<1>1. PICK i \in DOMAIN Stages :
        stage' = Stages[i] /\ todo' = [a \in Agents |-> Concerned(Stages[i], a)]
  BY DEF NextStage
<1>2. /\ stage' \in StageNames /\ stage # "closed" /\ stage' # "closed"
      /\ seen' = [posts |-> Visible, comments |-> CommentsOn(Visible), day |-> day]
      /\ UNCHANGED <<board, enabled, deleting, session, ops, scores, day, answers, events>>
      /\ \A a \in Agents : ops[a] = {}
  BY <1>1, StagesAre DEF NextStage, StageNames, ToSet, Quiet
<1>3. \A a \in Agents : todo'[a] = Concerned(stage', a)
  BY <1>1
<1>4. Visible \subseteq DOMAIN posts /\ CommentsOn(Visible) \subseteq DOMAIN comments
  BY DEF Visible, CommentsOn
<1>5. TypeOK'
  <2>1. \A a \in Agents : Concerned(stage', a) \subseteq {0} \cup DOMAIN posts
    BY <1>2, <1>4 DEF Concerned, StageNames
  <2>2. todo' \in [Agents -> SUBSET ({0} \cup DOMAIN posts)]
    BY <1>1, <2>1
  <2>3. seen' \in [posts: SUBSET DOMAIN posts, comments: SUBSET DOMAIN comments, day: Nat]
    BY <1>2, <1>4 DEF IInv, TypeOK
  <2> QED
    BY <1>2, <2>2, <2>3, StagesAre DEF IInv, TypeOK
<1>6. WorkFits'
  <2>1. stage' = "feedback" => \A a \in Agents : \A p \in todo'[a] : p \in seen'.posts /\ posts'[p].author = a
    BY <1>2, <1>3 DEF Concerned
  <2> QED
    BY <1>2, <2>1, StagesAre DEF IInv, WorkFits
<1>7. Unwritten'
  <2> SUFFICES ASSUME stage' = "write", NEW a \in Agents, 0 \in todo'[a], NEW p \in DOMAIN posts,
                      posts[p].author = a, posts[p].day = day, ~posts[p].gone
               PROVE  FALSE
    BY <1>2 DEF Unwritten
  <2>1. ~HasPosted(a)
    BY <1>3 DEF Concerned
  <2> QED
    BY <2>1 DEF HasPosted, Visible
<1>8. Unjudged'
  BY <1>2 DEF Unjudged
<1>9. Unfollowed'
  <2> SUFFICES ASSUME NEW x \in DOMAIN comments, comments[x].parent \in CommentsOn(Visible)
               PROVE  x \in CommentsOn(Visible)
    BY <1>2 DEF Unfollowed
  <2>1. comments[x].parent \in DOMAIN comments /\ comments[x].parent # 0
    BY <1>4 DEF IInv, TypeOK
  <2>2. comments[comments[x].parent].post = comments[x].post
    BY <2>1 DEF IInv, Linked
  <2> QED
    BY <2>2 DEF CommentsOn
<1>10. ScoreInv'
  <2>1. ScoredOver'
    BY <1>2 DEF IInv, ScoredOver
  <2> QED
    BY <1>2, <2>1, ScoresKept DEF IInv, ScoreInv
<1> QED
  BY <1>2, <1>5, <1>6, <1>7, <1>8, <1>9, <1>10, BoardKept DEF IInv, BoardInv, ScoreInv

-----------------------------------------------------------------------------
(* A worker asks, and gets steps that fit its stage.                        *)

LEMMA AskInv ==
  ASSUME IInv, NEW a \in Agents, NEW s \in StageNames, NEW p, NEW steps, Ask(a, s, p, steps),
         s \in {"write", "followup"} => p = 0,
         steps \subseteq Steps, \A op \in steps : StepFits(a, op),
         \A op \in steps : op.do = "react" /\ op.target = "comment" =>
           \A r \in reactions : r.target = "comment" => r.id # op.id,
         s = "followup" => \A op \in steps : \A x \in DOMAIN comments :
           comments[x].author = a => comments[x].parent # op.parent
  PROVE  IInv'
<1> USE DEF Ask
<1>1. /\ todo'[a] = todo[a] \ {p} /\ ops'[a] = steps /\ stage = s
      /\ \A b \in Agents : b # a => todo'[b] = todo[b] /\ ops'[b] = ops[b]
      /\ UNCHANGED <<board, enabled, deleting, session, stage, seen, scores, day, events>>
  BY DEF IInv, TypeOK
<1>2. \A b \in Agents : todo'[b] \subseteq todo[b]
  BY <1>1
<1>3. TypeOK'
  <2>1. answers' \in 0..MaxAnswers
    BY BoundsAssumption DEF IInv, TypeOK
  <2>2. todo' \in [Agents -> SUBSET ({0} \cup DOMAIN posts)]
    BY DEF IInv, TypeOK
  <2>3. ops' \in [Agents -> SUBSET Steps]
    BY DEF IInv, TypeOK
  <2> QED
    BY <1>1, <2>1, <2>2, <2>3 DEF IInv, TypeOK
<1>4. WorkFits'
  <2>1. \A b \in Agents : \A op \in ops'[b] : StepFits(b, op)'
    BY <1>1 DEF IInv, WorkFits, StepFits, OnOwn
  <2>2. stage' \in {"write", "followup"} => \A b \in Agents : ops'[b] # {} => 0 \notin todo'[b]
    BY <1>1, <1>2 DEF IInv, WorkFits
  <2>3. \A b \in Agents : todo'[b] # {} \/ ops'[b] # {} => stage' \in ToSet(Stages)
    BY <1>1, StagesAre DEF IInv, WorkFits
  <2> QED
    BY <1>1, <1>2, <2>1, <2>2, <2>3 DEF IInv, WorkFits
<1>5. Unwritten'
  BY <1>1, <1>2 DEF IInv, Unwritten
<1>6. Unjudged'
  BY <1>1 DEF IInv, Unjudged
<1>7. Unfollowed'
  BY <1>1, <1>2 DEF IInv, Unfollowed
<1>8. ScoreInv'
  <2>1. ScoredOver'
    BY <1>1 DEF IInv, ScoredOver
  <2> QED
    BY <1>1, <2>1, ScoresKept DEF IInv, ScoreInv
<1> QED
  BY <1>1, <1>3, <1>4, <1>5, <1>6, <1>7, <1>8, BoardKept DEF IInv, BoardInv, ScoreInv

LEMMA AskWriteInv ==
  ASSUME IInv, NEW a \in Agents, AskWrite(a)
  PROVE  IInv'
<1>1. Write \in Steps /\ Write.do = "write"
  BY DEF Steps, Write
<1>2. StepFits(a, Write)
  BY DEF StepFits, AskWrite, Ask
<1>3. Ask(a, "write", 0, {Write})
  BY DEF AskWrite
<1> QED
  BY <1>1, <1>2, <1>3, AskInv DEF StageNames

\* A comment of an answer is one of those it is about, counted.
LEMMA EachOf ==
  ASSUME NEW S, NEW times \in Times(S), NEW e \in Each(times)
  PROVE  e[1] \in S /\ e[2] \in 1..MaxSteps
BY DEF Times, Each

LEMMA AskBrowseInv ==
  ASSUME IInv, NEW a \in Agents, AskBrowse(a)
  PROVE  IInv'
<1>10. PICK opened \in SUBSET seen.posts, liked \in SUBSET seen.posts, disliked \in SUBSET seen.posts,
            said \in SUBSET seen.posts :
         \E kept \in Times(said) :
           Ask(a, "browse", 0, BrowseSteps(a, opened, liked, disliked, said, kept))
  BY DEF AskBrowse, Kept
<1>1. PICK kept \in Times(said) :
        Ask(a, "browse", 0, BrowseSteps(a, opened, liked, disliked, said, kept))
  BY <1>10
<1> DEFINE steps == BrowseSteps(a, opened, liked, disliked, said, kept)
<1>2. stage = "browse"
  BY DEF AskBrowse
<1>3. ASSUME NEW op \in steps
      PROVE  /\ op \in Steps
             /\ \/ op.do = "react" /\ op.target = "post" /\ op.id \in seen.posts
                \/ op.do = "say" /\ op.post \in seen.posts /\ op.parent = 0
  <2>1. seen.posts \subseteq Nat
    BY DEF IInv, TypeOK
  <2>2. \/ \E p \in seen.posts, kind \in DOMAIN Rank : op = React("post", p, kind)
        \/ \E p \in seen.posts, n \in 1..MaxSteps : op = Say(p, 0, n)
    BY <1>3, EachOf DEF BrowseSteps, Rank
  <2>3. CASE \E p \in seen.posts, kind \in DOMAIN Rank : op = React("post", p, kind)
    BY <2>1, <2>3 DEF React, Steps
  <2>4. CASE \E p \in seen.posts, n \in 1..MaxSteps : op = Say(p, 0, n)
    BY <2>1, <2>4 DEF Say, Steps
  <2> QED
    BY <2>2, <2>3, <2>4
<1>4. \A op \in steps : StepFits(a, op)
  BY <1>2, <1>3 DEF StepFits
<1>5. \A op \in steps : ~(op.do = "react" /\ op.target = "comment")
  BY <1>3
<1> HIDE DEF steps
<1> QED
  BY <1>1, <1>3, <1>4, <1>5, AskInv DEF steps, StageNames

\* A comment nobody reacted to but its post's author is judged only when the
\* author has not.
LEMMA AskFeedbackInv ==
  ASSUME IInv, NEW a \in Agents, AskFeedback(a)
  PROVE  IInv'
<1>1. PICK p \in todo[a] :
        \E liked \in SUBSET Unanswered(a, p), disliked \in SUBSET Unanswered(a, p),
           replies \in Times(Unanswered(a, p)) :
          Ask(a, "feedback", p, FeedbackSteps(p, liked, disliked, replies))
  BY DEF AskFeedback
<1>2. PICK liked \in SUBSET Unanswered(a, p), disliked \in SUBSET Unanswered(a, p),
           replies \in Times(Unanswered(a, p)) :
        Ask(a, "feedback", p, FeedbackSteps(p, liked, disliked, replies))
  BY <1>1
<1> DEFINE steps == FeedbackSteps(p, liked, disliked, replies)
<1>3. stage = "feedback"
  BY DEF AskFeedback
<1>4. p \in seen.posts /\ posts[p].author = a /\ seen.posts \subseteq DOMAIN posts
  BY <1>3 DEF IInv, WorkFits, TypeOK
<1>5. ASSUME NEW c \in Unanswered(a, p)
      PROVE  /\ OnOwn(a, c) /\ comments[c].post = p /\ c \in Nat /\ p \in Nat
             /\ \A r \in reactions : r.target = "comment" => r.id # c
  <2>1. c \in seen.comments /\ comments[c].post = p /\ comments[c].parent = 0
        /\ \A k \in {"like", "dislike"} : ~Reacted(a, "comment", c, k)
    BY <1>5 DEF Unanswered, ReactedIds
  <2>2. OnOwn(a, c) /\ c \in Nat /\ p \in Nat
    BY <1>4, <2>1 DEF OnOwn, IInv, TypeOK
  <2>3. ASSUME NEW r \in reactions, r.target = "comment", r.id = c
        PROVE  FALSE
    <3>1. r.by = a /\ r.kind \in {"like", "dislike"}
      BY <1>4, <2>1, <2>3 DEF IInv, Linked, TypeOK, Reaction
    <3> QED
      BY <2>1, <2>3, <3>1 DEF Reacted
  <2> QED
    BY <2>1, <2>2, <2>3
<1>6. ASSUME NEW op \in steps
      PROVE  /\ op \in Steps
             /\ \/ /\ op.do = "react" /\ op.target = "comment" /\ op.kind # "view"
                   /\ op.id \in Unanswered(a, p)
                \/ op.do = "say" /\ op.parent \in Unanswered(a, p) /\ op.post = p
  <2>1. \/ \E c \in Unanswered(a, p), k \in {"like", "dislike"} : op = React("comment", c, k)
        \/ \E c \in Unanswered(a, p), n \in 1..MaxSteps : op = Say(p, c, n)
    BY <1>6, EachOf DEF FeedbackSteps
  <2>2. CASE \E c \in Unanswered(a, p), k \in {"like", "dislike"} : op = React("comment", c, k)
    BY <1>5, <2>2 DEF React, Steps, Rank
  <2>3. CASE \E c \in Unanswered(a, p), n \in 1..MaxSteps : op = Say(p, c, n)
    BY <1>5, <2>3 DEF Say, Steps
  <2> QED
    BY <2>1, <2>2, <2>3
<1>7. \A op \in steps : StepFits(a, op)
  BY <1>3, <1>5, <1>6 DEF StepFits
<1>8. \A op \in steps : op.do = "react" /\ op.target = "comment" =>
        \A r \in reactions : r.target = "comment" => r.id # op.id
  BY <1>5, <1>6
<1>9. Ask(a, "feedback", p, steps) /\ "feedback" \in StageNames
  BY <1>2 DEF StageNames
<1>10. steps \subseteq Steps
  BY <1>6
<1> HIDE DEF steps
<1> QED
  BY <1>7, <1>8, <1>9, <1>10, AskInv

\* A reply is answered only when the stage has read no answer to it, and this
\* worker has not answered since.
LEMMA AskFollowupInv ==
  ASSUME IInv, NEW a \in Agents, AskFollowup(a)
  PROVE  IInv'
<1>1. PICK times \in Times(Threads(a)) :
        Ask(a, "followup", 0, {Say(comments[e[1]].post, e[1], e[2]) : e \in Each(times)})
  BY DEF AskFollowup
<1> DEFINE steps == {Say(comments[e[1]].post, e[1], e[2]) : e \in Each(times)}
<1>2. stage = "followup" /\ 0 \in todo[a]
  BY <1>1 DEF Ask
<1>3. ASSUME NEW op \in steps
      PROVE  /\ op \in Steps /\ op.do = "say" /\ op.parent \in seen.comments
             /\ op.post = comments[op.parent].post
             /\ \A x \in seen.comments : comments[x].parent # op.parent
  <2>1. PICK r \in Threads(a), n \in 1..MaxSteps : op = Say(comments[r].post, r, n)
    BY <1>3, EachOf
  <2>2. r \in seen.comments /\ \A x \in seen.comments : comments[x].parent # r
    BY <2>1 DEF Threads, Thread
  <2>3. r \in DOMAIN comments /\ r \in Nat /\ comments[r].post \in Nat
    <3>1. r \in DOMAIN comments /\ r \in Nat
      BY <2>2 DEF IInv, TypeOK
    <3>2. comments[r] \in Comment
      BY <3>1 DEF IInv, TypeOK
    <3> QED
      BY <3>1, <3>2 DEF Comment
  <2> QED
    BY <2>1, <2>2, <2>3 DEF Say, Steps
<1>4. \A op \in steps : StepFits(a, op)
  BY <1>2, <1>3 DEF StepFits
<1>5. \A op \in steps : \A x \in DOMAIN comments : comments[x].author = a => comments[x].parent # op.parent
  BY <1>2, <1>3 DEF IInv, Unfollowed
<1>6. Ask(a, "followup", 0, steps) /\ "followup" \in StageNames
  BY <1>1 DEF StageNames
<1>7. steps \subseteq Steps /\ \A op \in steps : op.do # "react"
  BY <1>3
<1> HIDE DEF steps
<1> QED
  BY <1>4, <1>5, <1>6, <1>7, AskInv

-----------------------------------------------------------------------------
(* A worker carries out a step, and users say something.                    *)

\* Rows stay where they are and keep what they were made with.
RowsStay ==
  /\ \A p \in DOMAIN posts :
       /\ p \in DOMAIN posts'
       /\ posts'[p].author = posts[p].author /\ posts'[p].day = posts[p].day
  /\ \A c \in DOMAIN comments :
       /\ c \in DOMAIN comments'
       /\ comments'[c].post = comments[c].post /\ comments'[c].author = comments[c].author
       /\ comments'[c].parent = comments[c].parent

\* Nobody has more to do than before, and what the stage has read is there.
WorkShrinks ==
  /\ \A b \in Agents : todo'[b] \subseteq todo[b] /\ ops'[b] \subseteq ops[b]
  /\ RowsStay /\ UNCHANGED <<seen, stage, session>>

LEMMA WorkFitsKept ==
  ASSUME IInv, WorkShrinks
  PROVE  WorkFits'
<1> USE DEF WorkShrinks
<1>1. /\ seen.posts \subseteq DOMAIN posts /\ seen.comments \subseteq DOMAIN comments
      /\ \A b \in Agents : \A p \in todo[b] : p = 0 \/ p \in DOMAIN posts
      /\ \A c \in DOMAIN comments : comments[c].post \in DOMAIN posts
  BY DEF IInv, TypeOK, Linked
<1>2. ASSUME NEW b \in Agents, NEW c, OnOwn(b, c)
      PROVE  OnOwn(b, c)'
  BY <1>1, <1>2 DEF OnOwn, RowsStay
<1>3. ASSUME NEW b \in Agents, NEW op \in ops'[b]
      PROVE  StepFits(b, op)'
  <2>1. op \in ops[b] /\ StepFits(b, op)
    BY <1>3 DEF IInv, WorkFits
  <2>2. \A c \in seen.comments : comments'[c].post = comments[c].post
    BY <1>1 DEF RowsStay
  <2>3. \A c : OnOwn(b, c) => OnOwn(b, c)' /\ c \in seen.comments
    BY <1>2 DEF OnOwn
  <2> QED
    BY <2>1, <2>2, <2>3 DEF StepFits
<1>4. stage' = "feedback" => \A b \in Agents : \A p \in todo'[b] : p \in seen'.posts /\ posts'[p].author = b
  BY <1>1 DEF IInv, WorkFits, RowsStay
<1>5. \A b \in Agents : todo'[b] # {} \/ ops'[b] # {} => stage' \in ToSet(Stages)
  BY DEF IInv, WorkFits
<1>6. stage' \in {"write", "followup"} => \A b \in Agents : ops'[b] # {} => 0 \notin todo'[b]
  BY DEF IInv, WorkFits
<1>7. stage' # "closed" => session' \in Sessions
  BY DEF IInv, WorkFits
<1> QED
  BY <1>3, <1>4, <1>5, <1>6, <1>7 DEF WorkFits

\* A step is done: what remains is the rest.
LEMMA Done ==
  ASSUME IInv, NEW a \in Agents, NEW op \in ops[a], ops' = [ops EXCEPT ![a] = @ \ {op}]
  PROVE  /\ ops' \in [Agents -> SUBSET Steps]
         /\ ops'[a] = ops[a] \ {op}
         /\ \A b \in Agents : ops'[b] \subseteq ops[b]
         /\ op \in Steps /\ StepFits(a, op)
BY DEF IInv, TypeOK, WorkFits

LEMMA OneStep ==
  ASSUME IInv, NEW a \in Agents, Do(a)
  PROVE  \E op \in ops[a] :
           /\ ops' = [ops EXCEPT ![a] = @ \ {op}]
           /\ UNCHANGED <<enabled, deleting, session, stage, seen, todo, scores, day, answers, events>>
           /\ \/ /\ op.do = "write"
                 /\ posts' = Append(posts, [author |-> a, day |-> seen.day, session |-> session, gone |-> FALSE])
                 /\ UNCHANGED <<comments, reactions>>
              \/ /\ op.do = "react"
                 /\ reactions' = IF Reacted(a, op.target, op.id, op.kind) THEN reactions
                                 ELSE reactions \cup {[by |-> a, target |-> op.target, id |-> op.id,
                                                       kind |-> op.kind, session |-> session]}
                 /\ UNCHANGED <<posts, comments>>
              \/ /\ op.do = "say"
                 /\ comments' = Append(comments, [post |-> op.post, author |-> a, parent |-> op.parent,
                                             session |-> session, gone |-> FALSE])
                 /\ UNCHANGED <<posts, reactions>>
BY DEF Do

\* Who writes a post has none of that day, and nothing else to do.
LEMMA WriteInv ==
  ASSUME IInv, NEW a \in Agents, NEW op \in ops[a], op.do = "write",
         ops' = [ops EXCEPT ![a] = @ \ {op}],
         posts' = Append(posts, [author |-> a, day |-> seen.day, session |-> session, gone |-> FALSE]),
         UNCHANGED <<comments, reactions, enabled, deleting, session, stage, seen, todo, scores, day, answers, events>>
  PROVE  IInv'
<1> DEFINE row == [author |-> a, day |-> seen.day, session |-> session, gone |-> FALSE]
           new == Len(posts) + 1
<1>1. stage = "write" /\ op = Write /\ ops[a] = {Write} /\ ops'[a] = {} /\ 0 \notin todo[a]
  <2>1. \A x \in ops[a] : StepFits(a, x)
    BY DEF IInv, WorkFits
  <2>2. stage = "write"
    BY <2>1 DEF StepFits
  <2>3. \A x \in ops[a] : x = Write
    BY <2>1, <2>2 DEF StepFits
  <2>4. ops'[a] = ops[a] \ {op}
    BY Done
  <2>5. 0 \notin todo[a]
    BY <2>2 DEF IInv, WorkFits
  <2> QED
    BY <2>2, <2>3, <2>4, <2>5
<1>2. session \in Sessions /\ seen.day \in Nat
  BY <1>1 DEF IInv, WorkFits, TypeOK
<1>3. /\ row \in Post /\ row.author = a /\ row.day = seen.day /\ ~row.gone
  BY <1>2 DEF Post
<1>4. posts \in Seq(Post) /\ posts' = Append(posts, row)
  BY DEF IInv, TypeOK
<1> HIDE DEF row
<1>5. /\ posts' \in Seq(Post) /\ DOMAIN posts' = DOMAIN posts \cup {new} /\ new \notin DOMAIN posts
      /\ \A p \in DOMAIN posts : posts'[p] = posts[p]
      /\ posts'[new] = row
  BY <1>3, <1>4, Appended
<1> HIDE DEF new
<1>6. RowsStay
  BY <1>5 DEF RowsStay
<1>7. \A b \in Agents : ops'[b] \subseteq ops[b]
  BY Done
<1>8. TypeOK'
  <2>1. ops' \in [Agents -> SUBSET Steps]
    BY Done
  <2>2. seen' \in [posts: SUBSET DOMAIN posts', comments: SUBSET DOMAIN comments', day: Nat]
    BY <1>5 DEF IInv, TypeOK
  <2>3. todo' \in [Agents -> SUBSET ({0} \cup DOMAIN posts')]
    BY <1>5 DEF IInv, TypeOK
  <2> QED
    BY <1>5, <2>1, <2>2, <2>3 DEF IInv, TypeOK
<1>9. WorkFits'
  BY <1>6, <1>7, WorkFitsKept DEF WorkShrinks
<1>10. Unwritten'
  <2> SUFFICES ASSUME NEW b \in Agents, 0 \in todo[b] \/ ops'[b] # {}, NEW p \in DOMAIN posts',
                      posts'[p].author = b, posts'[p].day = seen.day, ~posts'[p].gone
               PROVE  FALSE
    BY DEF Unwritten
  <2>1. CASE p = new
    BY <1>1, <1>3, <1>5, <2>1
  <2>2. CASE p \in DOMAIN posts
    BY <1>1, <1>5, <1>7, <2>2 DEF IInv, Unwritten
  <2> QED
    BY <1>5, <2>1, <2>2
<1>11. Unjudged' /\ Unfollowed'
  BY <1>1, <1>7 DEF IInv, Unjudged, Unfollowed
<1>12. Linked'
  BY <1>5 DEF IInv, Linked
<1>13. OnePostADay'
  <2>1. ASSUME NEW p \in DOMAIN posts, posts[p].author = a, posts[p].day = seen.day
        PROVE  posts[p].gone
    BY <1>1, <2>1 DEF IInv, Unwritten
  <2> SUFFICES ASSUME NEW p \in DOMAIN posts', NEW q \in DOMAIN posts',
                      posts'[p].author = posts'[q].author, posts'[p].day = posts'[q].day,
                      ~posts'[p].gone, ~posts'[q].gone
               PROVE  p = q
    BY DEF OnePostADay
  <2>2. CASE p \in DOMAIN posts /\ q \in DOMAIN posts
    BY <1>5, <2>2 DEF IInv, OnePostADay
  <2>3. CASE p = new \/ q = new
    BY <1>3, <1>5, <2>1, <2>3
  <2> QED
    BY <1>5, <2>2, <2>3
<1>14. OneVerdict' /\ FollowUpInOneSession'
  BY DEF IInv, OneVerdict, FollowUpInOneSession
<1>15. \A s \in Sessions : Counted(s)' = Counted(s)
  <2>1. \A r \in reactions : r.target = "post" => posts'[r.id] = posts[r.id]
    BY <1>5 DEF IInv, Linked
  <2> QED
    BY <2>1 DEF Counted
<1>16. ScoreInv'
  BY <1>15 DEF IInv, ScoreInv, ScoredOver, ScoresAreFinal
<1> QED
  BY <1>8, <1>9, <1>10, <1>11, <1>12, <1>13, <1>14, <1>16 DEF IInv, ScoreInv

\* A reaction goes to a post the stage has read, or is the first verdict on a
\* comment, or another of this session.
LEMMA ReactInv ==
  ASSUME IInv, NEW a \in Agents, NEW op \in ops[a], op.do = "react",
         ops' = [ops EXCEPT ![a] = @ \ {op}],
         reactions' = IF Reacted(a, op.target, op.id, op.kind) THEN reactions
                      ELSE reactions \cup {[by |-> a, target |-> op.target, id |-> op.id,
                                            kind |-> op.kind, session |-> session]},
         UNCHANGED <<posts, comments, enabled, deleting, session, stage, seen, todo, scores, day, answers, events>>
  PROVE  IInv'
<1> DEFINE row == [by |-> a, target |-> op.target, id |-> op.id, kind |-> op.kind, session |-> session]
<1>1. /\ op.target \in {"post", "comment"} /\ op.id \in Nat /\ op.kind \in DOMAIN Rank
      /\ StepFits(a, op)
  <2>1. op \in Steps /\ StepFits(a, op)
    BY Done
  <2>2. op \in [do: {"react"}, target: {"post", "comment"}, id: Nat, kind: DOMAIN Rank]
    BY <2>1 DEF Steps, Write
  <2> QED
    BY <2>1, <2>2
<1>2. /\ op.target = "post" => op.id \in seen.posts
      /\ op.target = "comment" => op.kind # "view" /\ OnOwn(a, op.id)
      /\ stage \in StageNames
  BY <1>1 DEF StepFits, StageNames, Write
<1>3. session \in Sessions
  BY <1>2 DEF IInv, WorkFits, StageNames
<1>4. /\ row \in Reaction
      /\ row.by = a /\ row.target = op.target /\ row.id = op.id /\ row.kind = op.kind /\ row.session = session
  BY <1>1, <1>3 DEF Reaction, Rank
<1>5. reactions \subseteq reactions' /\ reactions' \subseteq reactions \cup {row}
  OBVIOUS
<1> HIDE DEF row
<1>6. \A b \in Agents : ops'[b] \subseteq ops[b]
  BY Done
<1>7. TypeOK'
  <2>1. ops' \in [Agents -> SUBSET Steps]
    BY Done
  <2>2. reactions' \subseteq Reaction
    BY <1>4, <1>5 DEF IInv, TypeOK
  <2> QED
    BY <2>1, <2>2 DEF IInv, TypeOK
<1>8. WorkFits'
  BY <1>6, WorkFitsKept DEF WorkShrinks, RowsStay
<1>9. Unwritten' /\ Unfollowed'
  BY <1>6 DEF IInv, Unwritten, Unfollowed
<1>10. Unjudged'
  BY <1>4, <1>5, <1>6 DEF IInv, Unjudged
<1>11. Linked'
  <2>1. seen.posts \subseteq DOMAIN posts /\ seen.comments \subseteq DOMAIN comments
    BY DEF IInv, TypeOK
  <2>2. /\ row.target = "post" => row.id \in DOMAIN posts
        /\ row.target = "comment" => /\ row.id \in DOMAIN comments /\ row.kind # "view"
                                     /\ posts[comments[row.id].post].author = row.by
    BY <1>2, <1>4, <2>1 DEF OnOwn
  <2> QED
    BY <1>5, <2>2 DEF IInv, Linked
<1>12. OneVerdict'
  <2>1. \A r \in reactions : r.target = "comment" /\ row.target = "comment" /\ r.id = row.id => r.session = row.session
    BY <1>4 DEF IInv, Unjudged
  <2>2. \A r, q \in reactions :
          r.target = "comment" /\ q.target = "comment" /\ r.id = q.id => r.session = q.session
    BY DEF IInv, OneVerdict
  <2> QED
    BY <1>5, <2>1, <2>2 DEF OneVerdict
<1>13. ScoreInv'
  <2>1. ScoredOver'
    BY DEF IInv, ScoredOver
  <2>2. ASSUME NEW s \in Sessions, scores[s].taken
        PROVE  s # session
    BY <1>2, <1>3, <2>2 DEF IInv, ScoredOver, StageNames, Sessions
  <2>3. \A s \in Sessions : s # session => Counted(s)' \subseteq Counted(s)
    BY <1>4, <1>5 DEF Counted
  <2>4. ScoresAreFinal'
    BY <2>2, <2>3 DEF IInv, ScoresAreFinal
  <2> QED
    BY <2>1, <2>4 DEF ScoreInv
<1>14. OnePostADay' /\ FollowUpInOneSession'
  BY DEF IInv, OnePostADay, FollowUpInOneSession
<1> QED
  BY <1>7, <1>8, <1>9, <1>10, <1>11, <1>12, <1>13, <1>14 DEF IInv, ScoreInv

\* A comment is added to a post that is there, by somebody who has not answered
\* that reply in an earlier session.
LEMMA SaidInv ==
  ASSUME IInv, NEW new \in Comment, comments' = Append(comments, new),
         UNCHANGED <<posts, reactions, enabled, deleting, session, stage, seen, todo, scores, day, answers>>,
         EventsTyped', ops' \in [Agents -> SUBSET Steps],
         \A b \in Agents : ops'[b] \subseteq ops[b],
         new.post \in DOMAIN posts,
         new.parent # 0 => new.parent \in DOMAIN comments /\ comments[new.parent].post = new.post,
         new.author # User /\ new.parent # 0 /\ comments[new.parent].parent # 0 =>
           \A d \in DOMAIN comments :
             comments[d].author = new.author /\ comments[d].parent = new.parent => comments[d].session = new.session,
         stage = "followup" /\ new.author \in Agents => 0 \notin todo[new.author] /\ new.session = session
  PROVE  IInv'
<1> DEFINE n == Len(comments) + 1
<1>1. /\ comments' \in Seq(Comment) /\ DOMAIN comments' = DOMAIN comments \cup {n} /\ n \notin DOMAIN comments
      /\ \A c \in DOMAIN comments : comments'[c] = comments[c]
      /\ comments'[n] = new /\ n # 0
  <2>1. comments \in Seq(Comment)
    BY DEF IInv, TypeOK
  <2> QED
    BY <2>1, Appended
<1> HIDE DEF n
<1>2. 0 \notin DOMAIN comments
  BY DEF IInv, TypeOK
<1>3. \A c \in DOMAIN comments : comments[c].parent # 0 => comments[c].parent \in DOMAIN comments
  BY DEF IInv, Linked
<1>4. TypeOK'
  <2>1. seen' \in [posts: SUBSET DOMAIN posts', comments: SUBSET DOMAIN comments', day: Nat]
    BY <1>1 DEF IInv, TypeOK
  <2> QED
    BY <1>1, <2>1 DEF IInv, TypeOK
<1>5. WorkFits'
  BY <1>1, WorkFitsKept DEF WorkShrinks, RowsStay
<1>6. Unwritten' /\ Unjudged'
  BY DEF IInv, Unwritten, Unjudged
<1>7. Unfollowed'
  <2> SUFFICES ASSUME stage = "followup", NEW b \in Agents, NEW x \in DOMAIN comments', comments'[x].author = b
               PROVE  /\ 0 \in todo[b] /\ comments'[x].parent \in seen.comments => x \in seen.comments
                      /\ \A op \in ops'[b] : comments'[x].parent = op.parent => comments'[x].session = session
    BY DEF Unfollowed
  <2>1. CASE x = n
    BY <1>1, <2>1
  <2>2. CASE x \in DOMAIN comments
    BY <1>1, <2>2 DEF IInv, Unfollowed
  <2> QED
    BY <1>1, <2>1, <2>2
<1>8. Linked'
  <2>1. \A c \in DOMAIN comments' :
          LET parent == comments'[c].parent IN
          /\ comments'[c].post \in DOMAIN posts'
          /\ parent # 0 => parent \in DOMAIN comments' /\ comments'[parent].post = comments'[c].post
    BY <1>1, <1>3 DEF IInv, Linked
  <2>2. \A r \in reactions' :
          /\ r.target = "post" => r.id \in DOMAIN posts'
          /\ r.target = "comment" => /\ r.id \in DOMAIN comments' /\ r.kind # "view"
                                     /\ posts'[comments'[r.id].post].author = r.by
    BY <1>1 DEF IInv, Linked
  <2> QED
    BY <2>1, <2>2 DEF Linked
<1>9. FollowUpInOneSession'
  <2> SUFFICES ASSUME NEW c \in DOMAIN comments', NEW d \in DOMAIN comments',
                      comments'[c].parent # 0, comments'[d].parent = comments'[c].parent,
                      comments'[c].author = comments'[d].author, comments'[c].author # User,
                      comments'[comments'[c].parent].parent # 0
               PROVE  comments'[c].session = comments'[d].session
    BY DEF FollowUpInOneSession
  <2>1. comments'[c].parent \in DOMAIN comments
    BY <1>1, <1>3
  <2>2. CASE c \in DOMAIN comments /\ d \in DOMAIN comments
    BY <1>1, <2>1, <2>2 DEF IInv, FollowUpInOneSession
  <2>3. CASE c = n \/ d = n
    BY <1>1, <2>1, <2>3
  <2> QED
    BY <1>1, <2>2, <2>3
<1>10. OnePostADay' /\ OneVerdict'
  BY DEF IInv, OnePostADay, OneVerdict
<1>11. \A s \in Sessions : Counted(s)' = Counted(s)
  <2>1. \A r \in reactions : r.target \in {"post", "comment"} /\ (r.target = "comment" => comments'[r.id] = comments[r.id])
    BY <1>1 DEF IInv, Linked, TypeOK, Reaction
  <2> QED
    BY <2>1 DEF Counted
<1>12. ScoreInv'
  BY <1>11 DEF IInv, ScoreInv, ScoredOver, ScoresAreFinal
<1> QED
  BY <1>4, <1>5, <1>6, <1>7, <1>8, <1>9, <1>10, <1>12 DEF IInv, ScoreInv

\* A worker's comment: a follow-up goes to a reply that it has answered in this
\* session only.
LEMMA SayInv ==
  ASSUME IInv, NEW a \in Agents, NEW op \in ops[a], op.do = "say",
         ops' = [ops EXCEPT ![a] = @ \ {op}],
         comments' = Append(comments, [post |-> op.post, author |-> a, parent |-> op.parent,
                                             session |-> session, gone |-> FALSE]),
         UNCHANGED <<posts, reactions, enabled, deleting, session, stage, seen, todo, scores, day, answers, events>>
  PROVE  IInv'
<1> DEFINE row == [post |-> op.post, author |-> a, parent |-> op.parent,
                                             session |-> session, gone |-> FALSE]
<1>1. /\ op \in [do: {"say"}, post: Nat, parent: Nat, nth: Nat]
      /\ ops' \in [Agents -> SUBSET Steps] /\ ops'[a] = ops[a] \ {op}
      /\ \A b \in Agents : ops'[b] \subseteq ops[b]
  <2>1. op \in Steps
    BY Done
  <2>2. op \in [do: {"say"}, post: Nat, parent: Nat, nth: Nat]
    BY <2>1 DEF Steps, Write
  <2> QED
    BY <2>2, Done
<1>2. \/ stage = "browse" /\ op.post \in seen.posts /\ op.parent = 0
      \/ stage = "feedback" /\ OnOwn(a, op.parent) /\ op.post = comments[op.parent].post
      \/ stage = "followup" /\ op.parent \in seen.comments /\ op.post = comments[op.parent].post
  <2>1. StepFits(a, op)
    BY Done
  <2> QED
    BY <2>1 DEF StepFits, Write
<1>10. session \in Sessions
  BY <1>2 DEF IInv, WorkFits
<1>3. /\ row \in Comment
      /\ row.post = op.post /\ row.author = a /\ row.parent = op.parent /\ row.session = session
  BY <1>1, <1>10 DEF Comment
<1> HIDE DEF row
<1>4. seen.posts \subseteq DOMAIN posts /\ seen.comments \subseteq DOMAIN comments
  BY DEF IInv, TypeOK
<1>5. /\ op.parent # 0 => op.parent \in DOMAIN comments /\ op.post = comments[op.parent].post
      /\ op.parent # 0 /\ stage # "followup" => comments[op.parent].parent = 0
  BY <1>2, <1>4 DEF OnOwn
<1>6. op.post \in DOMAIN posts
  <2>1. CASE op.parent = 0
    BY <1>2, <1>4, <2>1 DEF OnOwn, IInv, Linked
  <2>2. CASE op.parent # 0
    BY <1>5, <2>2 DEF IInv, Linked
  <2> QED
    BY <2>1, <2>2
<1>7. ASSUME stage = "followup"
      PROVE  /\ 0 \notin todo[a]
             /\ \A d \in DOMAIN comments :
                  comments[d].author = a /\ comments[d].parent = op.parent => comments[d].session = session
  <2>1. 0 \notin todo[a]
    BY <1>7 DEF IInv, WorkFits
  <2>2. \A d \in DOMAIN comments :
          comments[d].author = a /\ comments[d].parent = op.parent => comments[d].session = session
    BY <1>7 DEF IInv, Unfollowed
  <2> QED
    BY <2>1, <2>2
<1>8. EventsTyped'
  BY DEF IInv, TypeOK
<1>9. comments' = Append(comments, row)
  BY DEF row
<1> QED
  BY <1>1, <1>3, <1>5, <1>6, <1>7, <1>8, <1>9, SaidInv

LEMMA DoInv ==
  ASSUME IInv, NEW a \in Agents, Do(a)
  PROVE  IInv'
<1>1. PICK op \in ops[a] :
        /\ ops' = [ops EXCEPT ![a] = @ \ {op}]
        /\ UNCHANGED <<enabled, deleting, session, stage, seen, todo, scores, day, answers, events>>
        /\ \/ /\ op.do = "write"
              /\ posts' = Append(posts, [author |-> a, day |-> seen.day, session |-> session, gone |-> FALSE])
              /\ UNCHANGED <<comments, reactions>>
           \/ /\ op.do = "react"
              /\ reactions' = IF Reacted(a, op.target, op.id, op.kind) THEN reactions
                              ELSE reactions \cup {[by |-> a, target |-> op.target, id |-> op.id,
                                                    kind |-> op.kind, session |-> session]}
              /\ UNCHANGED <<posts, comments>>
           \/ /\ op.do = "say"
              /\ comments' = Append(comments, [post |-> op.post, author |-> a, parent |-> op.parent,
                                             session |-> session, gone |-> FALSE])
              /\ UNCHANGED <<posts, reactions>>
  BY OneStep
<1>2. CASE op.do = "write"
  BY <1>1, <1>2, WriteInv
<1>3. CASE op.do = "react"
  BY <1>1, <1>3, ReactInv
<1>4. CASE op.do = "say"
  BY <1>1, <1>4, SayInv
<1> QED
  BY <1>1, <1>2, <1>3, <1>4

LEMMA UserSaysInv ==
  ASSUME IInv, UserSays
  PROVE  IInv'
<1>1. PICK p \in Visible : \E parent \in {0} \cup {c \in DOMAIN comments : comments[c].post = p} :
        comments' = Append(comments, [post |-> p, author |-> User, parent |-> parent,
                                      session |-> 0, gone |-> FALSE])
  BY DEF UserSays
<1>2. PICK parent \in {0} \cup {c \in DOMAIN comments : comments[c].post = p} :
        comments' = Append(comments, [post |-> p, author |-> User, parent |-> parent,
                                      session |-> 0, gone |-> FALSE])
  BY <1>1
<1> DEFINE row == [post |-> p, author |-> User, parent |-> parent,
                                      session |-> 0, gone |-> FALSE]
<1>3. p \in DOMAIN posts /\ p \in Nat /\ parent \in Nat
  BY DEF Visible, IInv, TypeOK
<1>4. row \in Comment /\ row.post = p /\ row.author = User /\ row.parent = parent /\ row.session = 0
  BY <1>3 DEF Comment
<1>5. comments' = Append(comments, row)
  BY <1>2
<1>6. EventsTyped'
  BY BoundsAssumption DEF UserSays, Event, IInv, TypeOK
<1>7. /\ UNCHANGED <<posts, reactions, enabled, deleting, session, stage, seen, todo, scores, day, answers>>
      /\ ops' = ops
  BY DEF UserSays
<1>8. ops' \in [Agents -> SUBSET Steps] /\ \A b \in Agents : ops'[b] \subseteq ops[b]
  BY <1>7 DEF IInv, TypeOK
<1>9. row.parent # 0 => row.parent \in DOMAIN comments /\ comments[row.parent].post = row.post
  BY <1>4
<1> HIDE DEF row
<1> QED
  BY <1>3, <1>4, <1>5, <1>6, <1>7, <1>8, <1>9, UserAssumption, SaidInv

-----------------------------------------------------------------------------
(* Exceptions, removals and the clock.                                      *)

LEMMA WorkerRaisesInv ==
  ASSUME IInv, NEW a \in Agents, WorkerRaises(a)
  PROVE  IInv'
<1> USE DEF WorkerRaises
<1>1. /\ ops' \in [Agents -> SUBSET Steps] /\ todo' \in [Agents -> SUBSET ({0} \cup DOMAIN posts)]
      /\ \A b \in Agents : todo'[b] \subseteq todo[b] /\ ops'[b] \subseteq ops[b]
  BY DEF IInv, TypeOK
<1>2. TypeOK'
  <2>1. EventsTyped'
    BY BoundsAssumption DEF Event, IInv, TypeOK
  <2> QED
    BY <1>1, <2>1 DEF IInv, TypeOK
<1>3. WorkFits'
  BY <1>1, WorkFitsKept DEF WorkShrinks, RowsStay
<1>4. Unwritten' /\ Unjudged' /\ Unfollowed'
  BY <1>1 DEF IInv, Unwritten, Unjudged, Unfollowed
<1>5. ScoreInv'
  <2>1. ScoredOver'
    BY DEF IInv, ScoredOver
  <2> QED
    BY <2>1, ScoresKept DEF IInv, ScoreInv
<1> QED
  BY <1>2, <1>3, <1>4, <1>5, BoardKept DEF IInv, BoardInv, ScoreInv

LEMMA DisableInv ==
  ASSUME IInv, NEW a \in Agents, Disable(a)
  PROVE  IInv'
<1> USE DEF Disable
<1>1. TypeOK'
  <2>1. EventsTyped'
    BY BoundsAssumption DEF Event, IInv, TypeOK
  <2> QED
    BY <2>1 DEF IInv, TypeOK
<1>2. WorkFits'
  BY WorkFitsKept DEF WorkShrinks, RowsStay
<1>3. Unwritten' /\ Unjudged' /\ Unfollowed'
  BY DEF IInv, Unwritten, Unjudged, Unfollowed
<1>4. ScoreInv'
  <2>1. ScoredOver' /\ enabled' \subseteq enabled
    BY DEF IInv, ScoredOver
  <2> QED
    BY <2>1, ScoresKept DEF IInv, ScoreInv
<1> QED
  BY <1>1, <1>2, <1>3, <1>4, BoardKept DEF IInv, BoardInv, ScoreInv

LEMMA NextDayInv ==
  ASSUME IInv, NextDay
  PROVE  IInv'
<1> USE DEF NextDay
<1>2. TypeOK'
  <2>1. EventsTyped'
    BY BoundsAssumption DEF Event, IInv, TypeOK
  <2> QED
    BY <2>1 DEF IInv, TypeOK
<1>3. WorkFits'
  BY WorkFitsKept DEF WorkShrinks, RowsStay
<1>4. Unwritten' /\ Unjudged' /\ Unfollowed'
  BY DEF IInv, Unwritten, Unjudged, Unfollowed
<1>5. ScoreInv'
  <2>1. ScoredOver' /\ enabled' \subseteq enabled
    BY DEF IInv, ScoredOver
  <2> QED
    BY <2>1, ScoresKept DEF IInv, ScoreInv
<1> QED
  BY <1>2, <1>3, <1>4, <1>5, BoardKept DEF IInv, BoardInv, ScoreInv

\* A removal marks rows and moves none, so it takes away cause, never adds any.
LEMMA DeletePostsInv ==
  ASSUME IInv, NEW a \in Agents, DeletePosts(a)
  PROVE  IInv'
<1> USE DEF DeletePosts
<1>1. posts \in Seq(Post) /\ comments \in Seq(Comment)
  BY DEF IInv, TypeOK
<1>2. ASSUME NEW p \in DOMAIN posts
      PROVE  /\ posts'[p] \in Post
             /\ posts'[p].author = posts[p].author /\ posts'[p].day = posts[p].day
             /\ posts[p].gone => posts'[p].gone
  <2>1. posts[p] \in Post
    BY <1>1
  <2>2. posts'[p] = [posts[p] EXCEPT !.gone = @ \/ posts[p].author = a]
    OBVIOUS
  <2>3. posts'[p] \in Post /\ posts'[p].author = posts[p].author /\ posts'[p].day = posts[p].day
    BY <2>1, <2>2 DEF Post
  <2>4. posts'[p].gone = (posts[p].gone \/ posts[p].author = a)
    BY <2>1, <2>2 DEF Post
  <2> QED
    BY <2>3, <2>4
<1>3. ASSUME NEW c \in DOMAIN comments
      PROVE  /\ comments'[c] \in Comment
             /\ comments'[c].author = comments[c].author /\ comments'[c].post = comments[c].post
             /\ comments'[c].parent = comments[c].parent /\ comments'[c].session = comments[c].session
             /\ comments[c].gone => comments'[c].gone
  <2>1. comments[c] \in Comment
    BY <1>1
  <2>2. comments'[c] = [comments[c] EXCEPT !.gone = @ \/ posts[comments[c].post].author = a]
    OBVIOUS
  <2>3. /\ comments'[c] \in Comment /\ comments'[c].author = comments[c].author
        /\ comments'[c].post = comments[c].post /\ comments'[c].parent = comments[c].parent
        /\ comments'[c].session = comments[c].session
    BY <2>1, <2>2 DEF Comment
  <2>4. comments'[c].gone = (comments[c].gone \/ posts[comments[c].post].author = a)
    BY <2>1, <2>2 DEF Comment
  <2> QED
    BY <2>3, <2>4
<1>4. /\ DOMAIN posts' = DOMAIN posts /\ posts' \in Seq(Post)
      /\ DOMAIN comments' = DOMAIN comments /\ comments' \in Seq(Comment)
  <2>1. DOMAIN posts' = DOMAIN posts /\ DOMAIN comments' = DOMAIN comments
    OBVIOUS
  <2>2. posts' = [p \in DOMAIN posts |-> posts'[p]] /\ comments' = [c \in DOMAIN comments |-> comments'[c]]
    OBVIOUS
  <2> HIDE DEF DeletePosts
  <2>3. posts' \in Seq(Post)
    BY <1>1, <1>2, <2>2, SameRows
  <2>4. comments' \in Seq(Comment)
    BY <1>1, <1>3, <2>2, SameRows
  <2> QED
    BY <2>1, <2>3, <2>4
<1>5. RowsStay
  BY <1>2, <1>3, <1>4 DEF RowsStay
<1>6. UNCHANGED <<reactions, enabled, session, stage, work, scores, day, answers, events>> /\ deleting' \subseteq deleting
  OBVIOUS
<1> HIDE DEF DeletePosts
<1>7. TypeOK'
  <2>1. deleting' \subseteq Agents \ enabled'
    BY <1>6 DEF IInv, TypeOK
  <2> QED
    BY <1>4, <1>6, <2>1 DEF IInv, TypeOK
<1>8. WorkFits'
  BY <1>5, <1>6, WorkFitsKept DEF WorkShrinks
<1>9. Unwritten'
  BY <1>2, <1>4, <1>6 DEF IInv, Unwritten
<1>10. Unjudged' /\ Unfollowed'
  BY <1>3, <1>4, <1>6 DEF IInv, Unjudged, Unfollowed
<1>11. Linked'
  <2>1. ASSUME NEW c \in DOMAIN comments'
        PROVE  /\ comments'[c].post \in DOMAIN posts'
               /\ comments'[c].parent # 0 =>
                    /\ comments'[c].parent \in DOMAIN comments'
                    /\ comments'[comments'[c].parent].post = comments'[c].post
    <3>1. c \in DOMAIN comments /\ comments'[c].post = comments[c].post /\ comments'[c].parent = comments[c].parent
      BY <1>3, <1>4
    <3>2. /\ comments[c].post \in DOMAIN posts
          /\ comments[c].parent # 0 => comments[c].parent \in DOMAIN comments
                                       /\ comments[comments[c].parent].post = comments[c].post
      BY <3>1 DEF IInv, Linked
    <3> QED
      BY <1>3, <1>4, <3>1, <3>2
  <2>2. \A r \in reactions' :
          /\ r.target = "post" => r.id \in DOMAIN posts'
          /\ r.target = "comment" => /\ r.id \in DOMAIN comments' /\ r.kind # "view"
                                     /\ posts'[comments'[r.id].post].author = r.by
    BY <1>2, <1>3, <1>4, <1>6 DEF IInv, Linked
  <2> QED
    BY <2>1, <2>2 DEF Linked
<1>12. OnePostADay'
  BY <1>2, <1>4 DEF IInv, OnePostADay
<1>13. OneVerdict'
  BY <1>6 DEF IInv, OneVerdict
<1>14. FollowUpInOneSession'
  <2> SUFFICES ASSUME NEW c \in DOMAIN comments, NEW d \in DOMAIN comments,
                      comments[c].parent # 0, comments[d].parent = comments[c].parent,
                      comments[c].author = comments[d].author, comments[c].author # User,
                      comments'[comments[c].parent].parent # 0
               PROVE  comments'[c].session = comments'[d].session
    BY <1>3, <1>4 DEF FollowUpInOneSession
  <2>1. comments[c].parent \in DOMAIN comments
    BY DEF IInv, Linked
  <2> QED
    BY <1>3, <2>1 DEF IInv, FollowUpInOneSession
<1>15. \A s \in Sessions : Counted(s)' \subseteq Counted(s)
  <2>1. ASSUME NEW r \in reactions
        PROVE  /\ r.target = "post" => /\ posts'[r.id].author = posts[r.id].author
                                       /\ posts[r.id].gone => posts'[r.id].gone
               /\ r.target # "post" => /\ comments'[r.id].author = comments[r.id].author
                                       /\ comments[r.id].gone => comments'[r.id].gone
    BY <1>2, <1>3, <2>1 DEF IInv, Linked, TypeOK, Reaction
  <2> QED
    BY <1>6, <2>1 DEF Counted
<1>16. ScoreInv'
  BY <1>6, <1>15 DEF IInv, ScoreInv, ScoredOver, ScoresAreFinal
<1> QED
  BY <1>7, <1>8, <1>9, <1>10, <1>11, <1>12, <1>13, <1>14, <1>16 DEF IInv, ScoreInv

-----------------------------------------------------------------------------
(* The theorems.                                                            *)

LEMMA InitIInv == Init => IInv
<1> SUFFICES ASSUME Init PROVE IInv
  OBVIOUS
<1> USE DEF Init
<1>1. TypeOK
  <2>1. seen \in [posts: SUBSET DOMAIN posts, comments: SUBSET DOMAIN comments, day: Nat]
    BY DEF Nothing
  <2>2. scores \in [Sessions -> [taken : BOOLEAN, of : SUBSET Reaction]]
    BY DEF NotYet
  <2>3. todo \in [Agents -> SUBSET ({0} \cup DOMAIN posts)] /\ ops \in [Agents -> SUBSET Steps]
    OBVIOUS
  <2>4. posts \in Seq(Post) /\ comments \in Seq(Comment)
    OBVIOUS
  <2> QED
    BY <2>1, <2>2, <2>3, <2>4, BoundsAssumption DEF TypeOK
<1>2. WorkFits /\ Unwritten /\ Unjudged /\ Unfollowed
  BY DEF WorkFits, Unwritten, Unjudged, Unfollowed
<1>3. Linked /\ OnePostADay /\ OneVerdict /\ FollowUpInOneSession
  BY DEF Linked, OnePostADay, OneVerdict, FollowUpInOneSession
<1>4. ScoredOver /\ ScoresAreFinal
  BY DEF ScoredOver, ScoresAreFinal, NotYet
<1> QED
  BY <1>1, <1>2, <1>3, <1>4 DEF IInv

LEMMA StepIInv == IInv /\ [Next]_vars => IInv'
<1> SUFFICES ASSUME IInv, [Next]_vars PROVE IInv'
  OBVIOUS
<1>1. CASE Start
  BY <1>1, StartInv
<1>2. CASE NextStage
  BY <1>2, NextStageInv
<1>3. CASE StagesEnd \/ StageRaises
  BY <1>3, EndsInv
<1>4. CASE Score
  BY <1>4, ScoreStepInv
<1>5. ASSUME NEW a \in Agents, Worker(a)
      PROVE  IInv'
  BY <1>5, AskWriteInv, AskBrowseInv, AskFeedbackInv, AskFollowupInv, DoInv, WorkerRaisesInv DEF Worker
<1>6. ASSUME NEW a \in Agents, Disable(a) \/ DeletePosts(a)
      PROVE  IInv'
  BY <1>6, DisableInv, DeletePostsInv
<1>7. CASE UserSays
  BY <1>7, UserSaysInv
<1>8. CASE NextDay
  BY <1>8, NextDayInv
<1>9. CASE Crash
  BY <1>9, CrashInv
<1>10. CASE UNCHANGED vars
  BY <1>10 DEF vars, IInv, TypeOK, Linked, WorkFits, StepFits, OnOwn, Unwritten, Unjudged, Unfollowed,
               ScoredOver, OnePostADay, OneVerdict, FollowUpInOneSession, ScoresAreFinal, Counted
<1> QED
  BY <1>1, <1>2, <1>3, <1>4, <1>5, <1>6, <1>7, <1>8, <1>9, <1>10 DEF Next

\* Every variable keeps its type: what a stage has read is on the board, and a
\* worker holds steps of the kinds that board.py carries out.
THEOREM TypeCorrect == Spec => []TypeOK
<1>1. IInv => TypeOK
  BY DEF IInv
<1> QED
  BY <1>1, InitIInv, StepIInv, PTL DEF Spec

\* Nobody writes two posts on one day, in whatever sessions and however they
\* ended: whoever has a post to write has none of the day its stage has read,
\* and one stage only has posts to write (run_board_posts).
THEOREM OnePostADayAlways == Spec => []OnePostADay
<1>1. IInv => OnePostADay
  BY DEF IInv
<1> QED
  BY <1>1, InitIInv, StepIInv, PTL DEF Spec

\* All verdicts on a comment are of one session: only the author of its post
\* gives any, and is asked only about comments it has not reacted to
\* (reacted_ids, run_author_feedback).
THEOREM OneVerdictAlways == Spec => []OneVerdict
<1>1. IInv => OneVerdict
  BY DEF IInv
<1> QED
  BY <1>1, InitIInv, StepIInv, PTL DEF Spec

\* What an agent answers to a reply is of one session: replies with an answer are
\* left out, and one worker per agent answers in a stage (run_reply_followup).
THEOREM FollowUpInOneSessionAlways == Spec => []FollowUpInOneSession
<1>1. IInv => FollowUpInOneSession
  BY DEF IInv
<1> QED
  BY <1>1, InitIInv, StepIInv, PTL DEF Spec

\* No reaction reaches a session after its scores were taken, and removals only
\* take away: what the scores were counted from is all that will ever count.
THEOREM ScoresAreFinalAlways == Spec => []ScoresAreFinal
<1>1. IInv => ScoresAreFinal
  BY DEF IInv
<1> QED
  BY <1>1, InitIInv, StepIInv, PTL DEF Spec
=============================================================================
