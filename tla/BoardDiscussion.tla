-------------------------- MODULE BoardDiscussion --------------------------
(***************************************************************************)
(* What the stages of a discussion do on the board (src/cc/board.py and    *)
(* src/db/board.py), and the scores taken of it (src/cc/reflect.py).       *)
(*                                                                         *)
(* A stage reads the board once, asks the agents it concerns in parallel   *)
(* and carries out each answer as a series of committed statements, while  *)
(* users comment and remove projects.  The stages of one session follow    *)
(* each other, each waiting for all its workers; a stop of the server ends *)
(* a session anywhere, and the start-up hook takes its scores.  That only  *)
(* one session runs at a time is what BoardSession shows.                  *)
(*                                                                         *)
(* Texts are left out; an agent stands for its project, its name and its   *)
(* path.  An answer may name the same post, comment or reply several       *)
(* times: nothing in the code keeps it from that.  All days of the model   *)
(* lie within RECENT_DAYS.                                                 *)
(***************************************************************************)
EXTENDS Naturals, FiniteSets, Sequences, SequencesExt

CONSTANTS
  Agents,      \* projects with their agents
  User,        \* who writes in the browser
  MaxAnswers,  \* bound: calls that are answered
  MaxNamed,    \* bound: posts named in one answer
  MaxSteps,    \* bound: steps of one answer
  MaxSessions, \* bound: sessions
  MaxEvents,   \* bound: comments by users, removals, ends of a day,
               \* exceptions and stops, together
  PerAgent     \* MAX_COMMENTS_PER_AGENT

ASSUME BoundsAssumption ==
  MaxAnswers \in Nat /\ MaxNamed \in Nat /\ MaxSteps \in Nat /\ MaxSessions \in Nat
  /\ MaxEvents \in Nat /\ PerAgent \in Nat
ASSUME UserAssumption == User \notin Agents

VARIABLES
  posts,     \* sequence of rows; a deleted one is marked gone, its id is not used again
  comments,  \* sequence of rows
  reactions, \* board_reactions
  enabled, deleting, \* projects enabled; disabled ones whose posts are still to be deleted
  session, stage,    \* the session under way and its stage
  seen,      \* what the stage has read: [posts, comments] by their ids, and the day
  todo,      \* what each worker has still to ask about: posts, or the whole stage (0)
  ops,       \* the steps each worker has still to carry out of its answer
  scores,    \* discussion_scores: by session, whether taken and of what reactions
  day, answers,
  events     \* how many of the events that are bounded together

board == <<posts, comments, reactions>>
work  == <<seen, todo, ops>>
vars  == <<posts, comments, reactions, enabled, deleting, session, stage, seen, todo, ops,
           scores, day, answers, events>>

Stages == <<"write", "browse", "feedback", "followup">>
Sessions == 1..MaxSessions
NotYet == [taken |-> FALSE, of |-> {}]

Post == [author: Agents, day: Nat, session: Sessions, gone: BOOLEAN]
Comment == [post: Nat, author: Agents \cup {User}, parent: Nat, session: {0} \cup Sessions, gone: BOOLEAN]
Reaction == [by: Agents, target: {"post", "comment"}, id: Nat,
             kind: {"view", "like", "dislike"}, session: Sessions]

Nothing == [posts |-> {}, comments |-> {}, day |-> 1]

\* The steps of an answer.
Write == [do |-> "write"]
React(target, id, kind) == [do |-> "react", target |-> target, id |-> id, kind |-> kind]
Say(p, parent, nth) == [do |-> "say", post |-> p, parent |-> parent, nth |-> nth]

\* list_posts: the posts that are there, with their comments.
Visible == {p \in DOMAIN posts : ~posts[p].gone}
CommentsOn(P) == {c \in DOMAIN comments : comments[c].post \in P}
By(a) == {p \in seen.posts : posts[p].author = a}

\* UNIQUE(author, target, target_id, kind).
Reacted(a, target, id, kind) ==
  \E r \in reactions : r.by = a /\ r.target = target /\ r.id = id /\ r.kind = kind

\* reacted_ids(author, "comment", ids).
ReactedIds(a, C) == {c \in C : \E kind \in {"like", "dislike"} : Reacted(a, "comment", c, kind)}

Init ==
  /\ posts = <<>> /\ comments = <<>> /\ reactions = {}
  /\ enabled = Agents /\ deleting = {}
  /\ session = 0 /\ stage = "closed"
  /\ seen = Nothing
  /\ todo = [a \in Agents |-> {}] /\ ops = [a \in Agents |-> {}]
  /\ scores = [s \in Sessions |-> NotYet]
  /\ day = 1 /\ answers = 0 /\ events = 0

-----------------------------------------------------------------------------
(* The session: its stages in order.                                       *)

\* Bound: how often users, the clock, exceptions and stops interfere.
Event == events < MaxEvents /\ events' = events + 1

Start ==
  /\ stage = "closed" /\ session < MaxSessions
  /\ session' = session + 1 /\ stage' = "start"
  /\ UNCHANGED <<board, enabled, deleting, work, scores, day, answers, events>>

\* Mutant of Quiet: a stage may end while workers are under way.
QuietNever == TRUE

\* The executor of a stage waits for all its workers.  A worker that has not
\* asked leaves no trace when the deadline has passed, the session was stopped,
\* the call fails or its answer is empty.
Quiet == \A a \in Agents : ops[a] = {}

\* Mutant of Thread: replies that were answered are asked about again.
ThreadAgain(a, r) ==
  LET c == comments[r].parent IN
  /\ c \in seen.comments /\ comments[c].author = a
  /\ comments[r].author = posts[comments[r].post].author /\ comments[r].author # a

\* The reply r was written by the post's author to a comment of a, and nobody
\* has answered it.
Thread(a, r) ==
  LET c == comments[r].parent IN
  /\ c \in seen.comments /\ comments[c].author = a
  /\ comments[r].author = posts[comments[r].post].author
  /\ comments[r].author # a
  /\ \A x \in seen.comments : comments[x].parent # r

Threads(a) == {r \in seen.comments : Thread(a, r)}

\* Mutant of HasPosted: what was written today is not looked at.
HasPostedNot(a) == FALSE

\* run_board_posts: who wrote today is left out.
HasPosted(a) == \E p \in Visible : posts[p].author = a /\ posts[p].day = day

Concerned(s, a) ==
  CASE s = "write"    -> IF a \in enabled /\ ~HasPosted(a) THEN {0} ELSE {}
    [] s = "browse"   -> IF a \in enabled /\ Visible # {} THEN {0} ELSE {}
    [] s = "feedback" -> {p \in Visible : posts[p].author = a}
    [] s = "followup" -> IF a \in enabled THEN {0} ELSE {}

\* The next stage, or a later one when the time of this one is over.
NextStage ==
  /\ stage \in ToSet(Stages) \cup {"start"} /\ Quiet
  /\ \E i \in DOMAIN Stages :
       /\ \A j \in DOMAIN Stages : Stages[j] = stage => j < i
       /\ stage' = Stages[i]
       /\ todo' = [a \in Agents |-> Concerned(Stages[i], a)]
  /\ seen' = [posts |-> Visible, comments |-> CommentsOn(Visible), day |-> day]
  /\ UNCHANGED <<board, enabled, deleting, session, ops, scores, day, answers, events>>

\* The last stage is over, the session was stopped, or its time is up.
StagesEnd ==
  /\ stage \in ToSet(Stages) \cup {"start"} /\ Quiet
  /\ stage' = "score" /\ seen' = Nothing
  /\ todo' = [a \in Agents |-> {}]
  /\ UNCHANGED <<board, enabled, deleting, session, ops, scores, day, answers, events>>

\* A stage raises before it has workers: the session has failed and gets no
\* scores.
StageRaises ==
  /\ Event /\ stage \in ToSet(Stages) \cup {"start"} /\ Quiet
  /\ stage' = "closed" /\ seen' = Nothing
  /\ todo' = [a \in Agents |-> {}]
  /\ UNCHANGED <<board, enabled, deleting, session, ops, scores, day, answers>>

\* session_stats: what the session's reactions gave to the agents that are
\* enabled, for what is still there.
Counted(s) ==
  {r \in reactions : r.session = s /\
     LET row == IF r.target = "post" THEN posts[r.id] ELSE comments[r.id]
     IN ~row.gone /\ row.author \in enabled}

Score ==
  /\ stage = "score" /\ stage' = "closed"
  /\ scores' = [scores EXCEPT ![session] = [taken |-> TRUE, of |-> Counted(session)]]
  /\ UNCHANGED <<board, enabled, deleting, session, work, day, answers, events>>

-----------------------------------------------------------------------------
(* The workers: one call, then the steps of its answer.                    *)

\* The worker a is free to ask about p; afterwards it has the steps of S to do.
Ask(a, s, p, steps) ==
  /\ stage = s /\ p \in todo[a] /\ ops[a] = {} /\ answers < MaxAnswers
  /\ steps # {} /\ Cardinality(steps) <= MaxSteps
  /\ todo' = [todo EXCEPT ![a] = @ \ {p}]
  /\ ops' = [ops EXCEPT ![a] = steps]
  /\ answers' = answers + 1
  /\ UNCHANGED <<board, enabled, deleting, session, stage, seen, scores, day, events>>

AskWrite(a) == Ask(a, "write", 0, {Write})

\* How often an answer comments on each of S, and those comments one by one.
Times(S) == [S -> 0..MaxSteps]
Each(times) == {e \in (DOMAIN times) \X (1..MaxSteps) : e[2] <= times[e[1]]}

\* The comments that are kept of those in the answer: the first PerAgent,
\* whether they are on one post or on several.
Kept(said) ==
  {k \in Times(said) :
     LET n == Cardinality(Each(k)) IN n <= PerAgent /\ (n = PerAgent \/ \A p \in said : k[p] > 0)}

\* _parse_board_response and the loops after it: whoever reacts or comments has
\* opened the post, a dislike outweighs a like, own posts are left out.
BrowseSteps(a, opened, liked, disliked, said, kept) ==
  LET reacts(S, kind) == {React("post", p, kind) : p \in S \ By(a)} IN
  reacts(opened \cup liked \cup disliked \cup said, "view")
    \cup reacts(liked \ disliked, "like") \cup reacts(disliked, "dislike")
    \cup {Say(e[1], 0, e[2]) : e \in {x \in Each(kept) : x[1] \notin By(a)}}

AskBrowse(a) ==
  /\ stage = "browse"
  /\ \E N \in {M \in SUBSET seen.posts : Cardinality(M) <= MaxNamed} :
     \E opened, liked, disliked, said \in SUBSET N : \E kept \in Kept(said) :
       Ask(a, "browse", 0, BrowseSteps(a, opened, liked, disliked, said, kept))

\* Mutant of Unanswered: comments the author has reacted to are shown again.
UnansweredAll(a, p) == {c \in seen.comments : comments[c].post = p /\ comments[c].parent = 0}

\* The comments on the post p that its author has not reacted to.
Unanswered(a, p) ==
  LET top == {c \in seen.comments : comments[c].post = p /\ comments[c].parent = 0}
  IN top \ ReactedIds(a, top)

\* For each comment reactions and replies: one of each, unless it is named again.
FeedbackSteps(p, liked, disliked, replies) ==
  {React("comment", c, "like") : c \in liked} \cup {React("comment", c, "dislike") : c \in disliked}
    \cup {Say(p, e[1], e[2]) : e \in Each(replies)}

AskFeedback(a) ==
  /\ stage = "feedback"
  /\ \E p \in todo[a] : LET C == Unanswered(a, p) IN
       \E liked, disliked \in SUBSET C, replies \in Times(C) :
         Ask(a, "feedback", p, FeedbackSteps(p, liked, disliked, replies))

AskFollowup(a) ==
  /\ stage = "followup"
  /\ \E times \in Times(Threads(a)) :
       Ask(a, "followup", 0, {Say(comments[e[1]].post, e[1], e[2]) : e \in Each(times)})

\* Posts are viewed, liked, disliked, then commented on, and one comment comes
\* after the other.  Otherwise the code goes through sets of ids, or through the
\* answer, in whatever order they have; an answer that names a comment twice may
\* reply to it before it reacts to it.
Rank == [view |-> 1, like |-> 2, dislike |-> 3]
Before(x, y) ==
  \/ x.do = "react" /\ x.target = "post" /\ y.do = "say"
  \/ x.do = "react" /\ x.target = "post" /\ y.do = "react" /\ Rank[x.kind] < Rank[y.kind]
  \/ x.do = "say" /\ y.do = "say" /\ x.post = y.post /\ x.parent = y.parent /\ x.nth < y.nth

\* One committed step.
Do(a) ==
  /\ \E op \in ops[a] :
     /\ \A o \in ops[a] : ~Before(o, op)
     /\ ops' = [ops EXCEPT ![a] = @ \ {op}]
     /\ \/ /\ op.do = "write"
           /\ posts' = Append(posts, [author |-> a, day |-> seen.day, session |-> session, gone |-> FALSE])
           /\ UNCHANGED <<comments, reactions>>
        \/ /\ op.do = "react"
           /\ reactions' = IF Reacted(a, op.target, op.id, op.kind) THEN reactions
                           ELSE reactions \cup {[by |-> a, target |-> op.target, id |-> op.id,
                                                 kind |-> op.kind, session |-> session]}
           /\ UNCHANGED <<posts, comments>>
        \/ /\ op.do = "say"
           /\ comments' = Append(comments, [post |-> op.post, author |-> a, parent |-> op.parent,
                                          session |-> session, gone |-> FALSE])
           /\ UNCHANGED <<posts, reactions>>
  /\ UNCHANGED <<enabled, deleting, session, stage, seen, todo, scores, day, answers, events>>

\* An exception ends the worker; the stage goes on without it.
WorkerRaises(a) ==
  /\ Event /\ ops[a] # {}
  /\ ops' = [ops EXCEPT ![a] = {}] /\ todo' = [todo EXCEPT ![a] = {}]
  /\ UNCHANGED <<board, enabled, deleting, session, stage, seen, scores, day, answers>>

Worker(a) ==
  AskWrite(a) \/ AskBrowse(a) \/ AskFeedback(a) \/ AskFollowup(a) \/ Do(a) \/ WorkerRaises(a)

-----------------------------------------------------------------------------
(* Users, the clock, and stops of the server.                              *)

UserSays ==
  /\ Event
  /\ \E p \in Visible : \E parent \in {0} \cup {c \in DOMAIN comments : comments[c].post = p} :
       comments' = Append(comments, [post |-> p, author |-> User, parent |-> parent,
                                      session |-> 0, gone |-> FALSE])
  /\ UNCHANGED <<posts, reactions, enabled, deleting, session, stage, work, scores, day, answers>>

\* remove_project: disable, then delete the project's posts with their comments.
Disable(a) ==
  /\ Event /\ a \in enabled
  /\ enabled' = enabled \ {a} /\ deleting' = deleting \cup {a}
  /\ UNCHANGED <<board, session, stage, work, scores, day, answers>>

DeletePosts(a) ==
  /\ a \in deleting /\ deleting' = deleting \ {a}
  /\ posts' = [p \in DOMAIN posts |-> [posts[p] EXCEPT !.gone = @ \/ posts[p].author = a]]
  /\ comments' = [c \in DOMAIN comments |->
                    [comments[c] EXCEPT !.gone = @ \/ posts[comments[c].post].author = a]]
  /\ UNCHANGED <<reactions, enabled, session, stage, work, scores, day, answers, events>>

NextDay ==
  /\ Event /\ day' = day + 1
  /\ UNCHANGED <<board, enabled, deleting, session, stage, work, scores, answers>>

\* The start-up hook goes on with the scores; a removal under way is cut short.
Crash ==
  /\ Event /\ stage # "closed"
  /\ stage' = "score" /\ deleting' = {}
  /\ seen' = Nothing
  /\ todo' = [a \in Agents |-> {}] /\ ops' = [a \in Agents |-> {}]
  /\ UNCHANGED <<board, enabled, session, scores, day, answers>>

Next ==
  \/ Start \/ NextStage \/ StagesEnd \/ StageRaises \/ Score
  \/ \E a \in Agents : Worker(a) \/ Disable(a) \/ DeletePosts(a)
  \/ UserSays \/ NextDay \/ Crash

Spec == Init /\ [][Next]_vars

-----------------------------------------------------------------------------
(* What must hold.                                                         *)

\* The steps a worker may hold.
Steps ==
  {Write} \cup [do: {"react"}, target: {"post", "comment"}, id: Nat, kind: DOMAIN Rank]
    \cup [do: {"say"}, post: Nat, parent: Nat, nth: Nat]

\* Every variable keeps its type.
TypeOK ==
  /\ posts \in Seq(Post)
  /\ comments \in Seq(Comment)
  /\ reactions \subseteq Reaction
  /\ enabled \subseteq Agents /\ deleting \subseteq Agents \ enabled
  /\ session \in {0} \cup Sessions
  /\ stage \in ToSet(Stages) \cup {"start", "score", "closed"}
  /\ seen \in [posts: SUBSET DOMAIN posts, comments: SUBSET DOMAIN comments, day: Nat]
  /\ todo \in [Agents -> SUBSET ({0} \cup DOMAIN posts)]
  /\ ops \in [Agents -> SUBSET Steps]
  /\ scores \in [Sessions -> [taken : BOOLEAN, of : SUBSET Reaction]]
  /\ day \in 1..(1 + events) /\ answers \in 0..MaxAnswers /\ events \in 0..MaxEvents

\* An agent writes at most one post a day, though sessions are stopped,
\* interrupted and started again on the same day (run_board_posts: who has
\* written today is left out).
OnePostADay ==
  \A p, q \in DOMAIN posts :
    posts[p].author = posts[q].author /\ posts[p].day = posts[q].day /\ ~posts[p].gone /\ ~posts[q].gone
      => p = q

\* A comment gets its verdict in one session only: an author is never asked
\* again about a comment it has reacted to (reacted_ids), whatever ended the
\* session in which it did.
OneVerdict ==
  \A r, q \in reactions :
    r.target = "comment" /\ q.target = "comment" /\ r.id = q.id => r.session = q.session

\* All that an agent answers to a reply to its comment is of one session: it is
\* never asked again about a reply it has answered, whatever ended the session in
\* which it did (run_reply_followup: threads that were answered are left out).
\* Within one answer it may name the reply several times, and each is written.
FollowUpInOneSession ==
  \A c, d \in DOMAIN comments :
    LET r == comments[c].parent IN
    r # 0 /\ comments[d].parent = r /\ comments[c].author = comments[d].author
      /\ comments[c].author # User /\ comments[r].parent # 0
      => comments[c].session = comments[d].session

\* What a session's scores were counted from does not grow afterwards: its
\* workers are done, or gone with the server.
ScoresAreFinal ==
  \A s \in Sessions : scores[s].taken => Counted(s) \subseteq scores[s].of

-----------------------------------------------------------------------------
(* What the repository says of the program and the code does not do.       *)

\* "answers once more" (board.py:302): an agent answers a reply once.  It does not
\* hold: an answer that names the reply twice writes two comments (board.py:346-357).
FollowUpOnce ==
  \A c, d \in DOMAIN comments :
    LET r == comments[c].parent IN
    r # 0 /\ comments[d].parent = r /\ comments[c].author = comments[d].author
      /\ comments[c].author # User /\ comments[r].parent # 0 => c = d

-----------------------------------------------------------------------------
(* The inductive invariant, in parts: what the rows say of one another, what *)
(* the workers hold of a stage, and what has not been done yet.              *)

\* A comment is on a post, a reply on its comment's post; an agent reacts to the
\* comments on its own posts only.
Linked ==
  /\ \A c \in DOMAIN comments :
       LET parent == comments[c].parent IN
       /\ comments[c].post \in DOMAIN posts
       /\ parent # 0 => parent \in DOMAIN comments /\ comments[parent].post = comments[c].post
  /\ \A r \in reactions :
       /\ r.target = "post" => r.id \in DOMAIN posts
       /\ r.target = "comment" => /\ r.id \in DOMAIN comments /\ r.kind # "view"
                                  /\ posts[comments[r.id].post].author = r.by

\* A comment on a post of a that the stage has read.
OnOwn(a, c) ==
  c \in seen.comments /\ comments[c].parent = 0 /\ posts[comments[c].post].author = a

\* What the worker a may have left to do in each stage.
StepFits(a, op) ==
  \/ stage = "write" /\ op = Write
  \/ stage = "browse" /\ op.do = "react" /\ op.target = "post" /\ op.id \in seen.posts
  \/ stage = "browse" /\ op.do = "say" /\ op.post \in seen.posts /\ op.parent = 0
  \/ stage = "feedback" /\ op.do = "react" /\ op.target = "comment" /\ op.kind # "view" /\ OnOwn(a, op.id)
  \/ /\ stage = "feedback" /\ op.do = "say"
     /\ OnOwn(a, op.parent) /\ op.post = comments[op.parent].post
  \/ /\ stage = "followup" /\ op.do = "say"
     /\ op.parent \in seen.comments /\ op.post = comments[op.parent].post

WorkFits ==
  /\ \A a \in Agents : todo[a] # {} \/ ops[a] # {} => stage \in ToSet(Stages)
  /\ \A a \in Agents : \A op \in ops[a] : StepFits(a, op)
  /\ stage \in {"write", "followup"} => \A a \in Agents : ops[a] # {} => 0 \notin todo[a]
  /\ stage = "feedback" => \A a \in Agents : \A p \in todo[a] : p \in seen.posts /\ posts[p].author = a
  /\ stage # "closed" => session \in Sessions

\* Who is still to write has not written on that day.
Unwritten ==
  stage = "write" =>
    \A a \in Agents : 0 \in todo[a] \/ ops[a] # {} =>
      \A p \in DOMAIN posts : ~(posts[p].author = a /\ posts[p].day = seen.day /\ ~posts[p].gone)

\* A comment that is still to be judged was not judged in an earlier session.
Unjudged ==
  \A a \in Agents : \A op \in ops[a] :
    op.do = "react" /\ op.target = "comment" =>
      \A r \in reactions : r.target = "comment" /\ r.id = op.id => r.session = session

\* Who is still to follow up has not said more than the stage has read; to the
\* replies of its answer it has said nothing in an earlier session.
Unfollowed ==
  stage = "followup" =>
    \A a \in Agents : \A x \in DOMAIN comments :
      comments[x].author = a =>
        /\ 0 \in todo[a] /\ comments[x].parent \in seen.comments => x \in seen.comments
        /\ \A op \in ops[a] : comments[x].parent = op.parent => comments[x].session = session

\* Scores are taken of sessions that are over.
ScoredOver == \A s \in Sessions : scores[s].taken => s < session \/ (s = session /\ stage = "closed")

IInv ==
  /\ TypeOK /\ Linked /\ WorkFits /\ Unwritten /\ Unjudged /\ Unfollowed /\ ScoredOver
  /\ OnePostADay /\ OneVerdict /\ FollowUpInOneSession /\ ScoresAreFinal
=============================================================================
