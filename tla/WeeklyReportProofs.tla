-------------------------- MODULE WeeklyReportProofs --------------------------
(***************************************************************************)
(* Proofs about the weekly report.                                         *)
(*                                                                         *)
(* What a conversation has left in the room follows from where it is       *)
(* (TalkInv).  A report is clean if it names nobody twice but where an     *)
(* answer rendered whole did; the merge of a clean report with an answer   *)
(* is clean and moves no other section (MergeIsClean, MergeKeepsOthers),   *)
(* so every report that was ever stored is clean, the one a run has read   *)
(* and still holds included (ReportInv).  The answers its sections come    *)
(* from stay as they are: they are of runs past the conversations.         *)
(***************************************************************************)
EXTENDS WeeklyReport, FiniteSetTheorems, WellFoundedInduction, TLAPS

-----------------------------------------------------------------------------
(* The merge of two reports, as an operation on texts.                     *)

\* A report that names nobody twice but where an answer did, by runs that have
\* their answer.
Early == {"none", "talk"}
Clean(rep) ==
  /\ NamedOnce(rep)
  /\ \A x \in DOMAIN rep.secs : phase[rep.secs[x].run] \notin Early

Section == [name : Names, run : Runs]

\* A set of natural numbers that is not empty has a least element.
LEMMA LeastExists ==
  ASSUME NEW S \in SUBSET Nat, S # {}
  PROVE  /\ Min(S) \in S
         /\ \A x \in S : Min(S) <= x
<1> DEFINE T == {0..x : x \in S}
<1>1. T \subseteq FiniteSubsetsOf(Nat)
  <2> SUFFICES ASSUME NEW x \in S PROVE 0..x \in FiniteSubsetsOf(Nat)
    OBVIOUS
  <2>1. x \in Nat
    OBVIOUS
  <2>2. IsFiniteSet(0..x)
    BY <2>1, FS_Interval
  <2>3. 0..x \in SUBSET Nat
    BY <2>1
  <2> QED
    BY <2>2, <2>3 DEF FiniteSubsetsOf
<1>2. PICK t \in T : \A u \in T : ~ (<<u, t>> \in StrictSubsetOrdering(Nat))
  <2>1. IsWellFoundedOn(StrictSubsetOrdering(Nat), FiniteSubsetsOf(Nat))
    BY FS_StrictSubsetOrderingWellFounded
  <2>2. T # {}
    OBVIOUS
  <2> HIDE DEF T
  <2> QED
    BY <1>1, <2>1, <2>2, WFMin
<1>3. PICK x \in S : t = 0..x
  OBVIOUS
<1>4. \A y \in S : x <= y
  <2> SUFFICES ASSUME NEW y \in S, ~ (x <= y) PROVE FALSE
    OBVIOUS
  <2>1. y < x /\ x \in Nat /\ y \in Nat
    OBVIOUS
  <2>2. 0..y \subseteq 0..x /\ x \in 0..x /\ x \notin 0..y
    BY <2>1
  <2>3. 0..y \in T /\ 0..y \subseteq Nat /\ 0..x \subseteq Nat
    BY <2>1
  <2>4. <<0..y, 0..x>> \in StrictSubsetOrdering(Nat)
    BY <2>2, <2>3 DEF StrictSubsetOrdering
  <2> QED
    BY <1>2, <1>3, <2>3, <2>4
<1> QED
  BY <1>4 DEF Min

LEMMA GreatestExists ==
  ASSUME NEW n \in Nat, NEW S \in SUBSET (1..n), S # {}
  PROVE  Max(S) \in S
<1> DEFINE T == {n - x : x \in S}
<1>1. T \in SUBSET Nat /\ T # {}
  <2>1. \A x \in S : n - x \in Nat
    OBVIOUS
  <2>2. PICK x : x \in S
    OBVIOUS
  <2>3. n - x \in T
    BY <2>2
  <2> QED
    BY <2>1, <2>3
<1> HIDE DEF T
<1>2. Min(T) \in T /\ \A t \in T : Min(T) <= t
  BY <1>1, LeastExists
<1>3. PICK x \in S : Min(T) = n - x
  BY <1>2 DEF T
<1>4. \A y \in S : n - x <= n - y
  BY <1>2, <1>3 DEF T
<1>5. \A y \in S : x >= y
  BY <1>4
<1> QED
  BY <1>5 DEF Max

LEMMA SectionIs ==
  ASSUME NEW secs \in Seq(Section)
  PROVE  Len(secs) \in Nat /\ DOMAIN secs = 1..Len(secs) /\ \A i \in DOMAIN secs : secs[i] \in Section
OBVIOUS

\* The place of a section of an answer in the report, and what was there.
LEMMA SpotPlace ==
  ASSUME NEW rep, IsReport(rep), NEW secs \in Seq(Section), NEW new \in SUBSET DOMAIN secs, NEW i \in new
  PROVE  LET s == Spot(rep, secs, new, i) IN
         /\ s \in 1..(rep.end + Len(secs))
         /\ s \in DOMAIN rep.secs => rep.secs[s].name = secs[i].name
         /\ s \notin DOMAIN rep.secs => s > rep.end
         /\ \A x \in DOMAIN rep.secs : rep.secs[x].name = secs[i].name => s \in DOMAIN rep.secs /\ s <= x
         /\ s \notin DOMAIN rep.secs => \E k \in new : s = rep.end + k /\ secs[k].name = secs[i].name
<1> DEFINE n == secs[i].name
           W == Where(rep, n)
           A == Alike(secs, new, i)
<1>1. Len(secs) \in Nat /\ DOMAIN secs = 1..Len(secs)
  BY SectionIs
<1>2. rep.end \in Nat /\ DOMAIN rep.secs \subseteq 1..rep.end
  BY DEF IsReport
<1>3. W = {x \in DOMAIN rep.secs : rep.secs[x].name = n}
  BY DEF Where
<1>4. CASE W = {}
  <2>1. A \in SUBSET Nat /\ A # {}
    BY <1>1 DEF Alike
  <2> HIDE DEF A
  <2>2. Min(A) \in A
    BY <2>1, LeastExists
  <2>3. Min(A) \in new /\ secs[Min(A)].name = n
    BY <2>2 DEF A, Alike
  <2>4. Spot(rep, secs, new, i) = rep.end + Min(A)
    BY <1>4 DEF Spot, A
  <2>5. PICK k \in new : k = Min(A)
    BY <2>3
  <2>6. k \in 1..Len(secs) /\ rep.end + k \in 1..(rep.end + Len(secs)) /\ rep.end + k > rep.end
        /\ rep.end + k \notin DOMAIN rep.secs
    BY <1>1, <1>2
  <2>7. \A x \in DOMAIN rep.secs : rep.secs[x].name # n
    BY <1>3, <1>4
  <2> QED
    BY <2>3, <2>4, <2>5, <2>6, <2>7
<1>5. CASE W # {}
  <2>1. W \in SUBSET Nat
    BY <1>2, <1>3
  <2> HIDE DEF W
  <2>2. Min(W) \in W /\ \A x \in W : Min(W) <= x
    BY <2>1, <1>5, LeastExists
  <2>3. Spot(rep, secs, new, i) = Min(W)
    BY <1>5 DEF Spot, W
  <2>4. Min(W) \in DOMAIN rep.secs /\ rep.secs[Min(W)].name = n
    BY <2>2, <1>3
  <2>5. Min(W) \in 1..(rep.end + Len(secs))
    BY <2>4, <1>1, <1>2
  <2>6. \A x \in DOMAIN rep.secs : rep.secs[x].name = n => Min(W) <= x
    BY <2>2, <1>3
  <2> QED
    BY <2>3, <2>4, <2>5, <2>6
<1> QED
  BY <1>4, <1>5

\* Two sections of an answer have one place exactly if they have one name.
LEMMA SameSpot ==
  ASSUME NEW rep, IsReport(rep), NEW secs \in Seq(Section), NEW new \in SUBSET DOMAIN secs,
         NEW i \in new, NEW j \in new
  PROVE  Spot(rep, secs, new, i) = Spot(rep, secs, new, j) <=> secs[i].name = secs[j].name
<1>1. ASSUME secs[i].name = secs[j].name PROVE Spot(rep, secs, new, i) = Spot(rep, secs, new, j)
  BY <1>1 DEF Spot, Alike
<1>2. ASSUME Spot(rep, secs, new, i) = Spot(rep, secs, new, j) PROVE secs[i].name = secs[j].name
  <2> DEFINE s == Spot(rep, secs, new, i)
             t == Spot(rep, secs, new, j)
  <2>1. /\ s \in DOMAIN rep.secs => rep.secs[s].name = secs[i].name
        /\ s \notin DOMAIN rep.secs => \E k \in new : s = rep.end + k /\ secs[k].name = secs[i].name
    BY SpotPlace
  <2>2. /\ t \in DOMAIN rep.secs => rep.secs[t].name = secs[j].name
        /\ t \notin DOMAIN rep.secs => \E k \in new : t = rep.end + k /\ secs[k].name = secs[j].name
    BY SpotPlace
  <2>3. s = t
    BY <1>2
  <2>4. rep.end \in Nat /\ new \subseteq Nat
    BY SectionIs DEF IsReport
  <2> HIDE DEF s, t
  <2>5. CASE s \in DOMAIN rep.secs
    BY <2>1, <2>2, <2>3, <2>5
  <2>6. CASE s \notin DOMAIN rep.secs
    <3>1. PICK k \in new : s = rep.end + k /\ secs[k].name = secs[i].name
      BY <2>1, <2>6
    <3>2. PICK l \in new : s = rep.end + l /\ secs[l].name = secs[j].name
      BY <2>2, <2>3, <2>6
    <3>3. k = l
      BY <2>4, <3>1, <3>2
    <3> QED
      BY <3>1, <3>2, <3>3
  <2> QED
    BY <2>5, <2>6
<1> QED
  BY <1>1, <1>2

\* What the merge leaves where: every place of the new text is the spot of
\* sections of the answer, and holds one of them, or a place of the old text.
LEMMA MergePlaces ==
  ASSUME NEW rep, IsReport(rep), NEW secs \in Seq(Section), NEW new \in SUBSET DOMAIN secs
  PROVE  LET m == _merge_report(rep, secs, new) IN
         /\ DOMAIN m = {"secs", "quiet", "end", "raw"}
         /\ m.end = rep.end + Len(secs) /\ m.raw = rep.raw
         /\ m.quiet = rep.quiet \ {secs[i].name : i \in new}
         /\ DOMAIN m.secs = DOMAIN rep.secs \cup {Spot(rep, secs, new, i) : i \in new}
         /\ m.secs = [x \in DOMAIN m.secs |-> m.secs[x]]
         /\ \A i \in new : \E k \in new :
              m.secs[Spot(rep, secs, new, i)] = secs[k] /\ secs[k].name = secs[i].name
         /\ \A x \in DOMAIN rep.secs :
              (\A i \in new : x # Spot(rep, secs, new, i)) => m.secs[x] = rep.secs[x]
<1> DEFINE spot == [i \in new |-> Spot(rep, secs, new, i)]
           m == _merge_report(rep, secs, new)
           body == [x \in DOMAIN rep.secs \cup Range(spot) |->
                      IF x \in Range(spot) THEN secs[Max({i \in DOMAIN spot : spot[i] = x})]
                      ELSE rep.secs[x]]
<1>1. /\ m.secs = body /\ m.end = rep.end + Len(secs) /\ m.raw = rep.raw
      /\ m.quiet = rep.quiet \ {secs[i].name : i \in DOMAIN spot}
      /\ DOMAIN m = {"secs", "quiet", "end", "raw"}
  BY DEF _merge_report, Put
<1>2. DOMAIN spot = new /\ Range(spot) = {Spot(rep, secs, new, i) : i \in new}
  BY DEF Range
<1>3. DOMAIN body = DOMAIN rep.secs \cup {Spot(rep, secs, new, i) : i \in new}
  BY <1>2
<1>4. ASSUME NEW i \in new
      PROVE  \E k \in new : body[Spot(rep, secs, new, i)] = secs[k] /\ secs[k].name = secs[i].name
  <2> DEFINE S == {j \in DOMAIN spot : spot[j] = Spot(rep, secs, new, i)}
  <2>1. S = {j \in new : Spot(rep, secs, new, j) = Spot(rep, secs, new, i)} /\ i \in S
    OBVIOUS
  <2>2. Spot(rep, secs, new, i) \in Range(spot)
    BY <1>2
  <2>3. body[Spot(rep, secs, new, i)] = secs[Max(S)]
    BY <2>2
  <2>4. S \in SUBSET (1..Len(secs)) /\ Len(secs) \in Nat
    BY <2>1, SectionIs
  <2> HIDE DEF S, body, spot
  <2>5. Max(S) \in S
    BY <2>1, <2>4, GreatestExists
  <2>6. Max(S) \in new /\ Spot(rep, secs, new, Max(S)) = Spot(rep, secs, new, i)
    BY <2>1, <2>5
  <2>7. PICK k \in new : k = Max(S)
    BY <2>6
  <2>8. secs[k].name = secs[i].name
    BY <2>6, <2>7, SameSpot
  <2> QED
    BY <2>3, <2>7, <2>8
<1>5. \A x \in DOMAIN rep.secs :
        (\A i \in new : x # Spot(rep, secs, new, i)) => body[x] = rep.secs[x]
  BY <1>2
<1>6. m.secs = [x \in DOMAIN m.secs |-> m.secs[x]]
  BY <1>1
<1> HIDE DEF body, m, spot
<1>7. /\ DOMAIN m = {"secs", "quiet", "end", "raw"}
      /\ m.end = rep.end + Len(secs) /\ m.raw = rep.raw
      /\ m.quiet = rep.quiet \ {secs[i].name : i \in new}
      /\ DOMAIN m.secs = DOMAIN rep.secs \cup {Spot(rep, secs, new, i) : i \in new}
      /\ m.secs = [x \in DOMAIN m.secs |-> m.secs[x]]
      /\ \A i \in new : \E k \in new :
           m.secs[Spot(rep, secs, new, i)] = secs[k] /\ secs[k].name = secs[i].name
      /\ \A x \in DOMAIN rep.secs :
           (\A i \in new : x # Spot(rep, secs, new, i)) => m.secs[x] = rep.secs[x]
  BY <1>1, <1>2, <1>3, <1>4, <1>5, <1>6
<1> QED
  BY <1>7 DEF m
-----------------------------------------------------------------------------
\* The merge of a clean report with the answer of a run is a clean report.
LEMMA MergeIsClean ==
  ASSUME NEW rep, IsReport(rep), Clean(rep), NEW secs \in Seq(Section),
         NEW new \in SUBSET DOMAIN secs, \A i \in new : phase[secs[i].run] \notin Early
  PROVE  IsReport(_merge_report(rep, secs, new)) /\ Clean(_merge_report(rep, secs, new))
<1> DEFINE m == _merge_report(rep, secs, new)
           Spt(i) == Spot(rep, secs, new, i)
<1>1. /\ DOMAIN m = {"secs", "quiet", "end", "raw"}
      /\ m.end = rep.end + Len(secs) /\ m.raw = rep.raw
      /\ m.quiet = rep.quiet \ {secs[i].name : i \in new}
      /\ DOMAIN m.secs = DOMAIN rep.secs \cup {Spt(i) : i \in new}
      /\ m.secs = [x \in DOMAIN m.secs |-> m.secs[x]]
      /\ \A i \in new : \E k \in new : m.secs[Spt(i)] = secs[k] /\ secs[k].name = secs[i].name
      /\ \A x \in DOMAIN rep.secs :
           (\A i \in new : x # Spt(i)) => m.secs[x] = rep.secs[x]
  BY MergePlaces
<1>2. \A i \in new :
        /\ Spt(i) \in 1..(rep.end + Len(secs))
        /\ Spt(i) \in DOMAIN rep.secs => rep.secs[Spt(i)].name = secs[i].name
        /\ Spt(i) \notin DOMAIN rep.secs => Spt(i) > rep.end
        /\ \A x \in DOMAIN rep.secs : rep.secs[x].name = secs[i].name => Spt(i) \in DOMAIN rep.secs /\ Spt(i) <= x
  <2> SUFFICES ASSUME NEW i \in new
               PROVE  /\ Spt(i) \in 1..(rep.end + Len(secs))
                      /\ Spt(i) \in DOMAIN rep.secs => rep.secs[Spt(i)].name = secs[i].name
                      /\ Spt(i) \notin DOMAIN rep.secs => Spt(i) > rep.end
                      /\ \A x \in DOMAIN rep.secs : rep.secs[x].name = secs[i].name =>
                           Spt(i) \in DOMAIN rep.secs /\ Spt(i) <= x
    OBVIOUS
  <2> HIDE DEF m
  <2>1. LET s == Spot(rep, secs, new, i) IN
        /\ s \in 1..(rep.end + Len(secs))
        /\ s \in DOMAIN rep.secs => rep.secs[s].name = secs[i].name
        /\ s \notin DOMAIN rep.secs => s > rep.end
        /\ \A x \in DOMAIN rep.secs : rep.secs[x].name = secs[i].name => s \in DOMAIN rep.secs /\ s <= x
        /\ s \notin DOMAIN rep.secs => \E k \in new : s = rep.end + k /\ secs[k].name = secs[i].name
    BY SpotPlace
  <2> QED
    BY <2>1
<1>3. \A i, j \in new : secs[i].name = secs[j].name => Spt(i) = Spt(j)
  BY SameSpot
<1> HIDE DEF m, Spt
<1>4. \A i \in DOMAIN secs : secs[i] \in Section
  BY SectionIs
<1>5. rep.end \in Nat /\ Len(secs) \in Nat /\ DOMAIN rep.secs \subseteq 1..rep.end
  BY SectionIs DEF IsReport
<1>6. \A x \in DOMAIN m.secs :
        \/ \E i, k \in new : x = Spt(i) /\ m.secs[x] = secs[k] /\ secs[k].name = secs[i].name
        \/ x \in DOMAIN rep.secs /\ m.secs[x] = rep.secs[x] /\ \A i \in new : x # Spt(i)
  BY <1>1
<1>7. IsReport(m)
  <2>1. m.secs \in [DOMAIN m.secs -> [name : Names, run : Runs]]
    <3>1. \A x \in DOMAIN m.secs : m.secs[x] \in [name : Names, run : Runs]
      BY <1>4, <1>6 DEF IsReport, Section
    <3> QED
      BY <1>1, <3>1
  <2>2. m.end \in Nat /\ DOMAIN m.secs \subseteq 1..m.end
    BY <1>1, <1>2, <1>5
  <2>3. m.quiet \subseteq Names /\ m.raw \subseteq Runs
    BY <1>1 DEF IsReport
  <2> QED
    BY <1>1, <2>1, <2>2, <2>3 DEF IsReport
<1>8. ASSUME NEW x \in DOMAIN m.secs, NEW y \in DOMAIN m.secs, x < y, m.secs[x].name = m.secs[y].name
      PROVE  y \in DOMAIN rep.secs /\ m.secs[y] = rep.secs[y]
             /\ x \in DOMAIN rep.secs /\ rep.secs[x].name = rep.secs[y].name
  <2>1. CASE \E i, k \in new : y = Spt(i) /\ m.secs[y] = secs[k] /\ secs[k].name = secs[i].name
    <3>1. PICK i \in new : y = Spt(i) /\ m.secs[y].name = secs[i].name
      BY <2>1
    <3>2. CASE \E j, k \in new : x = Spt(j) /\ m.secs[x] = secs[k] /\ secs[k].name = secs[j].name
      <4>1. PICK j \in new : x = Spt(j) /\ m.secs[x].name = secs[j].name
        BY <3>2
      <4>2. x = y
        BY <1>3, <1>8, <3>1, <4>1
      <4> QED
        BY <1>2, <1>5, <1>8, <3>1, <4>2
    <3>3. CASE x \in DOMAIN rep.secs /\ m.secs[x] = rep.secs[x]
      <4>1. y <= x /\ x \in Nat /\ y \in Nat
        BY <1>2, <1>5, <1>8, <3>1, <3>3
      <4> QED
        BY <1>8, <4>1
    <3> QED
      BY <1>6, <3>2, <3>3
  <2>2. CASE y \in DOMAIN rep.secs /\ m.secs[y] = rep.secs[y] /\ \A i \in new : y # Spt(i)
    <3>1. CASE \E j, k \in new : x = Spt(j) /\ m.secs[x] = secs[k] /\ secs[k].name = secs[j].name
      <4>1. PICK j \in new : x = Spt(j) /\ m.secs[x].name = secs[j].name
        BY <3>1
      <4>2. x \in DOMAIN rep.secs /\ rep.secs[x].name = secs[j].name
        BY <1>2, <1>8, <2>2, <4>1
      <4> QED
        BY <1>8, <2>2, <4>1, <4>2
    <3>2. CASE x \in DOMAIN rep.secs /\ m.secs[x] = rep.secs[x]
      BY <1>8, <2>2, <3>2
    <3> QED
      BY <1>6, <3>1, <3>2
  <2> QED
    BY <1>6, <2>1, <2>2
<1>9. ASSUME NEW y \in DOMAIN m.secs, m.secs[y].name \in m.quiet
      PROVE  y \in DOMAIN rep.secs /\ m.secs[y] = rep.secs[y] /\ m.secs[y].name \in rep.quiet
  <2>1. m.secs[y].name \in rep.quiet /\ \A i \in new : m.secs[y].name # secs[i].name
    BY <1>1, <1>9
  <2>2. y \in DOMAIN rep.secs /\ m.secs[y] = rep.secs[y]
    BY <1>6, <1>9, <2>1
  <2> QED
    BY <2>1, <2>2
<1>10. NamedOnce(m)
  <2> SUFFICES ASSUME NEW x \in DOMAIN m.secs, NEW y \in DOMAIN m.secs
               PROVE  LET n == m.secs[y].name
                          r == m.secs[y].run IN
                      /\ x < y /\ m.secs[x].name = n => Whole(r) /\ Twice(r, n)
                      /\ n \in m.quiet => Whole(r) /\ n \in answer[r].quiet
    BY DEF NamedOnce
  <2>1. ASSUME x < y, m.secs[x].name = m.secs[y].name
        PROVE  Whole(m.secs[y].run) /\ Twice(m.secs[y].run, m.secs[y].name)
    BY <1>8, <2>1 DEF Clean, NamedOnce
  <2>2. ASSUME m.secs[y].name \in m.quiet
        PROVE  Whole(m.secs[y].run) /\ m.secs[y].name \in answer[m.secs[y].run].quiet
    BY <1>9, <2>2 DEF Clean, NamedOnce
  <2> QED
    BY <2>1, <2>2
<1>11. \A x \in DOMAIN m.secs : phase[m.secs[x].run] \notin Early
  BY <1>6 DEF Clean
<1>12. IsReport(m) /\ Clean(m)
  BY <1>7, <1>10, <1>11 DEF Clean
<1> QED
  BY <1>12 DEF m

\* A run of chosen projects puts only sections of these into a report: the
\* others stay as they are, and where they are.
LEMMA MergeKeepsOthers ==
  ASSUME NEW rep, IsReport(rep), NEW secs \in Seq(Section),
         NEW new \in SUBSET DOMAIN secs, NEW r \in Runs,
         \A i \in new : secs[i].name \in Chosen[r]
  PROVE  /\ Others(r, _merge_report(rep, secs, new)) = Others(r, rep)
         /\ _merge_report(rep, secs, new).raw = rep.raw
<1> DEFINE m == _merge_report(rep, secs, new)
           Spt(i) == Spot(rep, secs, new, i)
<1>1. /\ DOMAIN m = {"secs", "quiet", "end", "raw"}
      /\ m.end = rep.end + Len(secs) /\ m.raw = rep.raw
      /\ m.quiet = rep.quiet \ {secs[i].name : i \in new}
      /\ DOMAIN m.secs = DOMAIN rep.secs \cup {Spt(i) : i \in new}
      /\ m.secs = [x \in DOMAIN m.secs |-> m.secs[x]]
      /\ \A i \in new : \E k \in new : m.secs[Spt(i)] = secs[k] /\ secs[k].name = secs[i].name
      /\ \A x \in DOMAIN rep.secs :
           (\A i \in new : x # Spt(i)) => m.secs[x] = rep.secs[x]
  BY MergePlaces
<1>2. \A i \in new : Spt(i) \in DOMAIN rep.secs => rep.secs[Spt(i)].name = secs[i].name
  BY SpotPlace
<1> HIDE DEF m, Spt
<1>3. {x \in DOMAIN m.secs : m.secs[x].name \notin Chosen[r]}
        = {x \in DOMAIN rep.secs : rep.secs[x].name \notin Chosen[r]}
  <2>1. \A x \in DOMAIN m.secs : m.secs[x].name \notin Chosen[r] =>
          x \in DOMAIN rep.secs /\ m.secs[x] = rep.secs[x]
    BY <1>1
  <2>2. \A x \in DOMAIN rep.secs : rep.secs[x].name \notin Chosen[r] =>
          x \in DOMAIN m.secs /\ m.secs[x] = rep.secs[x]
    BY <1>1, <1>2
  <2> QED
    BY <2>1, <2>2
<1>4. \A x \in {x \in DOMAIN rep.secs : rep.secs[x].name \notin Chosen[r]} :
        m.secs[x] = rep.secs[x]
  BY <1>1, <1>2
<1>5. Others(r, m) = Others(r, rep)
  BY <1>3, <1>4 DEF Others
<1> QED
  BY <1>1, <1>5 DEF m

\* What is rendered from an answer is a clean report, whatever it names; so is no
\* report, and the raw text of a run.
LEMMA RenderIsClean ==
  ASSUME NEW r \in Runs, answer[r] \in Answers \cup {Nothing}
  PROVE  /\ Sections(r) \in Seq(Section) /\ Known(r) \subseteq DOMAIN Sections(r)
         /\ \A i \in DOMAIN Sections(r) : Sections(r)[i].run = r
         /\ \A i \in Known(r) : Sections(r)[i].name \in Chosen[r]
         /\ IsReport(_render_report(r))
         /\ base[r] = NoReport /\ phase[r] \notin Early => Clean(_render_report(r))
<1> DEFINE a == answer[r]
           rep == _render_report(r)
<1>1. a.secs \in Seq(Names) /\ a.quiet \subseteq Names
  <2>1. CASE a \in Answers
    BY <2>1, AnswersAssumption
  <2>2. CASE a = Nothing
    BY <2>2 DEF Nothing
  <2> QED
    BY <2>1, <2>2
<1>2. /\ Len(a.secs) \in Nat /\ DOMAIN a.secs = 1..Len(a.secs)
      /\ \A i \in DOMAIN a.secs : a.secs[i] \in Names
  BY <1>1
<1>3. Sections(r) = [i \in DOMAIN a.secs |-> [name |-> a.secs[i], run |-> r]]
  BY DEF Sections
<1>4. Known(r) \subseteq DOMAIN a.secs /\ \A i \in Known(r) : a.secs[i] \in Chosen[r]
  BY DEF Known
<1>5. /\ rep.secs = Sections(r) /\ rep.quiet = a.quiet /\ rep.end = Len(a.secs) + 1 /\ rep.raw = {}
      /\ DOMAIN rep = {"secs", "quiet", "end", "raw"}
  BY DEF _render_report
<1>6. \A n : (\E i, j \in DOMAIN a.secs : i < j /\ a.secs[i] = n /\ a.secs[j] = n) => Twice(r, n)
  BY DEF Twice
<1> HIDE DEF a, rep
<1>7. \A i \in DOMAIN a.secs : [name |-> a.secs[i], run |-> r] \in Section
  BY <1>2 DEF Section
<1>8. /\ DOMAIN Sections(r) = DOMAIN a.secs
      /\ \A i \in DOMAIN a.secs : Sections(r)[i].name = a.secs[i] /\ Sections(r)[i].run = r
  BY <1>3
<1>9. Sections(r) \in Seq(Section)
  BY <1>2, <1>3, <1>7
<1>10. IsReport(rep)
  BY <1>1, <1>2, <1>3, <1>5, <1>7 DEF IsReport, Section
<1>11. ASSUME base[r] = NoReport, phase[r] \notin Early PROVE Clean(rep)
  <2>1. NamedOnce(rep)
    <3> SUFFICES ASSUME NEW x \in DOMAIN rep.secs, NEW y \in DOMAIN rep.secs
                 PROVE  LET n == rep.secs[y].name
                            q == rep.secs[y].run IN
                        /\ x < y /\ rep.secs[x].name = n => Whole(q) /\ Twice(q, n)
                        /\ n \in rep.quiet => Whole(q) /\ n \in answer[q].quiet
      BY DEF NamedOnce
    <3>1. /\ x \in DOMAIN a.secs /\ y \in DOMAIN a.secs /\ rep.secs[y].run = r
          /\ rep.secs[x].name = a.secs[x] /\ rep.secs[y].name = a.secs[y]
      BY <1>5, <1>8
    <3>2. Whole(r)
      BY <1>11 DEF Whole
    <3>3. x < y /\ a.secs[x] = a.secs[y] => Twice(r, a.secs[y])
      BY <1>6, <3>1
    <3>4. a.secs[y] \in rep.quiet => a.secs[y] \in answer[r].quiet
      BY <1>5 DEF a
    <3> QED
      BY <3>1, <3>2, <3>3, <3>4
  <2>2. \A x \in DOMAIN rep.secs : phase[rep.secs[x].run] \notin Early
    BY <1>5, <1>8, <1>11
  <2> QED
    BY <2>1, <2>2 DEF Clean
<1> QED
  BY <1>4, <1>8, <1>9, <1>10, <1>11 DEF rep

LEMMA RawIsClean ==
  ASSUME NEW R \in SUBSET Runs
  PROVE  IsReport([NoReport EXCEPT !.raw = R]) /\ Clean([NoReport EXCEPT !.raw = R])
<1>1. [NoReport EXCEPT !.raw = R] = [secs |-> <<>>, quiet |-> {}, end |-> 0, raw |-> R]
  BY DEF NoReport
<1> DEFINE raw == [secs |-> <<>>, quiet |-> {}, end |-> 0, raw |-> R]
<1>2. /\ raw.secs = <<>> /\ raw.quiet = {} /\ raw.end = 0 /\ raw.raw = R
      /\ DOMAIN raw = {"secs", "quiet", "end", "raw"}
  OBVIOUS
<1> HIDE DEF raw
<1>3. DOMAIN raw.secs = {}
  <2>1. DOMAIN <<>> = {}
    OBVIOUS
  <2> QED
    BY <2>1, <1>2
<1>4. raw.secs \in [DOMAIN raw.secs -> [name : Names, run : Runs]]
  <2> DEFINE S == [name : Names, run : Runs]
  <2> HIDE DEF S
  <2>1. <<>> \in [DOMAIN <<>> -> S]
    OBVIOUS
  <2> QED
    BY <2>1, <1>2 DEF S
<1>5. IsReport(raw)
  BY <1>2, <1>3, <1>4 DEF IsReport
<1>6. Clean(raw)
  BY <1>3 DEF Clean, NamedOnce
<1> QED
  BY <1>1, <1>5, <1>6 DEF raw
LEMMA EmptyIsClean == IsReport(NoReport) /\ Clean(NoReport)
<1>1. PICK R \in SUBSET Runs : R = {}
  OBVIOUS
<1>2. [NoReport EXCEPT !.raw = R] = [secs |-> <<>>, quiet |-> {}, end |-> 0, raw |-> R]
  BY DEF NoReport
<1>3. NoReport = [secs |-> <<>>, quiet |-> {}, end |-> 0, raw |-> R]
  BY <1>1 DEF NoReport
<1>4. PICK rep : rep = [NoReport EXCEPT !.raw = R]
  OBVIOUS
<1>5. IsReport(rep) /\ Clean(rep)
  BY <1>4, RawIsClean
<1>6. rep = NoReport
  BY <1>2, <1>3, <1>4
<1> QED
  BY <1>5, <1>6

-----------------------------------------------------------------------------
(* The invariant.                                                          *)

USE DEF talk, save

\* What a conversation has left behind, from where it is.
Fits(act, a, t, w) ==
  /\ a \in {"pm", "agent"} => t < Rounds
  /\ a \in {"idle", "wait"} => t = 0
  /\ act /\ a \in {"agent", "review", "over"} => "talk" \in w
  /\ act /\ a = "pm" /\ t # 0 => "talk" \in w
  /\ ~ act => a \in {"idle", "over"}

Fitting(r, p) == Fits(p \in active[r], at[r][p], turns[r][p], wrote[r][p])

TalkInv ==
  /\ \A r \in Runs, p \in Projects : Fitting(r, p)
  /\ \A r \in Runs : phase[r] = "none" => \A p \in Projects : at[r][p] = "idle"

TalkTypes ==
  /\ active \in [Runs -> SUBSET Projects]
  /\ at \in [Runs -> [Projects -> Places]] /\ turns \in [Runs -> [Projects -> 0..Rounds]]
  /\ wrote \in [Runs -> [Projects -> SUBSET {"talk", "part"}]]

\* The sections still to store are sections of known projects.
StoreInv ==
  \A r \in Runs :
    /\ todo[r] \subseteq Known(r)
    /\ phase[r] \in {"none", "talk"} => todo[r] = {}
    /\ phase[r] = "file" => todo[r] # {}

PhaseTypes ==
  /\ phase \in [Runs -> {"none", "talk", "save", "spread", "file"} \cup Ended]
  /\ stops \in 0..MaxStops

StoreTypes ==
  /\ answer \in [Runs -> Answers \cup {Nothing}] /\ todo \in [Runs -> SUBSET Nat]
  /\ file \in [Projects -> Seq(Runs)] /\ written \in [Runs -> SUBSET Projects]

ReportInv ==
  /\ IsReport(report) /\ Clean(report)
  /\ base \in [Runs -> {base[r] : r \in Runs}]
  /\ \A r \in Runs : IsReport(base[r]) /\ Clean(base[r])

IInv ==
  /\ PhaseTypes /\ TalkTypes /\ TalkInv
  /\ StoreTypes /\ StoreInv /\ ReportInv

TalkVars  == <<active, at, turns, wrote>>
StoreVars == <<answer, todo, file, written>>
ReportVars == <<report, base>>

\* The runs that have their answer keep it, and what they merge into.
Settled ==
  \A q \in Runs : phase[q] \notin Early =>
    phase'[q] \notin Early /\ answer'[q] = answer[q] /\ base'[q] = base[q]

LEMMA CleanStands ==
  ASSUME Settled, NEW rep, IsReport(rep), Clean(rep)
  PROVE  IsReport(rep)' /\ Clean(rep)'
<1>1. IsReport(rep)'
  BY DEF IsReport
<1>2. ASSUME NEW y \in DOMAIN rep.secs
      PROVE  LET r == rep.secs[y].run IN
             phase'[r] \notin Early /\ answer'[r] = answer[r] /\ base'[r] = base[r]
  <2>1. rep.secs[y].run \in Runs
    BY DEF IsReport
  <2> QED
    BY <2>1 DEF Settled, Clean
<1>3. NamedOnce(rep)'
  <2> SUFFICES ASSUME NEW x \in DOMAIN rep.secs, NEW y \in DOMAIN rep.secs
               PROVE  LET n == rep.secs[y].name
                          q == rep.secs[y].run IN
                      /\ x < y /\ rep.secs[x].name = n => Whole(q)' /\ Twice(q, n)'
                      /\ n \in rep.quiet => Whole(q)' /\ n \in answer'[q].quiet
    BY DEF NamedOnce
  <2> QED
    BY <1>2 DEF Clean, NamedOnce, Whole, Twice
<1> QED
  BY <1>1, <1>2, <1>3 DEF Clean

\* A report is written, or the reports are left alone.
LEMMA ReportWritten ==
  ASSUME ReportInv, Settled, base' = base, NEW rep, IsReport(rep), Clean(rep), report' = rep
  PROVE  ReportInv'
<1>1. IsReport(rep)' /\ Clean(rep)'
  BY CleanStands
<1>2. IsReport(report)' /\ Clean(report)'
  BY <1>1 DEF IsReport, Clean, NamedOnce
<1>3. ASSUME NEW r \in Runs PROVE (IsReport(base[r]) /\ Clean(base[r]))'
  <2>1. PICK b : b = base[r] /\ IsReport(b) /\ Clean(b)
    BY DEF ReportInv
  <2>2. IsReport(b)' /\ Clean(b)'
    BY <2>1, CleanStands
  <2> QED
    BY <2>1, <2>2 DEF IsReport, Clean, NamedOnce
<1> QED
  BY <1>2, <1>3 DEF ReportInv

LEMMA ReportStands ==
  ASSUME ReportInv, Settled, report' = report, base' = base
  PROVE  ReportInv'
<1>1. PICK rep : rep = report /\ IsReport(rep) /\ Clean(rep)
  BY DEF ReportInv
<1> QED
  BY <1>1, ReportWritten

LEMMA RoundsType == Rounds \in Nat \ {0} /\ MaxStops \in Nat
  BY BoundsAssumption

LEMMA InitIInv == Init => IInv
<1> SUFFICES ASSUME Init PROVE IInv
  OBVIOUS
<1>1. PhaseTypes
  BY RoundsType DEF Init, PhaseTypes
<1>2. TalkTypes
  BY RoundsType DEF Init, TalkTypes, Places
<1>3. TalkInv
  <2>1. \A r \in Runs, p \in Projects :
          active[r] = {} /\ at[r][p] = "idle" /\ turns[r][p] = 0
    BY DEF Init
  <2> QED
    BY <2>1 DEF TalkInv, Fitting, Fits
<1>4. StoreTypes
  BY DEF Init, StoreTypes
<1>5. StoreInv
  BY DEF Init, StoreInv
<1>6. ReportInv
  <2>1. report = NoReport /\ base = [r \in Runs |-> NoReport]
    BY DEF Init
  <2>2. IsReport(NoReport) /\ Clean(NoReport)
    BY EmptyIsClean
  <2> QED
    BY <2>1, <2>2 DEF ReportInv
<1> QED
  BY <1>1, <1>2, <1>3, <1>4, <1>5, <1>6 DEF IInv

-----------------------------------------------------------------------------
(* The conversations.                                                      *)

\* A step of one conversation: where it goes, its turns, what it has left.
Moves(r, p, to, t, w) ==
  /\ at' = [at EXCEPT ![r][p] = to]
  /\ turns' = [turns EXCEPT ![r][p] = t]
  /\ wrote' = [wrote EXCEPT ![r][p] = w]
  /\ active' = active

LEMMA MovesFits ==
  ASSUME TalkTypes, TalkInv, NEW r \in Runs, NEW p \in Projects, phase' = phase,
         NEW to \in Places, NEW t \in 0..Rounds, NEW w \in SUBSET {"talk", "part"},
         Moves(r, p, to, t, w), Fits(p \in active[r], to, t, w), phase[r] # "none"
  PROVE  TalkTypes' /\ TalkInv'
<1>1. /\ at \in [Runs -> [Projects -> Places]] /\ turns \in [Runs -> [Projects -> 0..Rounds]]
      /\ wrote \in [Runs -> [Projects -> SUBSET {"talk", "part"}]]
  BY DEF TalkTypes
<1>2. /\ at' = [at EXCEPT ![r][p] = to] /\ turns' = [turns EXCEPT ![r][p] = t]
      /\ wrote' = [wrote EXCEPT ![r][p] = w] /\ active' = active
  BY DEF Moves
<1>3. at' \in [Runs -> [Projects -> Places]]
  BY <1>1, <1>2
<1>4. turns' \in [Runs -> [Projects -> 0..Rounds]]
  BY <1>1, <1>2
<1>5. wrote' \in [Runs -> [Projects -> SUBSET {"talk", "part"}]]
  BY <1>1, <1>2
<1>6. TalkTypes'
  BY <1>2, <1>3, <1>4, <1>5 DEF TalkTypes
<1>7. \A q \in Runs, o \in Projects : ~ (q = r /\ o = p) =>
        at'[q][o] = at[q][o] /\ turns'[q][o] = turns[q][o] /\ wrote'[q][o] = wrote[q][o]
  BY <1>1, <1>2
<1>8. at'[r][p] = to /\ turns'[r][p] = t /\ wrote'[r][p] = w
  BY <1>1, <1>2
<1>9. \A q \in Runs, o \in Projects : Fitting(q, o)'
  <2> SUFFICES ASSUME NEW q \in Runs, NEW o \in Projects PROVE Fitting(q, o)'
    OBVIOUS
  <2>1. CASE q = r /\ o = p
    BY <2>1, <1>2, <1>8 DEF Fitting
  <2>2. CASE ~ (q = r /\ o = p)
    <3>1. Fitting(q, o)
      BY DEF TalkInv
    <3> QED
      BY <2>2, <3>1, <1>2, <1>7 DEF Fitting
  <2> QED
    BY <2>1, <2>2
<1>10. \A q \in Runs : phase'[q] = "none" => \A o \in Projects : at'[q][o] = "idle"
  BY <1>7 DEF TalkInv
<1> QED
  BY <1>6, <1>9, <1>10 DEF TalkInv

\* One step of a conversation is a move that fits.
LEMMA TalkMoves ==
  ASSUME TalkTypes, TalkInv, NEW r \in Runs, NEW p \in Projects, Talk(r, p)
  PROVE  \E to \in Places, t \in 0..Rounds, w \in SUBSET {"talk", "part"} :
           Moves(r, p, to, t, w) /\ Fits(p \in active[r], to, t, w)
<1> DEFINE t == turns[r][p]
           w == wrote[r][p]
<1>1. /\ t \in 0..Rounds /\ w \in SUBSET {"talk", "part"}
      /\ w \cup {"talk"} \in SUBSET {"talk", "part"} /\ "talk" \in w \cup {"talk"}
  BY DEF TalkTypes
<1>2. turns = [turns EXCEPT ![r][p] = t] /\ wrote = [wrote EXCEPT ![r][p] = w]
  BY DEF TalkTypes
<1>3. Fits(p \in active[r], at[r][p], t, w)
  BY DEF TalkInv, Fitting
<1> HIDE DEF t, w
<1>4. CASE BeginTalk(r, p)
  <2>1. Moves(r, p, "pm", t, w) /\ at[r][p] = "wait"
    BY <1>2, <1>4 DEF BeginTalk, Place, TalkFrame, Moves
  <2>2. Fits(p \in active[r], "pm", t, w)
    BY <1>3, <2>1, RoundsType DEF Fits
  <2> QED
    BY <1>1, <2>1, <2>2 DEF Places
<1>5. CASE PmFails(r, p)
  <2>1. /\ at[r][p] = "pm"
        /\ IF t = 0 THEN Moves(r, p, "review", t, w \cup {"talk"}) ELSE Moves(r, p, "review", t, w)
    BY <1>2, <1>5 DEF PmFails, Place, Says, TalkFrame, Moves, t, w
  <2>2. Fits(p \in active[r], "review", t, w \cup {"talk"})
    BY <1>1, <1>3, <2>1 DEF Fits
  <2>3. t # 0 => Fits(p \in active[r], "review", t, w)
    BY <1>3, <2>1 DEF Fits
  <2> QED
    BY <1>1, <2>1, <2>2, <2>3 DEF Places
<1>6. CASE PmCloses(r, p) \/ TalkRaises(r, p)
  <2>1. Moves(r, p, "review", t, w \cup {"talk"}) /\ at[r][p] \in {"pm", "agent"}
    BY <1>2, <1>6 DEF PmCloses, TalkRaises, Place, Says, TalkFrame, Moves, w
  <2>2. Fits(p \in active[r], "review", t, w \cup {"talk"})
    BY <1>1, <1>3, <2>1 DEF Fits
  <2> QED
    BY <1>1, <2>1, <2>2 DEF Places
<1>7. CASE PmAsks(r, p)
  <2>1. Moves(r, p, "agent", t, w \cup {"talk"}) /\ at[r][p] = "pm"
    BY <1>2, <1>7 DEF PmAsks, Place, Says, TalkFrame, Moves, w
  <2>2. Fits(p \in active[r], "agent", t, w \cup {"talk"})
    BY <1>1, <1>3, <2>1 DEF Fits
  <2> QED
    BY <1>1, <2>1, <2>2 DEF Places
<1>8. CASE AgentAnswers(r, p)
  <2> DEFINE to == IF t + 1 = Rounds THEN "review" ELSE "pm"
  <2>1. turns' = [turns EXCEPT ![r][p] = t + 1] /\ at[r][p] = "agent"
    BY <1>8 DEF AgentAnswers, Place, t
  <2>2. turns'[r][p] = t + 1
    BY <2>1 DEF TalkTypes
  <2>3. Moves(r, p, to, t + 1, w \cup {"talk"})
    BY <1>8, <2>1, <2>2 DEF AgentAnswers, Place, Says, TalkFrame, Moves, w
  <2>4. t < Rounds
    BY <1>3, <2>1 DEF Fits
  <2>5. Fits(p \in active[r], to, t + 1, w \cup {"talk"})
    BY <1>1, <1>3, <2>1, <2>4, RoundsType DEF Fits
  <2>6. t + 1 \in 0..Rounds /\ to \in Places
    BY <1>1, <2>4, RoundsType DEF Places
  <2> QED
    BY <1>1, <2>3, <2>5, <2>6
<1>9. CASE Review(r, p)
  <2>1. /\ at[r][p] = "review"
        /\ Moves(r, p, "over", 0, w \cup {"talk"}) \/ Moves(r, p, "over", 0, w)
    BY <1>2, <1>9 DEF Review, Place, Says, TalkFrame, Moves, w
  <2>2. Fits(p \in active[r], "over", 0, w \cup {"talk"})
    BY <1>1, <1>3, <2>1 DEF Fits
  <2>3. Fits(p \in active[r], "over", 0, w)
    BY <1>3, <2>1 DEF Fits
  <2>4. "over" \in Places /\ 0 \in 0..Rounds
    BY RoundsType DEF Places
  <2>5. CASE Moves(r, p, "over", 0, w \cup {"talk"})
    BY <1>1, <2>2, <2>4, <2>5
  <2>6. CASE Moves(r, p, "over", 0, w)
    BY <1>1, <2>3, <2>4, <2>6
  <2> QED
    BY <2>1, <2>5, <2>6
<1> QED
  BY <1>4, <1>5, <1>6, <1>7, <1>8, <1>9 DEF Talk
-----------------------------------------------------------------------------
(* The steps of a run.                                                     *)

LEMMA CollectStep ==
  ASSUME IInv, NEW r \in Runs, Collect(r)
  PROVE  IInv'
<1> USE DEF IInv
<1>1. phase[r] = "none" /\ phase' = [phase EXCEPT ![r] = "talk"] /\ stops' = stops
  BY DEF Collect, Goto
<1>2. PICK A \in SUBSET Chosen[r] :
        /\ active' = [active EXCEPT ![r] = A]
        /\ at' = [at EXCEPT ![r] = [p \in Projects |-> IF p \in A THEN "wait" ELSE "over"]]
  BY DEF Collect
<1>3. turns' = turns /\ wrote' = wrote /\ report' = report /\ base' = base /\ UNCHANGED StoreVars
  BY DEF Collect, StoreVars
<1>4. A \subseteq Projects
  BY ChosenAssumption
<1>5. PhaseTypes'
  BY <1>1 DEF PhaseTypes
<1>6. TalkTypes'
  <2>1. active' \in [Runs -> SUBSET Projects]
    BY <1>2, <1>4 DEF TalkTypes
  <2>2. [p \in Projects |-> IF p \in A THEN "wait" ELSE "over"] \in [Projects -> Places]
    BY DEF Places
  <2>3. at' \in [Runs -> [Projects -> Places]]
    BY <1>2, <2>2 DEF TalkTypes
  <2> QED
    BY <1>3, <2>1, <2>3 DEF TalkTypes
<1>7. TalkInv'
  <2>1. \A q \in Runs, p \in Projects : Fitting(q, p)'
    <3> SUFFICES ASSUME NEW q \in Runs, NEW p \in Projects PROVE Fitting(q, p)'
      OBVIOUS
    <3>1. Fitting(q, p)
      BY DEF TalkInv
    <3>2. CASE q = r
      <4>1. active'[q] = A /\ at'[q][p] = IF p \in A THEN "wait" ELSE "over"
        BY <1>2, <3>2 DEF TalkTypes
      <4>2. at[q][p] = "idle"
        BY <1>1, <3>2 DEF TalkInv
      <4>3. turns[q][p] = 0
        BY <3>1, <4>2 DEF Fitting, Fits
      <4> QED
        BY <1>3, <4>1, <4>3 DEF Fitting, Fits
    <3>3. CASE q # r
      <4>1. active'[q] = active[q] /\ at'[q][p] = at[q][p]
        BY <1>2, <3>3 DEF TalkTypes
      <4> QED
        BY <1>3, <3>1, <4>1 DEF Fitting
    <3> QED
      BY <3>2, <3>3
  <2>2. \A q \in Runs : phase'[q] = "none" => \A p \in Projects : at'[q][p] = "idle"
    <3> SUFFICES ASSUME NEW q \in Runs, phase'[q] = "none" PROVE \A p \in Projects : at'[q][p] = "idle"
      OBVIOUS
    <3>1. q # r /\ phase[q] = "none"
      BY <1>1 DEF PhaseTypes
    <3>2. at'[q] = at[q]
      BY <1>2, <3>1 DEF TalkTypes
    <3> QED
      BY <3>1, <3>2 DEF TalkInv
  <2> QED
    BY <2>1, <2>2 DEF TalkInv
<1>8. StoreTypes'
  BY <1>3 DEF StoreTypes, StoreVars
<1>9. StoreInv'
  BY <1>1, <1>3 DEF StoreInv, StoreVars, Known, PhaseTypes
<1>10. ReportInv'
  <2>1. Settled
    BY <1>1, <1>3 DEF Settled, Early, PhaseTypes, StoreVars
  <2> QED
    BY <1>3, <2>1, ReportStands
<1> QED
  BY <1>5, <1>6, <1>7, <1>8, <1>9, <1>10

LEMMA TalkStep ==
  ASSUME IInv, NEW r \in Runs, NEW p \in Projects, phase[r] = "talk", Talk(r, p)
  PROVE  IInv'
<1> USE DEF IInv
<1>1. phase' = phase /\ stops' = stops /\ report' = report /\ base' = base /\ UNCHANGED StoreVars
  BY DEF Talk, BeginTalk, PmFails, PmCloses, PmAsks, AgentAnswers, TalkRaises, Review, TalkFrame,
         StoreVars
<1>2. PICK to \in Places, t \in 0..Rounds, w \in SUBSET {"talk", "part"} :
        Moves(r, p, to, t, w) /\ Fits(p \in active[r], to, t, w)
  BY TalkMoves
<1>3. TalkTypes' /\ TalkInv'
  BY <1>1, <1>2, MovesFits
<1>4. PhaseTypes'
  BY <1>1 DEF PhaseTypes
<1>5. StoreTypes'
  BY <1>1 DEF StoreTypes, StoreVars
<1>6. StoreInv'
  BY <1>1 DEF StoreInv, StoreVars, Known
<1>7. ReportInv'
  <2>1. Settled
    BY <1>1 DEF Settled, StoreVars
  <2> QED
    BY <1>1, <2>1, ReportStands
<1> QED
  BY <1>3, <1>4, <1>5, <1>6, <1>7

\* Where the conversations are left alone, the lines they left stay.
LEMMA TalkStands ==
  ASSUME PhaseTypes, TalkTypes, TalkInv, NEW r \in Runs, phase[r] # "none",
         UNCHANGED talk, \A q \in Runs : q # r => phase'[q] = phase[q], phase'[r] # "none",
         wrote' \in [Runs -> [Projects -> SUBSET {"talk", "part"}]],
         \A q \in Runs, p \in Projects : wrote[q][p] \subseteq wrote'[q][p]
  PROVE  TalkTypes' /\ TalkInv'
<1>1. TalkTypes'
  BY DEF TalkTypes
<1>2. \A q \in Runs, p \in Projects : Fitting(q, p)'
  <2> SUFFICES ASSUME NEW q \in Runs, NEW p \in Projects PROVE Fitting(q, p)'
    OBVIOUS
  <2>1. Fitting(q, p) /\ active'[q] = active[q] /\ at'[q][p] = at[q][p] /\ turns'[q][p] = turns[q][p]
    BY DEF TalkInv
  <2> QED
    BY <2>1 DEF Fitting, Fits
<1>3. \A q \in Runs : phase'[q] = "none" => \A p \in Projects : at'[q][p] = "idle"
  BY DEF TalkInv
<1> QED
  BY <1>1, <1>2, <1>3 DEF TalkInv

\* A run goes on to another phase.
LEMMA GotoStep ==
  ASSUME PhaseTypes, NEW r \in Runs, NEW from, NEW to \in {"save", "spread", "file"} \cup Ended,
         Goto(r, from, to), stops' = stops
  PROVE  /\ PhaseTypes' /\ phase[r] = from /\ phase'[r] = to /\ phase'[r] # "none"
         /\ \A q \in Runs : q # r => phase'[q] = phase[q]
BY DEF Goto, PhaseTypes, Ended

\* A run that is past the conversations, or stops, changes one phase.
LEMMA WroteStands ==
  ASSUME TalkTypes, wrote' = wrote
  PROVE  /\ wrote' \in [Runs -> [Projects -> SUBSET {"talk", "part"}]]
         /\ \A q \in Runs, p \in Projects : wrote[q][p] \subseteq wrote'[q][p]
BY DEF TalkTypes

LEMMA SummariseStep ==
  ASSUME IInv, NEW r \in Runs, Summarise(r)
  PROVE  IInv'
<1> USE DEF IInv
<1>1. Goto(r, "talk", "save") /\ UNCHANGED talk /\ wrote' = wrote /\ stops' = stops /\ report' = report
  BY DEF Summarise
<1>2. PICK a \in Answers : answer' = [answer EXCEPT ![r] = a]
  BY DEF Summarise
<1>3. base' = [base EXCEPT ![r] = IF Partial(r) THEN report ELSE NoReport]
  BY DEF Summarise
<1>4. todo' = todo /\ file' = file /\ written' = written
  BY DEF Summarise
<1>5. /\ PhaseTypes' /\ phase[r] = "talk" /\ phase'[r] = "save" /\ phase'[r] # "none"
      /\ \A q \in Runs : q # r => phase'[q] = phase[q]
  BY <1>1, GotoStep
<1>6. TalkTypes' /\ TalkInv'
  <2>1. /\ wrote' \in [Runs -> [Projects -> SUBSET {"talk", "part"}]]
        /\ \A q \in Runs, p \in Projects : wrote[q][p] \subseteq wrote'[q][p]
    BY <1>1, WroteStands
  <2> QED
    BY <1>1, <1>5, <2>1, TalkStands
<1>7. StoreTypes'
  <2>1. answer' \in [Runs -> Answers \cup {Nothing}]
    BY <1>2 DEF StoreTypes
  <2> QED
    BY <1>4, <2>1 DEF StoreTypes
<1>8. StoreInv'
  <2> SUFFICES ASSUME NEW q \in Runs
               PROVE  /\ todo'[q] \subseteq Known(q)'
                      /\ phase'[q] \in {"none", "talk"} => todo'[q] = {}
                      /\ phase'[q] = "file" => todo'[q] # {}
    BY DEF StoreInv
  <2>1. CASE q = r
    <3>1. todo[q] = {}
      BY <1>5, <2>1 DEF StoreInv
    <3> QED
      BY <1>4, <1>5, <2>1, <3>1
  <2>2. CASE q # r
    <3>1. answer'[q] = answer[q]
      BY <1>2, <2>2 DEF StoreTypes
    <3>2. todo'[q] = todo[q] /\ phase'[q] = phase[q]
      BY <1>4, <1>5, <2>2
    <3> QED
      BY <3>1, <3>2 DEF StoreInv, Known
  <2> QED
    BY <2>1, <2>2
<1>9. ReportInv'
  <2>1. Settled
    <3> SUFFICES ASSUME NEW q \in Runs, phase[q] \notin Early
                 PROVE  phase'[q] \notin Early /\ answer'[q] = answer[q] /\ base'[q] = base[q]
      BY DEF Settled
    <3>1. q # r
      BY <1>5 DEF Early
    <3> QED
      BY <1>2, <1>3, <1>5, <3>1 DEF StoreTypes, ReportInv
  <2>2. PICK rep : rep = report /\ IsReport(rep) /\ Clean(rep)
    BY DEF ReportInv
  <2>3. IsReport(rep)' /\ Clean(rep)'
    BY <2>1, <2>2, CleanStands
  <2>4. IsReport(report)' /\ Clean(report)'
    BY <1>1, <2>2, <2>3 DEF IsReport, Clean, NamedOnce
  <2>5. \A q \in Runs : base'[q] = IF q = r THEN IF Partial(r) THEN report ELSE NoReport ELSE base[q]
    BY <1>3 DEF ReportInv
  <2>6. base' \in [Runs -> {base'[q] : q \in Runs}]
    BY <1>3 DEF ReportInv
  <2>7. ASSUME NEW q \in Runs PROVE (IsReport(base[q]) /\ Clean(base[q]))'
    <3>1. PICK b : b = base'[q] /\ IsReport(b) /\ Clean(b)
      BY <2>5, EmptyIsClean DEF ReportInv
    <3>2. IsReport(b)' /\ Clean(b)'
      BY <2>1, <3>1, CleanStands
    <3> QED
      BY <3>1, <3>2 DEF IsReport, Clean, NamedOnce
  <2> QED
    BY <2>4, <2>6, <2>7 DEF ReportInv
<1> QED
  BY <1>5, <1>6, <1>7, <1>8, <1>9

LEMMA SaveStep ==
  ASSUME IInv, NEW r \in Runs, SaveReport(r)
  PROVE  IInv'
<1> USE DEF IInv
<1>1. /\ Goto(r, "save", "spread") /\ UNCHANGED talk /\ wrote' = wrote /\ stops' = stops
      /\ base' = base /\ answer' = answer /\ file' = file /\ written' = written
      /\ todo' = [todo EXCEPT ![r] = Known(r)]
  BY DEF SaveReport
<1>2. report' = IF base[r] = NoReport THEN _render_report(r)
                ELSE _merge_report(base[r], Sections(r), Known(r))
  BY DEF SaveReport
<1>3. /\ PhaseTypes' /\ phase[r] = "save" /\ phase'[r] = "spread" /\ phase'[r] # "none"
      /\ \A q \in Runs : q # r => phase'[q] = phase[q]
  BY <1>1, GotoStep
<1>4. TalkTypes' /\ TalkInv'
  <2>1. /\ wrote' \in [Runs -> [Projects -> SUBSET {"talk", "part"}]]
        /\ \A q \in Runs, p \in Projects : wrote[q][p] \subseteq wrote'[q][p]
    BY <1>1, WroteStands
  <2> QED
    BY <1>1, <1>3, <2>1, TalkStands
<1>5. answer[r] \in Answers \cup {Nothing}
  BY DEF StoreTypes
<1>6. /\ Sections(r) \in Seq(Section) /\ Known(r) \subseteq DOMAIN Sections(r)
      /\ \A i \in DOMAIN Sections(r) : Sections(r)[i].run = r
      /\ IsReport(_render_report(r)) /\ (base[r] = NoReport => Clean(_render_report(r)))
  BY <1>3, <1>5, RenderIsClean DEF Early
<1>7. StoreTypes'
  <2>1. Known(r) \subseteq Nat
    BY <1>6, SectionIs
  <2> QED
    BY <1>1, <2>1 DEF StoreTypes
<1>8. StoreInv'
  <2> SUFFICES ASSUME NEW q \in Runs
               PROVE  /\ todo'[q] \subseteq Known(q)'
                      /\ phase'[q] \in {"none", "talk"} => todo'[q] = {}
                      /\ phase'[q] = "file" => todo'[q] # {}
    BY DEF StoreInv
  <2>1. Known(q)' = Known(q)
    BY <1>1 DEF Known
  <2>2. CASE q = r
    BY <1>1, <1>3, <2>1, <2>2 DEF StoreTypes
  <2>3. CASE q # r
    BY <1>1, <1>3, <2>1, <2>3 DEF StoreTypes, StoreInv
  <2> QED
    BY <2>2, <2>3
<1>9. ReportInv'
  <2>1. Settled
    BY <1>1, <1>3 DEF Settled, Early
  <2>2. IsReport(base[r]) /\ Clean(base[r])
    BY DEF ReportInv
  <2>3. PICK old, secs, new : old = base[r] /\ secs = Sections(r) /\ new = Known(r)
    OBVIOUS
  <2>4. \A i \in new : phase[secs[i].run] \notin Early
    BY <1>3, <1>6, <2>3 DEF Early
  <2>5. IsReport(_merge_report(old, secs, new)) /\ Clean(_merge_report(old, secs, new))
    BY <1>6, <2>2, <2>3, <2>4, MergeIsClean
  <2>6. PICK rep : rep = report'
    OBVIOUS
  <2>7. IsReport(rep) /\ Clean(rep)
    <3>1. CASE base[r] = NoReport
      BY <1>2, <1>6, <2>6, <3>1
    <3>2. CASE base[r] # NoReport
      BY <1>2, <2>3, <2>5, <2>6, <3>2
    <3> QED
      BY <3>1, <3>2
  <2> QED
    BY <1>1, <2>1, <2>6, <2>7, ReportWritten
<1> QED
  BY <1>3, <1>4, <1>7, <1>8, <1>9

LEMMA RawStep ==
  ASSUME IInv, NEW r \in Runs, KeepRaw(r)
  PROVE  IInv'
<1> USE DEF IInv
<1>1. /\ Goto(r, "talk", "done") /\ UNCHANGED talk /\ stops' = stops /\ base' = base
      /\ UNCHANGED StoreVars
  BY DEF KeepRaw, StoreVars
<1>2. \/ /\ report' = report
         /\ wrote' = [wrote EXCEPT ![r] = [p \in Projects |->
                         IF p \in Chosen[r] THEN @[p] \cup {"part"} ELSE @[p]]]
      \/ report' = [NoReport EXCEPT !.raw = {r}] /\ wrote' = wrote
  BY DEF KeepRaw
<1>3. /\ PhaseTypes' /\ phase[r] = "talk" /\ phase'[r] = "done" /\ phase'[r] # "none"
      /\ \A q \in Runs : q # r => phase'[q] = phase[q]
  BY <1>1, GotoStep DEF Ended
<1>4. /\ wrote' \in [Runs -> [Projects -> SUBSET {"talk", "part"}]]
      /\ \A q \in Runs, p \in Projects : wrote[q][p] \subseteq wrote'[q][p]
  <2>1. CASE wrote' = wrote
    BY <2>1, WroteStands
  <2>2. CASE wrote' = [wrote EXCEPT ![r] = [p \in Projects |->
                         IF p \in Chosen[r] THEN @[p] \cup {"part"} ELSE @[p]]]
    <3> DEFINE f == [p \in Projects |-> IF p \in Chosen[r] THEN wrote[r][p] \cup {"part"}
                                        ELSE wrote[r][p]]
    <3>1. f \in [Projects -> SUBSET {"talk", "part"}]
      BY DEF TalkTypes
    <3>2. wrote' = [wrote EXCEPT ![r] = f]
      BY <2>2
    <3>3. \A p \in Projects : wrote[r][p] \subseteq f[p]
      OBVIOUS
    <3> HIDE DEF f
    <3> QED
      BY <3>1, <3>2, <3>3 DEF TalkTypes
  <2> QED
    BY <1>2, <2>1, <2>2
<1>5. TalkTypes' /\ TalkInv'
  BY <1>1, <1>3, <1>4, TalkStands
<1>6. StoreTypes'
  BY <1>1 DEF StoreTypes, StoreVars
<1>7. StoreInv'
  <2>1. answer' = answer /\ todo' = todo
    BY <1>1 DEF StoreVars
  <2> QED
    BY <1>3, <2>1 DEF StoreInv, Known
<1>8. ReportInv'
  <2>1. Settled
    BY <1>1, <1>3 DEF Settled, Early, StoreVars
  <2>2. CASE report' = report
    BY <1>1, <2>1, <2>2, ReportStands
  <2>3. CASE report' = [NoReport EXCEPT !.raw = {r}]
    <3>1. PICK rep : rep = report'
      OBVIOUS
    <3>2. IsReport(rep) /\ Clean(rep)
      BY <2>3, <3>1, RawIsClean
    <3> QED
      BY <1>1, <2>1, <3>1, <3>2, ReportWritten
  <2> QED
    BY <1>2, <2>2, <2>3
<1> QED
  BY <1>3, <1>5, <1>6, <1>7, <1>8

\* A step that only moves the run on, or stops it.
LEMMA OnlyPhase ==
  ASSUME IInv, NEW r \in Runs, phase[r] # "none",
         PhaseTypes', phase'[r] \notin {"none", "talk", "file"},
         \A q \in Runs : q # r => phase'[q] = phase[q],
         UNCHANGED <<talk, wrote, report, base, save>>
  PROVE  IInv'
<1> USE DEF IInv
<1>1. TalkTypes' /\ TalkInv'
  <2>1. /\ wrote' \in [Runs -> [Projects -> SUBSET {"talk", "part"}]]
        /\ \A q \in Runs, p \in Projects : wrote[q][p] \subseteq wrote'[q][p]
    BY WroteStands
  <2> QED
    BY <2>1, TalkStands
<1>2. StoreTypes'
  BY DEF StoreTypes
<1>3. StoreInv'
  BY DEF StoreInv, Known
<1>4. ReportInv'
  <2>1. Settled
    BY DEF Settled, Early
  <2> QED
    BY <2>1, ReportStands
<1> QED
  BY <1>1, <1>2, <1>3, <1>4

LEMMA EndStep ==
  ASSUME IInv, NEW r \in Runs, SummaryFails(r) \/ Finish(r) \/ Stop(r)
  PROVE  IInv'
<1>1. PhaseTypes
  BY DEF IInv
<1>2. CASE SummaryFails(r)
  <2>1. Goto(r, "talk", "failed") /\ stops' = stops /\ UNCHANGED <<talk, wrote, report, base, save>>
    BY <1>2 DEF SummaryFails
  <2>2. /\ PhaseTypes' /\ phase[r] = "talk" /\ phase'[r] = "failed"
        /\ \A q \in Runs : q # r => phase'[q] = phase[q]
    BY <1>1, <2>1, GotoStep DEF Ended
  <2> QED
    BY <2>1, <2>2, OnlyPhase
<1>3. CASE Finish(r)
  <2>1. Goto(r, "spread", "done") /\ stops' = stops /\ UNCHANGED <<talk, wrote, report, base, save>>
    BY <1>3 DEF Finish
  <2>2. /\ PhaseTypes' /\ phase[r] = "spread" /\ phase'[r] = "done"
        /\ \A q \in Runs : q # r => phase'[q] = phase[q]
    BY <1>1, <2>1, GotoStep DEF Ended
  <2> QED
    BY <2>1, <2>2, OnlyPhase
<1>4. CASE Stop(r)
  <2>1. /\ phase[r] # "none" /\ phase' = [phase EXCEPT ![r] = "dead"]
        /\ UNCHANGED <<talk, wrote, report, base, save>>
    BY <1>4 DEF Stop
  <2>2. stops' \in 0..MaxStops
    BY <1>1, <1>4, RoundsType DEF Stop, PhaseTypes
  <2>3. phase' \in [Runs -> {"none", "talk", "save", "spread", "file"} \cup Ended]
    BY <1>1, <2>1 DEF PhaseTypes, Ended
  <2>4. PhaseTypes' /\ phase'[r] = "dead" /\ \A q \in Runs : q # r => phase'[q] = phase[q]
    BY <1>1, <2>1, <2>2, <2>3 DEF PhaseTypes
  <2> QED
    BY <2>1, <2>4, OnlyPhase
<1> QED
  BY <1>2, <1>3, <1>4

\* The section at hand is one of a known project.
LEMMA ToStoreKnown ==
  ASSUME IInv, NEW r \in Runs, todo[r] # {}
  PROVE  ToStore(r) \in Projects /\ First(r) \in todo[r]
<1>1. todo[r] \in SUBSET Nat /\ todo[r] \subseteq Known(r)
  BY DEF IInv, StoreTypes, StoreInv
<1>2. First(r) \in todo[r]
  <2>1. PICK S \in SUBSET Nat : S = todo[r]
    BY <1>1
  <2>2. Min(S) \in S
    BY <2>1, LeastExists
  <2> QED
    BY <2>1, <2>2 DEF First
<1>3. ToStore(r) \in Chosen[r]
  BY <1>1, <1>2 DEF ToStore, Known
<1> QED
  BY <1>2, <1>3, ChosenAssumption

LEMMA RoomStep ==
  ASSUME IInv, NEW r \in Runs, StoreInRoom(r)
  PROVE  IInv'
<1> USE DEF IInv
<1>1. /\ UNCHANGED <<talk, report, base, answer, file, written, stops>> /\ todo[r] # {}
      /\ wrote' = [wrote EXCEPT ![r][ToStore(r)] = @ \cup {"part"}]
  BY DEF StoreInRoom, Says
<1>2. phase[r] = "spread"
  BY DEF StoreInRoom, Goto
<1>3. \/ Goto(r, "spread", "file") /\ todo' = todo
      \/ phase' = phase /\ todo' = [todo EXCEPT ![r] = @ \ {First(r)}]
  BY DEF StoreInRoom, Stored
<1>4. /\ PhaseTypes' /\ phase'[r] \in {"spread", "file"}
      /\ \A q \in Runs : q # r => phase'[q] = phase[q]
  <2>1. CASE Goto(r, "spread", "file")
    <3>1. /\ PhaseTypes' /\ phase'[r] = "file"
          /\ \A q \in Runs : q # r => phase'[q] = phase[q]
      BY <1>1, <2>1, GotoStep
    <3> QED
      BY <3>1
  <2>2. CASE phase' = phase
    BY <1>1, <1>2, <2>2 DEF PhaseTypes
  <2> QED
    BY <1>3, <2>1, <2>2
<1>5. ToStore(r) \in Projects
  BY <1>1, ToStoreKnown
<1>6. /\ wrote' \in [Runs -> [Projects -> SUBSET {"talk", "part"}]]
      /\ \A q \in Runs, p \in Projects : wrote[q][p] \subseteq wrote'[q][p]
  <2>1. PICK p \in Projects : p = ToStore(r)
    BY <1>5
  <2>2. wrote' = [wrote EXCEPT ![r][p] = wrote[r][p] \cup {"part"}]
    BY <1>1, <2>1
  <2> QED
    BY <2>2 DEF TalkTypes
<1>7. TalkTypes' /\ TalkInv'
  BY <1>1, <1>2, <1>4, <1>6, TalkStands
<1>8. StoreTypes'
  <2>1. todo' \in [Runs -> SUBSET Nat]
    BY <1>3 DEF StoreTypes
  <2> QED
    BY <1>1, <2>1 DEF StoreTypes
<1>9. StoreInv'
  <2> SUFFICES ASSUME NEW q \in Runs
               PROVE  /\ todo'[q] \subseteq Known(q)'
                      /\ phase'[q] \in {"none", "talk"} => todo'[q] = {}
                      /\ phase'[q] = "file" => todo'[q] # {}
    BY DEF StoreInv
  <2>1. Known(q)' = Known(q) /\ todo[q] \subseteq Known(q)
    BY <1>1 DEF Known, StoreInv
  <2>2. CASE q = r
    <3>1. todo'[q] \subseteq todo[q]
      BY <1>3, <2>2 DEF StoreTypes
    <3>2. phase'[q] = "file" => todo' = todo
      BY <1>2, <1>3, <2>2
    <3> QED
      BY <1>1, <1>4, <2>1, <2>2, <3>1, <3>2
  <2>3. CASE q # r
    <3>1. todo'[q] = todo[q] /\ phase'[q] = phase[q]
      BY <1>3, <1>4, <2>3 DEF StoreTypes
    <3> QED
      BY <2>1, <3>1 DEF StoreInv
  <2> QED
    BY <2>2, <2>3
<1>10. ReportInv'
  <2>1. Settled
    BY <1>1, <1>4 DEF Settled, Early
  <2> QED
    BY <1>1, <2>1, ReportStands
<1> QED
  BY <1>4, <1>7, <1>8, <1>9, <1>10

LEMMA FileStep ==
  ASSUME IInv, NEW r \in Runs, StoreInFile(r)
  PROVE  IInv'
<1> USE DEF IInv
<1>1. /\ Goto(r, "file", "spread") /\ UNCHANGED <<talk, wrote, report, base, answer, stops>>
      /\ todo' = [todo EXCEPT ![r] = @ \ {First(r)}]
  BY DEF StoreInFile, Stored
<1>2. \/ /\ file' = [file EXCEPT ![ToStore(r)] = <<r>> \o @]
         /\ written' = [written EXCEPT ![r] = @ \cup {ToStore(r)}]
      \/ file' = file /\ written' = written
  BY DEF StoreInFile, _prepend_weekly_md
<1>3. /\ PhaseTypes' /\ phase[r] = "file" /\ phase'[r] = "spread"
      /\ \A q \in Runs : q # r => phase'[q] = phase[q]
  BY <1>1, GotoStep
<1>4. TalkTypes' /\ TalkInv'
  <2>1. /\ wrote' \in [Runs -> [Projects -> SUBSET {"talk", "part"}]]
        /\ \A q \in Runs, p \in Projects : wrote[q][p] \subseteq wrote'[q][p]
    BY <1>1, WroteStands
  <2> QED
    BY <1>1, <1>3, <2>1, TalkStands
<1>5. ToStore(r) \in Projects
  BY <1>3, ToStoreKnown DEF StoreInv
<1>6. StoreTypes'
  <2>1. file' \in [Projects -> Seq(Runs)]
    <3>1. PICK p \in Projects : p = ToStore(r)
      BY <1>5
    <3>2. <<r>> \o file[p] \in Seq(Runs)
      BY DEF StoreTypes
    <3>3. file' = [file EXCEPT ![p] = <<r>> \o file[p]] \/ file' = file
      BY <1>2, <3>1
    <3> QED
      BY <3>2, <3>3 DEF StoreTypes
  <2>2. written' \in [Runs -> SUBSET Projects]
    <3>1. PICK p \in Projects : p = ToStore(r)
      BY <1>5
    <3>2. written' = [written EXCEPT ![r] = written[r] \cup {p}] \/ written' = written
      BY <1>2, <3>1
    <3> QED
      BY <3>2 DEF StoreTypes
  <2>3. todo' \in [Runs -> SUBSET Nat]
    BY <1>1 DEF StoreTypes
  <2> QED
    BY <1>1, <2>1, <2>2, <2>3 DEF StoreTypes
<1>7. StoreInv'
  <2> SUFFICES ASSUME NEW q \in Runs
               PROVE  /\ todo'[q] \subseteq Known(q)'
                      /\ phase'[q] \in {"none", "talk"} => todo'[q] = {}
                      /\ phase'[q] = "file" => todo'[q] # {}
    BY DEF StoreInv
  <2>1. Known(q)' = Known(q) /\ todo[q] \subseteq Known(q)
    BY <1>1 DEF Known, StoreInv
  <2>2. CASE q = r
    <3>1. todo'[q] \subseteq todo[q]
      BY <1>1, <2>2 DEF StoreTypes
    <3> QED
      BY <1>3, <2>1, <2>2, <3>1
  <2>3. CASE q # r
    <3>1. todo'[q] = todo[q] /\ phase'[q] = phase[q]
      BY <1>1, <1>3, <2>3 DEF StoreTypes
    <3> QED
      BY <2>1, <3>1 DEF StoreInv
  <2> QED
    BY <2>2, <2>3
<1>8. ReportInv'
  <2>1. Settled
    BY <1>1, <1>3 DEF Settled, Early
  <2> QED
    BY <1>1, <2>1, ReportStands
<1> QED
  BY <1>3, <1>4, <1>6, <1>7, <1>8

LEMMA NextIInv ==
  ASSUME IInv, [Next]_vars
  PROVE  IInv'
<1>1. CASE Next
  <2>1. PICK r \in Runs : Collect(r) \/ Work(r) \/ Stop(r)
    BY <1>1 DEF Next
  <2>2. CASE Collect(r)
    BY <2>2, CollectStep
  <2>3. CASE phase[r] = "talk" /\ \E p \in Projects : Talk(r, p)
    BY <2>3, TalkStep
  <2>4. CASE Summarise(r)
    BY <2>4, SummariseStep
  <2>5. CASE KeepRaw(r)
    BY <2>5, RawStep
  <2>6. CASE SaveReport(r)
    BY <2>6, SaveStep
  <2>7. CASE StoreInRoom(r)
    BY <2>7, RoomStep
  <2>8. CASE StoreInFile(r)
    BY <2>8, FileStep
  <2>9. CASE SummaryFails(r) \/ Finish(r) \/ Stop(r)
    BY <2>9, EndStep
  <2> QED
    BY <2>1, <2>2, <2>3, <2>4, <2>5, <2>6, <2>7, <2>8, <2>9 DEF Work
<1>2. CASE UNCHANGED vars
  <2> USE <1>2 DEF vars, IInv
  <2>1. PhaseTypes'
    BY DEF PhaseTypes
  <2>2. TalkTypes'
    BY DEF TalkTypes
  <2>3. TalkInv'
    BY DEF TalkInv, Fitting
  <2>4. StoreTypes'
    BY DEF StoreTypes
  <2>5. StoreInv'
    BY DEF StoreInv, Known
  <2>6. ReportInv'
    <3>1. Settled
      BY DEF Settled
    <3> QED
      BY <3>1, ReportStands
  <2> QED
    BY <2>1, <2>2, <2>3, <2>4, <2>5, <2>6
<1> QED
  BY <1>1, <1>2

-----------------------------------------------------------------------------
(* What follows.                                                           *)

\* Every variable keeps its type (run_weekly_report and what it calls).
THEOREM TypeCorrect == Spec => []TypeOK
<1>1. IInv => TypeOK
  BY DEF IInv, PhaseTypes, TalkTypes, StoreTypes, ReportInv, TypeOK
<1> QED
  BY <1>1, InitIInv, NextIInv, PTL DEF Spec

\* However the calls of the workers fail and whoever stops, no active project
\* drops out of the week in silence (converse and _converse_all).
THEOREM NobodyGoesMissingAlways == Spec => []NobodyGoesMissing
<1>1. IInv => NobodyGoesMissing
  <2> SUFFICES ASSUME IInv, NEW r \in Runs, AllTalked(r), NEW p \in active[r]
               PROVE  "talk" \in wrote[r][p]
    BY DEF NobodyGoesMissing
  <2>1. p \in Projects
    BY DEF IInv, TalkTypes
  <2>2. at[r][p] = "over" /\ Fitting(r, p)
    BY <2>1 DEF AllTalked, IInv, TalkInv
  <2> QED
    BY <2>2 DEF Fitting, Fits
<1> QED
  BY <1>1, InitIInv, NextIInv, PTL DEF Spec

\* However many runs merge whatever answers into the report of the day, in whatever
\* order they read and store it: a name has a second section, or a section and a place
\* among the quiet ones, only if one answer that was rendered whole named it so
\* (_merge_report and _render_report).
THEOREM OneSectionEachAlways == Spec => []OneSectionEach
<1>1. IInv => OneSectionEach
  BY DEF IInv, ReportInv, Clean, OneSectionEach
<1> QED
  BY <1>1, InitIInv, NextIInv, PTL DEF Spec

\* A step of OthersStand.
OthersStep ==
  \A r \in Runs :
    /\ Partial(r) /\ HasReport
    /\ phase[r] \in {"talk", "save"} /\ phase'[r] # phase[r]
    /\ base[r] = report \/ phase[r] = "talk"
    => Others(r, report') = Others(r, report) /\ report'.raw = report.raw

\* A run of chosen projects leaves the sections of the others as they are and
\* where they are, unless another one stored a report since it read the one
\* it merges into (run_weekly_report, the branch of old).
THEOREM OthersStandAlways == Spec => OthersStand
<1>1. ASSUME IInv, Next PROVE OthersStep
  <2> SUFFICES ASSUME NEW r \in Runs, Partial(r), HasReport,
                      phase[r] \in {"talk", "save"}, phase'[r] # phase[r],
                      base[r] = report \/ phase[r] = "talk"
               PROVE  Others(r, report') = Others(r, report) /\ report'.raw = report.raw
    BY DEF OthersStep
  <2>1. PICK q \in Runs : Collect(q) \/ Work(q) \/ Stop(q)
    BY <1>1 DEF Next
  <2>2. CASE report' = report
    BY <2>2
  <2>3. CASE KeepRaw(q)
    <3>1. phase' = [phase EXCEPT ![q] = "done"]
      BY <2>3 DEF KeepRaw, Goto
    <3>2. q = r
      BY <1>1, <3>1 DEF IInv, PhaseTypes
    <3> QED
      BY <2>3, <3>2 DEF KeepRaw
  <2>4. CASE SaveReport(q)
    <3>1. phase[q] = "save" /\ phase' = [phase EXCEPT ![q] = "spread"]
      BY <2>4 DEF SaveReport, Goto
    <3>2. q = r
      BY <1>1, <3>1 DEF IInv, PhaseTypes
    <3>3. base[r] = report /\ report # NoReport
      BY <3>1, <3>2 DEF HasReport
    <3>4. report' = _merge_report(report, Sections(r), Known(r))
      BY <2>4, <3>2, <3>3 DEF SaveReport
    <3>5. answer[r] \in Answers \cup {Nothing}
      BY <1>1 DEF IInv, StoreTypes
    <3>6. /\ Sections(r) \in Seq(Section) /\ Known(r) \subseteq DOMAIN Sections(r)
          /\ \A i \in Known(r) : Sections(r)[i].name \in Chosen[r]
      BY <3>5, RenderIsClean
    <3>7. PICK old, secs, new : old = report /\ secs = Sections(r) /\ new = Known(r)
      OBVIOUS
    <3>8. IsReport(old)
      BY <1>1, <3>7 DEF IInv, ReportInv
    <3>9. Others(r, _merge_report(old, secs, new)) = Others(r, old)
          /\ _merge_report(old, secs, new).raw = old.raw
      BY <3>6, <3>7, <3>8, MergeKeepsOthers
    <3> QED
      BY <3>4, <3>7, <3>9
  <2> QED
    BY <2>1, <2>2, <2>3, <2>4
    DEF Collect, Work, Talk, BeginTalk, PmFails, PmCloses, PmAsks, AgentAnswers, TalkRaises, Review,
        TalkFrame, Summarise, SummaryFails, StoreInRoom, StoreInFile, Finish, Stop
<1>2. IInv /\ [Next]_vars => [OthersStep]_vars
  BY <1>1
<1> QED
  BY <1>2, InitIInv, NextIInv, PTL DEF Spec, OthersStand, OthersStep
=============================================================================
