---------------------------- MODULE GithubCronProofs ----------------------------
(***************************************************************************)
(* Theorems about GithubCron, for every number of comments, events and     *)
(* runs, and every length of a page.                                       *)
(***************************************************************************)
EXTENDS GithubCron, FiniteSetTheorems, SequenceTheorems, TLAPS

USE BoundsAssumption

Seen == [id : Comments, kind : Kinds]
Tagged == [id : Comments, kind : Kinds \ {"none"}]
Jobs == [comment : 0 .. Len(kinds), kind : JobKinds, tag : BOOLEAN, runs : 0 .. MaxRuns]

\* Something is left to be scheduled while the puller schedules.
PullerOK == puller \in {"jobs", "tag"} => tagged # <<>>

\* The jobs that are to run or that run have their tag, and may run.
DueOK ==
    /\ \A n \in due : job[n].tag /\ job[n].runs < MaxRuns
    /\ current # 0 => job[current].tag
    /\ current \notin due

TInv == TypeOK /\ PullerOK /\ DueOK

-----------------------------------------------------------------------------
\* What the fields of a job are.
LEMMA JobFields ==
    ASSUME TypeOK, NEW n \in DOMAIN job
    PROVE  /\ job[n] \in Jobs
           /\ n \in 1 .. Len(job)
           /\ job[n].comment \in 0 .. Len(kinds) /\ job[n].kind \in JobKinds
           /\ job[n].tag \in BOOLEAN /\ job[n].runs \in 0 .. MaxRuns
<1>1. job \in Seq(Jobs)
  BY DEF TypeOK, Jobs
<1>2. n \in 1 .. Len(job) /\ job[n] \in Jobs
  BY <1>1
<1>3. QED
  BY <1>2 DEF Jobs

\* More comments leave what is typed by their ids typed.
LEMMA Grown ==
    ASSUME TypeOK, kinds' \in Seq(Kinds), Len(kinds') >= Len(kinds)
    PROVE  /\ Comments \subseteq Comments'
           /\ order \in Seq(Comments')
           /\ page \in Seq(Seen')
           /\ tagged \in Seq(Tagged')
           /\ Jobs \subseteq Jobs'
           /\ job \in Seq(Jobs')
           /\ last \in 0 .. Len(kinds')
           /\ cancelled \subseteq {0} \cup Comments'
<1>1. Len(kinds) \in Nat /\ Len(kinds') \in Nat
  BY DEF TypeOK
<1>2. Comments \subseteq Comments'
  BY <1>1 DEF Comments
<1>3. 0 .. Len(kinds) \subseteq 0 .. Len(kinds')
  BY <1>1
<1>4. Seen \subseteq Seen' /\ Tagged \subseteq Tagged' /\ Jobs \subseteq Jobs'
  BY <1>2, <1>3 DEF Seen, Tagged, Jobs
<1>5. order \in Seq(Comments) /\ page \in Seq(Seen) /\ tagged \in Seq(Tagged) /\ job \in Seq(Jobs)
  BY DEF TypeOK, Seen, Tagged, Jobs
<1>6. /\ order \in Seq(Comments') /\ page \in Seq(Seen')
      /\ tagged \in Seq(Tagged') /\ job \in Seq(Jobs')
  BY <1>2, <1>4, <1>5, SeqMonotonic
<1>7. last \in 0 .. Len(kinds') /\ cancelled \subseteq {0} \cup Comments'
  BY <1>2, <1>3 DEF TypeOK
<1>8. QED
  BY <1>2, <1>4, <1>6, <1>7

\* What a step to the next of the jobs d changes.
LEMMA StartEffect ==
    ASSUME TypeOK, NEW d \in SUBSET DOMAIN job, \A n \in d : job[n].runs < MaxRuns, Start(d)
    PROVE  /\ job' \in Seq(Jobs) /\ DOMAIN job' = DOMAIN job
           /\ current' \in {0} \cup d
           /\ due' = d \ {current'}
           /\ \A k \in DOMAIN job :
                 /\ job'[k].comment = job[k].comment /\ job'[k].kind = job[k].kind
                 /\ job'[k].tag = job[k].tag
                 /\ job'[k].runs = IF k = current' THEN job[k].runs + 1 ELSE job[k].runs
           /\ current' # 0 => \A k \in d : Fresh(current') /\ Fresh(k) => current' <= k
<1>0. job \in Seq(Jobs) /\ DOMAIN job = 1 .. Len(job) /\ 0 \notin DOMAIN job
  BY DEF TypeOK, Jobs
<1>1. CASE d = {} /\ current' = 0 /\ due' = {} /\ UNCHANGED job
  BY <1>0, <1>1
<1>2. CASE \E n \in d : /\ \A k \in d : Fresh(n) /\ Fresh(k) => n <= k
                        /\ current' = n
                        /\ due' = d \ {n}
                        /\ job' = [job EXCEPT ![n].runs = @ + 1]
  <2>1. PICK n \in d : /\ \A k \in d : Fresh(n) /\ Fresh(k) => n <= k
                       /\ current' = n
                       /\ due' = d \ {n}
                       /\ job' = [job EXCEPT ![n].runs = @ + 1]
    BY <1>2
  <2>2. n \in 1 .. Len(job) /\ job[n] \in Jobs /\ job[n].runs \in 0 .. MaxRuns
    BY JobFields
  <2>3. [job[n] EXCEPT !.runs = @ + 1] \in Jobs
    <3>1. job[n].runs + 1 \in 0 .. MaxRuns
      BY <2>2
    <3>2. QED
      BY <2>2, <3>1 DEF Jobs
  <2>4. job' = [job EXCEPT ![n] = [job[n] EXCEPT !.runs = @ + 1]]
    BY <2>1, <2>2, <1>0
  <2>5. job' \in Seq(Jobs) /\ DOMAIN job' = DOMAIN job
    BY <1>0, <2>2, <2>3, <2>4, ExceptSeq
  <2>6. ASSUME NEW k \in DOMAIN job
        PROVE  /\ job'[k].comment = job[k].comment /\ job'[k].kind = job[k].kind
               /\ job'[k].tag = job[k].tag
               /\ job'[k].runs = IF k = n THEN job[k].runs + 1 ELSE job[k].runs
    <3>1. job[k] \in Jobs
      BY JobFields
    <3>2. QED
      BY <2>4, <2>2, <3>1, <1>0 DEF Jobs
  <2>7. QED
    BY <2>1, <2>5, <2>6, <1>0
<1>3. QED
  BY <1>1, <1>2 DEF Start

\* tag() leaves a job as it was but for its tag.
LEMMA TagType ==
    ASSUME TypeOK, job' = [job EXCEPT ![Len(job)].tag = TRUE]
    PROVE  /\ job' \in Seq(Jobs) /\ DOMAIN job' = DOMAIN job
           /\ \A n \in DOMAIN job : /\ job'[n].comment = job[n].comment
                                    /\ job'[n].kind = job[n].kind
                                    /\ job'[n].runs = job[n].runs
                                    /\ job[n].tag => job'[n].tag
<1>1. job \in Seq(Jobs) /\ DOMAIN job = 1 .. Len(job) /\ Len(job) \in Nat
  BY DEF TypeOK, Jobs
<1>2. CASE Len(job) = 0
  <2>1. PICK e : job' = [job EXCEPT ![Len(job)] = e]
    OBVIOUS
  <2>2. job' = job
    BY <1>1, <1>2, <2>1
  <2>3. QED
    BY <1>1, <1>2, <2>2
<1>3. CASE Len(job) # 0
  <2>1. Len(job) \in DOMAIN job /\ job[Len(job)] \in Jobs
    BY <1>1, <1>3
  <2>2. [job[Len(job)] EXCEPT !.tag = TRUE] \in Jobs
    BY <2>1 DEF Jobs
  <2>3. job' = [job EXCEPT ![Len(job)] = [job[Len(job)] EXCEPT !.tag = TRUE]]
    BY <1>1, <2>1
  <2>4. job' \in Seq(Jobs) /\ DOMAIN job' = DOMAIN job
    BY <1>1, <2>1, <2>2, <2>3, ExceptSeq
  <2>5. ASSUME NEW n \in DOMAIN job
        PROVE  /\ job'[n].comment = job[n].comment /\ job'[n].kind = job[n].kind
               /\ job'[n].runs = job[n].runs /\ (job[n].tag => job'[n].tag)
    <3>1. job[n] \in Jobs
      BY JobFields
    <3>2. QED
      BY <1>1, <2>1, <2>3, <3>1 DEF Jobs
  <2>6. QED
    BY <2>4, <2>5
<1>4. QED
  BY <1>2, <1>3

\* A comment that is posted has the next id.
LEMMA PostedType ==
    ASSUME TypeOK, NEW k \in Kinds, Posted(k)
    PROVE  /\ kinds' \in Seq(Kinds) /\ Len(kinds') = Len(kinds) + 1
           /\ order' \in Seq(Comments') /\ Len(order') = Len(order) + 1
<1>1. kinds' \in Seq(Kinds) /\ Len(kinds') = Len(kinds) + 1 /\ Len(kinds) \in Nat
  BY DEF TypeOK, Posted
<1>2. order \in Seq(Comments') /\ Len(kinds) + 1 \in Comments'
  BY <1>1, Grown DEF Comments
<1>3. QED
  BY <1>1, <1>2 DEF Posted

LEMMA PostPrCommentType ==
    ASSUME TypeOK, PostPrComment
    PROVE  /\ kinds' \in Seq(Kinds) /\ Len(kinds') >= Len(kinds)
           /\ order' \in Seq(Comments') /\ Len(order') >= Len(order)
           /\ old' = old /\ missed' = missed /\ edited' = edited
<1>1. CASE Len(kinds) < MaxListed
  <2>1. Posted("none") /\ "none" \in Kinds
    BY <1>1 DEF PostPrComment, Kinds
  <2>2. Len(kinds) \in Nat /\ Len(order) \in Nat
    BY DEF TypeOK
  <2>3. QED
    BY <2>1, <2>2, PostedType DEF PostPrComment
<1>2. CASE ~(Len(kinds) < MaxListed)
  BY <1>2 DEF PostPrComment, TypeOK, Comments
<1>3. QED
  BY <1>1, <1>2

-----------------------------------------------------------------------------
LEMMA TypeInit == Init => TInv
<1> SUFFICES ASSUME Init
             PROVE  TInv
  OBVIOUS
<1>1. /\ kinds = <<>> /\ order = <<>> /\ page = <<>> /\ tagged = <<>>
      /\ Len(kinds) = 0
  BY DEF Init
<1>2. Cyclical \in Jobs
  BY <1>1 DEF Cyclical, Jobs, JobKinds
<1>3. job \in Seq(Jobs) /\ DOMAIN job = {1}
  BY <1>2 DEF Init
<1>4. /\ kinds \in Seq(Kinds) /\ order \in Seq(Comments)
      /\ page \in Seq(Seen) /\ tagged \in Seq(Tagged)
      /\ old \in 0 .. Len(order) /\ last \in 0 .. Len(kinds)
  BY <1>1 DEF Init
<1>5. /\ edited \cup seen \cup missed \cup garbled \subseteq Comments
      /\ {enabled, refused, untagged, unmailed, gui, hit} \subseteq BOOLEAN
      /\ cancelled \subseteq {0} \cup Comments
      /\ toggles \in 0 .. events /\ events \in 0 .. MaxEvents
  <2>1. {enabled, refused, untagged, unmailed, gui, hit} \subseteq BOOLEAN
    BY Zenon DEF Init
  <2>2. toggles = 0 /\ events = 0 /\ MaxEvents \in Nat
    BY DEF Init
  <2>3. toggles \in 0 .. events /\ events \in 0 .. MaxEvents
    BY <2>2
  <2>4. /\ edited \cup seen \cup missed \cup garbled \subseteq Comments
        /\ cancelled \subseteq {0} \cup Comments
    BY DEF Init
  <2>5. QED
    BY <2>1, <2>3, <2>4
<1>6. /\ jobs \subseteq DOMAIN job /\ due \subseteq DOMAIN job /\ current \in {0} \cup DOMAIN job
      /\ puller \in {"sleep", "walk", "jobs", "tag", "dead"}
      /\ sched \in {"live", "hung", "dead"}
  BY <1>3 DEF Init
<1>7. TypeOK
  BY <1>3, <1>4, <1>5, <1>6 DEF TypeOK, Seen, Tagged, Jobs
<1>8. PullerOK /\ DueOK
  BY DEF Init, PullerOK, DueOK
<1>9. QED
  BY <1>7, <1>8 DEF TInv

\* What the users do on GitHub.
LEMMA TypeGithub ==
    ASSUME TInv,
           \/ \E k \in Kinds : Comment(k)
           \/ \E c \in Comments, k \in Kinds : Edit(c, k)
           \/ Expire
    PROVE  TInv'
<1> USE DEF TInv
<1>1. ASSUME NEW k \in Kinds, Comment(k)
      PROVE  TInv'
  <2>1. Posted(k)
    BY <1>1 DEF Comment
  <2>2. /\ kinds' \in Seq(Kinds) /\ Len(kinds') = Len(kinds) + 1
        /\ order' \in Seq(Comments') /\ Len(order') = Len(order) + 1
        /\ Len(kinds) \in Nat /\ Len(order) \in Nat
    BY <2>1, PostedType DEF TypeOK
  <2>3. /\ Comments \subseteq Comments'
        /\ page \in Seq(Seen') /\ tagged \in Seq(Tagged') /\ job \in Seq(Jobs')
        /\ last \in 0 .. Len(kinds') /\ cancelled \subseteq {0} \cup Comments'
    BY <2>2, Grown
  <2>4. TypeOK'
    <3>1. edited \cup seen \cup missed \cup garbled \subseteq Comments
      BY DEF TypeOK
    <3>2. old \in 0 .. Len(order') /\ edited \cup seen \cup missed \cup garbled \subseteq Comments'
      BY <2>2, <2>3, <3>1 DEF TypeOK
    <3>3. QED
      BY <1>1, <2>2, <2>3, <3>2
      DEF Comment, pullVars, takeVars, schedVars, jobVars, userVars, TypeOK, Seen, Tagged, Jobs
  <2>5. PullerOK' /\ DueOK'
    BY <1>1 DEF Comment, pullVars, takeVars, schedVars, jobVars, PullerOK, DueOK
  <2>6. QED
    BY <2>4, <2>5
<1>2. ASSUME NEW c \in Comments, NEW k \in Kinds, Edit(c, k)
      PROVE  TInv'
  <2>1. kinds' \in Seq(Kinds) /\ Len(kinds') = Len(kinds) /\ Comments' = Comments
    BY <1>2 DEF Edit, TypeOK, Comments
  <2>2. PICK i \in DOMAIN order :
          /\ order[i] = c
          /\ order' = [j \in DOMAIN order |-> IF j < i THEN order[j]
                                            ELSE IF j < Len(order) THEN order[j + 1] ELSE c]
          /\ old' = IF i <= old THEN old - 1 ELSE old
    BY <1>2 DEF Edit
  <2>3. /\ DOMAIN order = 1 .. Len(order) /\ Len(order) \in Nat
        /\ \A j \in 1 .. Len(order) : order[j] \in Comments
    BY DEF TypeOK
  <2>4. order' \in Seq(Comments) /\ Len(order') = Len(order)
    BY <2>2, <2>3
  <2>5. old' \in 0 .. Len(order')
    BY <2>2, <2>3, <2>4 DEF TypeOK
  <2>6. TypeOK'
    <3>1. edited' \subseteq Comments /\ toggles' \in 0 .. events' /\ events' \in 0 .. MaxEvents
      <4>1. edited' \subseteq Comments
        BY <1>2 DEF Edit, TypeOK
      <4>2. toggles' = toggles /\ events' = events + 1 /\ events < MaxEvents
        BY <1>2 DEF Edit, Event, userVars
      <4>3. toggles \in 0 .. events /\ events \in 0 .. MaxEvents /\ MaxEvents \in Nat
        BY DEF TypeOK
      <4>4. QED
        BY <4>1, <4>2, <4>3
    <3>2. QED
      BY <1>2, <2>1, <2>4, <2>5, <3>1
      DEF Edit, Event, pullVars, takeVars, schedVars, jobVars, userVars, TypeOK
  <2>7. PullerOK' /\ DueOK'
    BY <1>2 DEF Edit, pullVars, takeVars, schedVars, jobVars, PullerOK, DueOK
  <2>8. QED
    BY <2>6, <2>7
<1>3. ASSUME Expire
      PROVE  TInv'
  <2>1. old' \in 0 .. Len(order) /\ missed' \subseteq Comments
    BY <1>3 DEF Expire, Aged, TypeOK
  <2>2. TypeOK'
    BY <1>3, <2>1
    DEF Expire, pullVars, takeVars, schedVars, jobVars, userVars, TypeOK, Comments
  <2>3. PullerOK' /\ DueOK'
    BY <1>3 DEF Expire, pullVars, takeVars, schedVars, jobVars, PullerOK, DueOK
  <2>4. QED
    BY <2>2, <2>3
<1>4. QED
  BY <1>1, <1>2, <1>3

LEMMA TypePuller == ASSUME TInv, Puller PROVE TInv'
<1> USE DEF TInv
<1>1. CASE Pull
  <2>1. ASSUME NEW i \in 1 .. PerPage, old + i \in DOMAIN order
        PROVE  order[old + i] \in Comments /\ Reported(order[old + i]) \in Seen
    <3>1. order[old + i] \in Comments
      BY <2>1 DEF TypeOK
    <3>2. kinds[order[old + i]] \in Kinds
      BY <3>1 DEF TypeOK, Comments
    <3>3. QED
      BY <3>1, <3>2 DEF Reported, Seen
  <2>2. PICK n \in Nat : {i \in 1 .. PerPage : old + i \in DOMAIN order} = 1 .. n
    <3>1. /\ old \in Nat /\ Len(order) \in Nat /\ old <= Len(order)
          /\ DOMAIN order = 1 .. Len(order)
      BY DEF TypeOK
    <3>2. CASE Len(order) - old <= PerPage
      <4>1. /\ Len(order) - old \in Nat
            /\ {i \in 1 .. PerPage : old + i \in DOMAIN order} = 1 .. Len(order) - old
        BY <3>1, <3>2
      <4>2. QED
        BY <4>1
    <3>3. CASE ~(Len(order) - old <= PerPage)
      <4>1. {i \in 1 .. PerPage : old + i \in DOMAIN order} = 1 .. PerPage
        BY <3>1, <3>3
      <4>2. QED
        BY <4>1
    <3>4. QED
      BY <3>2, <3>3
  <2>3. page' = [i \in 1 .. n |-> Reported(order[old + i])]
    BY <1>1, <2>2 DEF Pull
  <2>4. page' \in Seq(Seen)
    BY <2>1, <2>2, <2>3
  <2>5. seen' \subseteq Comments
    BY <1>1, <2>1 DEF Pull, TypeOK
  <2>6. puller' = At(page', tagged') /\ UNCHANGED <<kinds, order, old, edited, missed, tagged>>
    BY <1>1 DEF Pull, githubVars, takeVars
  <2>7. TypeOK'
    BY <1>1, <2>4, <2>5, <2>6
    DEF Pull, At, Seen, takeVars, schedVars, jobVars, userVars, TypeOK, Comments
  <2>8. PullerOK' /\ DueOK'
    BY <1>1, <2>6 DEF Pull, At, schedVars, jobVars, PullerOK, DueOK
  <2>9. QED
    BY <2>7, <2>8
<1>2. CASE Walk
  <2>1. page \in Seq(Seen) /\ page # <<>> /\ tagged \in Seq(Tagged)
    BY <1>2 DEF Walk, TypeOK, Seen, Tagged
  <2>2. Head(page) \in Seen /\ Tail(page) \in Seq(Seen)
    BY <2>1
  <2>3. page' \in Seq(Seen)
    BY <1>2, <2>2 DEF Walk
  <2>4. last' \in 0 .. Len(kinds) /\ tagged' \in Seq(Tagged)
    <3>1. CASE Head(page).id <= last
      BY <1>2, <2>1, <3>1 DEF Walk, TypeOK
    <3>2. CASE ~(Head(page).id <= last)
      <4>1. last' = Head(page).id /\ Head(page).id \in Comments
        BY <1>2, <2>2, <3>2 DEF Walk, Seen
      <4>2. CASE Head(page).kind = "none"
        <5>1. tagged' = tagged
          BY <1>2, <3>2, <4>2 DEF Walk
        <5>2. QED
          BY <2>1, <4>1, <5>1 DEF Comments, TypeOK
      <4>3. CASE Head(page).kind # "none"
        <5>1. Head(page) \in Tagged
          BY <2>2, <4>3 DEF Seen, Tagged
        <5>2. tagged' = Append(tagged, Head(page))
          BY <1>2, <3>2, <4>3 DEF Walk
        <5>3. QED
          BY <2>1, <4>1, <5>1, <5>2 DEF Comments, TypeOK
      <4>4. QED
        BY <4>2, <4>3
    <3>3. QED
      BY <3>1, <3>2
  <2>5. puller' = At(page', tagged')
    BY <1>2 DEF Walk
  <2>6. TypeOK'
    BY <1>2, <2>3, <2>4, <2>5
    DEF Walk, At, Seen, Tagged, githubVars, schedVars, jobVars, userVars, TypeOK, Comments
  <2>7. PullerOK' /\ DueOK'
    BY <1>2, <2>5 DEF Walk, At, schedVars, jobVars, PullerOK, DueOK
  <2>8. QED
    BY <2>6, <2>7
<1>3. CASE GetPrGarbled
  <2>1. tagged \in Seq(Tagged) /\ tagged # <<>>
    BY <1>3 DEF GetPrGarbled, TypeOK, Tagged, PullerOK
  <2>2. Head(tagged) \in Tagged /\ Tail(tagged) \in Seq(Tagged)
    BY <2>1
  <2>3. tagged' \in Seq(Tagged) /\ garbled' \subseteq Comments /\ puller' = At(page', tagged')
    BY <1>3, <2>2 DEF GetPrGarbled, Tagged, TypeOK
  <2>4. TypeOK'
    <3>1. toggles' \in 0 .. events' /\ events' \in 0 .. MaxEvents
      BY <1>3 DEF GetPrGarbled, Event, userVars, TypeOK
    <3>2. QED
      BY <1>3, <2>3, <3>1
      DEF GetPrGarbled, At, Tagged, githubVars, schedVars, jobVars, userVars, TypeOK, Comments
  <2>5. PullerOK' /\ DueOK'
    BY <1>3, <2>3 DEF GetPrGarbled, At, schedVars, jobVars, PullerOK, DueOK
  <2>6. QED
    BY <2>4, <2>5
<1>4. CASE Refuse
  <2>1. TypeOK'
    BY <1>4 DEF Refuse, Event, githubVars, takeVars, schedVars, jobVars, userVars, TypeOK, Comments
  <2>2. PullerOK' /\ DueOK'
    BY <1>4 DEF Refuse, takeVars, schedVars, jobVars, PullerOK, DueOK
  <2>3. QED
    BY <2>1, <2>2
<1>5. CASE ScheduleJob
  <2>1. tagged \in Seq(Tagged) /\ tagged # <<>> /\ job \in Seq(Jobs)
    BY <1>5 DEF ScheduleJob, TypeOK, Tagged, Jobs, PullerOK
  <2>2. Head(tagged) \in Tagged
    BY <2>1
  <2>3. PICK j : /\ j = [comment |-> Head(tagged).id, kind |-> Head(tagged).kind,
                          tag |-> FALSE, runs |-> 0]
                 /\ job' = Append(job, j)
    BY <1>5 DEF ScheduleJob
  <2>4. j \in Jobs
    BY <2>2, <2>3 DEF Tagged, Jobs, Kinds, JobKinds, Comments, TypeOK
  <2>5. /\ job' \in Seq(Jobs) /\ Len(job') = Len(job) + 1
        /\ \A n \in DOMAIN job : job'[n] = job[n]
    BY <2>1, <2>3, <2>4
  <2>6. DOMAIN job \subseteq DOMAIN job' /\ Len(job') \in DOMAIN job'
    BY <2>1, <2>5
  <2>7. jobs' \subseteq DOMAIN job' /\ due' \subseteq DOMAIN job' /\ current' \in {0} \cup DOMAIN job'
    BY <1>5, <2>6 DEF ScheduleJob, schedVars, TypeOK
  <2>8. TypeOK'
    BY <1>5, <2>5, <2>7
    DEF ScheduleJob, Jobs, githubVars, takeVars, schedVars, userVars, TypeOK, Comments
  <2>9. DueOK'
    <3>1. due \subseteq DOMAIN job /\ current \in {0} \cup DOMAIN job
      BY DEF TypeOK
    <3>2. QED
      BY <1>5, <2>5, <3>1 DEF ScheduleJob, schedVars, DueOK
  <2>10. PullerOK'
    BY <1>5, <2>1 DEF ScheduleJob, takeVars, PullerOK
  <2>11. QED
    BY <2>8, <2>9, <2>10
<1>6. CASE TagJob
  <2>1. tagged \in Seq(Tagged) /\ tagged # <<>>
    BY <1>6 DEF TagJob, TypeOK, Tagged, PullerOK
  <2>2. /\ kinds' \in Seq(Kinds) /\ Len(kinds') >= Len(kinds)
        /\ order' \in Seq(Comments') /\ Len(order') >= Len(order)
        /\ old' = old /\ missed' = missed /\ edited' = edited
    BY <1>6, PostPrCommentType DEF TagJob
  <2>3. Tail(tagged) \in Seq(Tagged') /\ puller' = At(page', tagged') /\ tagged' = Tail(tagged)
    BY <1>6, <2>1, <2>2, Grown DEF TagJob
  <2>4. /\ job' \in Seq(Jobs') /\ DOMAIN job' = DOMAIN job
        /\ \A n \in DOMAIN job : job'[n].runs = job[n].runs /\ (job[n].tag => job'[n].tag)
    BY <1>6, <2>2, TagType, Grown, SeqMonotonic DEF TagJob
  <2>5. /\ page \in Seq(Seen') /\ Comments \subseteq Comments'
        /\ last \in 0 .. Len(kinds') /\ cancelled \subseteq {0} \cup Comments'
    BY <2>2, Grown
  <2>6. old \in 0 .. Len(order')
    BY <2>2 DEF TypeOK
  <2>7. TypeOK'
    BY <1>6, <2>2, <2>3, <2>4, <2>5, <2>6
    DEF TagJob, At, Seen, Tagged, Jobs, schedVars, userVars, TypeOK
  <2>8. DueOK'
    <3>1. due \subseteq DOMAIN job /\ current \in {0} \cup DOMAIN job
      BY DEF TypeOK
    <3>2. due' = due /\ current' = current
      BY <1>6 DEF TagJob, schedVars
    <3>3. QED
      BY <2>4, <3>1, <3>2 DEF DueOK
  <2>9. PullerOK'
    BY <2>3 DEF At, PullerOK
  <2>10. QED
    BY <2>7, <2>8, <2>9
<1>7. CASE PostRaises
  <2>1. tagged \in Seq(Tagged) /\ tagged # <<>>
    BY <1>7 DEF PostRaises, TypeOK, Tagged, PullerOK
  <2>2. tagged' \in Seq(Tagged)
    BY <1>7, <2>1 DEF PostRaises
  <2>3. /\ job' \in Seq(Jobs) /\ DOMAIN job' = DOMAIN job
        /\ \A n \in DOMAIN job : job'[n].runs = job[n].runs /\ (job[n].tag => job'[n].tag)
    BY <1>7, TagType DEF PostRaises
  <2>4. toggles' \in 0 .. events' /\ events' \in 0 .. MaxEvents
    BY <1>7 DEF PostRaises, Event, userVars, TypeOK
  <2>5. TypeOK'
    BY <1>7, <2>2, <2>3, <2>4
    DEF PostRaises, Tagged, Jobs, githubVars, schedVars, userVars, TypeOK, Comments
  <2>6. PullerOK'
    BY <1>7 DEF PostRaises, PullerOK
  <2>7. DueOK'
    <3>1. due \subseteq DOMAIN job /\ current \in {0} \cup DOMAIN job
      BY DEF TypeOK
    <3>2. due' = due /\ current' = current
      BY <1>7 DEF PostRaises, schedVars
    <3>3. QED
      BY <2>3, <3>1, <3>2 DEF DueOK
  <2>8. QED
    BY <2>5, <2>6, <2>7
<1>8. QED
  BY <1>1, <1>2, <1>3, <1>4, <1>5, <1>6, <1>7 DEF Puller

\* How a step of the scheduler leaves the schedule.
Scheduled ==
    /\ job' \in Seq(Jobs)
    /\ jobs' \subseteq DOMAIN job' /\ due' \subseteq DOMAIN job' /\ current' \in {0} \cup DOMAIN job'
    /\ sched' \in {"live", "hung", "dead"} /\ untagged' \in BOOLEAN
    /\ DueOK'

LEMMA StartType ==
    ASSUME TypeOK, NEW d \in SUBSET DOMAIN job, \A n \in d : job[n].tag /\ job[n].runs < MaxRuns,
           Start(d), jobs' \subseteq jobs, UNCHANGED <<sched, untagged>>
    PROVE  Scheduled
<1>1. /\ job' \in Seq(Jobs) /\ DOMAIN job' = DOMAIN job
      /\ current' \in {0} \cup d
      /\ due' = d \ {current'}
      /\ \A k \in DOMAIN job :
            /\ job'[k].tag = job[k].tag
            /\ job'[k].runs = IF k = current' THEN job[k].runs + 1 ELSE job[k].runs
  BY StartEffect
<1>2. DueOK'
  <2>1. \A n \in due' : job'[n].tag /\ job'[n].runs < MaxRuns
    BY <1>1
  <2>2. current' # 0 => job'[current'].tag
    BY <1>1
  <2>3. QED
    BY <1>1, <2>1, <2>2 DEF DueOK
<1>3. jobs' \subseteq DOMAIN job' /\ due' \subseteq DOMAIN job' /\ current' \in {0} \cup DOMAIN job'
  BY <1>1 DEF TypeOK
<1>4. untagged' \in BOOLEAN
  BY Zenon DEF TypeOK
<1>5. sched' \in {"live", "hung", "dead"}
  BY DEF TypeOK
<1>6. QED
  BY <1>1, <1>2, <1>3, <1>4, <1>5 DEF Scheduled

LEMMA ReturnType ==
    ASSUME TInv, NEW list \in SUBSET jobs, NEW result, Return(list, result)
    PROVE  Scheduled
<1>1. due \in SUBSET DOMAIN job /\ \A n \in due : job[n].tag /\ job[n].runs < MaxRuns
  BY DEF TInv, TypeOK, DueOK
<1>2. Start(due) /\ jobs' \subseteq jobs /\ UNCHANGED <<sched, untagged>>
  BY DEF Return
<1>3. QED
  BY <1>1, <1>2, StartType DEF TInv

LEMMA DieType ==
    ASSUME TInv, Die, jobs' \subseteq jobs, untagged' \in BOOLEAN
    PROVE  Scheduled
BY DEF TInv, TypeOK, DueOK, Die, Scheduled, Jobs

LEMMA FinishType ==
    ASSUME TInv, NEW result, Finish(result)
    PROVE  Scheduled
<1>1. PICK left \in SUBSET jobs :
         \/ Return(left, result)
         \/ Die /\ jobs' = left /\ (UNCHANGED untagged \/ untagged' = TRUE)
  BY DEF Finish
<1>2. untagged \in BOOLEAN
  BY Zenon DEF TInv, TypeOK
<1>3. QED
  BY <1>1, <1>2, ReturnType, DieType

\* The schedule typed, and a comment posted at most, all is typed.
LEMMA SchedulerStepType ==
    ASSUME TInv, Scheduled, PostPrComment \/ UNCHANGED githubVars,
           UNCHANGED <<pullVars, enabled, last, takeVars, unmailed, userVars, events>>
    PROVE  TInv'
<1> USE DEF TInv
<1>1. /\ kinds' \in Seq(Kinds) /\ Len(kinds') >= Len(kinds)
      /\ order' \in Seq(Comments') /\ Len(order') >= Len(order)
      /\ old' = old /\ missed' = missed /\ edited' = edited
  <2>1. CASE PostPrComment
    BY <2>1, PostPrCommentType
  <2>2. CASE UNCHANGED githubVars
    BY <2>2 DEF githubVars, TypeOK, Comments
  <2>3. QED
    BY <2>1, <2>2
<1>2. /\ Comments \subseteq Comments'
      /\ page \in Seq(Seen') /\ tagged \in Seq(Tagged') /\ Jobs \subseteq Jobs'
      /\ last \in 0 .. Len(kinds') /\ cancelled \subseteq {0} \cup Comments'
  BY <1>1, Grown
<1>3. job' \in Seq(Jobs')
  BY <1>2, SeqMonotonic DEF Scheduled
<1>4. old' \in 0 .. Len(order') /\ edited' \cup seen \cup missed' \cup garbled \subseteq Comments'
  BY <1>1, <1>2 DEF TypeOK
<1>5. {enabled, refused, untagged', unmailed, gui, hit} \subseteq BOOLEAN
  BY Zenon DEF TypeOK, Scheduled
<1>6. TypeOK'
  BY <1>1, <1>2, <1>3, <1>4, <1>5
  DEF pullVars, takeVars, userVars, Scheduled, TypeOK, Seen, Tagged, Jobs
<1>7. PullerOK' /\ DueOK'
  BY DEF pullVars, takeVars, Scheduled, PullerOK
<1>8. QED
  BY <1>6, <1>7

LEMMA TypeScheduler == ASSUME TInv, Scheduler PROVE TInv'
<1>1. CASE RunPending
  <2>1. PICK d \in SUBSET {n \in jobs : job[n].tag /\ job[n].runs < MaxRuns} : Start(d)
    BY <1>1 DEF RunPending
  <2>2. d \in SUBSET DOMAIN job /\ TypeOK
    BY DEF TInv, TypeOK
  <2>3. jobs' \subseteq jobs /\ UNCHANGED <<sched, untagged>>
    BY <1>1 DEF RunPending
  <2>4. Scheduled
    BY <2>1, <2>2, <2>3, StartType
  <2>5. QED
    BY <1>1, <2>4, SchedulerStepType DEF RunPending
<1>2. CASE PrJob
  BY <1>2, FinishType, SchedulerStepType DEF PrJob
<1>3. CASE ListDevices
  BY <1>3, FinishType, SchedulerStepType DEF ListDevices
<1>4. CASE TestJob
  BY <1>4, ReturnType, SchedulerStepType DEF TestJob
<1>5. CASE JobRaises
  <2>1. Scheduled
    BY <1>5, FinishType, ReturnType DEF JobRaises
  <2>2. QED
    BY <1>5, <2>1, SchedulerStepType DEF JobRaises
<1>6. CASE MailRaises
  <2>1. toggles' = toggles /\ events' = events + 1 /\ events < MaxEvents
    BY <1>6 DEF MailRaises, Event, userVars
  <2>2. toggles' \in 0 .. events' /\ events' \in 0 .. MaxEvents
    BY <2>1 DEF TInv, TypeOK
  <2>3. TypeOK'
    BY <1>6, <2>2
    DEF MailRaises, Die, githubVars, pullVars, takeVars, userVars, TInv, TypeOK, Comments
  <2>4. PullerOK' /\ DueOK'
    BY <1>6 DEF MailRaises, Die, pullVars, takeVars, TInv, PullerOK, DueOK
  <2>5. QED
    BY <2>3, <2>4 DEF TInv
<1>7. CASE TestHangs
  <2>1. toggles' = toggles /\ events' = events + 1 /\ events < MaxEvents
    BY <1>7 DEF TestHangs, Event, userVars
  <2>2. toggles' \in 0 .. events' /\ events' \in 0 .. MaxEvents
    BY <2>1 DEF TInv, TypeOK
  <2>3. TypeOK'
    BY <1>7, <2>2
    DEF TestHangs, githubVars, pullVars, takeVars, jobVars, userVars, TInv, TypeOK, Comments
  <2>4. PullerOK' /\ DueOK'
    BY <1>7 DEF TestHangs, pullVars, takeVars, jobVars, TInv, PullerOK, DueOK
  <2>5. QED
    BY <2>3, <2>4 DEF TInv
<1>8. QED
  BY <1>1, <1>2, <1>3, <1>4, <1>5, <1>6, <1>7 DEF Scheduler

\* What the user does at the window.
LEMMA TypeUser ==
    ASSUME TInv,
           \/ \E c \in {0} \cup Comments : CancelJob(c)
           \/ \E enable \in BOOLEAN, n \in 0 .. Len(order) : Toggle(enable, n)
    PROVE  TInv'
<1>1. ASSUME NEW c \in {0} \cup Comments, CancelJob(c)
      PROVE  TInv'
  <2>1. toggles' = toggles /\ events' = events + 1 /\ events < MaxEvents
    BY <1>1 DEF CancelJob, Event
  <2>2. toggles' \in 0 .. events' /\ events' \in 0 .. MaxEvents
    BY <2>1 DEF TInv, TypeOK
  <2>3. {enabled, refused, untagged, unmailed, gui, hit'} \subseteq BOOLEAN
    <3>1. hit' \in BOOLEAN
      BY <1>1 DEF CancelJob
    <3>2. QED
      BY <3>1, Zenon DEF TInv, TypeOK
  <2>4. /\ jobs' \subseteq DOMAIN job
        /\ cancelled' \subseteq {0} \cup Comments
    BY <1>1 DEF CancelJob, TInv, TypeOK
  <2>5. TypeOK'
    BY <1>1, <2>2, <2>3, <2>4
    DEF CancelJob, githubVars, pullVars, takeVars, schedVars, TInv, TypeOK, Comments
  <2>6. PullerOK' /\ DueOK'
    BY <1>1 DEF CancelJob, pullVars, takeVars, schedVars, TInv, PullerOK, DueOK
  <2>7. QED
    BY <2>5, <2>6 DEF TInv
<1>2. ASSUME NEW enable \in BOOLEAN, NEW n \in 0 .. Len(order), Toggle(enable, n)
      PROVE  TInv'
  <2>1. toggles' = toggles + 1 /\ events' = events + 1 /\ events < MaxEvents
    BY <1>2 DEF Toggle, Event
  <2>2. toggles' \in 0 .. events' /\ events' \in 0 .. MaxEvents
    <3>1. toggles \in 0 .. events /\ events \in 0 .. MaxEvents /\ MaxEvents \in Nat
      BY DEF TInv, TypeOK
    <3>2. QED
      BY <2>1, <3>1
  <2>3. {enabled', refused, untagged, unmailed, gui, hit} \subseteq BOOLEAN
    BY <1>2, Zenon DEF Toggle, TInv, TypeOK
  <2>4. old' \in 0 .. Len(order) /\ missed' \subseteq Comments /\ last' \in 0 .. Len(kinds)
    <3>1. Len(order) \in Nat /\ Len(kinds) \in Nat /\ \A i \in 1 .. n : order[i] \in Comments
      BY DEF TInv, TypeOK
    <3>2. QED
      BY <1>2, <3>1 DEF Toggle, Aged, TInv, TypeOK
  <2>5. TypeOK'
    BY <1>2, <2>2, <2>3, <2>4
    DEF Toggle, pullVars, takeVars, schedVars, jobVars, TInv, TypeOK, Comments
  <2>6. PullerOK' /\ DueOK'
    BY <1>2 DEF Toggle, pullVars, takeVars, schedVars, jobVars, TInv, PullerOK, DueOK
  <2>7. QED
    BY <2>5, <2>6 DEF TInv
<1>3. QED
  BY <1>1, <1>2

LEMMA TypeStep == TInv /\ [Next]_vars => TInv'
<1> SUFFICES ASSUME TInv, [Next]_vars
             PROVE  TInv'
  OBVIOUS
<1>1. CASE UNCHANGED vars
  BY <1>1
  DEF vars, githubVars, pullVars, takeVars, schedVars, jobVars, userVars,
      TInv, TypeOK, PullerOK, DueOK, Comments
<1>2. CASE Next
  BY <1>2, TypeGithub, TypePuller, TypeScheduler, TypeUser DEF Next
<1>3. QED
  BY <1>1, <1>2

\* All that the cron keeps is of its type: a page and the comments taken from
\* it are of known ids, and no job runs more often than the bound.
THEOREM TypeCorrect == Spec => []TypeOK
<1>1. TInv => TypeOK
  BY DEF TInv
<1>2. QED
  BY TypeInit, TypeStep, <1>1, PTL DEF Spec

-----------------------------------------------------------------------------
\* Jobs of comments, and only they, are named by one.
Named == \A n \in DOMAIN job : job[n].kind = "cyclical" <=> job[n].comment = 0

\* A job that is to run once has not run, but for the one that is running.
Spent ==
    /\ \A n \in DOMAIN job : job[n].runs > 1 => Weekly(n)
    /\ sched = "live" => \A n \in jobs \cup due : n # current /\ ~Weekly(n) => job[n].runs = 0

OfComment(n) == job[n].kind # "cyclical"

\* With a window jobs of comments run in the order they were scheduled in, so
\* the job that runs is the first one that is left of its name.
InTurn ==
    gui /\ sched = "live" =>
        /\ \A k \in jobs, n \in due :
              OfComment(k) /\ OfComment(n) /\ k < n => k \in due \cup {current}
        /\ \A k \in jobs \cup due :
              current # 0 /\ OfComment(k) /\ OfComment(current) => current <= k

OInv == Named /\ Spent /\ InTurn

LEMMA OrderInit == Init => OInv
<1> SUFFICES ASSUME Init
             PROVE  OInv
  OBVIOUS
<1>1. DOMAIN job = {1} /\ job[1] = Cyclical
  BY DEF Init
<1>2. Named
  BY <1>1 DEF Named, Cyclical
<1>3. Spent
  BY <1>1 DEF Init, Spent, Weekly, Cyclical
<1>4. InTurn
  BY DEF Init, InTurn
<1>5. QED
  BY <1>2, <1>3, <1>4 DEF OInv

\* No step that only takes jobs off the list, or stops the scheduler, disturbs it.
LEMMA OrderKept ==
    ASSUME TInv, OInv, UNCHANGED <<gui, job, current, due>>, jobs' \subseteq jobs,
           sched' = sched \/ sched' # "live"
    PROVE  OInv'
<1>1. Named'
  BY DEF OInv, Named
<1>2. Spent'
  BY DEF OInv, Spent, Weekly
<1>3. InTurn'
  BY DEF OInv, InTurn, OfComment
<1>4. QED
  BY <1>1, <1>2, <1>3 DEF OInv

\* A new job has a higher number than all others.
LEMMA OrderSchedule == ASSUME TInv, OInv, ScheduleJob PROVE OInv'
<1>1. PICK j : /\ j = [comment |-> Head(tagged).id, kind |-> Head(tagged).kind,
                       tag |-> FALSE, runs |-> 0]
              /\ job' = Append(job, j)
  BY DEF ScheduleJob
<1>2. Head(tagged) \in Tagged
  <2>1. tagged \in Seq(Tagged) /\ tagged # <<>>
    BY DEF ScheduleJob, TInv, TypeOK, PullerOK, Tagged
  <2>2. QED
    BY <2>1
<1>3. j.kind # "cyclical" /\ j.comment # 0 /\ j.runs = 0
  BY <1>1, <1>2 DEF Tagged, Kinds, Comments
<1>4. job \in Seq(Jobs) /\ DOMAIN job = 1 .. Len(job) /\ Len(job) \in Nat
  BY DEF TInv, TypeOK, Jobs
<1>5. /\ DOMAIN job' = 1 .. Len(job) + 1 /\ Len(job') = Len(job) + 1
      /\ job'[Len(job) + 1] = j
      /\ \A n \in 1 .. Len(job) : job'[n] = job[n]
  BY <1>1, <1>4
<1>6. /\ jobs' = jobs \cup {Len(job) + 1} /\ gui' = gui
      /\ sched' = sched /\ current' = current /\ due' = due
  BY <1>5 DEF ScheduleJob, schedVars, userVars
<1>7. jobs \subseteq 1 .. Len(job) /\ due \subseteq 1 .. Len(job) /\ current \in 0 .. Len(job)
  <2>1. jobs \subseteq DOMAIN job /\ due \subseteq DOMAIN job /\ current \in {0} \cup DOMAIN job
    BY DEF TInv, TypeOK
  <2>2. QED
    BY <1>4, <2>1
<1>8. Named'
  BY <1>3, <1>4, <1>5 DEF OInv, Named
<1>9. Spent'
  <2>1. \A n \in 1 .. Len(job) + 1 : job'[n].runs > 1 => Weekly(n)'
    BY <1>3, <1>4, <1>5, <1>6 DEF OInv, Spent, Weekly
  <2>2. \A n \in jobs \cup due : Weekly(n)' <=> Weekly(n)
    BY <1>5, <1>6, <1>7 DEF Weekly
  <2>3. sched = "live" => \A n \in jobs' \cup due' : n # current' /\ ~Weekly(n)' => job'[n].runs = 0
    BY <1>3, <1>5, <1>6, <1>7, <2>2 DEF OInv, Spent
  <2>4. QED
    BY <1>5, <1>6, <2>1, <2>3 DEF Spent
<1>10. InTurn'
  <2>1. \A n \in 1 .. Len(job) : OfComment(n)' <=> OfComment(n)
    BY <1>5 DEF OfComment
  <2>2. \A n \in due : n < Len(job) + 1
    BY <1>4, <1>7
  <2>3. ASSUME gui, sched = "live", NEW k \in jobs', NEW n \in due',
               OfComment(k)', OfComment(n)', k < n
        PROVE  k \in due' \cup {current'}
    <3>1. k \in jobs
      BY <1>4, <1>6, <1>7, <2>2, <2>3
    <3>2. QED
      BY <1>6, <1>7, <2>1, <2>3, <3>1 DEF OInv, InTurn
  <2>4. ASSUME gui, sched = "live", NEW k \in jobs' \cup due',
               current' # 0, OfComment(k)', OfComment(current)'
        PROVE  current' <= k
    <3>1. CASE k = Len(job) + 1
      BY <1>4, <1>6, <1>7, <3>1
    <3>2. CASE k # Len(job) + 1
      <4>1. k \in jobs \cup due /\ k \in 1 .. Len(job) /\ current \in 1 .. Len(job)
        BY <1>6, <1>7, <2>4, <3>2
      <4>2. QED
        BY <1>6, <2>1, <2>4, <4>1 DEF OInv, InTurn
    <3>3. QED
      BY <3>1, <3>2
  <2>5. QED
    BY <1>6, <2>3, <2>4 DEF InTurn
<1>11. QED
  BY <1>8, <1>9, <1>10 DEF OInv

LEMMA OrderTag == ASSUME TInv, OInv, TagJob \/ PostRaises PROVE OInv'
<1>1. /\ jobs' = jobs /\ gui' = gui /\ sched' = sched /\ current' = current /\ due' = due
  BY DEF TagJob, PostRaises, schedVars, userVars
<1>0. /\ DOMAIN job' = DOMAIN job
      /\ \A n \in DOMAIN job : /\ job'[n].comment = job[n].comment /\ job'[n].kind = job[n].kind
                               /\ job'[n].runs = job[n].runs
  BY TagType DEF TagJob, PostRaises, TInv
<1>2. jobs \subseteq DOMAIN job /\ due \subseteq DOMAIN job /\ current \in {0} \cup DOMAIN job
  BY DEF TInv, TypeOK
<1>3. Named'
  BY <1>0 DEF OInv, Named
<1>4. Spent'
  BY <1>1, <1>0, <1>2 DEF OInv, Spent, Weekly
<1>5. InTurn'
  BY <1>1, <1>0, <1>2 DEF OInv, InTurn, OfComment
<1>6. QED
  BY <1>3, <1>4, <1>5 DEF OInv

\* The scheduler goes on to a job of d, all of which are yet to run.
LEMMA OrderStart ==
    ASSUME TInv, OInv, NEW d \in SUBSET DOMAIN job, \A n \in d : job[n].runs < MaxRuns,
           Start(d), sched = "live", gui' = gui,
           \A n \in jobs' \cup d : ~Weekly(n) => job[n].runs = 0,
           jobs' \subseteq jobs,
           gui => \A k \in jobs', n \in d : OfComment(k) /\ OfComment(n) /\ k < n => k \in d
    PROVE  OInv'
<1>1. /\ job' \in Seq(Jobs) /\ DOMAIN job' = DOMAIN job
      /\ current' \in {0} \cup d
      /\ due' = d \ {current'}
      /\ \A k \in DOMAIN job :
            /\ job'[k].comment = job[k].comment /\ job'[k].kind = job[k].kind
            /\ job'[k].runs = IF k = current' THEN job[k].runs + 1 ELSE job[k].runs
      /\ current' # 0 => \A k \in d : Fresh(current') /\ Fresh(k) => current' <= k
  BY StartEffect DEF TInv
<1>2. /\ jobs' \subseteq DOMAIN job /\ d \subseteq DOMAIN job /\ DOMAIN job \subseteq Nat \ {0}
  <2>1. jobs \subseteq DOMAIN job /\ DOMAIN job = 1 .. Len(job) /\ Len(job) \in Nat
    BY DEF TInv, TypeOK
  <2>2. QED
    BY <2>1
<1>3. \A n \in DOMAIN job : (Weekly(n)' <=> Weekly(n)) /\ (OfComment(n)' <=> OfComment(n))
  BY <1>1 DEF Weekly, OfComment
<1>4. Named'
  BY <1>1 DEF OInv, Named
<1>5. Spent'
  <2>1. ASSUME NEW n \in DOMAIN job, job'[n].runs > 1
        PROVE  Weekly(n)
    <3>1. CASE n = current'
      BY <1>1, <1>2, <2>1, <3>1
    <3>2. CASE n # current'
      BY <1>1, <2>1, <3>2 DEF OInv, Spent
    <3>3. QED
      BY <3>1, <3>2
  <2>2. \A n \in jobs' \cup due' : n # current' /\ ~Weekly(n) => job'[n].runs = 0
    BY <1>1, <1>2
  <2>3. QED
    BY <1>1, <1>2, <1>3, <2>1, <2>2 DEF Spent
<1>6. InTurn'
  <2>1. \A k \in jobs', n \in due' :
           gui /\ OfComment(k) /\ OfComment(n) /\ k < n => k \in due' \cup {current'}
    BY <1>1
  <2>2. ASSUME gui, NEW k \in jobs' \cup due', current' # 0, OfComment(k), OfComment(current')
        PROVE  current' <= k
    <3>1. Fresh(current') /\ Fresh(k) /\ k \in Nat /\ current' \in Nat /\ current' \in d
      BY <1>1, <1>2, <2>2 DEF Fresh, OfComment, Weekly
    <3>2. CASE k < current'
      BY <1>1, <2>2, <3>1, <3>2
    <3>3. QED
      BY <3>1, <3>2
  <2>3. QED
    BY <1>1, <1>2, <1>3, <2>1, <2>2 DEF InTurn
<1>7. QED
  BY <1>4, <1>5, <1>6 DEF OInv

\* A job ends, and is off the list unless it is to run weekly.
LEMMA OrderReturn ==
    ASSUME TInv, OInv, NEW list \in SUBSET jobs, NEW result, Return(list, result),
           sched = "live", current # 0, gui' = gui,
           ~Weekly(current) => current \notin list \/ result = "CancelJob"
    PROVE  OInv'
<1>1. Start(due) /\ jobs' \subseteq jobs /\ (~Weekly(current) => current \notin jobs')
  BY DEF Return
<1>2. due \in SUBSET DOMAIN job /\ (\A n \in due : job[n].runs < MaxRuns) /\ current \notin due
  BY DEF TInv, TypeOK, DueOK
<1>3. \A n \in jobs' \cup due : ~Weekly(n) => job[n].runs = 0
  BY <1>1, <1>2 DEF OInv, Spent
<1>4. ASSUME gui, NEW k \in jobs', NEW n \in due, OfComment(k), OfComment(n), k < n
      PROVE  k \in due
  <2>1. k \in due \cup {current}
    BY <1>1, <1>4 DEF OInv, InTurn
  <2>2. ~Weekly(k)
    BY <1>4 DEF Weekly, OfComment
  <2>3. QED
    BY <1>1, <2>1, <2>2
<1>5. QED
  BY <1>1, <1>2, <1>3, <1>4, OrderStart

\* With a window the job of a comment that ends is the one of its name that
\* pr_job_finish_wrapper() cancels, if it is on the list.
LEMMA FirstOfItsName ==
    ASSUME TInv, OInv, sched = "live", current # 0, OfComment(current), gui, current \in jobs
    PROVE  Lowest(GetJobs(job[current].comment)) = current
<1>1. /\ current \in DOMAIN job /\ job[current].tag
      /\ jobs \subseteq DOMAIN job /\ DOMAIN job \subseteq Nat
  <2>1. DOMAIN job = 1 .. Len(job) /\ Len(job) \in Nat
    BY DEF TInv, TypeOK
  <2>2. current \in DOMAIN job /\ jobs \subseteq DOMAIN job
    BY DEF TInv, TypeOK
  <2>3. job[current].tag
    BY DEF TInv, DueOK
  <2>4. QED
    BY <2>1, <2>2, <2>3
<1>2. PICK own : own = GetJobs(job[current].comment)
  OBVIOUS
<1>3. current \in own /\ own \subseteq jobs
  BY <1>1, <1>2 DEF GetJobs
<1>4. \A k \in own : current <= k
  <2>1. job[current].comment # 0
    BY <1>1 DEF OInv, Named, OfComment
  <2>2. \A k \in own : OfComment(k)
    BY <1>1, <1>2, <1>3, <2>1 DEF GetJobs, OInv, Named, OfComment
  <2>3. QED
    BY <1>3, <2>2 DEF OInv, InTurn
<1>5. Lowest(own) \in own /\ Lowest(own) <= current
  BY <1>3, <1>4 DEF Lowest
<1>6. QED
  BY <1>1, <1>2, <1>3, <1>4, <1>5

LEMMA OrderFinish ==
    ASSUME TInv, OInv, NEW result, Finish(result), sched = "live", current # 0, OfComment(current),
           gui' = gui, result = "CancelJob" \/ job[current].kind = "devices"
    PROVE  OInv'
<1>1. CASE ~gui
  <2>1. ~Weekly(current) => result = "CancelJob"
    BY <1>1 DEF Weekly
  <2>2. Return(jobs, result)
    BY <1>1 DEF Finish
  <2>3. QED
    BY <2>1, <2>2, OrderReturn
<1>2. CASE gui
  <2>1. PICK left : left = jobs \ {Lowest(GetJobs(job[current].comment))}
    OBVIOUS
  <2>2. current \notin left /\ left \in SUBSET jobs
    BY <1>2, <2>1, FirstOfItsName
  <2>3. \/ Return(left, result)
        \/ Die /\ jobs' \in {left, jobs}
    BY <1>2, <2>1 DEF Finish
  <2>4. CASE Return(left, result)
    BY <2>2, <2>4, OrderReturn
  <2>5. CASE Die /\ jobs' \in {left, jobs}
    BY <2>2, <2>5, OrderKept DEF Die
  <2>6. QED
    BY <2>3, <2>4, <2>5
<1>3. QED
  BY <1>1, <1>2 DEF TInv, TypeOK

LEMMA OrderScheduler == ASSUME TInv, OInv, Scheduler PROVE OInv'
<1>1. CASE RunPending
  <2>1. PICK d \in SUBSET {n \in jobs : job[n].tag /\ job[n].runs < MaxRuns} :
           /\ \A n \in d, k \in jobs : Fresh(n) /\ Fresh(k) /\ k < n => k \in d
           /\ Start(d)
    BY <1>1 DEF RunPending
  <2>2. /\ sched = "live" /\ current = 0 /\ jobs' = jobs /\ gui' = gui
        /\ jobs \subseteq DOMAIN job /\ DOMAIN job \subseteq Nat \ {0}
    <3>1. jobs \subseteq DOMAIN job /\ DOMAIN job = 1 .. Len(job) /\ Len(job) \in Nat
      BY DEF TInv, TypeOK
    <3>2. QED
      BY <1>1, <3>1 DEF RunPending, userVars
  <2>3. \A n \in jobs : ~Weekly(n) => job[n].runs = 0
    BY <2>2 DEF OInv, Spent
  <2>4. ASSUME gui, NEW k \in jobs', NEW n \in d, OfComment(k), OfComment(n), k < n
        PROVE  k \in d
    <3>1. Fresh(k) /\ Fresh(n)
      BY <2>2, <2>3, <2>4 DEF Fresh, Weekly, OfComment
    <3>2. QED
      BY <2>1, <2>2, <2>4, <3>1
  <2>5. d \in SUBSET DOMAIN job /\ \A n \in d : job[n].runs < MaxRuns
    BY <2>1, <2>2
  <2>6. \A n \in jobs' \cup d : ~Weekly(n) => job[n].runs = 0
    BY <2>1, <2>2, <2>3
  <2>7. QED
    BY <2>1, <2>2, <2>4, <2>5, <2>6, OrderStart
<1>2. CASE PrJob
  BY <1>2, OrderFinish DEF PrJob, Running, OfComment, userVars
<1>3. CASE ListDevices
  BY <1>3, OrderFinish DEF ListDevices, Running, OfComment, userVars
<1>4. CASE TestJob
  <2>1. Weekly(current)
    BY <1>4 DEF TestJob, Running, Weekly
  <2>2. QED
    BY <1>4, <2>1, OrderReturn DEF TestJob, Running, userVars
<1>5. CASE JobRaises
  <2>1. gui' = gui
    BY <1>5 DEF JobRaises, userVars
  <2>2. CASE (Running("run") \/ Running("devices")) /\ Finish("CancelJob")
    BY <2>1, <2>2, OrderFinish DEF Running, OfComment
  <2>3. CASE Running("cyclical") /\ Return(jobs, "CancelJob")
    BY <2>1, <2>3, OrderReturn DEF Running
  <2>4. QED
    BY <1>5, <2>2, <2>3 DEF JobRaises
<1>6. CASE MailRaises
  BY <1>6, OrderKept DEF MailRaises, Die, userVars
<1>7. CASE TestHangs
  BY <1>7, OrderKept DEF TestHangs, jobVars, userVars
<1>8. QED
  BY <1>1, <1>2, <1>3, <1>4, <1>5, <1>6, <1>7 DEF Scheduler

LEMMA OrderStep == TInv /\ OInv /\ [Next]_vars => OInv'
<1> SUFFICES ASSUME TInv, OInv, [Next]_vars
             PROVE  OInv'
  OBVIOUS
<1>1. CASE UNCHANGED <<gui, jobVars, schedVars>>
  BY <1>1, OrderKept DEF jobVars, schedVars
<1>2. ASSUME NEW c \in {0} \cup Comments, CancelJob(c)
      PROVE  OInv'
  BY <1>2, OrderKept DEF CancelJob, schedVars
<1>3. CASE Puller
  <2>1. CASE ScheduleJob
    BY <2>1, OrderSchedule
  <2>2. CASE TagJob \/ PostRaises
    BY <2>2, OrderTag
  <2>3. CASE Pull \/ Walk \/ GetPrGarbled \/ Refuse
    BY <2>3, <1>1 DEF Pull, Walk, GetPrGarbled, Refuse, userVars
  <2>4. QED
    BY <1>3, <2>1, <2>2, <2>3 DEF Puller
<1>4. CASE UNCHANGED vars
  BY <1>4, <1>1 DEF vars, userVars
<1>5. QED
  BY <1>1, <1>2, <1>3, <1>4, OrderScheduler DEF Next, Comment, Edit, Expire, Toggle, userVars

-----------------------------------------------------------------------------
Positive == Nat \ {0}

\* The tagged comments of an id that have no job yet; between do() and tag()
\* the first of the tagged comments has one.
Waiting(c) == {i \in DOMAIN tagged : tagged[i].id = c /\ ~(puller = "tag" /\ i = 1)}

\* How often the puller may have come by a comment.
Passes(c) == toggles + (IF c <= last THEN 1 ELSE 0)

\* The jobs that a comment has and is to get.
Counted == \A c \in Positive : Cardinality(JobsOf(c)) + Cardinality(Waiting(c)) <= Passes(c)

LEMMA CountFinite ==
    ASSUME TypeOK, NEW c
    PROVE  /\ IsFiniteSet(JobsOf(c)) /\ Cardinality(JobsOf(c)) \in Nat
           /\ IsFiniteSet(Waiting(c)) /\ Cardinality(Waiting(c)) \in Nat
           /\ JobsOf(c) \subseteq 1 .. Len(job) /\ Waiting(c) \subseteq 1 .. Len(tagged)
           /\ Len(job) \in Nat /\ Len(tagged) \in Nat
<1>1. /\ Len(job) \in Nat /\ DOMAIN job = 1 .. Len(job)
      /\ Len(tagged) \in Nat /\ DOMAIN tagged = 1 .. Len(tagged)
  BY DEF TypeOK
<1>2. JobsOf(c) \subseteq 1 .. Len(job) /\ Waiting(c) \subseteq 1 .. Len(tagged)
  BY <1>1 DEF JobsOf, Waiting
<1>3. IsFiniteSet(1 .. Len(job)) /\ IsFiniteSet(1 .. Len(tagged))
  BY <1>1, FS_Interval
<1>4. IsFiniteSet(JobsOf(c)) /\ IsFiniteSet(Waiting(c))
  BY <1>2, <1>3, FS_Subset
<1>5. QED
  BY <1>1, <1>2, <1>4, FS_CardinalityType

\* What is one further on in a sequence is not more.
LEMMA Shifted ==
    ASSUME NEW S \in SUBSET Nat, NEW T, IsFiniteSet(T), \A i \in S : i + 1 \in T
    PROVE  IsFiniteSet(S) /\ Cardinality(S) <= Cardinality(T)
<1>1. PICK f : f = [i \in S |-> i + 1]
  OBVIOUS
<1>2. f \in [S -> T] /\ \A i, j \in S : f[i] = f[j] => i = j
  BY <1>1
<1>3. f \in Injection(S, T)
  BY <1>2 DEF Injection, IsInjective
<1>4. QED
  BY <1>3, FS_Injection

LEMMA CountInit == Init => Counted
<1> SUFFICES ASSUME Init, NEW c \in Positive
             PROVE  Cardinality(JobsOf(c)) + Cardinality(Waiting(c)) <= Passes(c)
  BY DEF Counted
<1>1. DOMAIN job = {1} /\ job[1].comment = 0
  BY DEF Init, Cyclical
<1>2. JobsOf(c) = {} /\ Waiting(c) = {}
  BY <1>1 DEF Init, JobsOf, Waiting, Positive
<1>3. Passes(c) = 0
  BY DEF Init, Passes, Positive
<1>4. QED
  BY <1>2, <1>3, FS_EmptySet

\* The step gives no comment a job or a place among the tagged ones.
LEMMA CountKept ==
    ASSUME TypeOK, Counted, UNCHANGED <<tagged, last, toggles>>,
           (puller' = "tag") <=> (puller = "tag"),
           DOMAIN job' = DOMAIN job, \A n \in DOMAIN job : job'[n].comment = job[n].comment
    PROVE  Counted'
<1>1. ASSUME NEW c \in Positive
      PROVE  JobsOf(c)' = JobsOf(c) /\ Waiting(c)' = Waiting(c) /\ Passes(c)' = Passes(c)
  BY DEF JobsOf, Waiting, Passes
<1>2. QED
  BY <1>1 DEF Counted

\* The next of the tagged comments is done with.
LEMMA CountTail ==
    ASSUME TInv, Counted, puller \in {"jobs", "tag"}, puller' # "tag",
           tagged' = Tail(tagged), UNCHANGED <<last, toggles>>,
           DOMAIN job' = DOMAIN job, \A n \in DOMAIN job : job'[n].comment = job[n].comment
    PROVE  Counted'
<1> SUFFICES ASSUME NEW c \in Positive
             PROVE  (Cardinality(JobsOf(c)) + Cardinality(Waiting(c)) <= Passes(c))'
  BY DEF Counted
<1>1. tagged \in Seq(Tagged) /\ tagged # <<>>
  BY DEF TInv, TypeOK, PullerOK, Tagged
<1>2. /\ DOMAIN tagged = 1 .. Len(tagged) /\ Len(tagged) \in Nat
      /\ DOMAIN tagged' = 1 .. Len(tagged) - 1
      /\ \A i \in DOMAIN tagged' : tagged'[i] = tagged[i + 1]
  BY <1>1
<1>3. Waiting(c)' \in SUBSET Nat /\ \A i \in Waiting(c)' : i + 1 \in Waiting(c)
  BY <1>2 DEF Waiting
<1>4. JobsOf(c)' = JobsOf(c) /\ Passes(c)' = Passes(c)
  BY DEF JobsOf, Passes
<1>5. IsFiniteSet(Waiting(c)') /\ Cardinality(Waiting(c)') <= Cardinality(Waiting(c))
  BY <1>3, CountFinite, Shifted DEF TInv
<1>6. Cardinality(Waiting(c)') \in Nat /\ Passes(c) \in Nat
  BY <1>5, FS_CardinalityType DEF Passes, TInv, TypeOK
<1>7. QED
  BY <1>4, <1>5, <1>6, CountFinite DEF Counted, TInv

LEMMA CountWalk == ASSUME TInv, Counted, Walk PROVE Counted'
<1>1. page \in Seq(Seen) /\ page # <<>> /\ tagged \in Seq(Tagged)
  BY DEF Walk, TInv, TypeOK, Seen, Tagged
<1>2. Head(page) \in Seen
  BY <1>1
<1>3. /\ puller = "walk" /\ puller' # "tag" /\ job' = job /\ toggles' = toggles
      /\ last \in Nat /\ toggles \in Nat
  BY DEF Walk, At, jobVars, userVars, TInv, TypeOK
<1>4. CASE UNCHANGED <<last, tagged>>
  BY <1>3, <1>4, CountKept DEF TInv
<1>5. CASE ~UNCHANGED <<last, tagged>>
  <2>1. PICK h : /\ h = Head(page).id /\ h \in Nat /\ h > last /\ last' = h
                 /\ \/ tagged' = tagged
                    \/ tagged' = Append(tagged, Head(page))
    <3>1. Head(page).id \in Nat
      BY <1>2 DEF Seen, Comments
    <3>2. QED
      BY <1>3, <1>5, <3>1 DEF Walk
  <2>2. ASSUME NEW c \in Positive
        PROVE  (Cardinality(JobsOf(c)) + Cardinality(Waiting(c)) <= Passes(c))'
    <3>1. JobsOf(c)' = JobsOf(c)
      BY <1>3 DEF JobsOf
    <3>2. Cardinality(Waiting(c)') <= Cardinality(Waiting(c)) + (IF c = h THEN 1 ELSE 0)
          /\ Cardinality(Waiting(c)') \in Nat
      <4>1. CASE tagged' = tagged
        <5>1. Waiting(c)' = Waiting(c)
          BY <1>3, <4>1 DEF Waiting
        <5>2. QED
          BY <5>1, CountFinite DEF TInv
      <4>2. CASE tagged' = Append(tagged, Head(page))
        <5>1. /\ DOMAIN tagged = 1 .. Len(tagged) /\ Len(tagged) \in Nat
              /\ DOMAIN tagged' = 1 .. Len(tagged) + 1
              /\ tagged'[Len(tagged) + 1] = Head(page)
              /\ \A i \in 1 .. Len(tagged) : tagged'[i] = tagged[i]
          BY <1>1, <4>2
        <5>2. Waiting(c)' = IF c = h THEN Waiting(c) \cup {Len(tagged) + 1} ELSE Waiting(c)
          BY <1>3, <2>1, <5>1 DEF Waiting
        <5>3. IsFiniteSet(Waiting(c)) /\ Cardinality(Waiting(c)) \in Nat
          BY CountFinite DEF TInv
        <5>4. Cardinality(Waiting(c) \cup {Len(tagged) + 1}) \in {Cardinality(Waiting(c)),
                                                                     Cardinality(Waiting(c)) + 1}
          BY <5>3, FS_AddElement
        <5>5. QED
          BY <5>2, <5>3, <5>4
      <4>3. QED
        BY <2>1, <4>1, <4>2
    <3>3. Passes(c)' \in Nat /\ Passes(c)' >= Passes(c) + (IF c = h THEN 1 ELSE 0)
      BY <1>3, <2>1 DEF Passes, Positive
    <3>4. Cardinality(JobsOf(c)) \in Nat /\ Cardinality(Waiting(c)) \in Nat /\ Passes(c) \in Nat
      BY <1>3, CountFinite DEF TInv, Passes
    <3>5. Cardinality(JobsOf(c)) + Cardinality(Waiting(c)) <= Passes(c)
      BY DEF Counted
    <3>6. QED
      BY <3>1, <3>2, <3>3, <3>4, <3>5
  <2>3. QED
    BY <2>2 DEF Counted
<1>6. QED
  BY <1>4, <1>5

\* A tagged comment becomes a job.
LEMMA CountSchedule == ASSUME TInv, Counted, ScheduleJob PROVE Counted'
<1> SUFFICES ASSUME NEW c \in Positive
             PROVE  (Cardinality(JobsOf(c)) + Cardinality(Waiting(c)) <= Passes(c))'
  BY DEF Counted
<1>1. tagged \in Seq(Tagged) /\ tagged # <<>> /\ job \in Seq(Jobs)
  BY DEF ScheduleJob, TInv, TypeOK, PullerOK, Tagged, Jobs
<1>2. PICK j : /\ j = [comment |-> Head(tagged).id, kind |-> Head(tagged).kind,
                       tag |-> FALSE, runs |-> 0]
              /\ job' = Append(job, j)
  BY DEF ScheduleJob
<1>3. /\ DOMAIN job = 1 .. Len(job) /\ Len(job) \in Nat
      /\ DOMAIN job' = 1 .. Len(job) + 1
      /\ job'[Len(job) + 1].comment = tagged[1].id
      /\ \A n \in 1 .. Len(job) : job'[n] = job[n]
  BY <1>1, <1>2
<1>4. /\ puller = "jobs" /\ puller' = "tag" /\ tagged' = tagged
      /\ DOMAIN tagged = 1 .. Len(tagged) /\ 1 \in DOMAIN tagged
      /\ Passes(c)' = Passes(c)
  BY <1>1 DEF ScheduleJob, takeVars, userVars, Passes
<1>5. /\ IsFiniteSet(JobsOf(c)) /\ Cardinality(JobsOf(c)) \in Nat
      /\ IsFiniteSet(Waiting(c)) /\ Cardinality(Waiting(c)) \in Nat
  BY CountFinite DEF TInv
<1>6. Cardinality(JobsOf(c)) + Cardinality(Waiting(c)) <= Passes(c)
  BY DEF Counted
<1>7. CASE tagged[1].id = c
  <2>1. JobsOf(c)' = JobsOf(c) \cup {Len(job) + 1} /\ Len(job) + 1 \notin JobsOf(c)
    BY <1>3, <1>7 DEF JobsOf
  <2>2. Waiting(c)' = Waiting(c) \ {1} /\ 1 \in Waiting(c)
    BY <1>4, <1>7 DEF Waiting
  <2>3. Cardinality(JobsOf(c)') = Cardinality(JobsOf(c)) + 1
    BY <1>5, <2>1, FS_AddElement
  <2>4. Cardinality(Waiting(c)') = Cardinality(Waiting(c)) - 1
    <3>1. Cardinality(Waiting(c) \ {1}) = Cardinality(Waiting(c)) - 1
      BY <1>5, <2>2, FS_RemoveElement, Zenon
    <3>2. QED
      BY <2>2, <3>1
  <2>5. QED
    BY <1>4, <1>5, <1>6, <2>3, <2>4
<1>8. CASE tagged[1].id # c
  <2>1. JobsOf(c)' = JobsOf(c)
    BY <1>3, <1>8 DEF JobsOf
  <2>2. Waiting(c)' = Waiting(c)
    BY <1>4, <1>8 DEF Waiting
  <2>3. QED
    BY <1>4, <1>6, <2>1, <2>2
<1>9. QED
  BY <1>7, <1>8

\* The puller starts from the first comment again.
LEMMA CountToggle ==
    ASSUME TInv, Counted, NEW enable, NEW n, Toggle(enable, n)
    PROVE  Counted'
<1> SUFFICES ASSUME NEW c \in Positive
             PROVE  (Cardinality(JobsOf(c)) + Cardinality(Waiting(c)) <= Passes(c))'
  BY DEF Counted
<1>1. JobsOf(c)' = JobsOf(c) /\ Waiting(c)' = Waiting(c)
  BY DEF Toggle, pullVars, takeVars, jobVars, JobsOf, Waiting
<1>2. Passes(c)' >= Passes(c) /\ Passes(c) \in Nat /\ Passes(c)' \in Nat
  BY DEF Toggle, Passes, Positive, TInv, TypeOK
<1>3. QED
  BY <1>1, <1>2, CountFinite DEF Counted, TInv

\* A job that runs keeps its comment.
LEMMA SameComments ==
    ASSUME TInv, Scheduler
    PROVE  DOMAIN job' = DOMAIN job /\ \A n \in DOMAIN job : job'[n].comment = job[n].comment
<1>1. PICK d \in SUBSET DOMAIN job :
         /\ \A n \in d : job[n].runs < MaxRuns
         /\ Start(d) \/ UNCHANGED job
  <2>1. due \in SUBSET DOMAIN job /\ \A n \in due : job[n].runs < MaxRuns
    BY DEF TInv, TypeOK, DueOK
  <2>2. CASE RunPending
    BY <2>2 DEF RunPending, TInv, TypeOK
  <2>3. CASE Start(due) \/ UNCHANGED job
    BY <2>1, <2>3
  <2>4. QED
    BY <2>2, <2>3
    DEF Scheduler, PrJob, ListDevices, TestJob, JobRaises, MailRaises, TestHangs,
        Finish, Return, Die, jobVars
<1>2. QED
  BY <1>1, StartEffect DEF TInv

LEMMA CountStep == TInv /\ Counted /\ [Next]_vars => Counted'
<1> SUFFICES ASSUME TInv, Counted, [Next]_vars
             PROVE  Counted'
  OBVIOUS
<1> USE DEF TInv
<1>1. CASE UNCHANGED <<pullVars, last, takeVars, jobVars, userVars>>
  BY <1>1, CountKept DEF pullVars, takeVars, jobVars, userVars
<1>2. CASE Pull \/ Refuse
  BY <1>2, CountKept DEF Pull, Refuse, Wakes, At, takeVars, jobVars, userVars
<1>3. CASE GetPrGarbled
  BY <1>3, CountTail DEF GetPrGarbled, At, jobVars, userVars
<1>4. CASE TagJob \/ PostRaises
  <2>1. /\ DOMAIN job' = DOMAIN job /\ \A n \in DOMAIN job : job'[n].comment = job[n].comment
    BY <1>4, TagType DEF TagJob, PostRaises
  <2>2. /\ puller = "tag" /\ puller' # "tag" /\ tagged' = Tail(tagged)
        /\ UNCHANGED <<last, toggles>>
    BY <1>4 DEF TagJob, PostRaises, At, userVars
  <2>3. QED
    BY <2>1, <2>2, CountTail
<1>5. CASE Scheduler
  <2>1. UNCHANGED <<pullVars, last, takeVars, userVars>>
    BY <1>5
    DEF Scheduler, RunPending, PrJob, ListDevices, TestJob, JobRaises, MailRaises, TestHangs
  <2>2. QED
    BY <1>5, <2>1, SameComments, CountKept DEF pullVars, takeVars, userVars
<1>6. ASSUME NEW c \in {0} \cup Comments, CancelJob(c)
      PROVE  Counted'
  BY <1>6, CountKept DEF CancelJob, pullVars, takeVars
<1>7. CASE UNCHANGED vars
  BY <1>1, <1>7 DEF vars
<1>8. QED
  BY <1>1, <1>2, <1>3, <1>4, <1>5, <1>6, <1>7, CountWalk, CountSchedule, CountToggle
  DEF Next, Puller, Comment, Edit, Expire

-----------------------------------------------------------------------------
IInv == TInv /\ OInv /\ Counted

LEMMA RunOnceHolds == IInv => RunOnce
<1> SUFFICES ASSUME IInv
             PROVE  RunOnce
  OBVIOUS
<1>1. ASSUME NEW c \in Comments
      PROVE  Cardinality(JobsOf(c)) <= 1 + toggles
  <2>1. c \in Positive /\ toggles \in Nat
    BY DEF IInv, TInv, TypeOK, Comments, Positive
  <2>2. Cardinality(JobsOf(c)) + Cardinality(Waiting(c)) <= Passes(c) /\ Passes(c) <= 1 + toggles
    BY <2>1 DEF IInv, Counted, Passes
  <2>3. Cardinality(JobsOf(c)) \in Nat /\ Cardinality(Waiting(c)) \in Nat /\ Passes(c) \in Nat
    BY <2>1, CountFinite DEF IInv, TInv, Passes
  <2>4. QED
    BY <2>1, <2>2, <2>3
<1>2. \A n \in DOMAIN job : job[n].runs > 1 => Weekly(n)
  BY DEF IInv, OInv, Spent
<1>3. QED
  BY <1>1, <1>2 DEF RunOnce

\* A comment gets one job, and one more at most for each reset of the puller;
\* a job of a comment runs once, but for the list of devices without a window.
THEOREM RunOnceCorrect == Spec => []RunOnce
<1>1. Init => IInv
  BY TypeInit, OrderInit, CountInit DEF IInv
<1>2. IInv /\ [Next]_vars => IInv'
  BY TypeStep, OrderStep, CountStep DEF IInv
<1>3. QED
  BY <1>1, <1>2, RunOnceHolds, PTL DEF Spec
=============================================================================
