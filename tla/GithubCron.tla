------------------------------- MODULE GithubCron -------------------------------
(***************************************************************************)
(* The GitHub cron: a thread that pulls the comments of a repository       *)
(* (github_cron.py) and schedules a job for every permitted one with a     *)
(* magic tag, the thread that runs the jobs (btptester_cron.py), and the   *)
(* user at the optional window, who cancels jobs and sets the pullers.     *)
(*                                                                         *)
(* A comment is its id; comments get ascending ids, and GitHub lists them  *)
(* by the time of their last edit.  A kind says what the text asks for:    *)
(* "none" is also that of a comment whose author is not permitted.  Clock  *)
(* times are left out: any part of the comments may be older than the pull *)
(* offset, and any job may be due, but a job is not due before the ones    *)
(* of the same kind that were scheduled before it.                         *)
(***************************************************************************)
EXTENDS Naturals, Sequences, FiniteSets

CONSTANTS
    MaxComments,  \* bound: users write none with a higher id
    MaxListed,    \* bound: the cron's own with a higher id are not listed
    MaxEvents,    \* bound: edits, what the user does, and failures
    MaxRuns,      \* bound: weekly runs of one job
    PerPage       \* per_page

ASSUME BoundsAssumption ==
    /\ {MaxComments, MaxListed, MaxEvents} \subseteq Nat
    /\ {MaxRuns, PerPage} \subseteq Nat \ {0}

VARIABLES
    \* GitHub
    kinds,        \* what each comment asks for
    order,        \* the comments, by the time of their last edit
    old,          \* how many of them are older than pull_time_offset
    edited,       \* history: comments that were edited
    seen,         \* history: comments that were on a pulled page
    missed,       \* history: comments too old before they ever were
    \* the puller
    puller,       \* where its thread is
    enabled,      \* self.enabled
    last,         \* self.last_comment_id
    page,         \* comments still to be looked at
    tagged,       \* tagged_comments still to be scheduled
    garbled,      \* history: comments whose pull request came as no JSON
    refused,      \* history: an error object of GitHub, or no token, ended the puller
    \* the schedule
    job,          \* every job there ever was
    jobs,         \* schedule.jobs, which has them in the order of their numbers
    sched,        \* whether the thread of run_pending() lives, hangs or is dead
    current,      \* the job it is running, or 0
    due,          \* those to be run after it
    untagged,     \* history: a job was found before it had its tag
    unmailed,     \* history: a failed job's mail could not be sent
    \* the user
    gui,          \* args.gui
    toggles,      \* uses of the check button
    cancelled,    \* comments whose job was cancelled
    hit,          \* history: one was cancelled that was about to run, or running
    events        \* edits, cancels, toggles and failures so far

githubVars == <<kinds, order, old, edited, missed>>
pullVars == <<puller, page, seen, refused>>
takeVars == <<tagged, garbled>>
schedVars == <<sched, current, due, untagged, unmailed>>
jobVars == <<job, jobs>>
userVars == <<gui, toggles, cancelled, hit>>
vars == <<githubVars, pullVars, enabled, last, takeVars, schedVars, jobVars, userVars, events>>

Kinds == {"run", "devices", "none"}
JobKinds == {"run", "devices", "cyclical"}

\* A job of config.cyclical_jobs, in its second week.  Those of pull requests
\* are named by their comment, so two jobs for one comment have one name.
Cyclical == [comment |-> 0, kind |-> "cyclical", tag |-> TRUE, runs |-> 1]

Comments == 1 .. Len(kinds)
\* What GitHub says of a comment now.
Reported(c) == [id |-> c, kind |-> kinds[c]]

Lowest(numbers) == CHOOSE n \in numbers : \A k \in numbers : n <= k

Init ==
    /\ kinds = <<>> /\ order = <<>> /\ old = 0
    /\ edited = {} /\ seen = {} /\ missed = {}
    /\ puller = "sleep" /\ enabled = TRUE /\ last = 0
    /\ page = <<>> /\ tagged = <<>> /\ garbled = {} /\ refused = FALSE
    /\ job = <<Cyclical>> /\ jobs = {1}
    /\ sched = "live" /\ current = 0 /\ due = {} /\ untagged = FALSE /\ unmailed = FALSE
    /\ gui \in BOOLEAN
    /\ toggles = 0 /\ cancelled = {} /\ hit = FALSE /\ events = 0

-----------------------------------------------------------------------------
\* GitHub, and what happens to it.

Event == events < MaxEvents /\ events' = events + 1

Posted(k) ==
    /\ kinds' = Append(kinds, k)
    /\ order' = Append(order, Len(kinds) + 1)

\* post_pr_comment(): the cron's own comments have no magic tag.
PostPrComment ==
    /\ IF Len(kinds) < MaxListed THEN Posted("none") ELSE UNCHANGED <<kinds, order>>
    /\ UNCHANGED <<old, edited, missed>>

Comment(k) ==
    /\ Len(kinds) < MaxComments
    /\ Posted(k)
    /\ UNCHANGED <<old, edited, missed, pullVars, enabled, last, takeVars,
                   schedVars, jobVars, userVars, events>>

\* An edit takes a comment to the end of the list, and back from the old ones.
Edit(c, k) ==
    /\ Event
    /\ kinds' = [kinds EXCEPT ![c] = k]
    /\ \E i \in DOMAIN order :
          /\ order[i] = c
          /\ order' = [j \in DOMAIN order |-> IF j < i THEN order[j]
                                            ELSE IF j < Len(order) THEN order[j + 1] ELSE c]
          /\ old' = IF i <= old THEN old - 1 ELSE old
    /\ edited' = edited \cup {c}
    /\ UNCHANGED <<missed, pullVars, enabled, last, takeVars, schedVars, jobVars, userVars>>

\* The first n comments get too old to be listed.
Aged(n) ==
    /\ old' = n
    /\ missed' = missed \cup ({order[i] : i \in 1 .. n} \ seen)

Expire ==
    /\ old < Len(order)
    /\ Aged(old + 1)
    /\ UNCHANGED <<kinds, order, edited, pullVars, enabled, last, takeVars,
                   schedVars, jobVars, userVars, events>>

-----------------------------------------------------------------------------
\* The puller.

\* Where run() is with comments p to look at and t to schedule.
At(p, t) == IF p # <<>> THEN "walk" ELSE IF t # <<>> THEN "jobs" ELSE "sleep"

\* Without a window the scheduler is the main thread, whose end is the pullers'.
Wakes == puller = "sleep" /\ enabled /\ (gui \/ sched # "dead")

\* get_pr_comments_with_magic_tag() up to its loop.  A reply that is no JSON
\* counts as no comments, which changes nothing.
Pull ==
    /\ Wakes
    /\ LET listed == {i \in 1 .. PerPage : old + i \in DOMAIN order} IN
       /\ page' = [i \in listed |-> Reported(order[old + i])]
       /\ seen' = seen \cup {order[old + i] : i \in listed}
    /\ puller' = At(page', tagged)
    /\ UNCHANGED <<githubVars, refused, enabled, last, takeVars, schedVars, jobVars, userVars, events>>

\* Mutant: comments no newer than the last one are looked at again.
WalkRepeats ==
    /\ puller = "walk" /\ page # <<>>
    /\ page' = Tail(page)
    /\ LET c == Head(page) IN
       IF c.id < last
       THEN UNCHANGED <<last, tagged>>
       ELSE /\ last' = c.id
            /\ tagged' = IF c.kind # "none" THEN Append(tagged, c) ELSE tagged
    /\ puller' = At(page', tagged')
    /\ UNCHANGED <<githubVars, seen, refused, enabled, garbled, schedVars, jobVars, userVars, events>>

\* Mutant: a comment without a magic tag is taken along.
WalkUntagged ==
    /\ puller = "walk" /\ page # <<>>
    /\ page' = Tail(page)
    /\ LET c == Head(page) IN
       IF c.id <= last
       THEN UNCHANGED <<last, tagged>>
       ELSE /\ last' = c.id
            /\ tagged' = Append(tagged, c)
    /\ puller' = At(page', tagged')
    /\ UNCHANGED <<githubVars, seen, refused, enabled, garbled, schedVars, jobVars, userVars, events>>

\* A turn of the loop over the comments.
Walk ==
    /\ puller = "walk" /\ page # <<>>
    /\ page' = Tail(page)
    /\ LET c == Head(page) IN
       IF c.id <= last
       THEN UNCHANGED <<last, tagged>>
       ELSE /\ last' = c.id
            /\ tagged' = IF c.kind # "none" THEN Append(tagged, c) ELSE tagged
    /\ puller' = At(page', tagged')
    /\ UNCHANGED <<githubVars, seen, refused, enabled, garbled, schedVars, jobVars, userVars, events>>

\* Mutant: a reply that is no JSON ends the loop over the tagged comments.
GarbledBreaks ==
    /\ Event
    /\ puller = "jobs"
    /\ garbled' = garbled \cup {Head(tagged).id}
    /\ tagged' = <<>>
    /\ puller' = At(page, tagged')
    /\ UNCHANGED <<githubVars, page, seen, refused, enabled, last, schedVars, jobVars, userVars>>

\* The pull request of the next tagged comment comes as no JSON: continue.
GetPrGarbled ==
    /\ Event
    /\ puller = "jobs"
    /\ garbled' = garbled \cup {Head(tagged).id}
    /\ tagged' = Tail(tagged)
    /\ puller' = At(page, tagged')
    /\ UNCHANGED <<githubVars, page, seen, refused, enabled, last, schedVars, jobVars, userVars>>

\* GitHub answers a request with an error object, of which the puller takes a
\* field that it does not have: its thread ends.
Refuse ==
    /\ Event
    /\ Wakes \/ puller = "jobs"
    /\ puller' = "dead" /\ refused' = TRUE
    /\ UNCHANGED <<githubVars, page, seen, enabled, last, takeVars, schedVars, jobVars, userVars>>

\* It comes, and schedule_pr_job() goes up to do(), which puts the job on the list.
ScheduleJob ==
    /\ puller = "jobs"
    /\ LET c == Head(tagged) IN
       job' = Append(job, [comment |-> c.id, kind |-> c.kind, tag |-> FALSE, runs |-> 0])
    /\ jobs' = jobs \cup {Len(job')}
    /\ puller' = "tag"
    /\ UNCHANGED <<githubVars, page, seen, refused, enabled, last, takeVars, schedVars, userVars, events>>

\* tag() gives it its name; then a comment says when the job will run.
TagJob ==
    /\ puller = "tag"
    /\ job' = [job EXCEPT ![Len(job)].tag = TRUE]
    /\ PostPrComment
    /\ tagged' = Tail(tagged)
    /\ puller' = At(page, tagged')
    /\ UNCHANGED <<page, seen, refused, enabled, last, garbled, jobs, schedVars, userVars, events>>

\* Without an access token that comment cannot be posted: check_token() raises,
\* and the thread ends with the job on the list.
PostRaises ==
    /\ Event
    /\ puller = "tag"
    /\ job' = [job EXCEPT ![Len(job)].tag = TRUE]
    /\ tagged' = Tail(tagged)
    /\ puller' = "dead" /\ refused' = TRUE
    /\ UNCHANGED <<githubVars, page, seen, enabled, last, garbled, jobs, schedVars, userVars>>

Puller ==
    \/ Pull \/ Walk \/ ScheduleJob \/ GetPrGarbled \/ TagJob \/ PostRaises \/ Refuse

-----------------------------------------------------------------------------
\* The thread of run_pending(): the window's own, or the main one without it.

\* schedule.get_jobs(job_name)
GetJobs(c) == {n \in jobs : job[n].tag /\ job[n].comment = c}

Fresh(n) == job[n].kind # "cyclical" /\ job[n].runs = 0

\* The thread goes on to a job of d, or ends its turn with none.
Start(d) ==
    \/ d = {} /\ current' = 0 /\ due' = {} /\ UNCHANGED job
    \/ \E n \in d :
          /\ \A k \in d : Fresh(n) /\ Fresh(k) => n <= k
          /\ current' = n
          /\ due' = d \ {n}
          /\ job' = [job EXCEPT ![n].runs = @ + 1]

\* run_pending(): the jobs that are due, in order.  A job of a pull request is
\* scheduled ten seconds ahead, so it has its tag by then.
RunPending ==
    /\ sched = "live" /\ current = 0
    /\ \E d \in SUBSET {n \in jobs : job[n].tag /\ job[n].runs < MaxRuns} :
          /\ d # {}
          /\ \A n \in d, k \in jobs : Fresh(n) /\ Fresh(k) /\ k < n => k \in d
          /\ Start(d)
    /\ UNCHANGED <<githubVars, pullVars, enabled, last, takeVars, sched, untagged, unmailed,
                   jobs, userVars, events>>

Running(kind) == sched = "live" /\ current # 0 /\ job[current].kind = kind

\* An exception that nobody catches ends the thread.
Die == sched' = "dead" /\ UNCHANGED <<current, due, job>>

\* _run_job() takes a job that returned CancelJob off the list.
Return(list, result) ==
    /\ jobs' = IF result = "CancelJob" THEN list \ {current} ELSE list
    /\ Start(due)
    /\ UNCHANGED <<sched, untagged>>

\* pr_job_finish_wrapper(): with a window it cancels the first job of its name,
\* where the index raises if none is left; then cron_gui_update_job_list()
\* takes the first tag of every job.
Finish(result) ==
    LET own == GetJobs(job[current].comment)
        left == jobs \ {Lowest(own)}
    IN  IF ~gui THEN Return(jobs, result)
        ELSE IF own = {} THEN Die /\ UNCHANGED <<jobs, untagged>>
        ELSE IF \A n \in left : job[n].tag THEN Return(left, result)
        ELSE Die /\ jobs' = left /\ untagged' = TRUE

\* generic_pr_job() posts its results, or that it could not merge.
PrJob ==
    /\ Running("run")
    /\ PostPrComment
    /\ Finish("CancelJob")
    /\ UNCHANGED <<pullVars, enabled, last, takeVars, unmailed, userVars, events>>

\* list_available_devices() posts them and returns nothing.
ListDevices ==
    /\ Running("devices")
    /\ PostPrComment
    /\ Finish("None")
    /\ UNCHANGED <<pullVars, enabled, last, takeVars, unmailed, userVars, events>>

\* generic_test_job(), which is not wrapped.
TestJob ==
    /\ Running("cyclical")
    /\ Return(jobs, "None")
    /\ UNCHANGED <<githubVars, pullVars, enabled, last, takeVars, unmailed, userVars, events>>

\* Any of them raises, and catch_exceptions() sends a mail of it.
JobRaises ==
    /\ \/ (Running("run") \/ Running("devices")) /\ Finish("CancelJob")
       \/ Running("cyclical") /\ Return(jobs, "CancelJob")
    /\ UNCHANGED <<githubVars, pullVars, enabled, last, takeVars, unmailed, userVars, events>>

\* Or it cannot send it, and that exception leaves run_pending().
MailRaises ==
    /\ Event
    /\ \E kind \in JobKinds : Running(kind)
    /\ Die
    /\ unmailed' = TRUE
    /\ UNCHANGED <<githubVars, pullVars, enabled, last, takeVars, untagged, jobs, userVars>>

\* run_test() waits for btptester.py however long that takes.
TestHangs ==
    /\ Event
    /\ Running("run") \/ Running("cyclical")
    /\ sched' = "hung"
    /\ UNCHANGED <<githubVars, pullVars, enabled, last, takeVars, current, due, untagged, unmailed,
                   jobVars, userVars>>

Scheduler ==
    \/ RunPending \/ PrJob \/ ListDevices \/ TestJob \/ JobRaises \/ MailRaises \/ TestHangs

-----------------------------------------------------------------------------
\* The user.

\* cancel_job(): the first job of the name.  What the window shows may be out
\* of date; a name that is gone raises in the window's callback only.
CancelJob(c) ==
    /\ Event
    /\ gui
    /\ GetJobs(c) # {}
    /\ jobs' = jobs \ {Lowest(GetJobs(c))}
    /\ cancelled' = cancelled \cup {c}
    /\ hit' = (hit \/ (c # 0 /\ \E n \in due \cup ({current} \ {0}) : job[n].comment = c))
    /\ UNCHANGED <<githubVars, pullVars, enabled, last, takeVars, job, schedVars, gui, toggles>>

\* cron_puller_toggled() and set_pull_time_offset(), of any length.
Toggle(enable, n) ==
    /\ Event
    /\ gui
    /\ Aged(n)
    /\ last' = 0
    /\ enabled' = enable
    /\ toggles' = toggles + 1
    /\ UNCHANGED <<kinds, order, edited, pullVars, takeVars, schedVars, jobVars,
                   gui, cancelled, hit>>

-----------------------------------------------------------------------------
Next ==
    \/ \E k \in Kinds : Comment(k)
    \/ \E c \in Comments, k \in Kinds : Edit(c, k)
    \/ Expire
    \/ Puller
    \/ Scheduler
    \/ \E c \in {0} \cup Comments : CancelJob(c)
    \/ \E enable \in BOOLEAN, n \in 0 .. Len(order) : Toggle(enable, n)

Spec == Init /\ [][Next]_vars

(***************************************************************************)
(* Threads go on, GitHub answers a request sooner or later, time passes, a *)
(* job that is on the list becomes due, and one that has begun ends or is  *)
(* known to hang.  Nobody need write, edit, cancel or toggle.              *)
(***************************************************************************)
FairSpec ==
    /\ Spec
    /\ WF_vars(Puller)
    /\ WF_vars(Scheduler)
    /\ WF_vars(Expire)

-----------------------------------------------------------------------------
\* Type invariant.
TypeOK ==
    /\ kinds \in Seq(Kinds) /\ order \in Seq(Comments) /\ old \in 0 .. Len(order)
    /\ edited \cup seen \cup missed \cup garbled \subseteq Comments
    /\ puller \in {"sleep", "walk", "jobs", "tag", "dead"}
    /\ last \in 0 .. Len(kinds)
    /\ page \in Seq([id : Comments, kind : Kinds])
    /\ tagged \in Seq([id : Comments, kind : Kinds \ {"none"}])
    /\ job \in Seq([comment : 0 .. Len(kinds), kind : JobKinds,
                     tag : BOOLEAN, runs : 0 .. MaxRuns])
    /\ jobs \subseteq DOMAIN job /\ due \subseteq DOMAIN job /\ current \in {0} \cup DOMAIN job
    /\ sched \in {"live", "hung", "dead"}
    /\ {enabled, refused, untagged, unmailed, gui, hit} \subseteq BOOLEAN
    /\ toggles \in 0 .. events /\ events \in 0 .. MaxEvents
    /\ cancelled \subseteq {0} \cup Comments

Weekly(n) == job[n].kind = "cyclical" \/ (job[n].kind = "devices" /\ ~gui)
JobsOf(c) == {n \in DOMAIN job : job[n].comment = c}

\* A comment gets one job, and one more at most each time the user has reset
\* last_comment_id; and a job of a comment runs once, except that the list of
\* devices runs every week when there is no window (common.py:404-421).
RunOnce ==
    /\ \A c \in Comments : Cardinality(JobsOf(c)) <= 1 + toggles
    /\ \A n \in DOMAIN job : job[n].runs > 1 => Weekly(n)

Ran(c) == \E n \in DOMAIN job : job[n].comment = c /\ job[n].runs > 0

\* What keeps a comment from its job: an edit, by which it may come after one
\* with a higher id; more comments than a page holds, until it is too old; an
\* answer of GitHub that is none, or no token to post a comment with; the user;
\* a job before it that hangs, or ends the thread: for the mail, for a job
\* cancelled as it ran, for one that was looked at between do() and tag().
Excused(c) ==
    \/ c \in edited \cup missed \cup garbled \cup cancelled
    \/ refused \/ unmailed \/ hit \/ untagged \/ sched = "hung"

\* Unless one of these happens every permitted comment with a magic tag gets
\* its job, and the job runs; resetting the puller loses none.
CommentRuns ==
    \A c \in 1 .. MaxComments :
        (c \in Comments /\ kinds[c] # "none") ~> (Ran(c) \/ Excused(c))

=============================================================================
