----------------------------- MODULE Moderation -----------------------------
(***************************************************************************)
(* The issue-moderation workflows of .github/workflows/moderate-*.yml and  *)
(* the scripts they call, for one bug report (a feature request takes the  *)
(* same code with other label names).  Triage, the worker that runs Claude *)
(* on a confirmed report and the clean-up of a closed one share a          *)
(* concurrency group; the apply workflow, which pushes, opens the PR and   *)
(* relabels, is outside of it.                                             *)
(*                                                                         *)
(* GitHub is external: a group has one running and one pending run, and a  *)
(* run that is queued cancels the one that was pending.  The bug and the   *)
(* feature workflows both start on every issue event and comment, in the   *)
(* same group, so each event queues two runs, one of which skips its job.  *)
(* What Claude does is a choice among what its prompts ask for and the     *)
(* failures of the step.  Any command of a script may fail, and any job    *)
(* time out, which comes to the same: the run ends where it is.            *)
(***************************************************************************)
EXTENDS Naturals, Sequences, FiniteSets

CONSTANTS
    MaxComments,    \* bound on the comments people write
    MaxCloses,      \* bound on the times the issue is closed
    MaxCommits      \* bound on the commits pushed to the issue's branch

ASSUME BoundsAssumption == MaxComments \in Nat /\ MaxCloses \in Nat /\ MaxCommits \in Nat

VARIABLES
    open,       \* the issue is open
    labels,     \* its stage labels
    branch,     \* the tip of bug/<n>-repro at origin, 0 if it does not exist
    commits,    \* every commit ever pushed to it, in order
    pr,         \* the newest pull request of the branch
    running,    \* the run of the group in progress
    pending,    \* the run of the group that waits
    applies,    \* the runs of the apply workflow
    comments,   \* comments so far
    closes,     \* closings so far
    orderly,    \* history: no event has cut into the handling of another
    failed      \* history: what has been left half done by a command that failed

vars == <<open, labels, branch, commits, pr, running, pending, applies,
          comments, closes, orderly, failed>>

StageLabels == {"needs-info", "repro-ready", "confirmed", "fixed", "needs-human"}

Outcomes == {"built", "needs-human", "failed"}

Shas == 0..MaxCommits

\* confirmed: what the branch held when the reporter wrote /confirm (history).
Commit == [kind : {"repro", "fix"}, parent : Shas, confirmed : Shas]

Run == [job : {"triage", "worker", "cleanup", "skipped", "none"},
        step : {"reset", "close_pr", "delete_branch", "claude", "label", "gate", "end"},
        sha : Shas, confirmed : Shas]

Starting(job, step) == [job |-> job, step |-> step, sha |-> 0, confirmed |-> 0]

NoRun == Starting("none", "end")

\* A workflow whose `if` is false for this event: its gate runs and that is all.
Skipped == Starting("skipped", "end")

ApplyRun == [outcome : Outcomes, base : Shas, confirmed : Shas,
             step : {"check", "relabel", "push", "create_pr", "done_label", "comment",
                     "finished", "aborted"}]

TypeOK ==
    /\ open \in BOOLEAN
    /\ labels \in SUBSET StageLabels
    /\ branch \in Shas
    /\ commits \in Seq(Commit) /\ Len(commits) <= MaxCommits
    /\ pr \in {"none", "open", "closed", "merged"}
    /\ running \in Run
    /\ pending \in Run
    /\ applies \in Seq(ApplyRun) /\ Len(applies) <= MaxComments
    /\ comments \in 0..MaxComments
    /\ closes \in 0..MaxCloses
    /\ orderly \in BOOLEAN
    /\ failed \subseteq {"apply", "cleanup"}

Ended(a) == applies[a].step \in {"finished", "aborted"}

Idle == running = NoRun /\ \A a \in DOMAIN applies : Ended(a)

\* The issue has just been opened: both triage workflows are in the group.
Init ==
    /\ open = TRUE
    /\ labels = {} /\ branch = 0 /\ commits = <<>> /\ pr = "none"
    /\ \/ running = Starting("triage", "claude") /\ pending = Skipped
       \/ running = Skipped /\ pending = Starting("triage", "claude")
    /\ applies = <<>>
    /\ comments = 0 /\ closes = 0
    /\ orderly = TRUE /\ failed = {}

-----------------------------------------------------------------------------
(***************************************************************************)
(* The concurrency group.                                                  *)
(***************************************************************************)

\* One workflow starts on the event.
Queue(run) ==
    IF running = NoRun THEN running' = run /\ UNCHANGED pending
                       ELSE pending' = run /\ UNCHANGED running

\* The bug and the feature workflow start on it, in either order.
QueueBoth(run, other) ==
    IF running = NoRun
    THEN \E p \in {<<run, other>>, <<other, run>>} : running' = p[1] /\ pending' = p[2]
    ELSE pending' \in {run, other} /\ UNCHANGED running

\* The running job ends; the pending run takes its place.
Leave == running' = pending /\ pending' = NoRun

Continue(step) == running' = [running EXCEPT !.step = step] /\ UNCHANGED pending

-----------------------------------------------------------------------------
(***************************************************************************)
(* People.                                                                 *)
(***************************************************************************)

\* A comment: /confirm by the reporter, or anything else.  The worker's `if`
\* reads the labels of the event, not those of the moment it runs.
Comment(confirm) ==
    /\ comments < MaxComments
    /\ comments' = comments + 1
    /\ QueueBoth(IF confirm /\ "repro-ready" \in labels
                 THEN [Starting("worker", "gate") EXCEPT !.confirmed = branch]
                 ELSE Skipped, Skipped)
    /\ orderly' = (orderly /\ running.job # "triage" /\ pending.job \notin {"triage", "cleanup"})
    /\ UNCHANGED <<open, labels, branch, commits, pr, applies, closes, failed>>

\* A person closes the issue, by hand or by merging the PR that fixes it.
Close(merge) ==
    /\ open /\ closes < MaxCloses
    /\ merge => pr = "open"
    /\ open' = FALSE
    /\ closes' = closes + 1
    /\ pr' = IF merge THEN "merged" ELSE pr
    /\ Queue(Starting("cleanup", "close_pr"))
    /\ orderly' = (orderly /\ Idle)
    /\ UNCHANGED <<labels, branch, commits, applies, comments, failed>>

Reopen ==
    /\ ~open
    /\ open' = TRUE
    /\ QueueBoth(Starting("triage", "reset"), Skipped)
    /\ orderly' = (orderly /\ Idle)
    /\ UNCHANGED <<labels, branch, commits, pr, applies, comments, closes, failed>>

-----------------------------------------------------------------------------
(***************************************************************************)
(* The runs of the group.                                                  *)
(***************************************************************************)

At(job, step) == running.job = job /\ running.step = step

SkippedRun ==
    /\ running.job = "skipped"
    /\ Leave
    /\ UNCHANGED <<open, labels, branch, commits, pr, applies, comments, closes, orderly, failed>>

\* Slip: needs-human is not in the list of stage labels.
ResetSomeLabels ==
    /\ At("triage", "reset")
    /\ labels' = labels \cap {"needs-human"}
    /\ Continue("close_pr")
    /\ UNCHANGED <<open, branch, commits, pr, applies, comments, closes, orderly, failed>>

\* reset_issue_state.sh, on a reopened issue only: strip the stage labels, one
\* by one; `|| true` lets a removal fail and the rest go on.
Reset ==
    /\ At("triage", "reset")
    /\ labels' \in SUBSET labels
    /\ failed' = IF labels' = {} THEN failed ELSE failed \cup {"cleanup"}
    /\ Continue("close_pr")
    /\ UNCHANGED <<open, branch, commits, pr, applies, comments, closes, orderly>>

\* moderate_cleanup.sh: close the branch's newest PR if it is open...  (A branch
\* without any PR makes the script look for one by its text instead, which may
\* be another person's: left out.)
ClosePR ==
    /\ running.step = "close_pr"
    /\ pr' = IF pr = "open" THEN "closed" ELSE pr
    /\ Continue("delete_branch")
    /\ UNCHANGED <<open, labels, branch, commits, applies, comments, closes, orderly, failed>>

\* ...and delete the branch.  GitHub closes a PR whose branch goes.
DeleteBranch ==
    /\ running.step = "delete_branch"
    /\ branch' = 0
    /\ pr' = IF pr = "open" THEN "closed" ELSE pr
    /\ IF running.job = "cleanup" THEN Leave ELSE Continue("claude")
    /\ UNCHANGED <<open, labels, commits, applies, comments, closes, orderly, failed>>

\* A command of theirs fails, or the job times out: the rest is not done.
CleanupFails ==
    /\ running.step \in {"reset", "close_pr", "delete_branch"}
    /\ failed' = failed \cup {"cleanup"}
    /\ Leave
    /\ UNCHANGED <<open, labels, branch, commits, pr, applies, comments, closes, orderly>>

\* The triage prompt: ask for information, give up, or push a failing test;
\* or the step fails or times out.  A push onto a branch that exists is
\* refused.
TriageEnds ==
    /\ At("triage", "claude")
    /\ \/ labels' = labels \cup {"needs-info"}
       \/ labels' = labels \cup {"needs-human"}
       \/ UNCHANGED labels
    /\ Leave
    /\ UNCHANGED <<open, branch, commits, pr, applies, comments, closes, orderly, failed>>

Push(kind, parent, confirmed) ==
    /\ Len(commits) < MaxCommits
    /\ commits' = Append(commits, [kind |-> kind, parent |-> parent, confirmed |-> confirmed])
    /\ branch' = Len(commits) + 1

TriagePushes ==
    /\ At("triage", "claude")
    /\ branch = 0
    /\ Push("repro", 0, 0)
    /\ Continue("label")
    /\ UNCHANGED <<open, labels, pr, applies, comments, closes, orderly, failed>>

TriageLabels ==
    /\ At("triage", "label")
    /\ labels' \in {labels \cup {"repro-ready"}, labels}
    /\ Leave
    /\ UNCHANGED <<open, branch, commits, pr, applies, comments, closes, orderly, failed>>

\* The gate job pins the tip of the branch for the rest of the run.
WorkerGate ==
    /\ At("worker", "gate")
    /\ running' = [running EXCEPT !.step = "claude", !.sha = branch]
    /\ UNCHANGED <<pending, open, labels, branch, commits, pr, applies, comments, closes, orderly, failed>>

\* Slip: the patch is taken against main, so that a run without a base has one.
PackagedAgainstMain(base) == Outcomes

\* moderate_package_result.sh: commits above the base are a build, else the
\* explanation file says needs-human, else the run failed.  Without a base
\* `git log ..HEAD` is empty.
Packaged(base) == IF base = 0 THEN Outcomes \ {"built"} ELSE Outcomes

\* The worker succeeds, and its completion starts an apply run.
WorkerSucceeds ==
    /\ At("worker", "claude")
    /\ \E outcome \in Packaged(running.sha) :
          applies' = Append(applies, [outcome |-> outcome, base |-> running.sha,
                                      confirmed |-> running.confirmed, step |-> "check"])
    /\ Leave
    /\ UNCHANGED <<open, labels, branch, commits, pr, comments, closes, orderly, failed>>

\* Its gate fails, or Claude's step fails or times out: the artifact is uploaded
\* all the same, and the apply job, whose `if` asks for a successful run, is
\* skipped.
WorkerFails ==
    /\ running.job = "worker"
    /\ Leave
    /\ UNCHANGED <<open, labels, branch, commits, pr, applies, comments, closes, orderly, failed>>

GroupStep ==
    \/ SkippedRun \/ Reset \/ ClosePR \/ DeleteBranch \/ CleanupFails
    \/ TriageEnds \/ TriagePushes \/ TriageLabels
    \/ WorkerGate \/ WorkerSucceeds \/ WorkerFails

-----------------------------------------------------------------------------
(***************************************************************************)
(* moderate_apply_result.sh, under set -e: a command that fails ends it.   *)
(***************************************************************************)
ApplyAt(a, step) == a \in DOMAIN applies /\ applies[a].step = step

Goto(a, step) == applies' = [applies EXCEPT ![a].step = step]

\* What no command of the script touches.
Around == UNCHANGED <<running, pending, open, comments, closes, orderly>>

GroupUnchanged == Around /\ UNCHANGED failed

\* Slip: the label is not looked at again.
UncheckedReady(a) ==
    /\ ApplyAt(a, "check")
    /\ Goto(a, "relabel")
    /\ GroupUnchanged /\ UNCHANGED <<labels, branch, commits, pr>>

CheckReady(a) ==
    /\ ApplyAt(a, "check")
    /\ Goto(a, IF "repro-ready" \in labels THEN "relabel" ELSE "finished")
    /\ GroupUnchanged /\ UNCHANGED <<labels, branch, commits, pr>>

Relabel(a) ==
    /\ ApplyAt(a, "relabel")
    /\ labels' = (labels \ {"repro-ready"}) \cup {"confirmed"}
    /\ Goto(a, IF applies[a].outcome = "built" THEN "push" ELSE "comment")
    /\ GroupUnchanged /\ UNCHANGED <<branch, commits, pr>>

\* Slip: git push --force.
PushBuildForced(a) ==
    /\ ApplyAt(a, "push")
    /\ Push("fix", applies[a].base, applies[a].confirmed)
    /\ Goto(a, "create_pr")
    /\ GroupUnchanged /\ UNCHANGED <<labels, pr>>

\* checkout -B at the pinned base, git am, git push: refused unless the branch
\* is gone or still at the base.
PushBuild(a) ==
    /\ ApplyAt(a, "push")
    /\ \/ /\ branch \in {0, applies[a].base}
          /\ Push("fix", applies[a].base, applies[a].confirmed)
          /\ Goto(a, "create_pr")
       \/ /\ branch \notin {0, applies[a].base}
          /\ Goto(a, "aborted")
          /\ UNCHANGED <<branch, commits>>
    /\ GroupUnchanged /\ UNCHANGED <<labels, pr>>

\* gh pr create fails for a branch that is gone or has an open PR.
CreatePR(a) ==
    /\ ApplyAt(a, "create_pr")
    /\ \/ /\ branch # 0 /\ pr # "open"
          /\ pr' = "open"
          /\ Goto(a, "done_label")
       \/ /\ branch = 0 \/ pr = "open"
          /\ Goto(a, "aborted")
          /\ UNCHANGED pr
    /\ GroupUnchanged /\ UNCHANGED <<labels, branch, commits>>

MarkFixed(a) ==
    /\ ApplyAt(a, "done_label")
    /\ labels' = (labels \ {"confirmed"}) \cup {"fixed"}
    /\ Goto(a, "finished")
    /\ GroupUnchanged /\ UNCHANGED <<branch, commits, pr>>

\* Slip: the explanation is posted, and the label forgotten.
CommentOnly(a) ==
    /\ ApplyAt(a, "comment")
    /\ Goto(a, "finished")
    /\ GroupUnchanged /\ UNCHANGED <<labels, branch, commits, pr>>

CommentAndHandOver(a) ==
    /\ ApplyAt(a, "comment")
    /\ labels' = labels \cup {"needs-human"}
    /\ Goto(a, "finished")
    /\ GroupUnchanged /\ UNCHANGED <<branch, commits, pr>>

\* Any command of the job fails, for whatever reason (a push the token may not
\* make, an error of the API), or its five minutes are over.  Once the issue has
\* been relabelled nobody else takes it up.
CommandFails(a) ==
    /\ a \in DOMAIN applies /\ ~Ended(a)
    /\ failed' = IF applies[a].step \in {"check", "relabel"} THEN failed ELSE failed \cup {"apply"}
    /\ Goto(a, "aborted")
    /\ Around /\ UNCHANGED <<labels, branch, commits, pr>>

Apply(a) ==
    \/ CheckReady(a) \/ Relabel(a) \/ PushBuild(a) \/ CreatePR(a)
    \/ MarkFixed(a) \/ CommentAndHandOver(a) \/ CommandFails(a)

Next ==
    \/ \E confirm \in BOOLEAN : Comment(confirm)
    \/ \E merge \in BOOLEAN : Close(merge)
    \/ Reopen
    \/ GroupStep
    \/ \E a \in 1..MaxComments : Apply(a)

\* Runners pick up what is queued, and every job has a timeout: a run ends, well
\* or (CleanupFails, WorkerFails, CommandFails) badly.  People owe nothing.
Fairness == WF_vars(GroupStep) /\ \A a \in 1..MaxComments : WF_vars(Apply(a))

Spec == Init /\ [][Next]_vars /\ Fairness

-----------------------------------------------------------------------------
(***************************************************************************)
(* Properties.  Three of them hold as long as events leave each other time *)
(* (orderly), or, for the builds, while nobody closes the issue: the       *)
(* configurations named at the end show what happens otherwise.            *)
(***************************************************************************)
Fixes == {k \in DOMAIN commits : commits[k].kind = "fix"}

Undisturbed == orderly \/ closes = 0

\* A reporter may confirm as often as he likes: one reproduction is built upon
\* once, because the base is pinned, the label looked at again and the push not
\* forced (moderate_apply_result.sh: "No-op rather than double-push").
OneBuildPerRepro ==
    Undisturbed => \A k, l \in Fixes : commits[k].parent = commits[l].parent => k = l

\* What is built upon is the very reproduction the reporter was shown when he
\* wrote /confirm, and no other build (workflows/README.md: "asks the reporter
\* to confirm before a second stage fixes it").
BuiltWasConfirmed ==
    Undisturbed => \A k \in Fixes : /\ commits[k].confirmed = commits[k].parent
                                    /\ commits[commits[k].parent].kind = "repro"

\* Once everything has come to rest a closed issue has neither a branch nor an
\* open PR, whatever people commented on it since and however the run that built
\* ended, unless a clean-up itself has failed (moderate-cleanup.yml).
RestsClean == ~open /\ Idle => branch = 0 /\ pr # "open"
ClosedIsClean == orderly /\ "cleanup" \notin failed => RestsClean

\* Triage starts from the bare issue and, at rest, a label that asks for a
\* confirmation comes with the branch to look at, unless a clean-up has failed
\* (workflows/README.md: "Reopening restarts triage from scratch").
RestartIsFromScratch ==
    orderly /\ "cleanup" \notin failed =>
        /\ At("triage", "claude") => labels = {} /\ branch = 0 /\ pr # "open"
        /\ open /\ Idle /\ "repro-ready" \in labels => branch # 0

\* A confirmed issue does not stay confirmed: it is fixed or handed over, even
\* if one of two apply runs is refused its push, or is refused a second PR; only
\* a command that fails once the label is on, or a reset that leaves it on, can
\* leave the issue there (moderate_apply_result.sh, under set -e).
Handled == labels \cap {"fixed", "needs-human"} # {}
ConfirmedMovesOn ==
    (Undisturbed /\ "confirmed" \in labels) ~> (Handled \/ ~Undisturbed \/ failed # {})

-----------------------------------------------------------------------------
(***************************************************************************)
(* What workflows/README.md and a comment say, and the workflows do not    *)
(* keep.                                                                   *)
(***************************************************************************)

\* "by the time its artifact exists there's nothing left for apply to race
\* except a duplicate apply": a close races it (ModerationClose.cfg).
AppliesRaceNothing == "cleanup" \notin failed => RestsClean

\* "a rapid close-then-reopen runs cleanup before the reopened triage's reset
\* step": the feature workflow's run may cancel the pending bug triage, and
\* nobody ever looks at the issue (ModerationReopen.cfg).
ReopenedIsTriaged == ~open ~> (At("triage", "reset") \/ [](~open))

\* "so the apply workflow still gets a "failed" outcome and can comment on the
\* issue instead of it going silently stuck": it is skipped after a failed
\* step (ModerationFailed.cfg).
ConfirmedIsHeard == At("worker", "claude") ~> (Handled \/ closes > 0 \/ failed # {})

\* "it comments what it tried and stops rather than leaving the issue silently
\* stuck": a push, a PR or a comment that fails ends the apply job without a
\* word, and the label is `confirmed` for good (ModerationFailed.cfg).
NeverStuck == "confirmed" \in labels ~> (Handled \/ closes > 0)

\* "reopening it strips every `bug:*`/`enhancement:*` stage label": a removal
\* that fails is passed over, and triage starts all the same
\* (ModerationReopen.cfg).
ReopenedIsStripped == orderly /\ At("triage", "claude") => labels = {}

=============================================================================
