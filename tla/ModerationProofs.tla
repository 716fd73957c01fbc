-------------------------- MODULE ModerationProofs --------------------------
(***************************************************************************)
(* For any number of comments, closings and commits: no reproduction is    *)
(* built upon twice, and none that was not confirmed, while events leave   *)
(* each other time or nobody closes the issue; a closed issue is left      *)
(* clean, and triage starts from the bare issue.                           *)
(*                                                                         *)
(* Two builds have different parents because a build is pushed on the tip  *)
(* of the branch, which is the newest commit there is.  That needs the     *)
(* branch to exist when the push is tried (a push creates a branch that is *)
(* gone, whatever it is based on), for which InvHeld follows the base from *)
(* the gate of the worker to the push, and InvQuiet says that nobody       *)
(* deletes a branch in the meantime.  The second part (JInv) follows the   *)
(* label repro-ready.                                                      *)
(***************************************************************************)
EXTENDS Moderation, TLAPS

Types ==
    /\ branch \in Shas /\ commits \in Seq(Commit) /\ Len(commits) <= MaxCommits
    /\ labels \in SUBSET StageLabels
    /\ running \in Run /\ pending \in Run
    /\ applies \in Seq(ApplyRun)
    /\ closes \in Nat /\ open \in BOOLEAN /\ orderly \in BOOLEAN

Cleaning(run) == run.step \in {"reset", "close_pr", "delete_branch"}

\* The branch, if there is one, ends in the newest commit; a commit is above
\* its parent.
InvTip ==
    /\ branch \in {0, Len(commits)}
    /\ \A k \in DOMAIN commits : commits[k].parent < k

\* A base has been pinned for a worker that is past its gate and for what it
\* produced, and for nobody else; it is, or was, a commit.
InvPinned ==
    /\ pending.sha = 0
    /\ running.sha # 0 => running.job = "worker" /\ running.step = "claude"
    /\ running.sha \in 0..Len(commits)
    /\ \A a \in DOMAIN applies : applies[a].base \in 0..Len(commits)

\* Nobody cleans up before the issue was closed, and nobody while a build is
\* about to be pushed.
InvQuiet ==
    /\ closes = 0 => open /\ ~Cleaning(running) /\ ~Cleaning(pending)
    /\ Undisturbed =>
           /\ Cleaning(running) \/ Cleaning(pending) => \A a \in DOMAIN applies : Ended(a)
           /\ Cleaning(pending) => running.job = "skipped"

\* The branch of a build that is not yet pushed exists.
InvHeld ==
    Undisturbed =>
        /\ running.sha # 0 => branch # 0
        /\ \A a \in DOMAIN applies :
               /\ applies[a].step = "push" => applies[a].outcome = "built"
               /\ applies[a].outcome = "built" /\ applies[a].step \in {"check", "relabel", "push"} =>
                      applies[a].base # 0 /\ branch # 0

IInv == Types /\ InvTip /\ InvPinned /\ InvQuiet /\ InvHeld /\ OneBuildPerRepro

-----------------------------------------------------------------------------
\* A run that has just been queued.
LEMMA StartingIsRun ==
    ASSUME NEW job \in {"triage", "worker", "cleanup", "skipped", "none"},
           NEW step \in {"reset", "close_pr", "delete_branch", "claude", "gate", "end"}
    PROVE  Starting(job, step) \in Run
BY BoundsAssumption DEF Starting, Run, Shas

\* The running job ends, and what waited takes its place.
LEMMA LeaveKeeps ==
    ASSUME IInv, Leave, labels' \in SUBSET StageLabels,
           UNCHANGED <<open, branch, commits, applies, closes, orderly>>
    PROVE  IInv'
<1>0. Undisturbed' = Undisturbed
    BY DEF Undisturbed
<1>1. NoRun \in Run /\ NoRun.sha = 0 /\ ~Cleaning(NoRun)
    BY StartingIsRun DEF NoRun, Starting, Cleaning
<1>2. Types'
    BY <1>1 DEF IInv, Types, Leave
<1>3. InvTip' /\ InvPinned' /\ InvHeld'
    BY <1>0, <1>1 DEF IInv, Leave, InvTip, InvPinned, InvHeld
<1>4. InvQuiet'
    BY <1>0, <1>1 DEF IInv, Leave, InvQuiet, Cleaning, Ended
<1>5. OneBuildPerRepro'
    BY <1>0 DEF IInv, OneBuildPerRepro, Fixes
<1> QED
    BY <1>2, <1>3, <1>4, <1>5 DEF IInv

\* A step of a clean-up that does not delete the branch.
LEMMA CleanKeeps ==
    ASSUME IInv, Cleaning(running), NEW step \in {"close_pr", "delete_branch", "claude"},
           Continue(step), labels' \in SUBSET StageLabels,
           UNCHANGED <<open, branch, commits, applies, closes, orderly>>
    PROVE  IInv'
<1>0. Undisturbed' = Undisturbed
    BY DEF Undisturbed
<1>1. running' \in Run /\ running'.sha = 0
    <2>1. running.sha = 0
        BY DEF IInv, InvPinned, Cleaning
    <2> QED
        BY <2>1 DEF IInv, Types, Continue, Run
<1>2. Types'
    BY <1>1 DEF IInv, Types, Continue
<1>3. InvTip' /\ InvPinned' /\ InvHeld'
    BY <1>0, <1>1 DEF IInv, Continue, InvTip, InvPinned, InvHeld
<1>4. running'.job = running.job
    BY DEF IInv, Types, Continue, Run
<1>5. InvQuiet'
    BY <1>0, <1>4 DEF IInv, Continue, InvQuiet, Cleaning, Ended
<1>6. OneBuildPerRepro'
    BY <1>0 DEF IInv, OneBuildPerRepro, Fixes
<1> QED
    BY <1>2, <1>3, <1>5, <1>6 DEF IInv

\* An apply run that has not ended goes on without a push: a push is the turn
\* of a build alone.
LEMMA GoesOnKeeps ==
    ASSUME IInv, NEW a \in DOMAIN applies, ~Ended(a),
           NEW step \in {"relabel", "push", "create_pr", "done_label", "comment", "finished", "aborted"},
           step = "relabel" => applies[a].step = "check",
           step = "push" => applies[a].step = "relabel" /\ applies[a].outcome = "built",
           Goto(a, step), labels' \in SUBSET StageLabels,
           UNCHANGED <<open, branch, commits, running, pending, closes, orderly>>
    PROVE  IInv'
<1>0. Undisturbed' = Undisturbed
    BY DEF Undisturbed
<1>1. /\ applies' \in Seq(ApplyRun) /\ DOMAIN applies' = DOMAIN applies
      /\ \A b \in DOMAIN applies : b # a => applies'[b] = applies[b]
      /\ applies'[a].outcome = applies[a].outcome /\ applies'[a].base = applies[a].base
      /\ applies'[a].step = step
    <2>1. applies[a] \in ApplyRun
        BY DEF IInv, Types
    <2>2. [applies[a] EXCEPT !.step = step] \in ApplyRun
        BY <2>1 DEF ApplyRun
    <2>3. applies' = [applies EXCEPT ![a] = [applies[a] EXCEPT !.step = step]]
        BY DEF Goto
    <2> QED
        BY <2>1, <2>2, <2>3 DEF IInv, Types, ApplyRun
<1>2. Types' /\ InvTip' /\ InvPinned'
    BY <1>1 DEF IInv, Types, InvTip, InvPinned
<1>3. InvQuiet'
    BY <1>0 DEF IInv, InvQuiet
<1>4. InvHeld'
    BY <1>0, <1>1 DEF IInv, InvHeld
<1>5. OneBuildPerRepro'
    BY <1>0 DEF IInv, OneBuildPerRepro, Fixes
<1> QED
    BY <1>2, <1>3, <1>4, <1>5 DEF IInv

-----------------------------------------------------------------------------
LEMMA InitHolds == Init => IInv
<1> SUFFICES ASSUME Init PROVE IInv
    OBVIOUS
<1> USE BoundsAssumption
<1>1. /\ NoRun \in Run
      /\ Starting("triage", "claude") \in Run /\ Skipped \in Run
      /\ Starting("triage", "claude").sha = 0 /\ Skipped.sha = 0
      /\ Starting("triage", "claude").step = "claude" /\ Skipped.step = "end"
    BY StartingIsRun DEF NoRun, Skipped, Starting
<1>2. Types
    BY <1>1 DEF Init, Types, Shas
<1>3. InvTip /\ InvPinned /\ InvQuiet /\ InvHeld
    BY <1>1 DEF Init, InvTip, InvPinned, InvQuiet, InvHeld, Cleaning
<1>4. OneBuildPerRepro
    BY DEF Init, OneBuildPerRepro, Fixes
<1> QED
    BY <1>2, <1>3, <1>4 DEF IInv

\* What a comment queues has no base yet, and cleans up nothing.
LEMMA CommentKeeps == ASSUME IInv, NEW confirm \in BOOLEAN, Comment(confirm) PROVE IInv'
<1> DEFINE run == IF confirm /\ "repro-ready" \in labels
                  THEN [Starting("worker", "gate") EXCEPT !.confirmed = branch]
                  ELSE Skipped
<1> USE BoundsAssumption
<1>1. /\ run \in Run /\ run.sha = 0 /\ ~Cleaning(run)
      /\ Skipped \in Run /\ Skipped.sha = 0 /\ ~Cleaning(Skipped)
    <2>1. Starting("worker", "gate") = [job |-> "worker", step |-> "gate", sha |-> 0, confirmed |-> 0]
        BY DEF Starting
    <2>2. Starting("worker", "gate") \in Run
        BY StartingIsRun
    <2>3. branch \in Shas
        BY DEF IInv, Types
    <2>4. [Starting("worker", "gate") EXCEPT !.confirmed = branch] \in Run
        BY <2>2, <2>3 DEF Run
    <2>5. Skipped = [job |-> "skipped", step |-> "end", sha |-> 0, confirmed |-> 0] /\ Skipped \in Run
        BY StartingIsRun DEF Skipped, Starting
    <2> QED
        BY <2>1, <2>4, <2>5 DEF Cleaning
<1>2. QueueBoth(run, Skipped) /\ UNCHANGED <<open, labels, branch, commits, applies, closes>>
    BY DEF Comment
<1> HIDE DEF run
<1>3. \/ running' \in {run, Skipped} /\ pending' \in {run, Skipped} /\ running = NoRun
      \/ UNCHANGED running /\ pending' \in {run, Skipped}
    BY <1>2 DEF QueueBoth
<1>4. orderly' \in BOOLEAN /\ (orderly' => orderly)
    BY DEF Comment, IInv, Types
<1>5. Undisturbed' => Undisturbed
    BY <1>2, <1>4 DEF Undisturbed
<1>6. Types'
    BY <1>1, <1>2, <1>3, <1>4 DEF IInv, Types
<1>7. InvTip' /\ InvPinned' /\ InvHeld'
    BY <1>1, <1>2, <1>3, <1>5 DEF IInv, InvTip, InvPinned, InvHeld
<1>8. InvQuiet'
    BY <1>1, <1>2, <1>3, <1>5 DEF IInv, InvQuiet, Ended
<1>9. OneBuildPerRepro'
    BY <1>2, <1>5 DEF IInv, OneBuildPerRepro, Fixes
<1> QED
    BY <1>6, <1>7, <1>8, <1>9 DEF IInv

\* An event that leaves the others time finds nothing to disturb, and one that
\* does not ends the promise.
LEMMA CloseKeeps == ASSUME IInv, NEW merge \in BOOLEAN, Close(merge) PROVE IInv'
<1> DEFINE run == Starting("cleanup", "close_pr")
<1> USE BoundsAssumption
<1>1. run \in Run /\ run.sha = 0
    BY StartingIsRun DEF Starting
<1>2. /\ Queue(run) /\ closes' = closes + 1 /\ open' = FALSE
      /\ UNCHANGED <<labels, branch, commits, applies>>
    BY DEF Close
<1> HIDE DEF run
<1>3. \/ running = NoRun /\ running' = run /\ UNCHANGED pending
      \/ running # NoRun /\ pending' = run /\ UNCHANGED running
    BY <1>2 DEF Queue
<1>4. orderly' \in BOOLEAN /\ (orderly' => orderly /\ Idle)
    BY DEF Close, IInv, Types
<1>5. Undisturbed' => Undisturbed /\ Idle
    BY <1>2, <1>4 DEF Undisturbed, IInv, Types
<1>6. Types'
    <2>1. closes' \in Nat
        BY <1>2 DEF IInv, Types
    <2>3. open' \in BOOLEAN
        BY <1>2
    <2>2. running' \in Run /\ pending' \in Run
        BY <1>1, <1>3 DEF IInv, Types
    <2> QED
        BY <1>2, <1>4, <2>1, <2>2, <2>3 DEF IInv, Types
<1>7. InvTip' /\ InvPinned' /\ InvHeld'
    BY <1>1, <1>2, <1>3, <1>5 DEF IInv, InvTip, InvPinned, InvHeld, Idle
<1>8. InvQuiet'
    <2>1. closes' # 0
        BY <1>2 DEF IInv, Types
    <2> QED
        BY <1>2, <1>3, <1>5, <2>1 DEF IInv, InvQuiet, Idle, Ended, NoRun, Starting
<1>9. OneBuildPerRepro'
    BY <1>2, <1>5 DEF IInv, OneBuildPerRepro, Fixes
<1> QED
    BY <1>6, <1>7, <1>8, <1>9 DEF IInv

LEMMA ReopenKeeps == ASSUME IInv, Reopen PROVE IInv'
<1> DEFINE run == Starting("triage", "reset")
<1> USE BoundsAssumption
<1>1. /\ run \in Run /\ run.sha = 0 /\ Skipped \in Run /\ Skipped.sha = 0
      /\ Skipped.job = "skipped" /\ ~Cleaning(Skipped)
    BY StartingIsRun DEF Skipped, Starting, Cleaning
<1>2. QueueBoth(run, Skipped) /\ ~open /\ open' = TRUE /\ UNCHANGED <<labels, branch, commits, applies, closes>>
    BY DEF Reopen
<1> HIDE DEF run
<1>3. \/ running = NoRun /\ running' = run /\ pending' = Skipped
      \/ running = NoRun /\ running' = Skipped /\ pending' = run
      \/ running # NoRun /\ pending' \in {run, Skipped} /\ UNCHANGED running
    BY <1>2 DEF QueueBoth
<1>4. orderly' \in BOOLEAN /\ (orderly' => orderly /\ Idle)
    BY DEF Reopen, IInv, Types
<1>5. closes # 0
    BY <1>2 DEF IInv, InvQuiet
<1>6. Undisturbed' => Undisturbed /\ Idle
    BY <1>2, <1>4, <1>5 DEF Undisturbed
<1>7. Types'
    BY <1>1, <1>2, <1>3, <1>4 DEF IInv, Types
<1>8. InvTip' /\ InvPinned' /\ InvHeld'
    BY <1>1, <1>2, <1>3, <1>6 DEF IInv, InvTip, InvPinned, InvHeld, Idle
<1>9. InvQuiet'
    BY <1>1, <1>2, <1>3, <1>5, <1>6 DEF IInv, InvQuiet, Idle, Ended
<1>10. OneBuildPerRepro'
    BY <1>2, <1>6 DEF IInv, OneBuildPerRepro, Fixes
<1> QED
    BY <1>7, <1>8, <1>9, <1>10 DEF IInv

\* The branch goes when nobody is about to build on it.
LEMMA DeleteBranchKeeps == ASSUME IInv, DeleteBranch PROVE IInv'
<1> USE BoundsAssumption
<1>1. /\ running.step = "delete_branch" /\ branch' = 0
      /\ Leave \/ Continue("claude")
      /\ UNCHANGED <<open, labels, commits, applies, closes, orderly>>
    BY DEF DeleteBranch
<1>2. Undisturbed' = Undisturbed
    BY <1>1 DEF Undisturbed
<1>3. running.sha = 0 /\ Cleaning(running)
    BY <1>1 DEF IInv, InvPinned, Cleaning
<1>4. NoRun \in Run /\ NoRun.sha = 0 /\ ~Cleaning(NoRun)
    BY StartingIsRun DEF NoRun, Starting, Cleaning
<1>5. /\ running' \in Run /\ running'.sha = 0 /\ pending' \in Run /\ pending'.sha = 0
      /\ Cleaning(running') => Cleaning(pending)
      /\ Cleaning(pending') => Cleaning(pending) /\ running'.job = running.job
    <2>1. CASE Leave
        BY <1>4, <2>1 DEF Leave, IInv, Types, InvPinned
    <2>2. CASE Continue("claude")
        BY <1>3, <2>2 DEF Continue, IInv, Types, InvPinned, Run, Cleaning
    <2> QED
        BY <1>1, <2>1, <2>2
<1>6. Types'
    BY <1>1, <1>5 DEF IInv, Types, Shas
<1>7. InvTip' /\ InvPinned'
    BY <1>1, <1>5 DEF IInv, InvTip, InvPinned
<1>8. InvQuiet'
    BY <1>1, <1>2, <1>5 DEF IInv, InvQuiet, Ended
<1>9. InvHeld'
    BY <1>1, <1>2, <1>3, <1>5 DEF IInv, InvQuiet, InvHeld, Ended
<1>10. OneBuildPerRepro'
    BY <1>1, <1>2 DEF IInv, OneBuildPerRepro, Fixes
<1> QED
    BY <1>6, <1>7, <1>8, <1>9, <1>10 DEF IInv

\* A push makes a commit on top of all there are.
LEMMA PushFacts ==
    ASSUME IInv, NEW kind \in {"repro", "fix"}, NEW parent \in Shas, NEW confirmed \in Shas,
           Push(kind, parent, confirmed)
    PROVE  /\ branch' \in Shas /\ branch' # 0 /\ branch' = Len(commits')
           /\ commits' \in Seq(Commit) /\ Len(commits') <= MaxCommits
           /\ DOMAIN commits' = DOMAIN commits \cup {Len(commits) + 1}
           /\ \A k \in DOMAIN commits : commits'[k] = commits[k] /\ k <= Len(commits)
           /\ commits'[Len(commits) + 1] = [kind |-> kind, parent |-> parent, confirmed |-> confirmed]
<1> DEFINE c == [kind |-> kind, parent |-> parent, confirmed |-> confirmed]
<1> USE BoundsAssumption
<1>1. c \in Commit
    BY DEF Commit
<1>2. commits \in Seq(Commit) /\ Len(commits) \in Nat /\ DOMAIN commits = 1..Len(commits)
    BY DEF IInv, Types
<1>3. commits' = Append(commits, c) /\ branch' = Len(commits) + 1 /\ Len(commits) < MaxCommits
    BY DEF Push
<1> HIDE DEF c
<1>4. /\ commits' \in Seq(Commit) /\ Len(commits') = Len(commits) + 1
      /\ \A k \in 1..Len(commits) : commits'[k] = commits[k]
      /\ commits'[Len(commits) + 1] = c
    BY <1>1, <1>2, <1>3
<1>5. DOMAIN commits' = 1..(Len(commits) + 1)
    BY <1>4
<1>6. 1..(Len(commits) + 1) = 1..Len(commits) \cup {Len(commits) + 1}
    BY <1>2
<1> QED
    BY <1>2, <1>3, <1>4, <1>5, <1>6 DEF c, Shas

\* Triage pushes a reproduction, which builds on nothing.
LEMMA TriagePushesKeeps == ASSUME IInv, TriagePushes PROVE IInv'
<1> USE BoundsAssumption
<1>1. /\ running.job = "triage" /\ running.step = "claude" /\ branch = 0
      /\ Push("repro", 0, 0) /\ Continue("label")
      /\ UNCHANGED <<open, labels, applies, closes, orderly>>
    BY DEF TriagePushes, At
<1>2. Undisturbed' = Undisturbed
    BY <1>1 DEF Undisturbed
<1>3. 0 \in Shas
    BY DEF Shas
<1>4. /\ branch' \in Shas /\ branch' # 0 /\ branch' = Len(commits')
      /\ commits' \in Seq(Commit) /\ Len(commits') <= MaxCommits
      /\ DOMAIN commits' = DOMAIN commits \cup {Len(commits) + 1}
      /\ \A k \in DOMAIN commits : commits'[k] = commits[k]
      /\ commits'[Len(commits) + 1] = [kind |-> "repro", parent |-> 0, confirmed |-> 0]
    BY <1>1, <1>3, PushFacts
<1>5. /\ running' \in Run /\ running'.sha = running.sha /\ running'.job = running.job
      /\ running'.step = "label" /\ UNCHANGED pending
    BY <1>1 DEF Continue, IInv, Types, Run
<1>6. Types'
    BY <1>1, <1>4, <1>5 DEF IInv, Types
<1>7. InvTip'
    <2>1. Len(commits) \in Nat
        BY DEF IInv, Types
    <2> QED
        BY <1>4, <2>1 DEF IInv, InvTip
<1>8. running.sha = 0
    BY <1>1 DEF IInv, InvPinned
<1>9. InvPinned' /\ InvHeld'
    <2>1. 0..Len(commits) \subseteq 0..Len(commits')
        BY <1>1 DEF IInv, Types, Push
    <2>2. InvPinned'
        BY <1>1, <1>5, <1>8, <2>1 DEF IInv, InvPinned
    <2> QED
        BY <1>1, <1>2, <1>4, <1>5, <1>8, <2>2 DEF IInv, InvHeld
<1>10. InvQuiet'
    BY <1>1, <1>2, <1>5 DEF IInv, InvQuiet, Cleaning, Ended
<1>11. OneBuildPerRepro'
    <2>1. Fixes' = Fixes
        BY <1>4 DEF Fixes
    <2> QED
        BY <1>2, <1>4, <2>1 DEF IInv, OneBuildPerRepro, Fixes
<1> QED
    BY <1>6, <1>7, <1>9, <1>10, <1>11 DEF IInv

\* A build is pushed on its base when that is the tip of the branch.
LEMMA PushBuildKeeps == ASSUME IInv, NEW a \in DOMAIN applies, PushBuild(a) PROVE IInv'
<1> DEFINE base == applies[a].base
<1>1. /\ applies[a].step = "push"
      /\ UNCHANGED <<running, pending, open, comments, closes, orderly, labels, pr>>
    BY DEF PushBuild, ApplyAt, Around, GroupUnchanged
<1>2. CASE Goto(a, "aborted") /\ UNCHANGED <<branch, commits>>
    BY <1>1, <1>2, GoesOnKeeps DEF Ended, IInv, Types
<1>3. CASE /\ branch \in {0, base} /\ Push("fix", base, applies[a].confirmed)
           /\ Goto(a, "create_pr")
    <2>0. applies[a] \in ApplyRun
        BY DEF IInv, Types
    <2>1. base \in Shas /\ applies[a].confirmed \in Shas /\ applies[a] \in ApplyRun
        BY <2>0 DEF ApplyRun
    <2>2. /\ branch' \in Shas /\ branch' # 0 /\ branch' = Len(commits')
          /\ commits' \in Seq(Commit) /\ Len(commits') <= MaxCommits
          /\ DOMAIN commits' = DOMAIN commits \cup {Len(commits) + 1}
          /\ \A k \in DOMAIN commits : commits'[k] = commits[k] /\ k <= Len(commits)
          /\ commits'[Len(commits) + 1] =
                 [kind |-> "fix", parent |-> base, confirmed |-> applies[a].confirmed]
        BY <1>3, <2>1, PushFacts
    <2>3. Undisturbed' = Undisturbed
        BY <1>1 DEF Undisturbed
    <2>4. /\ applies' \in Seq(ApplyRun) /\ DOMAIN applies' = DOMAIN applies
          /\ \A b \in DOMAIN applies : b # a => applies'[b] = applies[b]
          /\ applies'[a].step = "create_pr" /\ applies'[a].base = base
        <3>1. [applies[a] EXCEPT !.step = "create_pr"] \in ApplyRun
            BY <2>1 DEF ApplyRun
        <3>2. applies' = [applies EXCEPT ![a] = [applies[a] EXCEPT !.step = "create_pr"]]
            BY <1>3 DEF Goto
        <3> QED
            BY <2>1, <3>1, <3>2 DEF IInv, Types, ApplyRun
    <2>5. Undisturbed => base # 0 /\ branch # 0 /\ base = Len(commits)
        BY <1>1, <1>3 DEF IInv, InvHeld, InvTip
    <2>6. Types'
        BY <1>1, <2>2, <2>4 DEF IInv, Types
    <2>7. InvTip'
        <3>1. base < Len(commits) + 1
            <4>1. Len(commits) \in Nat /\ base \in 0..Len(commits)
                BY DEF IInv, Types, InvPinned
            <4> QED
                BY <4>1
        <3> QED
            BY <2>2, <3>1 DEF IInv, InvTip
    <2>8. InvPinned' /\ InvQuiet'
        <3>1. InvPinned'
            <4>1. \A b \in DOMAIN applies : applies'[b].base = applies[b].base
                BY <2>1, <2>4
            <4>2. 0..Len(commits) \subseteq 0..Len(commits')
                BY <2>2, <2>7, <1>3 DEF IInv, Types, Push
            <4> QED
                BY <1>1, <2>4, <4>1, <4>2 DEF IInv, InvPinned
        <3> QED
            BY <1>1, <2>3, <3>1 DEF IInv, InvQuiet, Ended
    <2>9. InvHeld'
        BY <1>1, <2>2, <2>3, <2>4 DEF IInv, InvHeld
    <2>10. OneBuildPerRepro'
        <3> SUFFICES ASSUME Undisturbed', NEW k \in Fixes', NEW l \in Fixes',
                            commits'[k].parent = commits'[l].parent
                     PROVE  k = l
            BY DEF OneBuildPerRepro
        <3>1. \A m \in Fixes' : m = Len(commits) + 1 \/ m \in Fixes
            BY <2>2 DEF Fixes
        <3>2. Len(commits) \in Nat
            BY DEF IInv, Types
        <3>3. \A m \in Fixes : commits'[m].parent = commits[m].parent /\ commits'[m].parent < Len(commits)
            <4> SUFFICES ASSUME NEW m \in Fixes
                         PROVE  commits[m].parent < Len(commits)
                BY <2>2 DEF Fixes
            <4>1. m \in DOMAIN commits /\ commits[m].parent < m /\ m <= Len(commits) /\ m \in Nat
                BY <2>2 DEF Fixes, IInv, InvTip, Types
            <4>2. commits[m] \in Commit
                BY <4>1 DEF IInv, Types
            <4>3. commits[m].parent \in Shas
                BY <4>2 DEF Commit
            <4> QED
                BY <3>2, <4>1, <4>3, BoundsAssumption DEF Shas
        <3>4. commits'[Len(commits) + 1].parent = Len(commits)
            BY <2>2, <2>3, <2>5
        <3>5. CASE k \in Fixes /\ l \in Fixes
            BY <2>3, <3>3, <3>5 DEF IInv, OneBuildPerRepro
        <3> QED
            BY <3>1, <3>2, <3>3, <3>4, <3>5
    <2> QED
        BY <2>6, <2>7, <2>8, <2>9, <2>10 DEF IInv
<1> QED
    BY <1>2, <1>3 DEF PushBuild

\* The gate pins the tip of the branch.
LEMMA GateKeeps == ASSUME IInv, WorkerGate PROVE IInv'
<1> USE BoundsAssumption
<1>1. /\ running.job = "worker" /\ running.step = "gate"
      /\ running' = [running EXCEPT !.step = "claude", !.sha = branch]
      /\ UNCHANGED <<pending, open, labels, branch, commits, applies, closes, orderly>>
    BY DEF WorkerGate, At
<1>2. /\ running' \in Run /\ running'.job = "worker" /\ running'.step = "claude"
      /\ running'.sha = branch
    BY <1>1 DEF IInv, Types, Run
<1>3. Undisturbed' = Undisturbed
    BY <1>1 DEF Undisturbed
<1>4. Types'
    BY <1>1, <1>2 DEF IInv, Types
<1>5. InvTip' /\ InvHeld'
    BY <1>1, <1>2, <1>3 DEF IInv, InvTip, InvHeld
<1>6. InvPinned'
    <2>1. branch \in 0..Len(commits)
        BY DEF IInv, Types, InvTip
    <2> QED
        BY <1>1, <1>2, <2>1 DEF IInv, InvPinned
<1>7. InvQuiet'
    BY <1>1, <1>2, <1>3 DEF IInv, InvQuiet, Cleaning, Ended
<1>8. OneBuildPerRepro'
    BY <1>1, <1>3 DEF IInv, OneBuildPerRepro, Fixes
<1> QED
    BY <1>4, <1>5, <1>6, <1>7, <1>8 DEF IInv

\* A worker produces a build only above a base, so that the branch it is to be
\* pushed on exists.
LEMMA WorkerSucceedsKeeps == ASSUME IInv, WorkerSucceeds PROVE IInv'
<1>1. /\ running.job = "worker" /\ running.step = "claude" /\ Leave
      /\ UNCHANGED <<open, labels, branch, commits, pr, comments, closes, orderly>>
    BY DEF WorkerSucceeds, At
<1>2. PICK outcome \in Packaged(running.sha) :
          applies' = Append(applies, [outcome |-> outcome, base |-> running.sha,
                                      confirmed |-> running.confirmed, step |-> "check"])
    BY DEF WorkerSucceeds
<1> DEFINE new == [outcome |-> outcome, base |-> running.sha,
                   confirmed |-> running.confirmed, step |-> "check"]
<1>3. outcome \in Outcomes /\ (outcome = "built" => running.sha # 0)
    BY DEF Packaged
<1>4. new \in ApplyRun
    BY <1>3 DEF IInv, Types, Run, ApplyRun
<1>5. new.step = "check" /\ new.base = running.sha /\ new.outcome = outcome
    OBVIOUS
<1> HIDE DEF new
<1>6. /\ applies' \in Seq(ApplyRun) /\ DOMAIN applies' = DOMAIN applies \cup {Len(applies) + 1}
      /\ \A a \in DOMAIN applies : applies'[a] = applies[a]
      /\ applies'[Len(applies) + 1] = new
    <2>1. applies \in Seq(ApplyRun) /\ Len(applies) \in Nat /\ DOMAIN applies = 1..Len(applies)
        BY DEF IInv, Types
    <2>2. applies' = Append(applies, new)
        BY <1>2 DEF new
    <2>3. /\ applies' \in Seq(ApplyRun) /\ DOMAIN applies' = 1..(Len(applies) + 1)
          /\ \A a \in 1..Len(applies) : applies'[a] = applies[a]
          /\ applies'[Len(applies) + 1] = new
        BY <1>4, <2>1, <2>2
    <2>4. 1..(Len(applies) + 1) = 1..Len(applies) \cup {Len(applies) + 1}
        BY <2>1
    <2> QED
        BY <2>1, <2>3, <2>4
<1>7. Undisturbed' = Undisturbed
    BY <1>1 DEF Undisturbed
<1>8. /\ running' = pending /\ pending' = NoRun /\ NoRun \in Run /\ NoRun.sha = 0 /\ ~Cleaning(NoRun)
    BY <1>1, StartingIsRun DEF Leave, NoRun, Starting, Cleaning
<1>9. Types'
    BY <1>1, <1>6, <1>8 DEF IInv, Types
<1>10. InvTip'
    BY <1>1 DEF IInv, InvTip
<1>11. InvPinned'
    <2>1. 0 \in 0..Len(commits)
        BY DEF IInv, Types
    <2> QED
        BY <1>1, <1>5, <1>6, <1>8, <2>1 DEF IInv, InvPinned
<1>12. InvQuiet'
    <2>1. ~Cleaning(running) /\ running.job # "skipped"
        BY <1>1 DEF Cleaning
    <2>2. Undisturbed => ~Cleaning(pending)
        BY <2>1 DEF IInv, InvQuiet
    <2> QED
        BY <1>1, <1>7, <1>8, <2>2 DEF IInv, InvQuiet
<1>13. InvHeld'
    <2> SUFFICES ASSUME Undisturbed'
                 PROVE  /\ running'.sha = 0
                        /\ \A a \in DOMAIN applies' :
                               /\ applies'[a].step = "push" => applies'[a].outcome = "built"
                               /\ applies'[a].outcome = "built" /\ applies'[a].step \in {"check", "relabel", "push"} =>
                                      applies'[a].base # 0 /\ branch' # 0
        BY DEF InvHeld
    <2>1. running'.sha = 0
        BY <1>8 DEF IInv, InvPinned
    <2>2. outcome = "built" => running.sha # 0 /\ branch # 0
        BY <1>3, <1>7 DEF IInv, InvHeld
    <2> QED
        BY <1>1, <1>5, <1>6, <1>7, <2>1, <2>2 DEF IInv, InvHeld
<1>14. OneBuildPerRepro'
    BY <1>1, <1>7 DEF IInv, OneBuildPerRepro, Fixes
<1> QED
    BY <1>9, <1>10, <1>11, <1>12, <1>13, <1>14 DEF IInv

LEMMA ApplyKeeps == ASSUME IInv, NEW a \in 1..MaxComments, Apply(a) PROVE IInv'
<1>1. a \in DOMAIN applies
    BY DEF Apply, CheckReady, Relabel, PushBuild, CreatePR, MarkFixed, CommentAndHandOver,
           CommandFails, ApplyAt
<1>2. labels \in SUBSET StageLabels
    BY DEF IInv, Types
<1>3. CASE CheckReady(a)
    BY <1>1, <1>2, <1>3, GoesOnKeeps DEF CheckReady, ApplyAt, Around, GroupUnchanged, Ended
<1>4. CASE Relabel(a)
    <2>1. labels' \in SUBSET StageLabels
        BY <1>2, <1>4 DEF Relabel, StageLabels
    <2> QED
        BY <1>1, <1>4, <2>1, GoesOnKeeps DEF Relabel, ApplyAt, Around, GroupUnchanged, Ended
<1>5. CASE PushBuild(a)
    BY <1>1, <1>5, PushBuildKeeps
<1>6. CASE CreatePR(a)
    BY <1>1, <1>2, <1>6, GoesOnKeeps DEF CreatePR, ApplyAt, Around, GroupUnchanged, Ended
<1>7. CASE MarkFixed(a)
    <2>1. labels' \in SUBSET StageLabels
        BY <1>2, <1>7 DEF MarkFixed, StageLabels
    <2> QED
        BY <1>1, <1>7, <2>1, GoesOnKeeps DEF MarkFixed, ApplyAt, Around, GroupUnchanged, Ended
<1>8. CASE CommentAndHandOver(a)
    <2>1. labels' \in SUBSET StageLabels
        BY <1>2, <1>8 DEF CommentAndHandOver, StageLabels
    <2> QED
        BY <1>1, <1>8, <2>1, GoesOnKeeps DEF CommentAndHandOver, ApplyAt, Around, GroupUnchanged, Ended
<1>9. CASE CommandFails(a)
    BY <1>1, <1>2, <1>9, GoesOnKeeps DEF CommandFails, Around
<1> QED
    BY <1>3, <1>4, <1>5, <1>6, <1>7, <1>8, <1>9 DEF Apply

LEMMA GroupStepKeeps == ASSUME IInv, GroupStep PROVE IInv'
<1>1. labels \in SUBSET StageLabels
    BY DEF IInv, Types
<1>2. CASE SkippedRun
    BY <1>1, <1>2, LeaveKeeps DEF SkippedRun
<1>3. CASE Reset
    <2>1. labels' \in SUBSET StageLabels
        BY <1>1, <1>3 DEF Reset
    <2> QED
        BY <1>3, <2>1, CleanKeeps DEF Reset, At, Cleaning
<1>4. CASE ClosePR
    BY <1>1, <1>4, CleanKeeps DEF ClosePR, Cleaning
<1>5. CASE DeleteBranch
    BY <1>5, DeleteBranchKeeps
<1>6. CASE TriageEnds
    <2>1. labels' \in SUBSET StageLabels
        BY <1>1, <1>6 DEF TriageEnds, StageLabels
    <2> QED
        BY <1>6, <2>1, LeaveKeeps DEF TriageEnds
<1>7. CASE TriagePushes
    BY <1>7, TriagePushesKeeps
<1>8. CASE TriageLabels
    <2>1. labels' \in SUBSET StageLabels
        BY <1>1, <1>8 DEF TriageLabels, StageLabels
    <2> QED
        BY <1>8, <2>1, LeaveKeeps DEF TriageLabels
<1>9. CASE WorkerGate
    BY <1>9, GateKeeps
<1>10. CASE WorkerSucceeds
    BY <1>10, WorkerSucceedsKeeps
<1>11. CASE WorkerFails
    BY <1>1, <1>11, LeaveKeeps DEF WorkerFails
<1>12. CASE CleanupFails
    BY <1>1, <1>12, LeaveKeeps DEF CleanupFails
<1> QED
    BY <1>2, <1>3, <1>4, <1>5, <1>6, <1>7, <1>8, <1>9, <1>10, <1>11, <1>12 DEF GroupStep

LEMMA NextKeeps == IInv /\ [Next]_vars => IInv'
<1> SUFFICES ASSUME IInv, [Next]_vars PROVE IInv'
    OBVIOUS
<1>1. ASSUME NEW confirm \in BOOLEAN, Comment(confirm) PROVE IInv'
    BY <1>1, CommentKeeps
<1>2. ASSUME NEW merge \in BOOLEAN, Close(merge) PROVE IInv'
    BY <1>2, CloseKeeps
<1>3. CASE Reopen
    BY <1>3, ReopenKeeps
<1>4. CASE GroupStep
    BY <1>4, GroupStepKeeps
<1>5. ASSUME NEW a \in 1..MaxComments, Apply(a) PROVE IInv'
    BY <1>5, ApplyKeeps
<1>6. CASE UNCHANGED vars
    BY <1>6 DEF vars, IInv, Types, InvTip, InvPinned, InvQuiet, InvHeld, OneBuildPerRepro,
                Undisturbed, Ended, Fixes
<1> QED
    BY <1>1, <1>2, <1>3, <1>4, <1>5, <1>6 DEF Next

\* However often the reporter confirms and however apply runs interleave, one
\* reproduction gets one build (moderate_apply_result.sh).
THEOREM BuiltOnce == Spec => []OneBuildPerRepro
<1>1. IInv => OneBuildPerRepro
    BY DEF IInv
<1> QED
    BY InitHolds, NextKeeps, <1>1, PTL DEF Spec

-----------------------------------------------------------------------------
(***************************************************************************)
(* What is built upon, what a closed issue leaves behind, and what triage  *)
(* finds.  The argument follows the label repro-ready: while it is there,  *)
(* and a branch with it, the tip of the branch is the reproduction that    *)
(* every confirmation means and that every worker pins (InvReady); the     *)
(* first apply run takes the label away before it pushes (InvBase).        *)
(* Triage has the issue to itself (InvTriage).                             *)
(***************************************************************************)
Triage(run) == run.job = "triage"

Worker(run) == run.job = "worker"

\* A clean-up has left something behind.
Uncleaned == "cleanup" \in failed

InvGroup ==
    /\ running = NoRun => pending = NoRun
    /\ Cleaning(running) => running.job \in {"triage", "cleanup"}
    /\ Cleaning(pending) => pending.job \in {"triage", "cleanup"}
    /\ running.job = "cleanup" => Cleaning(running)
    /\ pending.job = "cleanup" => Cleaning(pending)
    /\ closes = 0 => ~Uncleaned

InvTriage ==
    Undisturbed =>
        /\ Triage(running) \/ Triage(pending) =>
               /\ ~Worker(running) /\ ~Worker(pending)
               /\ \A a \in DOMAIN applies : Ended(a)
        /\ Triage(running) /\ running.step # "reset" => labels = {} \/ Uncleaned
        /\ At("triage", "claude") => branch = 0 /\ pr # "open"
        /\ At("triage", "label") => branch # 0 /\ commits[branch].kind = "repro"
        /\ Triage(pending) =>
               /\ running.job = "skipped"
               /\ \/ pending.step = "reset"
                  \/ pending.step = "claude" /\ labels = {} /\ branch = 0 /\ pr # "open"

\* A worker has been asked for the tip of the branch, and has pinned it if it
\* has pinned anything.
ForTip(run) == Worker(run) => run.confirmed = branch /\ run.sha \in {0, branch}

InvReady ==
    Undisturbed /\ "repro-ready" \in labels /\ branch # 0 =>
        /\ commits[branch].kind = "repro"
        /\ ForTip(running) /\ ForTip(pending)
        /\ \A a \in DOMAIN applies : applies[a].outcome = "built" /\ applies[a].step = "check" =>
               applies[a].confirmed = branch /\ applies[a].base = branch

InvBase ==
    Undisturbed => \A a \in DOMAIN applies :
        /\ applies[a].outcome = "built" /\ applies[a].step \in {"relabel", "push"} =>
               /\ applies[a].confirmed = applies[a].base
               /\ commits[applies[a].base].kind = "repro"
        /\ applies[a].step = "push" => "repro-ready" \notin labels

\* A closed issue is clean, or about to be cleaned.
InvClosed ==
    orderly /\ ~Uncleaned /\ ~open =>
        /\ ~Triage(running) /\ ~Triage(pending)
        /\ running.job = "cleanup" \/ (branch = 0 /\ pr # "open")

\* An open issue is nobody's to clean up but triage's, which strips the label
\* that has lost its branch.
InvOpen ==
    orderly /\ open =>
        /\ running.job # "cleanup" /\ pending.job # "cleanup"
        /\ "repro-ready" \in labels /\ branch = 0 =>
               \/ Uncleaned
               \/ Triage(running) /\ running.step = "reset"
               \/ Triage(pending) /\ pending.step = "reset"

\* A build is above a commit.
InvAbove == Undisturbed => \A k \in Fixes : commits[k].parent # 0

Built == BuiltWasConfirmed /\ InvAbove

JInv == InvGroup /\ InvTriage /\ InvReady /\ InvBase /\ InvClosed /\ InvOpen /\ Built

-----------------------------------------------------------------------------
\* A tip is a commit.
LEMMA TipIsCommit ==
    ASSUME IInv
    PROVE  /\ branch # 0 => branch \in DOMAIN commits
           /\ \A a \in DOMAIN applies : applies[a].base # 0 => applies[a].base \in DOMAIN commits
           /\ DOMAIN commits = 1..Len(commits) /\ Len(commits) \in Nat
<1>1. DOMAIN commits = 1..Len(commits) /\ Len(commits) \in Nat
    BY DEF IInv, Types
<1>2. branch \in {0, Len(commits)} /\ \A a \in DOMAIN applies : applies[a].base \in 0..Len(commits)
    BY DEF IInv, InvTip, InvPinned
<1>3. \A n \in Nat : \A k \in 0..n : k # 0 => k \in 1..n
    OBVIOUS
<1>4. \A n \in Nat : 0 \in 0..n /\ n \in 0..n
    OBVIOUS
<1>5. branch \in 0..Len(commits)
    BY <1>1, <1>2, <1>4, Zenon
<1> QED
    BY <1>1, <1>2, <1>3, <1>5, Zenon

LEMMA FixStandsOnCommit ==
    ASSUME IInv, JInv, Undisturbed, NEW k \in Fixes
    PROVE  /\ commits[k].confirmed = commits[k].parent
           /\ commits[commits[k].parent].kind = "repro"
           /\ commits[k].parent \in DOMAIN commits
<1>1. k \in DOMAIN commits /\ DOMAIN commits = 1..Len(commits) /\ Len(commits) \in Nat
    BY DEF Fixes, IInv, Types
<1>2. commits[k] \in Commit /\ commits[k].parent < k
    <2>1. commits \in Seq(Commit)
        BY DEF IInv, Types
    <2> QED
        <3>1. commits[k] \in Commit
            BY <1>1, <2>1
        <3>2. commits[k].parent < k
            BY <1>1 DEF IInv, InvTip
        <3> QED
            BY <3>1, <3>2
<1>3. commits[k].parent \in Nat
    BY <1>2, BoundsAssumption DEF Commit, Shas
<1>4. commits[k].parent # 0
    BY DEF JInv, Built, InvAbove
<1>5. commits[k].parent \in DOMAIN commits
    BY <1>1, <1>2, <1>3, <1>4
<1> QED
    BY <1>5 DEF JInv, Built, BuiltWasConfirmed

\* The running job ends without a trace, or asks for no confirmation.
LEMMA LeaveKeepsMore ==
    ASSUME IInv, JInv, Leave, ~Cleaning(running), running.job # "cleanup",
           "repro-ready" \in labels' => "repro-ready" \in labels,
           running.job = "skipped" => labels' = labels,
           UNCHANGED <<open, branch, commits, pr, applies, closes, orderly, failed>>
    PROVE  JInv'
<1>0. Undisturbed' = Undisturbed
    BY DEF Undisturbed
<1>1. /\ running' = pending /\ pending' = NoRun
      /\ NoRun.job = "none" /\ NoRun.step = "end" /\ ~Cleaning(NoRun)
    BY DEF Leave, NoRun, Starting, Cleaning
<1>2. InvGroup'
    BY <1>1 DEF JInv, InvGroup, Cleaning, Uncleaned
<1>3. InvTriage'
    BY <1>0, <1>1 DEF JInv, InvTriage, Triage, Worker, At, Ended, Uncleaned
<1>4. InvReady' /\ InvBase'
    BY <1>0, <1>1 DEF JInv, InvReady, InvBase, ForTip, Worker
<1>5. InvClosed'
    BY <1>1 DEF JInv, InvClosed, Triage, Uncleaned
<1>6. InvOpen'
    BY <1>1 DEF JInv, InvOpen, Triage, Cleaning, Uncleaned
<1>7. Built'
    BY <1>0 DEF JInv, Built, BuiltWasConfirmed, InvAbove, Fixes
<1> QED
    BY <1>2, <1>3, <1>4, <1>5, <1>6, <1>7 DEF JInv

LEMMA InitHoldsMore == Init => JInv
<1> SUFFICES ASSUME Init PROVE JInv
    OBVIOUS
<1>1. /\ Starting("triage", "claude").job = "triage" /\ Starting("triage", "claude").step = "claude"
      /\ Skipped.job = "skipped" /\ Skipped.step = "end"
      /\ NoRun.job = "none" /\ NoRun.step = "end"
    BY DEF NoRun, Skipped, Starting
<1>2. DOMAIN applies = {} /\ DOMAIN commits = {} /\ labels = {} /\ branch = 0 /\ pr = "none"
      /\ open /\ failed = {}
    BY DEF Init
<1>3. \/ running = Starting("triage", "claude") /\ pending = Skipped
      \/ running = Skipped /\ pending = Starting("triage", "claude")
    BY DEF Init
<1>4. InvGroup
    BY <1>1, <1>2, <1>3 DEF InvGroup, Cleaning, Uncleaned
<1>5. InvTriage
    BY <1>1, <1>2, <1>3 DEF InvTriage, Triage, Worker, At, Uncleaned
<1>6. InvReady /\ InvBase /\ InvClosed
    BY <1>2 DEF InvReady, InvBase, InvClosed, Uncleaned
<1>7. InvOpen
    BY <1>1, <1>2, <1>3 DEF InvOpen, Uncleaned
<1>8. Built
    BY <1>2 DEF Built, BuiltWasConfirmed, InvAbove, Fixes
<1> QED
    BY <1>4, <1>5, <1>6, <1>7, <1>8 DEF JInv

\* A confirmation is queued with the tip of the branch, and only if there is
\* something to confirm.
LEMMA CommentKeepsMore == ASSUME IInv, JInv, NEW confirm \in BOOLEAN, Comment(confirm) PROVE JInv'
<1> DEFINE run == IF confirm /\ "repro-ready" \in labels
                  THEN [Starting("worker", "gate") EXCEPT !.confirmed = branch]
                  ELSE Skipped
<1>1. /\ run.step \in {"gate", "end"} /\ run.job \in {"worker", "skipped"}
      /\ run.job = "worker" => "repro-ready" \in labels /\ run.confirmed = branch /\ run.sha = 0
      /\ Skipped.job = "skipped" /\ Skipped.step = "end"
    BY DEF Skipped, Starting
<1>2. QueueBoth(run, Skipped) /\ UNCHANGED <<open, labels, branch, commits, pr, applies, closes, failed>>
    BY DEF Comment
<1> HIDE DEF run
<1>3. \/ running' \in {run, Skipped} /\ pending' \in {run, Skipped} /\ running = NoRun
      \/ running # NoRun /\ UNCHANGED running /\ pending' \in {run, Skipped}
    BY <1>2 DEF QueueBoth
<1>4. orderly' => orderly /\ running.job # "triage" /\ pending.job \notin {"triage", "cleanup"}
    BY DEF Comment
<1>5. Undisturbed' => Undisturbed /\ (closes = 0 \/ ~Triage(running))
    BY <1>2, <1>4 DEF Undisturbed, Triage
<1>6. NoRun.job = "none" /\ NoRun.step = "end"
    BY DEF NoRun, Starting
<1>7. InvGroup'
    BY <1>1, <1>2, <1>3, <1>6 DEF JInv, InvGroup, Cleaning, Uncleaned
<1>8. InvTriage'
    <2> SUFFICES ASSUME Undisturbed' PROVE InvTriage'
        BY DEF InvTriage, Uncleaned
    <2>1. ~Triage(pending') /\ (Triage(running') => UNCHANGED running /\ Triage(running))
        BY <1>1, <1>3 DEF Triage
    <2>2. Triage(running) => labels = {}
        BY <1>5 DEF JInv, IInv, InvGroup, InvTriage, InvQuiet, Cleaning, Uncleaned
    <2>3. Triage(running') => ~Worker(running') /\ ~Worker(pending')
        BY <1>1, <1>3, <2>1, <2>2 DEF Triage, Worker
    <2> QED
        BY <1>2, <1>5, <2>1, <2>2, <2>3 DEF JInv, InvTriage, At, Ended, Triage, Uncleaned
<1>9. InvReady'
    BY <1>1, <1>2, <1>3, <1>5 DEF JInv, InvReady, ForTip, Worker
<1>10. InvBase' /\ Built'
    BY <1>2, <1>5 DEF JInv, InvBase, Built, BuiltWasConfirmed, InvAbove, Fixes
<1>11. InvClosed'
    BY <1>1, <1>2, <1>3, <1>4, <1>6 DEF JInv, InvClosed, Triage, Uncleaned
<1>12. InvOpen'
    BY <1>1, <1>2, <1>3, <1>4, <1>6 DEF JInv, InvOpen, Triage, Uncleaned
<1> QED
    BY <1>7, <1>8, <1>9, <1>10, <1>11, <1>12 DEF JInv

\* The clean-up of an issue that is closed in good order starts at once.
LEMMA CloseKeepsMore == ASSUME IInv, JInv, NEW merge \in BOOLEAN, Close(merge) PROVE JInv'
<1> DEFINE run == Starting("cleanup", "close_pr")
<1>1. run.job = "cleanup" /\ run.step = "close_pr"
    BY DEF Starting
<1>2. /\ Queue(run) /\ closes' = closes + 1 /\ open' = FALSE
      /\ UNCHANGED <<labels, branch, commits, applies, failed>>
    BY DEF Close
<1> HIDE DEF run
<1>3. \/ running = NoRun /\ running' = run /\ UNCHANGED pending
      \/ running # NoRun /\ pending' = run /\ UNCHANGED running
    BY <1>2 DEF Queue
<1>4. (orderly' => orderly /\ Idle) /\ closes' # 0
    <2>1. closes \in Nat /\ closes' = closes + 1
        BY <1>2 DEF IInv, Types
    <2>2. closes' # 0
        BY <2>1
    <2> QED
        BY <2>2 DEF Close
<1>5. Undisturbed' => Undisturbed /\ Idle
    BY <1>4 DEF Undisturbed
<1>6. NoRun.job = "none" /\ NoRun.step = "end"
    BY DEF NoRun, Starting
<1>7. InvGroup'
    <2>1. run # NoRun
        BY <1>1, <1>6
    <2> QED
        BY <1>1, <1>3, <1>4, <1>6, <2>1 DEF JInv, InvGroup, Cleaning, Uncleaned
<1>8. Idle => running' = run /\ pending' = NoRun
    BY <1>3 DEF Idle, JInv, InvGroup, Uncleaned
<1>9. InvTriage'
    BY <1>1, <1>5, <1>6, <1>8 DEF InvTriage, Triage, At, Uncleaned
<1>10. InvReady'
    BY <1>1, <1>2, <1>5, <1>6, <1>8 DEF JInv, InvReady, ForTip, Worker
<1>11. InvBase' /\ Built'
    BY <1>2, <1>5 DEF JInv, InvBase, Built, BuiltWasConfirmed, InvAbove, Fixes
<1>12. InvClosed'
    BY <1>1, <1>4, <1>6, <1>8 DEF InvClosed, Triage, Uncleaned
<1>13. InvOpen'
    BY <1>2 DEF InvOpen, Uncleaned
<1> QED
    BY <1>7, <1>9, <1>10, <1>11, <1>12, <1>13 DEF JInv

LEMMA ReopenKeepsMore == ASSUME IInv, JInv, Reopen PROVE JInv'
<1> DEFINE run == Starting("triage", "reset")
<1>1. run.job = "triage" /\ run.step = "reset" /\ Skipped.job = "skipped" /\ Skipped.step = "end"
    BY DEF Skipped, Starting
<1>2. QueueBoth(run, Skipped) /\ ~open /\ open' = TRUE
      /\ UNCHANGED <<labels, branch, commits, pr, applies, closes, failed>>
    BY DEF Reopen
<1> HIDE DEF run
<1>3. \/ running = NoRun /\ running' = run /\ pending' = Skipped
      \/ running = NoRun /\ running' = Skipped /\ pending' = run
      \/ running # NoRun /\ pending' \in {run, Skipped} /\ UNCHANGED running
    BY <1>2 DEF QueueBoth
<1>4. (orderly' => orderly /\ Idle) /\ closes # 0
    BY <1>2 DEF Reopen, IInv, InvQuiet
<1>5. Undisturbed' => Undisturbed /\ Idle
    BY <1>2, <1>4 DEF Undisturbed
<1>6. NoRun.job = "none" /\ NoRun.step = "end"
    BY DEF NoRun, Starting
<1>7. InvGroup'
    <2>1. run # NoRun /\ Skipped # NoRun
        BY <1>1, <1>6
    <2> QED
        BY <1>1, <1>2, <1>3, <1>4, <2>1 DEF JInv, InvGroup, Cleaning, Uncleaned
<1>8. Idle => \/ running' = run /\ pending' = Skipped
              \/ running' = Skipped /\ pending' = run
    BY <1>3 DEF Idle
<1>9. InvTriage'
    BY <1>1, <1>2, <1>5, <1>8 DEF InvTriage, Triage, Worker, At, Ended, Idle, Uncleaned
<1>10. InvReady'
    BY <1>1, <1>2, <1>5, <1>8 DEF JInv, InvReady, ForTip, Worker
<1>11. InvBase' /\ Built'
    BY <1>2, <1>5 DEF JInv, InvBase, Built, BuiltWasConfirmed, InvAbove, Fixes
<1>12. InvClosed'
    BY <1>2 DEF InvClosed, Uncleaned
<1>13. InvOpen'
    BY <1>1, <1>4, <1>8 DEF InvOpen, Triage, Uncleaned
<1> QED
    BY <1>7, <1>9, <1>10, <1>11, <1>12, <1>13 DEF JInv

\* The labels go first, all of them if no removal fails.
LEMMA ResetKeepsMore == ASSUME IInv, JInv, Reset PROVE JInv'
<1>1. /\ Triage(running) /\ running.step = "reset" /\ labels' \subseteq labels /\ UNCHANGED pending
      /\ labels' = {} \/ Uncleaned'
      /\ Uncleaned => Uncleaned'
      /\ UNCHANGED <<open, branch, commits, pr, applies, closes, orderly>>
      /\ running' = [running EXCEPT !.step = "close_pr"]
    BY DEF Reset, At, Continue, Triage, Uncleaned
<1>2. running'.job = "triage" /\ running'.step = "close_pr"
    BY <1>1 DEF IInv, Types, Run, Triage
<1>3. Undisturbed' = Undisturbed
    BY <1>1 DEF Undisturbed
<1>4. NoRun.job = "none"
    BY DEF NoRun, Starting
<1>5. InvGroup'
    <2>1. closes # 0
        BY <1>1 DEF IInv, InvQuiet, Cleaning
    <2> QED
        BY <1>1, <1>2, <1>4, <2>1 DEF JInv, InvGroup, Cleaning
<1>6. InvTriage'
    BY <1>1, <1>2, <1>3 DEF JInv, InvTriage, Triage, Worker, At, Ended
<1>7. InvReady' /\ InvBase' /\ Built'
    BY <1>1, <1>2, <1>3 DEF JInv, InvReady, InvBase, Built, BuiltWasConfirmed, InvAbove, Fixes,
                            ForTip, Worker
<1>8. InvClosed' /\ InvOpen'
    BY <1>1, <1>2 DEF JInv, InvClosed, InvOpen, Triage, Uncleaned
<1> QED
    BY <1>5, <1>6, <1>7, <1>8 DEF JInv

LEMMA ClosePRKeepsMore == ASSUME IInv, JInv, ClosePR PROVE JInv'
<1>1. /\ running.step = "close_pr" /\ UNCHANGED pending
      /\ pr' = IF pr = "open" THEN "closed" ELSE pr
      /\ UNCHANGED <<open, labels, branch, commits, applies, closes, orderly, failed>>
      /\ running' = [running EXCEPT !.step = "delete_branch"]
    BY DEF ClosePR, Continue
<1>2. /\ running'.job = running.job /\ running'.step = "delete_branch"
      /\ running'.sha = running.sha /\ running'.confirmed = running.confirmed
    BY <1>1 DEF IInv, Types, Run
<1>3. Undisturbed' = Undisturbed
    BY <1>1 DEF Undisturbed
<1>4. NoRun.step = "end"
    BY DEF NoRun, Starting
<1>5. InvGroup'
    BY <1>1, <1>2, <1>4 DEF JInv, InvGroup, Cleaning, Uncleaned
<1>6. InvTriage'
    BY <1>1, <1>2, <1>3 DEF JInv, InvTriage, Triage, Worker, At, Ended, Uncleaned
<1>7. InvReady' /\ InvBase' /\ Built'
    BY <1>1, <1>2, <1>3 DEF JInv, InvReady, InvBase, Built, BuiltWasConfirmed, InvAbove, Fixes, ForTip, Worker
<1>8. InvClosed' /\ InvOpen'
    BY <1>1, <1>2 DEF JInv, InvClosed, InvOpen, Triage, Uncleaned
<1> QED
    BY <1>5, <1>6, <1>7, <1>8 DEF JInv

\* The branch goes for good, or until triage makes a new one.
LEMMA DeleteBranchKeepsMore == ASSUME IInv, JInv, DeleteBranch PROVE JInv'
<1>1. /\ running.step = "delete_branch" /\ branch' = 0
      /\ pr' = IF pr = "open" THEN "closed" ELSE pr
      /\ UNCHANGED <<open, labels, commits, applies, closes, orderly, failed>>
      /\ running.job \in {"triage", "cleanup"}
    BY DEF DeleteBranch, JInv, InvGroup, Cleaning, Uncleaned
<1>2. Undisturbed' = Undisturbed
    BY <1>1 DEF Undisturbed
<1>3. NoRun.step = "end" /\ NoRun.job = "none"
    BY DEF NoRun, Starting
<1>4. \/ running.job = "cleanup" /\ running' = pending /\ pending' = NoRun
      \/ running.job = "triage" /\ running'.job = "triage" /\ running'.step = "claude" /\ pending' = pending
    BY <1>1 DEF DeleteBranch, Leave, Continue, IInv, Types, Run
<1>5. InvGroup'
    BY <1>1, <1>3, <1>4 DEF JInv, InvGroup, Cleaning, Uncleaned
<1>6. InvTriage'
    BY <1>1, <1>2, <1>3, <1>4 DEF JInv, InvTriage, Triage, Worker, At, Ended, Uncleaned
<1>7. InvReady' /\ InvBase' /\ Built'
    BY <1>1, <1>2 DEF JInv, InvReady, InvBase, Built, BuiltWasConfirmed, InvAbove, Fixes
<1>8. InvClosed'
    BY <1>1, <1>3, <1>4 DEF JInv, InvClosed, Triage, Uncleaned
<1>9. InvOpen'
    <2> SUFFICES ASSUME orderly, open
                 PROVE  /\ running'.job # "cleanup" /\ pending'.job # "cleanup"
                        /\ labels = {} \/ Uncleaned
        BY <1>1 DEF InvOpen, Uncleaned
    <2>1. running.job = "triage"
        BY <1>1 DEF JInv, InvOpen, Uncleaned
    <2>2. labels = {} \/ Uncleaned
        BY <1>1, <2>1 DEF JInv, InvTriage, Triage, Undisturbed, Uncleaned
    <2> QED
        BY <1>4, <2>1, <2>2 DEF JInv, InvOpen, Uncleaned
<1> QED
    BY <1>5, <1>6, <1>7, <1>8, <1>9 DEF JInv

\* A clean-up that fails leaves what it leaves, and promises nothing any more.
LEMMA CleanupFailsKeepsMore == ASSUME IInv, JInv, CleanupFails PROVE JInv'
<1>1. /\ Cleaning(running) /\ Uncleaned' /\ running.job \in {"triage", "cleanup"}
      /\ running' = pending /\ pending' = NoRun
      /\ UNCHANGED <<open, labels, branch, commits, pr, applies, closes, orderly>>
    BY DEF CleanupFails, Leave, Cleaning, Uncleaned, JInv, InvGroup
<1>2. Undisturbed' = Undisturbed
    BY <1>1 DEF Undisturbed
<1>3. NoRun.step = "end" /\ NoRun.job = "none"
    BY DEF NoRun, Starting
<1>4. closes # 0
    BY <1>1 DEF IInv, InvQuiet
<1>5. InvGroup'
    BY <1>1, <1>3, <1>4 DEF JInv, InvGroup, Cleaning
<1>6. InvTriage'
    BY <1>1, <1>2, <1>3 DEF JInv, InvTriage, Triage, Worker, At, Ended
<1>7. InvReady' /\ InvBase' /\ Built'
    BY <1>1, <1>2, <1>3 DEF JInv, InvReady, InvBase, Built, BuiltWasConfirmed, InvAbove, Fixes, ForTip, Worker
<1>8. InvClosed' /\ InvOpen'
    BY <1>1, <1>3 DEF JInv, InvClosed, InvOpen
<1> QED
    BY <1>5, <1>6, <1>7, <1>8 DEF JInv

\* Triage pushes the reproduction, and has not asked anybody to confirm it.
LEMMA TriagePushesKeepsMore == ASSUME IInv, JInv, TriagePushes PROVE JInv'
<1>1. /\ Triage(running) /\ running.step = "claude" /\ branch = 0
      /\ Push("repro", 0, 0) /\ UNCHANGED <<open, labels, pr, applies, closes, orderly, pending, failed>>
      /\ running' = [running EXCEPT !.step = "label"]
    BY DEF TriagePushes, At, Continue, Triage
<1>2. running'.job = "triage" /\ running'.step = "label"
    BY <1>1 DEF IInv, Types, Run, Triage
<1>3. /\ branch' # 0 /\ branch' = Len(commits) + 1
      /\ DOMAIN commits' = DOMAIN commits \cup {Len(commits) + 1}
      /\ \A k \in DOMAIN commits : commits'[k] = commits[k]
      /\ commits'[Len(commits) + 1] = [kind |-> "repro", parent |-> 0, confirmed |-> 0]
    BY <1>1, PushFacts, BoundsAssumption DEF Shas, Push
<1>4. Undisturbed' = Undisturbed
    BY <1>1 DEF Undisturbed
<1>5. InvGroup'
    BY <1>1, <1>2 DEF JInv, InvGroup, Cleaning, NoRun, Starting, Uncleaned
<1>6. InvTriage'
    BY <1>1, <1>2, <1>3, <1>4 DEF JInv, InvTriage, Triage, Worker, At, Ended, Uncleaned
<1>7. Undisturbed => ~Worker(pending) /\ \A a \in DOMAIN applies : Ended(a)
    BY <1>1 DEF JInv, InvTriage
<1>8. InvReady' /\ InvBase'
    BY <1>1, <1>2, <1>3, <1>4, <1>7 DEF InvReady, InvBase, Ended, ForTip, Worker
<1>9. InvClosed' /\ InvOpen'
    BY <1>1, <1>2, <1>3 DEF JInv, InvClosed, InvOpen, Triage, Uncleaned
<1>10. Built'
    <2> SUFFICES ASSUME Undisturbed, NEW k \in Fixes'
                 PROVE  /\ commits'[k].confirmed = commits'[k].parent
                        /\ commits'[commits'[k].parent].kind = "repro"
                        /\ commits'[k].parent # 0
        BY <1>4 DEF Built, BuiltWasConfirmed, InvAbove
    <2>1. k \in Fixes /\ commits'[k] = commits[k]
        BY <1>3 DEF Fixes
    <2>2. /\ commits[k].confirmed = commits[k].parent /\ commits[commits[k].parent].kind = "repro"
          /\ commits[k].parent \in DOMAIN commits
        BY <2>1, FixStandsOnCommit
    <2>3. commits[k].parent # 0
        BY <2>1 DEF JInv, Built, InvAbove
    <2> QED
        BY <1>3, <2>1, <2>2, <2>3
<1> QED
    BY <1>5, <1>6, <1>8, <1>9, <1>10 DEF JInv

\* The reporter is shown the reproduction when nobody else is at work.
LEMMA TriageLabelsKeepsMore == ASSUME IInv, JInv, TriageLabels PROVE JInv'
<1>1. /\ Triage(running) /\ running.step = "label" /\ At("triage", "label")
      /\ running' = pending /\ pending' = NoRun
      /\ UNCHANGED <<open, branch, commits, pr, applies, closes, orderly, failed>>
    BY DEF TriageLabels, At, Leave, Triage
<1>2. Undisturbed' = Undisturbed
    BY <1>1 DEF Undisturbed
<1>3. NoRun.step = "end" /\ NoRun.job = "none"
    BY DEF NoRun, Starting
<1>4. Undisturbed => /\ ~Worker(pending) /\ ~Triage(pending)
                     /\ \A a \in DOMAIN applies : Ended(a)
                     /\ branch # 0 /\ commits[branch].kind = "repro"
    BY <1>1 DEF JInv, InvTriage, Triage, Uncleaned
<1>5. InvGroup'
    BY <1>1, <1>3 DEF JInv, InvGroup, Cleaning, Uncleaned
<1>6. InvTriage'
    BY <1>1, <1>2, <1>3, <1>4 DEF InvTriage, Triage, Worker, At, Uncleaned
<1>7. InvReady'
    BY <1>1, <1>2, <1>3, <1>4 DEF InvReady, ForTip, Worker, Ended
<1>8. InvBase' /\ Built'
    BY <1>1, <1>2, <1>4 DEF JInv, InvBase, Built, BuiltWasConfirmed, InvAbove, Fixes, Ended
<1>9. InvClosed'
    BY <1>1, <1>3 DEF JInv, InvClosed, Triage, Uncleaned
<1>10. InvOpen'
    BY <1>1, <1>3, <1>4 DEF JInv, InvOpen, Triage, Undisturbed, Uncleaned
<1> QED
    BY <1>5, <1>6, <1>7, <1>8, <1>9, <1>10 DEF JInv

\* The gate pins what was confirmed, or something no label vouches for.
LEMMA GateKeepsMore == ASSUME IInv, JInv, WorkerGate PROVE JInv'
<1>1. /\ running.job = "worker" /\ running.step = "gate"
      /\ running' = [running EXCEPT !.step = "claude", !.sha = branch]
      /\ UNCHANGED <<pending, open, labels, branch, commits, pr, applies, closes, orderly, failed>>
    BY DEF WorkerGate, At
<1>2. /\ running'.job = "worker" /\ running'.step = "claude"
      /\ running'.sha = branch /\ running'.confirmed = running.confirmed
    BY <1>1 DEF IInv, Types, Run
<1>3. Undisturbed' = Undisturbed
    BY <1>1 DEF Undisturbed
<1>4. InvGroup'
    BY <1>1, <1>2 DEF JInv, InvGroup, Cleaning, NoRun, Starting, Uncleaned
<1>5. InvTriage'
    BY <1>1, <1>2, <1>3 DEF JInv, InvTriage, Triage, Worker, At, Ended, Uncleaned
<1>6. InvReady'
    BY <1>1, <1>2, <1>3 DEF JInv, InvReady, ForTip, Worker
<1>7. InvBase' /\ Built'
    BY <1>1, <1>3 DEF JInv, InvBase, Built, BuiltWasConfirmed, InvAbove, Fixes
<1>8. InvClosed' /\ InvOpen'
    BY <1>1, <1>2 DEF JInv, InvClosed, InvOpen, Triage, Uncleaned
<1> QED
    BY <1>4, <1>5, <1>6, <1>7, <1>8 DEF JInv

\* While the label is there, a build is one of what was confirmed.
LEMMA WorkerSucceedsKeepsMore == ASSUME IInv, JInv, WorkerSucceeds PROVE JInv'
<1>1. /\ running.job = "worker" /\ running.step = "claude"
      /\ running' = pending /\ pending' = NoRun
      /\ UNCHANGED <<open, labels, branch, commits, pr, closes, orderly, failed>>
    BY DEF WorkerSucceeds, At, Leave
<1>2. PICK outcome \in Packaged(running.sha) :
          applies' = Append(applies, [outcome |-> outcome, base |-> running.sha,
                                      confirmed |-> running.confirmed, step |-> "check"])
    BY DEF WorkerSucceeds
<1> DEFINE new == [outcome |-> outcome, base |-> running.sha,
                   confirmed |-> running.confirmed, step |-> "check"]
<1>3. /\ new.outcome = "built" => new.base # 0
      /\ new.step = "check" /\ new.base = running.sha /\ new.confirmed = running.confirmed
    BY DEF Packaged
<1>4. applies' = Append(applies, new) /\ applies \in Seq(ApplyRun)
    BY <1>2 DEF IInv, Types
<1> HIDE DEF new
<1>5. /\ DOMAIN applies' = DOMAIN applies \cup {Len(applies) + 1}
      /\ \A a \in DOMAIN applies : applies'[a] = applies[a]
      /\ applies'[Len(applies) + 1] = new
    <2>1. /\ Len(applies) \in Nat /\ DOMAIN applies = 1..Len(applies)
          /\ DOMAIN applies' = 1..(Len(applies) + 1)
          /\ \A a \in 1..Len(applies) : applies'[a] = applies[a]
          /\ applies'[Len(applies) + 1] = new
        BY <1>4
    <2>2. 1..(Len(applies) + 1) = 1..Len(applies) \cup {Len(applies) + 1}
        BY <2>1
    <2> QED
        BY <2>1, <2>2
<1>6. Undisturbed' = Undisturbed
    BY <1>1 DEF Undisturbed
<1>7. NoRun.step = "end" /\ NoRun.job = "none"
    BY DEF NoRun, Starting
<1>8. InvGroup'
    BY <1>1, <1>7 DEF JInv, InvGroup, Cleaning, Uncleaned
<1>9. InvTriage'
    BY <1>1, <1>6, <1>7 DEF JInv, InvTriage, Triage, Worker, At, Uncleaned
<1>10. InvReady'
    <2> SUFFICES ASSUME Undisturbed, "repro-ready" \in labels, branch # 0
                 PROVE  /\ commits[branch].kind = "repro"
                        /\ ForTip(pending) /\ ForTip(NoRun)
                        /\ \A a \in DOMAIN applies' :
                              applies'[a].outcome = "built" /\ applies'[a].step = "check" =>
                                  applies'[a].confirmed = branch /\ applies'[a].base = branch
        BY <1>1, <1>6 DEF InvReady, ForTip, Worker
    <2>1. /\ commits[branch].kind = "repro" /\ ForTip(pending) /\ ForTip(running)
          /\ \A a \in DOMAIN applies : applies[a].outcome = "built" /\ applies[a].step = "check" =>
                 applies[a].confirmed = branch /\ applies[a].base = branch
        BY DEF JInv, InvReady
    <2>2. running.confirmed = branch /\ running.sha \in {0, branch}
        BY <1>1, <2>1 DEF ForTip, Worker
    <2>3. ForTip(NoRun)
        BY <1>7 DEF ForTip, Worker
    <2> QED
        BY <1>3, <1>5, <2>1, <2>2, <2>3
<1>11. InvBase'
    BY <1>1, <1>3, <1>5, <1>6 DEF JInv, InvBase
<1>12. Built'
    BY <1>1, <1>6 DEF JInv, Built, BuiltWasConfirmed, InvAbove, Fixes
<1>13. InvClosed' /\ InvOpen'
    BY <1>1, <1>7 DEF JInv, InvClosed, InvOpen, Triage, Uncleaned
<1> QED
    BY <1>8, <1>9, <1>10, <1>11, <1>12, <1>13 DEF JInv


\* An apply run that has not ended has the issue to itself as far as triage is
\* concerned; it goes on without a push.
LEMMA GoesOnKeepsMore ==
    ASSUME IInv, JInv, NEW a \in DOMAIN applies, ~Ended(a),
           NEW step \in {"relabel", "push", "create_pr", "done_label", "comment", "finished", "aborted"},
           step = "relabel" => applies[a].step = "check" /\ "repro-ready" \in labels,
           step = "push" => applies[a].step = "relabel" /\ "repro-ready" \notin labels',
           Goto(a, step), "repro-ready" \in labels' => "repro-ready" \in labels,
           pr' = "open" => pr = "open" \/ branch # 0, Uncleaned' = Uncleaned,
           UNCHANGED <<open, branch, commits, running, pending, closes, orderly>>
    PROVE  JInv'
<1>0. Undisturbed' = Undisturbed
    BY DEF Undisturbed
<1>1. /\ DOMAIN applies' = DOMAIN applies
      /\ \A b \in DOMAIN applies : b # a => applies'[b] = applies[b]
      /\ applies'[a].outcome = applies[a].outcome /\ applies'[a].base = applies[a].base
      /\ applies'[a].confirmed = applies[a].confirmed /\ applies'[a].step = step
    <2>1. applies[a] \in ApplyRun
        BY DEF IInv, Types
    <2>2. applies' = [applies EXCEPT ![a] = [applies[a] EXCEPT !.step = step]]
        BY DEF Goto
    <2> QED
        BY <2>1, <2>2 DEF ApplyRun
<1>2. InvGroup'
    BY DEF JInv, InvGroup, Cleaning, Uncleaned
<1>3. Undisturbed => ~Triage(running) /\ ~Triage(pending)
    BY DEF JInv, InvTriage, Uncleaned
<1>4. InvTriage'
    BY <1>0, <1>3 DEF InvTriage, At, Triage, Uncleaned
<1>5. InvReady'
    BY <1>0, <1>1 DEF JInv, InvReady, ForTip, Worker
<1>6. InvBase'
    <2> SUFFICES ASSUME Undisturbed, NEW b \in DOMAIN applies
                 PROVE  /\ applies'[b].outcome = "built" /\ applies'[b].step \in {"relabel", "push"} =>
                               /\ applies'[b].confirmed = applies'[b].base
                               /\ commits[applies'[b].base].kind = "repro"
                        /\ applies'[b].step = "push" => "repro-ready" \notin labels'
        BY <1>0, <1>1 DEF InvBase
    <2>1. CASE b # a
        BY <1>1, <2>1 DEF JInv, InvBase
    <2>2. CASE b = a /\ step = "relabel" /\ applies[a].outcome = "built"
        <3>1. branch # 0
            BY <2>2 DEF IInv, InvHeld
        <3> QED
            BY <1>1, <2>2, <3>1 DEF JInv, InvReady
    <2>3. CASE b = a /\ step = "push"
        BY <1>1, <2>3 DEF JInv, InvBase
    <2>4. CASE b = a /\ step # "push" /\ ~(step = "relabel" /\ applies[a].outcome = "built")
        BY <1>1, <2>4
    <2> QED
        BY <2>1, <2>2, <2>3, <2>4
<1>7. InvClosed'
    BY DEF JInv, InvClosed, Triage, IInv, InvQuiet, Cleaning, Uncleaned
<1>8. InvOpen'
    BY DEF JInv, InvOpen, Triage, Uncleaned
<1>9. Built'
    BY <1>0 DEF JInv, Built, BuiltWasConfirmed, InvAbove, Fixes
<1> QED
    BY <1>2, <1>4, <1>5, <1>6, <1>7, <1>8, <1>9 DEF JInv

\* A build is pushed on what was confirmed, after the label has gone.
LEMMA PushBuildKeepsMore == ASSUME IInv, JInv, NEW a \in DOMAIN applies, PushBuild(a) PROVE JInv'
<1> DEFINE base == applies[a].base
<1>1. /\ applies[a].step = "push"
      /\ UNCHANGED <<running, pending, open, comments, closes, orderly, labels, pr, failed>>
    BY DEF PushBuild, ApplyAt, Around, GroupUnchanged
<1>2. CASE Goto(a, "aborted") /\ UNCHANGED <<branch, commits>>
    BY <1>1, <1>2, GoesOnKeepsMore DEF Ended, Uncleaned
<1>3. CASE /\ branch \in {0, base} /\ Push("fix", base, applies[a].confirmed)
           /\ Goto(a, "create_pr")
    <2>0. applies[a] \in ApplyRun
        BY DEF IInv, Types
    <2>1. base \in Shas /\ applies[a].confirmed \in Shas
        BY <2>0 DEF ApplyRun
    <2>2. /\ branch' # 0
          /\ DOMAIN commits' = DOMAIN commits \cup {Len(commits) + 1}
          /\ \A k \in DOMAIN commits : commits'[k] = commits[k]
          /\ commits'[Len(commits) + 1] =
                 [kind |-> "fix", parent |-> base, confirmed |-> applies[a].confirmed]
        BY <1>3, <2>1, PushFacts
    <2>3. Undisturbed' = Undisturbed
        BY <1>1 DEF Undisturbed
    <2>4. /\ DOMAIN applies' = DOMAIN applies
          /\ \A b \in DOMAIN applies : b # a => applies'[b] = applies[b]
          /\ applies'[a].step = "create_pr"
        <3>1. applies' = [applies EXCEPT ![a] = [applies[a] EXCEPT !.step = "create_pr"]]
            BY <1>3 DEF Goto
        <3> QED
            BY <2>0, <3>1 DEF ApplyRun
    <2>5. Undisturbed => /\ applies[a].outcome = "built" /\ base # 0 /\ branch # 0
                         /\ "repro-ready" \notin labels
                         /\ base = applies[a].confirmed /\ commits[base].kind = "repro"
        BY <1>1 DEF IInv, InvHeld, JInv, InvBase
    <2>6. InvGroup'
        BY <1>1 DEF JInv, InvGroup, Cleaning, Uncleaned
    <2>7. InvTriage'
        <3>1. Undisturbed => ~Triage(running) /\ ~Triage(pending)
            BY <1>1 DEF JInv, InvTriage, Ended, Uncleaned
        <3> QED
            BY <1>1, <2>3, <3>1 DEF InvTriage, At, Triage, Uncleaned
    <2>8. InvReady'
        BY <1>1, <2>3, <2>5 DEF InvReady
    <2>9. InvBase'
        <3> SUFFICES ASSUME Undisturbed, NEW b \in DOMAIN applies, b # a,
                            applies[b].step \in {"relabel", "push"}
                     PROVE  /\ applies[b].outcome = "built" =>
                                  /\ applies[b].confirmed = applies[b].base
                                  /\ commits'[applies[b].base].kind = "repro"
                            /\ "repro-ready" \notin labels'
            BY <2>3, <2>4 DEF InvBase
        <3>1. applies[b].outcome = "built" =>
                  /\ applies[b].confirmed = applies[b].base
                  /\ commits[applies[b].base].kind = "repro"
                  /\ applies[b].base # 0
            BY DEF IInv, InvHeld, JInv, InvBase
        <3> QED
            BY <1>1, <2>2, <2>5, <3>1, TipIsCommit
    <2>10. InvClosed'
        <3>1. orderly /\ ~Uncleaned /\ ~open => FALSE
            BY <1>1, <2>5 DEF JInv, InvClosed, InvGroup, Undisturbed, IInv, InvQuiet, Cleaning, Ended, Uncleaned
        <3> QED
            BY <1>1, <3>1 DEF InvClosed, Uncleaned
    <2>11. InvOpen'
        BY <1>1, <2>2 DEF JInv, InvOpen, Triage, Uncleaned
    <2>12. Built'
        <3> SUFFICES ASSUME Undisturbed, NEW k \in Fixes'
                     PROVE  /\ commits'[k].confirmed = commits'[k].parent
                            /\ commits'[commits'[k].parent].kind = "repro"
                            /\ commits'[k].parent # 0
            BY <2>3 DEF Built, BuiltWasConfirmed, InvAbove
        <3>1. CASE k \in Fixes
            <4>1. /\ commits[k].confirmed = commits[k].parent
                  /\ commits[commits[k].parent].kind = "repro"
                  /\ commits[k].parent \in DOMAIN commits
                BY <3>1, FixStandsOnCommit
            <4>2. commits[k].parent # 0 /\ k \in DOMAIN commits
                BY <3>1 DEF JInv, Built, InvAbove, Fixes
            <4> QED
                BY <2>2, <4>1, <4>2
        <3>2. CASE k \notin Fixes
            <4>1. k = Len(commits) + 1
                BY <2>2, <3>2 DEF Fixes
            <4>2. base \in DOMAIN commits
                BY <2>5, TipIsCommit
            <4> QED
                BY <2>2, <2>5, <4>1, <4>2
        <3> QED
            BY <3>1, <3>2
    <2> QED
        BY <2>6, <2>7, <2>8, <2>9, <2>10, <2>11, <2>12 DEF JInv
<1> QED
    BY <1>2, <1>3 DEF PushBuild

LEMMA ApplyKeepsMore == ASSUME IInv, JInv, NEW a \in 1..MaxComments, Apply(a) PROVE JInv'
<1>1. a \in DOMAIN applies
    BY DEF Apply, CheckReady, Relabel, PushBuild, CreatePR, MarkFixed, CommentAndHandOver,
           CommandFails, ApplyAt
<1>2. CASE CheckReady(a)
    BY <1>1, <1>2, GoesOnKeepsMore DEF CheckReady, ApplyAt, Around, GroupUnchanged, Ended, Uncleaned
<1>3. CASE Relabel(a)
    BY <1>1, <1>3, GoesOnKeepsMore DEF Relabel, ApplyAt, Around, GroupUnchanged, Ended, Uncleaned
<1>4. CASE PushBuild(a)
    BY <1>1, <1>4, PushBuildKeepsMore
<1>5. CASE CreatePR(a)
    BY <1>1, <1>5, GoesOnKeepsMore DEF CreatePR, ApplyAt, Around, GroupUnchanged, Ended, Uncleaned
<1>6. CASE MarkFixed(a)
    BY <1>1, <1>6, GoesOnKeepsMore DEF MarkFixed, ApplyAt, Around, GroupUnchanged, Ended, Uncleaned
<1>7. CASE CommentAndHandOver(a)
    BY <1>1, <1>7, GoesOnKeepsMore DEF CommentAndHandOver, ApplyAt, Around, GroupUnchanged, Ended, Uncleaned
<1>8. CASE CommandFails(a)
    <2>1. Uncleaned' = Uncleaned
        BY <1>8 DEF CommandFails, Uncleaned
    <2> QED
        BY <1>1, <1>8, <2>1, GoesOnKeepsMore DEF CommandFails, Around
<1> QED
    BY <1>2, <1>3, <1>4, <1>5, <1>6, <1>7, <1>8 DEF Apply

LEMMA GroupStepKeepsMore == ASSUME IInv, JInv, GroupStep PROVE JInv'
<1>1. CASE SkippedRun
    <2>1. ~Cleaning(running)
        BY <1>1 DEF SkippedRun, JInv, InvGroup, Uncleaned
    <2> QED
        BY <1>1, <2>1, LeaveKeepsMore DEF SkippedRun
<1>2. CASE Reset
    BY <1>2, ResetKeepsMore
<1>3. CASE ClosePR
    BY <1>3, ClosePRKeepsMore
<1>4. CASE DeleteBranch
    BY <1>4, DeleteBranchKeepsMore
<1>5. CASE TriageEnds
    BY <1>5, LeaveKeepsMore DEF TriageEnds, At, Cleaning
<1>6. CASE TriagePushes
    BY <1>6, TriagePushesKeepsMore
<1>7. CASE TriageLabels
    BY <1>7, TriageLabelsKeepsMore
<1>8. CASE WorkerGate
    BY <1>8, GateKeepsMore
<1>9. CASE WorkerSucceeds
    BY <1>9, WorkerSucceedsKeepsMore
<1>10. CASE WorkerFails
    <2>1. ~Cleaning(running)
        BY <1>10 DEF WorkerFails, JInv, InvGroup
    <2> QED
        BY <1>10, <2>1, LeaveKeepsMore DEF WorkerFails
<1>11. CASE CleanupFails
    BY <1>11, CleanupFailsKeepsMore
<1> QED
    BY <1>1, <1>2, <1>3, <1>4, <1>5, <1>6, <1>7, <1>8, <1>9, <1>10, <1>11 DEF GroupStep

LEMMA NextKeepsMore == IInv /\ JInv /\ [Next]_vars => JInv'
<1> SUFFICES ASSUME IInv, JInv, [Next]_vars PROVE JInv'
    OBVIOUS
<1>1. ASSUME NEW confirm \in BOOLEAN, Comment(confirm) PROVE JInv'
    BY <1>1, CommentKeepsMore
<1>2. ASSUME NEW merge \in BOOLEAN, Close(merge) PROVE JInv'
    BY <1>2, CloseKeepsMore
<1>3. CASE Reopen
    BY <1>3, ReopenKeepsMore
<1>4. CASE GroupStep
    BY <1>4, GroupStepKeepsMore
<1>5. ASSUME NEW a \in 1..MaxComments, Apply(a) PROVE JInv'
    BY <1>5, ApplyKeepsMore
<1>6. CASE UNCHANGED vars
    BY <1>6 DEF vars, JInv, InvGroup, InvTriage, InvReady, InvBase, InvClosed, InvOpen, Built,
                BuiltWasConfirmed, InvAbove, Undisturbed, Ended, Fixes, At, Triage, Worker, ForTip,
                Cleaning, Uncleaned
<1> QED
    BY <1>1, <1>2, <1>3, <1>4, <1>5, <1>6 DEF Next

LEMMA ModerationInvariant == Spec => [](IInv /\ JInv)
<1> QED
    BY InitHolds, InitHoldsMore, NextKeeps, NextKeepsMore, PTL DEF Spec

\* What is built upon is the reproduction that the reporter confirmed, although
\* his comment, the gate, the worker and the push are far apart
\* (moderate_apply_result.sh).
THEOREM ConfirmedIsBuilt == Spec => []BuiltWasConfirmed
<1>1. JInv => BuiltWasConfirmed
    BY DEF JInv, Built
<1> QED
    BY ModerationInvariant, <1>1, PTL

\* Nothing grows again on an issue that was closed and cleaned up
\* (moderate_cleanup.sh).
THEOREM ClosedRestsClean == Spec => []ClosedIsClean
<1>1. JInv => ClosedIsClean
    BY DEF JInv, InvClosed, ClosedIsClean, RestsClean, Idle, NoRun, Starting, Uncleaned
<1> QED
    BY ModerationInvariant, <1>1, PTL

\* Triage finds the bare issue, also the second time, and asks for a
\* confirmation only of what is there (reset_issue_state.sh).
THEOREM RestartsBare == Spec => []RestartIsFromScratch
<1>1. JInv => RestartIsFromScratch
    BY DEF JInv, InvTriage, InvOpen, InvGroup, RestartIsFromScratch, Undisturbed, Idle, NoRun,
           Starting, At, Triage, Uncleaned
<1> QED
    BY ModerationInvariant, <1>1, PTL


=============================================================================
