---------------------------- MODULE TemplateSync ----------------------------
(***************************************************************************)
(* A template repository that cuts releases (release.yml) and an instance  *)
(* of it that pulls them in (template-sync.yml, template_sync.py), through *)
(* one file whose tier in the template's manifest may change.  A file is   *)
(* its lines; a line holds what some version of the template wrote, or     *)
(* what people of the instance wrote, or conflict markers.                 *)
(*                                                                         *)
(* git is external: merge-file and the merging of a pull request take each *)
(* line from the side that changed it and conflict if both did; a push to  *)
(* a branch that exists is refused; a tag can be released once.            *)
(***************************************************************************)
EXTENDS Versions, SequencesExt

CONSTANTS
    Lines,          \* the lines of the file
    Texts,          \* what the template writes on a line
    Bumps,          \* the parts that are bumped
    Kinds,          \* the channels releases are cut for
    Channel,        \* TEMPLATE_SYNC_CHANNEL of the instance
    TierMoves,      \* the pairs of tiers between which the manifest moves the file
    FirstTier,      \* its tier in the first release
    MaxTags,        \* bound on the releases
    MaxEdits,       \* bound on the commits to the template's file or manifest
    MaxLocal,       \* bound on the commits to the instance's file
    MaxSyncs        \* bound on the sync branches

ASSUME BoundsAssumption ==
    MaxTags \in Nat /\ MaxEdits \in Nat /\ MaxLocal \in Nat /\ MaxSyncs \in Nat

Tiers == {"replace", "merge", "ignore"}

ASSUME TiersAssumption == TierMoves \subseteq Tiers \X Tiers /\ FirstTier \in Tiers

Local == "local"
Conflict == "conflict"
Empty == "empty"        \* no such line: the base of a file that is new

ASSUME TextsAssumption ==
    Texts # {} /\ Local \notin Texts /\ Conflict \notin Texts /\ Empty \notin Texts

\* The choices of the dispatch form, and of an instance.
ASSUME ChannelsAssumption == Bumps \subseteq Parts /\ Kinds \subseteq Channels /\ Channel \in Channels

NoFile == [l \in Lines |-> Empty]

VARIABLES
    head,       \* the template's main: its file and the file's tier
    releases,   \* tag -> what is checked out at it
    building,   \* release runs in progress: the tag they computed, their commit
    edits,      \* commits to the template so far
    file,       \* the file in the instance's main
    synced,     \* synced_tag in the instance's .github/template-sync-state.json
    prs,        \* the sync branches of the instance with their pull requests
    locals      \* commits of the instance so far

\* SemVer precedence.
Precedes(v, w) ==
    TupleLess(<<v.base[1], v.base[2], v.base[3], PreRank(v.channel), v.num>>,
              <<w.base[1], w.base[2], w.base[3], PreRank(w.channel), w.num>>)

vars == <<head, releases, building, edits, file, synced, prs, locals>>

File == [Lines -> Texts \cup {Local, Conflict, Empty}]

Commit == [file : [Lines -> Texts \cup {Empty}], tier : Tiers]

Bases == {<<a, b, c>> : a, b, c \in 0..(MaxTags + 1)}

Tags == {v \in [base : Bases, channel : Channels, num : 0..MaxTags] :
            v.num = 0 <=> v.channel = "stable"}

\* A sync run's branch: the tag it syncs to, the main it started from, the file
\* it holds, the lines people resolved and whether its PR is open.
PullRequest == [tag : Tags, from : Tags, base : File, file : File,
                resolved : SUBSET Lines, state : {"open", "merged", "none"}]

TypeOK ==
    /\ head \in Commit
    /\ \A v \in DOMAIN releases : v \in Tags /\ releases[v] \in Commit
    /\ \A b \in building : b.tag \in Tags /\ b.commit \in Commit
    /\ edits \in 0..MaxEdits /\ locals \in 0..MaxLocal
    /\ file \in [Lines -> Texts \cup {Local, Empty}]
    /\ synced \in Tags
    /\ prs \in Seq(PullRequest)

FirstTag == Version(<<1, 0, 0>>, Channel, IF Channel = "stable" THEN 0 ELSE 1)

FirstFile == [l \in Lines |-> CHOOSE t \in Texts : TRUE]

\* The instance was created from the first release and bootstrapped at it.
Init ==
    /\ head = [file |-> FirstFile, tier |-> FirstTier]
    /\ releases = [v \in {FirstTag} |-> head]
    /\ building = {}
    /\ edits = 0
    /\ file = FirstFile
    /\ synced = FirstTag
    /\ prs = <<>>
    /\ locals = 0

-----------------------------------------------------------------------------
(***************************************************************************)
(* The template.                                                           *)
(***************************************************************************)

\* A commit rewrites a line, removes the file, or moves it to another tier.
EditTemplate ==
    /\ edits < MaxEdits
    /\ edits' = edits + 1
    /\ \/ \E l \in Lines, t \in Texts :
             /\ head.file[l] # t
             /\ head' = [head EXCEPT !.file[l] = t]
       \/ /\ head.file # NoFile
          /\ head' = [head EXCEPT !.file = NoFile]
       \/ \E move \in TierMoves :
             /\ head.tier = move[1]
             /\ head' = [head EXCEPT !.tier = move[2]]
    /\ UNCHANGED <<releases, building, file, synced, prs, locals>>

\* The version job of a dispatch: the tags are read here...  The commit was
\* fixed a little earlier, when the run was dispatched; the time until the job
\* starts is left out.
Dispatch(part, channel) ==
    LET tags == DOMAIN releases IN
    /\ Cardinality(tags) + Cardinality(building) < MaxTags
    /\ ~Refused(tags, part, channel)
    /\ building' = building \cup {[tag |-> NextVersion(tags, part, channel), commit |-> head]}
    /\ UNCHANGED <<head, releases, edits, file, synced, prs, locals>>

\* ...and gh release create runs after the builds and tests, if they pass and
\* no other run has released the tag.
Publish(b) ==
    /\ building' = building \ {b}
    /\ \/ /\ b.tag \notin DOMAIN releases
          /\ releases' = [v \in DOMAIN releases \cup {b.tag} |->
                             IF v = b.tag THEN b.commit ELSE releases[v]]
       \/ UNCHANGED releases
    /\ UNCHANGED <<head, edits, file, synced, prs, locals>>

-----------------------------------------------------------------------------
(***************************************************************************)
(* template_sync.py apply.                                                 *)
(***************************************************************************)

\* Slip: the arguments of git merge-file in another order.
MergeSwapped(base, ours, theirs) ==
    [l \in Lines |-> IF theirs[l] = base[l] THEN theirs[l] ELSE ours[l]]

\* git merge-file, line by line.
Merge(base, ours, theirs) ==
    [l \in Lines |-> IF theirs[l] \in {base[l], ours[l]} THEN ours[l]
                     ELSE IF ours[l] = base[l] THEN theirs[l] ELSE Conflict]

\* apply_replace: the template's file, or its removal.
Replaced(old, new, mine) ==
    IF new # NoFile THEN new ELSE IF old # NoFile THEN NoFile ELSE mine

\* apply_merge: never deleted, copied when it is not there, left alone when the
\* template has not changed it, else merged; a new file has an empty base.
Merged(old, new, mine) ==
    CASE new = NoFile  -> mine
      [] new # NoFile /\ mine = NoFile -> new
      [] new # NoFile /\ mine # NoFile /\ new = old -> mine
      [] OTHER -> Merge(old, mine, new)

\* cmd_apply: the tiers are those of the new release's manifest.
Applied(old, new, mine) ==
    CASE new.tier = "replace" -> Replaced(old.file, new.file, mine)
      [] new.tier = "merge"   -> Merged(old.file, new.file, mine)
      [] new.tier = "ignore"  -> mine

-----------------------------------------------------------------------------
(***************************************************************************)
(* The instance.                                                           *)
(***************************************************************************)
Latest == LatestTag(DOMAIN releases, Channel)

\* What a run of the workflow commits to its branch: the tiers applied, between
\* the two checkouts, to the main it has checked out.
SyncBranch(state) ==
    [tag |-> Latest, from |-> synced, base |-> file,
     file |-> Applied(releases[synced], releases[Latest], file),
     resolved |-> {}, state |-> state]

\* The run goes on: there is a newer tag in the channel (an empty channel ends
\* it) and no branch of that name at origin, which would refuse the push.
MaySync ==
    /\ Len(prs) < MaxSyncs
    /\ OfChannel(DOMAIN releases, Channel) # {} /\ Latest # synced
    /\ \A k \in DOMAIN prs : prs[k].tag # Latest

\* Slip: the state file is committed to main by the run itself.
SyncWritesState ==
    /\ MaySync
    /\ prs' = Append(prs, [SyncBranch("open") EXCEPT !.from = Latest])
    /\ synced' = Latest
    /\ UNCHANGED <<head, releases, building, edits, file, locals>>

\* Slip: every run pushes to the same branch.
SyncOneBranch ==
    /\ MaySync /\ prs = <<>>
    /\ \E state \in {"open", "none"} : prs' = Append(prs, SyncBranch(state))
    /\ UNCHANGED <<head, releases, building, edits, file, synced, locals>>

\* One run of the workflow.  The PR carries the new synced_tag; if it cannot be
\* opened, the branch is left behind.
Sync ==
    /\ MaySync
    /\ \E state \in {"open", "none"} : prs' = Append(prs, SyncBranch(state))
    /\ UNCHANGED <<head, releases, building, edits, file, synced, locals>>

\* People of the instance change a line or remove the file.
EditInstance ==
    /\ locals < MaxLocal
    /\ locals' = locals + 1
    /\ \/ \E l \in Lines : file' = [file EXCEPT ![l] = Local]
       \/ file' = NoFile
    /\ UNCHANGED <<head, releases, building, edits, synced, prs>>

\* They resolve the conflicts of a PR, line by line, either way...
Resolve(k) ==
    /\ prs[k].state = "open"
    /\ \E l \in Lines : \E text \in {Local, releases[prs[k].tag].file[l]} :
          /\ prs[k].file[l] = Conflict
          /\ prs' = [prs EXCEPT ![k].file[l] = text, ![k].resolved = @ \cup {l}]
    /\ UNCHANGED <<head, releases, building, edits, file, synced, locals>>

\* ...bring a PR up to date with a main that has moved on...
UpdatePR(k) ==
    /\ prs[k].state = "open" /\ prs[k].base # file
    /\ prs[k].from = synced
    /\ \A l \in Lines : prs[k].file[l] # Conflict
    /\ prs' = [prs EXCEPT ![k].base = file, ![k].file = Merge(prs[k].base, file, prs[k].file)]
    /\ UNCHANGED <<head, releases, building, edits, file, synced, locals>>

\* ...and merge it: not with conflict markers in it, and not when main has
\* another synced_tag by now, on which git conflicts.
MergePR(k) ==
    /\ prs[k].state = "open" /\ prs[k].base = file
    /\ prs[k].from = synced
    /\ \A l \in Lines : prs[k].file[l] # Conflict
    /\ file' = prs[k].file
    /\ synced' = prs[k].tag
    /\ prs' = [prs EXCEPT ![k].state = "merged"]
    /\ UNCHANGED <<head, releases, building, edits, locals>>

\* ...then they close it and delete its branch, and a later run starts again.
ClosePR(k) ==
    /\ prs[k].state = "open" /\ prs[k].from # synced
    /\ prs' = RemoveAt(prs, k)
    /\ UNCHANGED <<head, releases, building, edits, file, synced, locals>>

Next ==
    \/ EditTemplate
    \/ \E part \in Bumps, channel \in Kinds : Dispatch(part, channel)
    \/ \E b \in building : Publish(b)
    \/ Sync
    \/ EditInstance
    \/ \E k \in DOMAIN prs : Resolve(k) \/ UpdatePR(k) \/ MergePR(k) \/ ClosePR(k)

\* The schedule keeps starting runs, and people look after their PRs.
Fairness ==
    /\ WF_vars(Sync)
    /\ WF_vars(\E k \in DOMAIN prs : Resolve(k) \/ UpdatePR(k) \/ MergePR(k) \/ ClosePR(k))

Spec == Init /\ [][Next]_vars /\ Fairness

-----------------------------------------------------------------------------
(***************************************************************************)
(* Properties.                                                             *)
(***************************************************************************)

\* Whatever tags concurrent release runs have left behind, a version that is
\* computed is new, a full release is above every other one, and "none"
\* promotes to a version above every tag (release.yml: "to promote one straight
\* to a full release").
VersionsMoveOn ==
    LET tags == DOMAIN releases IN
    \A part \in Bumps, channel \in Kinds :
        LET v == NextVersion(tags, part, channel) IN
        ~Refused(tags, part, channel) =>
            /\ v \notin tags
            /\ \A w \in tags : /\ channel = w.channel /\ w.base = v.base => Precedes(w, v)
                               /\ channel = "stable" /\ w.channel = "stable" => Precedes(w, v)
                               /\ channel = "stable" /\ part = "none" => Precedes(w, v)

\* What the instance has of a file the template looks after is the template's
\* text at synced_tag, or its own: a text of an older release would pass for a
\* change people have made, in every later merge.
NoStaleTemplate ==
    releases[synced].tier # "ignore" =>
        \A l \in Lines : releases[synced].file[l] # Empty =>
            file[l] \in {Local, Empty, releases[synced].file[l]}

\* It holds as long as no release of the channel takes the file back that an
\* older one left to the instances.  A manifest that never does is not enough:
\* of two release runs that overlap, the higher version may have the older commit.
NeverTakenBack ==
    \A v, w \in OfChannel(DOMAIN releases, Channel) :
        releases[v].tier = "ignore" /\ Precedes(v, w) => releases[w].tier = "ignore"
FreshUnlessTakenBack == NeverTakenBack => NoStaleTemplate

\* A sync takes a line of the instance away only if the file is the template's
\* alone or people decided so when they resolved a conflict.
LocalEditsSurvive ==
    [][\A k \in DOMAIN prs : MergePR(k) =>
          \A l \in Lines : file[l] = Local /\ file'[l] # Local =>
              l \in prs[k].resolved \/ releases[prs[k].tag].tier = "replace"]_vars

\* An instance that stays on its channel is never synced back to an older
\* version, however many PRs are open and in whatever order they are merged.
SyncNeverGoesBack == [][~Precedes(synced', synced)]_vars

\* As long as every PR can be opened, an instance ends up at the latest tag of
\* its channel.
EveryPROpens == \A k \in DOMAIN prs : prs[k].state # "none"
CatchesUp == []EveryPROpens => <>[](synced = Latest)

-----------------------------------------------------------------------------
\* "opens a PR with the result" (docs/TEMPLATE.md): a run that cannot, leaves a
\* branch that refuses the push of every later one (SyncLeftBranch.cfg).
AlwaysCatchesUp == <>[](synced = Latest)

=============================================================================
