------------------------- MODULE TemplateSyncProofs -------------------------
(***************************************************************************)
(* For any file, texts and manifests, and any number of releases, commits  *)
(* and syncs: versions move on and syncs follow them, a file that is       *)
(* looked after stays fresh unless it was taken back, and no merged sync   *)
(* takes away what the instance wrote.                                     *)
(*                                                                         *)
(* The versions are totally ordered as the scripts sort them, but that any *)
(* set of tags has a highest one would need induction; instead it is part  *)
(* of the invariant (Maximal), kept by each release.  A branch is bound to *)
(* main by three facts: what the instance had written when it was taken is *)
(* in it (Retained), only the instance has changed main since (Followed),  *)
(* because a merge changes synced_tag and only upwards (Onward), and its   *)
(* texts are of its tag (Fresh).                                           *)
(***************************************************************************)
EXTENDS TemplateSync, SequenceTheorems, TLAPS

\* The versions there can be, without the bounds of a run.
Semver == {v \in [base : Nat \X Nat \X Nat, channel : Channels, num : Nat] :
                v.num = 0 <=> v.channel = "stable"}

\* A sync branch, with any tags.
Branch == [tag : Semver, from : Semver, base : File, file : File,
           resolved : SUBSET Lines, state : {"open", "merged", "none"}]

Types ==
    /\ head \in Commit
    /\ DOMAIN releases \subseteq Semver /\ releases \in [DOMAIN releases -> Commit]
    /\ building \subseteq [tag : Semver, commit : Commit]
    /\ file \in [Lines -> Texts \cup {Local, Empty}]
    /\ prs \in Seq(Branch)

\* Whatever tags are chosen from, one is the highest, and one number is.
Maximal ==
    \A S \in SUBSET DOMAIN releases :
        /\ S # {} => \E v \in S : \A w \in S : ~Precedes(v, w)
        /\ \E m \in {0} \cup {v.num : v \in S} : \A v \in S : m >= v.num

\* An instance is at a tag of its channel, and a branch takes it from where it
\* is or was to a higher one.
Onward ==
    LET tags == OfChannel(DOMAIN releases, Channel) IN
    /\ synced \in tags
    /\ \A k \in DOMAIN prs :
          /\ prs[k].from \in tags /\ prs[k].tag \in tags
          /\ Precedes(prs[k].from, prs[k].tag)
          /\ prs[k].from = synced \/ Precedes(prs[k].from, synced)

\* What the instance wrote is in a branch, or in conflict, or was given up.
Retained(p) ==
    p.state = "open" /\ releases[p.tag].tier # "replace" =>
        \A l \in Lines : p.base[l] = Local =>
            p.file[l] \in {Local, Conflict} \/ l \in p.resolved

\* Only people of the instance have changed main since the branch was taken
\* from it, or brought up to date.
Followed(p) ==
    p.state = "open" /\ p.from = synced =>
        \A l \in Lines : file[l] \in {p.base[l], Local, Empty}

\* A text is of the release, or of the instance.
Fresh(text, tag) ==
    releases[tag].tier # "ignore" =>
        \A l \in Lines : releases[tag].file[l] # Empty =>
            text[l] \in {Local, Empty, Conflict, releases[tag].file[l]}

IInv ==
    /\ Types
    /\ Maximal
    /\ Onward
    /\ \A k \in DOMAIN prs : Retained(prs[k]) /\ Followed(prs[k])
    /\ NeverTakenBack =>
          /\ Fresh(file, synced)
          /\ \A k \in DOMAIN prs : prs[k].state = "open" => Fresh(prs[k].file, prs[k].tag)

-----------------------------------------------------------------------------
(***************************************************************************)
(* The order of versions.                                                  *)
(***************************************************************************)
LEMMA VersionTypes ==
    ASSUME NEW v \in Semver
    PROVE  /\ v.base = <<v.base[1], v.base[2], v.base[3]>>
           /\ v.base[1] \in Nat /\ v.base[2] \in Nat /\ v.base[3] \in Nat
           /\ v.channel \in Channels /\ v.num \in Nat
           /\ v.num = 0 <=> v.channel = "stable"
           /\ v = [base |-> v.base, channel |-> v.channel, num |-> v.num]
<1>1. v \in [base : Nat \X Nat \X Nat, channel : Channels, num : Nat]
    BY DEF Semver
<1>2. v.base \in Nat \X Nat \X Nat
    BY <1>1
<1>3. v.num = 0 <=> v.channel = "stable"
    BY DEF Semver
<1> QED
    BY <1>1, <1>2, <1>3

\* PRE_ORDER orders the channels, a full release above all.
LEMMA RankIsRank ==
    /\ \A c \in Channels : PreRank(c) \in 0..3 /\ (PreRank(c) = 3 <=> c = "stable")
    /\ \A c, d \in Channels : PreRank(c) = PreRank(d) => c = d
<1>1. /\ PreRank("alpha") = 0 /\ PreRank("beta") = 1
      /\ PreRank("rc") = 2 /\ PreRank("stable") = 3
    BY DEF PreRank
<1> QED
    BY <1>1 DEF Channels

\* Python compares tuples from the left.
LEMMA LessIsLexicographic ==
    ASSUME NEW s, NEW t, DOMAIN s = 1..5
    PROVE  TupleLess(s, t) <=>
               \/ s[1] < t[1]
               \/ s[1] = t[1] /\ s[2] < t[2]
               \/ s[1] = t[1] /\ s[2] = t[2] /\ s[3] < t[3]
               \/ s[1] = t[1] /\ s[2] = t[2] /\ s[3] = t[3] /\ s[4] < t[4]
               \/ s[1] = t[1] /\ s[2] = t[2] /\ s[3] = t[3] /\ s[4] = t[4] /\ s[5] < t[5]
<1> DEFINE L(i) == s[i] < t[i] /\ \A j \in 1..(i - 1) : s[j] = t[j]
<1>1. TupleLess(s, t) <=> \E i \in 1..5 : L(i)
    BY DEF TupleLess
<1>2. L(1) <=> s[1] < t[1]
    OBVIOUS
<1>3. L(2) <=> s[1] = t[1] /\ s[2] < t[2]
    <2>1. 1..(2 - 1) = {1}
        OBVIOUS
    <2> QED
        BY <2>1
<1>4. L(3) <=> s[1] = t[1] /\ s[2] = t[2] /\ s[3] < t[3]
    <2>1. 1..(3 - 1) = {1, 2}
        OBVIOUS
    <2> QED
        BY <2>1
<1>5. L(4) <=> s[1] = t[1] /\ s[2] = t[2] /\ s[3] = t[3] /\ s[4] < t[4]
    <2>1. 1..(4 - 1) = {1, 2, 3}
        OBVIOUS
    <2> QED
        BY <2>1
<1>6. L(5) <=> s[1] = t[1] /\ s[2] = t[2] /\ s[3] = t[3] /\ s[4] = t[4] /\ s[5] < t[5]
    <2>1. 1..(5 - 1) = {1, 2, 3, 4}
        OBVIOUS
    <2> QED
        BY <2>1
<1> HIDE DEF L
<1>7. (\E i \in 1..5 : L(i)) <=> L(1) \/ L(2) \/ L(3) \/ L(4) \/ L(5)
    <2>1. 1..5 = {1, 2, 3, 4, 5}
        OBVIOUS
    <2> QED
        BY <2>1, Zenon
<1> QED
    BY <1>1, <1>2, <1>3, <1>4, <1>5, <1>6, <1>7

\* SemVer precedence is the order the scripts sort by.
LEMMA PrecedesIsLexicographic ==
    ASSUME NEW v \in Semver, NEW w \in Semver
    PROVE  /\ Precedes(v, w) <=> Below(v, w)
           /\ Precedes(v, w) <=>
                  \/ v.base[1] < w.base[1]
                  \/ v.base[1] = w.base[1] /\ v.base[2] < w.base[2]
                  \/ v.base[1] = w.base[1] /\ v.base[2] = w.base[2] /\ v.base[3] < w.base[3]
                  \/ /\ v.base = w.base /\ PreRank(v.channel) < PreRank(w.channel)
                  \/ /\ v.base = w.base /\ v.channel = w.channel /\ v.num < w.num
<1>1. Precedes(v, w) <=> Below(v, w)
    BY DEF Precedes, Below, SortKey
<1>2. /\ PreRank(v.channel) \in 0..3 /\ PreRank(w.channel) \in 0..3
      /\ PreRank(v.channel) = PreRank(w.channel) => v.channel = w.channel
    BY VersionTypes, RankIsRank
<1>3. /\ v.base[1] \in Int /\ v.base[2] \in Int /\ v.base[3] \in Int /\ v.num \in Int
      /\ w.base[1] \in Int /\ w.base[2] \in Int /\ w.base[3] \in Int /\ w.num \in Int
      /\ PreRank(v.channel) \in Int /\ PreRank(w.channel) \in Int
    BY <1>2, VersionTypes
<1>4. Below(v, w) <=>
          \/ v.base[1] < w.base[1]
          \/ v.base[1] = w.base[1] /\ v.base[2] < w.base[2]
          \/ v.base[1] = w.base[1] /\ v.base[2] = w.base[2] /\ v.base[3] < w.base[3]
          \/ /\ v.base[1] = w.base[1] /\ v.base[2] = w.base[2] /\ v.base[3] = w.base[3]
             /\ PreRank(v.channel) < PreRank(w.channel)
          \/ /\ v.base[1] = w.base[1] /\ v.base[2] = w.base[2] /\ v.base[3] = w.base[3]
             /\ PreRank(v.channel) = PreRank(w.channel) /\ v.num < w.num
    <2>1. \A x \in {v, w} : /\ DOMAIN SortKey(x) = 1..5
                            /\ SortKey(x)[1] = x.base[1]
                            /\ SortKey(x)[2] = x.base[2]
                            /\ SortKey(x)[3] = x.base[3]
                            /\ SortKey(x)[4] = PreRank(x.channel)
                            /\ SortKey(x)[5] = x.num
        BY DEF SortKey
    <2> QED
        BY <2>1, LessIsLexicographic DEF Below
<1>5. /\ v.base = <<v.base[1], v.base[2], v.base[3]>>
      /\ w.base = <<w.base[1], w.base[2], w.base[3]>>
    BY VersionTypes
<1>6. v.base = w.base <=>
          v.base[1] = w.base[1] /\ v.base[2] = w.base[2] /\ v.base[3] = w.base[3]
    BY <1>5
<1> QED
    BY <1>1, <1>2, <1>4, <1>6

\* It is a strict order, and total.
LEMMA PrecedesIsAnOrder ==
    ASSUME NEW u \in Semver, NEW v \in Semver, NEW w \in Semver
    PROVE  /\ ~Precedes(v, v)
           /\ Precedes(u, v) /\ Precedes(v, w) => Precedes(u, w)
           /\ Precedes(v, w) \/ Precedes(w, v) \/ v = w
<1>1. /\ PreRank(u.channel) \in Nat /\ PreRank(v.channel) \in Nat /\ PreRank(w.channel) \in Nat
      /\ PreRank(v.channel) = PreRank(w.channel) => v.channel = w.channel
    BY VersionTypes, RankIsRank
<1>2. /\ u.base = <<u.base[1], u.base[2], u.base[3]>>
      /\ v.base = <<v.base[1], v.base[2], v.base[3]>>
      /\ w.base = <<w.base[1], w.base[2], w.base[3]>>
    BY VersionTypes
<1>3. /\ u.base[1] \in Nat /\ u.base[2] \in Nat /\ u.base[3] \in Nat /\ u.num \in Nat
      /\ v.base[1] \in Nat /\ v.base[2] \in Nat /\ v.base[3] \in Nat /\ v.num \in Nat
      /\ w.base[1] \in Nat /\ w.base[2] \in Nat /\ w.base[3] \in Nat /\ w.num \in Nat
    BY VersionTypes
<1>4. v.base = w.base /\ v.channel = w.channel /\ v.num = w.num => v = w
    BY VersionTypes
<1>5. ~Precedes(v, v)
    BY <1>1, <1>3, PrecedesIsLexicographic
<1>6. Precedes(u, v) /\ Precedes(v, w) => Precedes(u, w)
    BY <1>1, <1>3, PrecedesIsLexicographic
<1>7. Precedes(v, w) \/ Precedes(w, v) \/ v = w
    <2>1. v.base = w.base <=>
              v.base[1] = w.base[1] /\ v.base[2] = w.base[2] /\ v.base[3] = w.base[3]
        BY <1>2
    <2> QED
        BY <1>1, <1>3, <1>4, <2>1, PrecedesIsLexicographic
<1> QED
    BY <1>5, <1>6, <1>7

-----------------------------------------------------------------------------
(***************************************************************************)
(* The version that comes next.                                            *)
(***************************************************************************)
\* max() over the tags (compute_next_version.py, template_sync.py).
LEMMA HighestIsHighest ==
    ASSUME Types, Maximal, NEW S \in SUBSET DOMAIN releases, S # {}
    PROVE  Highest(S) \in S /\ \A w \in S : ~Precedes(Highest(S), w)
<1>1. \A v, w \in S : Precedes(v, w) <=> Below(v, w)
    BY PrecedesIsLexicographic DEF Types
<1>2. \E v \in S : \A w \in S : ~Below(v, w)
    BY <1>1 DEF Maximal
<1>3. Highest(S) \in S /\ \A w \in S : ~Below(Highest(S), w)
    BY <1>2 DEF Highest
<1> QED
    BY <1>1, <1>3

\* The next number of a series is above all its numbers.
LEMMA NumbersAreBelow ==
    ASSUME Types, Maximal, NEW base, NEW channel
    PROVE  LET next == NextNumber(DOMAIN releases, base, channel) IN
           /\ next \in Nat \ {0}
           /\ \A w \in DOMAIN releases :
                 w.base = base /\ w.channel = channel => w.num < next
<1> DEFINE S == {w \in DOMAIN releases : w.base = base /\ w.channel = channel}
           nums == {0} \cup {v.num : v \in S}
<1>1. S \in SUBSET DOMAIN releases /\ \A v \in S : v.num \in Nat
    BY VersionTypes DEF Types
<1>2. nums \subseteq Nat
    BY <1>1
<1>3. PICK m \in nums : \A v \in S : m >= v.num
    BY <1>1 DEF Maximal
<1> HIDE DEF S
<1>4. \A n \in nums : m >= n
    BY <1>2, <1>3
<1> HIDE DEF nums
<1>5. Max(nums) \in nums /\ \A n \in nums : Max(nums) >= n
    BY <1>4 DEF Max
<1>6. NextNumber(DOMAIN releases, base, channel) = Max(nums) + 1
    BY DEF NextNumber, nums, S
<1>7. \A w \in S : w.num \in nums
    BY DEF nums
<1>8. \A w \in S : w.num < Max(nums) + 1
    BY <1>1, <1>2, <1>5, <1>7
<1>9. Max(nums) + 1 \in Nat \ {0}
    <2>1. Max(nums) \in Nat
        BY <1>2, <1>5, Zenon
    <2> QED
        BY <2>1
<1>10. \A w \in DOMAIN releases :
          w.base = base /\ w.channel = channel => w.num < Max(nums) + 1
    BY <1>8 DEF S
<1> QED
    BY <1>6, <1>9, <1>10

\* A bump goes up.
LEMMA BumpGoesUp ==
    ASSUME NEW b \in Nat \X Nat \X Nat, NEW part \in {"major", "minor", "patch"}
    PROVE  /\ BumpBase(b, part) \in Nat \X Nat \X Nat
           /\ \/ b[1] < BumpBase(b, part)[1]
              \/ b[1] = BumpBase(b, part)[1] /\ b[2] < BumpBase(b, part)[2]
              \/ /\ b[1] = BumpBase(b, part)[1] /\ b[2] = BumpBase(b, part)[2]
                 /\ b[3] < BumpBase(b, part)[3]
<1>1. b[1] \in Nat /\ b[2] \in Nat /\ b[3] \in Nat
    OBVIOUS
<1>2. CASE part = "major"
    BY <1>1, <1>2 DEF BumpBase
<1>3. CASE part = "minor"
    BY <1>1, <1>3 DEF BumpBase
<1>4. CASE part = "patch"
    BY <1>1, <1>4 DEF BumpBase
<1> QED
    BY <1>2, <1>3, <1>4

LEMMA NextIsSemver ==
    ASSUME Types, Maximal, NEW part \in Parts, NEW channel \in Channels
    PROVE  /\ NextBase(DOMAIN releases, part) \in Nat \X Nat \X Nat
           /\ NextVersion(DOMAIN releases, part, channel) \in Semver
<1> DEFINE tags == DOMAIN releases
           base == NextBase(tags, part)
<1>1. \A S \in SUBSET tags : BaseOfHighest(S) \in Nat \X Nat \X Nat
    <2> SUFFICES ASSUME NEW S \in SUBSET tags PROVE BaseOfHighest(S) \in Nat \X Nat \X Nat
        OBVIOUS
    <2>1. CASE S = {}
        BY <2>1 DEF BaseOfHighest
    <2>2. CASE S # {}
        <3>1. Highest(S) \in Semver
            BY <2>2, HighestIsHighest DEF Types
        <3> QED
            BY <2>2, <3>1 DEF BaseOfHighest, Semver
    <2> QED
        BY <2>1, <2>2
<1>2. tags \in SUBSET tags /\ Finals(tags) \in SUBSET tags
    BY DEF Finals
<1>3. base \in Nat \X Nat \X Nat
    BY <1>1, <1>2, BumpGoesUp DEF NextBase, Parts
<1> HIDE DEF base
<1>4. NextNumber(tags, base, channel) \in Nat \ {0}
    BY NumbersAreBelow
<1>5. NextVersion(tags, part, channel) =
          Version(base, channel, IF channel = "stable" THEN 0 ELSE NextNumber(tags, base, channel))
    BY DEF NextVersion, base
<1>6. NextVersion(tags, part, channel) \in Semver
    BY <1>3, <1>4, <1>5 DEF Version, Semver
<1> QED
    BY <1>3, <1>6 DEF base

\* The three promises about what is computed.
LEMMA NextMovesOn ==
    ASSUME Types, Maximal
    PROVE  VersionsMoveOn
<1> DEFINE tags == DOMAIN releases
<1> SUFFICES ASSUME NEW part \in Bumps, NEW channel \in Kinds, ~Refused(tags, part, channel)
             PROVE  LET v == NextVersion(tags, part, channel) IN
                    /\ v \notin tags
                    /\ \A w \in tags :
                          /\ channel = w.channel /\ w.base = v.base => Precedes(w, v)
                          /\ channel = "stable" /\ w.channel = "stable" => Precedes(w, v)
                          /\ channel = "stable" /\ part = "none" => Precedes(w, v)
    BY DEF VersionsMoveOn
<1> DEFINE base == NextBase(tags, part)
           v == NextVersion(tags, part, channel)
<1>1. part \in Parts /\ channel \in Channels
    BY ChannelsAssumption
<1>2. v \in Semver
    BY <1>1, NextIsSemver
<1>3. v.base = base /\ v.channel = channel
    BY DEF NextVersion, Version
<1>4. channel # "stable" => v.num = NextNumber(tags, base, channel)
    BY DEF NextVersion, Version
<1>5. channel = "stable" => v \notin tags
    BY DEF Refused
<1>6. channel = "stable" /\ part = "none" /\ tags # {} => base = Highest(tags).base
    BY DEF NextBase, BaseOfHighest
<1>7. channel = "stable" /\ part # "none" /\ Finals(tags) # {} =>
          base = BumpBase(Highest(Finals(tags)).base, part)
    BY DEF NextBase, BaseOfHighest
<1> HIDE DEF v, base
<1>8. \A w \in tags : channel # "stable" /\ w.base = base /\ w.channel = channel => w.num < v.num
    BY <1>4, NumbersAreBelow
<1>9. v \notin tags
    <2> SUFFICES ASSUME v \in tags, channel # "stable" PROVE FALSE
        BY <1>5
    <2>1. v.num < v.num /\ v.num \in Nat
        BY <1>2, <1>3, <1>8, VersionTypes
    <2> QED
        BY <2>1
<1>10. ASSUME NEW w \in tags PROVE w \in Semver /\ w # v
    BY <1>9 DEF Types
<1>11. ASSUME NEW w \in tags, channel = w.channel, w.base = v.base
       PROVE  Precedes(w, v)
    <2>1. CASE channel = "stable"
        <3>1. w.num = 0 /\ v.num = 0
            BY <1>2, <1>3, <1>10, <1>11, <2>1, VersionTypes
        <3>2. w = v
            BY <1>2, <1>3, <1>10, <1>11, <3>1, VersionTypes
        <3> QED
            BY <1>10, <3>2
    <2>2. CASE channel # "stable"
        BY <1>2, <1>3, <1>8, <1>10, <1>11, <2>2, PrecedesIsLexicographic
    <2> QED
        BY <2>1, <2>2
<1>12. ASSUME NEW w \in tags, channel = "stable", part = "none"
       PROVE  Precedes(w, v)
    <2> DEFINE h == Highest(tags)
    <2>1. h \in tags /\ ~Precedes(h, w)
        BY <1>12, HighestIsHighest
    <2>2. v.base = h.base
        BY <1>3, <1>6, <1>12
    <2> HIDE DEF h
    <2>3. h \in Semver /\ h # v /\ w \in Semver
        BY <1>10, <2>1
    <2>4. Precedes(h, v)
        <3>1. CASE h.channel = "stable"
            BY <1>3, <1>11, <1>12, <2>1, <2>2, <3>1
        <3>2. CASE h.channel # "stable"
            <4>1. h.channel \in Channels /\ v.channel = "stable" /\ "stable" \in Channels
                BY <1>3, <1>12, <2>3, VersionTypes DEF Channels
            <4>2. PreRank(h.channel) \in 0..3 /\ PreRank(h.channel) # 3 /\ PreRank(v.channel) = 3
                BY <3>2, <4>1, RankIsRank
            <4>3. PreRank(h.channel) < PreRank(v.channel)
                BY <4>2
            <4> QED
                BY <1>2, <2>2, <2>3, <4>3, PrecedesIsLexicographic
        <3> QED
            BY <3>1, <3>2
    <2>5. Precedes(w, h) \/ w = h
        BY <2>1, <2>3, PrecedesIsAnOrder
    <2> QED
        BY <1>2, <2>3, <2>4, <2>5, PrecedesIsAnOrder
<1>13. ASSUME NEW w \in tags, channel = "stable", w.channel = "stable", part # "none"
       PROVE  Precedes(w, v)
    <2> DEFINE h == Highest(Finals(tags))
    <2>1. w \in Finals(tags) /\ Finals(tags) \in SUBSET tags
        BY <1>13 DEF Finals
    <2>2. h \in Finals(tags) /\ ~Precedes(h, w)
        BY <2>1, HighestIsHighest
    <2>3. v.base = BumpBase(h.base, part)
        BY <1>3, <1>7, <1>13, <2>1
    <2> HIDE DEF h
    <2>4. h \in Semver /\ w \in Semver
        BY <1>10, <2>1, <2>2
    <2>5. h.base \in Nat \X Nat \X Nat /\ part \in {"major", "minor", "patch"}
        BY <1>1, <1>13, <2>4 DEF Semver, Parts
    <2>6. Precedes(h, v)
        BY <1>2, <2>3, <2>4, <2>5, BumpGoesUp, PrecedesIsLexicographic
    <2>7. Precedes(w, h) \/ w = h
        BY <2>2, <2>4, PrecedesIsAnOrder
    <2> QED
        BY <1>2, <2>4, <2>6, <2>7, PrecedesIsAnOrder
<1> QED
    BY <1>9, <1>11, <1>12, <1>13, <1>3 DEF v

-----------------------------------------------------------------------------
(***************************************************************************)
(* What a sync makes of a file.                                            *)
(***************************************************************************)
\* The instance's file is one without conflicts.
Lived == [Lines -> Texts \cup {Local, Empty}]

LEMMA WordsDiffer ==
    /\ Local # Empty /\ Local # Conflict /\ Empty # Conflict
    /\ Local \notin Texts /\ Conflict \notin Texts /\ Empty \notin Texts
BY TextsAssumption DEF Local, Empty, Conflict

LEMMA MergeLine ==
    ASSUME NEW base, NEW ours, NEW theirs, NEW l \in Lines
    PROVE  \/ theirs[l] \in {base[l], ours[l]} /\ Merge(base, ours, theirs)[l] = ours[l]
           \/ ours[l] = base[l] /\ Merge(base, ours, theirs)[l] = theirs[l]
           \/ Merge(base, ours, theirs)[l] = Conflict
BY DEF Merge

LEMMA MergeIsFile ==
    ASSUME NEW base, NEW ours \in File, NEW theirs \in File
    PROVE  Merge(base, ours, theirs) \in File
BY DEF Merge, File

LEMMA MergedCases ==
    ASSUME NEW old, NEW new, NEW mine
    PROVE  \/ new = NoFile /\ Merged(old, new, mine) = mine
           \/ new # NoFile /\ mine = NoFile /\ Merged(old, new, mine) = new
           \/ new # NoFile /\ new = old /\ Merged(old, new, mine) = mine
           \/ new # NoFile /\ Merged(old, new, mine) = Merge(old, mine, new)
BY DEF Merged

LEMMA AppliedIsFile ==
    ASSUME NEW old \in Commit, NEW new \in Commit, NEW mine \in Lived
    PROVE  Applied(old, new, mine) \in File
<1>1. new.file \in File /\ old.file \in File /\ mine \in File /\ NoFile \in File
    BY DEF Commit, File, Lived, NoFile
<1>2. Replaced(old.file, new.file, mine) \in File
    BY <1>1 DEF Replaced
<1>3. Merged(old.file, new.file, mine) \in File
    BY <1>1, MergedCases, MergeIsFile
<1>4. new.tier \in {"replace", "merge", "ignore"}
    BY DEF Commit, Tiers
<1> QED
    BY <1>1, <1>2, <1>3, <1>4 DEF Applied

\* Unless the file is the template's, a line the instance wrote stays, or is in
\* conflict.
LEMMA AppliedKeepsLocal ==
    ASSUME NEW old \in Commit, NEW new \in Commit, NEW mine \in Lived, new.tier # "replace",
           NEW l \in Lines, mine[l] = Local
    PROVE  Applied(old, new, mine)[l] \in {Local, Conflict}
<1>1. new.tier \in {"merge", "ignore"}
    BY DEF Commit, Tiers
<1>2. CASE new.tier = "ignore"
    BY <1>2 DEF Applied
<1>3. CASE new.tier = "merge"
    <2>1. Applied(old, new, mine) = Merged(old.file, new.file, mine)
        BY <1>3 DEF Applied
    <2>2. mine # NoFile
        BY WordsDiffer DEF NoFile
    <2>3. old.file[l] # Local
        BY WordsDiffer DEF Commit
    <2>4. Merge(old.file, mine, new.file)[l] \in {Local, Conflict}
        BY <2>3, MergeLine
    <2> QED
        BY <2>1, <2>2, <2>4, MergedCases
<1> QED
    BY <1>1, <1>2, <1>3

\* A file that was fresh is again.
LEMMA AppliedIsFresh ==
    ASSUME NEW old \in Commit, NEW new \in Commit, NEW mine \in Lived,
           new.tier # "ignore", NEW l \in Lines, new.file[l] # Empty,
           old.file[l] # Empty => mine[l] \in {Local, Empty, Conflict, old.file[l]}
    PROVE  Applied(old, new, mine)[l] \in {Local, Empty, Conflict, new.file[l]}
<1>1. new.tier \in {"merge", "replace"}
    BY DEF Commit, Tiers
<1>2. new.file # NoFile
    BY DEF NoFile
<1>3. CASE new.tier = "replace"
    BY <1>2, <1>3 DEF Applied, Replaced
<1>4. CASE new.tier = "merge"
    <2>1. Applied(old, new, mine) = Merged(old.file, new.file, mine)
        BY <1>4 DEF Applied
    <2>2. Merge(old.file, mine, new.file)[l] \in {Local, Empty, Conflict, new.file[l]}
        BY MergeLine
    <2>3. new.file = old.file => mine[l] \in {Local, Empty, Conflict, new.file[l]}
        OBVIOUS
    <2> QED
        BY <1>2, <2>1, <2>2, <2>3, MergedCases
<1> QED
    BY <1>1, <1>3, <1>4

-----------------------------------------------------------------------------
(***************************************************************************)
(* The kinds of step.                                                      *)
(***************************************************************************)
LEMMA Unchanging ==
    ASSUME IInv, Types', UNCHANGED <<releases, file, synced, prs>>
    PROVE  IInv'
BY DEF IInv, Maximal, Onward, Retained, Followed, Fresh, NeverTakenBack

LEMMA EditingTemplate ==
    ASSUME IInv, EditTemplate
    PROVE  IInv'
<1>1. UNCHANGED <<releases, building, file, synced, prs>>
    BY DEF EditTemplate
<1>2. head \in Commit
    BY DEF IInv, Types
<1>3. head' \in Commit
    <2>1. ASSUME NEW l \in Lines, NEW t \in Texts, head' = [head EXCEPT !.file[l] = t]
          PROVE  head' \in Commit
        BY <1>2, <2>1 DEF Commit
    <2>2. ASSUME head' = [head EXCEPT !.file = NoFile] PROVE head' \in Commit
        BY <1>2, <2>2 DEF Commit, NoFile
    <2>3. ASSUME NEW move \in TierMoves, head' = [head EXCEPT !.tier = move[2]]
          PROVE  head' \in Commit
        <3>1. move[2] \in Tiers
            BY TiersAssumption
        <3> QED
            BY <1>2, <2>3, <3>1 DEF Commit
    <2> QED
        BY <2>1, <2>2, <2>3 DEF EditTemplate
<1>4. Types'
    BY <1>1, <1>3 DEF IInv, Types
<1> QED
    BY <1>1, <1>4, Unchanging

LEMMA Dispatching ==
    ASSUME IInv, NEW part \in Bumps, NEW channel \in Kinds, Dispatch(part, channel)
    PROVE  IInv'
<1>1. UNCHANGED <<head, releases, file, synced, prs>>
    BY DEF Dispatch
<1> DEFINE new == [tag |-> NextVersion(DOMAIN releases, part, channel), commit |-> head]
<1>2. building' = building \cup {new}
    BY DEF Dispatch
<1>3. new \in [tag : Semver, commit : Commit]
    BY NextIsSemver, ChannelsAssumption DEF IInv, Types
<1> HIDE DEF new
<1>4. Types'
    BY <1>1, <1>2, <1>3 DEF IInv, Types
<1> QED
    BY <1>1, <1>4, Unchanging

LEMMA Publishing ==
    ASSUME IInv, NEW b \in building, Publish(b)
    PROVE  IInv'
<1>1. UNCHANGED <<head, file, synced, prs>> /\ building' \subseteq building
    BY DEF Publish
<1>2. CASE UNCHANGED releases
    BY <1>1, <1>2, Unchanging DEF IInv, Types
<1>3. CASE /\ b.tag \notin DOMAIN releases
           /\ releases' = [v \in DOMAIN releases \cup {b.tag} |->
                              IF v = b.tag THEN b.commit ELSE releases[v]]
    <2>1. b.tag \in Semver /\ b.commit \in Commit
        BY DEF IInv, Types
    <2>2. /\ DOMAIN releases' = DOMAIN releases \cup {b.tag}
          /\ releases'[b.tag] = b.commit
          /\ \A v \in DOMAIN releases : releases'[v] = releases[v]
        BY <1>3
    <2>3. releases' \in [DOMAIN releases' -> Commit] /\ DOMAIN releases' \subseteq Semver
        <3>1. \A v \in DOMAIN releases : releases[v] \in Commit
            BY DEF IInv, Types
        <3>2. DOMAIN releases \subseteq Semver
            BY DEF IInv, Types
        <3> QED
            BY <1>3, <2>1, <2>2, <3>1, <3>2
    <2>4. Types'
        BY <1>1, <2>3 DEF IInv, Types
    <2>5. Maximal'
        <3> SUFFICES ASSUME NEW S \in SUBSET DOMAIN releases'
                     PROVE  /\ S # {} => \E v \in S : \A w \in S : ~Precedes(v, w)
                            /\ \E m \in {0} \cup {v.num : v \in S} : \A v \in S : m >= v.num
            BY DEF Maximal
        <3> DEFINE T == S \ {b.tag}
        <3>1. T \in SUBSET DOMAIN releases /\ S \subseteq T \cup {b.tag} /\ T \subseteq S
            BY <2>2
        <3>2. \A v \in S : v \in Semver /\ v.num \in Nat
            BY <2>3, VersionTypes
        <3> HIDE DEF T
        <3>3. ASSUME S # {} PROVE \E v \in S : \A w \in S : ~Precedes(v, w)
            <4>1. CASE b.tag \notin S
                BY <3>1, <3>3, <4>1 DEF IInv, Maximal
            <4>2. CASE b.tag \in S
                <5>1. CASE T = {}
                    BY <2>1, <3>1, <4>2, <5>1, PrecedesIsAnOrder
                <5>2. CASE T # {}
                    <6>1. PICK h \in T : \A w \in T : ~Precedes(h, w)
                        BY <3>1, <5>2 DEF IInv, Maximal
                    <6>2. CASE Precedes(h, b.tag)
                        <7>1. \A w \in T : ~Precedes(b.tag, w)
                            BY <2>1, <3>1, <3>2, <6>1, <6>2, PrecedesIsAnOrder
                        <7> QED
                            BY <2>1, <3>1, <4>2, <7>1, PrecedesIsAnOrder
                    <6>3. CASE ~Precedes(h, b.tag)
                        BY <3>1, <6>1, <6>3
                    <6> QED
                        BY <6>2, <6>3
                <5> QED
                    BY <5>1, <5>2
            <4> QED
                BY <4>1, <4>2
        <3>4. \E m \in {0} \cup {v.num : v \in S} : \A v \in S : m >= v.num
            <4>1. PICK m \in {0} \cup {v.num : v \in T} : \A v \in T : m >= v.num
                BY <3>1 DEF IInv, Maximal
            <4>2. m \in Nat /\ m \in {0} \cup {v.num : v \in S}
                BY <3>1, <3>2, <4>1
            <4>3. CASE \A v \in S : m >= v.num
                BY <4>2, <4>3
            <4>4. CASE \E v \in S : ~(m >= v.num)
                <5>1. b.tag \in S /\ ~(m >= b.tag.num)
                    BY <3>1, <4>1, <4>4
                <5>2. b.tag.num \in {0} \cup {v.num : v \in S}
                    BY <5>1
                <5>3. \A v \in S : b.tag.num >= v.num
                    BY <3>1, <3>2, <4>1, <4>2, <5>1
                <5> QED
                    BY <5>2, <5>3
            <4> QED
                BY <4>3, <4>4
        <3> QED
            BY <3>3, <3>4
    <2>6. \A v \in OfChannel(DOMAIN releases, Channel) :
             v \in OfChannel(DOMAIN releases', Channel) /\ releases'[v] = releases[v]
        BY <2>2 DEF OfChannel
    <2>7. Onward'
        BY <1>1, <2>6 DEF IInv, Onward
    <2>8. /\ synced \in OfChannel(DOMAIN releases, Channel)
          /\ \A k \in DOMAIN prs : prs[k].tag \in OfChannel(DOMAIN releases, Channel)
        BY DEF IInv, Onward
    <2>9. \A k \in DOMAIN prs' : Retained(prs[k])' /\ Followed(prs[k])'
        BY <1>1, <2>6, <2>8 DEF IInv, Retained, Followed
    <2>10. NeverTakenBack' => NeverTakenBack
        BY <2>6 DEF NeverTakenBack
    <2>11. NeverTakenBack' =>
              /\ Fresh(file, synced)'
              /\ \A k \in DOMAIN prs' : prs'[k].state = "open" => Fresh(prs[k].file, prs[k].tag)'
        <3> SUFFICES ASSUME NeverTakenBack
                     PROVE  /\ Fresh(file, synced)'
                            /\ \A k \in DOMAIN prs' :
                                  prs'[k].state = "open" => Fresh(prs[k].file, prs[k].tag)'
            BY <2>10
        <3>1. /\ Fresh(file, synced)
              /\ \A k \in DOMAIN prs : prs[k].state = "open" => Fresh(prs[k].file, prs[k].tag)
            BY DEF IInv
        <3>2. Fresh(file, synced)'
            BY <1>1, <2>6, <2>8, <3>1 DEF Fresh
        <3>3. ASSUME NEW k \in DOMAIN prs', prs'[k].state = "open"
              PROVE  Fresh(prs[k].file, prs[k].tag)'
            <4>1. /\ prs'[k] = prs[k] /\ releases'[prs[k].tag] = releases[prs[k].tag]
                  /\ Fresh(prs[k].file, prs[k].tag)
                BY <1>1, <2>6, <2>8, <3>1, <3>3
            <4> QED
                BY <4>1 DEF Fresh
        <3> QED
            BY <3>2, <3>3
    <2> QED
        BY <2>4, <2>5, <2>7, <2>9, <2>11 DEF IInv
<1> QED
    BY <1>2, <1>3 DEF Publish

\* A branch is rewritten.
LEMMA Rewriting ==
    ASSUME IInv, NEW k \in DOMAIN prs, NEW p \in Branch, prs' = [prs EXCEPT ![k] = p],
           p.tag = prs[k].tag, p.from = prs[k].from,
           UNCHANGED <<head, releases, building, file, synced>>,
           Retained(p), Followed(p),
           NeverTakenBack /\ p.state = "open" => Fresh(p.file, p.tag)
    PROVE  IInv'
<1>1. prs \in Seq(Branch) /\ k \in 1..Len(prs) /\ Len(prs) \in Nat
    BY DEF IInv, Types
<1>2. /\ prs' \in Seq(Branch) /\ DOMAIN prs' = DOMAIN prs
      /\ prs'[k] = p /\ \A j \in DOMAIN prs : j # k => prs'[j] = prs[j]
    BY <1>1
<1>3. Types' /\ Maximal'
    BY <1>2 DEF IInv, Types, Maximal
<1>4. Onward'
    BY <1>2 DEF IInv, Onward
<1>5. \A j \in DOMAIN prs' : Retained(prs[j])' /\ Followed(prs[j])'
    <2> SUFFICES ASSUME NEW j \in DOMAIN prs' PROVE Retained(prs[j])' /\ Followed(prs[j])'
        OBVIOUS
    <2>1. Retained(prs'[j]) /\ Followed(prs'[j])
        BY <1>2 DEF IInv
    <2> QED
        BY <2>1 DEF Retained, Followed
<1>6. NeverTakenBack' =>
          /\ Fresh(file, synced)'
          /\ \A j \in DOMAIN prs' : prs'[j].state = "open" => Fresh(prs[j].file, prs[j].tag)'
    <2> SUFFICES ASSUME NeverTakenBack
                 PROVE  /\ Fresh(file, synced)'
                        /\ \A j \in DOMAIN prs' :
                              prs'[j].state = "open" => Fresh(prs[j].file, prs[j].tag)'
        BY DEF NeverTakenBack
    <2>1. \A j \in DOMAIN prs' : prs'[j].state = "open" => Fresh(prs'[j].file, prs'[j].tag)
        BY <1>2 DEF IInv
    <2>2. Fresh(file, synced)'
        BY DEF IInv, Fresh
    <2>3. \A j \in DOMAIN prs' :
              Fresh(prs'[j].file, prs'[j].tag) => Fresh(prs[j].file, prs[j].tag)'
        BY DEF Fresh
    <2> QED
        BY <2>1, <2>2, <2>3
<1> QED
    BY <1>3, <1>4, <1>5, <1>6 DEF IInv

LEMMA Syncing ==
    ASSUME IInv, Sync
    PROVE  IInv'
<1> DEFINE tags == DOMAIN releases
           old == releases[synced]
           new == releases[Latest]
<1>1. PICK state \in {"open", "none"} : prs' = Append(prs, SyncBranch(state))
    BY DEF Sync
<1> DEFINE p == SyncBranch(state)
<1>2. UNCHANGED <<head, releases, building, file, synced>> /\ Latest # synced
    BY DEF Sync, MaySync
<1>3. OfChannel(tags, Channel) \in SUBSET tags /\ OfChannel(tags, Channel) # {}
    BY DEF Sync, MaySync, OfChannel
<1>4. /\ Latest \in OfChannel(tags, Channel)
      /\ \A w \in OfChannel(tags, Channel) : ~Precedes(Latest, w)
    BY <1>3, HighestIsHighest DEF IInv, Latest, LatestTag
<1>5. synced \in OfChannel(tags, Channel)
    BY DEF IInv, Onward
<1>6. Latest \in Semver /\ synced \in Semver /\ old \in Commit /\ new \in Commit
    BY <1>3, <1>4, <1>5 DEF IInv, Types
<1>7. Precedes(synced, Latest)
    BY <1>2, <1>4, <1>5, <1>6, PrecedesIsAnOrder
<1>8. file \in Lived /\ file \in File
    BY DEF IInv, Types, Lived, File
<1>9. /\ p.tag = Latest /\ p.from = synced /\ p.base = file
      /\ p.file = Applied(old, new, file) /\ p.state = state
    BY DEF SyncBranch
<1>10. p \in Branch
    BY <1>6, <1>8, AppliedIsFile DEF SyncBranch, Branch
<1> HIDE DEF p
<1>11. Retained(p)
    BY <1>6, <1>8, <1>9, AppliedKeepsLocal DEF Retained
<1>12. Followed(p)
    BY <1>9 DEF Followed
<1>13. NeverTakenBack => Fresh(p.file, p.tag)
    <2> SUFFICES ASSUME NeverTakenBack, new.tier # "ignore",
                        NEW l \in Lines, new.file[l] # Empty
                 PROVE  Applied(old, new, file)[l] \in {Local, Empty, Conflict, new.file[l]}
        BY <1>9 DEF Fresh
    <2>1. old.tier # "ignore"
        BY <1>4, <1>5, <1>7 DEF NeverTakenBack
    <2>2. old.file[l] # Empty => file[l] \in {Local, Empty, Conflict, old.file[l]}
        BY <2>1 DEF IInv, Fresh
    <2> QED
        BY <1>6, <1>8, <2>2, AppliedIsFresh
<1>14. /\ prs' \in Seq(Branch) /\ prs \in Seq(Branch)
       /\ DOMAIN prs' = 1..(Len(prs) + 1) /\ DOMAIN prs = 1..Len(prs) /\ Len(prs) \in Nat
       /\ prs'[Len(prs) + 1] = p /\ \A k \in DOMAIN prs : prs'[k] = prs[k]
    BY <1>1, <1>10 DEF IInv, Types, p
<1>15. ASSUME NEW k \in DOMAIN prs' PROVE (k \in DOMAIN prs /\ prs'[k] = prs[k]) \/ prs'[k] = p
    BY <1>14
<1>16. Types' /\ Maximal'
    BY <1>2, <1>14 DEF IInv, Types, Maximal
<1>17. Onward'
    <2> SUFFICES ASSUME NEW k \in DOMAIN prs'
                 PROVE  /\ prs'[k].from \in OfChannel(tags, Channel)
                        /\ prs'[k].tag \in OfChannel(tags, Channel)
                        /\ Precedes(prs'[k].from, prs'[k].tag)
                        /\ prs'[k].from = synced \/ Precedes(prs'[k].from, synced)
        BY <1>2, <1>5 DEF Onward
    <2> QED
        BY <1>4, <1>5, <1>7, <1>9, <1>15 DEF IInv, Onward
<1>18. \A k \in DOMAIN prs' : Retained(prs'[k]) /\ Followed(prs'[k])
    BY <1>11, <1>12, <1>15 DEF IInv
<1>19. NeverTakenBack =>
           \A k \in DOMAIN prs' : prs'[k].state = "open" => Fresh(prs'[k].file, prs'[k].tag)
    BY <1>13, <1>15 DEF IInv
<1>20. \A k \in DOMAIN prs' : Retained(prs[k])' /\ Followed(prs[k])'
    BY <1>2, <1>18 DEF Retained, Followed
<1>21. NeverTakenBack' =>
           /\ Fresh(file, synced)'
           /\ \A k \in DOMAIN prs' : prs'[k].state = "open" => Fresh(prs[k].file, prs[k].tag)'
    BY <1>2, <1>19 DEF IInv, Fresh, NeverTakenBack
<1> QED
    BY <1>16, <1>17, <1>20, <1>21 DEF IInv

LEMMA EditingInstance ==
    ASSUME IInv, EditInstance
    PROVE  IInv'
<1>1. UNCHANGED <<head, releases, building, synced, prs>>
    BY DEF EditInstance
<1>2. file \in Lived
    BY DEF IInv, Types, Lived
<1>3. file' \in Lived /\ \A l \in Lines : file'[l] \in {file[l], Local, Empty}
    BY <1>2 DEF EditInstance, Lived, NoFile
<1>4. Types' /\ Maximal' /\ Onward'
    BY <1>1, <1>3 DEF IInv, Types, Maximal, Onward, Lived
<1>5. \A k \in DOMAIN prs' : Retained(prs[k])'
    BY <1>1 DEF IInv, Retained
<1>6. \A k \in DOMAIN prs' : Followed(prs[k])'
    BY <1>1, <1>3 DEF IInv, Followed
<1>7. NeverTakenBack' =>
          /\ Fresh(file, synced)'
          /\ \A k \in DOMAIN prs' : prs'[k].state = "open" => Fresh(prs[k].file, prs[k].tag)'
    BY <1>1, <1>3 DEF IInv, Fresh, NeverTakenBack
<1> QED
    BY <1>4, <1>5, <1>6, <1>7 DEF IInv

LEMMA Resolving ==
    ASSUME IInv, NEW k \in DOMAIN prs, Resolve(k)
    PROVE  IInv'
<1>1. prs[k] \in Branch /\ prs[k].tag \in DOMAIN releases /\ prs[k].state = "open"
    BY DEF IInv, Types, Onward, OfChannel, Resolve
<1>2. PICK l \in Lines : \E text \in {Local, releases[prs[k].tag].file[l]} :
         prs' = [prs EXCEPT ![k].file[l] = text, ![k].resolved = @ \cup {l}]
    BY DEF Resolve
<1>3. PICK text \in {Local, releases[prs[k].tag].file[l]} :
         prs' = [prs EXCEPT ![k].file[l] = text, ![k].resolved = @ \cup {l}]
    BY <1>2
<1> DEFINE p == [prs[k] EXCEPT !.file = [prs[k].file EXCEPT ![l] = text],
                               !.resolved = prs[k].resolved \cup {l}]
<1>4. prs' = [prs EXCEPT ![k] = p]
    BY <1>1, <1>3 DEF Branch
<1>5. releases[prs[k].tag] \in Commit
    BY <1>1 DEF IInv, Types
<1>6. text \in Texts \cup {Local, Conflict, Empty}
    BY <1>5 DEF Commit
<1>7. prs[k].file \in File /\ prs[k].resolved \in SUBSET Lines
    BY <1>1 DEF Branch
<1>8. [prs[k].file EXCEPT ![l] = text] \in File
    BY <1>6, <1>7 DEF File
<1>9. /\ p \in Branch
      /\ p.tag = prs[k].tag /\ p.from = prs[k].from /\ p.base = prs[k].base
      /\ p.file = [prs[k].file EXCEPT ![l] = text]
      /\ p.resolved = prs[k].resolved \cup {l} /\ p.state = "open"
    BY <1>1, <1>7, <1>8 DEF Branch
<1> HIDE DEF p
<1>10. \A m \in Lines : p.file[m] = IF m = l THEN text ELSE prs[k].file[m]
    BY <1>7, <1>9 DEF File
<1>11. Retained(p)
    BY <1>1, <1>9, <1>10 DEF IInv, Retained
<1>12. Followed(p)
    BY <1>1, <1>9 DEF IInv, Followed
<1>13. NeverTakenBack => Fresh(p.file, p.tag)
    BY <1>1, <1>9, <1>10 DEF IInv, Fresh
<1>14. UNCHANGED <<head, releases, building, file, synced>>
    BY DEF Resolve
<1> QED
    BY <1>4, <1>9, <1>11, <1>12, <1>13, <1>14, Rewriting

LEMMA Updating ==
    ASSUME IInv, NEW k \in DOMAIN prs, UpdatePR(k)
    PROVE  IInv'
<1> DEFINE q == prs[k]
           merged == Merge(q.base, file, q.file)
           p == [q EXCEPT !.base = file, !.file = merged]
<1>1. q \in Branch /\ q.state = "open" /\ q.from = synced
    BY DEF IInv, Types, UpdatePR
<1>2. UNCHANGED <<head, releases, building, file, synced>>
    BY DEF UpdatePR
<1>3. prs' = [prs EXCEPT ![k] = p]
    BY <1>1 DEF UpdatePR, Branch
<1>4. q.base \in File /\ q.file \in File /\ file \in File
    BY <1>1 DEF Branch, IInv, Types, File
<1>5. merged \in File
    BY <1>4, MergeIsFile
<1>6. Retained(q) /\ Followed(q) /\ (NeverTakenBack => Fresh(q.file, q.tag))
    BY <1>1 DEF IInv
<1>7. \A l \in Lines :
          \/ q.file[l] \in {q.base[l], file[l]} /\ merged[l] = file[l]
          \/ file[l] = q.base[l] /\ merged[l] = q.file[l]
          \/ merged[l] = Conflict
    BY MergeLine
<1> HIDE DEF merged
<1>8. /\ p \in Branch /\ p.tag = q.tag /\ p.from = q.from /\ p.state = "open"
      /\ p.base = file /\ p.file = merged /\ p.resolved = q.resolved
    BY <1>1, <1>4, <1>5 DEF Branch
<1> HIDE DEF p, q
<1>9. Retained(p)
    BY <1>1, <1>6, <1>7, <1>8 DEF Retained
<1>10. Followed(p)
    BY <1>8 DEF Followed
<1>11. NeverTakenBack => Fresh(p.file, p.tag)
    BY <1>1, <1>6, <1>7, <1>8 DEF Fresh, Followed
<1> QED
    BY <1>2, <1>3, <1>8, <1>9, <1>10, <1>11, Rewriting DEF q

\* The others of its branches now start from an older tag.
LEMMA Merging ==
    ASSUME IInv, NEW k \in DOMAIN prs, MergePR(k)
    PROVE  IInv' /\ Precedes(synced, synced')
<1> DEFINE q == prs[k]
<1>1. q \in Branch /\ q.state = "open" /\ q.from = synced /\ q.base = file
    BY DEF IInv, Types, MergePR
<1>2. /\ UNCHANGED <<head, releases, building>> /\ file' = q.file /\ synced' = q.tag
      /\ \A l \in Lines : q.file[l] # Conflict
    BY DEF MergePR
<1>3. prs' = [prs EXCEPT ![k] = [q EXCEPT !.state = "merged"]]
    BY DEF MergePR
<1> DEFINE p == [q EXCEPT !.state = "merged"]
<1>4. p \in Branch /\ p.tag = q.tag /\ p.from = q.from /\ p.state = "merged"
    BY <1>1 DEF Branch
<1>5. /\ prs' \in Seq(Branch) /\ DOMAIN prs' = DOMAIN prs /\ prs'[k] = p
      /\ \A j \in DOMAIN prs : j # k => prs'[j] = prs[j]
    BY <1>3, <1>4 DEF IInv, Types
<1> HIDE DEF p
<1>6. file' \in Lived
    BY <1>1, <1>2 DEF Branch, File, Lived
<1>7. Types' /\ Maximal'
    BY <1>2, <1>5, <1>6 DEF IInv, Types, Maximal, Lived
<1> DEFINE tags == OfChannel(DOMAIN releases, Channel)
<1>8. /\ tags \subseteq Semver /\ synced \in tags /\ q.tag \in tags
      /\ Precedes(synced, q.tag)
      /\ \A j \in DOMAIN prs :
            /\ prs[j].from \in tags /\ prs[j].tag \in tags
            /\ Precedes(prs[j].from, prs[j].tag)
            /\ prs[j].from = synced \/ Precedes(prs[j].from, synced)
    BY <1>1 DEF IInv, Types, Onward, OfChannel
<1>9. \A j \in DOMAIN prs' :
          /\ prs'[j].from = prs[j].from /\ prs'[j].tag = prs[j].tag
          /\ prs'[j].state = "open" => prs'[j] = prs[j]
    BY <1>4, <1>5
<1> HIDE DEF tags, q
<1>10. \A j \in DOMAIN prs : Precedes(prs[j].from, synced') /\ prs[j].from # synced'
    <2> SUFFICES ASSUME NEW j \in DOMAIN prs
                 PROVE  Precedes(prs[j].from, synced') /\ prs[j].from # synced'
        OBVIOUS
    <2>1. Precedes(prs[j].from, q.tag)
        BY <1>8, PrecedesIsAnOrder
    <2> QED
        BY <1>2, <1>8, <2>1, PrecedesIsAnOrder
<1>11. Onward'
    BY <1>2, <1>5, <1>8, <1>9, <1>10 DEF Onward, tags
<1>12. \A j \in DOMAIN prs' : Retained(prs[j])' /\ Followed(prs[j])'
    BY <1>2, <1>5, <1>9, <1>10 DEF IInv, Retained, Followed
<1>13. ASSUME NeverTakenBack' PROVE Fresh(file, synced)'
    <2>1. Fresh(q.file, q.tag)
        BY <1>1, <1>2, <1>13 DEF IInv, NeverTakenBack, q
    <2> QED
        BY <1>2, <2>1 DEF Fresh
<1>14. NeverTakenBack' =>
           \A j \in DOMAIN prs' : prs'[j].state = "open" => Fresh(prs[j].file, prs[j].tag)'
    <2> SUFFICES ASSUME NeverTakenBack', NEW j \in DOMAIN prs', prs'[j].state = "open"
                 PROVE  Fresh(prs[j].file, prs[j].tag)'
        OBVIOUS
    <2>1. prs'[j] = prs[j] /\ j \in DOMAIN prs
        BY <1>5, <1>9
    <2>2. NeverTakenBack
        BY <1>2 DEF NeverTakenBack
    <2>3. Fresh(prs[j].file, prs[j].tag)
        BY <2>1, <2>2 DEF IInv
    <2> QED
        BY <1>2, <2>1, <2>3 DEF Fresh
<1> QED
    BY <1>2, <1>7, <1>8, <1>11, <1>12, <1>13, <1>14 DEF IInv

\* A sequence after another: its elements come after the other's.
LEMMA Joined ==
    ASSUME NEW S, NEW front \in Seq(S), NEW back \in Seq(S), NEW j \in 1..Len(front \o back)
    PROVE  \/ j \in 1..Len(front) /\ (front \o back)[j] = front[j]
           \/ j - Len(front) \in 1..Len(back) /\ (front \o back)[j] = back[j - Len(front)]
<1>1. Len(front) \in Nat /\ Len(back) \in Nat /\ Len(front \o back) = Len(front) + Len(back)
    OBVIOUS
<1>2. CASE j <= Len(front)
    <2>1. j \in 1..Len(front)
        BY <1>1, <1>2
    <2>2. (front \o back)[j] = front[j]
        BY <1>1, <1>2
    <2> QED
        BY <2>1, <2>2
<1>3. CASE ~(j <= Len(front))
    <2>1. j - Len(front) \in 1..Len(back)
        BY <1>1, <1>3
    <2>2. (front \o back)[j] = back[j - Len(front)]
        BY <1>1, <1>3
    <2> QED
        BY <2>1, <2>2
<1> QED
    BY <1>2, <1>3

\* RemoveAt leaves a sequence of the elements that were there before.
LEMMA Removed ==
    ASSUME NEW S, NEW s \in Seq(S), NEW k \in 1..Len(s)
    PROVE  /\ RemoveAt(s, k) \in Seq(S)
           /\ \A j \in DOMAIN RemoveAt(s, k) : \E i \in DOMAIN s : RemoveAt(s, k)[j] = s[i]
<1> DEFINE front == SubSeq(s, 1, k - 1)
           back == SubSeq(s, k + 1, Len(s))
<1>1. Len(s) \in Nat /\ k \in Nat /\ DOMAIN s = 1..Len(s) /\ \A i \in 1..Len(s) : s[i] \in S
    OBVIOUS
<1>2. /\ front \in Seq(S) /\ Len(front) = k - 1
      /\ \A j \in 1..(k - 1) : front[j] = s[j]
    BY <1>1
<1>3. /\ back \in Seq(S) /\ Len(back) = Len(s) - k
      /\ \A j \in 1..(Len(s) - k) : back[j] = s[k + j]
    <2> DEFINE m == k + 1
               n == Len(s)
    <2>1. m \in Int /\ n \in Int /\ \A i \in m..n : s[i] \in S
        BY <1>1
    <2> HIDE DEF m, n
    <2>2. /\ SubSeq(s, m, n) \in Seq(S)
          /\ Len(SubSeq(s, m, n)) = IF m <= n THEN n - m + 1 ELSE 0
          /\ \A j \in 1..(n - m + 1) : SubSeq(s, m, n)[j] = s[m + j - 1]
        BY <2>1, SubSeqProperties
    <2>3. n - m + 1 = Len(s) - k /\ (IF m <= n THEN n - m + 1 ELSE 0) = Len(s) - k
        <3>1. \A a, b \in Nat : b <= a =>
                  a - (b + 1) + 1 = a - b /\ (IF b + 1 <= a THEN a - (b + 1) + 1 ELSE 0) = a - b
            OBVIOUS
        <3>2. k <= Len(s) /\ k \in Nat /\ Len(s) \in Nat
            BY <1>1
        <3> QED
            BY <3>1, <3>2 DEF m, n
    <2>4. \A j \in 1..(Len(s) - k) : m + j - 1 = k + j
        BY <1>1 DEF m
    <2> QED
        BY <2>2, <2>3, <2>4 DEF m, n
<1>4. RemoveAt(s, k) = front \o back
    BY DEF RemoveAt
<1> HIDE DEF front, back
<1>5. front \o back \in Seq(S) /\ DOMAIN (front \o back) = 1..Len(front \o back)
    BY <1>2, <1>3
<1>6. ASSUME NEW j \in 1..Len(front \o back)
      PROVE  \E i \in DOMAIN s : (front \o back)[j] = s[i]
    <2>1. CASE j \in 1..Len(front) /\ (front \o back)[j] = front[j]
        <3>1. j \in 1..(k - 1) /\ j \in DOMAIN s
            BY <1>1, <1>2, <2>1
        <3> QED
            BY <1>2, <2>1, <3>1
    <2>2. CASE j - Len(front) \in 1..Len(back) /\ (front \o back)[j] = back[j - Len(front)]
        <3> DEFINE i == j - Len(front)
        <3>1. i \in 1..(Len(s) - k) /\ (front \o back)[j] = back[i]
            BY <1>3, <2>2
        <3> HIDE DEF i
        <3>2. k + i \in DOMAIN s
            BY <1>1, <3>1
        <3>3. back[i] = s[k + i]
            BY <1>3, <3>1
        <3> QED
            BY <3>1, <3>2, <3>3
    <2> QED
        BY <1>2, <1>3, <2>1, <2>2, Joined
<1> QED
    BY <1>4, <1>5, <1>6

LEMMA Closing ==
    ASSUME IInv, NEW k \in DOMAIN prs, ClosePR(k)
    PROVE  IInv'
<1>1. UNCHANGED <<head, releases, building, file, synced>> /\ prs' = RemoveAt(prs, k)
    BY DEF ClosePR
<1>2. prs \in Seq(Branch)
    BY DEF IInv, Types
<1>3. k \in 1..Len(prs)
    BY <1>2
<1>4. /\ RemoveAt(prs, k) \in Seq(Branch)
      /\ \A j \in DOMAIN RemoveAt(prs, k) : \E i \in DOMAIN prs : RemoveAt(prs, k)[j] = prs[i]
    BY <1>2, <1>3, Removed
<1>5. prs' \in Seq(Branch)
    BY <1>1, <1>4
<1>6. \A j \in DOMAIN prs' : \E i \in DOMAIN prs : prs'[j] = prs[i]
    BY <1>1, <1>4
<1>7. Types' /\ Maximal'
    BY <1>1, <1>5 DEF IInv, Types, Maximal
<1>8. Onward'
    BY <1>1, <1>6 DEF IInv, Onward
<1>9. \A j \in DOMAIN prs' : Retained(prs[j])' /\ Followed(prs[j])'
    <2>1. \A j \in DOMAIN prs' : Retained(prs'[j]) /\ Followed(prs'[j])
        BY <1>6 DEF IInv
    <2> QED
        BY <1>1, <2>1 DEF Retained, Followed
<1>10. NeverTakenBack' =>
           /\ Fresh(file, synced)'
           /\ \A j \in DOMAIN prs' : prs'[j].state = "open" => Fresh(prs[j].file, prs[j].tag)'
    <2>1. NeverTakenBack' = NeverTakenBack
        BY <1>1 DEF NeverTakenBack
    <2>2. NeverTakenBack =>
              \A j \in DOMAIN prs' : prs'[j].state = "open" => Fresh(prs'[j].file, prs'[j].tag)
        BY <1>6 DEF IInv
    <2> QED
        BY <1>1, <2>1, <2>2 DEF IInv, Fresh
<1> QED
    BY <1>7, <1>8, <1>9, <1>10 DEF IInv

-----------------------------------------------------------------------------
(***************************************************************************)
(* The theorems.                                                           *)
(***************************************************************************)
LEMMA IInit == Init => IInv
<1> SUFFICES ASSUME Init PROVE IInv
    OBVIOUS
<1>1. FirstFile \in [Lines -> Texts]
    BY TextsAssumption DEF FirstFile
<1>2. FirstTag \in Semver /\ FirstTag.channel = Channel
    <2>1. <<1, 0, 0>> \in Nat \X Nat \X Nat
        OBVIOUS
    <2> QED
        BY <2>1, ChannelsAssumption DEF FirstTag, Version, Semver
<1>3. head \in Commit
    BY <1>1, TiersAssumption DEF Init, Commit
<1>4. /\ DOMAIN releases = {FirstTag} /\ releases[FirstTag] = head
      /\ synced = FirstTag /\ file = head.file /\ prs = <<>> /\ building = {}
    BY DEF Init
<1>5. releases \in [DOMAIN releases -> Commit]
    BY <1>3 DEF Init
<1>6. file \in [Lines -> Texts \cup {Local, Empty}] /\ prs \in Seq(Branch)
    BY <1>1, <1>4 DEF Init
<1>7. Types
    BY <1>2, <1>3, <1>4, <1>5, <1>6 DEF Types
<1>8. Maximal
    <2> SUFFICES ASSUME NEW S \in SUBSET {FirstTag}
                 PROVE  /\ S # {} => \E v \in S : \A w \in S : ~Precedes(v, w)
                        /\ \E m \in {0} \cup {v.num : v \in S} : \A v \in S : m >= v.num
        BY <1>4 DEF Maximal
    <2>1. ~Precedes(FirstTag, FirstTag) /\ FirstTag.num \in Nat
        BY <1>2, PrecedesIsAnOrder, VersionTypes
    <2>2. CASE S = {}
        BY <2>2
    <2>3. CASE S = {FirstTag}
        <3>1. \A v \in S : FirstTag.num >= v.num
            BY <2>1, <2>3
        <3>2. FirstTag.num \in {0} \cup {v.num : v \in S}
            BY <2>3
        <3> QED
            BY <2>1, <2>3, <3>1, <3>2
    <2> QED
        BY <2>2, <2>3
<1>9. Onward
    BY <1>2, <1>4 DEF Onward, OfChannel
<1>10. Fresh(file, synced)
    BY <1>4 DEF Fresh
<1>11. DOMAIN prs = {}
    BY <1>4
<1> QED
    BY <1>7, <1>8, <1>9, <1>10, <1>11 DEF IInv

LEMMA INext == IInv /\ [Next]_vars => IInv'
<1> SUFFICES ASSUME IInv, [Next]_vars PROVE IInv'
    OBVIOUS
<1>1. CASE UNCHANGED vars
    <2>1. UNCHANGED <<head, releases, building, file, synced, prs>>
        BY <1>1 DEF vars
    <2>2. Types'
        BY <2>1 DEF IInv, Types
    <2> QED
        BY <2>1, <2>2, Unchanging
<1>2. CASE EditTemplate
    BY <1>2, EditingTemplate
<1>3. CASE \E part \in Bumps, channel \in Kinds : Dispatch(part, channel)
    BY <1>3, Dispatching
<1>4. CASE \E b \in building : Publish(b)
    BY <1>4, Publishing
<1>5. CASE Sync \/ EditInstance
    BY <1>5, Syncing, EditingInstance
<1>6. CASE \E k \in DOMAIN prs : Resolve(k) \/ UpdatePR(k) \/ MergePR(k) \/ ClosePR(k)
    BY <1>6, Resolving, Updating, Merging, Closing
<1> QED
    BY <1>1, <1>2, <1>3, <1>4, <1>5, <1>6 DEF Next

THEOREM SyncInvariant == Spec => []IInv
BY IInit, INext, PTL DEF Spec

\* Whatever tags have been released, by runs that overlapped, the version the
\* release workflow computes is new, above its series, and, as a full release,
\* above every other; "none" promotes above every tag (compute_next_version.py).
THEOREM VersionsAreNew == Spec => []VersionsMoveOn
<1>1. IInv => VersionsMoveOn
    BY NextMovesOn DEF IInv
<1> QED
    BY <1>1, SyncInvariant, PTL

\* What an instance has of a file the template looks after is the release's text
\* or its own, unless a release took the file back from the instances.
THEOREM FilesStayFresh == Spec => []FreshUnlessTakenBack
<1>1. IInv => FreshUnlessTakenBack
    <2> SUFFICES ASSUME IInv, NeverTakenBack, releases[synced].tier # "ignore",
                        NEW l \in Lines, releases[synced].file[l] # Empty
                 PROVE  file[l] \in {Local, Empty, releases[synced].file[l]}
        BY DEF FreshUnlessTakenBack, NoStaleTemplate
    <2>1. file[l] \in {Local, Empty, Conflict, releases[synced].file[l]}
        BY DEF IInv, Fresh
    <2>2. file[l] # Conflict
        BY WordsDiffer DEF IInv, Types
    <2> QED
        BY <2>1, <2>2
<1> QED
    BY <1>1, SyncInvariant, PTL

\* No merged sync takes away what the instance wrote, but of a file that is the
\* template's alone or on a line people decided about.
THEOREM LocalEditsStay == Spec => LocalEditsSurvive
<1>1. IInv /\ [Next]_vars =>
          [\A k \in DOMAIN prs : MergePR(k) =>
              \A l \in Lines : file[l] = Local /\ file'[l] # Local =>
                  l \in prs[k].resolved \/ releases[prs[k].tag].tier = "replace"]_vars
    BY DEF IInv, Retained, MergePR
<1> QED
    BY <1>1, SyncInvariant, PTL DEF Spec, LocalEditsSurvive

\* However many pull requests are open and in whatever order they are merged, no
\* merge takes the instance to an older version.
THEOREM SyncsMoveOn == Spec => SyncNeverGoesBack
<1>1. IInv /\ [Next]_vars => [~Precedes(synced', synced)]_vars
    <2> SUFFICES ASSUME IInv, Next PROVE ~Precedes(synced', synced)
        OBVIOUS
    <2>1. synced \in Semver
        BY DEF IInv, Types, Onward, OfChannel
    <2>2. CASE \E k \in DOMAIN prs : MergePR(k)
        <3>1. Precedes(synced, synced') /\ IInv'
            BY <2>2, Merging
        <3>2. synced' \in Semver
            BY <3>1 DEF IInv, Types, Onward, OfChannel
        <3> QED
            BY <2>1, <3>1, <3>2, PrecedesIsAnOrder
    <2>3. CASE UNCHANGED synced
        BY <2>1, <2>3, PrecedesIsAnOrder
    <2> QED
        BY <2>2, <2>3 DEF Next, EditTemplate, Dispatch, Publish, Sync, EditInstance, Resolve,
                          UpdatePR, ClosePR
<1> QED
    BY <1>1, SyncInvariant, PTL DEF Spec, SyncNeverGoesBack

=============================================================================
