------------------------------ MODULE Versions ------------------------------
(***************************************************************************)
(* Release tags: the version the release workflow computes from the        *)
(* existing tags (compute_next_version.py), and the tag of a channel that  *)
(* an instance of the template takes (template_sync.py).  A version is its *)
(* base <<major, minor, patch>>, its channel and its number; "stable" is a *)
(* full release, with number 0.                                            *)
(***************************************************************************)
EXTENDS Naturals, FiniteSetsExt

Channels == {"alpha", "beta", "rc", "stable"}

Parts == {"major", "minor", "patch", "none"}

Version(base, channel, num) == [base |-> base, channel |-> channel, num |-> num]

\* PRE_ORDER, and 3 for a full release.
PreRank(channel) ==
    CASE channel = "alpha" -> 0 [] channel = "beta" -> 1 [] channel = "rc" -> 2 [] OTHER -> 3

\* Slip: the number of a pre-release counts more than its base.
SortKeyNumberFirst(v) == <<PreRank(v.channel), v.num, v.base[1], v.base[2], v.base[3]>>

SortKey(v) == <<v.base[1], v.base[2], v.base[3], PreRank(v.channel), v.num>>

\* Python's order of tuples.
TupleLess(s, t) ==
    \E i \in DOMAIN s : s[i] < t[i] /\ \A j \in 1..(i - 1) : s[j] = t[j]

Below(v, w) == TupleLess(SortKey(v), SortKey(w))

Highest(tags) == CHOOSE v \in tags : \A w \in tags : ~Below(v, w)

Finals(tags) == {v \in tags : v.channel = "stable"}

BaseOfHighest(tags) == IF tags = {} THEN <<0, 0, 0>> ELSE Highest(tags).base

\* SemVer 2: the lower parts start again.
BumpBase(base, part) ==
    CASE part = "major" -> <<base[1] + 1, 0, 0>>
      [] part = "minor" -> <<base[1], base[2] + 1, 0>>
      [] part = "patch" -> <<base[1], base[2], base[3] + 1>>

\* "none" keeps the base of the highest tag of all; a bump starts from the
\* highest full release, whatever pre-releases are above it.
NextBase(tags, part) ==
    IF part = "none" THEN BaseOfHighest(tags) ELSE BumpBase(BaseOfHighest(Finals(tags)), part)

\* Slip: the highest number is not increased.
NextNumberReused(tags, base, channel) ==
    Max({1} \cup {v.num : v \in {w \in tags : w.base = base /\ w.channel = channel}})

NextNumber(tags, base, channel) ==
    Max({0} \cup {v.num : v \in {w \in tags : w.base = base /\ w.channel = channel}}) + 1

NextVersion(tags, part, channel) ==
    LET base == NextBase(tags, part) IN
    Version(base, channel, IF channel = "stable" THEN 0 ELSE NextNumber(tags, base, channel))

\* "already exists; choose a bump."
Refused(tags, part, channel) ==
    channel = "stable" /\ NextVersion(tags, part, channel) \in tags

OfChannel(tags, channel) == {v \in tags : v.channel = channel}

LatestTag(tags, channel) == Highest(OfChannel(tags, channel))

=============================================================================
