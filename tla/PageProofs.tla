----------------------------- MODULE PageProofs -----------------------------
(***************************************************************************)
(* For any heroes, acts and refresh() calls in flight: a box that is on is *)
(* a shown row's, and what the page did for its user shows once nothing is *)
(* in flight.                                                              *)
(*                                                                         *)
(* The second promise is about a list at rest; what carries it there is    *)
(* the refresh() sent last (Coming): it is sent when the answer to a click *)
(* is handled, after the commit, so whatever it reads has what was clicked *)
(* for, and its rendering (Here) makes every one still in flight late.     *)
(* Until somebody else changes the row no later read can show less.        *)
(***************************************************************************)
EXTENDS Page, SequenceTheorems, TLAPS


\* What the clicks are: each request has its own, and one that was answered is
\* no longer in flight.
Types ==
    /\ heroes \in Heroes /\ committed \in Heroes
    /\ includeArchived \in BOOLEAN /\ asked \in BOOLEAN
    /\ shown \in Listings /\ checked \subseteq Ids
    /\ refreshes \in Seq(Refresh)
    /\ requests \subseteq Request
    /\ acts \in 0..MaxActs
    /\ last \in [Ids -> 0..acts]
    /\ answered \subseteq 1..acts

Clicks ==
    /\ \A r \in requests : r.click \in 1..acts /\ r.click \notin answered
    /\ \A q, r \in requests : q.click = r.click => q = r

\* The heroes the page has changed last, and was told so.
Settled == {i \in Ids : last[i] \in answered}

\* They are committed.
SettledIsCommitted == \A i \in Settled : committed[i] = heroes[i]

\* What the list must show of a hero.
Agrees(rows, i) ==
    /\ i \in DOMAIN rows <=> i \in DOMAIN Listing(heroes, asked)
    /\ i \in DOMAIN rows => rows[i] = heroes[i]

\* The refresh that was sent last is under way, in order, and has not read a
\* hero too early...
Coming ==
    /\ refreshes # <<>>
    /\ LET refresh == refreshes[Len(refreshes)] IN
       /\ ~refresh.late /\ refresh.archived = asked
       /\ refresh.read => \A i \in Settled : Agrees(refresh.list, i)

\* ...or it was rendered, and those under way are late.
Here ==
    /\ \A k \in DOMAIN refreshes : refreshes[k].late
    /\ \A i \in Settled : Agrees(shown, i)

PInv ==
    /\ Types
    /\ SelectionIsShown
    /\ Clicks
    /\ SettledIsCommitted
    /\ "read" \notin excuses => Coming \/ Here

-----------------------------------------------------------------------------
(***************************************************************************)
(* The operators.                                                          *)
(***************************************************************************)
LEMMA ListingIsListing ==
    ASSUME NEW table \in Heroes, NEW archived \in BOOLEAN
    PROVE  Listing(table, archived) \in Listings
<1> DEFINE S == {j \in Ids : table[j] # None /\ (archived \/ ~table[j].archived)}
<1>1. S \in SUBSET Ids /\ \A i \in S : table[i] \in Hero
    BY DEF Heroes
<1>2. Listing(table, archived) = [i \in S |-> table[i]]
    BY DEF Listing
<1> HIDE DEF S
<1>3. Listing(table, archived) \in [S -> Hero]
    BY <1>1, <1>2
<1> QED
    BY <1>1, <1>3 DEF Listings

LEMMA RowsOfListing ==
    ASSUME NEW rows \in Listings
    PROVE  DOMAIN rows \subseteq Ids
BY DEF Listings

\* What is left of a sequence without its element k.
LEMMA Removed ==
    ASSUME NEW S, NEW s \in Seq(S), NEW k \in 1..Len(s)
    PROVE  /\ RemoveAt(s, k) \in Seq(S)
           /\ Len(RemoveAt(s, k)) = Len(s) - 1
           /\ \A j \in 1..(Len(s) - 1) : RemoveAt(s, k)[j] = IF j < k THEN s[j] ELSE s[j + 1]
<1>1. Len(s) \in Nat /\ \A j \in 1..Len(s) : s[j] \in S
    OBVIOUS
<1> DEFINE front == SubSeq(s, 1, k - 1)
           back == SubSeq(s, k + 1, Len(s))
<1>2. front \in Seq(S) /\ Len(front) = k - 1 /\ \A j \in 1..(k - 1) : front[j] = s[j]
    BY <1>1
<1>3. /\ back \in Seq(S) /\ Len(back) = Len(s) - k
      /\ \A j \in 1..(Len(s) - k) : back[j] = s[k + j]
    BY <1>1
<1>4. RemoveAt(s, k) = front \o back
    BY DEF RemoveAt
<1> HIDE DEF front, back
<1>5. /\ front \o back \in Seq(S)
      /\ Len(front \o back) = Len(s) - 1
    <2>1. front \in Seq(S) /\ back \in Seq(S)
        BY <1>2, <1>3
    <2>2. front \o back \in Seq(S) /\ Len(front \o back) = Len(front) + Len(back)
        BY <2>1
    <2> QED
        BY <1>1, <1>2, <1>3, <2>2
<1>6. ASSUME NEW j \in 1..(Len(s) - 1)
      PROVE  (front \o back)[j] = IF j < k THEN s[j] ELSE s[j + 1]
    <2>1. CASE j < k
        BY <1>1, <1>2, <1>3, <2>1
    <2>2. CASE ~(j < k)
        <3>1. (front \o back)[j] = back[j - (k - 1)]
            BY <1>1, <1>2, <1>3, <2>2
        <3>2. back[j - (k - 1)] = s[k + (j - (k - 1))] /\ k + (j - (k - 1)) = j + 1
            BY <1>1, <1>3, <2>2
        <3> QED
            BY <2>2, <3>1, <3>2
    <2> QED
        BY <2>1, <2>2, Zenon
<1> QED
    BY <1>4, <1>5, <1>6

LEMMA ChangedIsHero ==
    ASSUME NEW r, r.op \in Ops \ {"create", "draft"}, NEW hero \in Hero
    PROVE  Changed(r, hero) \in Hero
BY DEF Changed, Ops, Hero

\* What is read of a committed hero agrees with the table.
LEMMA ListingAgrees ==
    ASSUME NEW i \in Ids, committed[i] = heroes[i]
    PROVE  Agrees(Listing(committed, asked), i)
BY DEF Agrees, Listing

-----------------------------------------------------------------------------
(***************************************************************************)
(* The kinds of step.                                                      *)
(***************************************************************************)

\* Nothing that the list is read from or shows is changed.
LEMMA Elsewhere ==
    ASSUME PInv, UNCHANGED <<server, reads, shown, answered>>, excuses \subseteq excuses',
           Types', SelectionIsShown', Clicks'
    PROVE  PInv'
<1>1. Settled' = Settled
    BY DEF server, Settled
<1>2. SettledIsCommitted'
    BY <1>1 DEF PInv, server, SettledIsCommitted
<1>3. \A rows, i : Agrees(rows, i)' <=> Agrees(rows, i)
    BY DEF Agrees, server, reads, Listing
<1> QED
    BY <1>1, <1>2, <1>3 DEF PInv, Coming, Here, reads

\* The record of a new refresh() goes to the end.
LEMMA SentIsLast ==
    ASSUME Types, SendRefresh
    PROVE  /\ refreshes' \in Seq(Refresh) /\ asked' \in BOOLEAN
           /\ refreshes' # <<>>
           /\ LET new == refreshes'[Len(refreshes')] IN
              ~new.late /\ ~new.read /\ new.archived = asked'
<1> DEFINE new == [archived |-> includeArchived, read |-> FALSE, list |-> NoRows, late |-> FALSE]
<1>1. NoRows \in Listings
    <2>1. NoRows \in [{} -> Hero]
        BY DEF NoRows
    <2> QED
        BY <2>1 DEF Listings
<1>2. new \in Refresh
    BY <1>1 DEF Types, Refresh
<1>3. ~new.late /\ ~new.read /\ new.archived = includeArchived
    OBVIOUS
<1>4. refreshes' = Append(refreshes, new) /\ asked' = includeArchived
    BY DEF SendRefresh, Sent
<1> HIDE DEF new
<1>5. /\ refreshes' \in Seq(Refresh) /\ refreshes' # <<>>
      /\ refreshes'[Len(refreshes')] = new
    BY <1>2, <1>4 DEF Types
<1> QED
    BY <1>3, <1>4, <1>5 DEF Types

\* The list is asked for again, by whatever control, message or answer.
LEMMA Sending ==
    ASSUME PInv, SendRefresh, excuses \subseteq excuses',
           Types', SelectionIsShown', Clicks', SettledIsCommitted'
    PROVE  PInv'
<1>1. /\ refreshes' # <<>>
      /\ LET new == refreshes'[Len(refreshes')] IN
         ~new.late /\ ~new.read /\ new.archived = asked'
    BY SentIsLast DEF PInv
<1>2. Coming'
    BY <1>1 DEF Coming
<1> QED
    BY <1>2 DEF PInv

\* A transaction writes: for another client, or for a click that has not been
\* answered yet.
LEMMA Writing ==
    ASSUME PInv, NEW new \in Heroes, NEW who \in (0..acts') \ answered, Write(new, who),
           UNCHANGED <<controls, list, reads, answered>>,
           acts' \in acts..MaxActs, requests' \subseteq Request, Clicks'
    PROVE  PInv'
<1>1. heroes' = new /\ committed = heroes /\ committed' = committed
    BY DEF Write
<1>2. last' = [i \in Ids |-> IF new[i] # heroes[i] THEN who ELSE last[i]]
    BY DEF Write
<1>3. acts \in Nat /\ acts' \in Nat /\ acts <= acts' /\ acts' <= MaxActs /\ MaxActs \in Nat
    BY BoundsAssumption DEF PInv, Types
<1>4. last' \in [Ids -> 0..acts']
    BY <1>2, <1>3 DEF PInv, Types
<1>5. Types'
    BY <1>1, <1>3, <1>4 DEF PInv, Types, controls, list, reads
<1>6. SelectionIsShown'
    BY DEF PInv, SelectionIsShown, list
<1>7. Settled' \subseteq Settled /\ \A i \in Settled' : heroes'[i] = heroes[i]
    BY <1>1, <1>2 DEF Settled
<1>8. SettledIsCommitted'
    BY <1>1, <1>7 DEF PInv, SettledIsCommitted
<1>9. \A rows : \A i \in Settled' : Agrees(rows, i) => Agrees(rows, i)'
    <2> SUFFICES ASSUME NEW rows, NEW i \in Settled', Agrees(rows, i)
                 PROVE  Agrees(rows, i)'
        OBVIOUS
    <2>1. i \in Ids /\ heroes'[i] = heroes[i] /\ asked' = asked
        BY <1>7 DEF Settled, reads
    <2>2. i \in DOMAIN Listing(heroes', asked') <=> i \in DOMAIN Listing(heroes, asked)
        BY <2>1 DEF Listing
    <2> QED
        BY <2>1, <2>2 DEF Agrees
<1>10. excuses \subseteq excuses'
    BY DEF Write
<1> QED
    BY <1>5, <1>6, <1>7, <1>8, <1>9, <1>10 DEF PInv, Coming, Here, reads, list

-----------------------------------------------------------------------------
(***************************************************************************)
(* The steps, one by one.                                                  *)
(***************************************************************************)

\* refresh() reads: if it is the last one sent, every settled hero as it is.
LEMMA Reading ==
    ASSUME PInv, NEW k \in DOMAIN refreshes, Read(k)
    PROVE  PInv'
<1> DEFINE read == Listing(committed, refreshes[k].archived)
<1>1. refreshes \in Seq(Refresh) /\ k \in 1..Len(refreshes) /\ Len(refreshes) \in Nat
    BY DEF PInv, Types
<1>2. \A j \in 1..Len(refreshes) : refreshes[j] \in Refresh
    BY <1>1
<1>3. read \in Listings
    BY <1>1, <1>2, ListingIsListing DEF PInv, Types, Refresh
<1> DEFINE t == [refreshes[k] EXCEPT !.read = TRUE, !.list = read]
<1>4. refreshes' = [refreshes EXCEPT ![k] = t]
    BY <1>1 DEF Read
<1>5. /\ t \in Refresh /\ t.list = read /\ t.archived = refreshes[k].archived
      /\ t.late <=> refreshes[k].late
    BY <1>1, <1>2, <1>3 DEF Refresh
<1> HIDE DEF t
<1>6. /\ refreshes' \in Seq(Refresh) /\ Len(refreshes') = Len(refreshes)
      /\ refreshes'[k] = t /\ \A j \in 1..Len(refreshes) : j # k => refreshes'[j] = refreshes[j]
    BY <1>1, <1>4, <1>5
<1>7. UNCHANGED <<server, controls, list, asked, user, channel, excuses, acts>>
    BY DEF Read
<1>8. Types' /\ SelectionIsShown' /\ Clicks' /\ SettledIsCommitted'
    BY <1>6, <1>7 DEF PInv, Types, SelectionIsShown, Clicks, SettledIsCommitted, Settled,
                      server, controls, list, user
<1>9. Settled' = Settled /\ \A rows, i : Agrees(rows, i)' <=> Agrees(rows, i)
    BY <1>7 DEF Settled, Agrees, Listing, server, user
<1>10. ASSUME Coming PROVE Coming'
    <2>1. Len(refreshes) >= 1 /\ refreshes' # <<>>
        BY <1>1, <1>6, <1>10 DEF Coming
    <2>2. CASE k = Len(refreshes)
        <3>1. ~t.late /\ t.archived = asked
            BY <1>5, <1>10, <2>2 DEF Coming
        <3>2. \A i \in Settled : Agrees(t.list, i)
            BY <1>5, <1>10, <2>2, ListingAgrees
               DEF Coming, PInv, SettledIsCommitted, Settled
        <3> QED
            BY <1>6, <1>7, <1>9, <2>1, <2>2, <3>1, <3>2 DEF Coming
    <2>3. CASE k # Len(refreshes)
        BY <1>1, <1>6, <1>7, <1>9, <1>10, <2>1, <2>3 DEF Coming
    <2> QED
        BY <2>2, <2>3
<1>11. ASSUME Here PROVE Here'
    <2>1. DOMAIN refreshes' = DOMAIN refreshes
        BY <1>4
    <2>2. \A j \in DOMAIN refreshes' : refreshes'[j].late
        BY <1>1, <1>5, <1>6, <1>11, <2>1 DEF Here
    <2> QED
        BY <1>7, <1>9, <1>11, <2>2 DEF Here, list
<1> QED
    BY <1>7, <1>8, <1>10, <1>11 DEF PInv

\* It arrives: the one sent last is rendered and leaves only late ones, another
\* one in order leaves the last one as it was, and the rest is an excuse.
LEMMA Arriving ==
    ASSUME PInv, NEW k \in DOMAIN refreshes, Arrive(k)
    PROVE  PInv'
<1> DEFINE refresh == refreshes[k]
           rest == RemoveAt(refreshes, k)
<1>1. refreshes \in Seq(Refresh) /\ k \in 1..Len(refreshes) /\ Len(refreshes) \in Nat
    BY DEF PInv, Types
<1>2. refresh \in Refresh /\ refresh.list \in Listings
    <2>1. refresh \in Refresh
        BY <1>1
    <2> QED
        BY <2>1 DEF Refresh
<1>3. /\ rest \in Seq(Refresh) /\ Len(rest) = Len(refreshes) - 1
      /\ \A j \in 1..(Len(refreshes) - 1) :
            rest[j] = IF j < k THEN refreshes[j] ELSE refreshes[j + 1]
    BY <1>1, Removed
<1>4. UNCHANGED <<server, controls, asked, user, channel, acts>>
    BY DEF Arrive
<1>5. Settled' = Settled /\ SettledIsCommitted'
    BY <1>4 DEF PInv, Settled, SettledIsCommitted, server, user
<1>6. \A rows, i : Agrees(rows, i)' <=> Agrees(rows, i)
    BY <1>4 DEF Agrees, Listing, server
<1>7. Clicks'
    BY <1>4 DEF PInv, Clicks, user
<1>8. refresh.read
    BY DEF Arrive
<1>9. CASE /\ ~Renderable(refresh.list)
           /\ refreshes' = rest
           /\ excuses' = excuses \cup {"read"}
           /\ UNCHANGED list
    <2>1. Types' /\ SelectionIsShown' /\ "read" \in excuses'
        BY <1>3, <1>4, <1>9 DEF PInv, Types, SelectionIsShown, server, controls, list, user
    <2> QED
        BY <1>5, <1>7, <2>1 DEF PInv
<1>10. CASE /\ Render(refresh.list)
            /\ refreshes' = [j \in DOMAIN rest |-> [rest[j] EXCEPT !.late = @ \/ j < k]]
            /\ excuses' = excuses \cup {e \in {"read"} : refresh.late}
    <2> HIDE DEF refresh, rest
    <2>1. DOMAIN rest = 1..(Len(refreshes) - 1) /\ DOMAIN refreshes = 1..Len(refreshes)
        BY <1>1, <1>3
    <2>2. \A j \in DOMAIN rest : [rest[j] EXCEPT !.late = rest[j].late \/ j < k] \in Refresh
        <3> SUFFICES ASSUME NEW j \in DOMAIN rest
                     PROVE  [rest[j] EXCEPT !.late = rest[j].late \/ j < k] \in Refresh
            OBVIOUS
        <3>1. rest[j] \in Refresh
            BY <1>3, <2>1
        <3>2. (rest[j].late \/ j < k) \in BOOLEAN
            OBVIOUS
        <3> QED
            BY <3>1, <3>2 DEF Refresh
    <2>3. refreshes' \in Seq(Refresh) /\ Len(refreshes') = Len(refreshes) - 1
        BY <1>1, <1>10, <2>1, <2>2
    <2>4. shown' = refresh.list /\ checked' = {}
        BY <1>10 DEF Render
    <2>5. Types' /\ SelectionIsShown'
        BY <1>2, <1>4, <2>3, <2>4 DEF PInv, Types, SelectionIsShown, server, controls, user
    <2>6. ASSUME "read" \notin excuses' PROVE Coming' \/ Here'
        <3>1. ~refresh.late /\ "read" \notin excuses
            BY <1>10, <2>6
        <3>2. Coming
            BY <1>1, <3>1 DEF PInv, Here, refresh
        <3>3. CASE k = Len(refreshes)
            <4>1. \A i \in Settled : Agrees(refresh.list, i)
                BY <1>8, <3>2, <3>3 DEF Coming, refresh
            <4>2. \A j \in DOMAIN refreshes' : refreshes'[j].late
                <5> SUFFICES ASSUME NEW j \in DOMAIN refreshes' PROVE refreshes'[j].late
                    OBVIOUS
                <5>1. j \in DOMAIN rest /\ j < k
                    BY <1>1, <1>10, <2>1, <3>3
                <5>2. rest[j] \in Refresh
                    BY <1>3, <5>1
                <5> QED
                    BY <1>10, <5>1, <5>2 DEF Refresh
            <4> QED
                BY <1>5, <1>6, <2>4, <4>1, <4>2 DEF Here
        <3>4. CASE k # Len(refreshes)
            <4> DEFINE n == Len(refreshes) - 1
            <4>1. n \in DOMAIN rest /\ ~(n < k) /\ n + 1 = Len(refreshes)
                BY <1>1, <2>1, <3>4
            <4>2. rest[n] = refreshes[Len(refreshes)] /\ rest[n] \in Refresh
                BY <1>3, <2>1, <4>1
            <4>3. refreshes'[n] = [rest[n] EXCEPT !.late = rest[n].late \/ n < k]
                BY <1>10, <4>1
            <4>4. /\ refreshes'[n].list = rest[n].list
                  /\ refreshes'[n].archived = rest[n].archived
                  /\ refreshes'[n].read <=> rest[n].read
                  /\ refreshes'[n].late <=> rest[n].late
                BY <4>1, <4>2, <4>3 DEF Refresh
            <4>5. refreshes' # <<>> /\ Len(refreshes') = n
                BY <1>1, <2>1, <2>3, <4>1
            <4> HIDE DEF n
            <4> QED
                BY <1>4, <1>5, <1>6, <3>2, <4>2, <4>4, <4>5 DEF Coming
        <3> QED
            BY <3>3, <3>4
    <2> QED
        BY <1>5, <1>7, <2>5, <2>6 DEF PInv
<1> QED
    BY <1>9, <1>10 DEF Arrive

LEMMA Losing ==
    ASSUME PInv, NEW k \in DOMAIN refreshes, Lose(k)
    PROVE  PInv'
<1>1. refreshes' \in Seq(Refresh)
    BY Removed DEF Lose, PInv, Types
<1>2. acts' \in 0..MaxActs /\ acts' = acts + 1
    BY BoundsAssumption DEF Lose, Act, PInv, Types
<1>3. UNCHANGED <<server, controls, list, asked, user>> /\ "read" \in excuses'
    BY DEF Lose
<1>4. acts \in Nat /\ 0..acts \subseteq 0..acts' /\ 1..acts \subseteq 1..acts'
    BY <1>2 DEF PInv, Types
<1>5. Types'
    BY <1>1, <1>2, <1>3, <1>4 DEF PInv, Types, server, controls, list, user
<1>6. Clicks'
    BY <1>3, <1>4 DEF PInv, Clicks, user
<1> QED
    BY <1>3, <1>5, <1>6 DEF PInv, SelectionIsShown, SettledIsCommitted, Settled,
                            server, list, user

\* The message of an event, the answer to /filters or to a click, "Apply".
LEMMA AskingAgain ==
    ASSUME PInv
    PROVE  /\ LoadFilters => PInv'
           /\ OnMessage => PInv'
           /\ Apply => PInv'
<1>1. SendRefresh => refreshes' \in Seq(Refresh) /\ asked' \in BOOLEAN
    BY SentIsLast DEF PInv
<1>2. ASSUME LoadFilters PROVE PInv'
    <2>1. SendRefresh /\ UNCHANGED <<server, includeArchived, list, user, excuses, acts>>
        BY <1>2 DEF LoadFilters
    <2>2. Types' /\ SelectionIsShown' /\ Clicks' /\ SettledIsCommitted'
        BY <1>1, <2>1 DEF PInv, Types, SelectionIsShown, Clicks, SettledIsCommitted, Settled,
                          server, list, user
    <2> QED
        BY <2>1, <2>2, Sending
<1>3. ASSUME OnMessage PROVE PInv'
    <2>1. UNCHANGED <<server, controls, list, user, acts>> /\ excuses \subseteq excuses'
        BY <1>3 DEF OnMessage
    <2>2. SelectionIsShown' /\ Clicks' /\ SettledIsCommitted'
        BY <2>1 DEF PInv, SelectionIsShown, Clicks, SettledIsCommitted, Settled,
                    server, list, user
    <2>3. CASE SendRefresh
        <3>1. Types'
            BY <1>1, <2>1, <2>3 DEF PInv, Types, server, controls, list, user
        <3> QED
            BY <2>1, <2>2, <2>3, <3>1, Sending
    <2>4. CASE UNCHANGED reads
        <3>1. Types' /\ UNCHANGED <<shown, answered>>
            BY <2>1, <2>4 DEF PInv, Types, server, controls, list, user, reads
        <3> QED
            BY <2>1, <2>2, <2>4, <3>1, Elsewhere
    <2> QED
        BY <1>3, <2>3, <2>4 DEF OnMessage
<1>4. ASSUME Apply PROVE PInv'
    <2>1. SendRefresh /\ Act /\ UNCHANGED <<server, controls, list, user, excuses>>
        BY <1>4 DEF Apply
    <2>2. /\ acts \in Nat /\ acts' \in 0..MaxActs
          /\ 0..acts \subseteq 0..acts' /\ 1..acts \subseteq 1..acts'
        BY <2>1, BoundsAssumption DEF Act, PInv, Types
    <2>3. Types' /\ SelectionIsShown' /\ Clicks' /\ SettledIsCommitted'
        BY <1>1, <2>1, <2>2 DEF PInv, Types, SelectionIsShown, Clicks, SettledIsCommitted,
                                Settled, server, controls, list, user
    <2> QED
        BY <2>1, <2>3, Sending
<1> QED
    BY <1>2, <1>3, <1>4

LEMMA Answering ==
    ASSUME PInv, NEW r \in requests, Answer(r)
    PROVE  PInv'
<1>1. /\ committed = heroes /\ requests' = requests \ {r}
      /\ UNCHANGED <<server, controls, list, excuses, acts>>
    BY DEF Answer
<1>2. SelectionIsShown' /\ SettledIsCommitted'
    BY <1>1 DEF PInv, SelectionIsShown, SettledIsCommitted, Settled, server, list
<1>3. CASE UNCHANGED <<reads, answered>>
    <2>1. Types' /\ Clicks' /\ UNCHANGED shown
        BY <1>1, <1>3 DEF PInv, Types, Clicks, server, controls, list, reads
    <2> QED
        BY <1>1, <1>2, <1>3, <2>1, Elsewhere
<1>4. CASE SendRefresh /\ answered' = answered \cup {r.click}
    <2>1. refreshes' \in Seq(Refresh) /\ asked' \in BOOLEAN
        BY <1>4, SentIsLast DEF PInv
    <2>2. r.click \in 1..acts /\ \A q \in requests' : q.click # r.click
        BY <1>1 DEF PInv, Clicks
    <2>3. Types' /\ Clicks'
        BY <1>1, <1>4, <2>1, <2>2 DEF PInv, Types, Clicks, server, controls, list
    <2> QED
        BY <1>1, <1>2, <1>4, <2>3, Sending
<1> QED
    BY <1>3, <1>4 DEF Answer

\* What a request does to the table.
LEMMA Serving ==
    ASSUME PInv, NEW r \in requests, Serve(r)
    PROVE  PInv'
<1>1. r \in Request /\ r.click \in (1..acts) \ answered
    BY DEF PInv, Types, Clicks
<1> DEFINE written == [r EXCEPT !.stage = "written"]
<1>2. written \in Request /\ written.click = r.click
    BY <1>1 DEF Request
<1>3. /\ requests' = (requests \ {r}) \cup {written}
      /\ UNCHANGED <<controls, list, reads, answered, acts>>
    BY DEF Serve
<1> HIDE DEF written
<1>4. requests' \subseteq Request /\ Clicks'
    BY <1>2, <1>3 DEF PInv, Types, Clicks
<1>5. acts \in 0..MaxActs /\ acts' \in acts..MaxActs /\ r.click \in (0..acts') \ answered
    BY <1>1, <1>3, BoundsAssumption DEF PInv, Types
<1>6. heroes \in Heroes
    BY DEF PInv, Types
<1>7. CASE r.op \in {"create", "draft"}
    <2>1. ASSUME NEW new \in Created(r) PROVE new \in Heroes
        <3>1. PICK i \in Ids :
                 new = [heroes EXCEPT ![i] =
                           [kind |-> IF r.op = "draft" THEN "draft" ELSE "published",
                            archived |-> FALSE]]
            BY DEF Created
        <3>2. [kind |-> IF r.op = "draft" THEN "draft" ELSE "published",
               archived |-> FALSE] \in Hero
            BY DEF Hero
        <3> QED
            BY <1>6, <3>1, <3>2 DEF Heroes
    <2>2. \E new \in Heroes : Write(new, r.click)
        BY <1>6, <1>7, <2>1 DEF Serve
    <2> QED
        BY <1>3, <1>4, <1>5, <2>2, Writing
<1>8. CASE r.op \notin {"create", "draft"}
    <2> DEFINE new == [i \in Ids |-> IF i \in Matched(r) THEN Changed(r, heroes[i]) ELSE heroes[i]]
    <2>1. Write(new, r.click)
        BY <1>8 DEF Serve
    <2>2. r.op \in Ops \ {"create", "draft"}
        BY <1>1, <1>8 DEF Request
    <2>3. \A i \in Matched(r) : heroes[i] \in Hero
        BY <1>1, <1>6 DEF Matched, Heroes, Request
    <2>4. \A i \in Matched(r) : Changed(r, heroes[i]) \in Hero
        BY <2>2, <2>3, ChangedIsHero
    <2>5. new \in Heroes
        BY <1>6, <2>4 DEF Heroes
    <2> HIDE DEF new
    <2> QED
        BY <1>3, <1>4, <1>5, <2>1, <2>5, Writing
<1> QED
    BY <1>7, <1>8

LEMMA OtherWriting ==
    ASSUME PInv, NEW i \in Ids, OtherWrites(i)
    PROVE  PInv'
<1>1. PICK hero \in Hero : Write([heroes EXCEPT ![i] = hero], Other)
    BY DEF OtherWrites
<1>2. Act /\ UNCHANGED <<controls, list, reads, user>>
    BY DEF OtherWrites
<1>3. [heroes EXCEPT ![i] = hero] \in Heroes
    BY DEF PInv, Types, Heroes
<1>4. acts \in Nat /\ acts' \in acts..MaxActs /\ acts' = acts + 1
    BY <1>2, BoundsAssumption DEF Act, PInv, Types
<1>5. Other \in (0..acts') \ answered
    BY <1>4 DEF Other, PInv, Types
<1>6. requests' \subseteq Request /\ Clicks' /\ UNCHANGED answered
    BY <1>2, <1>4 DEF PInv, Types, Clicks, user
<1> QED
    BY <1>1, <1>2, <1>3, <1>4, <1>5, <1>6, Writing

\* A click is a new one.
LEMMA Asking ==
    ASSUME PInv, NEW op \in Ops, NEW ids \in SUBSET Ids, NEW filled \in SUBSET Fields,
           Ask(op, ids, filled)
    PROVE  PInv'
<1> DEFINE new == [click |-> acts + 1, op |-> op, ids |-> ids, filled |-> filled,
                   stage |-> "sent"]
<1>1. Act /\ UNCHANGED <<server, controls, list, reads, answered, channel, excuses>>
    BY DEF Ask
<1>2. requests' = requests \cup {new}
    BY DEF Ask
<1>3. /\ acts \in Nat /\ acts' = acts + 1 /\ acts' \in 0..MaxActs /\ acts + 1 \in 1..MaxActs
      /\ 0..acts \subseteq 0..acts' /\ 1..acts \subseteq 1..acts'
    BY <1>1, BoundsAssumption DEF Act, PInv, Types
<1>4. new \in Request /\ new.click = acts + 1
    BY <1>3 DEF Request
<1> HIDE DEF new
<1>5. Types'
    BY <1>1, <1>2, <1>3, <1>4 DEF PInv, Types, server, controls, list, reads
<1>6. new.click \in 1..acts' /\ new.click \notin 1..acts
    BY <1>3, <1>4
<1>7. Clicks'
    BY <1>1, <1>2, <1>3, <1>6 DEF PInv, Clicks, Types
<1> QED
    BY <1>1, <1>5, <1>7, Elsewhere DEF PInv, SelectionIsShown, list

LEMMA Clicking ==
    ASSUME PInv
    PROVE  /\ \A i \in Ids : RowClick(i) => PInv'
           /\ BulkDelete => PInv'
           /\ BulkEdit => PInv'
           /\ FormSubmit => PInv'
<1>1. checked \in SUBSET Ids /\ {} \in SUBSET Ids /\ {} \in SUBSET Fields
    BY DEF PInv, Types
<1>2. ASSUME NEW i \in Ids, RowClick(i) PROVE PInv'
    <2>1. PICK op \in {"delete", "restore", "publish"} : Ask(op, {i}, {})
        BY <1>2 DEF RowClick
    <2>2. op \in Ops /\ {i} \in SUBSET Ids
        BY DEF Ops
    <2> QED
        BY <1>1, <2>1, <2>2, Asking
<1>3. "bulk_delete" \in Ops /\ "bulk_edit" \in Ops
    BY DEF Ops
<1>4. ASSUME FormSubmit PROVE PInv'
    <2>1. PICK op \in {"create", "draft"}, filled \in {Fields, Fields \ {"power_level"}} :
             Ask(op, {}, filled)
        BY <1>4 DEF FormSubmit
    <2>2. op \in Ops /\ filled \in SUBSET Fields
        BY DEF Ops
    <2> QED
        BY <1>1, <2>1, <2>2, Asking
<1> QED
    BY <1>1, <1>2, <1>3, <1>4, Asking DEF BulkDelete, BulkEdit

\* The boxes are only those of rows.
LEMMA Checking ==
    ASSUME PInv, CheckAll \/ \E i \in Ids : Check(i)
    PROVE  PInv'
<1>1. UNCHANGED <<server, controls, shown, reads, user, excuses, acts>>
    BY DEF CheckAll, Check
<1>2. checked' \subseteq DOMAIN shown
    BY DEF CheckAll, Check, PInv, SelectionIsShown
<1>3. DOMAIN shown \subseteq Ids
    BY RowsOfListing DEF PInv, Types
<1>4. Types' /\ SelectionIsShown' /\ Clicks' /\ UNCHANGED answered
    BY <1>1, <1>2, <1>3 DEF PInv, Types, SelectionIsShown, Clicks, server, controls, reads, user
<1> QED
    BY <1>1, <1>4, Elsewhere

\* The stream, a commit, the filter's checkbox, a request that gets lost.
LEMMA Resting ==
    ASSUME PInv,
           \/ Open \/ Drop \/ Refused \/ Commit \/ Toggle
           \/ \E r \in requests : LoseRequest(r)
    PROVE  PInv'
<1>1. /\ UNCHANGED <<heroes, last, asked, list, reads, answered>>
      /\ requests' \subseteq requests /\ excuses \subseteq excuses'
      /\ committed' \in {committed, heroes} /\ includeArchived' \in BOOLEAN
    BY DEF Open, Drop, Refused, Commit, Toggle, LoseRequest, server, controls, reads, user, PInv, Types
<1>2. acts' = acts \/ Act
    BY DEF Open, Drop, Refused, Commit, Toggle, LoseRequest
<1>3. /\ acts \in Nat /\ acts' \in 0..MaxActs
      /\ 0..acts \subseteq 0..acts' /\ 1..acts \subseteq 1..acts'
    BY <1>2, BoundsAssumption DEF Act, PInv, Types
<1>4. Types' /\ SelectionIsShown' /\ Clicks'
    BY <1>1, <1>3 DEF PInv, Types, SelectionIsShown, Clicks, list, reads
<1>5. Settled' = Settled /\ SettledIsCommitted'
    BY <1>1 DEF PInv, Settled, SettledIsCommitted
<1>6. \A rows, i : Agrees(rows, i)' <=> Agrees(rows, i)
    BY <1>1 DEF Agrees, Listing
<1> QED
    BY <1>1, <1>4, <1>5, <1>6 DEF PInv, Coming, Here, list, reads

-----------------------------------------------------------------------------
(***************************************************************************)
(* The theorems.                                                           *)
(***************************************************************************)
LEMMA PInit == Init => PInv
<1> SUFFICES ASSUME Init PROVE PInv
    OBVIOUS
<1>1. [None EXCEPT !.kind = "published"] \in Hero
    BY DEF None, Hero
<1>2. heroes \in Heroes /\ committed = heroes
    BY <1>1 DEF Init, Heroes
<1>3. shown \in Listings /\ DOMAIN shown = {}
    <2>1. NoRows \in [{} -> Hero]
        BY DEF NoRows
    <2> QED
        BY <2>1 DEF Init, Listings
<1>4. acts = 0 /\ acts \in 0..MaxActs /\ last \in [Ids -> 0..acts] /\ answered = {}
    BY BoundsAssumption DEF Init, Other
<1>5. Types
    <2>1. refreshes \in Seq(Refresh) /\ requests \subseteq Request
        BY DEF Init
    <2>2. includeArchived \in BOOLEAN /\ asked \in BOOLEAN /\ checked \subseteq Ids
        BY DEF Init
    <2> QED
        BY <1>2, <1>3, <1>4, <2>1, <2>2 DEF Types
<1>6. SelectionIsShown /\ Clicks
    BY <1>3, <1>4 DEF Init, SelectionIsShown, Clicks
<1>7. Settled = {}
    BY <1>4 DEF Settled
<1>8. refreshes = <<>>
    BY DEF Init
<1>9. SettledIsCommitted /\ Here
    BY <1>7, <1>8 DEF SettledIsCommitted, Here
<1> QED
    BY <1>5, <1>6, <1>9 DEF PInv

LEMMA PNext == PInv /\ [Next]_vars => PInv'
<1> SUFFICES ASSUME PInv, [Next]_vars PROVE PInv'
    OBVIOUS
<1>1. CASE UNCHANGED vars
    <2>1. UNCHANGED <<server, controls, list, reads, user, excuses, acts>>
        BY <1>1 DEF vars
    <2>2. Types' /\ SelectionIsShown' /\ Clicks' /\ UNCHANGED <<shown, answered>>
        BY <2>1 DEF PInv, Types, SelectionIsShown, Clicks, server, controls, list, reads, user
    <2> QED
        BY <2>1, <2>2, Elsewhere
<1>2. CASE \E k \in DOMAIN refreshes : Read(k) \/ Arrive(k) \/ Lose(k)
    BY <1>2, Reading, Arriving, Losing
<1>3. CASE LoadFilters \/ OnMessage \/ Apply
    BY <1>3, AskingAgain
<1>4. CASE Open \/ Drop \/ Refused \/ Commit \/ Toggle
    BY <1>4, Resting
<1>5. CASE \E r \in requests : Serve(r) \/ Answer(r) \/ LoseRequest(r)
    BY <1>5, Serving, Answering, Resting
<1>6. CASE \E i \in Ids : OtherWrites(i) \/ Check(i) \/ RowClick(i)
    BY <1>6, OtherWriting, Checking, Clicking
<1>7. CASE CheckAll \/ BulkDelete \/ BulkEdit \/ FormSubmit
    BY <1>7, Checking, Clicking
<1> QED
    BY <1>1, <1>2, <1>3, <1>4, <1>5, <1>6, <1>7 DEF Next

THEOREM PageInvariant == Spec => []PInv
BY PInit, PNext, PTL DEF Spec

\* A bulk action takes the boxes that are on, and they are rows of the list,
\* however answers, clicks and messages interleave (render_crud_component_js).
THEOREM SelectionShown == Spec => []SelectionIsShown
<1>1. PInv => SelectionIsShown
    BY DEF PInv
<1> QED
    BY <1>1, PageInvariant, PTL

\* Once no refresh() is in flight, and unless one came out of order, got lost or
\* could not be rendered, what the page did last to a row, and was told of, is
\* in the list: the row is shown as it is, or gone from it.
THEOREM OwnChangesShown == Spec => []OwnChangesShow
<1>1. PInv => OwnChangesShow
    <2> SUFFICES ASSUME PInv, refreshes = <<>>, "read" \notin excuses
                 PROVE  \A i \in Settled : Agrees(shown, i)
        BY DEF OwnChangesShow, Settled, Agrees
    <2> QED
        BY DEF PInv, Coming, Here
<1> QED
    BY <1>1, PageInvariant, PTL

=============================================================================
