-------------------------------- MODULE Page --------------------------------
(***************************************************************************)
(* The form page in a browser (web_components.py): <hero-list> and its     *)
(* filters, row and bulk actions, its live event stream, the <hero-form>   *)
(* element and the plain form of build_web_router, against the JSON        *)
(* routes.                                                                 *)
(*                                                                         *)
(* The browser runs one handler at a time and gives way at each `await`:   *)
(* answers arrive in any order, or never.  The server is external here: a  *)
(* request writes and publishes its events, then commits (SqlCrud), and    *)
(* what it does to a hero is what MockCrud says of one whose owner asks    *)
(* (abstracted to whether it has powers, and its life cycle).              *)
(* Of the filters only include_archived is kept.                           *)
(***************************************************************************)
EXTENDS Naturals, FiniteSets, SequencesExt

CONSTANTS
    Ids,            \* the heroes
    MaxActs,        \* bound on what users, other clients and failures do
    MaxReads        \* bound on the refresh() calls in flight

ASSUME BoundsAssumption == MaxActs \in Nat /\ MaxReads \in Nat

\* A draft may have no powers ("bare").
Hero == [kind : {"bare", "draft", "published"}, archived : BOOLEAN]

None == [kind |-> "none", archived |-> FALSE]

Heroes == [Ids -> Hero \cup {None}]

Other == 0       \* the number of no click

Fields == {"name", "powers", "power_level"}

VARIABLES
    heroes,     \* the table, the open transaction's changes included
    committed,  \* the table as other transactions see it
    phase,      \* "filters" until /filters has been answered, then "ready"
    includeArchived,
    shown,      \* the rows of the list: id -> hero
    checked,    \* the rows whose checkbox is on
    refreshes,  \* the refresh() calls in flight, in the order they were sent
    asked,      \* include_archived of the last one sent
    requests,   \* the other requests of the page in flight
    acts,       \* how much they have done so far
    stream,     \* the EventSource: "connecting", "open", or "closed" for good
    events,     \* messages on it that have not been handled
    last,       \* history: who changed a hero last, a click or 0
    answered,   \* history: the clicks whose answer has been handled
    excuses     \* history: why the list may be out of date

server == <<heroes, committed, last>>
controls == <<phase, includeArchived>>
list == <<shown, checked>>
reads == <<refreshes, asked>>
user == <<requests, answered>>
channel == <<stream, events>>
vars == <<server, controls, list, reads, user, channel, excuses, acts>>

NoRows == [i \in {} |-> None]

\* The rows GET answers: archived ones only if the query says so.
Listing(table, archived) ==
    [i \in {j \in Ids : table[j] # None /\ (archived \/ ~table[j].archived)} |-> table[i]]

Listings == UNION {[S -> Hero] : S \in SUBSET Ids}

Refresh == [archived : BOOLEAN, read : BOOLEAN, list : Listings, late : BOOLEAN]

Ops == {"delete", "restore", "publish", "bulk_delete", "bulk_edit", "create", "draft"}

\* What the page wants done, to which rows; "filled" are the inputs of a form
\* that are not blank.
Request == [click : 1..MaxActs, op : Ops, ids : SUBSET Ids,
            filled : SUBSET Fields, stage : {"sent", "written"}]

\* "event": a change was committed when every message that would have shown it
\* had been handled, or the stream is closed for good.  "read": a list came
\* after a later one, got lost or could not be rendered.
Excuses == {"event", "read"}

TypeOK ==
    /\ heroes \in Heroes /\ committed \in Heroes
    /\ phase \in {"filters", "ready"} /\ includeArchived \in BOOLEAN /\ asked \in BOOLEAN
    /\ shown \in Listings /\ checked \subseteq Ids
    /\ refreshes \in Seq(Refresh)
    /\ requests \subseteq Request
    /\ \A q, r \in requests : q.click = r.click => q = r
    /\ acts \in 0..MaxActs
    /\ stream \in {"connecting", "open", "closed"} /\ events \in Nat
    /\ last \in [Ids -> 0..MaxActs] /\ answered \subseteq 1..MaxActs
    /\ excuses \subseteq Excuses

Init ==
    /\ heroes \in [Ids -> {None, [None EXCEPT !.kind = "published"]}]
    /\ committed = heroes
    /\ phase = "filters" /\ includeArchived = FALSE /\ asked = FALSE
    /\ shown = NoRows /\ checked = {}
    /\ refreshes = <<>> /\ requests = {}
    /\ acts = 0
    /\ stream = "connecting" /\ events = 0
    /\ last = [i \in Ids |-> Other] /\ answered = {}
    /\ excuses = {}

Act == acts < MaxActs /\ acts' = acts + 1

-----------------------------------------------------------------------------
(***************************************************************************)
(* refresh().                                                              *)
(***************************************************************************)

\* It reads the controls and sends GET.
Sent == Append(refreshes, [archived |-> includeArchived, read |-> FALSE,
                            list |-> NoRows, late |-> FALSE])

SendRefresh == Len(refreshes) < MaxReads /\ refreshes' = Sent /\ asked' = includeArchived

Read(k) ==
    /\ ~refreshes[k].read
    /\ refreshes' = [refreshes EXCEPT ![k].read = TRUE,
                                      ![k].list = Listing(committed, refreshes[k].archived)]
    /\ UNCHANGED <<server, controls, list, asked, user, channel, excuses, acts>>

\* record[f].join(", ") throws on a hero without powers.
Renderable(rows) == \A i \in DOMAIN rows : rows[i].kind # "bare"

\* Slip: the boxes that were on stay on.
RenderKeepingChecks(rows) == shown' = rows /\ UNCHANGED checked

\* The table is written anew, no box is on.
Render(rows) == shown' = rows /\ checked' = {}

\* The answer arrives: the table is replaced, unless rendering throws.
Arrive(k) ==
    LET refresh == refreshes[k]
        rest == RemoveAt(refreshes, k)
    IN
    /\ refresh.read
    /\ \/ /\ Renderable(refresh.list)
          /\ Render(refresh.list)
          /\ refreshes' = [j \in DOMAIN rest |-> [rest[j] EXCEPT !.late = @ \/ j < k]]
          /\ excuses' = excuses \cup {e \in {"read"} : refresh.late}
       \/ /\ ~Renderable(refresh.list)
          /\ refreshes' = rest
          /\ excuses' = excuses \cup {"read"}
          /\ UNCHANGED list
    /\ UNCHANGED <<server, controls, asked, user, channel, acts>>

\* The fetch fails: nothing catches it, and nothing tries again.
Lose(k) ==
    /\ Act
    /\ refreshes' = RemoveAt(refreshes, k)
    /\ excuses' = excuses \cup {"read"}
    /\ UNCHANGED <<server, controls, list, asked, user, channel>>

\* loadFilters(): answered or not, the controls are rendered and the list is
\* read for the first time.
LoadFilters ==
    /\ phase = "filters"
    /\ phase' = "ready"
    /\ SendRefresh
    /\ UNCHANGED <<server, includeArchived, list, user, channel, excuses, acts>>

-----------------------------------------------------------------------------
(***************************************************************************)
(* subscribeToEvents().                                                    *)
(***************************************************************************)

\* Slip: the stream starts with a comment, as a keep-alive is one, which is no
\* message.
OpenWithComment ==
    /\ stream = "connecting"
    /\ stream' = "open" /\ events' = 0
    /\ UNCHANGED <<server, controls, list, reads, user, excuses, acts>>

\* Every connection, the first and each after it, starts with the frame of the
\* subscriber id: a message like any other.  The subscription is there before it
\* is sent (_sse_events, EventSource.subscribe).
Open ==
    /\ stream = "connecting"
    /\ stream' = "open" /\ events' = 1
    /\ UNCHANGED <<server, controls, list, reads, user, excuses, acts>>

\* The connection drops, and what was on its way with it; the browser connects
\* again, to a subscription that owes it nothing.
Drop ==
    /\ Act
    /\ stream = "open"
    /\ stream' = "connecting" /\ events' = 0
    /\ UNCHANGED <<server, controls, list, reads, user, excuses>>

\* An answer other than 200, as when the broker cannot be reached: an
\* EventSource does not try again.
Refused ==
    /\ Act
    /\ stream = "connecting"
    /\ stream' = "closed"
    /\ excuses' = excuses \cup {"event"}
    /\ UNCHANGED <<server, controls, list, reads, user, events>>

\* onmessage: before the controls are there, refresh() throws in currentQuery().
OnMessage ==
    /\ stream = "open" /\ events > 0
    /\ events' = events - 1
    /\ IF phase = "ready" THEN SendRefresh ELSE UNCHANGED reads
    /\ UNCHANGED <<server, controls, list, user, stream, excuses, acts>>

-----------------------------------------------------------------------------
(***************************************************************************)
(* The server.                                                             *)
(***************************************************************************)

\* A transaction changes heroes and publishes an event for each, and commits
\* later; writers take turns.
Write(new, who) ==
    LET changed == {i \in Ids : new[i] # heroes[i]} IN
    /\ committed = heroes
    /\ heroes' = new
    /\ last' = [i \in Ids |-> IF i \in changed THEN who ELSE last[i]]
    /\ events' = IF stream = "open" THEN events + Cardinality(changed) ELSE events
    /\ UNCHANGED <<committed, stream, excuses>>

\* Nothing is on its way that makes the page read the list once more.
AllHandled == phase = "ready" /\ stream = "open" /\ events = 0

Commit ==
    /\ committed # heroes
    /\ committed' = heroes
    /\ excuses' = excuses \cup {e \in {"event"} : AllHandled}
    /\ UNCHANGED <<heroes, last, controls, list, reads, user, channel, acts>>

\* The rows a request matches: restore and publish want the row in the state
\* they end, the others want it live.
Matched(r) ==
    {i \in r.ids :
        /\ heroes[i] # None
        /\ CASE r.op = "restore" -> heroes[i].archived
             [] r.op = "publish" -> ~heroes[i].archived /\ heroes[i].kind = "draft"
             [] OTHER            -> ~heroes[i].archived}

Changed(r, hero) ==
    CASE r.op \in {"delete", "bulk_delete"} -> [hero EXCEPT !.archived = TRUE]
      [] r.op = "restore"                   -> [hero EXCEPT !.archived = FALSE]
      [] r.op = "publish"                   -> [hero EXCEPT !.kind = "published"]
      [] r.op = "bulk_edit" -> [hero EXCEPT !.kind = IF @ = "bare" THEN "draft" ELSE @]

\* The element sends a blank input as "", or as [] for a list, which no schema
\* takes: every input has to be filled, of a draft too.
Accepted(r) == r.filled = Fields

Created(r) ==
    IF ~Accepted(r) THEN {}
    ELSE {[heroes EXCEPT ![i] =
              [kind |-> IF r.op = "draft" THEN "draft" ELSE "published",
               archived |-> FALSE]] : i \in {j \in Ids : heroes[j] = None}}

Serve(r) ==
    /\ r.stage = "sent"
    /\ IF r.op \in {"create", "draft"}
          THEN \/ \E new \in Created(r) : Write(new, r.click)
               \/ Created(r) = {} /\ Write(heroes, r.click)
          ELSE Write([i \in Ids |-> IF i \in Matched(r) THEN Changed(r, heroes[i]) ELSE heroes[i]],
                     r.click)
    /\ requests' = (requests \ {r}) \cup {[r EXCEPT !.stage = "written"]}
    /\ UNCHANGED <<controls, list, reads, answered, acts>>

\* Any other client, any way.
OtherWrites(i) ==
    /\ Act
    /\ \E hero \in Hero : heroes[i] # hero /\ Write([heroes EXCEPT ![i] = hero], Other)
    /\ UNCHANGED <<controls, list, reads, user>>

-----------------------------------------------------------------------------
(***************************************************************************)
(* The user.                                                               *)
(***************************************************************************)

\* The checkbox only sets the field; "Apply filters" reads the list again.
Toggle ==
    /\ phase = "ready"
    /\ Act
    /\ includeArchived' = ~includeArchived
    /\ UNCHANGED <<server, phase, list, reads, user, channel, excuses>>

Apply ==
    /\ phase = "ready"
    /\ Act
    /\ SendRefresh
    /\ UNCHANGED <<server, controls, list, user, channel, excuses>>

Check(i) ==
    /\ i \in DOMAIN shown
    /\ checked' = IF i \in checked THEN checked \ {i} ELSE checked \cup {i}
    /\ UNCHANGED <<server, controls, shown, reads, user, channel, excuses, acts>>

CheckAll ==
    /\ checked' \in {{}, DOMAIN shown} /\ checked' # checked
    /\ UNCHANGED <<server, controls, shown, reads, user, channel, excuses, acts>>

Ask(op, ids, filled) ==
    /\ Act
    /\ requests' = requests \cup {[click |-> acts + 1, op |-> op, ids |-> ids,
                                   filled |-> filled, stage |-> "sent"]}
    /\ UNCHANGED <<server, controls, list, reads, answered, channel, excuses>>

\* The buttons a row has are those of the hero it shows.
RowClick(i) ==
    /\ i \in DOMAIN shown
    /\ \E op \in {"delete", "restore", "publish"} :
          /\ op = "restore" => shown[i].archived
          /\ op = "publish" => shown[i].kind # "published"
          /\ Ask(op, {i}, {})

\* selectedIds() is read at the click; nothing selected, nothing sent.
BulkDelete == checked # {} /\ Ask("bulk_delete", checked, {})

\* The new powers are typed.
BulkEdit == checked # {} /\ Ask("bulk_edit", checked, {})

\* <hero-form>, with or without blank inputs, and "Save as draft".
FormSubmit == \E op \in {"create", "draft"}, filled \in {Fields, Fields \ {"power_level"}} :
                 Ask(op, {}, filled)

\* Slip: a row action does not wait for its answer.
AnswerForgotten(r) ==
    /\ r.stage = "written" /\ committed = heroes
    /\ requests' = requests \ {r}
    /\ answered' = answered \cup {r.click}
    /\ UNCHANGED <<server, controls, list, reads, channel, excuses, acts>>

\* The answer comes after the commit: the list is read again.  The form only
\* dispatches "created", which nothing listens to.
Answer(r) ==
    /\ r.stage = "written" /\ committed = heroes
    /\ requests' = requests \ {r}
    /\ IF r.op \in {"create", "draft"}
          THEN UNCHANGED <<reads, answered>>
          ELSE SendRefresh /\ answered' = answered \cup {r.click}
    /\ UNCHANGED <<server, controls, list, channel, excuses, acts>>

\* A request or its answer is lost: the handler ends there.
LoseRequest(r) ==
    /\ Act
    /\ requests' = requests \ {r}
    /\ UNCHANGED <<server, controls, list, reads, answered, channel, excuses>>

Next ==
    \/ \E k \in DOMAIN refreshes : Read(k) \/ Arrive(k) \/ Lose(k)
    \/ LoadFilters \/ Open \/ Drop \/ Refused \/ OnMessage
    \/ Commit
    \/ \E r \in requests : Serve(r) \/ Answer(r) \/ LoseRequest(r)
    \/ \E i \in Ids : OtherWrites(i) \/ Check(i) \/ RowClick(i)
    \/ Toggle \/ Apply \/ CheckAll \/ BulkDelete \/ BulkEdit \/ FormSubmit

\* The browser and the server go on; nobody has to click, write or fail.
Fairness ==
    /\ WF_vars(\E k \in DOMAIN refreshes : Read(k))
    /\ WF_vars(\E k \in DOMAIN refreshes : Arrive(k))
    /\ WF_vars(LoadFilters)
    /\ WF_vars(Open)
    /\ WF_vars(OnMessage)
    /\ WF_vars(Commit)
    /\ WF_vars(\E r \in requests : Serve(r))
    /\ WF_vars(\E r \in requests : Answer(r))

Spec == Init /\ [][Next]_vars /\ Fairness

-----------------------------------------------------------------------------
(***************************************************************************)
(* Properties.                                                             *)
(***************************************************************************)

\* "a bulk action can never reach a record the visible list doesn't show"
\* (render_crud_component_js): a box that is on is a row's, however answers,
\* clicks and messages interleave.
SelectionIsShown == checked \subseteq DOMAIN shown

\* What the page has done for its user is seen without any help of the stream:
\* once nothing is in flight, a row it changed last is shown as it is, if the
\* list was read in order and could be rendered.
OwnChangesShow ==
    refreshes = <<>> /\ "read" \notin excuses =>
        \A i \in Ids : last[i] \in answered =>
            /\ i \in DOMAIN shown <=> i \in DOMAIN Listing(heroes, asked)
            /\ i \in DOMAIN shown => shown[i] = heroes[i]

\* Every change of anyone ends up in the list without a click, also one made
\* while the stream was down: the next connection's first message has the list
\* read again.  Except for what nothing makes good (excuses): a commit after the
\* message that announced it, a stream that is refused, reads that fail or come
\* out of order.
UpToDate == shown = Listing(heroes, asked)
EndsUpToDate == [](excuses = {}) => <>[]UpToDate

-----------------------------------------------------------------------------
\* "a live EventSource subscription [...] that refreshes the list"
\* (web_components.py, build_web_router): it may stay behind (PageStale.cfg).
AlwaysEndsUpToDate == <>[]UpToDate

\* "with its own name and powers, a hero is created; power_level is optional"
\* holds of the plain form, not of <hero-form> (PageForm.cfg).
FilledFormIsStored ==
    [][\A r \in requests :
          /\ r.op = "create" /\ {"name", "powers"} \subseteq r.filled
          /\ \E i \in Ids : heroes[i] = None
          /\ Serve(r)
          => heroes' # heroes]_vars

=============================================================================
