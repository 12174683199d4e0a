----------------------------- MODULE PagedLists -----------------------------
(***************************************************************************)
(* The lists of the API, read page by page while they change: the findAll  *)
(* of tickets, reports, users, companies and comments, and the timeline    *)
(* and the feed of AuditService.  Every page is a scope of its own, and in *)
(* it count() and findMany() are two statements with two READ COMMITTED    *)
(* snapshots.  ReportsProcessor.collect() reads the tickets this way for   *)
(* an export; the other lists are read by a client, which is external, and *)
(* asks for the next page as collect() does.                               *)
(*                                                                         *)
(* A row is its place in the order of created_at.  `listed` is what is     *)
(* committed and matches what the caller asked for; `unasked` what does    *)
(* not, where the difference matters.  A row may be committed after        *)
(* younger ones: created_at is when its transaction began.                 *)
(***************************************************************************)
EXTENDS Naturals, Sequences, FiniteSets

CONSTANTS
  Lists,      \* those that are read, a subset of AllLists
  Filtering,  \* does the caller name an action in the query of the timeline?
  MaxItems,   \* how many rows there ever are (a bound)
  PerPage,
  MaxRows     \* REPORTS_MAX_ROWS; a bound on what a client reads

VARIABLES
  list,     \* the list that is read
  opened,   \* how many rows have a place
  listed, unasked,
  notes,    \* rows that are for staff: internal notes and the entries about them
  staff,    \* is the reader an ADMIN or an AGENT?
  pc,       \* where the reading stands
  asStaff,  \* the role its request was accepted with
  page, total, rows,         \* the locals of collect() and findAll()
  first, entered, left       \* for the properties: what could be listed when the
                             \* reading began, and what has entered and left since
listVars == <<list, opened, listed, unasked, notes, staff, pc, asStaff, page, total, rows,
          first, entered, left>>
local == <<pc, asStaff, page, total, rows, first>>
fixed == <<list, notes>>

\* orderBy createdAt, id: the queues are read from the top, threads from the start.
NewestFirst == {"tickets", "reports", "feed"}
OldestFirst == {"users", "companies", "comments", "timeline"}
AllLists == NewestFirst \cup OldestFirst

\* Nothing updates or deletes a comment or an entry of the trail.
AppendOnly == {"comments", "timeline", "feed"}
\* The lists under one ticket, which requireTicket() must find first.
OfATicket == {"comments", "timeline"}

ASSUME ListsAssumption == Lists \subseteq AllLists /\ Filtering \in BOOLEAN
ASSUME BoundsAssumption ==
  MaxItems \in Nat /\ PerPage \in Nat \ {0} /\ MaxRows \in Nat \ {0}

Hidden(asksStaff) == IF list \in OfATicket /\ ~asksStaff THEN notes ELSE {}
\* What the caller can list now, by the role of the request that is running.
Listable == listed \ Hidden(IF pc \in {"counting", "counted"} THEN asStaff ELSE staff)

ListInit ==
  /\ list \in Lists
  /\ opened \in 0 .. MaxItems
  /\ listed \in SUBSET (1 .. opened)
  /\ unasked = {}
  /\ notes \in IF list \in OfATicket THEN SUBSET (1 .. MaxItems) ELSE {{}}
  /\ staff \in BOOLEAN /\ (list = "feed" => staff)
  /\ pc = "idle" /\ asStaff = staff
  /\ page = 1 /\ total = 0 /\ rows = <<>>
  /\ first = {} /\ entered = {} /\ left = {}

----------------------------------------------------------------------------
\* What the rest of the company does, between any two statements of the reading.

Tracked ==
  /\ entered' = entered \cup (Listable' \ Listable)
  /\ left' = left \cup (Listable \ Listable')

Meanwhile == UNCHANGED <<fixed, local>> /\ Tracked

\* A row is inserted: committed now or later, and perhaps not what was asked for.
InsertRow ==
  /\ opened < MaxItems
  /\ opened' = opened + 1
  /\ \/ listed' \in {listed, listed \cup {opened'}} /\ UNCHANGED unasked
     \/ /\ Filtering /\ list = "timeline"
        /\ unasked' = unasked \cup {opened'} /\ UNCHANGED listed
  /\ UNCHANGED staff
  /\ Meanwhile

Enter(t) ==
  /\ t \in (1 .. opened) \ (listed \cup unasked)
  /\ listed' = listed \cup {t}
  /\ UNCHANGED <<opened, unasked, staff>>
  /\ Meanwhile

Leave(t) ==
  /\ t \in listed /\ list \notin AppendOnly
  /\ listed' = listed \ {t}
  /\ UNCHANGED <<opened, unasked, staff>>
  /\ Meanwhile

\* update() gives the reader another role.
ChangeRole ==
  /\ list \in OfATicket
  /\ staff' = ~staff
  /\ UNCHANGED <<opened, listed, unasked>>
  /\ Meanwhile

----------------------------------------------------------------------------
\* The where clause: handlesInternalNotes() goes by the role of this request.  In
\* timeline() the two conditions on `action` have one key, and the later one wins.
Where ==
  IF list = "timeline" /\ ~asStaff
  THEN (listed \cup unasked) \ Hidden(asStaff)
  ELSE listed \ Hidden(asStaff)

Before(t, u) == IF list \in NewestFirst THEN t > u ELSE t < u

Sequenced(S, Precedes(_, _)) ==
  CHOOSE s \in [1 .. Cardinality(S) -> S] :
    \A i, j \in 1 .. Cardinality(S) : i < j => Precedes(s[i], s[j])

\* Mutant: the lists are all read in one direction.
Newest == Sequenced(Where, >)
Ordered == Sequenced(Where, Before)

Cut(s, i, j) == SubSeq(s, i, IF j < Len(s) THEN j ELSE Len(s))

\* Mutant: the page is looked up among all the rows.
UnfilteredData ==
  Cut(Sequenced(1 .. opened, Before), (page - 1) * PerPage + 1, page * PerPage)
\* findMany(): skip (page - 1) * perPage, take perPage.
Data == Cut(Ordered, (page - 1) * PerPage + 1, page * PerPage)

\* Mutant: an incomplete last page is not a page.
FullPages == IF total < PerPage THEN 1 ELSE total \div PerPage
\* Math.ceil(total / perPage) || 1.
TotalPages == IF total = 0 THEN 1 ELSE (total + PerPage - 1) \div PerPage

Begin ==
  /\ pc = "idle"
  /\ pc' = "asking"
  /\ first' = Listable /\ entered' = {} /\ left' = {}
  /\ UNCHANGED <<fixed, opened, listed, unasked, staff, asStaff, page, total, rows>>

\* The request is accepted, or the reader no longer sees the ticket: 404.
Accept ==
  /\ pc = "asking"
  /\ asStaff' = staff
  /\ pc' \in {"counting"} \cup (IF list \in OfATicket THEN {"refused"} ELSE {})
  /\ UNCHANGED <<fixed, opened, listed, unasked, staff, page, total, rows, first,
                 entered, left>>

Count ==
  /\ pc = "counting"
  /\ total' = Cardinality(Where)
  /\ pc' = "counted"
  /\ UNCHANGED <<fixed, opened, listed, unasked, staff, asStaff, page, rows, first,
                 entered, left>>

\* The last page, an empty page or enough rows end the loop.
NoNextPage == page >= TotalPages \/ Data = <<>> \/ Len(rows \o Data) >= MaxRows

FindMany ==
  /\ pc = "counted"
  /\ rows' = Cut(rows \o Data, 1, MaxRows)
  /\ \/ ~NoNextPage /\ page' = page + 1 /\ pc' = "asking"
     \/ NoNextPage /\ pc' = "done" /\ UNCHANGED page
  /\ UNCHANGED <<fixed, opened, listed, unasked, staff, asStaff, total, first>>
  /\ Tracked

ListNext ==
  \/ InsertRow \/ ChangeRole
  \/ \E t \in 1 .. MaxItems : Enter(t) \/ Leave(t)
  \/ Begin \/ Accept \/ Count \/ FindMany

ListSpec == ListInit /\ [][ListNext]_listVars

----------------------------------------------------------------------------
Returned == {rows[i] : i \in 1 .. Len(rows)}

\* No page has a row that the reader could not have listed at some moment of the
\* reading: filtered out, another's, or a note that is for staff.
RowsWereListed == Returned \subseteq first \cup entered

\* The pages go in the order of the list.  A row read again, or read after one that it
\* comes before, was pushed down a page: during the reading it, or one before it, came
\* into the list.
RowsStayInOrder ==
  \A i, j \in 1 .. Len(rows) :
    i < j /\ ~Before(rows[i], rows[j]) =>
      \E t \in entered : t = rows[j] \/ Before(t, rows[j])

\* A reading that was not cut has every row that stayed in the list, unless one before
\* it left the list and pulled it up a page, or entered it after the count and pushed
\* it off the last one.
MissesArePulledUp ==
  pc = "done" /\ Len(rows) < MaxRows =>
    \A t \in first \ (left \cup Returned) : \E u \in left \cup entered : Before(u, t)

----------------------------------------------------------------------------
\* tickets.service.ts: no concurrent write lands between the total and the page, which
\* would return a total that does not match the page.
TotalMatchesPage == [][FindMany => total = Cardinality(Where)]_listVars
============================================================================
