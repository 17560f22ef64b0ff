-------------------------------- MODULE Pages --------------------------------
(***************************************************************************)
(* Keyset pagination: a client walks a list page by page with the cursor   *)
(* of the last row it got, each page a query of its own, while others      *)
(* insert, edit and delete rows of that list.  pagination/ and the list    *)
(* queries of events, absences, members, finances and news.                *)
(***************************************************************************)
EXTENDS Integers, Sequences, FiniteSets, SequencesExt, FiniteSetsExt

CONSTANTS RowIds,        \* ids: random, so in no order of creation
          ListTeams, ListUsers,
          Leads,         \* dates, names or pins: what a list is sorted by first
          Times,         \* values of created_at
          DefaultLimit, MaxLimit,
          Limits,        \* limits clients ask for; Absent: no parameter
          MaxNews,       \* maxNewsPerTeam
          Authors,       \* requests posting news at the same time
          Absent

ASSUME PagesAssumption ==
    /\ RowIds \subseteq Int /\ Times \subseteq Int
    /\ Leads \subseteq Nat /\ Leads # {}
    /\ DefaultLimit \in Nat \ {0} /\ MaxLimit \in Nat \ {0}
    /\ Limits \subseteq Int \union {Absent}
    /\ Absent \notin ListTeams

VARIABLES list,      \* which list the clients walk
          entries,   \* id -> row
          today,     \* the server's date
          posting,   \* requests past the news cap, about to insert
          walk,      \* the client's walk
          forged     \* a cursor that Encode did not issue was sent

pageVars == <<list, entries, today, posting, walk, forged>>

Lists == {"past", "upcoming", "all", "comments", "teamAbsences", "myAbsences",
          "members", "transactions", "news"}

\* A row: its team and user, what sorts it first (lead), the last day of an
\* event (upto) and its creation time.
Entry == [team : ListTeams, user : ListUsers, lead : Leads, upto : Leads,
          created : Times]

-----------------------------------------------------------------------------
(* pagination *)

ParseLimit(limit) ==
    IF limit = Absent \/ limit <= 0 THEN DefaultLimit
    ELSE IF limit > MaxLimit THEN MaxLimit ELSE limit

\* Tokens are signed: what Encode issued is decoded, anything else counts as
\* no cursor at all.
Encode(key, team) == [key |-> key, team |-> team, signed |-> TRUE]
NoCursor == [key |-> << >>, team |-> Absent, signed |-> TRUE]
Decode(token) == IF token.signed THEN token ELSE NoCursor

\* PostgreSQL compares rows of columns lexicographically.
Before(a, b) ==
    \E i \in DOMAIN a : a[i] < b[i] /\ \A j \in 1 .. i - 1 : a[j] = b[j]

Ahead(a, b, ascending) == IF ascending THEN Before(a, b) ELSE Before(b, a)

\* The rows after the cursor, and how many of them come before row id.
After(rows, key, ascending, cursor) ==
    {id \in rows : cursor.key = << >> \/ Ahead(cursor.key, key[id], ascending)}
Rank(rows, key, ascending, id) ==
    Cardinality({o \in rows : Ahead(key[o], key[id], ascending)})

\* The first rows of a list in its order, after the cursor.
Query(rows, key, ascending, limit, cursor) ==
    LET rest == After(rows, key, ascending, cursor)
    IN [i \in 1 .. Min({limit, Cardinality(rest)}) |->
          CHOOSE id \in rest : Rank(rest, key, ascending, id) = i - 1]

\* Every service fetches one row more than it was asked for.
PageOf(found, limit, key, team) ==
    IF Len(found) > limit
    THEN [items |-> SubSeq(found, 1, limit),
          next |-> Encode(key[found[limit]], team)]
    ELSE [items |-> found, next |-> NoCursor]

-----------------------------------------------------------------------------
(* The keys the cursors carry and the lists are sorted by *)

EventCursor    == [id \in DOMAIN entries |-> <<entries[id].lead, id>>]
CommentCursor  == [id \in DOMAIN entries |-> <<entries[id].created, id>>]
AbsenceCursor  == [id \in DOMAIN entries |-> <<entries[id].lead, id>>]
MemberCursor   == [id \in DOMAIN entries |-> <<entries[id].lead, id>>]
TxCursor       == [id \in DOMAIN entries |-> <<entries[id].lead, entries[id].created, id>>]
NewsCursor     == [id \in DOMAIN entries |-> <<entries[id].lead, entries[id].created, id>>]

OfTeam(t) == {id \in DOMAIN entries : entries[id].team = t}

-----------------------------------------------------------------------------
(* The queries, by list *)

\* A multi-day event under way is not past: its last day counts.
ListEvents(t, scope, limit, cursor) ==
    CASE scope = "past" ->
           Query({id \in OfTeam(t) : entries[id].upto < today}, EventCursor, FALSE,
                 limit, cursor)
      [] scope = "upcoming" ->
           Query({id \in OfTeam(t) : entries[id].upto >= today}, EventCursor, TRUE,
                 limit, cursor)
      [] OTHER -> Query(OfTeam(t), EventCursor, TRUE, limit, cursor)

ListComments(t, limit, cursor) == Query(OfTeam(t), CommentCursor, TRUE, limit, cursor)

ListAbsencesByTeam(t, limit, cursor) == Query(OfTeam(t), AbsenceCursor, FALSE, limit, cursor)

ListAbsencesByUser(t, u, limit, cursor) ==
    Query({id \in OfTeam(t) : entries[id].user = u}, AbsenceCursor, FALSE, limit, cursor)

ListMembers(t, limit, cursor) == Query(OfTeam(t), MemberCursor, TRUE, limit, cursor)

\* Mutant: the comparison leaves out created_at, which the order still uses.
ListTransactionsPage_NoTime(t, limit, cursor) ==
    LET short == IF cursor.key = << >> THEN cursor
                 ELSE [cursor EXCEPT !.key = <<cursor.key[1], cursor.key[3]>>]
        rest == {id \in OfTeam(t) :
                    short.key = << >> \/ Before(<<entries[id].lead, id>>, short.key)}
    IN Query(rest, TxCursor, FALSE, limit, NoCursor)

ListTransactionsPage(t, limit, cursor) == Query(OfTeam(t), TxCursor, FALSE, limit, cursor)

ListNewsByTeam(t, limit, cursor) == Query(OfTeam(t), NewsCursor, FALSE, limit, cursor)

-----------------------------------------------------------------------------
(* The services: decode the cursor, fetch a page and one row more *)

ListEventsPage(t, limit, token) ==
    PageOf(ListEvents(t, list, limit + 1, Decode(token)), limit, EventCursor, t)
ListCommentsPage(t, limit, token) ==
    PageOf(ListComments(t, limit + 1, Decode(token)), limit, CommentCursor, t)
TeamAbsencesPage(t, limit, token) ==
    PageOf(ListAbsencesByTeam(t, limit + 1, Decode(token)), limit, AbsenceCursor, t)
MyAbsencesPage(t, u, limit, token) ==
    PageOf(ListAbsencesByUser(t, u, limit + 1, Decode(token)), limit, AbsenceCursor, t)
\* A cursor of another team's list is an error: no page, the walk ends.
ListMembersPage(t, limit, token) ==
    LET cursor == Decode(token)
    IN IF cursor.key # << >> /\ cursor.team # t
       THEN [items |-> << >>, next |-> NoCursor]
       ELSE PageOf(ListMembers(t, limit + 1, cursor), limit, MemberCursor, t)
ListTransactions(t, limit, token) ==
    PageOf(ListTransactionsPage(t, limit + 1, Decode(token)), limit, TxCursor, t)
ListNews(t, limit, token) ==
    PageOf(ListNewsByTeam(t, limit + 1, Decode(token)), limit, NewsCursor, t)

-----------------------------------------------------------------------------
(* The handlers: one request per page, made by a client that walks the list *)

Asked(names) == list \in names /\ walk.pc = "walking"

Turn(page) ==
    /\ walk' = [walk EXCEPT !.shown = @ \o page.items, !.token = page.next,
                            !.pc = IF page.next = NoCursor THEN "done" ELSE "walking"]
    /\ UNCHANGED <<list, entries, today, posting, forged>>

EventsRequest ==
    Asked({"past", "upcoming", "all"}) /\ Turn(ListEventsPage(walk.team, walk.limit, walk.token))
CommentsRequest ==
    Asked({"comments"}) /\ Turn(ListCommentsPage(walk.team, walk.limit, walk.token))
AbsencesRequest ==
    Asked({"teamAbsences"}) /\ Turn(TeamAbsencesPage(walk.team, walk.limit, walk.token))
MyAbsencesRequest ==
    Asked({"myAbsences"})
    /\ Turn(MyAbsencesPage(walk.team, walk.user, walk.limit, walk.token))
MembersRequest ==
    Asked({"members"}) /\ Turn(ListMembersPage(walk.team, walk.limit, walk.token))
TransactionsRequest ==
    Asked({"transactions"}) /\ Turn(ListTransactions(walk.team, walk.limit, walk.token))
NewsRequest ==
    Asked({"news"}) /\ Turn(ListNews(walk.team, walk.limit, walk.token))

\* A walk begins.  watched: rows of the list unchanged since; fresh: rows
\* inserted since; both lose a row as soon as it is edited or deleted.
InScope(r, t, u) ==
    /\ r.team = t
    /\ list = "myAbsences" => r.user = u
    /\ list = "past" => r.upto < today
    /\ list = "upcoming" => r.upto >= today

OpenList(t, u, limit) ==
    /\ walk.pc = "closed"
    /\ walk' = [pc |-> "walking", team |-> t, user |-> u, limit |-> ParseLimit(limit),
                token |-> NoCursor, shown |-> << >>,
                watched |-> {id \in DOMAIN entries : InScope(entries[id], t, u)},
                fresh |-> {}]
    /\ UNCHANGED <<list, entries, today, posting, forged>>

\* A client alters its cursor: it may still be a cursor, but not a signed one.
ForgeCursor ==
    /\ walk.pc = "walking" /\ walk.token # NoCursor /\ ~forged
    /\ walk' = [walk EXCEPT !.token.signed = FALSE]
    /\ forged' = TRUE
    /\ UNCHANGED <<list, entries, today, posting>>

-----------------------------------------------------------------------------
(* Writers *)

Touched(id) == walk' = [walk EXCEPT !.watched = @ \ {id}, !.fresh = @ \ {id}]

\* Ids are random: a new one is none that the client has seen before.
InsertEntry(id, r) ==
    /\ id \notin DOMAIN entries \union ToSet(walk.shown)
    /\ entries' = [x \in DOMAIN entries \union {id} |-> IF x = id THEN r ELSE entries[x]]
    /\ walk' = [walk EXCEPT !.fresh = @ \union {id}]

\* Comments and the identity of a row are never edited; dates, names and pins are.
EditEntry(id, lead, upto) ==
    /\ id \in DOMAIN entries
    /\ entries' = [entries EXCEPT ![id].lead = lead, ![id].upto = upto]
    /\ Touched(id)

RemoveEntry(id) ==
    /\ id \in DOMAIN entries
    /\ entries' = [x \in DOMAIN entries \ {id} |-> entries[x]]
    /\ Touched(id)

\* News: the cap is counted in a statement of its own before the insert.
CountNews(t) == Cardinality(OfTeam(t))

AdmitNews(a, t) ==
    /\ list = "news" /\ posting[a] = Absent
    /\ CountNews(t) < MaxNews
    /\ posting' = [posting EXCEPT ![a] = t]
    /\ UNCHANGED <<list, entries, today, walk, forged>>

CreateNews(a, id, user, pinned, created) ==
    /\ posting[a] # Absent
    /\ InsertEntry(id, [team |-> posting[a], user |-> user, lead |-> pinned,
                        upto |-> pinned, created |-> created])
    /\ posting' = [posting EXCEPT ![a] = Absent]
    /\ UNCHANGED <<list, today, forged>>

UpdateNews(id, t, pinned) ==
    /\ list = "news" /\ id \in OfTeam(t)
    /\ EditEntry(id, pinned, pinned)
    /\ UNCHANGED <<list, today, posting, forged>>

DeleteNews(id, t) ==
    /\ list = "news" /\ id \in OfTeam(t)
    /\ RemoveEntry(id)
    /\ UNCHANGED <<list, today, posting, forged>>

\* The other lists' rows are written by the operations of their own modules.
OtherWrite ==
    /\ list # "news"
    /\ \E id \in RowIds :
          \/ \E r \in Entry : r.upto >= r.lead /\ InsertEntry(id, r)
          \/ \E lead \in Leads, upto \in Leads :
                /\ list # "comments" /\ upto >= lead
                /\ EditEntry(id, lead, upto)
          \/ RemoveEntry(id)
    /\ UNCHANGED <<list, today, posting, forged>>

NewsWrite ==
    \/ \E a \in Authors, t \in ListTeams : AdmitNews(a, t)
    \/ \E a \in Authors, id \in RowIds, u \in ListUsers, p \in Leads, c \in Times :
          CreateNews(a, id, u, p, c)
    \/ \E id \in RowIds, t \in ListTeams, p \in Leads : UpdateNews(id, t, p)
    \/ \E id \in RowIds, t \in ListTeams : DeleteNews(id, t)

\* At midnight an event may move from one scope to the other.
NextDay ==
    /\ today < Max(Leads)
    /\ today' = today + 1
    /\ walk' = [walk EXCEPT !.watched = {id \in @ : list = "all" \/ entries[id].upto # today}]
    /\ list \in {"past", "upcoming", "all"}
    /\ UNCHANGED <<list, entries, posting, forged>>

ClosedWalk == [pc |-> "closed", team |-> Absent, user |-> Absent, limit |-> DefaultLimit,
               token |-> NoCursor, shown |-> << >>, watched |-> {}, fresh |-> {}]

PagesInit ==
    /\ list \in Lists
    /\ entries = [id \in {} |-> Absent]
    /\ today = Min(Leads)
    /\ posting = [a \in Authors |-> Absent]
    /\ walk = ClosedWalk
    /\ forged = FALSE

PagesRead ==
    \/ EventsRequest \/ CommentsRequest \/ AbsencesRequest \/ MyAbsencesRequest
    \/ MembersRequest \/ TransactionsRequest \/ NewsRequest
    \/ \E t \in ListTeams, u \in ListUsers, n \in Limits : OpenList(t, u, n)

PagesWrite == OtherWrite \/ NewsWrite \/ NextDay \/ ForgeCursor

PagesSpec == PagesInit /\ [][PagesRead \/ PagesWrite]_pageVars

-----------------------------------------------------------------------------
(* Properties *)

Shown(id) == Cardinality({i \in DOMAIN walk.shown : walk.shown[i] = id})

\* A walk to the end shows every row that was there all along and was not
\* edited exactly once, and none that came in meanwhile more than once,
\* whatever is inserted, edited, deleted or falls due between two pages, and
\* however many rows share a date, a name or a creation time.  A cursor that
\* was tampered with starts the list over: it never skips a row.
ShownOnce ==
    /\ ~forged => \A id \in walk.watched \union walk.fresh : Shown(id) <= 1
    /\ walk.pc = "done" => \A id \in walk.watched : Shown(id) >= 1
=============================================================================
