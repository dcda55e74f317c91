-------------------------- MODULE CanonicalReads --------------------------
(***************************************************************************)
(* Clients that walk through the public lists of Stops and Routes page by  *)
(* page, and retrieve what is listed, while evaluation and imports insert  *)
(* rows.  Each request is one query; nothing joins two of them             *)
(* ("No guarantees are made across multiple requests").                    *)
(*                                                                         *)
(* Rows are known by the rank of their public_id in the database's order.  *)
(***************************************************************************)
EXTENDS Integers, FiniteSets, Authorization

CONSTANTS
    Readers,            \* clients; each makes one walk
    Lists,              \* "stops" and "routes"
    Ids,                \* ranks of public_ids, the empty one among them
    Initial,            \* rows of each list that there are at the start
    DEFAULT_PAGE_SIZE,
    MAX_PAGE_SIZE,
    Missing,            \* a query parameter that is not given
    Malformed,          \* one that is not an integer
    SizeParams,         \* values of page_size that clients send
    PageParams          \* values of page that they send first

VARIABLES
    rows,      \* list -> the rows of its table
    reader     \* client -> its walk, with what it has seen

vars == <<rows, reader>>

\* The public_id of a Stop that evaluation has created is the empty string
\* (StopCreation), which sorts before all others.
Empty == 0

\* A parameter is missing, not an integer or an integer, and a walk begins at the
\* first page.  Tables are finite.
ASSUME ReadAssumption ==
    /\ Lists = {"stops", "routes"}
    /\ Ids \subseteq Nat /\ Empty \in Ids
    /\ Initial \subseteq Ids \ {Empty} /\ IsFiniteSet(Initial)
    /\ MAX_PAGE_SIZE \in Nat /\ DEFAULT_PAGE_SIZE \in 1..MAX_PAGE_SIZE
    /\ Missing \notin Int /\ Malformed \notin Int /\ Missing # Malformed
    /\ SizeParams \subseteq Int \cup {Missing, Malformed}
    /\ PageParams \subseteq Int \cup {Missing, Malformed}
    /\ \A page \in PageParams \ {Missing, Malformed} : page <= 1

\* A walk: the request's list, method and parameters, and, as history, the
\* public_ids listed, how often one was listed again, those not found, the rows
\* there were when it began and the number of rows inserted since.
Walk == [pc : {"idle", "walking", "done", "refused"}, list : Lists, method : {"GET", "DELETE"},
         size : SizeParams \cup {Missing}, page : PageParams \cup {Missing} \cup Nat,
         listed : SUBSET Ids, repeats : Nat, missed : SUBSET Ids, began : SUBSET Ids, inserts : Nat]

NoWalk == [pc |-> "idle", list |-> "stops", method |-> "GET", size |-> Missing, page |-> Missing,
           listed |-> {}, repeats |-> 0, missed |-> {}, began |-> {}, inserts |-> 0]

pc(r) == reader[r].pc

-----------------------------------------------------------------------------
(* The views *)

\* MUTANT of PageSize: a page_size that is too large is cut down.
PageSizeClamped(param) ==
    IF param = Missing THEN DEFAULT_PAGE_SIZE
    ELSE IF param = Malformed \/ param <= MAX_PAGE_SIZE THEN param ELSE MAX_PAGE_SIZE

\* get_page_size, and the ValueErrors it raises
PageSize(param) == IF param = Missing THEN DEFAULT_PAGE_SIZE ELSE param
SizeIsValid(param) == param # Malformed /\ PageSize(param) \in 1..MAX_PAGE_SIZE

PageNumber(param) == IF param = Missing THEN 1 ELSE param
PageIsValid(param) == param # Malformed /\ PageNumber(param) >= 1

\* MUTANT of Offset: the pages are as far apart as pages of the default size.
OffsetOfDefault(page, size) == (PageNumber(page) - 1) * DEFAULT_PAGE_SIZE

Offset(page, size) == (PageNumber(page) - 1) * PageSize(size)

Before(list, id) == {other \in rows[list] : other < id}

\* order_by('public_id')[offset:offset + page_size]
Results(list, page, size) ==
    LET offset == Offset(page, size) IN
    {id \in rows[list] : Cardinality(Before(list, id)) \in offset..(offset + PageSize(size) - 1)}

\* get_object_or_404 of the detail views; <str:public_id> matches no empty string.
Retrievable(list, id) == id \in rows[list] /\ id # Empty

-----------------------------------------------------------------------------
(* Clients *)

Begin(r, list, method, page, size) ==
    /\ pc(r) = "idle"
    /\ reader' = [reader EXCEPT ![r] =
                    [NoWalk EXCEPT !.pc = "walking", !.list = list, !.method = method,
                                   !.page = page, !.size = size, !.began = rows[list]]]
    /\ UNCHANGED rows

\* 403 by the permission class, 400 by the view.
Refuse(r) ==
    /\ pc(r) = "walking"
    /\ \/ ~ReadOnlyPublic(reader[r].method)
       \/ ~PageIsValid(reader[r].page) \/ ~SizeIsValid(reader[r].size)
    /\ reader' = [reader EXCEPT ![r].pc = "refused"]
    /\ UNCHANGED rows

\* The size that the client believes its pages to have.
Asked(r) == IF reader[r].size = Missing THEN DEFAULT_PAGE_SIZE ELSE reader[r].size

\* A page; one that is not full is the last.  (A request that the rate limit
\* refuses is repeated later: it leaves all as it is.)
ListPage(r) ==
    LET w == reader[r]
        page == Results(w.list, w.page, w.size)
    IN  /\ pc(r) = "walking"
        /\ ReadOnlyPublic(w.method) /\ PageIsValid(w.page) /\ SizeIsValid(w.size)
        /\ reader' = [reader EXCEPT ![r] =
                [w EXCEPT !.listed = @ \cup page,
                          !.repeats = @ + Cardinality(page \cap w.listed),
                          !.page = PageNumber(@) + 1,
                          !.pc = IF Cardinality(page) < Asked(r) THEN "done" ELSE "walking"]]
        /\ UNCHANGED rows

\* A client retrieves a row that was listed.
Retrieve(r) ==
    /\ pc(r) = "walking"
    /\ \E id \in reader[r].listed :
          /\ ~Retrievable(reader[r].list, id)
          /\ reader' = [reader EXCEPT ![r].missed = @ \cup {id}]
    /\ UNCHANGED rows

-----------------------------------------------------------------------------
(* Writers: rows are inserted, never deleted, and keep their public_id *)

Insert(list, id) ==
    /\ id \notin rows[list]
    /\ rows' = [rows EXCEPT ![list] = @ \cup {id}]
    /\ reader' = [r \in Readers |->
                    IF pc(r) = "walking" /\ reader[r].list = list
                    THEN [reader[r] EXCEPT !.inserts = @ + 1] ELSE reader[r]]

\* StopWriteGateway: the unique index lets one such row in.
CreateStop == Insert("stops", Empty)

\* MUTANT of Import: the import replaces the table.
ImportReplaces(list, id) ==
    /\ id # Empty
    /\ rows' = [rows EXCEPT ![list] = {id}]
    /\ UNCHANGED reader

Import(list, id) == id # Empty /\ Insert(list, id)

-----------------------------------------------------------------------------
(* Specification *)

Init ==
    /\ rows = [list \in Lists |-> Initial]
    /\ reader = [r \in Readers |-> NoWalk]

Next ==
    \/ \E r \in Readers :
         \/ \E list \in Lists, method \in {"GET", "DELETE"}, page \in PageParams, size \in SizeParams :
               Begin(r, list, method, page, size)
         \/ Refuse(r) \/ ListPage(r) \/ Retrieve(r)
    \/ CreateStop
    \/ \E list \in Lists, id \in Ids : Import(list, id)

Spec == Init /\ [][Next]_vars

-----------------------------------------------------------------------------
(* Properties *)

\* Every variable has its type, and what was listed is still there.
TypeOK ==
    /\ rows \in [Lists -> SUBSET Ids]
    /\ reader \in [Readers -> Walk]
    /\ \A r \in Readers :
         reader[r].listed \subseteq rows[reader[r].list] /\ reader[r].missed \subseteq reader[r].listed

\* A walk from the first page to one that is not full leaves out no row that was
\* there when it began, whatever is inserted between its pages: offsets only
\* grow into rows that were listed before (api/views/canonical.py:245-257).
WalkIsComplete ==
    \A r \in Readers : pc(r) = "done" => reader[r].began \subseteq reader[r].listed

\* A row is listed twice only because one was inserted before it meanwhile: as
\* many repetitions as insertions at most (api/views/canonical.py:245-257).
RepeatsNeedInserts ==
    \A r \in Readers : reader[r].repeats <= reader[r].inserts

-----------------------------------------------------------------------------
(* What the documentation says and the code does not do *)

\* "404 Not Found: Stop does not exist or is sub-threshold": what is listed can
\* be retrieved.
ListedIsRetrievable ==
    \A r \in Readers : reader[r].missed = {}
=============================================================================
