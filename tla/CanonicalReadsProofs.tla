----------------------- MODULE CanonicalReadsProofs -----------------------
(***************************************************************************)
(* What CanonicalReads guarantees to every walk, for every table, page     *)
(* size and number of clients and insertions.                              *)
(*                                                                         *)
(* Everything rests on ranks: the rank of a row is the number of rows      *)
(* before it, a page is the rows whose ranks lie in an interval, the ranks *)
(* of a table leave no gap, and an insertion moves the rows behind it up   *)
(* by one.                                                                 *)
(***************************************************************************)
EXTENDS CanonicalReads, FiniteSetTheorems, FunctionTheorems, TLAPS

(***************************************************************************)
(* Ranks                                                                   *)
(***************************************************************************)

Below(R, id) == {x \in R : x < id}
Rank(R, id) == Cardinality(Below(R, id))

LEMMA RankType ==
    ASSUME NEW R \in SUBSET Nat, IsFiniteSet(R), NEW id
    PROVE  /\ IsFiniteSet(Below(R, id)) /\ Rank(R, id) \in Nat
           /\ Cardinality(R) \in Nat /\ Rank(R, id) <= Cardinality(R)
<1>1. Below(R, id) \in SUBSET R
  BY DEF Below
<1> QED
  BY <1>1, FS_Subset, FS_CardinalityType DEF Rank

LEMMA RankBound ==
    ASSUME NEW R \in SUBSET Nat, IsFiniteSet(R), NEW id \in R
    PROVE  Rank(R, id) < Cardinality(R)
<1>1. Below(R, id) \in SUBSET R /\ id \notin Below(R, id)
  BY DEF Below
<1>2. Cardinality(Below(R, id)) # Cardinality(R)
  BY <1>1, FS_Subset
<1> QED
  BY <1>2, RankType DEF Rank

LEMMA RankGrows ==
    ASSUME NEW R \in SUBSET Nat, IsFiniteSet(R), NEW x \in R, NEW y \in R, x < y
    PROVE  Rank(R, x) < Rank(R, y)
<1>1. Below(R, x) \in SUBSET Below(R, y) /\ x \in Below(R, y) /\ x \notin Below(R, x)
  <2>1. x \in Nat /\ \A z \in R : z < x => z < y
    OBVIOUS
  <2>2. Below(R, x) \in SUBSET Below(R, y)
    BY <2>1 DEF Below
  <2>3. x \in Below(R, y)
    BY DEF Below
  <2>4. x \notin Below(R, x)
    BY <2>1 DEF Below
  <2> QED
    BY <2>2, <2>3, <2>4
<1>2. /\ Cardinality(Below(R, x)) <= Cardinality(Below(R, y))
      /\ Cardinality(Below(R, x)) # Cardinality(Below(R, y))
  BY <1>1, RankType, FS_Subset
<1> QED
  BY <1>2, RankType DEF Rank

LEMMA RankUnique ==
    ASSUME NEW R \in SUBSET Nat, IsFiniteSet(R), NEW x \in R, NEW y \in R, Rank(R, x) = Rank(R, y)
    PROVE  x = y
<1>1. CASE x < y
  BY <1>1, RankGrows, RankType
<1>2. CASE y < x
  BY <1>2, RankGrows, RankType
<1> QED
  BY <1>1, <1>2

\* Ranks leave no gap.
LEMMA RanksFill ==
    ASSUME NEW R \in SUBSET Nat, IsFiniteSet(R), NEW k \in 0..(Cardinality(R) - 1)
    PROVE  \E x \in R : Rank(R, x) = k
<1> DEFINE T == 0..(Cardinality(R) - 1)
           f == [x \in R |-> Rank(R, x)]
<1>1. Cardinality(R) \in Nat
  BY FS_CardinalityType
<1>2. IsFiniteSet(T) /\ Cardinality(T) = Cardinality(R)
  <2>1. PICK n \in Nat : n = Cardinality(R)
    BY <1>1
  <2>2. /\ IsFiniteSet(0..(n - 1))
        /\ Cardinality(0..(n - 1)) = IF 0 > n - 1 THEN 0 ELSE n - 1 - 0 + 1
    BY FS_Interval
  <2> QED
    BY <2>1, <2>2
<1>3. f \in [R -> T]
  BY <1>1, RankType, RankBound
<1>4. f \in Injection(R, T)
  BY <1>3, RankUnique DEF Injection, IsInjective
<1>5. f \in Surjection(R, T)
  <2> HIDE DEF f, T
  <2> QED
    BY <1>2, <1>4, FS_Injection
<1> QED
  BY <1>5 DEF Surjection

\* The rows of the ranks o .. o + n - 1: n of them, when a row comes after.
Page(R, o, n) == {x \in R : Rank(R, x) \in o..(o + n - 1)}

LEMMA PageIsFull ==
    ASSUME NEW R \in SUBSET Nat, IsFiniteSet(R), NEW o \in Nat, NEW n \in Nat,
           NEW id \in R, Rank(R, id) >= o + n
    PROVE  Cardinality(Page(R, o, n)) >= n
<1> DEFINE T == o..(o + n - 1)
           f == [x \in Page(R, o, n) |-> Rank(R, x)]
<1>1. Cardinality(T) = n
  <2>1. Cardinality(o..(o + n - 1)) = IF o > o + n - 1 THEN 0 ELSE o + n - 1 - o + 1
    BY FS_Interval
  <2> QED
    BY <2>1
<1>2. f \in [Page(R, o, n) -> T]
  BY DEF Page
<1>3. ASSUME NEW k \in T PROVE \E x \in Page(R, o, n) : f[x] = k
  <2>1. k \in 0..(Cardinality(R) - 1)
    BY RankBound, RankType
  <2>2. PICK x \in R : Rank(R, x) = k
    BY <2>1, RanksFill
  <2> QED
    BY <2>2 DEF Page
<1>4. f \in Surjection(Page(R, o, n), T)
  BY <1>2, <1>3 DEF Surjection
<1>5. Page(R, o, n) \in SUBSET R
  BY DEF Page
<1>6. IsFiniteSet(Page(R, o, n))
  BY <1>5, FS_Subset
<1>7. Cardinality(T) <= Cardinality(Page(R, o, n))
  <2> HIDE DEF f, T
  <2> QED
    BY <1>4, <1>6, FS_Surjection
<1> QED
  BY <1>1, <1>6, <1>7, FS_CardinalityType

\* An insertion leaves a row at its rank or moves it up by one.
LEMMA RankAfterInsert ==
    ASSUME NEW R \in SUBSET Nat, IsFiniteSet(R), NEW i \in Nat, i \notin R, NEW id \in R
    PROVE  Rank(R \cup {i}, id) \in {Rank(R, id), Rank(R, id) + 1}
<1>1. CASE i < id
  <2>1. Below(R \cup {i}, id) = Below(R, id) \cup {i} /\ i \notin Below(R, id)
    BY <1>1 DEF Below
  <2>2. Cardinality(Below(R, id) \cup {i}) = Cardinality(Below(R, id)) + 1
    BY <2>1, RankType, FS_AddElement
  <2> QED
    BY <2>1, <2>2 DEF Rank
<1>2. CASE ~(i < id)
  <2>1. Below(R \cup {i}, id) = Below(R, id)
    BY <1>2 DEF Below
  <2> QED
    BY <2>1 DEF Rank
<1> QED
  BY <1>1, <1>2

(***************************************************************************)
(* What a step does to one walk                                            *)
(***************************************************************************)

Table(r) == rows[reader[r].list]
Reached(r) == Offset(reader[r].page, reader[r].size)
Served(r) ==
    pc(r) = "walking" /\ PageIsValid(reader[r].page) /\ SizeIsValid(reader[r].size)

\* The page of the walk's next request.
NextPage(r) == Page(Table(r), Reached(r), PageSize(reader[r].size))

TablesFinite == \A list \in Lists : IsFiniteSet(rows[list])

LEMMA TableType ==
    ASSUME TypeOK, TablesFinite, NEW r \in Readers
    PROVE  Table(r) \in SUBSET Nat /\ IsFiniteSet(Table(r))
BY ReadAssumption DEF TypeOK, TablesFinite, Table, Walk

LEMMA OffsetType ==
    ASSUME TypeOK, NEW r \in Readers, Served(r)
    PROVE  /\ PageSize(reader[r].size) \in Nat \ {0} /\ PageNumber(reader[r].page) \in Nat \ {0}
           /\ Reached(r) \in Nat
           /\ PageIsValid(PageNumber(reader[r].page) + 1)
           /\ Offset(PageNumber(reader[r].page) + 1, reader[r].size)
                 = Reached(r) + PageSize(reader[r].size)
<1>1. PICK p \in Nat \ {0} : p = PageNumber(reader[r].page)
  <2>1. reader[r].page \in PageParams \cup {Missing} \cup Nat
    BY DEF TypeOK, Walk
  <2>2. reader[r].page # Malformed
    BY DEF Served, PageIsValid
  <2>3. \A page \in PageParams : page \in Int \/ page = Missing \/ page = Malformed
    BY ReadAssumption
  <2>4. CASE reader[r].page \in Nat
    BY <2>4 DEF Served, PageIsValid, PageNumber
  <2>5. CASE reader[r].page \in PageParams
    BY <2>2, <2>3, <2>5 DEF Served, PageIsValid, PageNumber
  <2>6. CASE reader[r].page = Missing
    BY <2>6 DEF PageNumber
  <2> QED
    BY <2>1, <2>4, <2>5, <2>6
<1>2. PICK n \in Nat \ {0} : n = PageSize(reader[r].size)
  BY ReadAssumption DEF Served, SizeIsValid
<1>3. PageNumber(p + 1) = p + 1 /\ PageIsValid(p + 1)
  BY ReadAssumption DEF PageNumber, PageIsValid
<1>4. (p - 1) * n \in Nat /\ (p + 1 - 1) * n = (p - 1) * n + n
  OBVIOUS
<1>5. Reached(r) = (p - 1) * n /\ Offset(p + 1, reader[r].size) = (p + 1 - 1) * n
  BY <1>1, <1>2, <1>3 DEF Reached, Offset
<1> QED
  BY <1>1, <1>2, <1>3, <1>4, <1>5

\* One page: what it lists, what it lists again and when it is the last.
LEMMA PageListed ==
    ASSUME TypeOK, NEW r \in Readers, ListPage(r)
    PROVE  /\ Served(r) /\ rows' = rows
           /\ reader' = [reader EXCEPT ![r] =
                 [reader[r] EXCEPT
                           !.listed = @ \cup NextPage(r),
                           !.repeats = @ + Cardinality(NextPage(r) \cap reader[r].listed),
                           !.page = PageNumber(@) + 1,
                           !.pc = IF Cardinality(NextPage(r)) < PageSize(reader[r].size)
                                  THEN "done" ELSE "walking"]]
<1>1. Results(reader[r].list, reader[r].page, reader[r].size) = NextPage(r)
  BY DEF Results, NextPage, Page, Reached, Table, Rank, Below, Before
<1>2. Asked(r) = PageSize(reader[r].size)
  BY DEF Asked, PageSize
<1>3. Served(r) /\ rows' = rows
  BY DEF ListPage, Served
<1> QED
  BY <1>1, <1>2, <1>3 DEF ListPage, TypeOK, Walk

\* A row inserted into one table.
LEMMA RowInserted ==
    ASSUME TypeOK, NEW list \in Lists, NEW id \in Ids, Insert(list, id), NEW r \in Readers
    PROVE  /\ rows' \in [Lists -> SUBSET Ids] /\ id \notin rows[list] /\ id \in Nat
           /\ reader'[r] = [reader[r] EXCEPT
                 !.inserts = IF pc(r) = "walking" /\ reader[r].list = list THEN @ + 1 ELSE @]
           /\ reader'[r].list = reader[r].list
           /\ Table(r)' = IF reader[r].list = list THEN Table(r) \cup {id} ELSE Table(r)
<1>1. rows' \in [Lists -> SUBSET Ids] /\ id \notin rows[list] /\ id \in Nat
  BY ReadAssumption DEF Insert, TypeOK
<1>2. reader[r] \in Walk
  BY DEF TypeOK
<1>3. reader'[r] = [reader[r] EXCEPT
         !.inserts = IF pc(r) = "walking" /\ reader[r].list = list THEN @ + 1 ELSE @]
  BY <1>2 DEF Insert, Walk
<1>4. reader'[r].list = reader[r].list
  BY <1>2, <1>3 DEF Walk
<1>5. rows'[reader[r].list]
         = IF reader[r].list = list THEN rows[reader[r].list] \cup {id} ELSE rows[reader[r].list]
  BY <1>2 DEF Insert, TypeOK, Walk
<1> QED
  BY <1>1, <1>3, <1>4, <1>5 DEF Table

LEMMA WriterInserts ==
    ASSUME CreateStop \/ \E list \in Lists, id \in Ids : Import(list, id)
    PROVE  \E list \in Lists, id \in Ids : Insert(list, id)
BY ReadAssumption DEF CreateStop, Import

\* The other walks, when one goes on.
LEMMA OthersWalkOn ==
    ASSUME TypeOK, NEW s \in Readers, NEW r \in Readers, r # s,
           \/ Refuse(s) \/ ListPage(s) \/ Retrieve(s)
           \/ \E list \in Lists, method \in {"GET", "DELETE"}, page \in PageParams, size \in SizeParams :
                 Begin(s, list, method, page, size)
    PROVE  rows' = rows /\ reader'[r] = reader[r]
BY DEF Refuse, ListPage, Retrieve, Begin, TypeOK

(***************************************************************************)
(* Types                                                                   *)
(***************************************************************************)

LEMMA FiniteInit == Init => TablesFinite
BY ReadAssumption DEF Init, TablesFinite

LEMMA FiniteStep == TypeOK /\ TablesFinite /\ [Next]_vars => TablesFinite'
<1> SUFFICES ASSUME TypeOK, TablesFinite, [Next]_vars PROVE TablesFinite'
  OBVIOUS
<1>1. CASE rows' = rows
  BY <1>1 DEF TablesFinite
<1>2. ASSUME NEW list \in Lists, NEW id \in Ids, Insert(list, id) PROVE TablesFinite'
  <2>1. rows' = [rows EXCEPT ![list] = @ \cup {id}]
    BY <1>2 DEF Insert
  <2>2. IsFiniteSet(rows[list] \cup {id})
    BY FS_AddElement DEF TablesFinite
  <2> QED
    BY <2>1, <2>2 DEF TablesFinite, TypeOK
<1> QED
  BY <1>1, <1>2, WriterInserts DEF Next, vars, Begin, Refuse, ListPage, Retrieve

LEMMA TypeInit == Init => TypeOK
<1> SUFFICES ASSUME Init PROVE TypeOK
  OBVIOUS
<1>1. NoWalk \in Walk
  BY ReadAssumption DEF NoWalk, Walk
<1>2. NoWalk.listed = {} /\ NoWalk.missed = {}
  BY DEF NoWalk
<1>3. rows \in [Lists -> SUBSET Ids]
  BY ReadAssumption DEF Init
<1> QED
  BY <1>1, <1>2, <1>3 DEF Init, TypeOK

\* A walk keeps its type when it goes on, whatever becomes of the tables' rows,
\* as long as none is deleted.
WalkOK(r) ==
    /\ reader[r] \in Walk
    /\ reader[r].listed \subseteq rows[reader[r].list] /\ reader[r].missed \subseteq reader[r].listed

LEMMA WalkBegun ==
    ASSUME TypeOK, NEW r \in Readers, NEW list \in Lists, NEW method \in {"GET", "DELETE"},
           NEW page \in PageParams, NEW size \in SizeParams, Begin(r, list, method, page, size)
    PROVE  WalkOK(r)'
<1>1. reader'[r] = [NoWalk EXCEPT !.pc = "walking", !.list = list, !.method = method,
                                  !.page = page, !.size = size, !.began = rows[list]]
  BY DEF Begin, TypeOK
<1>2. PICK began \in SUBSET Ids : began = rows[list]
  BY DEF TypeOK
<1>3. reader'[r] = [pc |-> "walking", list |-> list, method |-> method, size |-> size, page |-> page,
                    listed |-> {}, repeats |-> 0, missed |-> {}, began |-> began, inserts |-> 0]
  BY <1>1, <1>2 DEF NoWalk
<1>4. reader'[r] \in Walk
  BY <1>3 DEF Walk
<1> QED
  BY <1>3, <1>4 DEF WalkOK

LEMMA WalkListed ==
    ASSUME TypeOK, TablesFinite, NEW r \in Readers, ListPage(r)
    PROVE  WalkOK(r)'
<1>1. PICK w \in Walk : w = reader[r]
  BY DEF TypeOK
<1>2. PICK page \in SUBSET rows[w.list] : page = NextPage(r)
  BY <1>1 DEF NextPage, Page, Table
<1>3. page \in SUBSET Ids
  BY <1>1, <1>2 DEF TypeOK, Walk
<1>4. PICK n \in Nat : n = Cardinality(page \cap w.listed)
  <2>1. IsFiniteSet(page \cap w.listed)
    <3>1. page \cap w.listed \in SUBSET Table(r)
      BY <1>1, <1>2 DEF Table
    <3> QED
      BY <3>1, TableType, FS_Subset
  <2> QED
    BY <2>1, FS_CardinalityType
<1>5. PICK next \in Nat : next = PageNumber(w.page) + 1
  <2>1. PageNumber(reader[r].page) \in Nat \ {0}
    BY PageListed, OffsetType
  <2> QED
    BY <1>1, <2>1
<1>6. PICK phase \in {"walking", "done"} :
         phase = IF Cardinality(NextPage(r)) < PageSize(reader[r].size) THEN "done" ELSE "walking"
  OBVIOUS
<1>7. /\ rows' = rows
      /\ reader'[r] = [w EXCEPT !.listed = @ \cup page, !.repeats = @ + n, !.page = next, !.pc = phase]
  BY <1>1, <1>2, <1>4, <1>5, <1>6, PageListed DEF TypeOK
<1>8. reader'[r] \in Walk
  <2>1. w.listed \cup page \in SUBSET Ids /\ w.repeats + n \in Nat
    BY <1>3 DEF Walk
  <2>2. next \in PageParams \cup {Missing} \cup Nat
    OBVIOUS
  <2>3. [w EXCEPT !.listed = @ \cup page, !.repeats = @ + n, !.page = next, !.pc = phase]
           = [w EXCEPT !.listed = w.listed \cup page, !.repeats = w.repeats + n, !.page = next,
                       !.pc = phase]
    OBVIOUS
  <2> QED
    BY <1>7, <2>1, <2>2, <2>3 DEF Walk
<1>9. w.listed \subseteq rows[w.list] /\ w.missed \subseteq w.listed
  BY <1>1 DEF TypeOK
<1>10. /\ reader'[r].list = w.list /\ reader'[r].missed = w.missed
       /\ reader'[r].listed = w.listed \cup page
  BY <1>7 DEF Walk
<1> QED
  BY <1>2, <1>7, <1>8, <1>9, <1>10 DEF WalkOK

LEMMA WalkGoesOn ==
    ASSUME TypeOK, NEW r \in Readers, Refuse(r) \/ Retrieve(r)
    PROVE  WalkOK(r)'
<1>1. reader[r] \in Walk /\ reader[r].listed \subseteq rows[reader[r].list]
      /\ reader[r].missed \subseteq reader[r].listed /\ rows' = rows
  BY DEF TypeOK, Refuse, Retrieve
<1>2. CASE Refuse(r)
  <2>1. reader'[r] = [reader[r] EXCEPT !.pc = "refused"]
    BY <1>2 DEF Refuse, TypeOK
  <2> QED
    BY <1>1, <2>1 DEF WalkOK, Walk
<1>3. CASE Retrieve(r)
  <2>1. PICK id \in reader[r].listed : reader' = [reader EXCEPT ![r].missed = @ \cup {id}]
    BY <1>3 DEF Retrieve
  <2>2. reader'[r] = [reader[r] EXCEPT !.missed = @ \cup {id}] /\ id \in Ids
    BY <1>1, <2>1 DEF TypeOK, Walk
  <2> QED
    BY <1>1, <2>1, <2>2 DEF WalkOK, Walk
<1> QED
  BY <1>2, <1>3

LEMMA TypeStep == TypeOK /\ TablesFinite /\ [Next]_vars => TypeOK'
<1> SUFFICES ASSUME TypeOK, TablesFinite, [Next]_vars PROVE TypeOK'
  OBVIOUS
<1>1. CASE UNCHANGED vars
  BY <1>1 DEF TypeOK, vars
<1>2. ASSUME NEW s \in Readers,
             \/ Refuse(s) \/ ListPage(s) \/ Retrieve(s)
             \/ \E list \in Lists, method \in {"GET", "DELETE"}, page \in PageParams, size \in SizeParams :
                   Begin(s, list, method, page, size)
      PROVE  TypeOK'
  <2>1. WalkOK(s)'
    BY <1>2, WalkBegun, WalkListed, WalkGoesOn
  <2>2. ASSUME NEW r \in Readers, r # s PROVE WalkOK(r)'
    BY <1>2, <2>2, OthersWalkOn DEF WalkOK, TypeOK
  <2>3. rows' = rows /\ DOMAIN reader' = Readers /\ reader' = [r \in Readers |-> reader'[r]]
    BY <1>2 DEF Refuse, ListPage, Retrieve, Begin, TypeOK
  <2> QED
    BY <2>1, <2>2, <2>3 DEF WalkOK, TypeOK
<1>3. ASSUME NEW list \in Lists, NEW id \in Ids, Insert(list, id) PROVE TypeOK'
  <2>1. ASSUME NEW r \in Readers PROVE WalkOK(r)'
    <3>1. reader[r] \in Walk /\ reader[r].listed \subseteq Table(r)
          /\ reader[r].missed \subseteq reader[r].listed
      BY DEF TypeOK, Table
    <3>2. PICK n \in Nat : reader'[r] = [reader[r] EXCEPT !.inserts = n]
      <4>1. reader[r].inserts \in Nat
        BY <3>1 DEF Walk
      <4>2. PICK n \in Nat : n = IF pc(r) = "walking" /\ reader[r].list = list
                                THEN reader[r].inserts + 1 ELSE reader[r].inserts
        BY <4>1
      <4>3. reader'[r] = [reader[r] EXCEPT !.inserts = n]
        BY <1>3, <4>2, RowInserted
      <4> QED
        BY <4>3
    <3>3. Table(r) \subseteq Table(r)'
      BY <1>3, RowInserted
    <3>4. /\ reader'[r] \in Walk
          /\ reader'[r].listed = reader[r].listed /\ reader'[r].missed = reader[r].missed
      BY <3>1, <3>2 DEF Walk
    <3> QED
      BY <3>1, <3>3, <3>4 DEF WalkOK, Table
  <2>2. rows' \in [Lists -> SUBSET Ids] /\ reader' = [r \in Readers |-> reader'[r]]
    BY <1>3 DEF Insert, TypeOK
  <2> QED
    BY <2>1, <2>2 DEF WalkOK, TypeOK
<1> QED
  BY <1>1, <1>2, <1>3, WriterInserts DEF Next

\* Every variable has its type, and what was listed is still there
\* (api/views/canonical.py:245-257).
THEOREM ReadTypeCorrect == Spec => [](TypeOK /\ TablesFinite)
BY TypeInit, TypeStep, FiniteInit, FiniteStep, PTL DEF Spec

(***************************************************************************)
(* No row is left out                                                      *)
(***************************************************************************)

\* The rows of the beginning are all there; those before the next page have been
\* listed; a walk that is done has listed all.
Passed(r) ==
    /\ pc(r) = "walking" => reader[r].began \subseteq Table(r)
    /\ Served(r) => \A id \in reader[r].began :
                        Rank(Table(r), id) < Reached(r) => id \in reader[r].listed
    /\ pc(r) = "done" => reader[r].began \subseteq reader[r].listed

\* The rows that have been listed and will be listed again, and those that have
\* been, are at most as many as the insertions.
Ahead(r) == {id \in reader[r].listed : Rank(Table(r), id) >= Reached(r)}

Counted(r) ==
    /\ reader[r].repeats <= reader[r].inserts
    /\ Served(r) => Cardinality(Ahead(r)) + reader[r].repeats <= reader[r].inserts

WalkInvariant == \A r \in Readers : Passed(r) /\ Counted(r)

LEMMA WalkInit == Init => WalkInvariant
BY DEF Init, WalkInvariant, Passed, Counted, Served, NoWalk, pc

LEMMA BegunPassed ==
    ASSUME TypeOK, TablesFinite, NEW r \in Readers, NEW list \in Lists,
           NEW method \in {"GET", "DELETE"}, NEW page \in PageParams, NEW size \in SizeParams,
           Begin(r, list, method, page, size)
    PROVE  Passed(r)' /\ Counted(r)'
<1>1. PICK w : /\ w = reader'[r] /\ w.pc = "walking" /\ w.list = list /\ w.page = page
               /\ w.size = size /\ w.listed = {} /\ w.began = rows[list] /\ w.repeats = 0
               /\ w.inserts = 0
  <2>1. reader'[r] = [NoWalk EXCEPT !.pc = "walking", !.list = list, !.method = method,
                                    !.page = page, !.size = size, !.began = rows[list]]
    BY DEF Begin, TypeOK
  <2>2. reader'[r] = [pc |-> "walking", list |-> list, method |-> method, size |-> size,
                      page |-> page, listed |-> {}, repeats |-> 0, missed |-> {},
                      began |-> rows[list], inserts |-> 0]
    BY <2>1 DEF NoWalk
  <2> QED
    BY <2>2
<1>2. rows' = rows
  BY DEF Begin
<1>3. ASSUME PageIsValid(page), SizeIsValid(size) PROVE Offset(page, size) = 0
  <2>1. PageNumber(page) = 1
    <3>1. page # Malformed /\ (page # Missing => page <= 1) /\ (page = Missing \/ page \in Int)
      BY <1>3, ReadAssumption DEF PageIsValid
    <3> QED
      BY <1>3, <3>1 DEF PageIsValid, PageNumber
  <2>2. PageSize(size) \in Nat
    BY <1>3, ReadAssumption DEF SizeIsValid
  <2> QED
    BY <2>1, <2>2 DEF Offset
<1>4. Reached(r)' = Offset(page, size) /\ Table(r)' = rows[list] /\ pc(r)' = "walking"
  BY <1>1, <1>2 DEF Reached, Table, pc
<1>5. Served(r)' => Reached(r)' = 0
  BY <1>1, <1>3, <1>4 DEF Served
<1>6. \A id : Rank(rows[list], id) \in Nat
  BY RankType, ReadAssumption DEF TypeOK, TablesFinite
<1>7. Ahead(r)' = {} /\ Cardinality({}) = 0
  BY <1>1, FS_EmptySet DEF Ahead
<1>8. Passed(r)'
  BY <1>1, <1>4, <1>5, <1>6 DEF Passed
<1>9. Counted(r)'
  BY <1>1, <1>7 DEF Counted
<1> QED
  BY <1>8, <1>9

\* After a page, what was to be listed again has been listed again or still will.
LEMMA ListedPassed ==
    ASSUME TypeOK, TablesFinite, NEW r \in Readers, Passed(r), Counted(r), ListPage(r)
    PROVE  Passed(r)' /\ Counted(r)'
<1>1. PICK w \in Walk : w = reader[r]
  BY DEF TypeOK
<1>2. PICK R \in SUBSET Nat : R = Table(r) /\ IsFiniteSet(R)
  BY TableType
<1>3. Served(r)
  BY PageListed
<1>4. PICK o \in Nat, n \in Nat :
         /\ o = Reached(r) /\ n = PageSize(w.size) /\ PageIsValid(PageNumber(w.page) + 1)
         /\ Offset(PageNumber(w.page) + 1, w.size) = o + n
  BY <1>1, <1>3, OffsetType
<1>5. PICK page \in SUBSET R : page = Page(R, o, n) /\ page = NextPage(r)
  BY <1>1, <1>2, <1>4 DEF NextPage, Page
<1>6. PICK next : next = PageNumber(w.page) + 1
  OBVIOUS
<1>7. PICK again : again = Cardinality(page \cap w.listed)
  OBVIOUS
<1> DEFINE phase == IF Cardinality(page) < n THEN "done" ELSE "walking"
<1>8. PICK v : /\ v = reader'[r] /\ v.list = w.list /\ v.size = w.size /\ v.began = w.began
               /\ v.inserts = w.inserts /\ v.listed = w.listed \cup page
               /\ v.repeats = w.repeats + again /\ v.page = next /\ v.pc = phase
  <2> HIDE DEF phase
  <2>1. phase = IF Cardinality(NextPage(r)) < PageSize(reader[r].size) THEN "done" ELSE "walking"
    BY <1>1, <1>4, <1>5 DEF phase
  <2>2. again = Cardinality(NextPage(r) \cap reader[r].listed)
    BY <1>1, <1>5, <1>7
  <2>3. reader'[r] = [reader[r] EXCEPT
                         !.listed = @ \cup NextPage(r), !.repeats = @ + again,
                         !.page = PageNumber(@) + 1, !.pc = phase]
    BY <2>1, <2>2, PageListed DEF TypeOK
  <2>4. reader'[r] = [w EXCEPT !.listed = w.listed \cup page, !.repeats = w.repeats + again,
                               !.page = next, !.pc = phase]
    BY <1>1, <1>5, <1>6, <2>3
  <2>5. reader'[r] = [pc |-> phase, list |-> w.list, method |-> w.method, size |-> w.size,
                      page |-> next, listed |-> w.listed \cup page,
                      repeats |-> w.repeats + again, missed |-> w.missed, began |-> w.began,
                      inserts |-> w.inserts]
    BY <2>4 DEF Walk
  <2> QED
    BY <2>5
<1>9. /\ Table(r)' = R /\ Reached(r)' = o + n
      /\ pc(r)' = IF Cardinality(page) < n THEN "done" ELSE "walking"
  BY <1>1, <1>2, <1>4, <1>6, <1>8, PageListed DEF Table, Reached, pc
<1>10. \A id : Rank(R, id) \in Nat
  BY <1>2, RankType
<1>11. w.listed \in SUBSET R /\ w.began \in SUBSET R
  BY <1>1, <1>2, <1>3 DEF TypeOK, Table, Passed, Served
<1>12. \A id \in w.began : Rank(R, id) < o + n => id \in w.listed \cup page
  <2> SUFFICES ASSUME NEW id \in w.began, Rank(R, id) < o + n PROVE id \in w.listed \cup page
    OBVIOUS
  <2>1. CASE Rank(R, id) < o
    BY <1>1, <1>2, <1>3, <1>4, <2>1 DEF Passed
  <2>2. CASE Rank(R, id) >= o
    <3>1. Rank(R, id) \in o..(o + n - 1)
      BY <1>10, <2>2
    <3> QED
      BY <1>5, <1>11, <3>1 DEF Page
  <2> QED
    BY <1>10, <2>1, <2>2
<1>13. Cardinality(page) < n => \A id \in w.began : Rank(R, id) < o + n
  <2>1. \A id \in R : Rank(R, id) >= o + n => Cardinality(page) >= n
    BY <1>2, <1>5, PageIsFull
  <2>2. Cardinality(page) \in Nat
    BY <1>2, <1>5, FS_Subset, FS_CardinalityType
  <2> SUFFICES ASSUME Cardinality(page) < n, NEW id \in w.began, ~(Rank(R, id) < o + n)
               PROVE  FALSE
    OBVIOUS
  <2>3. id \in R /\ Rank(R, id) >= o + n
    BY <1>10, <1>11
  <2> QED
    BY <2>1, <2>2, <2>3
<1>14. Passed(r)'
  BY <1>8, <1>9, <1>11, <1>12, <1>13 DEF Passed
<1> DEFINE old == {id \in w.listed : Rank(R, id) >= o}
           new == {id \in w.listed : Rank(R, id) >= o + n}
<1>15. /\ Ahead(r)' = {id \in w.listed \cup page : Rank(R, id) >= o + n}
       /\ Ahead(r) = old
  BY <1>1, <1>2, <1>4, <1>8, <1>9 DEF Ahead
<1>16. \A id \in page : Rank(R, id) >= o /\ ~(Rank(R, id) >= o + n)
  <2>1. \A id \in page : Rank(R, id) \in o..(o + n - 1)
    BY <1>5 DEF Page
  <2> QED
    BY <1>10, <2>1
<1>17. Ahead(r)' = new
  BY <1>15, <1>16
<1>18. old = new \cup (page \cap w.listed) /\ new \cap (page \cap w.listed) = {}
  <2>1. \A id \in w.listed : Rank(R, id) >= o /\ ~(Rank(R, id) >= o + n) => id \in page
    <3> SUFFICES ASSUME NEW id \in w.listed, Rank(R, id) >= o, ~(Rank(R, id) >= o + n)
                 PROVE  id \in page
      OBVIOUS
    <3>1. Rank(R, id) \in o..(o + n - 1)
      BY <1>10
    <3> QED
      BY <1>5, <1>11, <3>1 DEF Page
  <2>2. \A id \in w.listed : Rank(R, id) >= o + n => Rank(R, id) >= o
    BY <1>10
  <2> QED
    BY <1>16, <2>1, <2>2
<1>19. /\ Cardinality(old) = Cardinality(new) + again
       /\ Cardinality(new) \in Nat /\ again \in Nat /\ Cardinality(old) \in Nat
  <2>1. new \in SUBSET R /\ page \cap w.listed \in SUBSET R
    BY <1>5, <1>11
  <2>2. IsFiniteSet(new) /\ IsFiniteSet(page \cap w.listed)
    BY <1>2, <2>1, FS_Subset
  <2> HIDE DEF old, new
  <2>3. /\ IsFiniteSet(new \cup (page \cap w.listed))
        /\ Cardinality(new \cup (page \cap w.listed))
              = Cardinality(new) + Cardinality(page \cap w.listed)
                   - Cardinality(new \cap (page \cap w.listed))
    BY <2>2, FS_Union
  <2>4. Cardinality(new \cap (page \cap w.listed)) = 0
    BY <1>18, FS_EmptySet
  <2>5. Cardinality(new) \in Nat /\ Cardinality(page \cap w.listed) \in Nat
    BY <2>2, FS_CardinalityType
  <2> QED
    BY <1>7, <1>18, <2>3, <2>4, <2>5
<1>20. Cardinality(old) + w.repeats <= w.inserts
  BY <1>1, <1>3, <1>15 DEF Counted
<1>21. Cardinality(new) + (w.repeats + again) <= w.inserts /\ w.repeats + again <= w.inserts
  <2>1. w.repeats \in Nat /\ w.inserts \in Nat
    BY DEF Walk
  <2> HIDE DEF old, new
  <2> QED
    BY <1>19, <1>20, <2>1
<1>22. Counted(r)'
  BY <1>8, <1>17, <1>21 DEF Counted
<1> QED
  BY <1>14, <1>22

\* An insertion moves at most one more row ahead of the walk: the last one before it.
LEMMA InsertedPassed ==
    ASSUME TypeOK, TablesFinite, NEW r \in Readers, Passed(r), Counted(r),
           NEW list \in Lists, NEW id \in Ids, Insert(list, id)
    PROVE  Passed(r)' /\ Counted(r)'
<1>1. PICK w \in Walk : w = reader[r]
  BY DEF TypeOK
<1>2. PICK R \in SUBSET Nat : R = Table(r) /\ IsFiniteSet(R)
  BY TableType
<1>3. PICK more \in Nat : more = IF w.pc = "walking" /\ w.list = list THEN w.inserts + 1 ELSE w.inserts
  BY DEF Walk
<1>4. PICK v : /\ v = reader'[r] /\ v.pc = w.pc /\ v.list = w.list /\ v.size = w.size /\ v.page = w.page
               /\ v.began = w.began /\ v.listed = w.listed /\ v.repeats = w.repeats
               /\ v.inserts = more
  <2>1. reader'[r] = [w EXCEPT !.inserts = more]
    BY <1>1, <1>3, RowInserted DEF pc
  <2> QED
    BY <2>1 DEF Walk
<1>5. /\ pc(r)' = pc(r) /\ pc(r) = w.pc /\ Reached(r)' = Reached(r) /\ Served(r)' = Served(r)
  BY <1>1, <1>4 DEF pc, Reached, Served
<1>6. Table(r)' = IF w.list = list THEN R \cup {id} ELSE R
  BY <1>1, <1>2, RowInserted
<1>7. w.repeats \in Nat /\ w.inserts \in Nat /\ w.repeats <= w.inserts
  BY <1>1 DEF Walk, Counted
<1>8. CASE w.list # list
  <2>1. Table(r)' = Table(r) /\ more = w.inserts
    BY <1>2, <1>3, <1>6, <1>8
  <2>2. Ahead(r)' = Ahead(r)
    BY <1>1, <1>4, <1>5, <2>1 DEF Ahead
  <2> QED
    BY <1>1, <1>4, <1>5, <2>1, <2>2 DEF Passed, Counted
<1>9. CASE w.list = list
  <2>1. id \in Nat /\ id \notin R /\ Table(r)' = R \cup {id}
    BY <1>1, <1>2, <1>6, <1>9, RowInserted DEF Table
  <2>2. \A x \in R : Rank(R, x) \in Nat /\ Rank(R \cup {id}, x) \in {Rank(R, x), Rank(R, x) + 1}
    BY <1>2, <2>1, RankType, RankAfterInsert
  <2>3. w.listed \subseteq R /\ (w.pc = "walking" => w.began \subseteq R)
    BY <1>1, <1>2, <1>5 DEF TypeOK, Table, Passed
  <2>4. Passed(r)'
    <3>1. pc(r)' = "walking" => w.began \subseteq Table(r)'
      BY <1>5, <2>1, <2>3
    <3>2. ASSUME Served(r), NEW x \in w.began, Rank(R \cup {id}, x) < Reached(r)
          PROVE  x \in w.listed
      <4>1. x \in R /\ Reached(r) \in Nat
        BY <2>3, <1>5, <3>2, OffsetType DEF Served
      <4>2. Rank(R, x) < Reached(r)
        BY <2>2, <3>2, <4>1
      <4> QED
        BY <1>1, <1>2, <3>2, <4>2 DEF Passed
    <3>3. pc(r)' = "done" => w.began \subseteq w.listed
      BY <1>1, <1>5 DEF Passed
    <3> QED
      BY <1>4, <1>5, <2>1, <3>1, <3>2, <3>3 DEF Passed
  <2>5. v.repeats <= v.inserts
    BY <1>3, <1>4, <1>7
  <2>6. ASSUME Served(r) PROVE Cardinality(Ahead(r)') + w.repeats <= more
    <3>1. PICK o \in Nat : o = Reached(r)
      BY <2>6, OffsetType
    <3> DEFINE old == {x \in w.listed : Rank(R, x) >= o}
               new == {x \in w.listed : Rank(R \cup {id}, x) >= o}
               edge == {x \in R : Rank(R, x) = o - 1}
    <3>2. Ahead(r)' = new /\ Ahead(r) = old
      BY <1>1, <1>2, <1>4, <1>5, <2>1, <3>1 DEF Ahead
    <3>3. new \in SUBSET (old \cup edge)
      <4> SUFFICES ASSUME NEW x \in w.listed, Rank(R \cup {id}, x) >= o, ~(Rank(R, x) >= o)
                   PROVE  x \in R /\ Rank(R, x) = o - 1
        OBVIOUS
      <4>1. x \in R
        BY <2>3
      <4>2. PICK k \in Nat : k = Rank(R, x) /\ Rank(R \cup {id}, x) \in {k, k + 1}
        BY <2>2, <4>1
      <4>3. k = o - 1
        BY <4>2
      <4> QED
        BY <4>1, <4>2, <4>3
    <3>4. old \in SUBSET R
      BY <2>3
    <3>5. IsFiniteSet(old) /\ Cardinality(old) \in Nat
      BY <1>2, <3>4, FS_Subset, FS_CardinalityType
    <3>6. IsFiniteSet(old \cup edge) /\ Cardinality(old \cup edge) <= Cardinality(old) + 1
      <4>1. CASE edge = {}
        <5>1. old \cup edge = old
          BY <4>1
        <5> HIDE DEF old, edge
        <5> QED
          BY <3>5, <5>1
      <4>2. CASE edge # {}
        <5>1. PICK x \in edge : TRUE
          BY <4>2
        <5>2. \A y \in edge : y = x
          BY <1>2, <5>1, RankUnique
        <5>3. edge = {x}
          BY <5>1, <5>2
        <5> HIDE DEF old, edge
        <5>4. /\ IsFiniteSet(old \cup {x})
              /\ Cardinality(old \cup {x}) = IF x \in old THEN Cardinality(old) ELSE Cardinality(old) + 1
          BY <3>5, FS_AddElement
        <5> QED
          BY <3>5, <5>3, <5>4
      <4> QED
        BY <4>1, <4>2
    <3> HIDE DEF old, new, edge
    <3>7. Cardinality(new) <= Cardinality(old \cup edge) /\ IsFiniteSet(new)
      BY <3>3, <3>6, FS_Subset
    <3>8. Cardinality(new) \in Nat /\ Cardinality(old \cup edge) \in Nat
      BY <3>6, <3>7, FS_CardinalityType
    <3>9. Cardinality(old) + w.repeats <= w.inserts
      BY <1>1, <2>6, <3>2 DEF Counted
    <3>10. more = w.inserts + 1
      BY <1>3, <1>5, <1>9, <2>6 DEF Served
    <3>11. Cardinality(new) + w.repeats <= more
      BY <1>7, <3>5, <3>6, <3>7, <3>8, <3>9, <3>10
    <3> QED
      BY <3>2, <3>11
  <2>7. Counted(r)'
    BY <1>4, <1>5, <2>5, <2>6 DEF Counted
  <2> QED
    BY <2>4, <2>7
<1> QED
  BY <1>8, <1>9

LEMMA WalkStep == TypeOK /\ TablesFinite /\ WalkInvariant /\ [Next]_vars => WalkInvariant'
<1> SUFFICES ASSUME TypeOK, TablesFinite, WalkInvariant, [Next]_vars, NEW r \in Readers
             PROVE  Passed(r)' /\ Counted(r)'
    BY DEF WalkInvariant
<1>1. Passed(r) /\ Counted(r)
  BY DEF WalkInvariant
<1>2. ASSUME rows' = rows, reader'[r] = reader[r] PROVE Passed(r)' /\ Counted(r)'
  <2>1. /\ pc(r)' = pc(r) /\ Table(r)' = Table(r) /\ Reached(r)' = Reached(r)
        /\ Served(r)' = Served(r) /\ Ahead(r)' = Ahead(r)
    BY <1>2 DEF pc, Table, Reached, Served, Ahead
  <2> QED
    BY <1>1, <1>2, <2>1 DEF Passed, Counted
<1>3. CASE UNCHANGED vars
  BY <1>2, <1>3 DEF vars
<1>4. ASSUME NEW s \in Readers, s # r,
             \/ Refuse(s) \/ ListPage(s) \/ Retrieve(s)
             \/ \E list \in Lists, method \in {"GET", "DELETE"}, page \in PageParams, size \in SizeParams :
                   Begin(s, list, method, page, size)
      PROVE  Passed(r)' /\ Counted(r)'
  BY <1>2, <1>4, OthersWalkOn
<1>5. ASSUME NEW list \in Lists, NEW id \in Ids, Insert(list, id) PROVE Passed(r)' /\ Counted(r)'
  BY <1>1, <1>5, InsertedPassed
<1>6. ASSUME NEW list \in Lists, NEW method \in {"GET", "DELETE"}, NEW page \in PageParams,
             NEW size \in SizeParams, Begin(r, list, method, page, size)
      PROVE  Passed(r)' /\ Counted(r)'
  BY <1>6, BegunPassed
<1>7. ASSUME ListPage(r) PROVE Passed(r)' /\ Counted(r)'
  BY <1>1, <1>7, ListedPassed
<1>8. ASSUME Refuse(r) PROVE Passed(r)' /\ Counted(r)'
  <2>1. pc(r)' = "refused" /\ reader'[r].repeats = reader[r].repeats
        /\ reader'[r].inserts = reader[r].inserts
    BY <1>8 DEF Refuse, TypeOK, Walk, pc
  <2> QED
    BY <1>1, <2>1 DEF Passed, Counted, Served
<1>9. ASSUME Retrieve(r) PROVE Passed(r)' /\ Counted(r)'
  <2>1. PICK id \in reader[r].listed : reader' = [reader EXCEPT ![r].missed = @ \cup {id}]
    BY <1>9 DEF Retrieve
  <2>2. PICK w \in Walk : w = reader[r]
    BY DEF TypeOK
  <2>3. PICK v : /\ v = reader'[r] /\ v.pc = w.pc /\ v.list = w.list /\ v.size = w.size
                 /\ v.page = w.page /\ v.began = w.began /\ v.listed = w.listed
                 /\ v.repeats = w.repeats /\ v.inserts = w.inserts
    BY <2>1, <2>2 DEF TypeOK, Walk
  <2>4. rows' = rows
    BY <1>9 DEF Retrieve
  <2>5. /\ pc(r)' = pc(r) /\ Table(r)' = Table(r) /\ Reached(r)' = Reached(r)
        /\ Served(r)' = Served(r) /\ Ahead(r)' = Ahead(r)
    BY <2>2, <2>3, <2>4 DEF pc, Table, Reached, Served, Ahead
  <2> QED
    BY <1>1, <2>2, <2>3, <2>5 DEF Passed, Counted
<1> QED
  BY <1>3, <1>4, <1>5, <1>6, <1>7, <1>8, <1>9, WriterInserts DEF Next

\* A walk from the first page to one that is not full leaves out no row that was
\* there when it began, whatever is inserted meanwhile
\* (api/views/canonical.py:245-257).
THEOREM WalksAreComplete == Spec => []WalkIsComplete
<1>1. WalkInvariant => WalkIsComplete
  BY DEF WalkInvariant, Passed, WalkIsComplete
<1> QED
  BY <1>1, ReadTypeCorrect, WalkInit, WalkStep, PTL DEF Spec

\* A walk lists rows again at most as often as rows have been inserted into its
\* table since it began (api/views/canonical.py:245-257).
THEOREM RepeatsAreInsertions == Spec => []RepeatsNeedInserts
<1>1. WalkInvariant => RepeatsNeedInserts
  BY DEF WalkInvariant, Counted, RepeatsNeedInserts
<1> QED
  BY <1>1, ReadTypeCorrect, WalkInit, WalkStep, PTL DEF Spec
=============================================================================
