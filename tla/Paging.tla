------------------------------- MODULE Paging -------------------------------
(***************************************************************************)
(* The listings.  Every List call of the services cuts a page out of a     *)
(* filtered and sorted list, and the token of the next page is an offset   *)
(* into a list that has changed by the time the token comes back.  A       *)
(* reader follows the tokens of one listing while others write.            *)
(***************************************************************************)
EXTENDS Integers, Sequences, Functions

CONSTANTS
    Sizes,          \* page sizes a reader asks for
    Default,        \* the page size that stands for 0 and below
    MaxPage,        \* the largest page size of the strict listings
    Window,         \* rows the listing of remote access reads from the table: 5000
    MaxInitial,     \* bounds: rows there at first
    MaxRows         \*         rows ever

VARIABLES
    listing,        \* which one; chosen once
    list,           \* the rows it selects, in its order
    made,           \* rows so far: the next one is made + 1
    at,             \* the reader's token
    done,           \* whether the last page had no token
    due,            \* rows there when the reader began, there since, and not moved
    seen,           \* rows the reader got
    twice,          \* whether it got one again
    shifted,        \* whether the rows the reader has passed became more, or the reader began again
    receded         \*         ... became fewer

writers == <<list, made, shifted, receded, due>>
reader  == <<at, done, seen, twice>>
vars    == <<listing, writers, reader>>

InsertAt(s, i, e) == SubSeq(s, 1, i - 1) \o <<e>> \o SubSeq(s, i, Len(s))

RemoveAt(s, i) == SubSeq(s, 1, i - 1) \o SubSeq(s, i + 1, Len(s))

-----------------------------------------------------------------------------
(* A listing: where its new rows come, the rule for the next token, and its  *)
(* traits.  "strict": a token that is not an offset, or a size out of range, *)
(* is refused.  "moves": a row may be written again with another sort key.   *)
(* "leaves": ... so that the filter no longer selects it.  "window": only    *)
(* the first rows are read.                                                  *)

Memory(grows, traits) == [rule |-> "more", grows |-> grows, traits |-> traits]
Table(grows, traits)  == [rule |-> "full", grows |-> grows, traits |-> traits]

ListTransactions           == Memory("end", {})
listTransactionsFromDB     == Table("front", {})
ListEvents                 == Memory("end", {})
listEventsFromDB           == Table("end", {})
ListMeters                 == Memory("end", {})
listMetersFromDB           == Table("end", {})
ListEquipment              == Memory("anywhere", {"leaves"})
listEquipmentFromDB        == Table("anywhere", {"leaves"})
ListPromotionalAwards      == Memory("front", {"strict", "leaves"})
listPromotionalAwardsFromDB == Table("anywhere", {"strict", "leaves", "moves"})
ListSystemWindowEvents     == Memory("front", {"strict", "leaves"})
listSystemWindowEventsFromDB == Table("anywhere", {"strict", "leaves", "moves"})
ListReportRuns             == Memory("front", {})
listReportRunsFromDB       == Table("front", {"moves"})
ListConfigHistory          == Memory("front", {})
listConfigHistoryFromDB    == Table("front", {})
ListDownloadLibraryChanges == Memory("anywhere", {"moves"})
listDownloadEntriesFromDB  == Table("anywhere", {"moves"})
ListAuditEvents            == Memory("front", {"strict"})
listAuditEventsFromDB      == Table("anywhere", {"strict"})
ListRemoteAccessActivities == Memory("front", {"strict"})
activitiesFromDB           == Memory("front", {"strict", "window"})

Listings ==
    {ListTransactions, listTransactionsFromDB, ListEvents, listEventsFromDB, ListMeters,
     listMetersFromDB, ListEquipment, listEquipmentFromDB, ListPromotionalAwards,
     listPromotionalAwardsFromDB, ListSystemWindowEvents, listSystemWindowEventsFromDB,
     ListReportRuns, listReportRunsFromDB, ListConfigHistory, listConfigHistoryFromDB,
     ListDownloadLibraryChanges, listDownloadEntriesFromDB, ListAuditEvents,
     listAuditEventsFromDB, ListRemoteAccessActivities, activitiesFromDB}

Has(trait) == trait \in listing.traits

Places ==
    CASE listing.grows = "front"    -> {1}
      [] listing.grows = "end"      -> {Len(list) + 1}
      [] listing.grows = "anywhere" -> 1..(Len(list) + 1)

-----------------------------------------------------------------------------
(* The reader.                                                               *)

Least(a, b) == IF a <= b THEN a ELSE b

\* A size of 0 or less stands for the default.
pageSize(size) == IF size <= 0 THEN Default ELSE size

\* validatePageToken and the checks on page_size; "readable" is whether the token parses
Refused(size, readable) == Has("strict") /\ (~readable \/ size < 0 \/ size > MaxPage)

\* The rows from start on: LIMIT size OFFSET start, or items[start:end]
page(start, size) == SubSeq(list, start + 1, Least(start + size, Len(list)))

\* Faulty variant: one row is left between two pages.
nextTokenPast(start, size) ==
    IF listing.rule = "full"
    THEN IF Len(page(start, size)) = size THEN {start + size + 1} ELSE {}
    ELSE LET end == Least(start + size, Len(list)) IN IF end < Len(list) THEN {end} ELSE {}

\* The token of the next page: after a full page of a table, and in memory when rows are left
nextToken(start, size) ==
    IF listing.rule = "full"
    THEN IF Len(page(start, size)) = size THEN {start + size} ELSE {}
    ELSE LET end == Least(start + size, Len(list)) IN IF end < Len(list) THEN {end} ELSE {}

\* One List call.  A token that does not parse is taken for no token by the lenient listings.
Read(size, readable) ==
    LET start == IF readable THEN at ELSE 0
        rows  == Range(page(start, pageSize(size)))
        next  == nextToken(start, pageSize(size))
    IN /\ ~done
       /\ ~Refused(size, readable)
       /\ seen' = seen \cup rows
       /\ twice' = (twice \/ seen \cap rows # {})
       /\ done' = (next = {})
       /\ at' = IF next = {} THEN at ELSE CHOOSE n \in next : TRUE
       /\ shifted' = (shifted \/ ~readable)
       /\ UNCHANGED <<listing, list, made, due, receded>>

-----------------------------------------------------------------------------
(* The writers.                                                              *)

\* A new row; the window loses its last one when it is full.
Insert(p) ==
    LET longer == InsertAt(list, p, made + 1)
        full   == Has("window") /\ Len(list) = Window
    IN /\ ~done /\ made < MaxRows
       /\ made' = made + 1
       /\ list' = IF full THEN SubSeq(longer, 1, Window) ELSE longer
       /\ due' = IF full THEN due \ {list[Window]} ELSE due
       /\ shifted' = (shifted \/ p <= at)
       /\ UNCHANGED <<listing, receded, reader>>

\* A row is written again and the filter no longer selects it.
Leave(i) ==
    /\ ~done /\ Has("leaves")
    /\ list' = RemoveAt(list, i)
    /\ due' = due \ {list[i]}
    /\ receded' = (receded \/ i <= at)
    /\ UNCHANGED <<listing, made, shifted, reader>>

\* A row is written again and has another place.
Move(i, p) ==
    /\ ~done /\ Has("moves") /\ i # p
    /\ list' = InsertAt(RemoveAt(list, i), p, list[i])
    /\ due' = due \ {list[i]}
    /\ shifted' = (shifted \/ p <= at)
    /\ receded' = (receded \/ (i <= at /\ p > at))
    /\ UNCHANGED <<listing, made, reader>>

Init ==
    /\ listing \in Listings
    /\ made \in 0..MaxInitial
    /\ list = [i \in 1..made |-> i]
    /\ at = 0 /\ done = FALSE
    /\ due = 1..made
    /\ seen = {} /\ twice = FALSE
    /\ shifted = FALSE /\ receded = FALSE

Next ==
    \/ \E size \in Sizes, readable \in BOOLEAN : Read(size, readable)
    \/ \E p \in Places : Insert(p)
    \/ \E i \in 1..Len(list) : Leave(i)
    \/ \E i \in 1..Len(list), p \in Places : p <= Len(list) /\ Move(i, p)

Spec == Init /\ [][Next]_vars

ConstantsAssumption ==
    /\ Sizes \subseteq Int
    /\ Default \in Nat \ {0} /\ MaxPage \in Nat \ {0}
    /\ MaxInitial \in 0..Window /\ Window \in Nat /\ MaxRows \in Nat

-----------------------------------------------------------------------------
(* What the tokens promise.                                                  *)

\* Types of the list, the token and the rows seen.
TypeOK ==
    /\ listing \in Listings
    /\ made \in 0..MaxRows
    /\ list \in Seq(1..made) /\ Len(list) <= made
    /\ due \subseteq Range(list)
    /\ at \in Nat /\ seen \subseteq 1..made
    /\ {done, twice, shifted, receded} \subseteq BOOLEAN

\* A reader who follows the tokens to the end has got every row that was there all along in
\* its place, wherever new rows came in between, unless a row the reader had passed left the
\* list or moved behind the token; and gets no row twice unless rows came before the token.
PagesCoverList ==
    /\ done /\ ~receded => due \subseteq seen
    /\ twice => shifted \/ receded

=============================================================================
