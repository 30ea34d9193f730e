---------------------------- MODULE CustomerList ----------------------------
(***************************************************************************)
(* The list of all customers (lib/customer-list.js and its callers in      *)
(* modules/customers/customer.service.js): filters, counts, pages, the     *)
(* export, the counts of a building's page and of one PON, and refreshes.  *)
(*                                                                         *)
(* The table changes as readings are taken and customers come and go; the  *)
(* queries are functions of it.  An OLT stands for its one PON.  Search    *)
(* text and the filters that compare one column with one value are left    *)
(* out; all customers have one name, so that a sort by name is all ties.   *)
(***************************************************************************)
EXTENDS Integers, FiniteSets, SequencesExt

CONSTANTS
    Building, Zone,
    ZoneAt,       \* [Building -> Zone \cup {None}]
    Olt, Answer,  \* what a lookup of a Username may say of a customer
    Readers,      \* the sets of buildings a reader may see
    MaxId,        \* bound: customers
    None

VARIABLES
    row,    \* the table: [1 .. MaxId -> a customer or None]
    down    \* the OLTs the monitoring cannot reach

vars == <<row, down>>

Id == 1 .. MaxId
Nothing(state) == [state |-> state, olt |-> None, weak |-> FALSE]
Silent == {Nothing("unavailable"), Nothing("pending")}   \* what is not worth keeping
NoUsername == Nothing("no_username")
Unread == Nothing(None)
Stale == 1
Fresh == 2
Late == 99   \* after every date: nulls last

Customer ==
    [building : Building, named : BOOLEAN, expires : {None, -1, 7}, read : Answer \cup {NoUsername, Unread}, at : {None, Stale, Fresh}]

\* What is stored says whether it was ever checked, and of a customer without a
\* Username only that.
TypeOK ==
    /\ row \in [Id -> Customer \cup {None}] /\ down \subseteq Olt
    /\ \A i \in Id : row[i] # None => ((row[i].at = None) <=> (row[i].read = Unread))
    /\ \A i \in Id : row[i] # None /\ row[i].read \notin {Unread} => (row[i].named <=> row[i].read # NoUsername)

Rows == {i \in Id : row[i] # None}

----------------------------------------------------------------------------
(* The filter: customerListWhere and its parts *)

ExpiryWhere(c, window) ==
    /\ c.expires # None
    /\ IF window = "expired" THEN c.expires < 0 ELSE c.expires \in 0 .. 7

\* A NULL is neither IN nor NOT IN.
In(x, S) == x # None /\ x \in S
NotIn(x, S) == x # None /\ x \notin S
OltDownWhere(c) == c.read.state = "not_seen" /\ In(c.read.olt, down)
NotSeenWhere(c) == c.read.state = "not_seen" /\ (down = {} \/ c.read.olt = None \/ NotIn(c.read.olt, down))

ConnWhere(c, conn) ==
    CASE conn = "never" -> c.at = None /\ c.named
      [] conn = "no_username" -> c.read.state = "no_username" \/ ~c.named
      [] conn = "olt_down" -> OltDownWhere(c)
      [] conn = "not_seen" -> NotSeenWhere(c)
      [] OTHER -> c.read.state = conn

CustomerListWhere(query, ids) ==
    {i \in Rows : /\ row[i].building \in ids
                  /\ query.conn # None => ConnWhere(row[i], query.conn)
                  /\ query.weak => row[i].read.weak
                  /\ query.expiry # None => ExpiryWhere(row[i], query.expiry)}

\* scopedBuildings and narrowedIds: the buildings that have customers, of those
\* the actor may read, of those the filter names.
ScopedBuildings(canRead) == {b \in canRead : \E i \in Rows : row[i].building = b}
NarrowedIds(buildings, query) ==
    {b \in buildings : (query.zone # None => ZoneAt[b] = query.zone) /\ (query.building # None => b = query.building)}
Listed(query, canRead) == CustomerListWhere(query, NarrowedIds(ScopedBuildings(canRead), query))

\* customerListOrderBy: the id breaks every tie.
Key(i, sort) ==
    CASE sort = "expiry" -> IF row[i].expires = None THEN Late ELSE row[i].expires
      [] sort = "checked" -> IF row[i].at = None THEN Late ELSE -row[i].at
      [] OTHER -> 0
Precedes(i, j, sort) == Key(i, sort) < Key(j, sort) \/ (Key(i, sort) = Key(j, sort) /\ i < j)
\* Every order the database may give the rows in.
Orders(S, sort) == {s \in SetToSeqs(S) : \A m, n \in DOMAIN s : m < n => ~Precedes(s[n], s[m], sort)}
Page(s, page, pageSize) == {s[n] : n \in DOMAIN s \cap (page - 1) * pageSize + 1 .. page * pageSize}

\* countKey and oltReachableOf, and the Connection column of the export.
OltReachable(olt) == IF olt = None THEN None ELSE olt \notin down
CountKey(answer) ==
    IF answer.state = "not_seen" /\ OltReachable(answer.olt) = FALSE THEN "olt_down" ELSE answer.state
ConnectionWord(c) == IF c.at = None THEN "not checked" ELSE CountKey(c.read)

\* The counts over the list: not_seen by the grouped query less those of olt_down.
Counts(S) ==
    LET InState(state) == Cardinality({i \in S : row[i].read.state = state})
        oltDown == IF down = {} THEN 0 ELSE Cardinality({i \in S : OltDownWhere(row[i])})
    IN  [online |-> InState("online"), offline |-> InState("offline"), olt_down |-> oltDown,
         not_seen |-> IF InState("not_seen") < oltDown THEN 0 ELSE InState("not_seen") - oltDown]

----------------------------------------------------------------------------
(* Readings *)

\* saveConnectionSnapshots, of what is worth keeping.
Saved(answers) ==
    [i \in Id |-> IF i \in DOMAIN answers /\ answers[i] \notin Silent
                  THEN [row[i] EXCEPT !.read = answers[i], !.at = Fresh] ELSE row[i]]
\* What the lookup may answer for each of S; a customer without a Username is not looked up.
Answers(S) ==
    {a \in [S -> Answer \cup Silent \cup {NoUsername}] :
        \A i \in S : IF row[i].named THEN a[i] # NoUsername ELSE a[i] = NoUsername}

\* getBuildingConnections: the page of a building, its counts before the save fails or not.
OfBuilding(b) == {i \in Rows : row[i].building = b}
PageCount(answers, key) == Cardinality({i \in DOMAIN answers : CountKey(answers[i]) = key})
BuildingConnections(b) ==
    /\ \E answers \in Answers(OfBuilding(b)) : row' = Saved(answers)
    /\ UNCHANGED down

\* samePonOf: by the live answer, or when it is missing by what is stored.
PonOf(i, answer) ==
    IF answer \in Silent THEN row[i].read.olt
    ELSE answer.olt
SamePon(olt, canRead, table) == {i \in Rows : table[i].building \in canRead /\ table[i].read.olt = olt}
CustomerConnection(i) ==
    /\ i \in Rows
    /\ \E answers \in Answers({i}) : row' = Saved(answers)
    /\ UNCHANGED down

\* refreshCustomers: rows of the scope, those with a Username and no fresh reading, or all.
Due(ids, canRead, force) ==
    {i \in ids \cap Rows : row[i].building \in ScopedBuildings(canRead) /\ row[i].named /\ (force \/ row[i].at # Fresh)}
RefreshCustomers(ids, canRead, force) ==
    /\ \E answers \in Answers(Due(ids, canRead, force)) : row' = Saved(answers)
    /\ UNCHANGED down

----------------------------------------------------------------------------
(* What else changes the table: modules/customers, time, and the monitoring *)

CreateCustomer(i) ==
    /\ row[i] = None
    /\ \E b \in Building, named \in BOOLEAN, expires \in {None, -1, 7} :
        row' = [row EXCEPT ![i] = [building |-> b, named |-> named, expires |-> expires, read |-> Unread, at |-> None]]
    /\ UNCHANGED down
\* A Username given, changed or taken away clears the reading.
Rename(i) ==
    /\ i \in Rows /\ \E named \in BOOLEAN : row' = [row EXCEPT ![i].named = named, ![i].read = Unread, ![i].at = None]
    /\ UNCHANGED down
DeleteCustomer(i) == i \in Rows /\ row' = [row EXCEPT ![i] = None] /\ UNCHANGED down
GrowsStale(i) == i \in Rows /\ row[i].at = Fresh /\ row' = [row EXCEPT ![i].at = Stale] /\ UNCHANGED down
OltsChange == \E S \in SUBSET Olt : down' = S /\ UNCHANGED row

Init == row = [i \in Id |-> None] /\ down = {}
Next ==
    \/ \E i \in Id : CreateCustomer(i) \/ Rename(i) \/ DeleteCustomer(i) \/ GrowsStale(i) \/ CustomerConnection(i)
    \/ \E b \in Building : BuildingConnections(b)
    \/ \E ids \in SUBSET Id, canRead \in Readers, force \in BOOLEAN : RefreshCustomers(ids, canRead, force)
    \/ OltsChange
Spec == Init /\ [][Next]_vars

----------------------------------------------------------------------------
(* Properties *)

Conn == {"online", "offline", "not_seen", "olt_down", "not_linked", "no_username", "never"}
Ask(conn, weak, expiry, zone, building) ==
    [conn |-> conn, weak |-> weak, expiry |-> expiry, zone |-> zone, building |-> building]
All == Ask(None, FALSE, None, None, None)
Queries ==
    {Ask(conn, weak, expiry, None, None) : conn \in {None, "not_seen", "olt_down"}, weak \in BOOLEAN, expiry \in {None, "expired", "7d"}}
    \cup {Ask(None, FALSE, None, z, b) : z \in Zone \cup {None}, b \in Building \cup {None}}

\* Nothing outside the reader's buildings is listed, whatever the filter; and
\* each zone or building offered as a filter has a customer to show.
ScopeIsNeverWidened ==
    \A canRead \in Readers :
        /\ \A query \in Queries : \A i \in Listed(query, canRead) : row[i].building \in canRead
        /\ \A b \in ScopedBuildings(canRead) :
            /\ Listed(Ask(None, FALSE, None, None, b), canRead) # {}
            /\ ZoneAt[b] # None => Listed(Ask(None, FALSE, None, ZoneAt[b], None), canRead) # {}

\* Every customer is under exactly one of the connection filters, and the export
\* names the one it is under; those never checked, or without a Username and
\* not yet marked, it calls not checked.
OneFilterEach ==
    \A i \in Rows :
        /\ Cardinality({conn \in Conn : ConnWhere(row[i], conn)}) = 1
        /\ IF row[i].at = None THEN ConnectionWord(row[i]) = "not checked" /\ (ConnWhere(row[i], "never") \/ ConnWhere(row[i], "no_username"))
           ELSE ConnWhere(row[i], ConnectionWord(row[i]))

\* The counts above a list are the sizes of the lists they lead to.
CountsLeadThere ==
    \A query \in Queries :
        LET S == Listed(query, Building)
        IN  \A key \in DOMAIN Counts(S) : Counts(S)[key] = Cardinality({i \in S : ConnWhere(row[i], key)})

\* Pages fetched one after the other repeat no customer and skip none, in
\* whatever order the database gives rows that tie.
PagesPartition ==
    \A sort \in {"name", "expiry", "checked"}, pageSize \in 1 .. MaxId :
        \A first, second \in Orders(Rows, sort) :
            LET rest == UNION {Page(second, page, pageSize) : page \in 2 .. MaxId}
            IN  Page(first, 1, pageSize) \cup rest = Rows /\ Page(first, 1, pageSize) \cap rest = {}

\* What a building's page counts is what the list counts of that building once
\* the readings are saved, but for those that were not answered.
PageAgreesWithList ==
    \A b \in Building : \A answers \in Answers(OfBuilding(b)) :
        LET told == {i \in DOMAIN answers : answers[i] \notin Silent}
            after == Saved(answers)
        IN  \A key \in Conn \ {"never"} :
                PageCount(answers, key) = Cardinality({i \in told : ConnWhere(after[i], key)})

\* A customer's own PON counts the customer, once the reading is saved.
PonCountsItsOwn ==
    \A i \in Rows : \A answers \in Answers({i}) :
        LET olt == PonOf(i, answers[i]) IN olt # None => i \in SamePon(olt, {row[i].building}, Saved(answers))

ListsAgree ==
    ScopeIsNeverWidened /\ OneFilterEach /\ CountsLeadThere /\ PagesPartition /\ PageAgreesWithList /\ PonCountsItsOwn
=============================================================================
