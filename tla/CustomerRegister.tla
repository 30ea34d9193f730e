-------------------------- MODULE CustomerRegister --------------------------
(***************************************************************************)
(* The customers of buildings (modules/customers/customer.service.js): one *)
(* added, edited or deleted by hand, or many taken from a billing sheet.   *)
(*                                                                         *)
(* Every request reads first and writes later, and no index of the         *)
(* database keeps a Username or a mobile number apart: with one Request    *)
(* the requests come in turn, with two they overlap.                       *)
(*                                                                         *)
(* A customer's name stands for all that a sheet may fill and a row may    *)
(* leave blank (MERGE_FIELDS but the Username and the mobile number).      *)
(***************************************************************************)
EXTENDS Naturals, Sequences, FiniteSets

CONSTANTS
    Building, Username, Mobile, Text,
    None,        \* a blank cell; a customer without a Username
    Wrong,       \* a mobile number or a text of a cell that fails its check
    Row, Form,   \* the rows a sheet may have, and what a form may send
    MaxRows, MaxId,   \* bounds: rows of a sheet, customers ever made
    Request, Idle

Id == 1 .. MaxId     \* in the order of createdAt

VARIABLES
    customer,   \* the table: a partial function of Id
    made,       \* how many customers were ever made
    request,    \* what each request has read and is about to write
    last        \* history: the sheet just taken, while nothing else has happened since

vars == <<customer, made, request, last>>

Customer == [building : Building, username : Username \cup {None}, mobile : Mobile, text : Text]
Sheets == UNION {[1 .. n -> Row] : n \in 1 .. MaxRows}

TypeOK ==
    /\ DOMAIN customer \subseteq 1 .. made /\ made \in 0 .. MaxId
    /\ \A i \in DOMAIN customer : customer[i] \in Customer
    /\ last \in Sheets \cup {<< >>}

\* findFirst with no order: any of the rows that match, or none.
FindFirst(S) == IF S = {} THEN {None} ELSE S
WithUsername(u) == {i \in DOMAIN customer : customer[i].username = u}
WithMobile(b, m) == {i \in DOMAIN customer : customer[i].building = b /\ customer[i].mobile = m}

----------------------------------------------------------------------------
(* One customer at a time *)

Begins(r, write) == request[r] = Idle /\ request' = [request EXCEPT ![r] = write] /\ UNCHANGED <<customer, made, last>>

\* createCustomer: the Username, or the number in the building, must be free.
CreateCustomer(r, c) ==
    /\ IF c.username # None THEN WithUsername(c.username) = {} ELSE WithMobile(c.building, c.mobile) = {}
    /\ Begins(r, [do |-> "create", new |-> c])

\* updateCustomer: findFirst may come upon the very customer that is edited.
UpdateCustomer(r, i, c) ==
    /\ i \in DOMAIN customer /\ c.building = customer[i].building
    /\ IF c.username # None
       THEN c.username = customer[i].username \/ \E j \in FindFirst(WithUsername(c.username)) : j \in {None, i}
       ELSE \/ c.mobile = customer[i].mobile /\ customer[i].username = None
            \/ \E j \in FindFirst(WithMobile(c.building, c.mobile)) : j \in {None, i}
    /\ Begins(r, [do |-> "update", id |-> i, set |-> c])

DeleteCustomer(r, i) == i \in DOMAIN customer /\ Begins(r, [do |-> "delete", id |-> i])

\* The one write of each; that of a customer who is gone by now fails.
ApplyOne(r) ==
    /\ request[r] # Idle /\ request' = [request EXCEPT ![r] = Idle] /\ last' = << >>
    /\ \/ /\ request[r].do = "create" /\ made < MaxId /\ made' = made + 1
          /\ customer' = [i \in DOMAIN customer \cup {made + 1} |->
                              IF i = made + 1 THEN request[r].new ELSE customer[i]]
       \/ /\ request[r].do = "update" /\ UNCHANGED made
          /\ customer' = [i \in DOMAIN customer |-> IF i = request[r].id THEN request[r].set ELSE customer[i]]
       \/ /\ request[r].do = "delete" /\ UNCHANGED made
          /\ customer' = [i \in DOMAIN customer \ {request[r].id} |-> customer[i]]

----------------------------------------------------------------------------
(* The import *)

\* What a cell holds after its own check; a wrong one is left alone on an update.
Cell(x) == IF x = Wrong THEN None ELSE x
\* Fault: a Username is told apart by building too.
IdentityHere(row) == <<row.building, IF row.username # None THEN row.username ELSE row.mobile>>
\* customerIdentity: the Username, or else the building and the number.
Identity(row) == IF row.username # None THEN <<row.username>> ELSE <<row.building, row.mobile>>
Anonymous(row) == row.username = None /\ row.mobile = None

\* Of the building and number, those no earlier row has matched.
OnMobile(state, row) == WithMobile(row.building, row.mobile) \ state.matched
NoUsername(S) == {i \in S : customer[i].username = None}
OldestOr(S, otherwise) == IF S = {} THEN otherwise ELSE CHOOSE i \in S : \A j \in S : i <= j

\* The customer a row is of: the one with its Username, in whatever building (with
\* requests in turn there is one, so it does not matter which is looked at first); or
\* one with its number, first those who have no Username, and none who has
\* another if the row names one.
Match(state, row) ==
    LET mobiles == OnMobile(state, row)
    IN  IF row.username = None THEN OldestOr(NoUsername(mobiles), OldestOr(mobiles, None))
        ELSE OldestOr(WithUsername(row.username), OldestOr(NoUsername(mobiles), None))

\* mergeCustomerUpdate: a filled cell replaces what is stored, a blank one does not.
Merged(c, row) ==
    LET kept(cell, stored) == IF Cell(cell) = None THEN stored ELSE cell
    IN  [c EXCEPT !.username = kept(row.username, @), !.mobile = kept(row.mobile, @), !.text = kept(row.text, @)]

\* One row: skipped, or matched, or a new customer.
Take(state, row) ==
    LET again == ~Anonymous(row) /\ Identity(row) \in state.seen
        s == IF Anonymous(row) THEN state ELSE [state EXCEPT !.seen = @ \cup {Identity(row)}]
        i == Match(s, row)
        elsewhere == i # None /\ row.username # None /\ customer[i].building # row.building
    IN  IF again THEN state
        ELSE IF elsewhere \/ i \in s.matched THEN s
        ELSE IF i # None THEN
            [s EXCEPT !.matched = @ \cup {i},
                      !.updates = IF Merged(customer[i], row) = customer[i] THEN @ ELSE @ \cup {[id |-> i, row |-> row]}]
        ELSE IF row.mobile \in Mobile /\ row.text \in Text THEN
            [s EXCEPT !.creates = Append(@, [building |-> row.building, username |-> row.username,
                                             mobile |-> row.mobile, text |-> row.text])]
        ELSE s

\* The rows of a sheet, one after the other.
NoneTaken == [seen |-> {}, matched |-> {}, updates |-> {}, creates |-> << >>]
Taken(sheet) ==
    LET upTo[n \in 0 .. Len(sheet)] == IF n = 0 THEN NoneTaken ELSE Take(upTo[n - 1], sheet[n])
    IN  upTo

\* What an import of the sheet writes; the preview stops here.
Plan(sheet) ==
    LET s == Taken(sheet)[Len(sheet)]
    IN  [updates |-> s.updates, creates |-> s.creates]
Nothing == [updates |-> {}, creates |-> << >>]

ImportCustomers(r, sheet) ==
    \E plan \in {Plan(sheet)} \ {Nothing} : Begins(r, [do |-> "import", sheet |-> sheet, plan |-> plan])

\* applyImport: all or nothing, so not at all if a customer is gone by now.
ApplyImport(r) ==
    LET plan == request[r].plan
        ids == {u.id : u \in plan.updates}
        rowOf == [i \in ids |-> (CHOOSE u \in plan.updates : u.id = i).row]
        n == Len(plan.creates)
        new == made + 1 .. made + n
    IN  /\ request[r] # Idle /\ request[r].do = "import" /\ made + n <= MaxId
        /\ request' = [request EXCEPT ![r] = Idle]
        /\ IF ids \subseteq DOMAIN customer
           THEN /\ customer' = [i \in DOMAIN customer \cup new |->
                                    IF i \in new THEN plan.creates[i - made]
                                    ELSE IF i \in ids THEN Merged(customer[i], rowOf[i]) ELSE customer[i]]
                /\ made' = made + n /\ last' = request[r].sheet
           ELSE UNCHANGED <<customer, made, last>>

----------------------------------------------------------------------------
Init == customer = << >> /\ made = 0 /\ request = [r \in Request |-> Idle] /\ last = << >>

Next ==
    \/ \E r \in Request : \/ \E c \in Form : CreateCustomer(r, c)
                          \/ \E i \in Id : DeleteCustomer(r, i) \/ \E c \in Form : UpdateCustomer(r, i, c)
                          \/ \E sheet \in Sheets : ImportCustomers(r, sheet)
                          \/ ApplyImport(r) \/ ApplyOne(r)

Spec == Init /\ [][Next]_vars

----------------------------------------------------------------------------
(* Properties *)

\* When requests come in turn, no two customers of the register have one
\* Username, in whatever buildings, and however sheets and forms alternate.
UsernamesAreUnique ==
    \A i, j \in DOMAIN customer : (customer[i].username = customer[j].username /\ i # j) => customer[i].username = None

\* Two rows of a sheet for one number of one building.
SharesNumber(sheet) ==
    \E i, j \in DOMAIN sheet : i # j /\ sheet[i].building = sheet[j].building /\ sheet[i].mobile = sheet[j].mobile

\* The same sheet again has nothing to write, unless two of its rows share a
\* number: then a customer whom the first upload gave that number may be
\* taken, the second time, for the row without a Username.
ReuploadChangesNothing == (last # << >> /\ ~SharesNumber(last)) => Plan(last) = Nothing

\* The promise of the code, without the exception.
ReuploadNeverChanges == last # << >> => Plan(last) = Nothing

\* An import only adds customers and fills cells: nobody's Username or building
\* changes, and nobody is lost.  (When requests overlap an import may overwrite
\* the Username an edit gave since the sheet was read.)
ImportErasesNothing ==
    [][last' \notin {<< >>, last} =>
        \A i \in DOMAIN customer :
            /\ i \in DOMAIN customer' /\ customer'[i].building = customer[i].building
            /\ customer[i].username # None => customer'[i].username = customer[i].username]_vars
=============================================================================
