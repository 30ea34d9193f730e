---------------------------- MODULE OltReadings ----------------------------
(***************************************************************************)
(* Connection readings of customers.  One client of the OLT monitoring API *)
(* per process (lib/olt-optical.js) paces every call with a token bucket   *)
(* and shares answers by Username; building and customer pages, refreshes  *)
(* (customer.service.js), the background refresher (lib/olt-sync.js) and   *)
(* the list of unreachable OLTs (lib/olt-reachability.js) all go by it.    *)
(*                                                                         *)
(* A tick is the time of one token, and timers fire on time.  A pause, the *)
(* lives of a cached answer and of the list of OLTs and a page's deadline  *)
(* may have any length; a row's hold-back counts the refresher's rounds.   *)
(***************************************************************************)
EXTENDS Integers, Sequences, FiniteSets, SequencesExt

CONSTANTS
    Customer, Username, None, Sent, Unread,
    Page, Refresher,     \* who reads: page requests, and the background refresher
    Olts,                \* the call for the list of OLTs, paced as a Username's is
    Burst, MaxWait, FanOut,
    SyncFloor, RefreshFloor,   \* minTokens, REFRESH_MIN_TOKENS
    PerRound, HoldRounds, MassLimit,
    Touched,             \* bound: the customers that pages ask for and that are renamed
    MaxEvents            \* bound: page requests, edits of Usernames and 429 answers

Reader == Page \cup {Refresher}
Call == Username \cup {Olts}
Says == {"online", "not_linked", "no_username"}   \* what is worth storing
Silent == "silent"   \* pending, rate limited, or the API unavailable

\* The bucket holds a token at least, and waits are whole ticks, which nothing
\* else that a call may be at is mistaken for.
ASSUME OltReadingsAssumption ==
    /\ Burst \in Nat \ {0} /\ MaxWait \in Nat /\ HoldRounds \in Nat /\ MaxEvents \in Nat
    /\ SyncFloor \in Int /\ RefreshFloor \in Int
    /\ None # Sent /\ \A state \in {None, Sent} : state \notin 0 .. MaxWait
    /\ None \notin Says /\ Touched \subseteq Customer

VARIABLES
    username, conn,   \* Customer columns; of the stored reading, whose it is: the Username's, or None for
                      \* a customer who has none
    order,            \* customers, least recently checked first
    tokens, paused,
    cache,            \* the answer kept for a Username
    call,             \* calls under way: Sent, or how long they still wait
    reader,           \* what each reader is at: the Usernames it read, and the answers so far
    held,             \* rounds a customer is held back from the refresher
    credit,           \* history: what is left of the budget at the API
    overtaken,        \* history: customers renamed while somebody read for them
    events

vars == <<username, conn, order, tokens, paused, cache, call, reader, held, credit, overtaken, events>>
customers == <<username, conn, order, overtaken>>
bucket == <<tokens, paused, call, credit>>

Off == [rows |-> << >>, todo |-> {}, await |-> {}, got |-> << >>, floor |-> 0, fresh |-> FALSE]

\* A reader has an answer for every row it read.
Reading(x) ==
    /\ x \in [rows: UNION {[S -> Username \cup {None}] : S \in SUBSET Customer},
              todo: SUBSET Customer, await: SUBSET Customer,
              got: UNION {[S -> Says \cup {Silent}] : S \in SUBSET Customer}, floor: Int, fresh: BOOLEAN]
    /\ x.todo \cup x.await \subseteq DOMAIN x.rows /\ DOMAIN x.got = DOMAIN x.rows

TypeOK ==
    /\ username \in [Customer -> Username \cup {None}]
    /\ conn \in [Customer -> Username \cup {None, Unread}]
    /\ tokens \in -MaxWait .. Burst /\ credit \in 0 .. Burst /\ paused \in BOOLEAN
    /\ cache \in [Username -> Says \cup {None}] /\ call \in [Call -> {None, Sent} \cup 0 .. MaxWait]
    /\ DOMAIN reader = Reader /\ \A r \in Reader : Reading(reader[r])
    /\ held \in [Customer -> 0 .. HoldRounds]
    /\ overtaken \subseteq Customer /\ events \in 0 .. MaxEvents

\* Every customer has one place in the order.
OrderOK == ToSet(order) = Customer /\ Len(order) = Cardinality(Customer)

Happens == events < MaxEvents /\ events' = events + 1

----------------------------------------------------------------------------
(* The bucket and the calls: fetchOne, and acquire for the list of OLTs *)

Wait == IF tokens >= 1 THEN 0 ELSE 1 - tokens
MayCall == ~paused /\ Wait <= MaxWait

\* Fault: a call that waits takes no token.
TakeTokenIfFree(k) ==
    /\ tokens' = IF Wait = 0 THEN tokens - 1 ELSE tokens
    /\ call' = [call EXCEPT ![k] = IF Wait = 0 THEN Sent ELSE Wait]
    /\ credit' = IF Wait = 0 THEN credit - 1 ELSE credit
\* reserve: tokens may go negative, that is the queue.
TakeToken(k) ==
    /\ tokens' = tokens - 1
    /\ call' = [call EXCEPT ![k] = IF Wait = 0 THEN Sent ELSE Wait]
    /\ credit' = IF Wait = 0 THEN credit - 1 ELSE credit

\* Everyone who awaits Username u is answered at once.
Tell(u, answer) ==
    reader' = [r \in Reader |->
        LET mine == {c \in reader[r].await : reader[r].rows[c] = u}
        IN  [reader[r] EXCEPT !.await = @ \ mine,
                              !.got = [c \in DOMAIN @ |-> IF c \in mine THEN answer ELSE @[c]]]]

\* The wait of k is over: it is sent, unless a pause has begun.
Wake(k) ==
    /\ call[k] = 0
    /\ IF paused
       THEN call' = [call EXCEPT ![k] = None] /\ Tell(k, Silent) /\ UNCHANGED credit
       ELSE call' = [call EXCEPT ![k] = Sent] /\ credit' = credit - 1 /\ UNCHANGED reader
    /\ UNCHANGED <<customers, tokens, paused, cache, held, events>>

Answered(k) == call[k] = Sent /\ call' = [call EXCEPT ![k] = None]

\* An answer, a failure or a timeout; only an answer is cached.
Answer(u) ==
    /\ u \in Username /\ Answered(u)
    /\ \E answer \in {"online", "not_linked", Silent} :
        /\ Tell(u, answer)
        /\ cache' = IF answer \in Says THEN [cache EXCEPT ![u] = answer] ELSE cache
    /\ UNCHANGED <<customers, tokens, paused, credit, held, events>>

\* A 429 for anything pauses everything and drains the bucket.
Refused(k) ==
    /\ Answered(k) /\ Happens
    /\ paused' = TRUE /\ tokens' = IF tokens > 0 THEN 0 ELSE tokens
    /\ Tell(k, Silent)
    /\ UNCHANGED <<customers, cache, credit, held>>

\* The bucket is not refilled while a pause lasts.
Tick ==
    /\ \A k \in Call : call[k] # 0
    /\ tokens' = IF paused \/ tokens = Burst THEN tokens ELSE tokens + 1
    /\ credit' = IF credit = Burst THEN credit ELSE credit + 1
    /\ call' = [k \in Call |-> IF call[k] \in 1 .. MaxWait THEN call[k] - 1 ELSE call[k]]
    /\ UNCHANGED <<customers, paused, cache, reader, held, events>>
PauseEnds == paused /\ paused' = FALSE /\ UNCHANGED <<customers, tokens, call, credit, cache, reader, held, events>>
Expires(u) ==
    cache[u] # None /\ cache' = [cache EXCEPT ![u] = None] /\ UNCHANGED <<customers, bucket, reader, held, events>>

\* unreachableOlts, for a page or a list: one fetch at a time.
FetchOlts ==
    /\ call[Olts] = None /\ Happens
    /\ IF MayCall THEN TakeToken(Olts) /\ UNCHANGED paused ELSE UNCHANGED bucket
    /\ UNCHANGED <<customers, cache, reader, held>>
OltsAnswered == Answered(Olts) /\ UNCHANGED <<customers, tokens, paused, credit, cache, reader, held, events>>

----------------------------------------------------------------------------
(* Readers *)

Starts(r, S, floor, fresh) ==
    reader' = [reader EXCEPT ![r] = [rows |-> [c \in S |-> username[c]], todo |-> S, await |-> {},
                                     got |-> [c \in S |-> Silent], floor |-> floor, fresh |-> fresh]]

Told(x, c, answer) == [x EXCEPT !.todo = @ \ {c}, !.got[c] = answer]
Awaits(x, c) == [x EXCEPT !.todo = @ \ {c}, !.await = @ \cup {c}]

\* lookup: from the cache unless a fresh answer is wanted, with a call under way,
\* by a call of its own, or not at all.
Lookup(r, c) ==
    LET u == reader[r].rows[c]
        tell(answer) == reader' = [reader EXCEPT ![r] = Told(@, c, answer)]
        awaits == reader' = [reader EXCEPT ![r] = Awaits(@, c)]
    IN  /\ c \in reader[r].todo
        /\ IF u = None THEN tell("no_username") /\ UNCHANGED bucket
           ELSE IF ~reader[r].fresh /\ cache[u] # None THEN tell(cache[u]) /\ UNCHANGED bucket
           ELSE IF call[u] # None THEN awaits /\ UNCHANGED bucket
           ELSE IF MayCall THEN awaits /\ TakeToken(u) /\ UNCHANGED paused
           ELSE tell(Silent) /\ UNCHANGED bucket

\* saveConnectionSnapshots: the customers saved are the last checked.
Behind(S) == SelectSeq(order, LAMBDA c : c \notin S) \o SelectSeq(order, LAMBDA c : c \in S)
Before(S) == SelectSeq(order, LAMBDA c : c \in S) \o SelectSeq(order, LAMBDA c : c \notin S)
Save(r, S) ==
    /\ conn' = [c \in Customer |-> IF c \in S THEN reader[r].rows[c] ELSE conn[c]]
    /\ order' = Behind(S)
Worth(r) == {c \in DOMAIN reader[r].rows : reader[r].got[c] \in Says}

\* A building's page or a customer's, or a refresh of the rows that are due.
OpenPage(w, S, floor, fresh) ==
    /\ reader[w] = Off /\ Happens
    /\ Starts(w, S, floor, fresh)
    /\ UNCHANGED <<customers, bucket, cache, held>>
PageLookup(w, c) ==
    /\ c \in reader[w].todo
    /\ Cardinality(reader[w].await) < FanOut
    /\ IF tokens >= reader[w].floor THEN Lookup(w, c)
       ELSE reader' = [reader EXCEPT ![w].todo = @ \ {c}] /\ UNCHANGED bucket
    /\ UNCHANGED <<customers, cache, held, events>>
\* All answered, or the deadline passed: what is not answered is pending.
ClosePage(w) ==
    /\ reader[w] # Off
    /\ Save(w, Worth(w))
    /\ reader' = [reader EXCEPT ![w] = Off]
    /\ UNCHANGED <<username, overtaken, bucket, cache, held, events>>

\* A round of the refresher: rows without a Username are marked, and of the others
\* those checked longest ago are read, but for those held back.
StartRound ==
    LET free == {c \in Customer : username[c] # None /\ held[c] = 0}
        blank == {c \in Customer : username[c] = None /\ conn[c] # None}
        mine == SelectSeq(Behind(blank), LAMBDA c : c \in free)
        rows == {c \in free : \E i \in 1 .. PerRound : i <= Len(mine) /\ mine[i] = c}
    IN  /\ reader[Refresher] = Off /\ ~paused /\ tokens >= SyncFloor
        /\ held' = [c \in Customer |-> IF held[c] = 0 THEN 0 ELSE held[c] - 1]
        /\ conn' = [c \in Customer |-> IF c \in blank THEN None ELSE conn[c]]
        /\ order' = Behind(blank)
        /\ IF rows = {} THEN UNCHANGED reader ELSE Starts(Refresher, rows, SyncFloor, FALSE)
        /\ UNCHANGED <<username, overtaken, bucket, cache, events>>

RoundLookup(c) ==
    /\ reader[Refresher].await = {} /\ ~paused /\ tokens >= SyncFloor
    /\ Lookup(Refresher, c)
    /\ UNCHANGED <<customers, cache, held, events>>

\* Fault: only customers said not to be linked are held back.
ToHoldLinkedOnly(tried) == {c \in tried : reader[Refresher].got[c] = "not_linked"}
ToHold(tried) == {c \in tried : reader[Refresher].got[c] \in {Silent, "not_linked"}}

\* Of the rows it looked up, a round believes what is worth storing; but if every
\* answer was that the customer is not linked, none.
Tried == DOMAIN reader[Refresher].rows \ reader[Refresher].todo
Believed ==
    IF Cardinality(Tried) >= MassLimit /\ \A c \in Tried : reader[Refresher].got[c] = "not_linked"
    THEN {} ELSE Worth(Refresher)

\* The round is over, or gives way to the pages.
EndRound ==
    LET r == Refresher
    IN  /\ reader[r] # Off /\ reader[r].await = {}
        /\ reader[r].todo = {} \/ paused \/ tokens < SyncFloor
        /\ held' = [c \in Customer |-> IF c \in ToHold(Tried) THEN HoldRounds ELSE held[c]]
        /\ Save(r, Believed)
        /\ reader' = [reader EXCEPT ![r] = Off]
        /\ UNCHANGED <<username, overtaken, bucket, cache, events>>

----------------------------------------------------------------------------
\* Fault: the reading of the old Username stays.
ClearedNot(c) == conn
\* NO_CONNECTION: nothing is known of the customer's connection.
Cleared(c) == [conn EXCEPT ![c] = Unread]

\* updateCustomer, and an import, with another Username.
Rename(c, u) ==
    /\ u # username[c] /\ Happens
    /\ username' = [username EXCEPT ![c] = u]
    /\ conn' = Cleared(c) /\ order' = Before({c})
    /\ overtaken' = IF \E r \in Reader : c \in DOMAIN reader[r].rows THEN overtaken \cup {c} ELSE overtaken
    /\ UNCHANGED <<bucket, cache, reader, held>>

Init ==
    /\ username \in [Customer -> Username \cup {None}]
    /\ conn = [c \in Customer |-> Unread] /\ order \in SetToSeqs(Customer)
    /\ tokens = Burst /\ credit = Burst /\ paused = FALSE
    /\ cache = [u \in Username |-> None] /\ call = [k \in Call |-> None]
    /\ reader = [r \in Reader |-> Off] /\ held = [c \in Customer |-> 0]
    /\ overtaken = {} /\ events = 0

\* What a page asks for: a list, a customer, or a refresh of the rows that are due.
Request(w) ==
    \/ OpenPage(w, Touched, -MaxWait, FALSE)
    \/ \E c \in Touched : OpenPage(w, {c}, -MaxWait, FALSE)
    \/ \E due \in (SUBSET {c \in Touched : username[c] # None}) \ {{}}, fresh \in BOOLEAN :
           OpenPage(w, due, RefreshFloor, fresh)

Next ==
    \/ \E k \in Call : Wake(k) \/ Answer(k) \/ Refused(k)
    \/ Tick \/ PauseEnds \/ \E u \in Username : Expires(u)
    \/ FetchOlts \/ OltsAnswered
    \/ \E w \in Page : \/ Request(w)
                       \/ \E c \in Customer : PageLookup(w, c)
                       \/ ClosePage(w)
    \/ StartRound \/ EndRound \/ \E c \in Customer : RoundLookup(c)
    \/ \E c \in Touched, u \in Username \cup {None} : Rename(c, u)

\* Time passes, pauses end, the API answers or its call times out, and the
\* refresher's timer and its lookups go on.
Fairness ==
    /\ WF_vars(Tick) /\ WF_vars(PauseEnds) /\ WF_vars(OltsAnswered)
    /\ \A k \in Call : WF_vars(Wake(k)) /\ WF_vars(Answer(k))
    /\ WF_vars(StartRound) /\ WF_vars(EndRound) /\ WF_vars(\E c \in Customer : RoundLookup(c))
Spec == Init /\ [][Next]_vars /\ Fairness

----------------------------------------------------------------------------
(* Properties *)

\* Every call, whoever makes it and however long it waited, goes out within the
\* budget (in any time no more than Burst and one for each tick of it), and none
\* goes out during a pause.
BudgetIsKept ==
    [][\A k \in Call : (call[k] # Sent /\ call'[k] = Sent) => credit >= 1 /\ ~paused]_<<call, credit, paused>>

\* A stored reading is of the Username the customer has, unless the customer was
\* renamed while somebody read for them; such an overtaken reading is saved
\* over the cleared columns, and stays until the next.
ReadingIsOfUsername ==
    \A c \in Customer \ overtaken : conn[c] \in {Unread, username[c]}

\* The claim of the code itself, without the exception.
ReadingIsNeverOfOldUsername == \A c \in Customer : conn[c] \in {Unread, username[c]}

\* A round looks a row up and stores nothing of it.
RoundFails(c) == EndRound /\ c \in Tried \ Believed

\* Once pages and edits are quiet, the refresher comes to every customer with a
\* Username again and again, though up to HoldRounds of the others fail for ever:
\* they stay least recently checked, but are held back so long that a round, which
\* looks up one row at least, is left for the rest.  More of them may starve the
\* rest (as many as HoldRounds + 1 full rounds look up do): the first comes back
\* from its hold-back, still the oldest, before anybody behind them is read.
EveryoneIsChecked ==
    \A c \in Customer : \A failing \in SUBSET (Customer \ {c}) :
        Cardinality(failing) <= HoldRounds =>
            \/ []<><<RoundLookup(c)>>_vars \/ []<>(username[c] = None)
            \/ \E d \in Customer \ (failing \cup {c}) : []<><<RoundFails(d)>>_vars
=============================================================================
