------------------------- MODULE OltReadingsProofs -------------------------
(***************************************************************************)
(* What holds of OltReadings for any bucket, any pages and customers, and  *)
(* any number of calls that wait.                                          *)
(***************************************************************************)
EXTENDS OltReadings, TLAPS

-----------------------------------------------------------------------------
(* The inductive invariant.                                                *)

Waiting(k) == call[k] \in 0 .. MaxWait

\* The tokens never promise more than the budget has.  While calls wait there is
\* no token; the waits end one by one, and at the end of each there is budget.
BucketOK ==
    /\ tokens \in -MaxWait .. Burst /\ credit \in 0 .. Burst /\ paused \in BOOLEAN
    /\ call \in [Call -> {None, Sent} \cup 0 .. MaxWait]
    /\ tokens <= credit
    /\ \A k \in Call : Waiting(k) => call[k] <= -tokens
    /\ \A k, l \in Call : Waiting(k) /\ call[l] = call[k] => k = l
    /\ \A k \in Call : call[k] = 0 => credit >= 1

\* What a reader has read of a customer who was not renamed since.
ReadsRight(x, names, lost) ==
    \A c \in DOMAIN x.rows : c \notin lost => x.rows[c] = names[c]

ReadersOK ==
    /\ username \in [Customer -> Username \cup {None}]
    /\ conn \in [Customer -> Username \cup {None, Unread}]
    /\ overtaken \subseteq Customer
    /\ DOMAIN reader = Reader
    /\ \A r \in Reader : Reading(reader[r]) /\ ReadsRight(reader[r], username, overtaken)
    /\ ReadingIsOfUsername

RestOK ==
    /\ cache \in [Username -> Says \cup {None}]
    /\ held \in [Customer -> 0 .. HoldRounds]
    /\ events \in 0 .. MaxEvents

IInv == BucketOK /\ ReadersOK /\ RestOK

\* What BudgetIsKept asks of a step.
WithinBudget ==
    \A k \in Call : call[k] # Sent /\ call'[k] = Sent => credit >= 1 /\ ~paused

-----------------------------------------------------------------------------
(* The bucket.                                                             *)

LEMMA BucketInit == Init => BucketOK
<1> SUFFICES ASSUME Init PROVE BucketOK
  OBVIOUS
<1>0. None \notin 0 .. MaxWait /\ 0 \in 0 .. MaxWait
  BY OltReadingsAssumption
<1>1. \A k \in Call : call[k] = None /\ ~Waiting(k) /\ call[k] # 0
  BY <1>0 DEF Init, Waiting
<1>2. tokens \in -MaxWait .. Burst /\ credit \in 0 .. Burst /\ tokens <= credit /\ paused \in BOOLEAN
  <2>1. Burst \in Nat /\ MaxWait \in Nat
    BY OltReadingsAssumption
  <2>2. tokens = Burst /\ credit = Burst /\ paused = FALSE
    BY DEF Init
  <2>3. paused \in BOOLEAN
    BY <2>2
  <2>4. tokens \in -MaxWait .. Burst /\ credit \in 0 .. Burst /\ tokens <= credit
    BY <2>1, <2>2
  <2> QED
    BY <2>3, <2>4
<1>3. call \in [Call -> {None, Sent} \cup 0 .. MaxWait]
  BY DEF Init
<1>4. \A k, l \in Call : Waiting(k) /\ call[l] = call[k] => k = l
  BY <1>1
<1> QED
  BY <1>1, <1>2, <1>3, <1>4 DEF BucketOK

LEMMA BucketStands ==
    ASSUME BucketOK, UNCHANGED <<tokens, credit, call>>, paused' \in BOOLEAN
    PROVE  BucketOK' /\ WithinBudget
BY DEF BucketOK, WithinBudget, Waiting

\* A call that need not wait takes its token, and one that waits is the last.
LEMMA TakeTokenOK ==
    ASSUME BucketOK, NEW k \in Call, call[k] = None, MayCall, TakeToken(k), paused' = paused
    PROVE  BucketOK' /\ WithinBudget
<1>1. /\ tokens \in Int /\ credit \in Int /\ tokens \in -MaxWait .. Burst /\ credit \in 0 .. Burst
      /\ call \in [Call -> {None, Sent} \cup 0 .. MaxWait]
      /\ tokens <= credit /\ ~paused /\ Wait <= MaxWait /\ MaxWait \in Nat /\ Burst \in Nat
      /\ Sent \notin 0 .. MaxWait
  BY OltReadingsAssumption DEF BucketOK, MayCall
<1>2. CASE tokens >= 1
  <2>1. /\ tokens' = tokens - 1 /\ credit' = credit - 1
        /\ call' = [call EXCEPT ![k] = Sent]
    BY <1>1, <1>2 DEF TakeToken, Wait
  <2>2. \A l \in Call : ~Waiting(l)
    BY <1>1, <1>2 DEF BucketOK, Waiting
  <2>3. \A l \in Call : ~Waiting(l)' /\ call'[l] # 0
    BY <1>1, <2>1, <2>2 DEF Waiting
  <2>4. BucketOK'
    BY <1>1, <1>2, <2>1, <2>3 DEF BucketOK
  <2> QED
    BY <1>1, <1>2, <2>4 DEF WithinBudget
<1>3. CASE tokens < 1
  <2> DEFINE wait == 1 - tokens
  <2>0. Wait = wait /\ wait \in 1 .. MaxWait /\ Wait # 0
    BY <1>1, <1>3 DEF Wait
  <2>1. /\ tokens' = tokens - 1 /\ credit' = credit
        /\ call' = [call EXCEPT ![k] = 1 - tokens]
        /\ 1 - tokens \in 1 .. MaxWait
    BY <2>0 DEF TakeToken
  <2>2. \A l \in Call : l # k => call'[l] = call[l]
    BY <1>1, <2>1
  <2>3. call'[k] = -tokens' /\ \A l \in Call : Waiting(l) => call[l] < call'[k]
    BY <1>1, <2>1 DEF BucketOK, Waiting
  <2>4. call' \in [Call -> {None, Sent} \cup 0 .. MaxWait]
    BY <1>1, <2>1
  <2>5. \A l \in Call : Waiting(l)' => call'[l] <= -tokens'
    BY <1>1, <2>1, <2>2, <2>3 DEF Waiting
  <2>6. \A l, m \in Call : Waiting(l)' /\ call'[m] = call'[l] => l = m
    BY <1>1, <2>1, <2>2, <2>3 DEF BucketOK, Waiting
  <2>7. \A l \in Call : call'[l] = 0 => credit' >= 1
    BY <1>1, <2>1, <2>2 DEF BucketOK
  <2>8. WithinBudget
    BY <1>1, <2>1, <2>2 DEF WithinBudget
  <2> QED
    BY <1>1, <2>1, <2>4, <2>5, <2>6, <2>7, <2>8 DEF BucketOK
<1> QED
  BY <1>1, <1>2, <1>3

LEMMA WakeOK ==
    ASSUME BucketOK, NEW k \in Call, Wake(k)
    PROVE  BucketOK' /\ WithinBudget
<1>1. /\ tokens \in Int /\ credit \in 0 .. Burst /\ Burst \in Nat /\ tokens <= credit
      /\ call \in [Call -> {None, Sent} \cup 0 .. MaxWait]
      /\ call[k] = 0 /\ tokens' = tokens /\ paused' = paused /\ paused \in BOOLEAN
      /\ MaxWait \in Nat /\ \A state \in {None, Sent} : state \notin 0 .. MaxWait
  BY OltReadingsAssumption DEF BucketOK, Wake
<1>2. credit >= 1 /\ tokens <= 0 /\ \A l \in Call : l # k => call[l] # 0
  BY <1>1 DEF BucketOK, Waiting
<1>3. PICK state \in {None, Sent} :
        /\ call' = [call EXCEPT ![k] = state]
        /\ \/ state = None /\ credit' = credit
           \/ state = Sent /\ ~paused /\ credit' = credit - 1
  <2>1. CASE paused
    BY <2>1 DEF Wake
  <2>2. CASE ~paused
    BY <2>2 DEF Wake
  <2> QED
    BY <2>1, <2>2
<1>4. /\ call'[k] = state /\ ~Waiting(k)' /\ \A l \in Call : l # k => call'[l] = call[l]
      /\ call' \in [Call -> {None, Sent} \cup 0 .. MaxWait]
  BY <1>1, <1>3 DEF Waiting
<1>5. credit' \in 0 .. Burst /\ tokens' <= credit'
  BY <1>1, <1>2, <1>3
<1>6. \A l \in Call : Waiting(l)' => call'[l] <= -tokens'
  BY <1>1, <1>4 DEF BucketOK, Waiting
<1>7. \A l, m \in Call : Waiting(l)' /\ call'[m] = call'[l] => l = m
  BY <1>1, <1>4 DEF BucketOK, Waiting
<1>8. \A l \in Call : call'[l] # 0
  BY <1>1, <1>2, <1>4 DEF Waiting
<1>9. WithinBudget
  BY <1>2, <1>3, <1>4, OltReadingsAssumption DEF WithinBudget
<1> QED
  BY <1>1, <1>4, <1>5, <1>6, <1>7, <1>8, <1>9 DEF BucketOK

\* A call that has been answered waits no longer, and a 429 leaves no token.
LEMMA AnsweredOK ==
    ASSUME BucketOK, NEW k \in Call, Answered(k),
           tokens' = tokens \/ tokens' = (IF tokens > 0 THEN 0 ELSE tokens),
           credit' = credit, paused' \in BOOLEAN
    PROVE  BucketOK' /\ WithinBudget
<1>1. /\ tokens \in Int /\ credit \in 0 .. Burst /\ Burst \in Nat /\ tokens <= credit
      /\ tokens \in -MaxWait .. Burst
      /\ call \in [Call -> {None, Sent} \cup 0 .. MaxWait]
      /\ call' = [call EXCEPT ![k] = None]
      /\ MaxWait \in Nat /\ None \notin 0 .. MaxWait /\ None # Sent
  BY OltReadingsAssumption DEF BucketOK, Answered
<1>2. /\ call'[k] = None /\ ~Waiting(k)' /\ \A l \in Call : l # k => call'[l] = call[l]
      /\ call' \in [Call -> {None, Sent} \cup 0 .. MaxWait]
      /\ call'[k] # 0
  BY <1>1 DEF Waiting
<1>3. tokens' \in -MaxWait .. Burst /\ tokens' <= tokens /\ tokens' <= credit'
  BY <1>1
<1>4. \A l \in Call : Waiting(l)' => call'[l] <= -tokens'
  BY <1>1, <1>2, <1>3 DEF BucketOK, Waiting
<1>5. \A l, m \in Call : Waiting(l)' /\ call'[m] = call'[l] => l = m
  BY <1>1, <1>2 DEF BucketOK, Waiting
<1>6. \A l \in Call : call'[l] = 0 => credit' >= 1
  BY <1>1, <1>2 DEF BucketOK
<1>7. WithinBudget
  BY <1>1, <1>2 DEF WithinBudget
<1> QED
  BY <1>1, <1>2, <1>3, <1>4, <1>5, <1>6, <1>7 DEF BucketOK

\* Time brings the waiting calls nearer, and a token or none to the bucket.
LEMMA TickOK ==
    ASSUME BucketOK, Tick
    PROVE  BucketOK' /\ WithinBudget
<1>1. /\ tokens \in -MaxWait .. Burst /\ credit \in 0 .. Burst /\ Burst \in Nat \ {0} /\ tokens <= credit
      /\ call \in [Call -> {None, Sent} \cup 0 .. MaxWait]
      /\ MaxWait \in Nat /\ \A state \in {None, Sent} : state \notin 0 .. MaxWait
      /\ \A k \in Call : call[k] # 0
  BY OltReadingsAssumption DEF BucketOK, Tick
<1>2. /\ tokens' = tokens \/ (tokens < Burst /\ tokens' = tokens + 1)
      /\ credit' = IF credit = Burst THEN credit ELSE credit + 1
      /\ paused' = paused
  <2>1. CASE paused \/ tokens = Burst
    BY <2>1 DEF Tick
  <2>2. CASE ~(paused \/ tokens = Burst)
    BY <1>1, <2>2 DEF Tick
  <2> QED
    BY <2>1, <2>2
<1>3. tokens' \in -MaxWait .. Burst /\ credit' \in 1 .. Burst /\ tokens' <= credit'
  BY <1>1, <1>2
<1>4. ASSUME NEW k \in Call
      PROVE  IF Waiting(k) THEN call'[k] = call[k] - 1 /\ call'[k] \in 0 .. MaxWait
             ELSE call'[k] = call[k] /\ call[k] \in {None, Sent}
  BY <1>1 DEF Tick, Waiting
<1>5. /\ \A k \in Call : Waiting(k)' <=> Waiting(k)
      /\ call' \in [Call -> {None, Sent} \cup 0 .. MaxWait]
  BY <1>1, <1>4 DEF Tick, Waiting
<1>6. \A k \in Call : Waiting(k)' => call'[k] <= -tokens'
  <2> SUFFICES ASSUME NEW k \in Call, Waiting(k)' PROVE call'[k] <= -tokens'
    OBVIOUS
  <2>1. Waiting(k) /\ call'[k] = call[k] - 1 /\ call[k] <= -tokens /\ call[k] \in Int
    BY <1>4, <1>5 DEF BucketOK, Waiting
  <2> QED
    BY <1>1, <1>2, <2>1
<1>7. \A k, l \in Call : Waiting(k)' /\ call'[l] = call'[k] => k = l
  <2> SUFFICES ASSUME NEW k \in Call, NEW l \in Call, Waiting(k)', call'[l] = call'[k] PROVE k = l
    OBVIOUS
  <2>1. Waiting(k) /\ Waiting(l)
    BY <1>5 DEF Waiting
  <2>2. call[k] = call[l]
    BY <1>4, <2>1 DEF Waiting
  <2> QED
    BY <2>1, <2>2 DEF BucketOK
<1>8. WithinBudget
  BY <1>1, <1>4, <1>5 DEF WithinBudget, Waiting
<1> QED
  BY <1>1, <1>2, <1>3, <1>5, <1>6, <1>7, <1>8 DEF BucketOK

-----------------------------------------------------------------------------
(* The readers.                                                            *)

LEMMA ReadingIs ==
    ASSUME NEW x, Reading(x)
    PROVE  /\ x = [rows |-> x.rows, todo |-> x.todo, await |-> x.await,
                   got |-> x.got, floor |-> x.floor, fresh |-> x.fresh]
           /\ x.rows \in [DOMAIN x.rows -> Username \cup {None}] /\ DOMAIN x.rows \subseteq Customer
           /\ x.got \in [DOMAIN x.rows -> Says \cup {Silent}]
           /\ x.todo \subseteq DOMAIN x.rows /\ x.await \subseteq DOMAIN x.rows
           /\ x.floor \in Int /\ x.fresh \in BOOLEAN
BY DEF Reading

\* A reading made of its parts.
LEMMA IsReading ==
    ASSUME NEW S \in SUBSET Customer, NEW rows \in [S -> Username \cup {None}],
           NEW todo \in SUBSET S, NEW await \in SUBSET S, NEW got \in [S -> Says \cup {Silent}],
           NEW floor \in Int, NEW fresh \in BOOLEAN
    PROVE  Reading([rows |-> rows, todo |-> todo, await |-> await, got |-> got, floor |-> floor, fresh |-> fresh])
<1>1. /\ rows \in UNION {[T -> Username \cup {None}] : T \in SUBSET Customer}
      /\ got \in UNION {[T -> Says \cup {Silent}] : T \in SUBSET Customer}
  OBVIOUS
<1>2. DOMAIN rows = S /\ DOMAIN got = S
  OBVIOUS
<1> QED
  BY <1>1, <1>2 DEF Reading

LEMMA OffOK ==
    /\ Reading(Off)
    /\ \A names, lost : ReadsRight(Off, names, lost)
<1>1. << >> \in [{} -> Username \cup {None}] /\ << >> \in [{} -> Says \cup {Silent}]
  OBVIOUS
<1>2. {} \in SUBSET Customer /\ {} \in SUBSET {} /\ 0 \in Int /\ FALSE \in BOOLEAN
  OBVIOUS
<1>3. Reading(Off)
  BY <1>1, <1>2, IsReading DEF Off
<1>4. DOMAIN Off.rows = {}
  BY DEF Off
<1> QED
  BY <1>3, <1>4 DEF ReadsRight

\* One reader goes on, and the stored readings are as right as they were.
LEMMA OneReader ==
    ASSUME ReadersOK, NEW r \in Reader, NEW x, Reading(x), ReadsRight(x, username, overtaken),
           DOMAIN reader' = Reader, reader'[r] = x, \A q \in Reader : q # r => reader'[q] = reader[q],
           UNCHANGED <<username, overtaken>>,
           conn' \in [Customer -> Username \cup {None, Unread}], ReadingIsOfUsername'
    PROVE  ReadersOK'
BY DEF ReadersOK

LEMMA ReadersStand ==
    ASSUME ReadersOK, UNCHANGED <<username, conn, overtaken, reader>>
    PROVE  ReadersOK'
BY DEF ReadersOK, ReadingIsOfUsername

LEMMA TellOK ==
    ASSUME ReadersOK, NEW u, NEW answer \in Says \cup {Silent}, Tell(u, answer),
           UNCHANGED <<username, conn, overtaken>>
    PROVE  ReadersOK'
<1>1. DOMAIN reader' = Reader
  BY DEF Tell
<1>2. ASSUME NEW r \in Reader
      PROVE  Reading(reader'[r]) /\ ReadsRight(reader'[r], username, overtaken)
  <2> DEFINE x == reader[r]
             mine == {c \in x.await : x.rows[c] = u}
             got == [c \in DOMAIN x.got |-> IF c \in mine THEN answer ELSE x.got[c]]
  <2>1. Reading(x) /\ ReadsRight(x, username, overtaken)
    BY <1>2 DEF ReadersOK
  <2>2. reader'[r] = [x EXCEPT !.await = @ \ mine,
                               !.got = [c \in DOMAIN @ |-> IF c \in mine THEN answer ELSE @[c]]]
    BY <1>2 DEF Tell
  <2> HIDE DEF x
  <2>3. reader'[r] = [rows |-> x.rows, todo |-> x.todo, await |-> x.await \ mine,
                      got |-> got, floor |-> x.floor, fresh |-> x.fresh]
    BY <2>1, <2>2, ReadingIs
  <2>4. got \in [DOMAIN x.rows -> Says \cup {Silent}]
    BY <2>1, ReadingIs
  <2> HIDE DEF got, mine
  <2>5. Reading(reader'[r])
    BY <2>1, <2>3, <2>4, ReadingIs, IsReading
  <2> QED
    BY <2>1, <2>3, <2>5 DEF ReadsRight
<1>3. ReadingIsOfUsername'
  BY DEF ReadersOK, ReadingIsOfUsername
<1> QED
  BY <1>1, <1>2, <1>3 DEF ReadersOK

LEMMA Updates ==
    ASSUME NEW x, Reading(x), NEW c \in x.todo, NEW answer \in Says \cup {Silent}
    PROVE  /\ Reading(Told(x, c, answer)) /\ Told(x, c, answer).rows = x.rows
           /\ Reading(Awaits(x, c)) /\ Awaits(x, c).rows = x.rows
<1>1. ASSUME NEW y, y = Awaits(x, c) PROVE Reading(y) /\ y.rows = x.rows
  <2>1. y = [rows |-> x.rows, todo |-> x.todo \ {c}, await |-> x.await \cup {c},
             got |-> x.got, floor |-> x.floor, fresh |-> x.fresh]
    BY <1>1 DEF Awaits, Reading
  <2> QED
    BY <2>1, ReadingIs, IsReading
<1>2. ASSUME NEW y, y = Told(x, c, answer) PROVE Reading(y) /\ y.rows = x.rows
  <2> DEFINE got == [x.got EXCEPT ![c] = answer]
  <2>1. y = [rows |-> x.rows, todo |-> x.todo \ {c}, await |-> x.await,
             got |-> got, floor |-> x.floor, fresh |-> x.fresh]
    BY <1>2 DEF Told, Reading
  <2> QED
    BY <2>1, ReadingIs, IsReading
<1> QED
  BY <1>1, <1>2

\* A reader that is answered for one row, or awaits the answer for it.
LEMMA LookupOK ==
    ASSUME ReadersOK, cache \in [Username -> Says \cup {None}], NEW r \in Reader, NEW c, Lookup(r, c),
           UNCHANGED <<username, conn, overtaken>>
    PROVE  ReadersOK'
<1> DEFINE x == reader[r]
           u == x.rows[c]
<1>1. Reading(x) /\ ReadsRight(x, username, overtaken) /\ DOMAIN reader = Reader
  BY DEF ReadersOK
<1>2. c \in x.todo /\ c \in DOMAIN x.rows /\ u \in Username \cup {None}
  BY <1>1, ReadingIs DEF Lookup
<1>3. \/ reader' = [reader EXCEPT ![r] = Awaits(@, c)]
      \/ \E answer \in Says \cup {Silent} : reader' = [reader EXCEPT ![r] = Told(@, c, answer)]
  <2>1. u # None /\ cache[u] # None => cache[u] \in Says
    BY <1>2
  <2>2. "no_username" \in Says
    BY DEF Says
  <2> QED
    BY <2>1, <2>2 DEF Lookup
<1>4. PICK y : /\ reader' = [reader EXCEPT ![r] = y]
               /\ y = Awaits(x, c) \/ \E answer \in Says \cup {Silent} : y = Told(x, c, answer)
  BY <1>3
<1>5. Reading(y) /\ y.rows = x.rows
  BY <1>1, <1>2, <1>4, Updates DEF Says
<1>6. ReadsRight(y, username, overtaken)
  BY <1>1, <1>5 DEF ReadsRight
<1>7. DOMAIN reader' = Reader /\ reader'[r] = y /\ \A q \in Reader : q # r => reader'[q] = reader[q]
  BY <1>1, <1>4
<1> QED
  BY <1>5, <1>6, <1>7, OneReader DEF ReadersOK, ReadingIsOfUsername

\* A reader starts with what the rows say.
LEMMA StartsOK ==
    ASSUME ReadersOK, NEW r \in Reader, NEW S \in SUBSET Customer, NEW floor \in Int, NEW fresh \in BOOLEAN,
           Starts(r, S, floor, fresh), UNCHANGED <<username, overtaken>>,
           conn' \in [Customer -> Username \cup {None, Unread}], ReadingIsOfUsername'
    PROVE  ReadersOK'
<1> DEFINE rows == [c \in S |-> username[c]]
           got == [c \in S |-> Silent]
           x == [rows |-> rows, todo |-> S, await |-> {}, got |-> got, floor |-> floor, fresh |-> fresh]
<1>1. rows \in [S -> Username \cup {None}] /\ got \in [S -> Says \cup {Silent}]
  BY DEF ReadersOK
<1>2. Reading(x)
  <2>1. S \in SUBSET S /\ {} \in SUBSET S
    OBVIOUS
  <2> HIDE DEF rows, got
  <2> QED
    BY <1>1, <2>1, IsReading
<1>3. ReadsRight(x, username, overtaken)
  BY DEF ReadsRight
<1>4. reader' = [reader EXCEPT ![r] = x] /\ DOMAIN reader = Reader
  BY DEF Starts, ReadersOK
<1> HIDE DEF x
<1>5. DOMAIN reader' = Reader /\ reader'[r] = x /\ \A q \in Reader : q # r => reader'[q] = reader[q]
  BY <1>4
<1> QED
  BY <1>2, <1>3, <1>5, OneReader

\* What a reader saves is of the Username its row had, so of the customer's
\* unless they were renamed; then it is done.
LEMMA SaveOK ==
    ASSUME ReadersOK, NEW r \in Reader, NEW S \in SUBSET Worth(r), Save(r, S),
           reader' = [reader EXCEPT ![r] = Off], UNCHANGED <<username, overtaken>>
    PROVE  ReadersOK'
<1> DEFINE x == reader[r]
<1>1. Reading(x) /\ ReadsRight(x, username, overtaken) /\ DOMAIN reader = Reader
  BY DEF ReadersOK
<1>2. /\ S \subseteq DOMAIN x.rows
      /\ \A c \in S : x.rows[c] \in Username \cup {None}
      /\ \A c \in S : c \notin overtaken => x.rows[c] = username[c]
  BY <1>1, ReadingIs DEF Worth, ReadsRight
<1>3. conn' = [c \in Customer |-> IF c \in S THEN x.rows[c] ELSE conn[c]]
  BY DEF Save
<1> HIDE DEF x
<1>4. conn' \in [Customer -> Username \cup {None, Unread}]
  BY <1>2, <1>3 DEF ReadersOK
<1>5. ReadingIsOfUsername'
  BY <1>2, <1>3 DEF ReadersOK, ReadingIsOfUsername
<1>6. DOMAIN reader' = Reader /\ reader'[r] = Off /\ \A q \in Reader : q # r => reader'[q] = reader[q]
  BY <1>1
<1> QED
  BY <1>4, <1>5, <1>6, OffOK, OneReader

LEMMA RenameOK ==
    ASSUME ReadersOK, NEW c \in Customer, NEW u \in Username \cup {None}, Rename(c, u)
    PROVE  ReadersOK'
<1>1. /\ username' = [username EXCEPT ![c] = u] /\ conn' = [conn EXCEPT ![c] = Unread]
      /\ reader' = reader
      /\ overtaken' = IF \E r \in Reader : c \in DOMAIN reader[r].rows THEN overtaken \cup {c} ELSE overtaken
  BY DEF Rename, Cleared
<1>2. /\ username \in [Customer -> Username \cup {None}] /\ conn \in [Customer -> Username \cup {None, Unread}]
      /\ overtaken \subseteq Customer
  BY DEF ReadersOK
<1>3. overtaken \subseteq overtaken' /\ overtaken' \subseteq Customer
  BY <1>1, <1>2
<1>4. /\ username' \in [Customer -> Username \cup {None}] /\ conn' \in [Customer -> Username \cup {None, Unread}]
      /\ \A d \in Customer : d # c => username'[d] = username[d] /\ conn'[d] = conn[d]
      /\ conn'[c] = Unread
  BY <1>1, <1>2
<1>5. ASSUME NEW r \in Reader
      PROVE  Reading(reader'[r]) /\ ReadsRight(reader'[r], username', overtaken')
  <2>1. Reading(reader[r]) /\ ReadsRight(reader[r], username, overtaken) /\ reader'[r] = reader[r]
    BY <1>1 DEF ReadersOK
  <2>2. c \in DOMAIN reader[r].rows => c \in overtaken'
    BY <1>1
  <2>3. DOMAIN reader[r].rows \subseteq Customer
    BY <2>1, ReadingIs
  <2> QED
    BY <1>3, <1>4, <2>1, <2>2, <2>3 DEF ReadsRight
<1>6. ReadingIsOfUsername'
  BY <1>3, <1>4 DEF ReadersOK, ReadingIsOfUsername
<1> QED
  BY <1>1, <1>3, <1>4, <1>5, <1>6 DEF ReadersOK

-----------------------------------------------------------------------------
(* The steps.                                                              *)

\* The two things proved of a step.
StepOK == IInv' /\ WithinBudget

LEMMA InitOK == Init => IInv
<1> SUFFICES ASSUME Init PROVE IInv
  OBVIOUS
<1>1. BucketOK
  BY BucketInit
<1>2. ReadersOK
  <2>1. /\ username \in [Customer -> Username \cup {None}]
        /\ conn = [c \in Customer |-> Unread] /\ reader = [r \in Reader |-> Off] /\ overtaken = {}
    BY DEF Init
  <2> QED
    BY <2>1, OffOK DEF ReadersOK, ReadingIsOfUsername
<1>3. RestOK
  <2>1. cache = [u \in Username |-> None] /\ held = [c \in Customer |-> 0] /\ events = 0
    BY DEF Init
  <2> QED
    BY <2>1, OltReadingsAssumption DEF RestOK
<1> QED
  BY <1>1, <1>2, <1>3 DEF IInv

LEMMA WakeStep ==
    ASSUME IInv, NEW k \in Call, Wake(k)
    PROVE  StepOK
<1>1. BucketOK' /\ WithinBudget
  BY WakeOK DEF IInv
<1>2. ReadersOK'
  <2>1. UNCHANGED <<username, conn, overtaken>> /\ (UNCHANGED reader \/ Tell(k, Silent))
    <3>1. CASE paused
      BY <3>1 DEF Wake, customers
    <3>2. CASE ~paused
      BY <3>2 DEF Wake, customers
    <3> QED
      BY <3>1, <3>2
  <2> QED
    BY <2>1, ReadersStand, TellOK DEF IInv
<1>3. RestOK'
  BY DEF Wake, IInv, RestOK
<1> QED
  BY <1>1, <1>2, <1>3 DEF StepOK, IInv

LEMMA AnswerStep ==
    ASSUME IInv, NEW k \in Call, Answer(k)
    PROVE  StepOK
<1>1. PICK answer \in {"online", "not_linked", Silent} :
        /\ k \in Username /\ Answered(k) /\ Tell(k, answer)
        /\ cache' = IF answer \in Says THEN [cache EXCEPT ![k] = answer] ELSE cache
        /\ UNCHANGED <<customers, tokens, paused, credit, held, events>>
  BY DEF Answer
<1>2. BucketOK' /\ WithinBudget
  <2>1. paused \in BOOLEAN /\ BucketOK
    BY DEF IInv, BucketOK
  <2> QED
    BY <1>1, <2>1, AnsweredOK
<1>3. ReadersOK'
  BY <1>1, TellOK DEF IInv, customers, Says
<1>4. RestOK'
  BY <1>1 DEF IInv, RestOK
<1> QED
  BY <1>2, <1>3, <1>4 DEF StepOK, IInv

LEMMA EventOK == RestOK /\ Happens => events' \in 0 .. MaxEvents
BY OltReadingsAssumption DEF RestOK, Happens

LEMMA RefusedStep ==
    ASSUME IInv, NEW k \in Call, Refused(k)
    PROVE  StepOK
<1>1. /\ Answered(k) /\ paused' = TRUE /\ tokens' = IF tokens > 0 THEN 0 ELSE tokens
      /\ Tell(k, Silent) /\ UNCHANGED <<customers, cache, credit, held>> /\ Happens
  BY DEF Refused
<1>2. BucketOK' /\ WithinBudget
  BY <1>1, AnsweredOK DEF IInv
<1>3. ReadersOK'
  BY <1>1, TellOK DEF IInv, customers
<1>4. RestOK'
  BY <1>1, EventOK DEF IInv, RestOK
<1> QED
  BY <1>2, <1>3, <1>4 DEF StepOK, IInv

LEMMA TickStep ==
    ASSUME IInv, Tick
    PROVE  StepOK
<1>1. BucketOK' /\ WithinBudget
  BY TickOK DEF IInv
<1>2. ReadersOK'
  BY ReadersStand DEF Tick, IInv, customers
<1>3. RestOK'
  BY DEF Tick, IInv, RestOK
<1> QED
  BY <1>1, <1>2, <1>3 DEF StepOK, IInv

LEMMA PauseEndsStep ==
    ASSUME IInv, PauseEnds
    PROVE  StepOK
<1>1. BucketOK' /\ WithinBudget
  BY BucketStands DEF PauseEnds, IInv
<1>2. ReadersOK'
  BY ReadersStand DEF PauseEnds, IInv, customers
<1>3. RestOK'
  BY DEF PauseEnds, IInv, RestOK
<1> QED
  BY <1>1, <1>2, <1>3 DEF StepOK, IInv

LEMMA BucketUntouched == BucketOK /\ UNCHANGED bucket => BucketOK' /\ WithinBudget
<1> SUFFICES ASSUME BucketOK, UNCHANGED bucket PROVE BucketOK' /\ WithinBudget
  OBVIOUS
<1>1. UNCHANGED <<tokens, paused, call, credit>> /\ paused \in BOOLEAN
  BY DEF bucket, BucketOK
<1> QED
  BY <1>1, BucketStands

LEMMA ExpiresStep ==
    ASSUME IInv, NEW u \in Username, Expires(u)
    PROVE  StepOK
<1>1. BucketOK' /\ WithinBudget
  BY BucketUntouched DEF Expires, IInv
<1>2. ReadersOK'
  BY ReadersStand DEF Expires, IInv, customers
<1>3. RestOK'
  BY DEF Expires, IInv, RestOK
<1> QED
  BY <1>1, <1>2, <1>3 DEF StepOK, IInv

LEMMA FetchOltsStep ==
    ASSUME IInv, FetchOlts
    PROVE  StepOK
<1>1. BucketOK' /\ WithinBudget
  <2>1. call[Olts] = None /\ Olts \in Call
    BY DEF FetchOlts, Call
  <2>2. UNCHANGED bucket \/ (MayCall /\ TakeToken(Olts) /\ UNCHANGED paused)
    BY DEF FetchOlts
  <2> QED
    BY <2>1, <2>2, BucketUntouched, TakeTokenOK DEF IInv
<1>2. ReadersOK'
  BY ReadersStand DEF FetchOlts, IInv, customers
<1>3. RestOK'
  BY EventOK DEF FetchOlts, IInv, RestOK
<1> QED
  BY <1>1, <1>2, <1>3 DEF StepOK, IInv

LEMMA OltsAnsweredStep ==
    ASSUME IInv, OltsAnswered
    PROVE  StepOK
<1>1. BucketOK' /\ WithinBudget
  <2>1. Olts \in Call /\ paused \in BOOLEAN /\ BucketOK
    BY DEF Call, IInv, BucketOK
  <2> QED
    BY <2>1, AnsweredOK DEF OltsAnswered
<1>2. ReadersOK'
  BY ReadersStand DEF OltsAnswered, IInv, customers
<1>3. RestOK'
  BY DEF OltsAnswered, IInv, RestOK
<1> QED
  BY <1>1, <1>2, <1>3 DEF StepOK, IInv

\* A lookup, of a page or of the refresher, takes a token at most.
LEMMA LookupStep ==
    ASSUME IInv, NEW r \in Reader, NEW c, Lookup(r, c), UNCHANGED <<customers, cache, held, events>>
    PROVE  StepOK
<1> DEFINE u == reader[r].rows[c]
<1>1. BucketOK' /\ WithinBudget
  <2>1. UNCHANGED bucket
        \/ (call[u] = None /\ u # None /\ MayCall /\ TakeToken(u) /\ UNCHANGED paused)
    BY DEF Lookup
  <2>2. Reading(reader[r]) /\ c \in reader[r].todo
    BY DEF Lookup, IInv, ReadersOK
  <2>3. u # None => u \in Call
    BY <2>2, ReadingIs DEF Call
  <2> QED
    BY <2>1, <2>3, BucketUntouched, TakeTokenOK DEF IInv
<1>2. ReadersOK'
  BY LookupOK DEF IInv, RestOK, customers
<1>3. RestOK'
  BY DEF IInv, RestOK
<1> QED
  BY <1>1, <1>2, <1>3 DEF StepOK, IInv

LEMMA PageAndRefresher == Page \subseteq Reader /\ Refresher \in Reader
BY DEF Reader

LEMMA OpenPageStep ==
    ASSUME IInv, NEW w \in Page, NEW S \in SUBSET Customer, NEW floor \in Int,
           NEW fresh \in BOOLEAN, OpenPage(w, S, floor, fresh)
    PROVE  StepOK
<1>1. BucketOK' /\ WithinBudget
  BY BucketUntouched DEF OpenPage, IInv
<1>2. ReadersOK'
  <2>1. Starts(w, S, floor, fresh) /\ UNCHANGED customers /\ ReadersOK
    BY DEF OpenPage, IInv
  <2>2. /\ UNCHANGED <<username, overtaken>> /\ ReadingIsOfUsername'
        /\ conn' \in [Customer -> Username \cup {None, Unread}]
    BY <2>1 DEF customers, ReadersOK, ReadingIsOfUsername
  <2> QED
    BY <2>1, <2>2, StartsOK, PageAndRefresher
<1>3. RestOK'
  BY EventOK DEF OpenPage, IInv, RestOK
<1> QED
  BY <1>1, <1>2, <1>3 DEF StepOK, IInv

LEMMA RequestStep ==
    ASSUME IInv, NEW w \in Page, Request(w)
    PROVE  StepOK
<1>1. -MaxWait \in Int /\ RefreshFloor \in Int /\ Touched \in SUBSET Customer
  BY OltReadingsAssumption
<1>2. CASE OpenPage(w, Touched, -MaxWait, FALSE)
  BY <1>1, <1>2, OpenPageStep
<1>3. ASSUME NEW c \in Touched, OpenPage(w, {c}, -MaxWait, FALSE)
      PROVE  StepOK
  <2>1. {c} \in SUBSET Customer
    BY <1>1
  <2> QED
    BY <1>1, <1>3, <2>1, OpenPageStep
<1>4. ASSUME NEW due \in (SUBSET {c \in Touched : username[c] # None}) \ {{}}, NEW fresh \in BOOLEAN,
             OpenPage(w, due, RefreshFloor, fresh)
      PROVE  StepOK
  <2>1. due \in SUBSET Customer
    BY <1>1
  <2> QED
    BY <1>1, <1>4, <2>1, OpenPageStep
<1> QED
  BY <1>2, <1>3, <1>4 DEF Request

LEMMA PageLookupStep ==
    ASSUME IInv, NEW w \in Page, NEW c, PageLookup(w, c)
    PROVE  StepOK
<1>1. w \in Reader
  BY PageAndRefresher
<1>2. CASE tokens >= reader[w].floor
  BY <1>1, <1>2, LookupStep DEF PageLookup
<1>3. CASE ~(tokens >= reader[w].floor)
  <2> DEFINE x == reader[w]
  <2>1. Reading(x) /\ ReadsRight(x, username, overtaken) /\ DOMAIN reader = Reader /\ ReadersOK
    BY <1>1 DEF IInv, ReadersOK
  <2>2. /\ reader' = [reader EXCEPT ![w].todo = @ \ {c}]
        /\ UNCHANGED <<customers, bucket, cache, held, events>>
    BY <1>3 DEF PageLookup, bucket
  <2>3. PICK y : y = [x EXCEPT !.todo = @ \ {c}]
    OBVIOUS
  <2>4. DOMAIN reader' = Reader /\ reader'[w] = y /\ \A q \in Reader : q # w => reader'[q] = reader[q]
    BY <1>1, <2>1, <2>2, <2>3
  <2> HIDE DEF x
  <2>5. y = [rows |-> x.rows, todo |-> x.todo \ {c}, await |-> x.await,
             got |-> x.got, floor |-> x.floor, fresh |-> x.fresh]
    BY <2>1, <2>3 DEF Reading
  <2>6. Reading(y) /\ y.rows = x.rows
    BY <2>1, <2>5, ReadingIs, IsReading
  <2>7. ReadsRight(y, username, overtaken)
    BY <2>1, <2>6 DEF ReadsRight
  <2>8. /\ UNCHANGED <<username, conn, overtaken>>
        /\ conn \in [Customer -> Username \cup {None, Unread}] /\ ReadingIsOfUsername
    BY <2>1, <2>2 DEF customers, ReadersOK
  <2>9. ReadersOK'
    BY <1>1, <2>1, <2>4, <2>6, <2>7, <2>8, OneReader DEF ReadingIsOfUsername
  <2>10. BucketOK' /\ WithinBudget
    BY <2>2, BucketUntouched DEF IInv
  <2>11. RestOK'
    BY <2>2 DEF IInv, RestOK
  <2> QED
    BY <2>9, <2>10, <2>11 DEF StepOK, IInv
<1> QED
  BY <1>2, <1>3

LEMMA ClosePageStep ==
    ASSUME IInv, NEW w \in Page, ClosePage(w)
    PROVE  StepOK
<1>1. BucketOK' /\ WithinBudget
  BY BucketUntouched DEF ClosePage, IInv
<1>2. ReadersOK'
  <2>1. /\ Save(w, Worth(w)) /\ reader' = [reader EXCEPT ![w] = Off]
        /\ UNCHANGED <<username, overtaken>> /\ ReadersOK
    BY DEF ClosePage, IInv
  <2>2. Worth(w) \in SUBSET Worth(w)
    OBVIOUS
  <2> QED
    BY <2>1, <2>2, SaveOK, PageAndRefresher
<1>3. RestOK'
  BY DEF ClosePage, IInv, RestOK
<1> QED
  BY <1>1, <1>2, <1>3 DEF StepOK, IInv

LEMMA StartRoundStep ==
    ASSUME IInv, StartRound
    PROVE  StepOK
<1> DEFINE blank == {c \in Customer : username[c] = None /\ conn[c] # None}
           free == {c \in Customer : username[c] # None /\ held[c] = 0}
           mine == SelectSeq(Behind(blank), LAMBDA c : c \in free)
           rows == {c \in free : \E i \in 1 .. PerRound : i <= Len(mine) /\ mine[i] = c}
<1>1. /\ held' = [c \in Customer |-> IF held[c] = 0 THEN 0 ELSE held[c] - 1]
      /\ conn' = [c \in Customer |-> IF c \in blank THEN None ELSE conn[c]]
      /\ UNCHANGED reader \/ Starts(Refresher, rows, SyncFloor, FALSE)
      /\ UNCHANGED <<username, overtaken, bucket, cache, events>>
  BY DEF StartRound
<1>2. rows \in SUBSET Customer
  OBVIOUS
<1> HIDE DEF rows
<1>3. BucketOK' /\ WithinBudget
  BY <1>1, BucketUntouched DEF IInv
<1>4. conn' \in [Customer -> Username \cup {None, Unread}] /\ ReadingIsOfUsername'
  BY <1>1 DEF IInv, ReadersOK, ReadingIsOfUsername
<1>5. ReadersOK'
  <2>1. CASE UNCHANGED reader
    BY <1>1, <1>4, <2>1 DEF IInv, ReadersOK
  <2>2. CASE Starts(Refresher, rows, SyncFloor, FALSE)
    <3>1. SyncFloor \in Int /\ FALSE \in BOOLEAN /\ ReadersOK
      BY OltReadingsAssumption DEF IInv
    <3> QED
      BY <1>1, <1>2, <1>4, <2>2, <3>1, StartsOK, PageAndRefresher
  <2> QED
    BY <1>1, <2>1, <2>2
<1>6. RestOK'
  <2>1. ASSUME NEW c \in Customer PROVE held'[c] \in 0 .. HoldRounds
    BY <1>1, OltReadingsAssumption DEF IInv, RestOK
  <2> QED
    BY <1>1, <2>1 DEF IInv, RestOK
<1> QED
  BY <1>3, <1>5, <1>6 DEF StepOK, IInv

LEMMA RoundLookupStep ==
    ASSUME IInv, NEW c, RoundLookup(c)
    PROVE  StepOK
BY LookupStep, PageAndRefresher DEF RoundLookup

LEMMA EndRoundStep ==
    ASSUME IInv, EndRound
    PROVE  StepOK
<1>1. BucketOK' /\ WithinBudget
  BY BucketUntouched DEF EndRound, IInv
<1>2. ReadersOK'
  <2>1. PICK S \in SUBSET Worth(Refresher) : Save(Refresher, S)
    BY DEF EndRound, Believed
  <2>2. /\ reader' = [reader EXCEPT ![Refresher] = Off]
        /\ UNCHANGED <<username, overtaken>> /\ ReadersOK
    BY DEF EndRound, IInv
  <2> QED
    BY <2>1, <2>2, SaveOK, PageAndRefresher
<1>3. RestOK'
  <2>1. PICK S : held' = [c \in Customer |-> IF c \in S THEN HoldRounds ELSE held[c]]
    BY DEF EndRound
  <2>2. HoldRounds \in 0 .. HoldRounds
    BY OltReadingsAssumption
  <2>3. UNCHANGED <<cache, events>>
    BY DEF EndRound
  <2> QED
    BY <2>1, <2>2, <2>3 DEF IInv, RestOK
<1> QED
  BY <1>1, <1>2, <1>3 DEF StepOK, IInv

LEMMA RenameStep ==
    ASSUME IInv, NEW c \in Customer, NEW u \in Username \cup {None}, Rename(c, u)
    PROVE  StepOK
<1>1. BucketOK' /\ WithinBudget
  BY BucketUntouched DEF Rename, IInv
<1>2. ReadersOK'
  BY RenameOK DEF IInv
<1>3. RestOK'
  BY EventOK DEF Rename, IInv, RestOK
<1> QED
  BY <1>1, <1>2, <1>3 DEF StepOK, IInv

LEMMA EveryStep == IInv /\ [Next]_vars => StepOK
<1> SUFFICES ASSUME IInv, [Next]_vars PROVE StepOK
  OBVIOUS
<1>1. ASSUME NEW k \in Call, Wake(k) \/ Answer(k) \/ Refused(k) PROVE StepOK
  BY <1>1, WakeStep, AnswerStep, RefusedStep
<1>2. CASE Tick \/ PauseEnds \/ FetchOlts \/ OltsAnswered
  BY <1>2, TickStep, PauseEndsStep, FetchOltsStep, OltsAnsweredStep
<1>3. ASSUME NEW u \in Username, Expires(u) PROVE StepOK
  BY <1>3, ExpiresStep
<1>4. ASSUME NEW w \in Page, Request(w) PROVE StepOK
  BY <1>4, RequestStep
<1>5. ASSUME NEW w \in Page, NEW c \in Customer, PageLookup(w, c) PROVE StepOK
  BY <1>5, PageLookupStep
<1>6. ASSUME NEW w \in Page, ClosePage(w) PROVE StepOK
  BY <1>6, ClosePageStep
<1>7. CASE StartRound \/ EndRound
  BY <1>7, StartRoundStep, EndRoundStep
<1>8. ASSUME NEW c \in Customer, RoundLookup(c) PROVE StepOK
  BY <1>8, RoundLookupStep
<1>9. ASSUME NEW c \in Touched, NEW u \in Username \cup {None}, Rename(c, u) PROVE StepOK
  <2>1. c \in Customer
    BY OltReadingsAssumption
  <2> QED
    BY <1>9, <2>1, RenameStep
<1>10. CASE UNCHANGED vars
  <2>1. UNCHANGED <<username, conn, overtaken, reader, bucket, cache, held, events>>
    BY <1>10 DEF vars, bucket
  <2>2. BucketOK' /\ WithinBudget
    BY <2>1, BucketUntouched DEF IInv
  <2>3. ReadersOK' /\ RestOK'
    BY <2>1, ReadersStand DEF IInv, RestOK
  <2> QED
    BY <2>2, <2>3 DEF StepOK, IInv
<1> QED
  BY <1>1, <1>2, <1>3, <1>4, <1>5, <1>6, <1>7, <1>8, <1>9, <1>10 DEF Next

-----------------------------------------------------------------------------
(* The theorems.                                                           *)

\* The bucket, the calls and the columns keep to their types, and every reader
\* has an answer for each row it read.
THEOREM TypeCorrect == Spec => []TypeOK
<1>1. IInv => TypeOK
  BY DEF IInv, BucketOK, ReadersOK, RestOK, TypeOK
<1>2. IInv /\ [Next]_vars => IInv'
  BY EveryStep DEF StepOK
<1> QED
  BY <1>1, <1>2, InitOK, PTL DEF Spec

\* Whatever answers are shared, cached or late: a stored reading is of the
\* Username its customer has, unless that was changed while somebody read.
THEOREM ReadingsAreOfTheirUsername == Spec => []ReadingIsOfUsername
<1>1. IInv => ReadingIsOfUsername
  BY DEF IInv, ReadersOK
<1>2. IInv /\ [Next]_vars => IInv'
  BY EveryStep DEF StepOK
<1> QED
  BY <1>1, <1>2, InitOK, PTL DEF Spec

\* Whoever calls and however many wait: no call is sent beyond the budget of the
\* OLT monitoring API, at once or after its wait, and none during a pause.
THEOREM CallsStayWithinBudget == Spec => BudgetIsKept
<1>1. IInv /\ [Next]_vars =>
        \A k \in Call : (call[k] # Sent /\ call'[k] = Sent) => credit >= 1 /\ ~paused
  BY EveryStep DEF StepOK, WithinBudget
<1>2. IInv /\ [Next]_vars => IInv'
  BY EveryStep DEF StepOK
<1>3. [Next]_vars /\ UNCHANGED vars => UNCHANGED <<call, credit, paused>>
  BY DEF vars
<1> QED
  BY <1>1, <1>2, <1>3, InitOK, PTL DEF Spec, BudgetIsKept
=============================================================================
