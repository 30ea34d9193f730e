--------------------------- MODULE RegisterProofs ---------------------------
(***************************************************************************)
(* What holds of the registers for any number of rows and people: the      *)
(* one-time codes, the newcomers, the staff, who sees which buildings and  *)
(* who sees which fibres, the customers of buildings and the list of them, *)
(* and the wings of a building.                                            *)
(***************************************************************************)
EXTENDS Naturals, Sequences, FiniteSets, FiniteSetTheorems, WellFoundedInduction, TLAPS

CONSTANTS
    None, Idle, Request,
    Mobile, maxAttempts, MaxCodes,
    Person, Bank, MaxLinks, MaxIntroductions, MayFail,
    User, Zone, Keep, Root, Role, ZoneSets, Patches, Seats,
    Building, Actor, RoleOf, ZonesOf, Granted, Near, OltZones,
    Fiber, Ticked, Pop, Closure, Splitter, Shape, PopZones,
    Username, Text, Wrong, Row, Form, MaxRows, MaxId,
    Worker, WingId, MaxCount, MaxPass,
    ListZone, ZoneAt, Olt, Answer, Readers

VARIABLES
    challenge, proof, account, session, asking,
    partner, invite, referral, request,
    user, registry,
    cable, pop, closure, hub,
    customer, made, writing, last,
    building, wings, wingReq,
    listRow, down

Codes == INSTANCE OneTimeCode
Joining == INSTANCE PartnerOnboarding
People == INSTANCE Team
Access == INSTANCE BuildingAccess
Sight == INSTANCE NetworkAccess
Customers == INSTANCE CustomerRegister WITH request <- writing
Wings == INSTANCE BuildingWings WITH req <- wingReq
List == INSTANCE CustomerList WITH Zone <- ListZone, row <- listRow

\* Requests are taken one at a time.
OneAtATime == \E r : Request = {r}

-----------------------------------------------------------------------------
(* Numbers.                                                                *)

\* A non-empty set of the numbers up to n has a greatest.
LEMMA GreatestUpTo ==
    ASSUME NEW n \in Nat, NEW S \in SUBSET (1 .. n), S # {}
    PROVE  \E x \in S : \A y \in S : x >= y
<1> DEFINE T == {n - x : x \in S}
<1>1. T \subseteq Nat /\ T # {}
  <2>1. \A x \in S : n - x \in Nat
    OBVIOUS
  <2>2. PICK x \in S : TRUE
    OBVIOUS
  <2>3. n - x \in T
    BY <2>2
  <2> QED
    BY <2>1, <2>3
<1> DEFINE R == OpToRel(<, Nat)
<1>2. \E x \in T : \A y \in T : <<y, x>> \notin R
  <2>1. IsWellFoundedOn(R, Nat)
    BY NatLessThanWellFounded, Zenon
  <2> HIDE DEF R, T
  <2> QED
    BY <1>1, <2>1, WFMin, Zenon
<1>3. ASSUME NEW x \in Nat, NEW y \in Nat, <<y, x>> \notin R
      PROVE  x <= y
  <2>1. <<y, x>> \in Nat \X Nat => ~ (<<y, x>>[1] < <<y, x>>[2])
    BY <1>3, Zenon DEF OpToRel
  <2> QED
    BY <2>1
<1>4. PICK z \in T : \A y \in T : z <= y
  <2> HIDE DEF R, T
  <2> QED
    BY <1>1, <1>2, <1>3
<1>5. PICK x \in S : z = n - x
  OBVIOUS
<1>6. ASSUME NEW y \in S PROVE x >= y
  <2>1. n - y \in T
    OBVIOUS
  <2>2. z <= n - y
    BY <1>4, <2>1
  <2> QED
    BY <1>5, <2>2
<1> QED
  BY <1>6

-----------------------------------------------------------------------------
(* One-time codes.                                                         *)

CodeRow ==
    [mobile : Mobile, attempts : Nat, consumed : BOOLEAN, age : Codes!Age, removed : BOOLEAN, guesses : Nat, opened : Nat]

\* What is pending of code c: a wrong guess already judged, or a right one.
Pending(r, op, c) == asking[r] # Idle /\ asking[r].op = op /\ asking[r].code = c

\* What a request is about to write it may still write.
AskingFits(r) ==
    /\ DOMAIN asking = {r}
    /\ asking[r] # Idle =>
          /\ asking[r].op \in {"create", "send", "bump", "consume"}
          /\ asking[r].op \in {"create", "consume"} => asking[r].mobile \in Mobile
          /\ asking[r].op = "create" => \A c \in Codes!CodesOf(asking[r].mobile) : challenge[c].age # "young"
          /\ asking[r].op \in {"send", "bump", "consume"} => asking[r].code \in DOMAIN challenge
          /\ asking[r].op = "send" => ~challenge[asking[r].code].removed
          /\ asking[r].op = "bump" => challenge[asking[r].code].attempts < maxAttempts
          /\ asking[r].op = "consume" => /\ challenge[asking[r].code].mobile = asking[r].mobile
                                         /\ challenge[asking[r].code].opened = 0
                                         /\ ~challenge[asking[r].code].consumed

\* No wrong guess is forgotten but the one that is being written down.
GuessesCount(r) ==
    \A c \in DOMAIN challenge :
        /\ challenge[c].attempts <= maxAttempts
        /\ challenge[c].guesses <= maxAttempts
        /\ challenge[c].guesses <= challenge[c].attempts + 1
        /\ ~Pending(r, "bump", c) => challenge[c].guesses <= challenge[c].attempts

OpenedOnce ==
    \A c \in DOMAIN challenge : challenge[c].opened <= 1 /\ (~challenge[c].consumed => challenge[c].opened = 0)

OlderNotYoung ==
    \A c, d \in DOMAIN challenge :
        (c < d /\ challenge[c].mobile = challenge[d].mobile /\ ~challenge[c].removed /\ ~challenge[d].removed)
        => challenge[c].age # "young"

CodesInv(r) ==
    /\ Codes!TypeOK /\ AskingFits(r) /\ GuessesCount(r) /\ OpenedOnce /\ OlderNotYoung /\ Codes!SessionsAreProven

\* The newest of some codes.
LEMMA NewestCode ==
    ASSUME Codes!TypeOK, NEW S \in SUBSET DOMAIN challenge, S # {}
    PROVE  Codes!Max(S) \in S /\ \A c \in S : c <= Codes!Max(S)
<1>1. Len(challenge) \in Nat /\ DOMAIN challenge = 1 .. Len(challenge)
  BY DEF Codes!TypeOK
<1>2. \E x \in S : \A y \in S : x >= y
  BY <1>1, GreatestUpTo
<1>3. Codes!Max(S) \in S /\ \A y \in S : Codes!Max(S) >= y
  BY <1>2, Zenon DEF Codes!Max
<1> QED
  BY <1>1, <1>3

LEMMA CodesInvFirst ==
    ASSUME NEW r, Request = {r}, Codes!Init
    PROVE  CodesInv(r)
BY DEF Codes!Init, CodesInv, Codes!TypeOK, AskingFits, GuessesCount, OpenedOnce, OlderNotYoung, Codes!SessionsAreProven

\* The newest code is the only one that may be young.
LEMMA CoolingSeesYoung ==
    ASSUME Codes!TypeOK, OlderNotYoung, NEW m \in Mobile, ~Codes!Cooling(m)
    PROVE  \A c \in Codes!CodesOf(m) : challenge[c].age # "young"
<1> DEFINE S == Codes!CodesOf(m)
<1>1. SUFFICES ASSUME NEW c \in S PROVE challenge[c].age # "young"
  OBVIOUS
<1>2. S \in SUBSET DOMAIN challenge /\ DOMAIN challenge \subseteq Nat /\ S # {}
  BY <1>1 DEF Codes!CodesOf, Codes!TypeOK
<1>3. Codes!Max(S) \in S /\ c <= Codes!Max(S)
  <2> HIDE DEF S
  <2> QED
    BY <1>1, <1>2, NewestCode
<1>4. challenge[Codes!Max(S)].age # "young"
  BY <1>1, Zenon DEF Codes!Cooling
<1>5. CASE c = Codes!Max(S)
  BY <1>4, <1>5
<1>6. CASE c < Codes!Max(S)
  BY <1>2, <1>3, <1>6 DEF OlderNotYoung, Codes!CodesOf
<1> QED
  BY <1>2, <1>3, <1>5, <1>6

\* Steps that leave the codes as they are.
LEMMA CodesSame ==
    ASSUME NEW r, CodesInv(r), challenge' = challenge, AskingFits(r)', Codes!SessionsAreProven',
           proof' \subseteq Mobile, account' \subseteq Mobile, session' \subseteq Mobile,
           \A c \in DOMAIN challenge : Pending(r, "bump", c) => Pending(r, "bump", c)'
    PROVE  CodesInv(r)'
<1>1. GuessesCount(r)'
  BY DEF CodesInv, GuessesCount, Codes!TypeOK
<1> QED
  BY <1>1 DEF CodesInv, OpenedOnce, OlderNotYoung, Codes!TypeOK

LEMMA BeginRequestOtpKeeps ==
    ASSUME NEW r, CodesInv(r), NEW m \in Mobile, Codes!BeginRequestOtp(r, m)
    PROVE  CodesInv(r)'
<1>1. asking[r] = Idle /\ asking' = [asking EXCEPT ![r] = [op |-> "create", mobile |-> m]]
  BY DEF Codes!BeginRequestOtp, Codes!Begins
<1>2. UNCHANGED <<challenge, proof, account, session>>
  BY DEF Codes!BeginRequestOtp, Codes!Begins
<1>3. \A c \in Codes!CodesOf(m) : challenge[c].age # "young"
  BY CoolingSeesYoung DEF CodesInv, Codes!BeginRequestOtp
<1>4. AskingFits(r)'
  BY <1>1, <1>2, <1>3 DEF CodesInv, AskingFits, Codes!CodesOf
<1>5. Codes!SessionsAreProven'
  BY <1>2 DEF CodesInv, Codes!SessionsAreProven
<1>6. \A c \in DOMAIN challenge : ~Pending(r, "bump", c)
  BY <1>1 DEF Pending
<1> QED
  BY <1>2, <1>4, <1>5, <1>6, CodesSame DEF CodesInv, Codes!TypeOK

LEMMA SmsSentKeeps ==
    ASSUME NEW r, CodesInv(r), Codes!SmsSent(r)
    PROVE  CodesInv(r)'
<1>1. asking[r].op = "send" /\ asking' = [asking EXCEPT ![r] = Idle]
  BY DEF Codes!SmsSent, Codes!At, Codes!Becomes
<1>2. UNCHANGED <<challenge, proof, account, session>>
  BY DEF Codes!SmsSent
<1>4. AskingFits(r)'
  BY <1>1, <1>2 DEF CodesInv, AskingFits
<1>5. Codes!SessionsAreProven'
  BY <1>2 DEF CodesInv, Codes!SessionsAreProven
<1>6. \A c \in DOMAIN challenge : ~Pending(r, "bump", c)
  BY <1>1 DEF Pending
<1> QED
  BY <1>2, <1>4, <1>5, <1>6, CodesSame DEF CodesInv, Codes!TypeOK

LEMMA RegisterKeeps ==
    ASSUME NEW r, CodesInv(r), NEW m \in proof, Codes!Register(m) \/ Codes!ProofExpires(m)
    PROVE  CodesInv(r)'
<1>1. UNCHANGED <<challenge, asking>>
  BY DEF Codes!Register, Codes!ProofExpires
<1>2. proof' \subseteq proof /\ session' \subseteq session \cup {m} /\ account \subseteq account' /\ account' \subseteq account \cup {m}
      /\ (session' # session => m \in account')
  BY DEF Codes!Register, Codes!ProofExpires
<1>3. m \in Mobile
  BY DEF CodesInv, Codes!TypeOK
<1>4. AskingFits(r)'
  BY <1>1 DEF CodesInv, AskingFits, Codes!CodesOf
<1>5. Codes!SessionsAreProven'
  BY <1>1, <1>2 DEF CodesInv, Codes!SessionsAreProven
<1>6. \A c \in DOMAIN challenge : Pending(r, "bump", c) => Pending(r, "bump", c)'
  BY <1>1 DEF Pending
<1> QED
  BY <1>1, <1>2, <1>3, <1>4, <1>5, <1>6, CodesSame DEF CodesInv, Codes!TypeOK

\* Its row, field by field.
LEMMA CodeFields ==
    ASSUME Codes!TypeOK, NEW c \in DOMAIN challenge
    PROVE  /\ challenge[c] \in CodeRow
           /\ challenge[c].mobile \in Mobile /\ challenge[c].attempts \in Nat /\ challenge[c].consumed \in BOOLEAN
           /\ challenge[c].age \in Codes!Age /\ challenge[c].removed \in BOOLEAN
           /\ challenge[c].guesses \in Nat /\ challenge[c].opened \in Nat
           /\ challenge[c] = [mobile |-> challenge[c].mobile, attempts |-> challenge[c].attempts,
                              consumed |-> challenge[c].consumed, age |-> challenge[c].age, removed |-> challenge[c].removed,
                              guesses |-> challenge[c].guesses, opened |-> challenge[c].opened]
<1>1. challenge \in Seq(CodeRow)
  BY DEF Codes!TypeOK, CodeRow
<1>2. challenge[c] \in CodeRow
  BY <1>1
<1> QED
  BY <1>2 DEF CodeRow

\* One code changes, to x.
Put(c, x) == [challenge EXCEPT ![c] = x]

LEMMA PutIs ==
    ASSUME Codes!TypeOK, NEW c \in DOMAIN challenge, NEW x \in CodeRow
    PROVE  /\ Put(c, x) \in Seq(CodeRow) /\ DOMAIN Put(c, x) = DOMAIN challenge
           /\ Put(c, x)[c] = x
           /\ \A d \in DOMAIN challenge : d # c => Put(c, x)[d] = challenge[d]
BY DEF Put, Codes!TypeOK, CodeRow

\* A code that grows older, is removed, judged or used up, and is no younger.
LEMMA CodeChanges ==
    ASSUME NEW r, CodesInv(r), NEW c \in DOMAIN challenge, NEW x \in CodeRow, challenge' = Put(c, x),
           x.mobile = challenge[c].mobile,
           x.removed = challenge[c].removed \/ x.removed,
           x.age = "young" => challenge[c].age = "young",
           x.attempts <= maxAttempts, x.guesses <= maxAttempts, x.guesses <= x.attempts + 1,
           ~Pending(r, "bump", c)' => x.guesses <= x.attempts,
           \A d \in DOMAIN challenge : d # c /\ Pending(r, "bump", d) => Pending(r, "bump", d)',
           x.opened <= 1, x.opened >= challenge[c].opened, ~x.consumed => x.opened = 0,
           AskingFits(r)', proof' \subseteq Mobile, account' = account, session' \subseteq account,
           \A m \in (session' \cup proof') \ (session \cup proof) : m = x.mobile /\ x.opened > 0
    PROVE  CodesInv(r)'
<1>1. /\ challenge' \in Seq(CodeRow) /\ DOMAIN challenge' = DOMAIN challenge
      /\ challenge'[c] = x
      /\ \A d \in DOMAIN challenge : d # c => challenge'[d] = challenge[d]
  BY PutIs DEF CodesInv
<1>2. Codes!TypeOK'
  BY <1>1 DEF CodesInv, Codes!TypeOK, CodeRow
<1>3. GuessesCount(r)'
  BY <1>1 DEF CodesInv, GuessesCount
<1>4. OpenedOnce'
  BY <1>1 DEF CodesInv, OpenedOnce
<1>5. \A d \in DOMAIN challenge : /\ challenge'[d].mobile = challenge[d].mobile
                                  /\ challenge[d].removed => challenge'[d].removed
                                  /\ challenge'[d].age = "young" => challenge[d].age = "young"
                                  /\ challenge[d].opened > 0 => challenge'[d].opened > 0
  <2>1. x.opened \in Nat /\ challenge[c].opened \in Nat
    BY CodeFields DEF CodesInv, CodeRow
  <2>2. challenge[c].opened > 0 => x.opened > 0
    BY <2>1
  <2>3. challenge[c].removed => x.removed
    OBVIOUS
  <2> QED
    BY <1>1, <2>2, <2>3
<1>6. OlderNotYoung'
  BY <1>1, <1>5 DEF CodesInv, OlderNotYoung
<1>7. Codes!SessionsAreProven'
  <2>1. ASSUME NEW m \in session' \cup proof' PROVE \E d \in DOMAIN challenge' : challenge'[d].mobile = m /\ challenge'[d].opened > 0
    <3>1. CASE m \in session \cup proof
      <4>1. PICK d \in DOMAIN challenge : challenge[d].mobile = m /\ challenge[d].opened > 0
        BY <3>1 DEF CodesInv, Codes!SessionsAreProven
      <4> QED
        BY <1>1, <1>5, <4>1
    <3>2. CASE m \notin session \cup proof
      BY <1>1, <2>1, <3>2
    <3> QED
      BY <3>1, <3>2
  <2> QED
    BY <2>1 DEF Codes!SessionsAreProven
<1> QED
  BY <1>2, <1>3, <1>4, <1>6, <1>7 DEF CodesInv

LEMMA AgeKeeps ==
    ASSUME NEW r, CodesInv(r), NEW c \in DOMAIN challenge, Codes!Age1(c)
    PROVE  CodesInv(r)'
<1> DEFINE old == challenge[c]
<1>1. PICK x : x = [old EXCEPT !.age = IF @ = "young" THEN "alive" ELSE "past"]
  OBVIOUS
<1>2. challenge' = Put(c, x) /\ UNCHANGED <<proof, account, session, asking>>
  BY <1>1 DEF Codes!Age1, Put
<1>3. /\ x \in CodeRow
      /\ x.mobile = old.mobile /\ x.removed = old.removed /\ x.attempts = old.attempts /\ x.consumed = old.consumed
      /\ x.guesses = old.guesses /\ x.opened = old.opened /\ x.age # "young"
  BY <1>1, CodeFields DEF CodesInv, CodeRow, Codes!Age
<1>4. /\ DOMAIN challenge' = DOMAIN challenge
      /\ challenge'[c] = x
      /\ \A d \in DOMAIN challenge : d # c => challenge'[d] = challenge[d]
  BY <1>2, <1>3, PutIs DEF CodesInv
<1>5. \A d \in DOMAIN challenge :
          /\ challenge'[d].mobile = challenge[d].mobile /\ challenge'[d].removed = challenge[d].removed
          /\ challenge'[d].attempts = challenge[d].attempts /\ challenge'[d].opened = challenge[d].opened
          /\ challenge'[d].consumed = challenge[d].consumed
          /\ challenge[d].age # "young" => challenge'[d].age # "young"
  BY <1>3, <1>4
<1>6. \A m : Codes!CodesOf(m)' = Codes!CodesOf(m) /\ Codes!CodesOf(m) \subseteq DOMAIN challenge
  BY <1>4, <1>5 DEF Codes!CodesOf
<1>7. AskingFits(r)'
  BY <1>2, <1>4, <1>5, <1>6 DEF CodesInv, AskingFits
<1>8. old.attempts <= maxAttempts /\ old.guesses <= maxAttempts /\ old.guesses <= old.attempts + 1
      /\ (~Pending(r, "bump", c) => old.guesses <= old.attempts)
      /\ old.opened <= 1 /\ (~old.consumed => old.opened = 0)
  BY DEF CodesInv, GuessesCount, OpenedOnce
<1>9. old.opened >= old.opened
  BY CodeFields DEF CodesInv
<1>10. \A d : Pending(r, "bump", d)' = Pending(r, "bump", d)
  BY <1>2 DEF Pending
<1>11. proof' \subseteq Mobile /\ account' = account /\ session' \subseteq account /\ (session' \cup proof') \ (session \cup proof) = {}
  BY <1>2 DEF CodesInv, Codes!TypeOK, Codes!SessionsAreProven
<1> HIDE DEF old
<1> QED
  BY <1>2, <1>3, <1>7, <1>8, <1>9, <1>10, <1>11, CodeChanges DEF old

LEMMA SmsFailsKeeps ==
    ASSUME NEW r, CodesInv(r), Codes!SmsFails(r)
    PROVE  CodesInv(r)'
<1>0. PICK c : c = asking[r].code
  OBVIOUS
<1> DEFINE old == challenge[c]
<1>1. PICK removed \in BOOLEAN : challenge' = [challenge EXCEPT ![c].removed = removed]
  BY <1>0 DEF Codes!SmsFails
<1>2. /\ asking[r] # Idle /\ asking[r].op = "send" /\ asking' = [asking EXCEPT ![r] = Idle]
      /\ UNCHANGED <<proof, account, session>>
  BY DEF Codes!SmsFails, Codes!At, Codes!Becomes
<1>3. c \in DOMAIN challenge /\ ~old.removed
  BY <1>0, <1>2 DEF CodesInv, AskingFits
<1>4. PICK x : x = [old EXCEPT !.removed = removed]
  OBVIOUS
<1>5. challenge' = Put(c, x)
  BY <1>1, <1>4 DEF Put
<1>6. /\ x \in CodeRow
      /\ x.mobile = old.mobile /\ x.attempts = old.attempts /\ x.consumed = old.consumed
      /\ x.guesses = old.guesses /\ x.opened = old.opened /\ x.age = old.age
  BY <1>3, <1>4, CodeFields DEF CodesInv, CodeRow
<1>7. x.removed = old.removed \/ x.removed
  <2>1. x.removed = removed /\ old.removed = FALSE
    BY <1>3, <1>4, CodeFields DEF CodesInv
  <2> QED
    BY <2>1, Zenon
<1>8. old.attempts <= maxAttempts /\ old.guesses <= maxAttempts /\ old.guesses <= old.attempts + 1
      /\ (~Pending(r, "bump", c) => old.guesses <= old.attempts)
      /\ old.opened <= 1 /\ (~old.consumed => old.opened = 0)
  BY <1>3 DEF CodesInv, GuessesCount, OpenedOnce
<1>9. old.opened >= old.opened
  BY <1>3, CodeFields DEF CodesInv
<1>10. \A d : ~Pending(r, "bump", d)
  BY <1>2 DEF Pending
<1>11. AskingFits(r)'
  BY <1>2 DEF CodesInv, AskingFits
<1>12. proof' \subseteq Mobile /\ account' = account /\ session' \subseteq account /\ (session' \cup proof') \ (session \cup proof) = {}
  BY <1>2 DEF CodesInv, Codes!TypeOK, Codes!SessionsAreProven
<1> HIDE DEF old
<1> QED
  BY <1>3, <1>5, <1>6, <1>7, <1>8, <1>9, <1>10, <1>11, <1>12, CodeChanges DEF old

LEMMA BumpAttemptsKeeps ==
    ASSUME NEW r, maxAttempts \in Nat, CodesInv(r), Codes!BumpAttempts(r)
    PROVE  CodesInv(r)'
<1>0. PICK c : c = asking[r].code
  OBVIOUS
<1> DEFINE old == challenge[c]
<1>1. /\ asking[r] # Idle /\ asking[r].op = "bump" /\ asking' = [asking EXCEPT ![r] = Idle]
      /\ UNCHANGED <<proof, account, session>>
      /\ challenge' = [challenge EXCEPT ![c].attempts = @ + 1]
  BY <1>0 DEF Codes!BumpAttempts, Codes!At, Codes!Becomes
<1>2. c \in DOMAIN challenge /\ old.attempts < maxAttempts
  BY <1>0, <1>1 DEF CodesInv, AskingFits
<1>3. PICK x : x = [old EXCEPT !.attempts = @ + 1]
  OBVIOUS
<1>4. challenge' = Put(c, x)
  BY <1>1, <1>3 DEF Put
<1>5. /\ x \in CodeRow
      /\ x.mobile = old.mobile /\ x.removed = old.removed /\ x.attempts = old.attempts + 1 /\ x.consumed = old.consumed
      /\ x.guesses = old.guesses /\ x.opened = old.opened /\ x.age = old.age
  BY <1>2, <1>3, CodeFields DEF CodesInv, CodeRow
<1>6. old.guesses <= maxAttempts /\ old.guesses <= old.attempts + 1
      /\ old.opened <= 1 /\ (~old.consumed => old.opened = 0)
  BY <1>2 DEF CodesInv, GuessesCount, OpenedOnce
<1>7. old.opened >= old.opened /\ old.attempts \in Nat /\ old.guesses \in Nat
  BY <1>2, CodeFields DEF CodesInv
<1>8. old.attempts + 1 <= maxAttempts /\ old.guesses <= (old.attempts + 1) + 1
  BY <1>2, <1>6, <1>7
<1>9. \A d \in DOMAIN challenge : d # c => ~Pending(r, "bump", d)
  BY <1>0, <1>1 DEF Pending
<1>10. AskingFits(r)'
  BY <1>1 DEF CodesInv, AskingFits
<1>11. proof' \subseteq Mobile /\ account' = account /\ session' \subseteq account /\ (session' \cup proof') \ (session \cup proof) = {}
  BY <1>1 DEF CodesInv, Codes!TypeOK, Codes!SessionsAreProven
<1> HIDE DEF old
<1> QED
  BY <1>2, <1>4, <1>5, <1>6, <1>7, <1>8, <1>9, <1>10, <1>11, CodeChanges DEF old

LEMMA ConsumeOtpKeeps ==
    ASSUME NEW r, CodesInv(r), Codes!ConsumeOtp(r)
    PROVE  CodesInv(r)'
<1>0. PICK c, m : c = asking[r].code /\ m = asking[r].mobile
  OBVIOUS
<1> DEFINE old == challenge[c]
<1>1. /\ asking[r] # Idle /\ asking[r].op = "consume" /\ asking' = [asking EXCEPT ![r] = Idle]
      /\ challenge' = [challenge EXCEPT ![c].consumed = TRUE, ![c].opened = @ + 1]
      /\ account' = account /\ session' \subseteq session \cup {m} /\ proof' \subseteq proof \cup {m}
      /\ (session' # session => m \in account)
  BY <1>0 DEF Codes!ConsumeOtp, Codes!At, Codes!Becomes
<1>2. c \in DOMAIN challenge /\ old.mobile = m /\ m \in Mobile /\ old.opened = 0
  BY <1>0, <1>1 DEF CodesInv, AskingFits
<1>3. PICK x : x = [old EXCEPT !.consumed = TRUE, !.opened = @ + 1]
  OBVIOUS
<1>4. challenge' = Put(c, x)
  BY <1>1, <1>2, <1>3 DEF Put, CodesInv, Codes!TypeOK
<1>5. /\ x \in CodeRow
      /\ x.mobile = old.mobile /\ x.removed = old.removed /\ x.attempts = old.attempts /\ x.consumed = TRUE
      /\ x.guesses = old.guesses /\ x.opened = 1 /\ x.age = old.age
  <2>1. PICK y : y = [old EXCEPT !.consumed = TRUE]
    OBVIOUS
  <2>2. /\ y \in CodeRow
        /\ y.mobile = old.mobile /\ y.removed = old.removed /\ y.attempts = old.attempts /\ y.consumed = TRUE
        /\ y.guesses = old.guesses /\ y.opened = 0 /\ y.age = old.age
    BY <1>2, <2>1, CodeFields DEF CodesInv, CodeRow
  <2>3. x = [y EXCEPT !.opened = 1]
    BY <1>2, <1>3, <2>1, <2>2, CodeFields DEF CodesInv
  <2> QED
    BY <2>2, <2>3 DEF CodeRow
<1>6. \A d : ~Pending(r, "bump", d)
  BY <1>1 DEF Pending
<1>7. old.attempts <= maxAttempts /\ old.guesses <= maxAttempts /\ old.guesses <= old.attempts + 1 /\ old.guesses <= old.attempts
  BY <1>2, <1>6 DEF CodesInv, GuessesCount
<1>8. 1 <= 1 /\ 1 >= 0 /\ 1 > 0
  OBVIOUS
<1>9. AskingFits(r)'
  BY <1>1 DEF CodesInv, AskingFits
<1>10. proof' \subseteq Mobile /\ account' = account /\ session' \subseteq account
      /\ \A n \in (session' \cup proof') \ (session \cup proof) : n = m
  BY <1>1, <1>2 DEF CodesInv, Codes!TypeOK, Codes!SessionsAreProven
<1> HIDE DEF old
<1> QED
  BY <1>2, <1>4, <1>5, <1>6, <1>7, <1>8, <1>9, <1>10, CodeChanges DEF old

\* A request that has judged a guess is not at rest.
Judged == [op : {"bump", "consume"}, code : Nat, mobile : Mobile]

LEMMA BeginVerifyOtpKeeps ==
    ASSUME NEW r, maxAttempts \in Nat, Idle \notin Judged, CodesInv(r),
           NEW m \in Mobile, NEW typed, Codes!BeginVerifyOtp(r, m, typed)
    PROVE  CodesInv(r)'
<1> DEFINE S == Codes!LiveCodes(m)
<1>0. PICK c : c = Codes!Max(S)
  OBVIOUS
<1> DEFINE old == challenge[c]
<1>1. S \in SUBSET DOMAIN challenge /\ S # {}
  BY DEF Codes!BeginVerifyOtp, Codes!LiveCodes, Codes!CodesOf
<1>2. c \in S
  <2> HIDE DEF S
  <2> QED
    BY <1>0, <1>1, NewestCode DEF CodesInv
<1>3. c \in DOMAIN challenge /\ c \in Nat /\ old.mobile = m /\ ~old.consumed /\ ~old.removed
  BY <1>2 DEF Codes!LiveCodes, Codes!CodesOf, CodesInv, Codes!TypeOK
<1>4. /\ asking[r] = Idle /\ UNCHANGED <<proof, account, session>>
      /\ challenge' = [challenge EXCEPT ![c].guesses = IF typed = c THEN @ ELSE @ + 1]
      /\ old.attempts < maxAttempts
      /\ asking' = [asking EXCEPT ![r] = [op |-> IF typed = c THEN "consume" ELSE "bump", code |-> c, mobile |-> m]]
  BY <1>0, Zenon DEF Codes!BeginVerifyOtp, Codes!Begins, Codes!AttemptsLeft
<1> HIDE DEF S
<1>5. PICK x : x = [old EXCEPT !.guesses = IF typed = c THEN @ ELSE @ + 1]
  OBVIOUS
<1>6. challenge' = Put(c, x)
  BY <1>4, <1>5 DEF Put
<1>7. /\ x \in CodeRow
      /\ x.mobile = old.mobile /\ x.removed = old.removed /\ x.attempts = old.attempts /\ x.consumed = old.consumed
      /\ x.guesses = (IF typed = c THEN old.guesses ELSE old.guesses + 1) /\ x.opened = old.opened /\ x.age = old.age
  BY <1>3, <1>5, CodeFields DEF CodesInv, CodeRow
<1>8. /\ DOMAIN challenge' = DOMAIN challenge
      /\ challenge'[c] = x
      /\ \A d \in DOMAIN challenge : d # c => challenge'[d] = challenge[d]
  BY <1>3, <1>6, <1>7, PutIs DEF CodesInv
<1>9. \A d : ~Pending(r, "bump", d)
  BY <1>4 DEF Pending
<1>10. old.attempts <= maxAttempts /\ old.guesses <= old.attempts /\ old.opened <= 1 /\ old.opened = 0
  BY <1>3, <1>9 DEF CodesInv, GuessesCount, OpenedOnce
<1>11. old.attempts \in Nat /\ old.guesses \in Nat /\ old.opened >= old.opened
  BY <1>3, CodeFields DEF CodesInv
<1>12. old.guesses + 1 <= maxAttempts /\ old.guesses + 1 <= old.attempts + 1 /\ old.guesses <= old.attempts + 1 /\ old.guesses <= maxAttempts
  BY <1>4, <1>10, <1>11
<1>13. x.guesses <= maxAttempts /\ x.guesses <= x.attempts + 1
  BY <1>7, <1>12
<1>14. DOMAIN asking = {r}
  BY DEF CodesInv, AskingFits
<1>15. CASE typed = c
  <2>1. PICK q : q = [op |-> "consume", code |-> c, mobile |-> m]
    OBVIOUS
  <2>2. asking' = [asking EXCEPT ![r] = q] /\ q.op = "consume" /\ q.code = c /\ q.mobile = m
    BY <1>4, <1>15, <2>1
  <2>3. AskingFits(r)'
    BY <1>3, <1>7, <1>8, <1>10, <1>14, <2>2 DEF AskingFits
  <2>4. x.guesses <= x.attempts
    BY <1>7, <1>10, <1>15
  <2>5. proof' \subseteq Mobile /\ account' = account /\ session' \subseteq account /\ (session' \cup proof') \ (session \cup proof) = {}
    BY <1>4 DEF CodesInv, Codes!TypeOK, Codes!SessionsAreProven
  <2> HIDE DEF old
  <2> QED
    BY <1>3, <1>6, <1>7, <1>9, <1>10, <1>11, <1>13, <2>3, <2>4, <2>5, CodeChanges DEF old
<1>16. CASE typed # c
  <2>1. PICK q : q = [op |-> "bump", code |-> c, mobile |-> m]
    OBVIOUS
  <2>2. asking' = [asking EXCEPT ![r] = q] /\ q.op = "bump" /\ q.code = c /\ q.mobile = m
    BY <1>4, <1>16, <2>1
  <2>3. q \in Judged
    BY <1>3, <2>1 DEF Judged
  <2>4. AskingFits(r)'
    BY <1>3, <1>4, <1>7, <1>8, <1>10, <1>14, <2>2 DEF AskingFits
  <2>5. Pending(r, "bump", c)'
    <3>1. asking'[r] = q /\ q # Idle
      BY <1>14, <2>2, <2>3
    <3> QED
      BY <2>2, <3>1 DEF Pending
  <2>6. proof' \subseteq Mobile /\ account' = account /\ session' \subseteq account /\ (session' \cup proof') \ (session \cup proof) = {}
    BY <1>4 DEF CodesInv, Codes!TypeOK, Codes!SessionsAreProven
  <2> HIDE DEF old
  <2> QED
    BY <1>3, <1>6, <1>7, <1>9, <1>10, <1>11, <1>13, <2>4, <2>5, <2>6, CodeChanges DEF old
<1> QED
  BY <1>15, <1>16

LEMMA CreateChallengeKeeps ==
    ASSUME NEW r, maxAttempts \in Nat, CodesInv(r), Codes!CreateChallenge(r)
    PROVE  CodesInv(r)'
<1>0. PICK n, m : n = Len(challenge) + 1 /\ m = asking[r].mobile
  OBVIOUS
<1>1. PICK x : x = [mobile |-> m, attempts |-> 0, consumed |-> FALSE, age |-> "young",
                    removed |-> FALSE, guesses |-> 0, opened |-> 0]
  OBVIOUS
<1>2. /\ asking[r] # Idle /\ asking[r].op = "create" /\ challenge' = Append(challenge, x)
      /\ asking' = [asking EXCEPT ![r] = [op |-> "send", code |-> Len(challenge')]]
      /\ UNCHANGED <<proof, account, session>>
  BY <1>0, <1>1 DEF Codes!CreateChallenge, Codes!At, Codes!Becomes
<1>3. m \in Mobile /\ \A c \in Codes!CodesOf(m) : challenge[c].age # "young"
  BY <1>0, <1>2 DEF CodesInv, AskingFits
<1>4. x \in CodeRow
  BY <1>1, <1>3 DEF CodeRow, Codes!Age
<1>5. challenge \in Seq(CodeRow)
  BY DEF CodesInv, Codes!TypeOK, CodeRow
<1>6. /\ challenge' \in Seq(CodeRow) /\ n \in Nat \ {0} /\ Len(challenge') = n
      /\ DOMAIN challenge = 1 .. n - 1 /\ DOMAIN challenge' = 1 .. n
      /\ challenge'[n] = x /\ \A c \in DOMAIN challenge : challenge'[c] = challenge[c]
  BY <1>0, <1>2, <1>4, <1>5
<1>7. DOMAIN challenge' = DOMAIN challenge \cup {n} /\ n \notin DOMAIN challenge /\ \A c \in DOMAIN challenge : ~(n < c)
  <2>1. 1 .. n = (1 .. n - 1) \cup {n} /\ n \notin 1 .. n - 1 /\ \A c \in 1 .. n - 1 : ~(n < c)
    BY <1>6
  <2> QED
    BY <1>6, <2>1
<1>8. Codes!TypeOK'
  BY <1>2, <1>6 DEF CodesInv, Codes!TypeOK, CodeRow
<1>9. PICK q : q = [op |-> "send", code |-> n]
  OBVIOUS
<1>10. asking' = [asking EXCEPT ![r] = q] /\ q.op = "send" /\ q.code = n
  BY <1>2, <1>6, <1>9
<1>11. AskingFits(r)'
  BY <1>1, <1>6, <1>7, <1>10 DEF CodesInv, AskingFits
<1>12. \A c : ~Pending(r, "bump", c) /\ ~Pending(r, "bump", c)'
  <2>1. asking'[r] = q
    BY <1>10 DEF CodesInv, AskingFits
  <2> QED
    BY <1>2, <1>10, <2>1 DEF Pending
<1>13. x.attempts = 0 /\ x.guesses = 0 /\ x.opened = 0 /\ 0 <= maxAttempts /\ 0 <= 0 /\ 0 <= 1 /\ 0 <= 0 + 1
  BY <1>1
<1>14. GuessesCount(r)'
  BY <1>6, <1>7, <1>12, <1>13 DEF CodesInv, GuessesCount
<1>15. OpenedOnce'
  BY <1>6, <1>7, <1>13 DEF CodesInv, OpenedOnce
<1>16. OlderNotYoung'
  <2>1. SUFFICES ASSUME NEW c \in DOMAIN challenge', NEW d \in DOMAIN challenge', c < d,
                        challenge'[c].mobile = challenge'[d].mobile, ~challenge'[c].removed, ~challenge'[d].removed
                 PROVE  challenge'[c].age # "young"
    BY DEF OlderNotYoung
  <2>2. c \in DOMAIN challenge
    BY <1>6, <2>1
  <2>3. CASE d \in DOMAIN challenge
    BY <1>6, <2>1, <2>2, <2>3 DEF CodesInv, OlderNotYoung
  <2>4. CASE d = n
    <3>1. x.mobile = m
      BY <1>1
    <3>2. c \in Codes!CodesOf(m)
      BY <1>6, <2>1, <2>2, <2>4, <3>1 DEF Codes!CodesOf
    <3> QED
      BY <1>3, <1>6, <2>2, <3>2
  <2> QED
    BY <1>7, <2>1, <2>3, <2>4
<1>17. Codes!SessionsAreProven'
  BY <1>2, <1>6, <1>7 DEF CodesInv, Codes!SessionsAreProven
<1> QED
  BY <1>8, <1>11, <1>14, <1>15, <1>16, <1>17 DEF CodesInv

LEMMA CodesStep ==
    ASSUME NEW r, Request = {r}, maxAttempts \in Nat, Idle \notin Judged, CodesInv(r), [Codes!Next]_(Codes!vars)
    PROVE  CodesInv(r)'
<1>1. CASE UNCHANGED Codes!vars
  BY <1>1 DEF Codes!vars, CodesInv, Codes!TypeOK, AskingFits, GuessesCount, OpenedOnce, OlderNotYoung,
              Codes!SessionsAreProven, Codes!CodesOf, Pending
<1>2. ASSUME NEW c \in DOMAIN challenge, Codes!Age1(c) PROVE CodesInv(r)'
  BY <1>2, AgeKeeps
<1>3. ASSUME NEW m \in proof, Codes!Register(m) \/ Codes!ProofExpires(m) PROVE CodesInv(r)'
  BY <1>3, RegisterKeeps
<1>4. ASSUME NEW m \in Mobile, Codes!BeginRequestOtp(r, m) PROVE CodesInv(r)'
  BY <1>4, BeginRequestOtpKeeps
<1>5. ASSUME NEW m \in Mobile, NEW typed, Codes!BeginVerifyOtp(r, m, typed) PROVE CodesInv(r)'
  BY <1>5, BeginVerifyOtpKeeps
<1>6. ASSUME \/ Codes!CreateChallenge(r) \/ Codes!SmsSent(r) \/ Codes!SmsFails(r)
             \/ Codes!BumpAttempts(r) \/ Codes!ConsumeOtp(r)
      PROVE  CodesInv(r)'
  BY <1>6, CreateChallengeKeeps, SmsSentKeeps, SmsFailsKeeps, BumpAttemptsKeeps, ConsumeOtpKeeps
<1> QED
  BY <1>1, <1>2, <1>3, <1>4, <1>5, <1>6, Zenon DEF Codes!Next

LEMMA CodesCardinality == \A S : Codes!Cardinality(S) = Cardinality(S)
BY Zenon DEF Codes!Cardinality, Codes!IsFiniteSet, Cardinality, IsFiniteSet

\* The newest of a number's codes is the only young one.
LEMMA OneIsYoung ==
    ASSUME Codes!TypeOK, OlderNotYoung
    PROVE  Codes!OneYoungCode
<1>1. SUFFICES ASSUME NEW m \in Mobile
               PROVE  Cardinality({c \in Codes!CodesOf(m) : challenge[c].age = "young"}) <= 1
  BY CodesCardinality DEF Codes!OneYoungCode
<1> DEFINE Y == {c \in Codes!CodesOf(m) : challenge[c].age = "young"}
<1>2. DOMAIN challenge \subseteq Nat
  BY DEF Codes!TypeOK
<1>3. \A c, d \in Y : c = d
  BY <1>2 DEF OlderNotYoung, Codes!CodesOf
<1>4. CASE Y = {}
  BY <1>4, FS_EmptySet
<1>5. CASE Y # {}
  <2>1. PICK c \in Y : Y = {c}
    BY <1>3, <1>5
  <2> QED
    <3>1. Cardinality({c}) = 1
      BY FS_Singleton
    <3> QED
      BY <2>1, <3>1
<1> QED
  BY <1>4, <1>5

\* While requests are taken one at a time, no code is guessed at more often than
\* allowed, opens more than once or is sent while another is young, and every
\* session and every signup token is of a number proven by a code.
THEOREM CodesStayKept ==
    ASSUME OneAtATime, maxAttempts \in Nat, Idle \notin Judged
    PROVE  Codes!Spec => [](Codes!TypeOK /\ Codes!CodesAreKept)
<1>1. PICK r : Request = {r}
  BY DEF OneAtATime
<1>2. Codes!Init => CodesInv(r)
  BY <1>1, CodesInvFirst
<1>3. CodesInv(r) /\ [Codes!Next]_(Codes!vars) => CodesInv(r)'
  BY <1>1, CodesStep
<1>4. CodesInv(r) => Codes!TypeOK /\ Codes!CodesAreKept
  BY OneIsYoung DEF CodesInv, GuessesCount, OpenedOnce, Codes!CodesAreKept, Codes!GuessesAreCapped, Codes!CodeOpensOnce
<1> QED
  BY <1>2, <1>3, <1>4, PTL DEF Codes!Spec

-----------------------------------------------------------------------------
(* Newcomers, whatever requests overlap and break off.                     *)

PartnerRow ==
    [status : {"REGISTERED", "PENDING_APPROVAL", "APPROVED", "REJECTED"}, papers : BOOLEAN,
     bank : Bank \cup {None}, link : (1 .. Len(invite)) \cup {None}]
InviteRow == [referral : (1 .. Len(referral)) \cup {None}, usedBy : Person \cup {None}, dead : BOOLEAN]
ReferralRow == [person : Person, status : Joining!ReferralStatus, joined : Person \cup {None}]

Papered(p) == p \in DOMAIN partner /\ partner[p].papers /\ partner[p].bank # None

\* What a request knows, that stays true whatever comes between.
Knows(s) ==
    request[s] # Idle =>
        LET q == request[s] IN
        /\ q.op \in {"introduce", "invite", "create", "markUsed", "markJoined", "bank", "submit", "approve"}
        /\ q.op = "introduce" => q.person \in Person
        /\ q.op = "invite" => q.f \in DOMAIN referral /\ q.live \in DOMAIN invite \cup {None}
        /\ q.op = "create" => q.person \in Person /\ q.link \in DOMAIN invite \cup {None}
        /\ q.op \in {"create", "markUsed"} => q = [op |-> q.op, person |-> q.person, link |-> q.link]
        /\ q.op \in {"markUsed", "markJoined"} => q.person \in Person /\ q.link \in DOMAIN invite
        /\ q.op = "markJoined" => invite[q.link].referral # None
        /\ q.op = "bank" => q.person \in DOMAIN partner /\ q.bank \in Bank
        /\ q.op \in {"submit", "approve"} => Papered(q.person)

JoinInv ==
    /\ Joining!TypeOK /\ Joining!ApprovedOnPapers
    /\ DOMAIN request = Request /\ \A s \in Request : Knows(s)

\* Rows come and are not taken away, papers and bank details stay.
RowsStay ==
    /\ \A p \in DOMAIN partner : /\ p \in DOMAIN partner'
                                 /\ partner[p].papers => partner'[p].papers
                                 /\ partner[p].bank # None => partner'[p].bank # None
    /\ DOMAIN referral \subseteq DOMAIN referral'
    /\ \A i \in DOMAIN invite : i \in DOMAIN invite' /\ invite'[i].referral = invite[i].referral

LEMMA KnowsStays ==
    ASSUME NEW s, Knows(s), RowsStay, request'[s] = request[s]
    PROVE  Knows(s)'
<1>1. CASE request[s] = Idle
  BY <1>1 DEF Knows
<1>2. CASE request[s] # Idle
  BY <1>2 DEF Knows, RowsStay, Papered
<1> QED
  BY <1>1, <1>2

\* A sequence of rows of one kind is one of a wider kind.
LEMMA SeqOfSubset ==
    ASSUME NEW S, NEW T, S \subseteq T, NEW s \in Seq(S)
    PROVE  s \in Seq(T)
<1>1. s \in [1 .. Len(s) -> S] /\ Len(s) \in Nat
  OBVIOUS
<1>2. s \in [1 .. Len(s) -> T]
  BY <1>1
<1> QED
  BY <1>1, <1>2

\* The tables, row by row.
LEMMA JoinRows ==
    ASSUME Joining!TypeOK
    PROVE  /\ \A p \in DOMAIN partner : p \in Person /\ partner[p] \in PartnerRow
           /\ \A p \in DOMAIN partner : /\ partner[p].status \in {"REGISTERED", "PENDING_APPROVAL", "APPROVED", "REJECTED"}
                                        /\ partner[p].papers \in BOOLEAN /\ partner[p].bank \in Bank \cup {None}
                                        /\ partner[p].link \in (1 .. Len(invite)) \cup {None}
           /\ invite \in Seq(InviteRow) /\ DOMAIN invite = 1 .. Len(invite) /\ Len(invite) \in Nat
           /\ \A i \in DOMAIN invite : /\ invite[i] \in InviteRow
                                       /\ invite[i].referral \in (1 .. Len(referral)) \cup {None}
                                       /\ invite[i].usedBy \in Person \cup {None} /\ invite[i].dead \in BOOLEAN
           /\ referral \in Seq(ReferralRow) /\ DOMAIN referral = 1 .. Len(referral) /\ Len(referral) \in Nat
           /\ \A f \in DOMAIN referral : /\ referral[f] \in ReferralRow
                                         /\ referral[f].person \in Person
                                         /\ referral[f].status \in Joining!ReferralStatus
                                         /\ referral[f].joined \in Person \cup {None}
<1>1. \A p \in DOMAIN partner : p \in Person /\ partner[p] \in PartnerRow
  BY DEF Joining!TypeOK, PartnerRow
<1>2. \A x \in PartnerRow : /\ x.status \in {"REGISTERED", "PENDING_APPROVAL", "APPROVED", "REJECTED"}
                            /\ x.papers \in BOOLEAN /\ x.bank \in Bank \cup {None}
                            /\ x.link \in (1 .. Len(invite)) \cup {None}
  BY DEF PartnerRow
<1>3. invite \in Seq(InviteRow)
  BY DEF Joining!TypeOK, InviteRow
<1>4. \A x \in InviteRow : /\ x.referral \in (1 .. Len(referral)) \cup {None}
                           /\ x.usedBy \in Person \cup {None} /\ x.dead \in BOOLEAN
  BY DEF InviteRow
<1>5. referral \in Seq(ReferralRow)
  BY DEF Joining!TypeOK, ReferralRow
<1>6. \A x \in ReferralRow : x.person \in Person /\ x.status \in Joining!ReferralStatus /\ x.joined \in Person \cup {None}
  BY DEF ReferralRow
<1>7. DOMAIN invite = 1 .. Len(invite) /\ Len(invite) \in Nat /\ \A i \in DOMAIN invite : invite[i] \in InviteRow
  BY <1>3
<1>8. DOMAIN referral = 1 .. Len(referral) /\ Len(referral) \in Nat /\ \A f \in DOMAIN referral : referral[f] \in ReferralRow
  BY <1>5
<1> QED
  BY <1>1, <1>2, <1>3, <1>4, <1>5, <1>6, <1>7, <1>8

\* Steps that leave the tables alone.
LEMMA TablesSame ==
    ASSUME JoinInv, UNCHANGED <<partner, invite, referral>>
    PROVE  Joining!TypeOK' /\ Joining!ApprovedOnPapers' /\ RowsStay
BY DEF JoinInv, Joining!TypeOK, Joining!ApprovedOnPapers, RowsStay

\* One request steps, the others know what they knew.
LEMMA OneSteps ==
    ASSUME JoinInv, Joining!TypeOK', Joining!ApprovedOnPapers', RowsStay,
           NEW r \in Request, NEW q, request' = [request EXCEPT ![r] = q], Knows(r)'
    PROVE  JoinInv'
<1>1. ASSUME NEW s \in Request, s # r PROVE Knows(s)'
  BY <1>1, KnowsStays DEF JoinInv
<1> QED
  BY <1>1 DEF JoinInv

LEMMA NoneSteps ==
    ASSUME JoinInv, Joining!TypeOK', Joining!ApprovedOnPapers', RowsStay, request' = request
    PROVE  JoinInv'
BY KnowsStays DEF JoinInv

LEMMA JoinInvFirst == Joining!Init => JoinInv
BY DEF Joining!Init, JoinInv, Joining!TypeOK, Joining!ApprovedOnPapers, Knows

\* One row changes, to x.
PutPartner(p, x) == [partner EXCEPT ![p] = x]
PutInvite(i, x) == [invite EXCEPT ![i] = x]
PutReferral(f, x) == [referral EXCEPT ![f] = x]

\* A row of a partner changes, and what it needs to be approved stays.
LEMMA PartnerChanges ==
    ASSUME JoinInv, NEW p \in DOMAIN partner, NEW x \in PartnerRow, partner' = PutPartner(p, x),
           UNCHANGED <<invite, referral>>,
           partner[p].papers => x.papers, partner[p].bank # None => x.bank # None,
           x.status \in {"PENDING_APPROVAL", "APPROVED"} => x.papers /\ x.bank # None
    PROVE  /\ Joining!TypeOK' /\ Joining!ApprovedOnPapers' /\ RowsStay
           /\ DOMAIN partner' = DOMAIN partner /\ partner'[p] = x
           /\ \A s \in DOMAIN partner : s # p => partner'[s] = partner[s]
<1>1. /\ DOMAIN partner' = DOMAIN partner /\ partner'[p] = x
      /\ \A s \in DOMAIN partner : s # p => partner'[s] = partner[s]
  BY DEF PutPartner
<1>2. \A s \in DOMAIN partner' : partner'[s] \in PartnerRow
  BY <1>1, JoinRows DEF JoinInv
<1>3. Joining!TypeOK'
  BY <1>1, <1>2 DEF JoinInv, Joining!TypeOK, PartnerRow
<1>4. Joining!ApprovedOnPapers'
  BY <1>1 DEF JoinInv, Joining!ApprovedOnPapers
<1>5. RowsStay
  BY <1>1 DEF RowsStay
<1> QED
  BY <1>1, <1>3, <1>4, <1>5

\* A newcomer joins.
LEMMA PartnerJoins ==
    ASSUME JoinInv, NEW p \in Person, p \notin DOMAIN partner, NEW link \in DOMAIN invite \cup {None},
           partner' = Joining!Joins(p, link), UNCHANGED <<invite, referral>>
    PROVE  /\ Joining!TypeOK' /\ Joining!ApprovedOnPapers' /\ RowsStay
           /\ DOMAIN partner' = DOMAIN partner \cup {p} /\ partner'[p] = Joining!NewPartner(link)
           /\ \A s \in DOMAIN partner : partner'[s] = partner[s]
<1>1. /\ DOMAIN partner' = DOMAIN partner \cup {p} /\ partner'[p] = Joining!NewPartner(link)
      /\ \A s \in DOMAIN partner : partner'[s] = partner[s]
  BY DEF Joining!Joins
<1>2. Joining!NewPartner(link) \in PartnerRow /\ Joining!NewPartner(link).status = "REGISTERED"
  BY JoinRows DEF JoinInv, Joining!NewPartner, PartnerRow
<1>3. \A s \in DOMAIN partner' : partner'[s] \in PartnerRow /\ s \in Person
  BY <1>1, <1>2, JoinRows DEF JoinInv
<1>4. Joining!TypeOK'
  BY <1>3 DEF JoinInv, Joining!TypeOK, PartnerRow
<1>5. Joining!ApprovedOnPapers'
  BY <1>1, <1>2 DEF JoinInv, Joining!ApprovedOnPapers
<1>6. RowsStay
  BY <1>1 DEF RowsStay
<1> QED
  BY <1>1, <1>4, <1>5, <1>6

\* The links change, and none is taken away.
LEMMA LinksChange ==
    ASSUME JoinInv, invite' \in Seq(InviteRow), Len(invite') >= Len(invite), UNCHANGED partner,
           Len(referral') >= Len(referral), referral' \in Seq(ReferralRow),
           \A i \in DOMAIN invite : invite'[i].referral = invite[i].referral
    PROVE  Joining!TypeOK' /\ Joining!ApprovedOnPapers' /\ RowsStay
<1>1. Len(invite) \in Nat /\ Len(invite') \in Nat /\ Len(referral) \in Nat /\ Len(referral') \in Nat
      /\ DOMAIN invite = 1 .. Len(invite) /\ DOMAIN invite' = 1 .. Len(invite')
      /\ DOMAIN referral = 1 .. Len(referral) /\ DOMAIN referral' = 1 .. Len(referral')
  BY JoinRows DEF JoinInv
<1>2. 1 .. Len(invite) \subseteq 1 .. Len(invite') /\ 1 .. Len(referral) \subseteq 1 .. Len(referral')
  BY <1>1
<1>3. InviteRow \subseteq InviteRow'
  BY <1>2 DEF InviteRow
<1>4. invite' \in Seq(InviteRow')
  BY <1>3, SeqOfSubset
<1>5. \A p \in DOMAIN partner : partner[p] \in PartnerRow'
  BY <1>2, JoinRows DEF JoinInv, PartnerRow
<1>6. Joining!TypeOK'
  BY <1>4, <1>5 DEF JoinInv, Joining!TypeOK, PartnerRow, InviteRow, ReferralRow
<1>7. RowsStay
  BY <1>1, <1>2 DEF RowsStay
<1> QED
  BY <1>6, <1>7 DEF JoinInv, Joining!ApprovedOnPapers

\* A link changes, but not whom it was sent to.
LEMMA LinkChanges ==
    ASSUME JoinInv, NEW i \in DOMAIN invite, NEW x \in InviteRow, invite' = PutInvite(i, x),
           UNCHANGED <<partner, referral>>, x.referral = invite[i].referral
    PROVE  /\ Joining!TypeOK' /\ Joining!ApprovedOnPapers' /\ RowsStay
           /\ DOMAIN invite' = DOMAIN invite /\ invite'[i] = x
           /\ \A j \in DOMAIN invite : j # i => invite'[j] = invite[j]
<1>1. invite \in Seq(InviteRow) /\ Len(invite) \in Nat /\ referral \in Seq(ReferralRow) /\ Len(referral) \in Nat
  BY JoinRows DEF JoinInv
<1>2. /\ invite' \in Seq(InviteRow) /\ Len(invite') = Len(invite)
      /\ DOMAIN invite' = DOMAIN invite /\ invite'[i] = x
      /\ \A j \in DOMAIN invite : j # i => invite'[j] = invite[j]
  BY <1>1 DEF PutInvite
<1>3. \A j \in DOMAIN invite : invite'[j].referral = invite[j].referral
  BY <1>2
<1>4. Len(invite') >= Len(invite) /\ Len(referral') >= Len(referral) /\ referral' \in Seq(ReferralRow)
  BY <1>1, <1>2
<1> QED
  BY <1>2, <1>3, <1>4, LinksChange

\* An introduction changes.
LEMMA ReferralChanges ==
    ASSUME JoinInv, NEW f \in DOMAIN referral, NEW x \in ReferralRow, referral' = PutReferral(f, x),
           UNCHANGED <<partner, invite>>
    PROVE  /\ Joining!TypeOK' /\ Joining!ApprovedOnPapers' /\ RowsStay
           /\ DOMAIN referral' = DOMAIN referral
<1>1. invite \in Seq(InviteRow) /\ Len(invite) \in Nat /\ referral \in Seq(ReferralRow) /\ Len(referral) \in Nat
  BY JoinRows DEF JoinInv
<1>2. referral' \in Seq(ReferralRow) /\ Len(referral') = Len(referral) /\ DOMAIN referral' = DOMAIN referral
  BY <1>1 DEF PutReferral
<1>3. Len(invite') >= Len(invite) /\ Len(referral') >= Len(referral) /\ invite' \in Seq(InviteRow)
  BY <1>1, <1>2
<1> QED
  BY <1>2, <1>3, LinksChange

LEMMA CreateInviteKeeps ==
    ASSUME JoinInv, Joining!CreateInvite
    PROVE  JoinInv'
<1>1. PICK x : x = [referral |-> None, usedBy |-> None, dead |-> FALSE]
  OBVIOUS
<1>2. invite' = Append(invite, x) /\ UNCHANGED <<partner, referral, request>> /\ x \in InviteRow
  BY <1>1 DEF Joining!CreateInvite, InviteRow
<1>3. invite \in Seq(InviteRow) /\ Len(invite) \in Nat /\ referral \in Seq(ReferralRow) /\ Len(referral) \in Nat
  BY JoinRows DEF JoinInv
<1>4. /\ invite' \in Seq(InviteRow) /\ Len(invite') >= Len(invite)
      /\ \A i \in DOMAIN invite : invite'[i] = invite[i]
      /\ Len(referral') >= Len(referral) /\ referral' \in Seq(ReferralRow)
  BY <1>2, <1>3
<1>5. \A i \in DOMAIN invite : invite'[i].referral = invite[i].referral
  BY <1>4
<1> QED
  BY <1>2, <1>4, <1>5, LinksChange, NoneSteps

LEMMA EndInviteKeeps ==
    ASSUME JoinInv, NEW i \in DOMAIN invite, Joining!EndInvite(i)
    PROVE  JoinInv'
<1>1. PICK x : x = [invite[i] EXCEPT !.dead = TRUE]
  OBVIOUS
<1>2. invite' = PutInvite(i, x) /\ UNCHANGED <<partner, referral, request>>
  BY <1>1 DEF Joining!EndInvite, PutInvite
<1>3. invite[i] \in InviteRow
  BY JoinRows DEF JoinInv
<1>4. x \in InviteRow /\ x.referral = invite[i].referral
  BY <1>1, <1>3 DEF InviteRow
<1> QED
  BY <1>2, <1>4, LinkChanges, NoneSteps

LEMMA ChangeStatusKeeps ==
    ASSUME JoinInv, NEW f \in DOMAIN referral, NEW status \in Joining!ReferralStatus, Joining!ChangeStatus(f, status)
    PROVE  JoinInv'
<1>1. PICK x : x = [referral[f] EXCEPT !.status = status]
  OBVIOUS
<1>2. referral' = PutReferral(f, x) /\ UNCHANGED <<partner, invite, request>>
  BY <1>1 DEF Joining!ChangeStatus, PutReferral
<1>3. referral[f] \in ReferralRow
  BY JoinRows DEF JoinInv
<1>4. x \in ReferralRow
  BY <1>1, <1>3 DEF ReferralRow
<1> QED
  BY <1>2, <1>4, ReferralChanges, NoneSteps

LEMMA AddPartnerKeeps ==
    ASSUME JoinInv, NEW p \in Person, Joining!AddPartner(p)
    PROVE  JoinInv'
<1>1. p \notin DOMAIN partner /\ partner' = Joining!Joins(p, None) /\ UNCHANGED <<invite, referral, request>>
  BY DEF Joining!AddPartner
<1> QED
  BY <1>1, PartnerJoins, NoneSteps

\* What becomes of the row of a partner.
LEMMA RowUpdates ==
    ASSUME JoinInv, NEW p \in DOMAIN partner
    PROVE  /\ LET x == [partner[p] EXCEPT !.papers = TRUE] IN
                  /\ x \in PartnerRow /\ x.status = partner[p].status /\ x.papers /\ x.bank = partner[p].bank /\ x.link = partner[p].link
           /\ \A b \in Bank : LET x == [partner[p] EXCEPT !.bank = b] IN
                  /\ x \in PartnerRow /\ x.status = partner[p].status /\ (partner[p].papers => x.papers) /\ x.bank = b /\ x.link = partner[p].link
           /\ \A status \in {"PENDING_APPROVAL", "APPROVED", "REJECTED"} : LET x == [partner[p] EXCEPT !.status = status] IN
                  /\ x \in PartnerRow /\ x.status = status /\ (partner[p].papers => x.papers) /\ x.bank = partner[p].bank /\ x.link = partner[p].link
<1>1. partner[p] \in PartnerRow
  BY JoinRows DEF JoinInv
<1> QED
  BY <1>1 DEF PartnerRow

LEMMA SaveDocumentsKeeps ==
    ASSUME JoinInv, NEW p \in DOMAIN partner, Joining!SaveDocuments(p)
    PROVE  JoinInv'
<1>1. PICK x : x = [partner[p] EXCEPT !.papers = TRUE]
  OBVIOUS
<1>2. partner' = PutPartner(p, x) /\ UNCHANGED <<invite, referral, request>>
  BY <1>1 DEF Joining!SaveDocuments, PutPartner
<1>3. x \in PartnerRow /\ x.status = partner[p].status /\ x.papers /\ x.bank = partner[p].bank
  BY <1>1, RowUpdates
<1>4. x.status \in {"PENDING_APPROVAL", "APPROVED"} => x.bank # None
  BY <1>3 DEF JoinInv, Joining!ApprovedOnPapers
<1> QED
  BY <1>2, <1>3, <1>4, PartnerChanges, NoneSteps

LEMMA SaveBankByAdminKeeps ==
    ASSUME JoinInv, None \notin Bank, NEW p \in DOMAIN partner, NEW b \in Bank, Joining!SaveBankByAdmin(p, b)
    PROVE  JoinInv'
<1>1. PICK x : x = [partner[p] EXCEPT !.bank = b]
  OBVIOUS
<1>2. partner' = PutPartner(p, x) /\ UNCHANGED <<invite, referral, request>>
  BY <1>1 DEF Joining!SaveBankByAdmin, PutPartner
<1>3. x \in PartnerRow /\ x.status = partner[p].status /\ (partner[p].papers => x.papers) /\ x.bank # None
  BY <1>1, RowUpdates
<1>4. x.status \in {"PENDING_APPROVAL", "APPROVED"} => x.papers
  BY <1>3 DEF JoinInv, Joining!ApprovedOnPapers
<1> QED
  BY <1>2, <1>3, <1>4, PartnerChanges, NoneSteps

LEMMA RejectKeeps ==
    ASSUME JoinInv, NEW p \in DOMAIN partner, Joining!Reject(p)
    PROVE  JoinInv'
<1>1. PICK x : x = [partner[p] EXCEPT !.status = "REJECTED"]
  OBVIOUS
<1>2. partner' = PutPartner(p, x) /\ UNCHANGED <<invite, referral, request>>
  BY <1>1 DEF Joining!Reject, PutPartner
<1>3. x \in PartnerRow /\ x.status = "REJECTED" /\ (partner[p].papers => x.papers) /\ x.bank = partner[p].bank
  BY <1>1, RowUpdates
<1> QED
  BY <1>2, <1>3, PartnerChanges, NoneSteps

\* A request begins: it knows what it is about to write.
LEMMA BeginKeeps ==
    ASSUME JoinInv, NEW r \in Request, NEW q, Joining!Begins(r, q),
           q.op \in {"introduce", "invite", "create", "bank", "submit", "approve"},
           q.op = "introduce" => q.person \in Person,
           q.op = "invite" => q.f \in DOMAIN referral /\ q.live \in DOMAIN invite \cup {None},
           q.op = "create" => /\ q.person \in Person /\ q.link \in DOMAIN invite \cup {None}
                              /\ q = [op |-> q.op, person |-> q.person, link |-> q.link],
           q.op = "bank" => q.person \in DOMAIN partner /\ q.bank \in Bank,
           q.op \in {"submit", "approve"} => Papered(q.person)
    PROVE  JoinInv'
<1>1. request' = [request EXCEPT ![r] = q] /\ UNCHANGED <<partner, invite, referral>>
  BY DEF Joining!Begins
<1>2. request'[r] = q
  BY <1>1 DEF JoinInv
<1>3. Knows(r)'
  BY <1>1, <1>2 DEF Knows, Papered
<1> QED
  BY <1>1, <1>3, TablesSame, OneSteps

LEMMA BeginIntroduceKeeps ==
    ASSUME JoinInv, NEW r \in Request, NEW p \in Person, NEW referrer, Joining!BeginIntroduce(r, p, referrer)
    PROVE  JoinInv'
<1>1. PICK q : q = [op |-> "introduce", person |-> p]
  OBVIOUS
<1>2. Joining!Begins(r, q) /\ q.op = "introduce" /\ q.person = p
  BY <1>1 DEF Joining!BeginIntroduce
<1> QED
  BY <1>2, BeginKeeps

\* The newest of some links.
LEMMA NewestLink ==
    ASSUME JoinInv, NEW S \in SUBSET DOMAIN invite, S # {}
    PROVE  Joining!Max(S) \in S /\ \A i \in S : i <= Joining!Max(S)
<1>1. Len(invite) \in Nat /\ DOMAIN invite = 1 .. Len(invite)
  BY JoinRows DEF JoinInv
<1>2. \E x \in S : \A y \in S : x >= y
  BY <1>1, GreatestUpTo
<1>3. Joining!Max(S) \in S /\ \A y \in S : Joining!Max(S) >= y
  BY <1>2, Zenon DEF Joining!Max
<1> QED
  BY <1>1, <1>3

LEMMA BeginInviteForKeeps ==
    ASSUME JoinInv, NEW r \in Request, NEW f \in DOMAIN referral, Joining!BeginInviteFor(r, f)
    PROVE  JoinInv'
<1>1. PICK live : live = IF Joining!LinksOf(f) = {} THEN None ELSE Joining!Max(Joining!LinksOf(f))
  OBVIOUS
<1>2. PICK q : q = [op |-> "invite", f |-> f, live |-> live, new |-> referral[f].status = "NEW"]
  OBVIOUS
<1>3. Joining!LinksOf(f) \in SUBSET DOMAIN invite
  BY DEF Joining!LinksOf
<1>4. live \in DOMAIN invite \cup {None}
  BY <1>1, <1>3, NewestLink
<1>5. Joining!Begins(r, q) /\ q.op = "invite" /\ q.f = f /\ q.live = live
  BY <1>1, <1>2, Zenon DEF Joining!BeginInviteFor
<1> QED
  BY <1>4, <1>5, BeginKeeps

LEMMA BeginRegisterKeeps ==
    ASSUME JoinInv, NEW r \in Request, NEW p \in Person, NEW link \in DOMAIN invite \cup {None}, Joining!BeginRegister(r, p, link)
    PROVE  JoinInv'
<1>1. PICK good : good = IF link # None /\ Joining!Live(link) THEN link ELSE None
  OBVIOUS
<1>2. PICK q : q = [op |-> "create", person |-> p, link |-> good]
  OBVIOUS
<1>3. Joining!Begins(r, q) /\ q.op = "create" /\ q.person = p /\ q.link = good /\ q = [op |-> q.op, person |-> q.person, link |-> q.link]
  BY <1>1, <1>2, Zenon DEF Joining!BeginRegister
<1>4. good \in DOMAIN invite \cup {None}
  BY <1>1
<1> QED
  BY <1>3, <1>4, BeginKeeps

LEMMA BeginSaveBankKeeps ==
    ASSUME JoinInv, NEW r \in Request, NEW p \in DOMAIN partner, NEW b \in Bank, Joining!BeginSaveBank(r, p, b)
    PROVE  JoinInv'
<1>1. PICK q : q = [op |-> "bank", person |-> p, bank |-> b]
  OBVIOUS
<1>2. Joining!Begins(r, q) /\ q.op = "bank" /\ q.person = p /\ q.bank = b
  BY <1>1 DEF Joining!BeginSaveBank
<1> QED
  BY <1>2, BeginKeeps

LEMMA BeginSubmitKeeps ==
    ASSUME JoinInv, NEW r \in Request, NEW p \in DOMAIN partner, Joining!BeginSubmit(r, p)
    PROVE  JoinInv'
<1>1. PICK q : q = [op |-> "submit", person |-> p]
  OBVIOUS
<1>2. Joining!Begins(r, q) /\ q.op = "submit" /\ q.person = p /\ Papered(p)
  BY <1>1 DEF Joining!BeginSubmit, Papered
<1> QED
  BY <1>2, BeginKeeps

LEMMA BeginApproveKeeps ==
    ASSUME JoinInv, NEW r \in Request, NEW p \in DOMAIN partner, Joining!BeginApprove(r, p)
    PROVE  JoinInv'
<1>1. PICK q : q = [op |-> "approve", person |-> p]
  OBVIOUS
<1>2. Joining!Begins(r, q) /\ q.op = "approve" /\ q.person = p /\ partner[p].status = "PENDING_APPROVAL"
  BY <1>1 DEF Joining!BeginApprove
<1>3. Papered(p)
  BY <1>2 DEF Papered, JoinInv, Joining!ApprovedOnPapers
<1> QED
  BY <1>2, <1>3, BeginKeeps

LEMMA FinishIntroduceKeeps ==
    ASSUME JoinInv, NEW r \in Request, Joining!FinishIntroduce(r)
    PROVE  JoinInv'
<1>1. PICK x : x = [person |-> request[r].person, status |-> "NEW", joined |-> None]
  OBVIOUS
<1>2. /\ request[r] # Idle /\ request[r].op = "introduce" /\ request' = [request EXCEPT ![r] = Idle]
      /\ UNCHANGED <<partner, invite>> /\ referral' = Append(referral, x)
  BY <1>1 DEF Joining!FinishIntroduce, Joining!At, Joining!Becomes
<1>3. request[r].person \in Person
  BY <1>2 DEF JoinInv, Knows
<1>4. x \in ReferralRow
  BY <1>1, <1>3 DEF ReferralRow, Joining!ReferralStatus, Joining!OpenReferral
<1>5. invite \in Seq(InviteRow) /\ Len(invite) \in Nat /\ referral \in Seq(ReferralRow) /\ Len(referral) \in Nat
  BY JoinRows DEF JoinInv
<1>6. Len(invite') >= Len(invite) /\ Len(referral') >= Len(referral) /\ invite' \in Seq(InviteRow) /\ referral' \in Seq(ReferralRow)
  BY <1>2, <1>4, <1>5
<1>7. \A i \in DOMAIN invite : invite'[i].referral = invite[i].referral
  BY <1>2
<1>8. Knows(r)'
  BY <1>2 DEF JoinInv, Knows
<1> QED
  BY <1>2, <1>6, <1>7, <1>8, LinksChange, OneSteps

LEMMA FinishInviteForKeeps ==
    ASSUME JoinInv, NEW r \in Request, Joining!FinishInviteFor(r)
    PROVE  JoinInv'
<1>1. PICK q : q = request[r]
  OBVIOUS
<1>2. PICK x : x = [referral |-> q.f, usedBy |-> None, dead |-> FALSE]
  OBVIOUS
<1>3. /\ request[r] # Idle /\ q.op = "invite" /\ request' = [request EXCEPT ![r] = Idle] /\ UNCHANGED partner
      /\ invite' = Append(Joining!Revoked(q.live), x)
      /\ referral' = IF q.new THEN [referral EXCEPT ![q.f].status = "CONTACTED"] ELSE referral
  BY <1>1, <1>2 DEF Joining!FinishInviteFor, Joining!At, Joining!Becomes
<1>4. q.f \in DOMAIN referral /\ q.live \in DOMAIN invite \cup {None}
  BY <1>1, <1>3 DEF JoinInv, Knows
<1>5. invite \in Seq(InviteRow) /\ Len(invite) \in Nat /\ referral \in Seq(ReferralRow) /\ Len(referral) \in Nat
      /\ DOMAIN referral = 1 .. Len(referral) /\ DOMAIN invite = 1 .. Len(invite)
      /\ (\A i \in DOMAIN invite : invite[i] \in InviteRow) /\ (\A f \in DOMAIN referral : referral[f] \in ReferralRow)
  BY JoinRows DEF JoinInv
<1>6. x \in InviteRow
  BY <1>2, <1>4, <1>5 DEF InviteRow
<1>7. PICK rev : rev = Joining!Revoked(q.live)
  OBVIOUS
<1>8. /\ rev \in Seq(InviteRow) /\ Len(rev) = Len(invite)
      /\ \A i \in DOMAIN invite : rev[i].referral = invite[i].referral
  <2>1. CASE q.live = None
    BY <1>5, <1>7, <2>1 DEF Joining!Revoked
  <2>2. CASE q.live # None
    <3>1. PICK y : y = [invite[q.live] EXCEPT !.dead = TRUE]
      OBVIOUS
    <3>2. y \in InviteRow /\ y.referral = invite[q.live].referral
      BY <1>4, <1>5, <2>2, <3>1 DEF InviteRow
    <3>3. rev = [invite EXCEPT ![q.live] = y]
      BY <1>7, <2>2, <3>1 DEF Joining!Revoked
    <3> QED
      BY <1>4, <1>5, <2>2, <3>2, <3>3
  <2> QED
    BY <2>1, <2>2
<1>9. /\ invite' \in Seq(InviteRow) /\ Len(invite') >= Len(invite)
      /\ \A i \in DOMAIN invite : invite'[i] = rev[i]
  BY <1>3, <1>5, <1>6, <1>7, <1>8
<1>10. \A i \in DOMAIN invite : invite'[i].referral = invite[i].referral
  BY <1>8, <1>9
<1>11. referral' \in Seq(ReferralRow) /\ Len(referral') >= Len(referral)
  <2>1. PICK y : y = [referral[q.f] EXCEPT !.status = "CONTACTED"]
    OBVIOUS
  <2>2. y \in ReferralRow
    BY <1>4, <1>5, <2>1 DEF ReferralRow, Joining!ReferralStatus, Joining!OpenReferral
  <2>3. referral' = referral \/ referral' = [referral EXCEPT ![q.f] = y]
    BY <1>3, <2>1
  <2> QED
    BY <1>4, <1>5, <2>2, <2>3
<1>12. Knows(r)'
  BY <1>3 DEF JoinInv, Knows
<1> QED
  BY <1>3, <1>9, <1>10, <1>11, <1>12, LinksChange, OneSteps

LEMMA CreateAccountKeeps ==
    ASSUME JoinInv, NEW r \in Request, Joining!CreateAccount(r)
    PROVE  JoinInv'
<1>1. PICK q : q = request[r]
  OBVIOUS
<1>2. request[r] # Idle /\ q.op = "create" /\ UNCHANGED <<invite, referral>>
  BY <1>1 DEF Joining!CreateAccount, Joining!At
<1>3. q.person \in Person /\ q.link \in DOMAIN invite \cup {None}
  BY <1>1, <1>2 DEF JoinInv, Knows
<1>4. CASE q.person \in DOMAIN partner
  <2>1. request' = [request EXCEPT ![r] = Idle] /\ partner' = partner
    BY <1>1, <1>4 DEF Joining!CreateAccount, Joining!Becomes
  <2>2. Knows(r)'
    BY <2>1 DEF JoinInv, Knows
  <2> QED
    BY <1>2, <2>1, <2>2, TablesSame, OneSteps
<1>5. CASE q.person \notin DOMAIN partner
  <2>1. PICK n : n = IF q.link = None THEN Idle ELSE [q EXCEPT !.op = "markUsed"]
    OBVIOUS
  <2>2. request' = [request EXCEPT ![r] = n] /\ partner' = Joining!Joins(q.person, q.link)
    BY <1>1, <1>5, <2>1 DEF Joining!CreateAccount, Joining!Becomes
  <2>3. request'[r] = n
    BY <2>2 DEF JoinInv
  <2>4. n = Idle \/ (/\ n.op = "markUsed" /\ n.person = q.person /\ n.link = q.link /\ q.link # None
                     /\ n = [op |-> n.op, person |-> n.person, link |-> n.link])
    <3>1. CASE q.link = None
      BY <2>1, <3>1
    <3>2. CASE q.link # None
      <4>1. n = [q EXCEPT !.op = "markUsed"]
        BY <2>1, <3>2
      <4>2. q = [op |-> q.op, person |-> q.person, link |-> q.link]
        BY <1>1, <1>2 DEF JoinInv, Knows
      <4> QED
        BY <3>2, <4>1, <4>2
    <3> QED
      BY <3>1, <3>2
  <2>5. Knows(r)'
    BY <1>2, <1>3, <2>3, <2>4 DEF Knows
  <2> QED
    BY <1>2, <1>3, <1>5, <2>2, <2>5, PartnerJoins, OneSteps
<1> QED
  BY <1>4, <1>5

LEMMA MarkUsedKeeps ==
    ASSUME JoinInv, NEW r \in Request, Joining!MarkUsed(r)
    PROVE  JoinInv'
<1>1. PICK q : q = request[r]
  OBVIOUS
<1>2. PICK n : n = IF invite[q.link].referral = None THEN Idle ELSE [q EXCEPT !.op = "markJoined"]
  OBVIOUS
<1>3. PICK x : x = [invite[q.link] EXCEPT !.usedBy = q.person]
  OBVIOUS
<1>4. /\ request[r] # Idle /\ q.op = "markUsed" /\ UNCHANGED <<partner, referral>>
      /\ invite' = PutInvite(q.link, x) /\ request' = [request EXCEPT ![r] = n]
  BY <1>1, <1>2, <1>3 DEF Joining!MarkUsed, Joining!At, Joining!Becomes, PutInvite
<1>5. q.person \in Person /\ q.link \in DOMAIN invite /\ q = [op |-> q.op, person |-> q.person, link |-> q.link]
  BY <1>1, <1>4 DEF JoinInv, Knows
<1>6. invite[q.link] \in InviteRow
  BY <1>5, JoinRows DEF JoinInv
<1>7. x \in InviteRow /\ x.referral = invite[q.link].referral
  BY <1>3, <1>5, <1>6 DEF InviteRow
<1>8. DOMAIN invite' = DOMAIN invite /\ invite'[q.link] = x
  BY <1>4, <1>5, <1>7, LinkChanges
<1>9. n = Idle \/ (n.op = "markJoined" /\ n.person = q.person /\ n.link = q.link /\ invite[q.link].referral # None)
  BY <1>2, <1>5
<1>10. request'[r] = n
  BY <1>4 DEF JoinInv
<1>11. Knows(r)'
  BY <1>5, <1>7, <1>8, <1>9, <1>10 DEF Knows
<1> QED
  BY <1>4, <1>5, <1>7, <1>11, LinkChanges, OneSteps

LEMMA MarkJoinedKeeps ==
    ASSUME JoinInv, None \notin Nat, NEW r \in Request, Joining!MarkJoined(r)
    PROVE  JoinInv'
<1>1. PICK q, f : q = request[r] /\ f = invite[q.link].referral
  OBVIOUS
<1>2. PICK x : x = [referral[f] EXCEPT !.status = "JOINED", !.joined = q.person]
  OBVIOUS
<1>3. /\ request[r] # Idle /\ q.op = "markJoined" /\ UNCHANGED <<partner, invite>>
      /\ referral' = PutReferral(f, x) /\ request' = [request EXCEPT ![r] = Idle]
  BY <1>1, <1>2 DEF Joining!MarkJoined, Joining!At, Joining!Becomes, PutReferral
<1>4. q.person \in Person /\ q.link \in DOMAIN invite /\ f # None
  BY <1>1, <1>3 DEF JoinInv, Knows
<1>5. f \in DOMAIN referral /\ referral[f] \in ReferralRow
  BY <1>1, <1>4, JoinRows DEF JoinInv
<1>6. x \in ReferralRow
  <2>1. PICK y : y = [referral[f] EXCEPT !.status = "JOINED"]
    OBVIOUS
  <2>2. y \in ReferralRow
    BY <1>5, <2>1 DEF ReferralRow, Joining!ReferralStatus
  <2>3. x = [y EXCEPT !.joined = q.person]
    BY <1>2, <1>5, <2>1 DEF ReferralRow
  <2> QED
    BY <1>4, <2>2, <2>3 DEF ReferralRow
<1>7. Knows(r)'
  BY <1>3 DEF JoinInv, Knows
<1> QED
  BY <1>3, <1>5, <1>6, <1>7, ReferralChanges, OneSteps

LEMMA BreakOffKeeps ==
    ASSUME JoinInv, NEW r \in Request, Joining!BreakOff(r)
    PROVE  JoinInv'
<1>1. request' = [request EXCEPT ![r] = Idle] /\ UNCHANGED <<partner, invite, referral>>
  BY DEF Joining!BreakOff, Joining!Becomes
<1>2. Knows(r)'
  BY <1>1 DEF JoinInv, Knows
<1> QED
  BY <1>1, <1>2, TablesSame, OneSteps

LEMMA FinishSaveBankKeeps ==
    ASSUME JoinInv, None \notin Bank, NEW r \in Request, Joining!FinishSaveBank(r)
    PROVE  JoinInv'
<1>1. PICK p, b : p = request[r].person /\ b = request[r].bank
  OBVIOUS
<1>2. PICK x : x = [partner[p] EXCEPT !.bank = b]
  OBVIOUS
<1>3. /\ request[r] # Idle /\ request[r].op = "bank" /\ UNCHANGED <<invite, referral>>
      /\ partner' = PutPartner(p, x) /\ request' = [request EXCEPT ![r] = Idle]
  BY <1>1, <1>2 DEF Joining!FinishSaveBank, Joining!At, Joining!Becomes, PutPartner
<1>4. p \in DOMAIN partner /\ b \in Bank
  BY <1>1, <1>3 DEF JoinInv, Knows
<1>5. x \in PartnerRow /\ x.status = partner[p].status /\ (partner[p].papers => x.papers) /\ x.bank # None
  BY <1>2, <1>4, RowUpdates
<1>6. x.status \in {"PENDING_APPROVAL", "APPROVED"} => x.papers
  BY <1>4, <1>5 DEF JoinInv, Joining!ApprovedOnPapers
<1>7. Knows(r)'
  BY <1>3 DEF JoinInv, Knows
<1> QED
  BY <1>3, <1>4, <1>5, <1>6, <1>7, PartnerChanges, OneSteps

LEMMA FinishDecisionKeeps ==
    ASSUME JoinInv, NEW r \in Request, Joining!FinishDecision(r)
    PROVE  JoinInv'
<1>1. PICK p, status : p = request[r].person /\ status = Joining!StatusAfter[request[r].op]
  OBVIOUS
<1>2. PICK x : x = [partner[p] EXCEPT !.status = status]
  OBVIOUS
<1>3. /\ request[r] # Idle /\ request[r].op \in {"submit", "approve"} /\ UNCHANGED <<invite, referral>>
      /\ partner' = PutPartner(p, x) /\ request' = [request EXCEPT ![r] = Idle]
  BY <1>1, <1>2 DEF Joining!FinishDecision, Joining!At, Joining!Becomes, PutPartner
<1>4. status \in {"PENDING_APPROVAL", "APPROVED"}
  BY <1>1, <1>3 DEF Joining!StatusAfter
<1>5. Papered(p)
  BY <1>1, <1>3 DEF JoinInv, Knows
<1>6. x \in PartnerRow /\ x.papers /\ x.bank # None
  BY <1>2, <1>4, <1>5, RowUpdates DEF Papered
<1>7. Knows(r)'
  BY <1>3 DEF JoinInv, Knows
<1> QED
  BY <1>3, <1>5, <1>6, <1>7, PartnerChanges, OneSteps DEF Papered

LEMMA JoinStep ==
    ASSUME JoinInv, None \notin Bank \cup Nat, [Joining!Next]_(Joining!vars)
    PROVE  JoinInv'
<1>1. CASE UNCHANGED Joining!vars
  BY <1>1, TablesSame, NoneSteps DEF Joining!vars
<1>2. CASE Joining!CreateInvite
  BY <1>2, CreateInviteKeeps
<1>3. ASSUME NEW i \in DOMAIN invite, Joining!EndInvite(i) PROVE JoinInv'
  BY <1>3, EndInviteKeeps
<1>4. ASSUME NEW f \in DOMAIN referral, NEW s \in Joining!ReferralStatus, Joining!ChangeStatus(f, s) PROVE JoinInv'
  BY <1>4, ChangeStatusKeeps
<1>5. ASSUME NEW p \in Person, Joining!AddPartner(p) PROVE JoinInv'
  BY <1>5, AddPartnerKeeps
<1>6. ASSUME NEW p \in DOMAIN partner,
             Joining!SaveDocuments(p) \/ Joining!Reject(p) \/ \E b \in Bank : Joining!SaveBankByAdmin(p, b)
      PROVE  JoinInv'
  BY <1>6, SaveDocumentsKeeps, RejectKeeps, SaveBankByAdminKeeps
<1>7. ASSUME NEW r \in Request, NEW p \in Person, NEW referrer, Joining!BeginIntroduce(r, p, referrer) PROVE JoinInv'
  BY <1>7, BeginIntroduceKeeps
<1>8. ASSUME NEW r \in Request, NEW f \in DOMAIN referral, Joining!BeginInviteFor(r, f) PROVE JoinInv'
  BY <1>8, BeginInviteForKeeps
<1>9. ASSUME NEW r \in Request, NEW p \in Person, NEW i \in DOMAIN invite \cup {None}, Joining!BeginRegister(r, p, i) PROVE JoinInv'
  BY <1>9, BeginRegisterKeeps
<1>10. ASSUME NEW r \in Request, NEW p \in DOMAIN partner,
              Joining!BeginSubmit(r, p) \/ Joining!BeginApprove(r, p) \/ \E b \in Bank : Joining!BeginSaveBank(r, p, b)
       PROVE  JoinInv'
  BY <1>10, BeginSubmitKeeps, BeginApproveKeeps, BeginSaveBankKeeps
<1>11. ASSUME NEW r \in Request, \/ Joining!FinishIntroduce(r) \/ Joining!FinishInviteFor(r) \/ Joining!CreateAccount(r)
                                 \/ Joining!MarkUsed(r) \/ Joining!MarkJoined(r) \/ Joining!BreakOff(r)
                                 \/ Joining!FinishSaveBank(r) \/ Joining!FinishDecision(r)
       PROVE  JoinInv'
  BY <1>11, FinishIntroduceKeeps, FinishInviteForKeeps, CreateAccountKeeps, MarkUsedKeeps, MarkJoinedKeeps, BreakOffKeeps,
     FinishSaveBankKeeps, FinishDecisionKeeps
<1> QED
  BY <1>1, <1>2, <1>3, <1>4, <1>5, <1>6, <1>7, <1>8, <1>9, <1>10, <1>11, Zenon DEF Joining!Next

\* However requests overlap and break off, whoever waits for approval or has it
\* has sent the papers and the bank details, and the rows keep their types.
THEOREM ApprovalNeedsPapers ==
    ASSUME None \notin Bank \cup Nat
    PROVE  Joining!Spec => [](Joining!TypeOK /\ Joining!ApprovedOnPapers)
<1>1. Joining!Init => JoinInv
  BY JoinInvFirst
<1>2. JoinInv /\ [Joining!Next]_(Joining!vars) => JoinInv'
  BY JoinStep
<1>3. JoinInv => Joining!TypeOK /\ Joining!ApprovedOnPapers
  BY DEF JoinInv
<1> QED
  BY <1>1, <1>2, <1>3, PTL DEF Joining!Spec

-----------------------------------------------------------------------------
(* Newcomers, of requests that come in turn.                               *)

\* A request about to mark a link as used is not at rest.
Registered == [op : {"markUsed"}, person : Person, link : Nat]

\* What a request has seen is still so.
Sees(r) ==
    request[r] # Idle =>
        LET q == request[r] IN
        /\ q.op = "invite" => \A i \in Joining!LinksOf(q.f) : q.live = i
        /\ q.op = "create" => q.person \notin DOMAIN partner /\ (q.link # None => Joining!Live(q.link))
        /\ q.op = "markUsed" => /\ q.person \in DOMAIN partner /\ partner[q.person].link = q.link
                                /\ invite[q.link].usedBy = None
        /\ q.op \in {"submit", "bank"} => partner[q.person].status \in {"REGISTERED", "REJECTED"}
        /\ q.op = "approve" => partner[q.person].status = "PENDING_APPROVAL"

Marking(r, p, i) == request[r] # Idle /\ request[r].op = "markUsed" /\ request[r].person = p /\ request[r].link = i

\* A link names the account it opened, or is about to.
LinksPaired(r) ==
    \A p \in DOMAIN partner :
        partner[p].link # None => invite[partner[p].link].usedBy = p \/ Marking(r, p, partner[p].link)

\* Of the links sent for one introduction one is live.
OneIsLive ==
    \A i, j \in DOMAIN invite :
        (invite[i].referral # None /\ invite[i].referral = invite[j].referral /\ Joining!Live(i) /\ Joining!Live(j)) => i = j

TurnInv(r) == JoinInv /\ Sees(r) /\ OneIsLive /\ (~MayFail => LinksPaired(r))

LEMMA JoiningCardinality == \A S : Joining!Cardinality(S) = Cardinality(S)
BY Zenon DEF Joining!Cardinality, Joining!IsFiniteSet, Cardinality, IsFiniteSet

LEMMA TurnMeansRest ==
    ASSUME NEW r, Request = {r}, Joining!Turn
    PROVE  request[r] = Idle
<1>1. Cardinality({r}) = 1
  BY FS_Singleton
<1>2. Joining!InTurn
  BY <1>1, JoiningCardinality DEF Joining!InTurn
<1> QED
  BY <1>2 DEF Joining!Turn

\* Links that were opened stay as they are, and newcomers come without one.
LEMMA PairedStays ==
    ASSUME NEW r, JoinInv, LinksPaired(r),
           request[r] # Idle => request[r].op # "markUsed",
           \A p \in DOMAIN partner' : partner'[p].link = None \/ (p \in DOMAIN partner /\ partner'[p].link = partner[p].link),
           \A i \in DOMAIN invite : invite'[i].usedBy = invite[i].usedBy
    PROVE  LinksPaired(r)'
<1>1. SUFFICES ASSUME NEW p \in DOMAIN partner', partner'[p].link # None
               PROVE  invite'[partner'[p].link].usedBy = p
  BY DEF LinksPaired
<1>2. p \in DOMAIN partner /\ partner'[p].link = partner[p].link
  BY <1>1
<1>3. partner[p].link \in DOMAIN invite
  BY <1>1, <1>2, JoinRows DEF JoinInv
<1>4. invite[partner[p].link].usedBy = p
  BY <1>1, <1>2 DEF LinksPaired, Marking
<1> QED
  BY <1>2, <1>3, <1>4

\* Links die, and new ones are sent to nobody introduced.
LEMMA OneLiveStays ==
    ASSUME OneIsLive,
           \A i \in DOMAIN invite' : \/ invite'[i].referral = None
                                     \/ /\ i \in DOMAIN invite /\ invite'[i].referral = invite[i].referral
                                        /\ Joining!Live(i)' => Joining!Live(i)
    PROVE  OneIsLive'
BY DEF OneIsLive

\* Accounts keep their links, links their accounts, and of two sent for one
\* introduction one stays live.
LEMMA TurnStays ==
    ASSUME NEW r, TurnInv(r), JoinInv', Sees(r)',
           request[r] # Idle => request[r].op # "markUsed",
           \A p \in DOMAIN partner' : partner'[p].link = None \/ (p \in DOMAIN partner /\ partner'[p].link = partner[p].link),
           \A i \in DOMAIN invite : invite'[i].usedBy = invite[i].usedBy,
           \A i \in DOMAIN invite' : \/ invite'[i].referral = None
                                     \/ /\ i \in DOMAIN invite /\ invite'[i].referral = invite[i].referral
                                        /\ Joining!Live(i)' => Joining!Live(i)
    PROVE  TurnInv(r)'
<1>1. ~MayFail => LinksPaired(r)'
  BY PairedStays DEF TurnInv
<1>2. OneIsLive'
  BY OneLiveStays DEF TurnInv
<1> QED
  BY <1>1, <1>2 DEF TurnInv

\* The links stay as they are.
LEMMA TurnSame ==
    ASSUME NEW r, TurnInv(r), JoinInv', Sees(r)', invite' = invite,
           request[r] # Idle => request[r].op # "markUsed",
           \A p \in DOMAIN partner' : partner'[p].link = None \/ (p \in DOMAIN partner /\ partner'[p].link = partner[p].link)
    PROVE  TurnInv(r)'
<1>1. \A i \in DOMAIN invite : Joining!Live(i)' => Joining!Live(i)
  BY DEF Joining!Live
<1> QED
  BY <1>1, TurnStays

LEMMA TurnFirst ==
    ASSUME NEW r, Request = {r}, Joining!Init
    PROVE  TurnInv(r)
<1>1. JoinInv
  BY JoinInvFirst
<1>2. request[r] = Idle /\ DOMAIN partner = {} /\ DOMAIN invite = {}
  BY DEF Joining!Init
<1> QED
  BY <1>1, <1>2 DEF TurnInv, Sees, OneIsLive, LinksPaired

\* Of a partner's row the link never changes.
LEMMA BetweenOnPartners ==
    ASSUME JoinInv, NEW p \in DOMAIN partner,
           Joining!SaveDocuments(p) \/ Joining!Reject(p) \/ \E b \in Bank : Joining!SaveBankByAdmin(p, b)
    PROVE  /\ Joining!Turn /\ UNCHANGED <<invite, referral, request>>
           /\ \A s \in DOMAIN partner' : s \in DOMAIN partner /\ partner'[s].link = partner[s].link
<1>1. partner[p] \in PartnerRow
  BY JoinRows DEF JoinInv
<1>2. \/ partner' = PutPartner(p, [partner[p] EXCEPT !.papers = TRUE])
      \/ partner' = PutPartner(p, [partner[p] EXCEPT !.status = "REJECTED"])
      \/ \E b \in Bank : partner' = PutPartner(p, [partner[p] EXCEPT !.bank = b])
  BY DEF Joining!SaveDocuments, Joining!Reject, Joining!SaveBankByAdmin, PutPartner
<1>3. PICK x : partner' = PutPartner(p, x) /\ x.link = partner[p].link
  BY <1>1, <1>2, RowUpdates
<1>4. Joining!Turn /\ UNCHANGED <<invite, referral, request>>
  BY DEF Joining!SaveDocuments, Joining!Reject, Joining!SaveBankByAdmin
<1> QED
  BY <1>3, <1>4 DEF PutPartner

\* Between two requests.
LEMMA BetweenKeepsTurn ==
    ASSUME NEW r, Request = {r}, TurnInv(r), JoinInv',
           \/ Joining!CreateInvite
           \/ \E i \in DOMAIN invite : Joining!EndInvite(i)
           \/ \E f \in DOMAIN referral, s \in Joining!ReferralStatus : Joining!ChangeStatus(f, s)
           \/ \E p \in Person : Joining!AddPartner(p)
           \/ \E p \in DOMAIN partner : Joining!SaveDocuments(p) \/ Joining!Reject(p) \/ \E b \in Bank : Joining!SaveBankByAdmin(p, b)
    PROVE  TurnInv(r)'
<1> JoinInv
  BY DEF TurnInv
<1>1. Joining!Turn /\ request' = request
  BY BetweenOnPartners DEF Joining!CreateInvite, Joining!EndInvite, Joining!ChangeStatus, Joining!AddPartner
<1>2. request[r] = Idle
  BY <1>1, TurnMeansRest
<1>3. Sees(r)'
  BY <1>1, <1>2 DEF Sees
<1>4. CASE Joining!CreateInvite
  <2>1. PICK x : x = [referral |-> None, usedBy |-> None, dead |-> FALSE]
    OBVIOUS
  <2>2. invite' = Append(invite, x) /\ partner' = partner
    BY <1>4, <2>1 DEF Joining!CreateInvite
  <2>3. invite \in Seq(InviteRow) /\ Len(invite) \in Nat /\ DOMAIN invite = 1 .. Len(invite)
    BY JoinRows DEF JoinInv
  <2>4. /\ DOMAIN invite' = 1 .. Len(invite) + 1 /\ invite'[Len(invite) + 1] = x
        /\ \A i \in DOMAIN invite : invite'[i] = invite[i]
    BY <2>2, <2>3
  <2>5. \A i \in DOMAIN invite : Joining!Live(i)' => Joining!Live(i)
    BY <2>4 DEF Joining!Live
  <2>6. x.referral = None
    BY <2>1
  <2>7. \A i \in DOMAIN invite' : i \in DOMAIN invite \/ i = Len(invite) + 1
    BY <2>3, <2>4
  <2> QED
    BY <1>2, <1>3, <2>2, <2>4, <2>5, <2>6, <2>7, TurnStays
<1>5. CASE \E i \in DOMAIN invite : Joining!EndInvite(i)
  <2>1. PICK i \in DOMAIN invite : Joining!EndInvite(i)
    BY <1>5
  <2>2. PICK x : x = [invite[i] EXCEPT !.dead = TRUE]
    OBVIOUS
  <2>3. invite' = PutInvite(i, x) /\ partner' = partner
    BY <2>1, <2>2 DEF Joining!EndInvite, PutInvite
  <2>4. invite[i] \in InviteRow
    BY JoinRows DEF JoinInv
  <2>5. x.referral = invite[i].referral /\ x.usedBy = invite[i].usedBy /\ x.dead
    BY <2>2, <2>4 DEF InviteRow
  <2>6. DOMAIN invite' = DOMAIN invite /\ invite'[i] = x /\ \A j \in DOMAIN invite : j # i => invite'[j] = invite[j]
    BY <2>3 DEF PutInvite
  <2>7. \A j \in DOMAIN invite : Joining!Live(j)' => Joining!Live(j)
    BY <2>5, <2>6 DEF Joining!Live
  <2> QED
    BY <1>2, <1>3, <2>3, <2>5, <2>6, <2>7, TurnStays
<1>6. CASE \E f \in DOMAIN referral, s \in Joining!ReferralStatus : Joining!ChangeStatus(f, s)
  <2>1. partner' = partner /\ invite' = invite
    BY <1>6 DEF Joining!ChangeStatus
  <2> QED
    BY <1>2, <1>3, <2>1, TurnSame
<1>7. CASE \E p \in Person : Joining!AddPartner(p)
  <2>1. PICK p \in Person : p \notin DOMAIN partner /\ partner' = Joining!Joins(p, None) /\ invite' = invite
    BY <1>7 DEF Joining!AddPartner
  <2>2. \A s \in DOMAIN partner' : partner'[s].link = None \/ (s \in DOMAIN partner /\ partner'[s].link = partner[s].link)
    BY <2>1 DEF Joining!Joins, Joining!NewPartner
  <2> QED
    BY <1>2, <1>3, <2>1, <2>2, TurnSame
<1>8. CASE \E p \in DOMAIN partner : Joining!SaveDocuments(p) \/ Joining!Reject(p) \/ \E b \in Bank : Joining!SaveBankByAdmin(p, b)
  BY <1>2, <1>3, <1>8, BetweenOnPartners, TurnSame
<1> QED
  BY <1>4, <1>5, <1>6, <1>7, <1>8

\* A request begins with what it sees.
LEMMA TurnBegins ==
    ASSUME NEW r, Request = {r}, TurnInv(r), JoinInv', NEW q, Joining!Begins(r, q),
           q.op = "invite" => \A i \in Joining!LinksOf(q.f) : q.live = i,
           q.op = "create" => q.person \notin DOMAIN partner /\ (q.link # None => Joining!Live(q.link)),
           q.op # "markUsed",
           q.op \in {"submit", "bank"} => partner[q.person].status \in {"REGISTERED", "REJECTED"},
           q.op = "approve" => partner[q.person].status = "PENDING_APPROVAL"
    PROVE  TurnInv(r)'
<1>1. request[r] = Idle /\ request' = [request EXCEPT ![r] = q] /\ UNCHANGED <<partner, invite, referral>>
  BY DEF Joining!Begins
<1>2. request'[r] = q
  BY <1>1 DEF TurnInv, JoinInv
<1>3. q.op = "invite" => (\A i \in Joining!LinksOf(q.f) : q.live = i)'
  BY <1>1, <1>2 DEF Joining!LinksOf, Joining!Live
<1>4. q.op = "create" => (q.person \notin DOMAIN partner' /\ (q.link # None => Joining!Live(q.link)'))
  BY <1>1 DEF Joining!Live
<1>5. Sees(r)'
  BY <1>1, <1>2, <1>3, <1>4 DEF Sees, Joining!LinksOf, Joining!Live
<1> QED
  BY <1>1, <1>5, TurnSame

\* Of the links sent for an introduction at most one is live.
LEMMA OneLiveOf ==
    ASSUME JoinInv, OneIsLive, None \notin Nat, NEW f \in DOMAIN referral,
           NEW i \in Joining!LinksOf(f), NEW j \in Joining!LinksOf(f)
    PROVE  i = j
<1>1. f # None
  BY JoinRows DEF JoinInv
<1> QED
  BY <1>1 DEF OneIsLive, Joining!LinksOf

LEMMA BeginsKeepTurn ==
    ASSUME NEW r, Request = {r}, TurnInv(r), JoinInv', None \notin Nat,
           \/ \E p, q \in Person : Joining!BeginIntroduce(r, p, q)
           \/ \E f \in DOMAIN referral : Joining!BeginInviteFor(r, f)
           \/ \E p \in Person, i \in DOMAIN invite \cup {None} : Joining!BeginRegister(r, p, i)
           \/ \E p \in DOMAIN partner : Joining!BeginSubmit(r, p) \/ Joining!BeginApprove(r, p) \/ \E b \in Bank : Joining!BeginSaveBank(r, p, b)
    PROVE  TurnInv(r)'
<1> JoinInv /\ OneIsLive
  BY DEF TurnInv
<1>1. CASE \E p, q \in Person : Joining!BeginIntroduce(r, p, q)
  <2>1. PICK p \in Person : Joining!Begins(r, [op |-> "introduce", person |-> p])
    BY <1>1 DEF Joining!BeginIntroduce
  <2>2. PICK q : q = [op |-> "introduce", person |-> p]
    OBVIOUS
  <2> QED
    BY <2>1, <2>2, TurnBegins
<1>2. CASE \E f \in DOMAIN referral : Joining!BeginInviteFor(r, f)
  <2>1. PICK f \in DOMAIN referral : Joining!BeginInviteFor(r, f)
    BY <1>2
  <2>2. PICK live : live = IF Joining!LinksOf(f) = {} THEN None ELSE Joining!Max(Joining!LinksOf(f))
    OBVIOUS
  <2>3. PICK q : q = [op |-> "invite", f |-> f, live |-> live, new |-> referral[f].status = "NEW"]
    OBVIOUS
  <2>4. Joining!Begins(r, q) /\ q.op = "invite" /\ q.f = f /\ q.live = live
    BY <2>1, <2>2, <2>3, Zenon DEF Joining!BeginInviteFor
  <2>5. Joining!LinksOf(f) \in SUBSET DOMAIN invite
    BY DEF Joining!LinksOf
  <2>6. \A i \in Joining!LinksOf(f) : live = i
    BY <2>2, <2>5, NewestLink, OneLiveOf
  <2> QED
    BY <2>4, <2>6, TurnBegins
<1>3. CASE \E p \in Person, i \in DOMAIN invite \cup {None} : Joining!BeginRegister(r, p, i)
  <2>1. PICK p \in Person, link \in DOMAIN invite \cup {None} : Joining!BeginRegister(r, p, link)
    BY <1>3
  <2>2. PICK good : good = IF link # None /\ Joining!Live(link) THEN link ELSE None
    OBVIOUS
  <2>3. PICK q : q = [op |-> "create", person |-> p, link |-> good]
    OBVIOUS
  <2>4. Joining!Begins(r, q) /\ q.op = "create" /\ q.person = p /\ q.link = good /\ p \notin DOMAIN partner
    BY <2>1, <2>2, <2>3, Zenon DEF Joining!BeginRegister
  <2>5. good # None => Joining!Live(good)
    BY <2>2
  <2> QED
    BY <2>4, <2>5, TurnBegins
<1>4. CASE \E p \in DOMAIN partner : Joining!BeginSubmit(r, p)
  <2>1. PICK p \in DOMAIN partner : Joining!BeginSubmit(r, p)
    BY <1>4
  <2>2. PICK q : q = [op |-> "submit", person |-> p]
    OBVIOUS
  <2>3. Joining!Begins(r, q) /\ q.op = "submit" /\ q.person = p /\ partner[p].status \in {"REGISTERED", "REJECTED"}
    BY <2>1, <2>2 DEF Joining!BeginSubmit
  <2> QED
    BY <2>3, TurnBegins
<1>5. CASE \E p \in DOMAIN partner : Joining!BeginApprove(r, p)
  <2>1. PICK p \in DOMAIN partner : Joining!BeginApprove(r, p)
    BY <1>5
  <2>2. PICK q : q = [op |-> "approve", person |-> p]
    OBVIOUS
  <2>3. Joining!Begins(r, q) /\ q.op = "approve" /\ q.person = p /\ partner[p].status = "PENDING_APPROVAL"
    BY <2>1, <2>2 DEF Joining!BeginApprove
  <2> QED
    BY <2>3, TurnBegins
<1>6. CASE \E p \in DOMAIN partner : \E b \in Bank : Joining!BeginSaveBank(r, p, b)
  <2>1. PICK p \in DOMAIN partner, b \in Bank : Joining!BeginSaveBank(r, p, b)
    BY <1>6
  <2>2. PICK q : q = [op |-> "bank", person |-> p, bank |-> b]
    OBVIOUS
  <2>3. Joining!Begins(r, q) /\ q.op = "bank" /\ q.person = p /\ Joining!IsEditableByPartner(p)
    BY <2>1, <2>2 DEF Joining!BeginSaveBank
  <2>4. partner[p].status \in {"REGISTERED", "REJECTED"}
    BY <2>3 DEF Joining!IsEditableByPartner, JoinInv, Joining!ApprovedOnPapers
  <2> QED
    BY <2>3, <2>4, TurnBegins
<1> QED
  BY <1>1, <1>2, <1>3, <1>4, <1>5, <1>6

LEMMA FinishIntroduceTurn ==
    ASSUME NEW r, Request = {r}, TurnInv(r), JoinInv', Joining!FinishIntroduce(r)
    PROVE  TurnInv(r)'
<1>1. /\ request[r] # Idle /\ request[r].op = "introduce" /\ request' = [request EXCEPT ![r] = Idle]
      /\ partner' = partner /\ invite' = invite
  BY DEF Joining!FinishIntroduce, Joining!At, Joining!Becomes
<1>2. Sees(r)'
  BY <1>1 DEF TurnInv, JoinInv, Sees
<1> QED
  BY <1>1, <1>2, TurnSame

\* The link that worked is revoked before another is sent.
LEMMA FinishInviteForTurn ==
    ASSUME NEW r, Request = {r}, TurnInv(r), JoinInv', None \notin Nat, Joining!FinishInviteFor(r)
    PROVE  TurnInv(r)'
<1>1. PICK q : q = request[r]
  OBVIOUS
<1>2. PICK x : x = [referral |-> q.f, usedBy |-> None, dead |-> FALSE]
  OBVIOUS
<1>3. PICK rev : rev = Joining!Revoked(q.live)
  OBVIOUS
<1>4. /\ request[r] # Idle /\ q.op = "invite" /\ request' = [request EXCEPT ![r] = Idle] /\ partner' = partner
      /\ invite' = Append(rev, x)
  BY <1>1, <1>2, <1>3 DEF Joining!FinishInviteFor, Joining!At, Joining!Becomes
<1>5. q.f \in DOMAIN referral /\ q.live \in DOMAIN invite \cup {None} /\ \A i \in Joining!LinksOf(q.f) : q.live = i
  BY <1>1, <1>4 DEF TurnInv, JoinInv, Knows, Sees
<1>6. /\ invite \in Seq(InviteRow) /\ Len(invite) \in Nat /\ DOMAIN invite = 1 .. Len(invite)
      /\ \A i \in DOMAIN invite : invite[i] \in InviteRow
  BY JoinRows DEF TurnInv, JoinInv
<1>7. /\ rev \in Seq(InviteRow) /\ Len(rev) = Len(invite)
      /\ \A i \in DOMAIN invite : /\ rev[i].referral = invite[i].referral /\ rev[i].usedBy = invite[i].usedBy
                                  /\ i # q.live => rev[i] = invite[i]
      /\ q.live # None => rev[q.live].dead
  <2>1. CASE q.live = None
    BY <1>3, <1>6, <2>1 DEF Joining!Revoked
  <2>2. CASE q.live # None
    <3>1. PICK y : y = [invite[q.live] EXCEPT !.dead = TRUE]
      OBVIOUS
    <3>2. y \in InviteRow /\ y.referral = invite[q.live].referral /\ y.usedBy = invite[q.live].usedBy /\ y.dead
      BY <1>5, <1>6, <2>2, <3>1 DEF InviteRow
    <3>3. rev = [invite EXCEPT ![q.live] = y]
      BY <1>3, <2>2, <3>1 DEF Joining!Revoked
    <3> QED
      BY <1>5, <1>6, <2>2, <3>2, <3>3
  <2> QED
    BY <2>1, <2>2
<1>8. /\ DOMAIN invite' = 1 .. Len(invite) + 1 /\ invite'[Len(invite) + 1] = x
      /\ \A i \in DOMAIN invite : invite'[i] = rev[i]
  BY <1>4, <1>6, <1>7
<1>9. \A i \in DOMAIN invite' : i \in DOMAIN invite \/ i = Len(invite) + 1
  BY <1>6, <1>8
<1>10. \A i \in DOMAIN invite : Joining!Live(i)' => Joining!Live(i) /\ i # q.live
  BY <1>5, <1>7, <1>8 DEF Joining!Live
<1>11. x.referral = q.f
  BY <1>2
<1>12. \A i \in DOMAIN invite : Joining!Live(i)' => invite'[i].referral # q.f
  BY <1>5, <1>7, <1>8, <1>10 DEF Joining!LinksOf
<1>13. OneIsLive'
  <2>1. SUFFICES ASSUME NEW i \in DOMAIN invite', NEW j \in DOMAIN invite', invite'[i].referral # None,
                        invite'[i].referral = invite'[j].referral, Joining!Live(i)', Joining!Live(j)'
                 PROVE  i = j
    BY DEF OneIsLive
  <2>2. CASE i \in DOMAIN invite /\ j \in DOMAIN invite
    BY <1>7, <1>8, <1>10, <2>1, <2>2 DEF TurnInv, OneIsLive
  <2>3. CASE i \notin DOMAIN invite \/ j \notin DOMAIN invite
    BY <1>8, <1>9, <1>11, <1>12, <2>1, <2>3
  <2> QED
    BY <2>2, <2>3
<1>14. \A i \in DOMAIN invite : invite'[i].usedBy = invite[i].usedBy
  BY <1>7, <1>8
<1>15. ~MayFail => LinksPaired(r)'
  BY <1>1, <1>4, <1>14, PairedStays DEF TurnInv
<1>16. Sees(r)'
  BY <1>4 DEF TurnInv, JoinInv, Sees
<1> QED
  BY <1>13, <1>15, <1>16 DEF TurnInv

LEMMA CreateAccountTurn ==
    ASSUME NEW r, Request = {r}, TurnInv(r), JoinInv', None \notin Nat, Idle \notin Registered, Joining!CreateAccount(r)
    PROVE  TurnInv(r)'
<1>1. PICK q : q = request[r]
  OBVIOUS
<1>2. request[r] # Idle /\ q.op = "create" /\ invite' = invite /\ referral' = referral
  BY <1>1 DEF Joining!CreateAccount, Joining!At
<1>3. /\ q.person \in Person /\ q.link \in DOMAIN invite \cup {None} /\ q = [op |-> q.op, person |-> q.person, link |-> q.link]
      /\ q.person \notin DOMAIN partner /\ (q.link # None => Joining!Live(q.link))
  BY <1>1, <1>2 DEF TurnInv, JoinInv, Knows, Sees
<1>4. PICK n : n = IF q.link = None THEN Idle ELSE [q EXCEPT !.op = "markUsed"]
  OBVIOUS
<1>5. request' = [request EXCEPT ![r] = n] /\ partner' = Joining!Joins(q.person, q.link)
  BY <1>1, <1>3, <1>4 DEF Joining!CreateAccount, Joining!Becomes
<1>6. request'[r] = n
  BY <1>5 DEF TurnInv, JoinInv
<1>7. /\ DOMAIN partner' = DOMAIN partner \cup {q.person} /\ partner'[q.person].link = q.link
      /\ \A s \in DOMAIN partner : partner'[s] = partner[s]
  BY <1>3, <1>5 DEF Joining!Joins, Joining!NewPartner
<1>8. CASE q.link = None
  <2>1. Sees(r)'
    BY <1>4, <1>6, <1>8 DEF Sees
  <2> QED
    BY <1>1, <1>2, <1>7, <1>8, <2>1, TurnSame
<1>9. CASE q.link # None
  <2>1. n = [op |-> "markUsed", person |-> q.person, link |-> q.link]
    BY <1>3, <1>4, <1>9
  <2>2. n.op = "markUsed" /\ n.person = q.person /\ n.link = q.link
    BY <2>1
  <2>3. n \in Registered
    BY <1>3, <1>9, <2>1, JoinRows DEF Registered, TurnInv, JoinInv
  <2>4. n # Idle
    BY <2>3
  <2>5. Sees(r)'
    <3>1. q.person \in DOMAIN partner' /\ partner'[q.person].link = q.link /\ invite'[q.link].usedBy = None
      BY <1>2, <1>3, <1>7, <1>9 DEF Joining!Live
    <3> QED
      BY <1>6, <2>2, <3>1 DEF Sees
  <2>6. ASSUME LinksPaired(r) PROVE LinksPaired(r)'
    <3>1. SUFFICES ASSUME NEW p \in DOMAIN partner', partner'[p].link # None
                   PROVE  \/ invite'[partner'[p].link].usedBy = p
                          \/ /\ request'[r] # Idle /\ request'[r].op = "markUsed"
                             /\ request'[r].person = p /\ request'[r].link = partner'[p].link
      BY DEF LinksPaired, Marking
    <3>2. CASE p = q.person
      BY <1>6, <1>7, <2>2, <2>4, <3>2
    <3>3. CASE p # q.person
      <4>1. p \in DOMAIN partner /\ partner'[p] = partner[p]
        BY <1>7, <3>3
      <4>2. invite[partner[p].link].usedBy = p
        BY <1>1, <1>2, <2>6, <3>1, <4>1 DEF LinksPaired, Marking
      <4> QED
        BY <1>2, <4>1, <4>2
    <3> QED
      BY <3>2, <3>3
  <2>7. OneIsLive'
    BY <1>2 DEF TurnInv, OneIsLive, Joining!Live
  <2> QED
    BY <2>5, <2>6, <2>7 DEF TurnInv
<1> QED
  BY <1>8, <1>9

LEMMA MarkUsedTurn ==
    ASSUME NEW r, Request = {r}, TurnInv(r), JoinInv', None \notin Person, Joining!MarkUsed(r)
    PROVE  TurnInv(r)'
<1>1. PICK q : q = request[r]
  OBVIOUS
<1>2. PICK n : n = IF invite[q.link].referral = None THEN Idle ELSE [q EXCEPT !.op = "markJoined"]
  OBVIOUS
<1>3. PICK x : x = [invite[q.link] EXCEPT !.usedBy = q.person]
  OBVIOUS
<1>4. /\ request[r] # Idle /\ q.op = "markUsed" /\ partner' = partner
      /\ invite' = PutInvite(q.link, x) /\ request' = [request EXCEPT ![r] = n]
  BY <1>1, <1>2, <1>3 DEF Joining!MarkUsed, Joining!At, Joining!Becomes, PutInvite
<1>5. /\ q.person \in Person /\ q.link \in DOMAIN invite /\ q = [op |-> q.op, person |-> q.person, link |-> q.link]
      /\ q.person \in DOMAIN partner /\ partner[q.person].link = q.link /\ invite[q.link].usedBy = None
  BY <1>1, <1>4 DEF TurnInv, JoinInv, Knows, Sees
<1>6. invite[q.link] \in InviteRow
  BY <1>5, JoinRows DEF TurnInv, JoinInv
<1>7. x.referral = invite[q.link].referral /\ x.usedBy = q.person /\ x.dead = invite[q.link].dead
  BY <1>3, <1>6 DEF InviteRow
<1>8. /\ DOMAIN invite' = DOMAIN invite /\ invite'[q.link] = x
      /\ \A j \in DOMAIN invite : j # q.link => invite'[j] = invite[j]
  BY <1>4, <1>5 DEF PutInvite
<1>9. request'[r] = n /\ (n = Idle \/ n.op = "markJoined")
  BY <1>2, <1>4, <1>5 DEF TurnInv, JoinInv
<1>10. Sees(r)'
  BY <1>9 DEF Sees
<1>11. OneIsLive'
  <2>1. \A j \in DOMAIN invite' : /\ j \in DOMAIN invite /\ invite'[j].referral = invite[j].referral
                                  /\ Joining!Live(j)' => Joining!Live(j)
    BY <1>5, <1>7, <1>8 DEF Joining!Live
  <2> QED
    BY <2>1, OneLiveStays DEF TurnInv
<1>12. ASSUME LinksPaired(r) PROVE LinksPaired(r)'
  <2>1. SUFFICES ASSUME NEW p \in DOMAIN partner, partner[p].link # None
                 PROVE  invite'[partner[p].link].usedBy = p
    BY <1>4 DEF LinksPaired
  <2>2. p \in Person /\ partner[p].link \in DOMAIN invite
    BY <2>1, JoinRows DEF TurnInv, JoinInv
  <2>3. invite[partner[p].link].usedBy = p \/ Marking(r, p, partner[p].link)
    BY <1>12, <2>1 DEF LinksPaired
  <2>4. CASE Marking(r, p, partner[p].link)
    BY <1>1, <1>7, <1>8, <2>4 DEF Marking
  <2>5. CASE invite[partner[p].link].usedBy = p
    <3>1. partner[p].link # q.link
      BY <1>5, <2>2, <2>5
    <3> QED
      BY <1>8, <2>2, <2>5, <3>1
  <2> QED
    BY <2>3, <2>4, <2>5
<1> QED
  BY <1>10, <1>11, <1>12 DEF TurnInv

\* A registration that ends, or breaks off, and a decision.
LEMMA MarkJoinedTurn ==
    ASSUME NEW r, Request = {r}, TurnInv(r), JoinInv', Joining!MarkJoined(r)
    PROVE  TurnInv(r)'
<1>1. /\ request[r] # Idle /\ request[r].op = "markJoined" /\ partner' = partner /\ invite' = invite
      /\ request' = [request EXCEPT ![r] = Idle]
  BY DEF Joining!MarkJoined, Joining!At, Joining!Becomes
<1>2. Sees(r)'
  BY <1>1 DEF TurnInv, JoinInv, Sees
<1> QED
  BY <1>1, <1>2, TurnSame

LEMMA BreakOffTurn ==
    ASSUME NEW r, Request = {r}, TurnInv(r), JoinInv', Joining!BreakOff(r)
    PROVE  TurnInv(r)'
<1>1. MayFail /\ request' = [request EXCEPT ![r] = Idle] /\ UNCHANGED <<partner, invite, referral>>
  BY DEF Joining!BreakOff, Joining!Becomes
<1>2. Sees(r)'
  BY <1>1 DEF TurnInv, JoinInv, Sees
<1>3. OneIsLive'
  BY <1>1 DEF TurnInv, OneIsLive, Joining!Live
<1> QED
  BY <1>1, <1>2, <1>3 DEF TurnInv

LEMMA FinishSaveBankTurn ==
    ASSUME NEW r, Request = {r}, TurnInv(r), JoinInv', Joining!FinishSaveBank(r)
    PROVE  TurnInv(r)'
<1>1. PICK p, b : p = request[r].person /\ b = request[r].bank
  OBVIOUS
<1>2. PICK x : x = [partner[p] EXCEPT !.bank = b]
  OBVIOUS
<1>3. /\ request[r] # Idle /\ request[r].op = "bank" /\ invite' = invite
      /\ partner' = PutPartner(p, x) /\ request' = [request EXCEPT ![r] = Idle]
  BY <1>1, <1>2 DEF Joining!FinishSaveBank, Joining!At, Joining!Becomes, PutPartner
<1>4. p \in DOMAIN partner /\ b \in Bank
  BY <1>1, <1>3 DEF TurnInv, JoinInv, Knows
<1>5. x.link = partner[p].link
  BY <1>2, <1>4, RowUpdates DEF TurnInv
<1>6. Sees(r)'
  BY <1>3 DEF TurnInv, JoinInv, Sees
<1>7. \A s \in DOMAIN partner' : s \in DOMAIN partner /\ partner'[s].link = partner[s].link
  BY <1>3, <1>4, <1>5 DEF PutPartner
<1> QED
  BY <1>3, <1>6, <1>7, TurnSame

LEMMA FinishDecisionTurn ==
    ASSUME NEW r, Request = {r}, TurnInv(r), JoinInv', Joining!FinishDecision(r)
    PROVE  TurnInv(r)'
<1>1. PICK p, status : p = request[r].person /\ status = Joining!StatusAfter[request[r].op]
  OBVIOUS
<1>2. PICK x : x = [partner[p] EXCEPT !.status = status]
  OBVIOUS
<1>3. /\ request[r] # Idle /\ request[r].op \in {"submit", "approve"} /\ invite' = invite
      /\ partner' = PutPartner(p, x) /\ request' = [request EXCEPT ![r] = Idle]
  BY <1>1, <1>2 DEF Joining!FinishDecision, Joining!At, Joining!Becomes, PutPartner
<1>4. p \in DOMAIN partner /\ status \in {"PENDING_APPROVAL", "APPROVED"}
  BY <1>1, <1>3 DEF TurnInv, JoinInv, Knows, Papered, Joining!StatusAfter
<1>5. x.link = partner[p].link
  BY <1>2, <1>4, RowUpdates DEF TurnInv
<1>6. Sees(r)'
  BY <1>3 DEF TurnInv, JoinInv, Sees
<1>7. \A s \in DOMAIN partner' : s \in DOMAIN partner /\ partner'[s].link = partner[s].link
  BY <1>3, <1>4, <1>5 DEF PutPartner
<1> QED
  BY <1>3, <1>6, <1>7, TurnSame

LEMMA TurnStep ==
    ASSUME NEW r, Request = {r}, TurnInv(r), None \notin Bank \cup Nat \cup Person, Idle \notin Registered,
           [Joining!Next]_(Joining!vars)
    PROVE  TurnInv(r)'
<1>1. JoinInv'
  BY JoinStep DEF TurnInv
<1>2. CASE UNCHANGED Joining!vars
  BY <1>1, <1>2 DEF Joining!vars, TurnInv, Sees, OneIsLive, LinksPaired, Marking, Joining!Live, Joining!LinksOf
<1>3. CASE \/ Joining!CreateInvite
           \/ \E i \in DOMAIN invite : Joining!EndInvite(i)
           \/ \E f \in DOMAIN referral, s \in Joining!ReferralStatus : Joining!ChangeStatus(f, s)
           \/ \E p \in Person : Joining!AddPartner(p)
           \/ \E p \in DOMAIN partner : Joining!SaveDocuments(p) \/ Joining!Reject(p) \/ \E b \in Bank : Joining!SaveBankByAdmin(p, b)
  BY <1>1, <1>3, BetweenKeepsTurn
<1>4. CASE \/ \E p, q \in Person : Joining!BeginIntroduce(r, p, q)
           \/ \E f \in DOMAIN referral : Joining!BeginInviteFor(r, f)
           \/ \E p \in Person, i \in DOMAIN invite \cup {None} : Joining!BeginRegister(r, p, i)
           \/ \E p \in DOMAIN partner : Joining!BeginSubmit(r, p) \/ Joining!BeginApprove(r, p) \/ \E b \in Bank : Joining!BeginSaveBank(r, p, b)
  BY <1>1, <1>4, BeginsKeepTurn
<1>5. CASE \/ Joining!FinishIntroduce(r) \/ Joining!FinishInviteFor(r) \/ Joining!CreateAccount(r)
           \/ Joining!MarkUsed(r) \/ Joining!MarkJoined(r) \/ Joining!BreakOff(r)
           \/ Joining!FinishSaveBank(r) \/ Joining!FinishDecision(r)
  BY <1>1, <1>5, FinishIntroduceTurn, FinishInviteForTurn, CreateAccountTurn, MarkUsedTurn, MarkJoinedTurn, BreakOffTurn,
     FinishSaveBankTurn, FinishDecisionTurn
<1>6. ASSUME NEW s \in Request PROVE s = r
  OBVIOUS
<1> QED
  BY <1>2, <1>3, <1>4, <1>5, <1>6, Zenon DEF Joining!Next

LEMMA AtMostOne ==
    ASSUME NEW S, \A i, j \in S : i = j
    PROVE  Cardinality(S) <= 1
<1>1. CASE S = {}
  BY <1>1, FS_EmptySet
<1>2. CASE S # {}
  <2>1. PICK i \in S : TRUE
    BY <1>2
  <2>2. S = {i}
    BY <2>1
  <2>3. Cardinality({i}) = 1
    BY FS_Singleton
  <2> QED
    BY <2>2, <2>3
<1> QED
  BY <1>1, <1>2

LEMMA TurnGives ==
    ASSUME NEW r, Request = {r}, TurnInv(r), None \notin Bank \cup Nat \cup Person
    PROVE  Joining!OneLiveLink /\ (~MayFail => Joining!LinkOpensOne)
<1>1. ASSUME NEW f \in DOMAIN referral PROVE Joining!Cardinality(Joining!LinksOf(f)) <= 1
  <2>1. \A i, j \in Joining!LinksOf(f) : i = j
    BY OneLiveOf DEF TurnInv
  <2> HIDE DEF Joining!LinksOf
  <2>2. Cardinality(Joining!LinksOf(f)) <= 1
    BY <2>1, AtMostOne
  <2> QED
    BY <2>2, JoiningCardinality
<1>2. Joining!OneLiveLink
  BY <1>1 DEF Joining!OneLiveLink
<1>3. ASSUME ~MayFail PROVE Joining!LinkOpensOne
  <2>1. SUFFICES ASSUME NEW p \in DOMAIN partner, NEW i, i = partner[p].link, i # None
                 PROVE  /\ \A q \in DOMAIN partner \ {p} : partner[q].link # i
                        /\ (\A s \in Request : request[s] = Idle) => invite[i].usedBy = p
    BY Zenon DEF Joining!LinkOpensOne
  <2>2. p \in Person /\ (invite[i].usedBy = p \/ Marking(r, p, i))
    BY <1>3, <2>1, JoinRows DEF TurnInv, JoinInv, LinksPaired
  <2>3. (\A s \in Request : request[s] = Idle) => invite[i].usedBy = p
    BY <2>2 DEF Marking
  <2>4. ASSUME NEW q \in DOMAIN partner \ {p}, partner[q].link = i PROVE FALSE
    <3>1. q \in Person /\ (invite[i].usedBy = q \/ Marking(r, q, i))
      BY <1>3, <2>1, <2>4, JoinRows DEF TurnInv, JoinInv, LinksPaired
    <3>2. ASSUME NEW s, Marking(r, s, i) PROVE invite[i].usedBy = None
      BY <3>2 DEF Marking, TurnInv, Sees
    <3> QED
      BY <2>2, <2>4, <3>1, <3>2 DEF Marking
  <2> QED
    BY <2>3, <2>4
<1> QED
  BY <1>2, <1>3

\* What a step may do to a partner who waits for approval or has it.
LEMMA StandingStep ==
    ASSUME NEW r, Request = {r}, TurnInv(r), None \notin Bank \cup Nat \cup Person, [Joining!Next]_(Joining!vars)
    PROVE  Joining!Standing
<1>1. SUFFICES ASSUME NEW p \in DOMAIN partner
               PROVE  /\ partner[p].status = "APPROVED" => partner'[p].status \in {"APPROVED", "REJECTED"}
                      /\ (partner[p].status \in {"PENDING_APPROVAL", "APPROVED"} /\ partner'[p].bank # partner[p].bank)
                            => \E b \in Bank : Joining!SaveBankByAdmin(p, b)
  BY Zenon DEF Joining!Standing
<1>2. JoinInv
  BY DEF TurnInv
<1>3. CASE partner'[p] = partner[p]
  BY <1>3
<1>4. ASSUME NEW q \in DOMAIN partner, NEW x, partner' = PutPartner(q, x), q = p =>
                /\ partner[p].status = "APPROVED" => x.status \in {"APPROVED", "REJECTED"}
                /\ (partner[p].status \in {"PENDING_APPROVAL", "APPROVED"} /\ x.bank # partner[p].bank)
                            => \E b \in Bank : Joining!SaveBankByAdmin(p, b)
      PROVE  /\ partner[p].status = "APPROVED" => partner'[p].status \in {"APPROVED", "REJECTED"}
             /\ (partner[p].status \in {"PENDING_APPROVAL", "APPROVED"} /\ partner'[p].bank # partner[p].bank)
                            => \E b \in Bank : Joining!SaveBankByAdmin(p, b)
  <2>1. partner'[p] = IF p = q THEN x ELSE partner[p]
    BY <1>4 DEF PutPartner
  <2> QED
    BY <1>4, <2>1
<1>5. CASE \E q : q \notin DOMAIN partner /\ \E link : partner' = Joining!Joins(q, link)
  <2>1. partner'[p] = partner[p]
    BY <1>5 DEF Joining!Joins
  <2> QED
    BY <2>1
<1>6. CASE \E q \in DOMAIN partner : Joining!SaveDocuments(q)
  <2>1. PICK q \in DOMAIN partner : Joining!SaveDocuments(q)
    BY <1>6
  <2>2. PICK x : x = [partner[q] EXCEPT !.papers = TRUE]
    OBVIOUS
  <2>3. partner' = PutPartner(q, x) /\ x.status = partner[q].status /\ x.bank = partner[q].bank
    BY <1>2, <2>1, <2>2, RowUpdates DEF Joining!SaveDocuments, PutPartner
  <2> QED
    BY <1>4, <2>3
<1>7. CASE \E q \in DOMAIN partner : Joining!Reject(q)
  <2>1. PICK q \in DOMAIN partner : Joining!Reject(q)
    BY <1>7
  <2>2. PICK x : x = [partner[q] EXCEPT !.status = "REJECTED"]
    OBVIOUS
  <2>3. partner' = PutPartner(q, x) /\ x.status = "REJECTED" /\ x.bank = partner[q].bank
    BY <1>2, <2>1, <2>2, RowUpdates DEF Joining!Reject, PutPartner
  <2> QED
    BY <1>4, <2>3
<1>8. CASE \E q \in DOMAIN partner : \E b \in Bank : Joining!SaveBankByAdmin(q, b)
  <2>1. PICK q \in DOMAIN partner, b \in Bank : Joining!SaveBankByAdmin(q, b)
    BY <1>8
  <2>2. PICK x : x = [partner[q] EXCEPT !.bank = b]
    OBVIOUS
  <2>3. partner' = PutPartner(q, x) /\ x.status = partner[q].status
    BY <1>2, <2>1, <2>2, RowUpdates DEF Joining!SaveBankByAdmin, PutPartner
  <2> QED
    BY <1>4, <2>1, <2>3
<1>9. CASE Joining!FinishSaveBank(r)
  <2>1. PICK q, b : q = request[r].person /\ b = request[r].bank
    OBVIOUS
  <2>2. PICK x : x = [partner[q] EXCEPT !.bank = b]
    OBVIOUS
  <2>3. request[r] # Idle /\ request[r].op = "bank" /\ partner' = PutPartner(q, x)
    BY <1>9, <2>1, <2>2 DEF Joining!FinishSaveBank, Joining!At, PutPartner
  <2>4. q \in DOMAIN partner /\ b \in Bank /\ partner[q].status \in {"REGISTERED", "REJECTED"}
    BY <2>1, <2>3 DEF TurnInv, JoinInv, Knows, Sees
  <2> QED
    BY <1>4, <2>3, <2>4
<1>10. CASE Joining!FinishDecision(r)
  <2>1. PICK q, status : q = request[r].person /\ status = Joining!StatusAfter[request[r].op]
    OBVIOUS
  <2>2. PICK x : x = [partner[q] EXCEPT !.status = status]
    OBVIOUS
  <2>3. request[r] # Idle /\ request[r].op \in {"submit", "approve"} /\ partner' = PutPartner(q, x)
    BY <1>10, <2>1, <2>2 DEF Joining!FinishDecision, Joining!At, PutPartner
  <2>4. q \in DOMAIN partner /\ partner[q].status \in {"REGISTERED", "REJECTED", "PENDING_APPROVAL"}
        /\ status \in {"PENDING_APPROVAL", "APPROVED"}
    BY <2>1, <2>3 DEF TurnInv, JoinInv, Knows, Sees, Papered, Joining!StatusAfter
  <2>5. x.bank = partner[q].bank
    BY <1>2, <2>2, <2>4, RowUpdates
  <2> QED
    BY <1>4, <2>3, <2>4, <2>5
<1>11. CASE Joining!CreateAccount(r)
  <2>1. partner' = partner \/ \E q : q \notin DOMAIN partner /\ \E link : partner' = Joining!Joins(q, link)
    BY <1>11 DEF Joining!CreateAccount
  <2> QED
    BY <1>3, <1>5, <2>1
<1>12. CASE \E q \in Person : Joining!AddPartner(q)
  BY <1>5, <1>12 DEF Joining!AddPartner
<1>13. CASE partner' = partner
  BY <1>3, <1>13
<1>14. ASSUME NEW s \in Request PROVE s = r
  OBVIOUS
<1>15. \/ Joining!CreateInvite \/ (\E i \in DOMAIN invite : Joining!EndInvite(i))
       \/ (\E f \in DOMAIN referral, s \in Joining!ReferralStatus : Joining!ChangeStatus(f, s))
       \/ (\E s, q \in Person : Joining!BeginIntroduce(r, s, q))
       \/ (\E f \in DOMAIN referral : Joining!BeginInviteFor(r, f))
       \/ (\E s \in Person, i \in DOMAIN invite \cup {None} : Joining!BeginRegister(r, s, i))
       \/ (\E s \in DOMAIN partner : Joining!BeginSubmit(r, s) \/ Joining!BeginApprove(r, s) \/ \E b \in Bank : Joining!BeginSaveBank(r, s, b))
       \/ Joining!FinishIntroduce(r) \/ Joining!FinishInviteFor(r) \/ Joining!MarkUsed(r) \/ Joining!MarkJoined(r) \/ Joining!BreakOff(r)
       => partner' = partner
  BY DEF Joining!CreateInvite, Joining!EndInvite, Joining!ChangeStatus, Joining!BeginIntroduce, Joining!BeginInviteFor,
     Joining!BeginRegister, Joining!BeginSubmit, Joining!BeginApprove, Joining!BeginSaveBank, Joining!Begins,
     Joining!FinishIntroduce, Joining!FinishInviteFor, Joining!MarkUsed, Joining!MarkJoined, Joining!BreakOff
<1>16. UNCHANGED Joining!vars => partner' = partner
  BY DEF Joining!vars
<1> QED
  BY <1>6, <1>7, <1>8, <1>9, <1>10, <1>11, <1>12, <1>13, <1>14, <1>15, <1>16, Zenon DEF Joining!Next

\* Of requests taken one at a time, even if one breaks off: nobody is ever sent
\* two links that work.
THEOREM OneLinkWorks ==
    ASSUME OneAtATime, None \notin Bank \cup Nat \cup Person, Idle \notin Registered
    PROVE  Joining!Spec => []Joining!OneLiveLink
<1>1. PICK r : Request = {r}
  BY DEF OneAtATime
<1>2. Joining!Init => TurnInv(r)
  BY <1>1, TurnFirst
<1>3. TurnInv(r) /\ [Joining!Next]_(Joining!vars) => TurnInv(r)'
  BY <1>1, TurnStep
<1>4. TurnInv(r) => Joining!OneLiveLink
  BY <1>1, TurnGives
<1> QED
  BY <1>2, <1>3, <1>4, PTL DEF Joining!Spec

\* Of requests that run to their end: no two accounts come from one link, and
\* once registered the link names the account.
THEOREM LinkOpensOneAccount ==
    ASSUME OneAtATime, ~MayFail, None \notin Bank \cup Nat \cup Person, Idle \notin Registered
    PROVE  Joining!Spec => []Joining!LinkOpensOne
<1>1. PICK r : Request = {r}
  BY DEF OneAtATime
<1>2. Joining!Init => TurnInv(r)
  BY <1>1, TurnFirst
<1>3. TurnInv(r) /\ [Joining!Next]_(Joining!vars) => TurnInv(r)'
  BY <1>1, TurnStep
<1>4. TurnInv(r) => Joining!LinkOpensOne
  BY <1>1, TurnGives
<1> QED
  BY <1>2, <1>3, <1>4, PTL DEF Joining!Spec

\* Of requests taken one at a time: what was submitted is what is approved. From
\* the submission on only an approver changes the bank details, and an approval
\* is only taken back by a rejection.
THEOREM SubmittedIsApproved ==
    ASSUME OneAtATime, None \notin Bank \cup Nat \cup Person, Idle \notin Registered
    PROVE  Joining!Spec => Joining!StandingIsKept
<1>1. PICK r : Request = {r}
  BY DEF OneAtATime
<1>2. Joining!Init => TurnInv(r)
  BY <1>1, TurnFirst
<1>3. TurnInv(r) /\ [Joining!Next]_(Joining!vars) => TurnInv(r)'
  BY <1>1, TurnStep
<1>4. TurnInv(r) /\ [Joining!Next]_(Joining!vars) => [Joining!Standing]_(Joining!vars)
  BY <1>1, StandingStep
<1> QED
  BY <1>2, <1>3, <1>4, PTL DEF Joining!Spec, Joining!StandingIsKept

-----------------------------------------------------------------------------
(* The staff.                                                              *)

\* What the requests may say: an ADMIN gives every role but their own.
TeamSetup ==
    /\ Root \in User /\ None \notin User \cup {"TEAM_LEADER", "SALES_MANAGER"} /\ "ADMIN" \notin Role
    /\ ZoneSets \subseteq SUBSET Zone
    /\ Patches \subseteq [role : Role \cup {Keep}, zones : ZoneSets \cup {Keep},
                          manager : User \cup {None, Keep}, leader : User \cup {None, Keep}]

StaffRow == [role : Role \cup {"ADMIN"}, manager : User \cup {None}, leader : User \cup {None},
             zones : SUBSET Zone, fiber : BOOLEAN, edit : BOOLEAN]

\* There is one ADMIN at most.
OneAdmin == \A u \in DOMAIN user : user[u].role = "ADMIN" => u = Root

TeamInv == People!TypeOK /\ People!SurveyorsReportToManagers /\ People!TicksFitRole /\ OneAdmin

LEMMA StaffRows ==
    ASSUME People!TypeOK, NEW u \in DOMAIN user
    PROVE  /\ u \in User /\ user[u] \in StaffRow
           /\ user[u].role \in Role \cup {"ADMIN"} /\ user[u].manager \in User \cup {None}
           /\ user[u].leader \in User \cup {None} /\ user[u].zones \in SUBSET Zone
           /\ user[u].fiber \in BOOLEAN /\ user[u].edit \in BOOLEAN
<1>1. u \in User /\ user[u] \in StaffRow
  BY DEF People!TypeOK, StaffRow
<1> QED
  BY <1>1 DEF StaffRow

\* An account keeps its role and whom it reports to, and its ticks fit.
LEMMA RolesSame ==
    ASSUME TeamInv, DOMAIN user' = DOMAIN user,
           \A v \in DOMAIN user : /\ user'[v] \in StaffRow
                                  /\ user'[v].role = user[v].role /\ user'[v].manager = user[v].manager
                                  /\ user'[v].fiber => user[v].role \in People!FIBER_ACCESS_ROLES
                                  /\ user'[v].edit => user[v].role \in People!BUILDING_EDIT_ROLES
    PROVE  TeamInv'
<1>1. People!TypeOK'
  BY DEF TeamInv, People!TypeOK, StaffRow
<1>2. People!SurveyorsReportToManagers'
  BY DEF TeamInv, People!SurveyorsReportToManagers, People!HasRole, People!RoleIn
<1>3. People!TicksFitRole'
  BY DEF TeamInv, People!TicksFitRole, People!RoleIn, People!FIBER_ACCESS_ROLES, People!BUILDING_EDIT_ROLES
<1> QED
  BY <1>1, <1>2, <1>3 DEF TeamInv, OneAdmin

\* Accounts are added, with no ticks, to whatever is there.
LEMMA RolesAdded ==
    ASSUME TeamInv, NEW new \in SUBSET User, new \cap DOMAIN user = {}, DOMAIN user' = DOMAIN user \cup new,
           \A v \in DOMAIN user : user'[v] = user[v],
           \A v \in new : /\ user'[v] \in StaffRow /\ user'[v].role # "ADMIN"
                          /\ user'[v].fiber = FALSE /\ user'[v].edit = FALSE
                          /\ user'[v].role = "SURVEYOR" /\ user'[v].manager # None => People!HasRole(user'[v].manager, "MANAGER")
    PROVE  TeamInv'
<1>1. People!TypeOK'
  <2>1. \A v \in DOMAIN user' : v \in User /\ user'[v] \in StaffRow
    BY StaffRows DEF TeamInv
  <2> QED
    BY <2>1 DEF People!TypeOK, StaffRow
<1>2. People!SurveyorsReportToManagers'
  BY DEF TeamInv, People!SurveyorsReportToManagers, People!HasRole, People!RoleIn
<1>3. People!TicksFitRole'
  BY DEF TeamInv, People!TicksFitRole, People!RoleIn, People!FIBER_ACCESS_ROLES, People!BUILDING_EDIT_ROLES
<1>4. OneAdmin'
  BY DEF TeamInv, OneAdmin
<1> QED
  BY <1>1, <1>2, <1>3, <1>4 DEF TeamInv

LEMMA TeamFirst == TeamSetup /\ People!Init => TeamInv
<1> SUFFICES ASSUME TeamSetup, People!Init PROVE TeamInv
  OBVIOUS
<1>1. PICK x : x = [role |-> "ADMIN", manager |-> None, leader |-> None, zones |-> {}, fiber |-> FALSE, edit |-> FALSE]
  OBVIOUS
<1>2. DOMAIN user = {Root} /\ user[Root] = x
  BY <1>1 DEF People!Init
<1>3. x \in StaffRow /\ x.role = "ADMIN" /\ x.fiber = FALSE /\ x.edit = FALSE
  BY <1>1 DEF StaffRow
<1>4. People!TypeOK
  BY <1>2, <1>3 DEF TeamSetup, People!TypeOK, StaffRow
<1> QED
  BY <1>2, <1>3, <1>4 DEF TeamInv, OneAdmin, People!SurveyorsReportToManagers, People!TicksFitRole, People!RoleIn

LEMMA CreateUserKeeps ==
    ASSUME TeamSetup, TeamInv, NEW actor \in DOMAIN user, NEW u \in User, NEW role \in Role, NEW zones \in ZoneSets,
           NEW m \in User \cup {None}, NEW l \in User \cup {None}, People!CreateUser(actor, u, role, zones, m, l)
    PROVE  TeamInv'
<1> DEFINE byManager == People!RoleIn(actor) = "MANAGER"
           links == People!ReportingLinks(role, IF byManager THEN actor ELSE m, IF byManager THEN None ELSE l)
<1>1. PICK x : x = [role |-> role, manager |-> links.manager, leader |-> links.leader,
                    zones |-> IF role \in People!ZONE_ROLES THEN zones ELSE {}, fiber |-> FALSE, edit |-> FALSE]
  OBVIOUS
<1>2. /\ u \notin DOMAIN user /\ People!LinksAreRight(role, links)
      /\ user' = [v \in DOMAIN user \cup {u} |-> IF v = u THEN x ELSE user[v]]
  BY <1>1, Zenon DEF People!CreateUser
<1>3. PICK mm, ll : mm = (IF byManager THEN actor ELSE m) /\ ll = (IF byManager THEN None ELSE l)
  OBVIOUS
<1>4. mm \in User \cup {None} /\ ll \in User \cup {None}
  BY <1>3, StaffRows DEF TeamInv
<1>5. links.manager \in User \cup {None} /\ links.leader \in User \cup {None}
  BY <1>3, <1>4 DEF People!ReportingLinks
<1>6. x \in StaffRow /\ x.role = role /\ x.manager = links.manager /\ x.fiber = FALSE /\ x.edit = FALSE
  <2>1. (IF role \in People!ZONE_ROLES THEN zones ELSE {}) \in SUBSET Zone
    BY DEF TeamSetup
  <2> HIDE DEF links
  <2> QED
    BY <1>1, <1>5, <2>1 DEF StaffRow
<1>7. role = "SURVEYOR" /\ links.manager # None => People!HasRole(links.manager, "MANAGER")
  <2> HIDE DEF links
  <2> QED
    BY <1>2 DEF People!LinksAreRight, People!ManagerRoleFor
<1>8. role # "ADMIN"
  BY DEF TeamSetup
<1>9. DOMAIN user' = DOMAIN user \cup {u} /\ user'[u] = x /\ \A v \in DOMAIN user : user'[v] = user[v]
  BY <1>2
<1> HIDE DEF links
<1>10. PICK new : new = {u}
  OBVIOUS
<1>11. new \in SUBSET User /\ new \cap DOMAIN user = {} /\ DOMAIN user' = DOMAIN user \cup new
  BY <1>2, <1>9, <1>10
<1>12. \A v \in new : /\ user'[v] \in StaffRow /\ user'[v].role # "ADMIN"
                      /\ user'[v].fiber = FALSE /\ user'[v].edit = FALSE
                      /\ user'[v].role = "SURVEYOR" /\ user'[v].manager # None => People!HasRole(user'[v].manager, "MANAGER")
  BY <1>6, <1>7, <1>8, <1>9, <1>10
<1> QED
  BY <1>9, <1>11, <1>12, RolesAdded

LEMMA BulkCreateUsersKeeps ==
    ASSUME TeamSetup, TeamInv, NEW actor \in DOMAIN user, NEW u \in User, NEW w \in User,
           NEW rows \in [{u, w} -> [role : People!SalesRole \cap Role, reportsTo : User]], People!BulkCreateUsers(actor, rows)
    PROVE  TeamInv'
<1> DEFINE new == DOMAIN rows
           roleFor(id) == IF id \in new THEN rows[id].role ELSE IF id \in DOMAIN user THEN People!RoleIn(id) ELSE None
           need(role) == IF role = "TEAM_LEADER" THEN "SALES_MANAGER" ELSE "TEAM_LEADER"
           managerOf(id) == IF id \in new THEN rows[id].reportsTo ELSE user[id].manager
           manager(row) == CASE row.role = "SALES_MANAGER" -> None [] row.role = "TEAM_LEADER" -> row.reportsTo
                                  [] OTHER -> managerOf(row.reportsTo)
           leader(row) == IF row.role = "SALES_EXECUTIVE" THEN row.reportsTo ELSE None
<1>1. /\ new \cap DOMAIN user = {}
      /\ \A v \in new : rows[v].role = "SALES_MANAGER" \/ roleFor(rows[v].reportsTo) = need(rows[v].role)
      /\ user' = [v \in DOMAIN user \cup new |->
                    IF v \notin new THEN user[v]
                    ELSE [role |-> rows[v].role, zones |-> {}, fiber |-> FALSE, edit |-> FALSE,
                          manager |-> manager(rows[v]), leader |-> leader(rows[v])]]
  BY Zenon DEF People!BulkCreateUsers
<1>2. new = {u, w} /\ \A v \in new : rows[v] \in [role : People!SalesRole \cap Role, reportsTo : User]
  OBVIOUS
<1>3. \A v \in new : rows[v].role \in Role /\ rows[v].role \in {"SALES_MANAGER", "TEAM_LEADER", "SALES_EXECUTIVE"} /\ rows[v].reportsTo \in User
  BY <1>2 DEF People!SalesRole
<1>4. ASSUME NEW v \in new PROVE manager(rows[v]) \in User \cup {None} /\ leader(rows[v]) \in User \cup {None}
  <2>1. leader(rows[v]) \in User \cup {None}
    BY <1>3
  <2>2. CASE rows[v].role = "SALES_MANAGER"
    BY <2>1, <2>2
  <2>3. CASE rows[v].role = "TEAM_LEADER"
    BY <1>3, <2>1, <2>3
  <2>4. CASE rows[v].role = "SALES_EXECUTIVE"
    <3>1. rows[v].reportsTo \in new \/ rows[v].reportsTo \in DOMAIN user
      BY <1>1, <2>4 DEF TeamSetup
    <3>2. managerOf(rows[v].reportsTo) \in User \cup {None}
      BY <1>3, <3>1, StaffRows DEF TeamInv
    <3>3. manager(rows[v]) = managerOf(rows[v].reportsTo)
      BY <2>4
    <3> QED
      BY <2>1, <3>2, <3>3
  <2> QED
    BY <1>3, <2>2, <2>3, <2>4
<1> HIDE DEF new, manager, leader, managerOf, roleFor, need
<1>5. DOMAIN user' = DOMAIN user \cup new /\ \A v \in DOMAIN user : user'[v] = user[v]
  BY <1>1
<1>6. ASSUME NEW v \in new
      PROVE  /\ user'[v] \in StaffRow /\ user'[v].role = rows[v].role /\ user'[v].fiber = FALSE /\ user'[v].edit = FALSE
  <2>1. user'[v] = [role |-> rows[v].role, zones |-> {}, fiber |-> FALSE, edit |-> FALSE,
                          manager |-> manager(rows[v]), leader |-> leader(rows[v])]
    BY <1>1
  <2> QED
    BY <1>3, <1>4, <2>1 DEF StaffRow
<1>7. new \in SUBSET User
  BY <1>2
<1> QED
  BY <1>1, <1>3, <1>5, <1>6, <1>7, RolesAdded

LEMMA BulkAssignZonesKeeps ==
    ASSUME TeamSetup, TeamInv, NEW actor \in DOMAIN user, NEW u, NEW zones \in ZoneSets, People!BulkAssignZones(actor, u, zones)
    PROVE  TeamInv'
<1>1. PICK x : x = [user[u] EXCEPT !.zones = zones]
  OBVIOUS
<1>2. u \in DOMAIN user /\ user' = [user EXCEPT ![u] = x]
  BY <1>1 DEF People!BulkAssignZones
<1>3. user[u] \in StaffRow
  BY <1>2, StaffRows DEF TeamInv
<1>4. zones \in SUBSET Zone
  BY DEF TeamSetup
<1>5. /\ x \in StaffRow /\ x.role = user[u].role /\ x.manager = user[u].manager
      /\ x.fiber = user[u].fiber /\ x.edit = user[u].edit
  BY <1>1, <1>3, <1>4 DEF StaffRow
<1>6. DOMAIN user' = DOMAIN user /\ user'[u] = x /\ \A v \in DOMAIN user : v # u => user'[v] = user[v]
  BY <1>2
<1>7. \A v \in DOMAIN user : /\ user[v] \in StaffRow
                             /\ user[v].fiber => user[v].role \in People!FIBER_ACCESS_ROLES
                             /\ user[v].edit => user[v].role \in People!BUILDING_EDIT_ROLES
  BY StaffRows DEF TeamInv, People!TicksFitRole, People!RoleIn
<1>8. ASSUME NEW v \in DOMAIN user
      PROVE  /\ user'[v] \in StaffRow
             /\ user'[v].role = user[v].role /\ user'[v].manager = user[v].manager
             /\ user'[v].fiber => user[v].role \in People!FIBER_ACCESS_ROLES
             /\ user'[v].edit => user[v].role \in People!BUILDING_EDIT_ROLES
  <2>1. CASE v = u
    BY <1>2, <1>5, <1>6, <1>7, <2>1
  <2>2. CASE v # u
    BY <1>6, <1>7, <2>2
  <2> QED
    BY <2>1, <2>2
<1> QED
  BY <1>6, <1>8, RolesSame

LEMMA SetAccessKeeps ==
    ASSUME TeamSetup, TeamInv, NEW actor \in DOMAIN user, NEW u, NEW fiber \in People!Hand, NEW edit \in People!Hand,
           People!SetAccess(actor, u, fiber, edit)
    PROVE  TeamInv'
<1>1. PICK y : y = [user[u] EXCEPT !.fiber = IF fiber = Keep THEN user[u].fiber ELSE fiber]
  OBVIOUS
<1>2. PICK x : x = [y EXCEPT !.edit = IF edit = Keep THEN user[u].edit ELSE edit]
  OBVIOUS
<1>3. u \in DOMAIN user /\ user[u] \in StaffRow
  BY StaffRows DEF TeamInv, People!SetAccess
<1>4. /\ y \in StaffRow /\ y.role = user[u].role /\ y.manager = user[u].manager /\ y.zones = user[u].zones
      /\ y.fiber = (IF fiber = Keep THEN user[u].fiber ELSE fiber) /\ y.edit = user[u].edit
  BY <1>1, <1>3 DEF StaffRow, People!Hand
<1>5. /\ x \in StaffRow /\ x.role = user[u].role /\ x.manager = user[u].manager /\ x.zones = user[u].zones
      /\ x.fiber = (IF fiber = Keep THEN user[u].fiber ELSE fiber) /\ x.edit = (IF edit = Keep THEN user[u].edit ELSE edit)
  BY <1>2, <1>3, <1>4 DEF StaffRow, People!Hand
<1>6. user' = [user EXCEPT ![u] = x]
  <2>1. user' = [user EXCEPT ![u].fiber = IF fiber = Keep THEN @ ELSE fiber, ![u].edit = IF edit = Keep THEN @ ELSE edit]
    BY DEF People!SetAccess
  <2>2. user' = [[user EXCEPT ![u] = y] EXCEPT ![u].edit = IF edit = Keep THEN @ ELSE edit]
    BY <1>1, <2>1
  <2> QED
    BY <1>2, <1>3, <1>4, <2>2
<1>7. DOMAIN user' = DOMAIN user /\ user'[u] = x /\ \A v \in DOMAIN user : v # u => user'[v] = user[v]
  BY <1>3, <1>6
<1>8. \A v \in DOMAIN user : /\ user[v] \in StaffRow
                             /\ user[v].fiber => user[v].role \in People!FIBER_ACCESS_ROLES
                             /\ user[v].edit => user[v].role \in People!BUILDING_EDIT_ROLES
  BY StaffRows DEF TeamInv, People!TicksFitRole, People!RoleIn
<1>9. /\ x.fiber => user[u].role \in People!FIBER_ACCESS_ROLES
      /\ x.edit => user[u].role \in People!BUILDING_EDIT_ROLES
  BY <1>3, <1>5, <1>8 DEF People!SetAccess, People!RoleIn
<1>10. ASSUME NEW v \in DOMAIN user
      PROVE  /\ user'[v] \in StaffRow
             /\ user'[v].role = user[v].role /\ user'[v].manager = user[v].manager
             /\ user'[v].fiber => user[v].role \in People!FIBER_ACCESS_ROLES
             /\ user'[v].edit => user[v].role \in People!BUILDING_EDIT_ROLES
  <2>1. CASE v = u
    BY <1>5, <1>7, <1>9, <2>1
  <2>2. CASE v # u
    BY <1>7, <1>8, <2>2
  <2> QED
    BY <2>1, <2>2
<1> QED
  BY <1>7, <1>10, RolesSame

\* What an edit by the actor makes of the account u, x being its new row, and of
\* those who report to it.
Makes(actor, u, x) ==
    /\ user' = IF user[u].role = "MANAGER" /\ x.role # user[u].role
               THEN People!ClearReports([user EXCEPT ![u] = x], u) ELSE [user EXCEPT ![u] = x]
    /\ x.role = user[u].role \/ x.role \in Role
    /\ \/ x.role = user[u].role /\ x.manager = user[u].manager
       \/ x.role = "SURVEYOR" /\ x.manager # None => People!HasRole(x.manager, "MANAGER")
    /\ x.fiber => user[u].fiber /\ (x.role # user[u].role => x.role \in People!FIBER_ACCESS_ROLES)
    /\ x.edit => user[u].edit /\ (x.role # user[u].role => x.role \in People!BUILDING_EDIT_ROLES)
    /\ user[actor].role = "MANAGER" =>
            /\ user[u].role = "SURVEYOR" /\ user[u].manager = actor
            /\ x.zones = user[u].zones \/ \E zones \in SUBSET user[actor].zones :
                                               x.zones = zones \cup (user[u].zones \ user[actor].zones)
    /\ user[actor].role = "ACQUISITION_LEAD" => x.zones = user[u].zones

LEMMA UpdateMakes ==
    ASSUME TeamSetup, People!TypeOK, NEW actor \in DOMAIN user, NEW u \in User, NEW e \in Patches, People!UpdateUser(actor, u, e)
    PROVE  u \in DOMAIN user /\ People!Manages(actor) /\ \E x \in StaffRow : Makes(actor, u, x)
<1> DEFINE cur == user[u]
           byManager == People!RoleIn(actor) = "MANAGER"
           mine == user[actor].zones
           role == IF e.role = Keep THEN cur.role ELSE e.role
           moved == role # cur.role
           manager == IF byManager THEN Keep ELSE e.manager
           leader == IF byManager THEN Keep ELSE e.leader
           sent(link, stored, fits) == IF link # Keep THEN link ELSE IF moved THEN People!InheritedLink(stored, fits) ELSE stored
           relinked == moved \/ {manager, leader} # {Keep}
           sentManager == sent(manager, cur.manager, People!ManagerRoleFor(role))
           sentLeader == sent(leader, cur.leader, People!LeaderRoleFor(role))
           links == IF relinked
                    THEN People!ReportingLinks(role, sentManager, sentLeader)
                    ELSE [manager |-> cur.manager, leader |-> cur.leader]
           zones == IF e.zones = Keep
                    THEN IF moved \/ (role = "TEAM_LEADER" /\ links.manager # cur.manager) THEN {} ELSE cur.zones
                    ELSE IF role \notin People!ZONE_ROLES THEN cur.zones
                    ELSE IF byManager THEN e.zones \cup (cur.zones \ mine) ELSE e.zones
           row == [role |-> role, manager |-> links.manager, leader |-> links.leader, zones |-> zones,
                   fiber |-> cur.fiber /\ (moved => role \in People!FIBER_ACCESS_ROLES),
                   edit |-> cur.edit /\ (moved => role \in People!BUILDING_EDIT_ROLES)]
<1>1. /\ People!Manages(actor) /\ u \in DOMAIN user
      /\ People!AssertMayManage(actor, cur.role) /\ People!AssertMayManage(actor, role)
      /\ byManager => /\ cur.role = "SURVEYOR" /\ cur.manager = actor /\ ~moved /\ e.manager \in {Keep, cur.manager}
                      /\ e.zones # Keep => e.zones \subseteq mine
      /\ relinked => People!LinksAreRight(role, links)
      /\ user' = IF cur.role = "MANAGER" /\ moved THEN People!ClearReports([user EXCEPT ![u] = row], u) ELSE [user EXCEPT ![u] = row]
  BY Zenon DEF People!UpdateUser
<1>2. /\ e.role \in Role \cup {Keep} /\ e.zones \in ZoneSets \cup {Keep}
      /\ e.manager \in User \cup {None, Keep} /\ e.leader \in User \cup {None, Keep}
  BY DEF TeamSetup
<1>3. /\ cur.role \in Role \cup {"ADMIN"} /\ cur.manager \in User \cup {None} /\ cur.leader \in User \cup {None}
      /\ cur.zones \in SUBSET Zone /\ cur.fiber \in BOOLEAN /\ cur.edit \in BOOLEAN
  BY <1>1, StaffRows
<1>4. role \in Role \cup {"ADMIN"} /\ (role = cur.role \/ role \in Role)
  BY <1>2, <1>3
<1>5. sentManager \in User \cup {None} /\ sentLeader \in User \cup {None}
  BY <1>2, <1>3 DEF People!InheritedLink
<1>6. links.manager \in User \cup {None} /\ links.leader \in User \cup {None}
  <2>1. ASSUME NEW a \in User \cup {None}, NEW b \in User \cup {None}
        PROVE  /\ People!ReportingLinks(role, a, b).manager \in User \cup {None}
               /\ People!ReportingLinks(role, a, b).leader \in User \cup {None}
    BY <2>1 DEF People!ReportingLinks
  <2> HIDE DEF sentManager, sentLeader, relinked, role
  <2>2. CASE relinked
    BY <1>5, <2>1, <2>2
  <2>3. CASE ~relinked
    BY <1>3, <2>3
  <2> QED
    BY <2>2, <2>3
<1>7. relinked \/ (role = cur.role /\ links.manager = cur.manager)
  <2> HIDE DEF sentManager, sentLeader
  <2> QED
    OBVIOUS
<1>8. relinked => (role = "SURVEYOR" /\ links.manager # None => People!HasRole(links.manager, "MANAGER"))
  <2> HIDE DEF links, relinked, role
  <2> QED
    BY <1>1 DEF People!LinksAreRight, People!ManagerRoleFor
<1>9. zones \in SUBSET Zone
  <2>1. e.zones # Keep => e.zones \in SUBSET Zone
    BY <1>2 DEF TeamSetup
  <2> HIDE DEF links, role, moved, cur
  <2> QED
    BY <1>3, <2>1
<1>10. PICK fiber, edit : /\ fiber = (cur.fiber /\ (moved => role \in People!FIBER_ACCESS_ROLES))
                          /\ edit = (cur.edit /\ (moved => role \in People!BUILDING_EDIT_ROLES))
  OBVIOUS
<1>11. fiber \in BOOLEAN /\ edit \in BOOLEAN
  BY <1>10
<1>12. row = [role |-> role, manager |-> links.manager, leader |-> links.leader, zones |-> zones, fiber |-> fiber, edit |-> edit]
  BY <1>10, Zenon
<1>13. user[actor].role = "MANAGER" =>
          /\ cur.role = "SURVEYOR" /\ cur.manager = actor
          /\ zones = cur.zones \/ \E zs \in SUBSET mine : zones = zs \cup (cur.zones \ mine)
  <2>1. SUFFICES ASSUME user[actor].role = "MANAGER"
                 PROVE  zones = cur.zones \/ \E zs \in SUBSET mine : zones = zs \cup (cur.zones \ mine)
    BY <1>1 DEF People!RoleIn
  <2>2. byManager /\ role = "SURVEYOR" /\ ~moved /\ (e.zones # Keep => e.zones \subseteq mine)
    BY <1>1, <2>1 DEF People!RoleIn
  <2>3. CASE e.zones = Keep
    <3> HIDE DEF links, role, moved, cur
    <3> QED
      BY <2>2, <2>3
  <2>4. CASE e.zones # Keep
    <3> HIDE DEF links, role, moved, cur, mine, byManager
    <3>1. zones = e.zones \cup (cur.zones \ mine)
      BY <2>2, <2>4 DEF People!ZONE_ROLES
    <3> QED
      BY <2>2, <2>4, <3>1
  <2> QED
    BY <2>3, <2>4
<1>14. user[actor].role = "ACQUISITION_LEAD" => zones = cur.zones
  <2>1. SUFFICES ASSUME user[actor].role = "ACQUISITION_LEAD" PROVE zones = cur.zones
    OBVIOUS
  <2>2. role = "ACQUISITION_AGENT" /\ ~moved
    BY <1>1, <2>1 DEF People!AssertMayManage, People!RoleIn
  <2> HIDE DEF links, role, moved, cur, mine, byManager
  <2> QED
    BY <2>2 DEF People!ZONE_ROLES
<1> HIDE DEF links, relinked, zones, role, sentManager, sentLeader
<1>15. PICK x : x = row
  OBVIOUS
<1>16. /\ x \in StaffRow /\ x.role = role /\ x.manager = links.manager /\ x.zones = zones
       /\ x.fiber = fiber /\ x.edit = edit
  BY <1>4, <1>6, <1>9, <1>11, <1>12, <1>15 DEF StaffRow
<1>17. user' = IF user[u].role = "MANAGER" /\ x.role # user[u].role
               THEN People!ClearReports([user EXCEPT ![u] = x], u) ELSE [user EXCEPT ![u] = x]
  BY <1>1, <1>15, <1>16
<1>18. \/ x.role = user[u].role /\ x.manager = user[u].manager
       \/ x.role = "SURVEYOR" /\ x.manager # None => People!HasRole(x.manager, "MANAGER")
  BY <1>7, <1>8, <1>16
<1>19. /\ x.fiber => user[u].fiber /\ (x.role # user[u].role => x.role \in People!FIBER_ACCESS_ROLES)
       /\ x.edit => user[u].edit /\ (x.role # user[u].role => x.role \in People!BUILDING_EDIT_ROLES)
  BY <1>10, <1>16
<1> HIDE DEF row
<1> QED
  BY <1>1, <1>4, <1>13, <1>14, <1>16, <1>17, <1>18, <1>19 DEF Makes

LEMMA UpdateUserKeeps ==
    ASSUME TeamSetup, TeamInv, NEW actor \in DOMAIN user, NEW u \in User, NEW e \in Patches, People!UpdateUser(actor, u, e)
    PROVE  TeamInv'
<1>1. People!TypeOK
  BY DEF TeamInv
<1>2. u \in DOMAIN user
  BY <1>1, UpdateMakes
<1>3. PICK x \in StaffRow : Makes(actor, u, x)
  BY <1>1, UpdateMakes
<1>4. PICK mid : mid = [user EXCEPT ![u] = x]
  OBVIOUS
<1>5. DOMAIN mid = DOMAIN user /\ mid[u] = x /\ \A v \in DOMAIN user : v # u => mid[v] = user[v]
  BY <1>2, <1>4
<1>6. \A v \in DOMAIN user : v \in User /\ mid[v] \in StaffRow
  BY <1>1, <1>2, <1>5, StaffRows
<1>7. \A v \in DOMAIN user : /\ mid[v].fiber => mid[v].role \in People!FIBER_ACCESS_ROLES
                             /\ mid[v].edit => mid[v].role \in People!BUILDING_EDIT_ROLES
                             /\ mid[v].role = "ADMIN" => v = Root
  <2>1. \A v \in DOMAIN user : /\ user[v].fiber => user[v].role \in People!FIBER_ACCESS_ROLES
                               /\ user[v].edit => user[v].role \in People!BUILDING_EDIT_ROLES
                               /\ user[v].role = "ADMIN" => v = Root
    BY DEF TeamInv, People!TicksFitRole, People!RoleIn, OneAdmin
  <2>2. /\ x.fiber => x.role \in People!FIBER_ACCESS_ROLES
        /\ x.edit => x.role \in People!BUILDING_EDIT_ROLES
    BY <1>2, <1>3, <2>1 DEF Makes
  <2>3. x.role = "ADMIN" => u = Root
    BY <1>2, <1>3, <2>1 DEF TeamSetup, Makes
  <2> QED
    BY <1>5, <2>1, <2>2, <2>3
<1>8. \A v \in DOMAIN user : user[v].role = "SURVEYOR" /\ user[v].manager # None =>
            user[v].manager \in DOMAIN user /\ user[user[v].manager].role = "MANAGER"
  BY DEF TeamInv, People!SurveyorsReportToManagers, People!HasRole, People!RoleIn
<1>9. \A v \in DOMAIN user : mid[v].role = "SURVEYOR" /\ mid[v].manager # None =>
            mid[v].manager \in DOMAIN user /\ user[mid[v].manager].role = "MANAGER"
  BY <1>2, <1>3, <1>5, <1>8 DEF Makes, People!HasRole, People!RoleIn
<1>10. CASE user[u].role = "MANAGER" /\ x.role # user[u].role
  <2>1. user' = [v \in DOMAIN mid |-> IF mid[v].manager = u /\ mid[v].role = "SURVEYOR" THEN [mid[v] EXCEPT !.manager = None] ELSE mid[v]]
    BY <1>3, <1>4, <1>10 DEF Makes, People!ClearReports
  <2>2. DOMAIN user' = DOMAIN user
    BY <1>5, <2>1
  <2>3. ASSUME NEW v \in DOMAIN user
        PROVE  /\ user'[v] \in StaffRow /\ user'[v].role = mid[v].role
               /\ user'[v].fiber = mid[v].fiber /\ user'[v].edit = mid[v].edit
               /\ user'[v].manager = None \/ user'[v].manager = mid[v].manager
               /\ user'[v].role = "SURVEYOR" => user'[v].manager # u \/ user'[v].manager = None
    <3>1. PICK y : y = [mid[v] EXCEPT !.manager = None]
      OBVIOUS
    <3>2. /\ y \in StaffRow /\ y.role = mid[v].role /\ y.manager = None
          /\ y.fiber = mid[v].fiber /\ y.edit = mid[v].edit
      BY <1>6, <3>1 DEF StaffRow
    <3>3. user'[v] = IF mid[v].manager = u /\ mid[v].role = "SURVEYOR" THEN y ELSE mid[v]
      BY <1>5, <2>1, <3>1
    <3>4. CASE mid[v].manager = u /\ mid[v].role = "SURVEYOR"
      BY <3>2, <3>3, <3>4
    <3>5. CASE ~(mid[v].manager = u /\ mid[v].role = "SURVEYOR")
      BY <1>6, <3>3, <3>5
    <3> QED
      BY <3>4, <3>5
  <2>4. People!TypeOK'
    BY <1>6, <2>2, <2>3 DEF People!TypeOK, StaffRow
  <2>5. People!SurveyorsReportToManagers'
    BY <1>5, <1>9, <2>2, <2>3 DEF People!SurveyorsReportToManagers, People!HasRole, People!RoleIn
  <2>6. People!TicksFitRole'
    BY <1>7, <2>2, <2>3 DEF People!TicksFitRole, People!RoleIn, People!FIBER_ACCESS_ROLES, People!BUILDING_EDIT_ROLES
  <2>7. OneAdmin'
    BY <1>7, <2>2, <2>3 DEF OneAdmin
  <2> QED
    BY <2>4, <2>5, <2>6, <2>7 DEF TeamInv
<1>11. CASE ~(user[u].role = "MANAGER" /\ x.role # user[u].role)
  <2>1. user' = mid
    BY <1>3, <1>4, <1>11 DEF Makes
  <2>2. People!TypeOK'
    BY <1>5, <1>6, <2>1 DEF People!TypeOK, StaffRow
  <2>3. \A v \in DOMAIN user : user[v].role = "MANAGER" => mid[v].role = "MANAGER"
    BY <1>5, <1>11
  <2>4. People!SurveyorsReportToManagers'
    BY <1>5, <1>9, <2>1, <2>3 DEF People!SurveyorsReportToManagers, People!HasRole, People!RoleIn
  <2>5. People!TicksFitRole'
    BY <1>5, <1>7, <2>1 DEF People!TicksFitRole, People!RoleIn, People!FIBER_ACCESS_ROLES, People!BUILDING_EDIT_ROLES
  <2>6. OneAdmin'
    BY <1>5, <1>7, <2>1 DEF OneAdmin
  <2> QED
    BY <2>2, <2>4, <2>5, <2>6 DEF TeamInv
<1> QED
  BY <1>10, <1>11

LEMMA TeamStep ==
    ASSUME TeamSetup, TeamInv, [People!Next]_user
    PROVE  TeamInv'
<1>1. CASE user' = user
  BY <1>1, StaffRows, RolesSame DEF TeamInv, People!TicksFitRole, People!RoleIn
<1>2. CASE People!Next
  <2>1. PICK actor \in DOMAIN user, u \in User :
        \/ \E role \in Role, zones \in ZoneSets, m, l \in User \cup {None} : People!CreateUser(actor, u, role, zones, m, l)
        \/ \E e \in Patches : People!UpdateUser(actor, u, e)
        \/ \E zones \in ZoneSets : People!BulkAssignZones(actor, u, zones)
        \/ \E v \in User : \E rows \in [{u, v} -> [role : People!SalesRole \cap Role, reportsTo : User]] :
                People!BulkCreateUsers(actor, rows)
        \/ \E fiber, edit \in People!Hand : People!SetAccess(actor, u, fiber, edit)
    BY <1>2, Zenon DEF People!Next
  <2>2. CASE \E role \in Role, zones \in ZoneSets, m, l \in User \cup {None} : People!CreateUser(actor, u, role, zones, m, l)
    BY <2>2, CreateUserKeeps
  <2>3. CASE \E e \in Patches : People!UpdateUser(actor, u, e)
    BY <2>3, UpdateUserKeeps
  <2>4. CASE \E zones \in ZoneSets : People!BulkAssignZones(actor, u, zones)
    BY <2>4, BulkAssignZonesKeeps
  <2>5. CASE \E v \in User : \E rows \in [{u, v} -> [role : People!SalesRole \cap Role, reportsTo : User]] :
                People!BulkCreateUsers(actor, rows)
    BY <2>5, BulkCreateUsersKeeps
  <2>6. CASE \E fiber, edit \in People!Hand : People!SetAccess(actor, u, fiber, edit)
    BY <2>6, SetAccessKeeps
  <2> QED
    BY <2>1, <2>2, <2>3, <2>4, <2>5, <2>6
<1> QED
  BY <1>1, <1>2

\* However people are added, moved and edited: a surveyor reports to a manager
\* or to nobody, and nobody holds a tick their role cannot hold.
THEOREM ReportsAndTicksFit ==
    ASSUME TeamSetup
    PROVE  People!Spec => [](People!TypeOK /\ People!SurveyorsReportToManagers /\ People!TicksFitRole)
<1>1. People!Init => TeamInv
  BY TeamFirst
<1>2. TeamInv /\ [People!Next]_user => TeamInv'
  BY TeamStep
<1>3. TeamInv => People!TypeOK /\ People!SurveyorsReportToManagers /\ People!TicksFitRole
  BY DEF TeamInv
<1> QED
  BY <1>1, <1>2, <1>3, PTL DEF People!Spec

\* What a step may do to the zones of u, as ManagersStayHome says it.
ZonesMove(u) ==
    LET Changed == (user'[u].zones \ user[u].zones) \cup (user[u].zones \ user'[u].zones)
    IN  \/ Changed = {}
        \/ People!HasRole(user[u].manager, "MANAGER") /\ Changed \subseteq user[user[u].manager].zones
        \/ (\E zones \in ZoneSets : People!BulkAssignZones(Root, u, zones)) \/ \E e \in Patches : People!UpdateUser(Root, u, e)

LEMMA ZonesSame == ASSUME NEW u, user'[u].zones = user[u].zones PROVE ZonesMove(u)
<1>1. (user'[u].zones \ user[u].zones) \cup (user[u].zones \ user'[u].zones) = {}
  OBVIOUS
<1> QED
  BY <1>1, Zenon DEF ZonesMove

LEMMA ZonesStep ==
    ASSUME TeamSetup, TeamInv, People!Next, NEW w \in DOMAIN user
    PROVE  ZonesMove(w)
<1>1. PICK actor \in DOMAIN user, u \in User :
        \/ \E role \in Role, zones \in ZoneSets, m, l \in User \cup {None} : People!CreateUser(actor, u, role, zones, m, l)
        \/ \E e \in Patches : People!UpdateUser(actor, u, e)
        \/ \E zones \in ZoneSets : People!BulkAssignZones(actor, u, zones)
        \/ \E v \in User : \E rows \in [{u, v} -> [role : People!SalesRole \cap Role, reportsTo : User]] :
                People!BulkCreateUsers(actor, rows)
        \/ \E fiber, edit \in People!Hand : People!SetAccess(actor, u, fiber, edit)
  BY Zenon DEF People!Next
<1>2. CASE \E role \in Role, zones \in ZoneSets, m, l \in User \cup {None} : People!CreateUser(actor, u, role, zones, m, l)
  <2>1. PICK role \in Role, zones \in ZoneSets, m \in User \cup {None}, l \in User \cup {None} : People!CreateUser(actor, u, role, zones, m, l)
    BY <1>2
  <2>2. u \notin DOMAIN user /\ \E x : user' = [v \in DOMAIN user \cup {u} |-> IF v = u THEN x ELSE user[v]]
    BY <2>1, Zenon DEF People!CreateUser
  <2>3. user'[w] = user[w]
    BY <2>2
  <2> QED
    BY <2>3, ZonesSame
<1>3. CASE \E v \in User : \E rows \in [{u, v} -> [role : People!SalesRole \cap Role, reportsTo : User]] :
                People!BulkCreateUsers(actor, rows)
  <2>1. PICK v \in User : \E rows \in [{u, v} -> [role : People!SalesRole \cap Role, reportsTo : User]] : People!BulkCreateUsers(actor, rows)
    BY <1>3
  <2>0. PICK rows : People!BulkCreateUsers(actor, rows)
    BY <2>1
  <2> DEFINE managerOf(id) == IF id \in DOMAIN rows THEN rows[id].reportsTo ELSE user[id].manager
             newUser(t) == LET row == rows[t] IN
                           [role |-> row.role, zones |-> {}, fiber |-> FALSE, edit |-> FALSE,
                            manager |-> CASE row.role = "SALES_MANAGER" -> None [] row.role = "TEAM_LEADER" -> row.reportsTo
                                          [] OTHER -> managerOf(row.reportsTo),
                            leader |-> IF row.role = "SALES_EXECUTIVE" THEN row.reportsTo ELSE None]
  <2>2. /\ DOMAIN rows \cap DOMAIN user = {}
        /\ user' = [t \in DOMAIN user \cup DOMAIN rows |-> IF t \notin DOMAIN rows THEN user[t] ELSE newUser(t)]
    BY <2>0, Zenon DEF People!BulkCreateUsers
  <2> HIDE DEF newUser
  <2>3. user'[w] = user[w]
    BY <2>2
  <2> QED
    BY <2>3, ZonesSame
<1>4. CASE \E fiber, edit \in People!Hand : People!SetAccess(actor, u, fiber, edit)
  <2>1. PICK fiber \in People!Hand, edit \in People!Hand :
            u \in DOMAIN user /\ user' = [user EXCEPT ![u].fiber = IF fiber = Keep THEN @ ELSE fiber, ![u].edit = IF edit = Keep THEN @ ELSE edit]
    BY <1>4 DEF People!SetAccess
  <2>2. user[u] \in StaffRow
    BY <2>1, StaffRows DEF TeamInv
  <2>3. PICK y : y = [user[u] EXCEPT !.fiber = IF fiber = Keep THEN user[u].fiber ELSE fiber]
    OBVIOUS
  <2>4. PICK x : x = [y EXCEPT !.edit = IF edit = Keep THEN user[u].edit ELSE edit]
    OBVIOUS
  <2>5. DOMAIN user[u] = {"role", "manager", "leader", "zones", "fiber", "edit"}
    BY <2>2 DEF StaffRow
  <2>6. y.zones = user[u].zones /\ DOMAIN y = DOMAIN user[u] /\ y.edit = user[u].edit
    BY <2>3, <2>5
  <2>7. x.zones = user[u].zones
    BY <2>4, <2>5, <2>6
  <2>8. user' = [[user EXCEPT ![u] = y] EXCEPT ![u].edit = IF edit = Keep THEN @ ELSE edit]
    BY <2>1, <2>3
  <2>9. user' = [user EXCEPT ![u] = x]
    BY <2>1, <2>4, <2>6, <2>8
  <2>10. user'[w].zones = user[w].zones
    BY <2>7, <2>9
  <2> QED
    BY <2>10, ZonesSame
<1>5. CASE \E zones \in ZoneSets : People!BulkAssignZones(actor, u, zones)
  <2>1. PICK zones \in ZoneSets : People!BulkAssignZones(actor, u, zones)
    BY <1>5
  <2>2. actor = Root
    BY <2>1 DEF TeamInv, OneAdmin, People!BulkAssignZones, People!RoleIn
  <2>3. CASE w = u
    BY <2>1, <2>2, <2>3, Zenon DEF ZonesMove
  <2>4. CASE w # u
    <3>1. user' = [user EXCEPT ![u].zones = zones]
      BY <2>1 DEF People!BulkAssignZones
    <3>2. user'[w] = user[w]
      BY <2>4, <3>1
    <3> QED
      BY <3>2, ZonesSame
  <2> QED
    BY <2>3, <2>4
<1>6. CASE \E e \in Patches : People!UpdateUser(actor, u, e)
  <2>1. PICK e \in Patches : People!UpdateUser(actor, u, e)
    BY <1>6
  <2>2. People!TypeOK
    BY DEF TeamInv
  <2>3. u \in DOMAIN user /\ People!Manages(actor)
    BY <2>1, <2>2, UpdateMakes
  <2>4. PICK x \in StaffRow : Makes(actor, u, x)
    BY <2>1, <2>2, UpdateMakes
  <2>5. PICK mid : mid = [user EXCEPT ![u] = x]
    OBVIOUS
  <2>6. DOMAIN mid = DOMAIN user /\ mid[u] = x /\ \A v \in DOMAIN user : v # u => mid[v] = user[v]
    BY <2>3, <2>5
  <2>7. mid[w] \in StaffRow
    BY <2>2, <2>3, <2>6, StaffRows
  <2>8. user'[w].zones = mid[w].zones
    <3>1. CASE user[u].role = "MANAGER" /\ x.role # user[u].role
      <4>1. user'[w] = IF mid[w].manager = u /\ mid[w].role = "SURVEYOR" THEN [mid[w] EXCEPT !.manager = None] ELSE mid[w]
        BY <2>4, <2>5, <2>6, <3>1 DEF Makes, People!ClearReports
      <4>2. [mid[w] EXCEPT !.manager = None].zones = mid[w].zones
        BY <2>7 DEF StaffRow
      <4> QED
        BY <4>1, <4>2
    <3>2. CASE ~(user[u].role = "MANAGER" /\ x.role # user[u].role)
      BY <2>4, <2>5, <3>2 DEF Makes
    <3> QED
      BY <3>1, <3>2
  <2>9. CASE w # u \/ x.zones = user[u].zones
    BY <2>6, <2>8, <2>9, ZonesSame
  <2>10. CASE w = u /\ user[actor].role = "ADMIN"
    <3>1. actor = Root
      BY <2>10 DEF TeamInv, OneAdmin
    <3> QED
      BY <2>1, <2>10, <3>1, Zenon DEF ZonesMove
  <2>11. CASE w = u /\ user[actor].role = "MANAGER" /\ x.zones # user[u].zones
    <3>1. PICK zones \in SUBSET user[actor].zones : x.zones = zones \cup (user[u].zones \ user[actor].zones)
      BY <2>4, <2>11 DEF Makes
    <3>2. user[w].manager = actor /\ People!HasRole(user[w].manager, "MANAGER")
      BY <2>4, <2>11 DEF Makes, People!HasRole, People!RoleIn
    <3>3. (user'[w].zones \ user[w].zones) \cup (user[w].zones \ user'[w].zones) \subseteq user[user[w].manager].zones
      BY <2>6, <2>8, <2>11, <3>1, <3>2
    <3> QED
      BY <3>2, <3>3, Zenon DEF ZonesMove
  <2>12. user[actor].role \in {"ADMIN", "ACQUISITION_LEAD", "MANAGER"}
    BY <2>3 DEF People!Manages, People!RoleIn
  <2> QED
    BY <2>4, <2>9, <2>10, <2>11, <2>12 DEF Makes
<1> QED
  BY <1>1, <1>2, <1>3, <1>4, <1>5, <1>6

\* Unless the ADMIN says so, a surveyor is given no zone their manager does not
\* work, and loses none the manager cannot see.
THEOREM ManagersMoveOnlyTheirZones ==
    ASSUME TeamSetup
    PROVE  People!Spec => People!ManagersStayHome
<1>1. People!Init => TeamInv
  BY TeamFirst
<1>2. TeamInv /\ [People!Next]_user => TeamInv'
  BY TeamStep
<1>3. TeamInv /\ [People!Next]_user => [\A u \in DOMAIN user : ZonesMove(u)]_user
  BY ZonesStep
<1>4. [\A u \in DOMAIN user : ZonesMove(u)]_user
      <=> [\A u \in DOMAIN user :
            LET Changed == (user'[u].zones \ user[u].zones) \cup (user[u].zones \ user'[u].zones)
            IN  \/ Changed = {}
                \/ People!HasRole(user[u].manager, "MANAGER") /\ Changed \subseteq user[user[u].manager].zones
                \/ (\E zones \in ZoneSets : People!BulkAssignZones(Root, u, zones))
                   \/ \E e \in Patches : People!UpdateUser(Root, u, e)]_user
  BY Zenon DEF ZonesMove
<1> QED
  BY <1>1, <1>2, <1>3, <1>4, PTL DEF People!Spec, People!ManagersStayHome

-----------------------------------------------------------------------------
(* Who sees which buildings, whatever the registry holds.                  *)

\* The roles of those who ask for buildings; sales lists, and opens none.
AskerRoles == {"ADMIN", "MANAGER", "SURVEYOR", "SUPERVISOR", "ACQUISITION_AGENT", "ACQUISITION_LEAD",
               "PERMISSION_EXECUTIVE", "SALES_MANAGER"}
Askers == \A a \in Actor : RoleOf[a] \in AskerRoles

\* A building shown to an actor is one the registry has.
LEMMA OnlyWhatIsThere ==
    ASSUME NEW a, NEW b, b \in Access!FindNearby(a)
    PROVE  b \in Access!There /\ Access!Shown(a, b)
<1> DEFINE near == {c \in Access!FindWithinBounds(a) : Access!Shown(a, c)}
           found == {c \in Access!There : Access!IncludePermission(a) \/ Access!IsVisibleBuilding(c)}
           best == {c \in found : registry[c].live \/ \A d \in found : ~registry[d].live}
<1>1. Access!FindByPlaceId(a) = IF best = {} THEN {} ELSE {CHOOSE c \in best : TRUE}
  BY Zenon DEF Access!FindByPlaceId
<1>2. Access!FindByPlaceId(a) \subseteq Access!There
  <2>1. best \subseteq Access!There
    OBVIOUS
  <2> HIDE DEF best
  <2> QED
    BY <1>1, <2>1
<1>3. Access!FindNearby(a) = IF near # {} THEN near ELSE {c \in Access!FindByPlaceId(a) : Access!Shown(a, c)}
  BY Zenon DEF Access!FindNearby
<1>4. near \subseteq Access!There
  BY DEF Access!FindWithinBounds
<1>5. \A c \in near : Access!Shown(a, c)
  OBVIOUS
<1> HIDE DEF near
<1> QED
  BY <1>2, <1>3, <1>4, <1>5

LEMMA ListedOpens ==
    ASSUME Askers, NEW a \in Actor, RoleOf[a] # "SALES_MANAGER", NEW source, NEW creator,
           NEW b \in Access!BuildListWhere(a, source, creator)
    PROVE  b \in Access!There /\ Access!ReadScope(a, b)
<1>1. /\ b \in Access!There /\ Access!ListSource(a, b, source) /\ Access!ListOwner(a, b, creator)
      /\ Access!ReadsByZone(a) => (Access!MyZone(a, b) \/ Access!Mine(a, b))
  BY DEF Access!BuildListWhere
<1>2. RoleOf[a] \in AskerRoles \ {"SALES_MANAGER"}
  BY DEF Askers
<1>3. CASE RoleOf[a] \in {"ACQUISITION_AGENT", "ACQUISITION_LEAD"}
  <2>0. Access!Role(a, {"ACQUISITION_AGENT", "ACQUISITION_LEAD"})
    BY <1>3 DEF Access!Role
  <2>1. Access!Is(b, "ACQUISITION")
    BY <1>1, <2>0 DEF Access!ListSource
  <2>3. Access!IsVisibleBuilding(b)
    BY <2>1 DEF Access!IsVisibleBuilding, Access!Is
  <2>2. RoleOf[a] = "ACQUISITION_AGENT" => Access!Mine(a, b)
    BY <1>1 DEF Access!ListOwner, Access!Role
  <2> QED
    BY <1>1, <1>3, <2>1, <2>2, <2>3 DEF Access!ReadScope, Access!ReadScopeOf, Access!Role
<1>5. CASE RoleOf[a] = "PERMISSION_EXECUTIVE"
  <2>1. Access!Mine(a, b)
    BY <1>1, <1>5 DEF Access!ListOwner, Access!Role
  <2> QED
    BY <1>1, <1>5, <2>1 DEF Access!ReadScope, Access!ReadScopeOf, Access!Role
<1>4. CASE RoleOf[a] \in {"ADMIN", "SUPERVISOR", "MANAGER", "SURVEYOR"}
  <2>1. RoleOf[a] = "ADMIN" \/ Access!IsVisibleBuilding(b)
    BY <1>1, <1>4 DEF Access!ListSource, Access!Role, Access!IsVisibleBuilding, Access!ApprovedSociety, Access!CoverageRegistry, Access!Is
  <2> QED
    BY <1>1, <1>4, <2>1 DEF Access!ReadsByZone, Access!ReadScope, Access!ReadScopeOf, Access!Role
<1> QED
  BY <1>2, <1>3, <1>4, <1>5 DEF AskerRoles

\* Whom a list shows a society not yet approved.
LEMMA ListedHidden ==
    ASSUME NEW a, NEW source, NEW creator, NEW b \in Access!BuildListWhere(a, source, creator), ~Access!IsVisibleBuilding(b)
    PROVE  RoleOf[a] = "PERMISSION_EXECUTIVE" /\ Access!Mine(a, b)
BY DEF Access!BuildListWhere, Access!ListSource, Access!ListOwner, Access!Role, Access!IsVisibleBuilding,
       Access!ApprovedSociety, Access!CoverageRegistry, Access!Is

LEMMA ListsAreReadable == ASSUME Askers PROVE Access!ListedIsReadable
<1>1. ASSUME NEW a \in Access!Reader, NEW source, NEW creator
      PROVE  Access!BuildListWhere(a, source, creator) \subseteq Access!Readable(a)
  <2>1. a \in Actor /\ RoleOf[a] # "SALES_MANAGER"
    BY DEF Access!Reader
  <2>2. \A b \in Access!BuildListWhere(a, source, creator) : b \in Access!There /\ Access!ReadScope(a, b)
    BY <2>1, ListedOpens
  <2> QED
    BY <2>2 DEF Access!Readable
<1> QED
  BY <1>1, Zenon DEF Access!ListedIsReadable

LEMMA BulkRowsAreListed ==
    ASSUME NEW a, NEW b
    PROVE  /\ \A ids, source : b \in Access!BulkSetLive(a, ids, source) =>
                    b \in Access!BuildListWhere(a, source, None) /\ RoleOf[a] \in {"ADMIN", "MANAGER", "SUPERVISOR"}
           /\ \A ids : b \in Access!BulkAssignOlt(a, ids) =>
                    b \in Access!BuildListWhere(a, None, None) /\ RoleOf[a] \in {"ADMIN", "MANAGER", "SUPERVISOR", "SURVEYOR"}
<1>1. \A ids, source : b \in Access!BulkSetLive(a, ids, source) =>
                    b \in Access!BuildListWhere(a, source, None) /\ RoleOf[a] \in {"ADMIN", "MANAGER", "SUPERVISOR"}
  BY DEF Access!BulkSetLive, Access!Role
<1>2. ASSUME NEW ids, b \in Access!BulkAssignOlt(a, ids)
      PROVE  b \in Access!BuildListWhere(a, None, None) /\ RoleOf[a] \in {"ADMIN", "MANAGER", "SUPERVISOR", "SURVEYOR"}
  <2> DEFINE rows == Access!BuildListWhere(a, None, None) \cap ids
             zones == {registry[c].zone : c \in rows}
             may == /\ Access!Role(a, {"ADMIN", "MANAGER", "SUPERVISOR", "SURVEYOR"})
                    /\ ~Access!Role(a, {"ADMIN"}) => (Access!Cardinality(zones) = 1 /\ zones \subseteq OltZones)
  <2>1. b \in IF may THEN rows ELSE {}
    BY <1>2, Zenon DEF Access!BulkAssignOlt
  <2>2. may => RoleOf[a] \in {"ADMIN", "MANAGER", "SUPERVISOR", "SURVEYOR"}
    BY DEF Access!Role
  <2> HIDE DEF may
  <2> QED
    BY <2>1, <2>2
<1> QED
  BY <1>1, <1>2

LEMMA WritesAreReads == ASSUME Askers PROVE Access!WritesWithinReads
<1>1. ASSUME NEW a \in Actor, NEW b \in Access!There,
             \/ Access!UpdateBuilding(a, b) \/ Access!AssertCanEditWings(a, b) \/ Access!UpdateStatus(a, b)
             \/ \E letter \in BOOLEAN : Access!AddPhoto(a, b, letter) \/ Access!RemovePhoto(a, b, letter)
      PROVE  Access!ReadScope(a, b)
  <2>1. RoleOf[a] \in AskerRoles
    BY DEF Askers
  <2>2. CASE Access!UpdateBuilding(a, b)
    BY <2>1, <2>2 DEF AskerRoles, Access!UpdateBuilding, Access!MayEditBuildings, Access!ReadScope, Access!ReadScopeOf, Access!Role,
       Access!IsVisibleBuilding, Access!Is
  <2>3. CASE Access!AssertCanEditWings(a, b)
    BY <2>1, <2>3 DEF AskerRoles, Access!AssertCanEditWings, Access!ReadScope, Access!ReadScopeOf, Access!Role,
       Access!IsVisibleBuilding, Access!Is
  <2>4. CASE Access!UpdateStatus(a, b)
    BY <2>4 DEF Access!UpdateStatus
  <2>5. CASE \E letter \in BOOLEAN : Access!AddPhoto(a, b, letter) \/ Access!RemovePhoto(a, b, letter)
    BY <2>5 DEF Access!AddPhoto, Access!RemovePhoto, Access!GuardSocietyPhoto, Access!AssertMayModify, Access!ReadScope,
       Access!ReadScopeOf, Access!Role, Access!IsVisibleBuilding, Access!Is
  <2> QED
    BY <1>1, <2>2, <2>3, <2>4, <2>5
<1>2. ASSUME NEW a \in Actor, NEW b,
             \/ \E source \in Access!Source \cup {None} : b \in Access!BulkSetLive(a, Building, source)
             \/ b \in Access!BulkAssignOlt(a, {b})
      PROVE  Access!ReadScope(a, b)
  BY <1>2, BulkRowsAreListed, ListedOpens
<1> QED
  BY <1>1, <1>2, Zenon DEF Access!WritesWithinReads

LEMMA HiddenFromAll == Access!HiddenSociety
<1>1. SUFFICES ASSUME NEW a \in Actor, NEW b \in Access!There, ~Access!IsVisibleBuilding(b)
               PROVE  /\ \A source \in Access!Source \cup {None}, creator \in Actor \cup {None} :
                             b \in Access!BuildListWhere(a, source, creator) =>
                                    Access!Role(a, {"PERMISSION_EXECUTIVE"}) /\ Access!Mine(a, b)
                      /\ b \in Access!FindNearby(a) => Access!Role(a, {"ADMIN"}) \/ Access!Mine(a, b)
                      /\ b \notin Access!SearchForPartner
                      /\ ~Access!UpdateStatus(a, b) /\ b \notin Access!BulkAssignOlt(a, Building)
                      /\ \A source \in Access!Source \cup {None} : b \notin Access!BulkSetLive(a, Building, source)
                      /\ \A letter \in BOOLEAN : ~Access!AddPhoto(a, b, letter) /\ ~Access!RemovePhoto(a, b, letter)
  BY Zenon DEF Access!HiddenSociety
<1>2. \A source, creator : b \in Access!BuildListWhere(a, source, creator) =>
                                    Access!Role(a, {"PERMISSION_EXECUTIVE"}) /\ Access!Mine(a, b)
  BY <1>1, ListedHidden DEF Access!Role
<1>3. b \in Access!FindNearby(a) => Access!Role(a, {"ADMIN"}) \/ Access!Mine(a, b)
  BY <1>1, OnlyWhatIsThere DEF Access!Shown, Access!ReadScope
<1>4. b \notin Access!SearchForPartner
  BY <1>1 DEF Access!SearchForPartner, Access!CoverageRegistry, Access!ApprovedSociety, Access!IsVisibleBuilding, Access!Is
<1>5. ~Access!UpdateStatus(a, b)
  BY <1>1 DEF Access!UpdateStatus
<1>6. b \notin Access!BulkAssignOlt(a, Building)
  BY <1>2, BulkRowsAreListed DEF Access!Role
<1>7. \A source : b \notin Access!BulkSetLive(a, Building, source)
  BY <1>2, BulkRowsAreListed DEF Access!Role
<1>8. \A letter \in BOOLEAN : ~Access!AddPhoto(a, b, letter) /\ ~Access!RemovePhoto(a, b, letter)
  BY <1>1 DEF Access!AddPhoto, Access!RemovePhoto, Access!GuardSocietyPhoto, Access!IsVisibleBuilding, Access!Is
<1> QED
  BY <1>2, <1>3, <1>4, <1>5, <1>6, <1>7, <1>8

LEMMA DuplicatesAreTold == Access!DuplicateIsTold
<1>1. ASSUME NEW a \in Actor, NEW b \in Access!There, Access!Shown(a, b), ~Access!Role(a, {"PERMISSION_EXECUTIVE"})
      PROVE  Access!FindNearby(a) # {}
  <2> DEFINE near == {c \in Access!FindWithinBounds(a) : Access!Shown(a, c)}
             found == {c \in Access!There : Access!IncludePermission(a) \/ Access!IsVisibleBuilding(c)}
             best == {c \in found : registry[c].live \/ \A d \in found : ~registry[d].live}
  <2>1. Access!FindByPlaceId(a) = IF best = {} THEN {} ELSE {CHOOSE c \in best : TRUE}
    BY Zenon DEF Access!FindByPlaceId
  <2>2. Access!FindNearby(a) = IF near # {} THEN near ELSE {c \in Access!FindByPlaceId(a) : Access!Shown(a, c)}
    BY Zenon DEF Access!FindNearby
  <2>3. b \in found
    BY <1>1 DEF Access!Shown, Access!ReadScope, Access!Role, Access!IncludePermission
  <2>4. best # {}
    <3> HIDE DEF found
    <3>1. CASE \A d \in found : ~registry[d].live
      BY <2>3, <3>1
    <3>2. CASE \E d \in found : registry[d].live
      BY <3>2
    <3> QED
      BY <3>1, <3>2
  <2>5. PICK c : c = CHOOSE d \in best : TRUE
    OBVIOUS
  <2>6. c \in best
    <3> HIDE DEF best
    <3> QED
      BY <2>4, <2>5
  <2>7. c \in found
    BY <2>6
  <2>8. Access!Shown(a, c)
    BY <1>1, <2>7 DEF Access!Shown, Access!ReadScope, Access!Role, Access!IncludePermission
  <2>9. Access!FindByPlaceId(a) = {c}
    <3> HIDE DEF best
    <3> QED
      BY <2>1, <2>4, <2>5
  <2> HIDE DEF near
  <2> QED
    BY <2>2, <2>8, <2>9
<1>2. ASSUME NEW a \in Actor PROVE {b \in Access!FindNearby(a) : ~Access!Masked(a, b)} \subseteq Access!Readable(a)
  BY OnlyWhatIsThere DEF Access!Masked, Access!Readable
<1> QED
  BY <1>1, <1>2, Zenon DEF Access!DuplicateIsTold

LEMMA AccessCardinality == \A S : Access!Cardinality(S) = Cardinality(S)
BY Zenon DEF Access!Cardinality, Access!IsFiniteSet, Cardinality, IsFiniteSet

LEMMA OltsServe == ASSUME IsFiniteSet(Building) PROVE Access!OltServesItsBuildings
<1>1. SUFFICES ASSUME NEW a \in Actor, NEW ids \in SUBSET Building,
                      Access!BulkAssignOlt(a, ids) # {}, ~Access!Role(a, {"ADMIN"})
               PROVE  \E z \in OltZones : \A b \in Access!BulkAssignOlt(a, ids) : registry[b].zone = z
  BY Zenon DEF Access!OltServesItsBuildings
<1> DEFINE rows == Access!BuildListWhere(a, None, None) \cap ids
           zones == {registry[b].zone : b \in rows}
           may == /\ Access!Role(a, {"ADMIN", "MANAGER", "SUPERVISOR", "SURVEYOR"})
                  /\ ~Access!Role(a, {"ADMIN"}) => (Access!Cardinality(zones) = 1 /\ zones \subseteq OltZones)
<1>2. Access!BulkAssignOlt(a, ids) = IF may THEN rows ELSE {}
  BY Zenon DEF Access!BulkAssignOlt
<1>3. may
  BY <1>1, <1>2
<1>4. Access!BulkAssignOlt(a, ids) = rows
  BY <1>2, <1>3
<1>5. Access!Cardinality(zones) = 1 /\ zones \subseteq OltZones
  BY <1>1, <1>3
<1>6. IsFiniteSet(zones)
  <2>1. IsFiniteSet(rows)
    BY FS_Subset
  <2>2. [b \in rows |-> registry[b].zone] \in Surjection(rows, zones)
    BY DEF Surjection
  <2> HIDE DEF rows, zones
  <2> QED
    BY <2>1, <2>2, FS_Surjection
<1>7. PICK z : zones = {z}
  <2> HIDE DEF zones
  <2>1. Cardinality(zones) = 1
    BY <1>5, AccessCardinality
  <2> QED
    BY <1>6, <2>1, FS_Singleton
<1>8. z \in OltZones /\ \A b \in rows : registry[b].zone = z
  <2>1. \A b \in rows : registry[b].zone \in zones
    OBVIOUS
  <2> HIDE DEF rows, zones
  <2> QED
    BY <1>5, <1>7, <2>1
<1> QED
  BY <1>4, <1>8

\* The registry keeps to the schema's rows.
THEOREM AccessTypesHold == Access!Spec => []Access!TypeOK
<1>1. Access!Init => Access!TypeOK
  BY DEF Access!Init, Access!TypeOK
<1>2. ASSUME Access!TypeOK, [Access!Next]_(Access!vars) PROVE Access!TypeOK'
  <2>1. ASSUME NEW b \in Building, NEW actor \in Actor, NEW zone \in Zone \cup {None},
               Access!CreateBuilding(b, actor, zone) \/ Access!BulkCreateBuildings(b, actor, zone)
        PROVE  Access!TypeOK'
    <3>1. PICK source \in Access!Source, live \in BOOLEAN : registry' = [registry EXCEPT ![b] =
              [source |-> source, owner |-> actor, zone |-> zone, approved |-> FALSE, live |-> live]]
      BY <2>1 DEF Access!CreateBuilding, Access!BulkCreateBuildings, Access!Source
    <3>2. [source |-> source, owner |-> actor, zone |-> zone, approved |-> FALSE, live |-> live] \in Access!Row
      BY DEF Access!Row
    <3> QED
      BY <1>2, <3>1, <3>2 DEF Access!TypeOK
  <2>2. ASSUME NEW b \in Building, NEW actor \in Actor, NEW zone \in Zone,
               Access!Move(b, actor, zone)
        PROVE  Access!TypeOK'
    BY <1>2, <2>2 DEF Access!Move, Access!There, Access!TypeOK, Access!Row
  <2>3. ASSUME NEW ids, NEW actor, NEW source, NEW live \in BOOLEAN, Access!SetLive(ids, actor, source, live)
        PROVE  Access!TypeOK'
    <3>1. PICK rows \in SUBSET Access!There :
             registry' = [b \in Building |-> IF b \in rows THEN [registry[b] EXCEPT !.live = live] ELSE registry[b]]
      BY <2>3 DEF Access!SetLive, Access!BulkSetLive, Access!BuildListWhere
    <3> QED
      BY <1>2, <3>1 DEF Access!There, Access!TypeOK, Access!Row
  <2>4. ASSUME NEW b \in Building, Access!Remove(b) PROVE Access!TypeOK'
    BY <1>2, <2>4 DEF Access!Remove, Access!TypeOK
  <2>5. ASSUME NEW b \in Building, NEW zone \in Zone, Access!Approve(b, zone) PROVE Access!TypeOK'
    BY <1>2, <2>5 DEF Access!Approve, Access!There, Access!TypeOK, Access!Row
  <2>6. CASE UNCHANGED Access!vars
    BY <1>2, <2>6 DEF Access!vars, Access!TypeOK
  <2> QED
    BY <1>2, <2>1, <2>2, <2>3, <2>4, <2>5, <2>6 DEF Access!Next
<1> QED
  BY <1>1, <1>2, PTL DEF Access!Spec

\* A society not yet approved shows to its executive and, nearby, to an admin,
\* and yet a building at the same Place never goes unnoticed.
THEOREM HiddenIsHidden == Access!Spec => [](Access!HiddenSociety /\ Access!DuplicateIsTold)
<1>1. Access!HiddenSociety /\ Access!DuplicateIsTold
  BY HiddenFromAll, DuplicatesAreTold
<1> QED
  BY <1>1, PTL

\* What an actor is listed and what they may change they may open; and an OLT
\* goes to buildings of one zone, one it serves.
THEOREM ListsAndWritesAgree ==
    ASSUME Askers, IsFiniteSet(Building)
    PROVE  Access!Spec => [](Access!ListedIsReadable /\ Access!WritesWithinReads /\ Access!OltServesItsBuildings)
<1>1. Access!ListedIsReadable /\ Access!WritesWithinReads /\ Access!OltServesItsBuildings
  BY ListsAreReadable, WritesAreReads, OltsServe
<1> QED
  BY <1>1, PTL

-----------------------------------------------------------------------------
(* Who sees which fibres.                                                  *)

PopRow == [zones : SUBSET Zone, owner : Actor]
HubRow == [closure : BOOLEAN, owner : Actor, input : Fiber \cup {None}, to : Fiber \cup {None}]
CableRow == [zone : Zone, owner : Actor, points : Shape]

\* None is no row and nobody, and a POP serves zones.
SightSetup == None \notin Actor \cup PopRow \cup HubRow /\ PopZones \subseteq SUBSET Zone

\* The owner of a closure owns what hangs on it.
HubIsOwned == hub # None /\ hub.closure => hub.owner = closure

SightInv == Sight!TypeOK /\ Sight!NothingDangles /\ HubIsOwned

LEMMA SightRows ==
    ASSUME Sight!TypeOK
    PROVE  /\ \A f \in DOMAIN cable : /\ f \in Fiber /\ cable[f] \in CableRow
                                      /\ cable[f].zone \in Zone /\ cable[f].owner \in Actor /\ cable[f].points \in Shape
           /\ pop # None => pop \in PopRow
           /\ closure # None => closure \in Actor
           /\ hub # None => /\ hub \in HubRow /\ hub.closure \in BOOLEAN /\ hub.owner \in Actor
                            /\ hub.input \in Fiber \cup {None} /\ hub.to \in Fiber \cup {None}
<1>1. \A f \in DOMAIN cable : f \in Fiber /\ cable[f] \in CableRow
  BY DEF Sight!TypeOK, CableRow
<1>2. (pop # None => pop \in PopRow) /\ (closure # None => closure \in Actor) /\ (hub # None => hub \in HubRow)
  BY DEF Sight!TypeOK, PopRow, HubRow
<1>3. \A x \in HubRow : x.closure \in BOOLEAN /\ x.owner \in Actor /\ x.input \in Fiber \cup {None} /\ x.to \in Fiber \cup {None}
  BY DEF HubRow
<1>4. \A x \in CableRow : x.zone \in Zone /\ x.owner \in Actor /\ x.points \in Shape
  BY DEF CableRow
<1> QED
  BY <1>1, <1>2, <1>3, <1>4

\* The sites that are there, one by one.
Standing ==
    /\ \A g \in Fiber \cap DOMAIN cable :
            LET on == Sight!ToSet(cable[g].points) IN
            (Pop \in on => pop # None) /\ (Closure \in on => closure # None) /\ (Splitter \in on => hub # None)
    /\ hub # None => /\ hub.input \in DOMAIN cable \cup {None} /\ hub.to \in DOMAIN cable \cup {None}
                     /\ hub.closure => closure # None

LEMMA DanglesIsStanding == (Sight!NothingDangles <=> Standing) /\ (Sight!NothingDangles' <=> Standing')
<1>1. Sight!NothingDangles <=> Standing
  BY DEF Sight!NothingDangles, Standing, Sight!Through, Sight!Visits, Sight!There
<1>2. Sight!NothingDangles' <=> Standing'
  BY DEF Sight!NothingDangles, Standing, Sight!Through, Sight!Visits, Sight!There
<1> QED
  BY <1>1, <1>2

LEMMA SightFirst == SightSetup /\ Sight!Init => SightInv
<1> SUFFICES ASSUME SightSetup, Sight!Init PROVE SightInv
  OBVIOUS
<1>1. DOMAIN cable = {} /\ pop = None /\ closure = None /\ hub = None
  BY DEF Sight!Init
<1>2. Sight!TypeOK
  BY <1>1 DEF Sight!TypeOK
<1>3. Standing
  BY <1>1 DEF Standing
<1> QED
  BY <1>1, <1>2, <1>3, DanglesIsStanding DEF SightInv, HubIsOwned

\* A fibre drawn, or drawn anew.
LEMMA Drawn ==
    ASSUME SightSetup, SightInv, NEW f \in Fiber, NEW row \in CableRow, NEW owner \in Actor, Sight!Minted(f, row.points, owner),
           DOMAIN cable' = DOMAIN cable \cup {f}, cable'[f] = row, \A g \in DOMAIN cable : g # f => cable'[g] = cable[g]
    PROVE  SightInv'
<1>1. Sight!TypeOK /\ Standing /\ HubIsOwned
  BY DanglesIsStanding DEF SightInv
<1>2. PICK on : on = Sight!ToSet(row.points)
  OBVIOUS
<1>3. PICK p : p = [zones |-> {}, owner |-> owner]
  OBVIOUS
<1>4. p \in PopRow
  BY <1>3 DEF PopRow
<1>5. PICK h : h = [closure |-> FALSE, owner |-> owner, input |-> f, to |-> None]
  OBVIOUS
<1>6. h \in HubRow /\ h.closure = FALSE /\ h.input = f /\ h.to = None
  BY <1>5 DEF HubRow
<1>7. PICK i : i = [hub EXCEPT !.input = f]
  OBVIOUS
<1>8. hub # None => i \in HubRow /\ i.closure = hub.closure /\ i.owner = hub.owner /\ i.to = hub.to /\ i.input = f
  BY <1>1, <1>7, SightRows DEF HubRow
<1>9. /\ pop' = IF Pop \in on /\ pop = None THEN p ELSE pop
      /\ closure' = IF Closure \in on /\ closure = None THEN owner ELSE closure
      /\ hub' = h \/ (hub # None /\ hub' = i) \/ hub' = hub
      /\ Splitter \in on => hub # None \/ hub' = h
      /\ hub # None => hub' = i \/ hub' = hub
  BY <1>2, <1>3, <1>5, <1>7 DEF Sight!Minted
<1>10. p # None /\ h # None /\ owner # None /\ (hub # None => i # None)
  BY <1>4, <1>6, <1>8 DEF SightSetup
<1>11. \A g \in DOMAIN cable' : g \in Fiber /\ cable'[g] \in CableRow
  BY <1>1, SightRows
<1>12. /\ pop' \in PopRow \cup {None} /\ closure' \in Actor \cup {None} /\ hub' \in HubRow \cup {None}
  BY <1>1, <1>4, <1>6, <1>8, <1>9, SightRows
<1>13. Sight!TypeOK'
  BY <1>11, <1>12 DEF Sight!TypeOK, CableRow, PopRow, HubRow
<1>14. /\ pop # None => pop' # None
       /\ closure # None => closure' = closure
       /\ hub # None => hub' # None
  BY <1>9, <1>10
<1>15. ASSUME NEW g \in Fiber \cap DOMAIN cable'
       PROVE  LET onG == Sight!ToSet(cable'[g].points) IN
              (Pop \in onG => pop' # None) /\ (Closure \in onG => closure' # None) /\ (Splitter \in onG => hub' # None)
  <2>1. CASE g = f
    BY <1>2, <1>9, <1>10, <1>14, <2>1
  <2>2. CASE g # f
    BY <1>1, <1>14, <2>2 DEF Standing
  <2> QED
    BY <2>1, <2>2
<1>16. hub' # None => /\ hub'.input \in DOMAIN cable' \cup {None} /\ hub'.to \in DOMAIN cable' \cup {None}
                      /\ hub'.closure => closure' # None
  BY <1>1, <1>6, <1>8, <1>9, <1>14 DEF Standing
<1>17. Standing'
  BY <1>15, <1>16 DEF Standing
<1>18. HubIsOwned'
  BY <1>1, <1>6, <1>8, <1>9, <1>14 DEF HubIsOwned, Standing
<1>19. Sight!NothingDangles'
  BY <1>17, DanglesIsStanding
<1> QED
  BY <1>13, <1>18, <1>19 DEF SightInv

LEMMA CreateFiberKeeps ==
    ASSUME SightSetup, SightInv, NEW a \in Actor, NEW f \in Fiber, NEW zone \in Zone, NEW points \in Shape,
           Sight!CreateFiber(a, f, zone, points)
    PROVE  SightInv'
<1>1. PICK row : row = [zone |-> zone, owner |-> a, points |-> points]
  OBVIOUS
<1>2. row \in CableRow /\ row.points = points
  BY <1>1 DEF CableRow
<1>3. /\ cable' = [g \in DOMAIN cable \cup {f} |-> IF g = f THEN row ELSE cable[g]]
      /\ Sight!Minted(f, points, a)
  BY <1>1 DEF Sight!CreateFiber
<1>4. DOMAIN cable' = DOMAIN cable \cup {f} /\ cable'[f] = row /\ \A g \in DOMAIN cable : g # f => cable'[g] = cable[g]
  BY <1>3
<1> QED
  BY <1>2, <1>3, <1>4, Drawn

LEMMA UpdateFiberKeeps ==
    ASSUME SightSetup, SightInv, NEW a \in Actor, NEW f \in Fiber, NEW zone \in Zone, NEW points \in Shape,
           Sight!UpdateFiber(a, f, zone, points)
    PROVE  SightInv'
<1>1. f \in DOMAIN cable /\ Sight!Minted(f, points, cable[f].owner)
      /\ cable' = [cable EXCEPT ![f].zone = zone, ![f].points = points]
  BY DEF Sight!UpdateFiber, Sight!ZoneScope, Sight!There
<1>2. cable[f] \in CableRow /\ cable[f].owner \in Actor
  BY <1>1, SightRows DEF SightInv
<1>3. PICK y : y = [cable[f] EXCEPT !.zone = zone]
  OBVIOUS
<1>4. y \in CableRow
  BY <1>2, <1>3 DEF CableRow
<1>5. PICK row : row = [y EXCEPT !.points = points]
  OBVIOUS
<1>6. row \in CableRow /\ row.points = points
  BY <1>4, <1>5 DEF CableRow
<1>7. cable' = [[cable EXCEPT ![f] = y] EXCEPT ![f].points = points]
  BY <1>1, <1>3
<1>8. DOMAIN cable' = DOMAIN cable \cup {f} /\ cable'[f] = row /\ \A g \in DOMAIN cable : g # f => cable'[g] = cable[g]
  BY <1>1, <1>5, <1>7
<1> QED
  BY <1>1, <1>2, <1>6, <1>8, Drawn

\* Sites and splitters change under the fibres that are there.
LEMMA SitesChange ==
    ASSUME SightSetup, SightInv, cable' = cable,
           pop' \in PopRow \cup {None}, closure' \in Actor \cup {None}, hub' \in HubRow \cup {None},
           Standing', HubIsOwned'
    PROVE  SightInv'
<1>1. Sight!TypeOK'
  BY DEF SightInv, Sight!TypeOK, PopRow, HubRow
<1> QED
  BY <1>1, DanglesIsStanding DEF SightInv

LEMMA FeedKeeps ==
    ASSUME SightSetup, SightInv, NEW a \in Actor, NEW f \in Fiber, Sight!Feed(a, f)
    PROVE  SightInv'
<1>1. Sight!TypeOK /\ Standing /\ HubIsOwned
  BY DanglesIsStanding DEF SightInv
<1>2. PICK to : (to = None \/ to = f) /\ hub' = [hub EXCEPT !.to = to]
  BY DEF Sight!Feed
<1>3. hub # None /\ f \in DOMAIN cable /\ UNCHANGED <<cable, pop, closure>>
  BY DEF Sight!Feed, Sight!ZoneScope, Sight!There
<1>4. hub' \in HubRow /\ hub'.closure = hub.closure /\ hub'.owner = hub.owner /\ hub'.input = hub.input /\ hub'.to = to
  BY <1>1, <1>2, <1>3, SightRows DEF HubRow
<1>5. hub' # None
  BY <1>4 DEF SightSetup
<1>6. Standing'
  BY <1>1, <1>2, <1>3, <1>4, <1>5 DEF Standing
<1>7. HubIsOwned'
  BY <1>1, <1>3, <1>4 DEF HubIsOwned
<1>8. pop' \in PopRow \cup {None} /\ closure' \in Actor \cup {None}
  BY <1>1, <1>3, SightRows
<1> QED
  BY <1>3, <1>4, <1>6, <1>7, <1>8, SitesChange

LEMMA DeleteFiberKeeps ==
    ASSUME SightSetup, SightInv, NEW a \in Actor, NEW f \in Fiber, Sight!DeleteFiber(a, f)
    PROVE  SightInv'
<1>1. Sight!TypeOK /\ Standing /\ HubIsOwned
  BY DanglesIsStanding DEF SightInv
<1> DEFINE mine == hub # None /\ ~hub.closure /\ Sight!Visits(f, Splitter)
           Cleared(g) == IF g = f THEN None ELSE g
<1>2. /\ mine => Sight!Through(Splitter) = {f}
      /\ cable' = [g \in DOMAIN cable \ {f} |-> cable[g]]
      /\ hub' = IF mine THEN None ELSE IF hub = None THEN None
                ELSE [hub EXCEPT !.input = Cleared(@), !.to = Cleared(@)]
      /\ pop' = pop /\ closure' = closure
  BY Zenon DEF Sight!DeleteFiber
<1>3. DOMAIN cable' = DOMAIN cable \ {f} /\ \A g \in DOMAIN cable' : cable'[g] = cable[g]
  BY <1>2
<1>4. PICK y : y = [hub EXCEPT !.input = Cleared(hub.input)]
  OBVIOUS
<1>5. PICK h : h = [y EXCEPT !.to = Cleared(hub.to)]
  OBVIOUS
<1>6. hub # None => /\ y \in HubRow /\ y.closure = hub.closure /\ y.owner = hub.owner
                    /\ y.input = Cleared(hub.input) /\ y.to = hub.to
  BY <1>1, <1>4, SightRows DEF HubRow
<1>7. hub # None => /\ h \in HubRow /\ h.closure = hub.closure /\ h.owner = hub.owner
                    /\ h.input = Cleared(hub.input) /\ h.to = Cleared(hub.to)
  BY <1>1, <1>5, <1>6, SightRows DEF HubRow
<1>8. hub # None /\ ~mine => hub' = h
  <2>1. hub # None /\ ~mine => hub' = [y EXCEPT !.to = Cleared(@)]
    BY <1>2, <1>4
  <2> QED
    BY <1>5, <1>6, <2>1
<1>9. mine \/ hub = None => hub' = None
  BY <1>2
<1>10. hub' \in HubRow \cup {None}
  BY <1>7, <1>8, <1>9
<1>11. \A g \in DOMAIN cable' : g \in Fiber /\ cable'[g] \in CableRow
  BY <1>1, <1>3, SightRows
<1>12. Sight!TypeOK'
  BY <1>1, <1>2, <1>10, <1>11 DEF Sight!TypeOK, CableRow, PopRow, HubRow
<1>13. ASSUME NEW g \in Fiber \cap DOMAIN cable'
       PROVE  LET onG == Sight!ToSet(cable'[g].points) IN
              (Pop \in onG => pop' # None) /\ (Closure \in onG => closure' # None) /\ (Splitter \in onG => hub' # None)
  <2>1. cable'[g] = cable[g] /\ g \in DOMAIN cable /\ g # f
    BY <1>3
  <2>2. Splitter \in Sight!ToSet(cable[g].points) => hub # None /\ ~mine
    <3>1. Splitter \in Sight!ToSet(cable[g].points) => g \in Sight!Through(Splitter)
      BY <2>1 DEF Sight!Through, Sight!Visits, Sight!There
    <3> HIDE DEF mine
    <3> QED
      BY <1>1, <1>2, <2>1, <3>1 DEF Standing
  <2>3. h # None \/ hub = None
    BY <1>7 DEF SightSetup
  <2> HIDE DEF mine
  <2> QED
    BY <1>1, <1>2, <1>8, <2>1, <2>2, <2>3 DEF Standing
<1>14. hub' # None => hub # None /\ hub' = h
  BY <1>8, <1>9
<1>15. hub' # None => /\ hub'.input \in DOMAIN cable' \cup {None} /\ hub'.to \in DOMAIN cable' \cup {None}
                      /\ hub'.closure => closure' # None
  BY <1>1, <1>2, <1>3, <1>7, <1>14 DEF Standing
<1>16. Standing'
  BY <1>13, <1>15 DEF Standing
<1>17. HubIsOwned'
  BY <1>1, <1>2, <1>7, <1>14 DEF HubIsOwned
<1> QED
  BY <1>12, <1>16, <1>17, DanglesIsStanding DEF SightInv

LEMMA CreateClosureKeeps ==
    ASSUME SightSetup, SightInv, NEW a \in Actor, Sight!CreateClosure(a)
    PROVE  SightInv'
<1>1. Sight!TypeOK /\ Standing /\ HubIsOwned
  BY DanglesIsStanding DEF SightInv
<1>2. closure = None /\ closure' = a /\ UNCHANGED <<cable, pop, hub>> /\ a # None
  BY DEF Sight!CreateClosure, SightSetup
<1>3. Standing' /\ HubIsOwned'
  BY <1>1, <1>2 DEF Standing, HubIsOwned
<1>4. pop' \in PopRow \cup {None} /\ hub' \in HubRow \cup {None}
  BY <1>1, <1>2, SightRows
<1> QED
  BY <1>2, <1>3, <1>4, SitesChange

LEMMA DeleteClosureKeeps ==
    ASSUME SightSetup, SightInv, NEW a \in Actor, Sight!DeleteClosure(a)
    PROVE  SightInv'
<1>1. Sight!TypeOK /\ Standing /\ HubIsOwned
  BY DanglesIsStanding DEF SightInv
<1>2. /\ Sight!Through(Closure) = {} /\ closure' = None /\ UNCHANGED <<cable, pop>>
      /\ hub # None /\ hub.closure => Sight!Through(Splitter) = {}
      /\ hub' = IF hub # None /\ hub.closure THEN None ELSE hub
  BY DEF Sight!DeleteClosure
<1>3. \A g \in Fiber \cap DOMAIN cable : Closure \notin Sight!ToSet(cable[g].points)
  BY <1>2 DEF Sight!Through, Sight!Visits, Sight!There
<1>4. hub # None /\ hub.closure => \A g \in Fiber \cap DOMAIN cable : Splitter \notin Sight!ToSet(cable[g].points)
  BY <1>2 DEF Sight!Through, Sight!Visits, Sight!There
<1>5. pop' \in PopRow \cup {None} /\ hub' \in HubRow \cup {None} /\ closure' \in Actor \cup {None}
  BY <1>1, <1>2, SightRows
<1>6. hub' # None => hub' = hub /\ hub.closure # TRUE
  BY <1>1, <1>2, SightRows
<1>7. Standing'
  BY <1>1, <1>2, <1>3, <1>4, <1>6, SightRows DEF Standing
<1>8. HubIsOwned'
  BY <1>1, <1>2, <1>6 DEF HubIsOwned
<1> QED
  BY <1>2, <1>5, <1>7, <1>8, SitesChange

\* The empty set has no member.
LEMMA NobodyOfSight == Sight!Cardinality({}) # 1
<1>1. \A S : Sight!Cardinality(S) = Cardinality(S)
  BY Zenon DEF Sight!Cardinality, Sight!IsFiniteSet, Cardinality, IsFiniteSet
<1> QED
  BY <1>1, FS_EmptySet

LEMMA AddSplitterKeeps ==
    ASSUME SightSetup, SightInv, NEW a \in Actor, NEW named \in Fiber \cup {None}, Sight!AddSplitter(a, named)
    PROVE  SightInv'
<1>1. Sight!TypeOK /\ Standing /\ HubIsOwned
  BY DanglesIsStanding DEF SightInv
<1>2. /\ closure # None /\ (named # None => named \in DOMAIN cable)
      /\ UNCHANGED <<cable, pop, closure>>
  BY DEF Sight!AddSplitter, Sight!ClosureScope, Sight!There
<1>3. \E given \in DOMAIN cable \cup {None} :
          hub' = [closure |-> TRUE, owner |-> closure, input |-> given, to |-> None]
  <2>1. CASE named # None
    <3>1. hub' = [closure |-> TRUE, owner |-> closure, input |-> named, to |-> None]
      BY <2>1 DEF Sight!AddSplitter
    <3> QED
      BY <1>2, <2>1, <3>1
  <2>2. CASE named = None
    <3> DEFINE ending == {f \in DOMAIN cable : Sight!Last(cable[f].points) = Closure}
               input == IF named # None THEN named
                        ELSE IF Sight!Cardinality(ending) = 1 THEN CHOOSE f \in ending : TRUE ELSE None
    <3>1. hub' = [closure |-> TRUE, owner |-> closure, input |-> input, to |-> None]
      BY Zenon DEF Sight!AddSplitter
    <3>2. Sight!Cardinality(ending) = 1 => ending # {}
      BY NobodyOfSight
    <3> HIDE DEF ending
    <3>3. Sight!Cardinality(ending) = 1 => (CHOOSE f \in ending : TRUE) \in ending
      BY <3>2
    <3>4. ending \subseteq DOMAIN cable
      BY DEF ending
    <3>5. input \in DOMAIN cable \cup {None}
      BY <2>2, <3>3, <3>4
    <3> QED
      BY <3>1, <3>5
  <2> QED
    BY <2>1, <2>2
<1>4. PICK given \in DOMAIN cable \cup {None} :
          hub' = [closure |-> TRUE, owner |-> closure, input |-> given, to |-> None]
  BY <1>3
<1>5. given \in Fiber \cup {None} /\ closure \in Actor
  BY <1>1, <1>2, SightRows
<1>6. PICK h : h = [closure |-> TRUE, owner |-> closure, input |-> given, to |-> None]
  OBVIOUS
<1>7. h \in HubRow /\ h.closure = TRUE /\ h.owner = closure /\ h.input = given /\ h.to = None
  BY <1>5, <1>6 DEF HubRow
<1>8. hub' = h /\ h # None
  BY <1>4, <1>6, <1>7 DEF SightSetup
<1>9. Standing' /\ HubIsOwned'
  BY <1>1, <1>2, <1>7, <1>8 DEF Standing, HubIsOwned
<1>10. pop' \in PopRow \cup {None} /\ closure' \in Actor \cup {None}
  BY <1>1, <1>2, SightRows
<1>11. cable' = cable /\ hub' \in HubRow \cup {None}
  BY <1>2, <1>7, <1>8
<1> QED
  BY <1>9, <1>10, <1>11, SitesChange

LEMMA UpdateSplitterKeeps ==
    ASSUME SightSetup, SightInv, NEW a \in Actor, NEW named \in Fiber \cup {None}, Sight!UpdateSplitter(a, named)
    PROVE  SightInv'
<1>1. Sight!TypeOK /\ Standing /\ HubIsOwned
  BY DanglesIsStanding DEF SightInv
<1>2. /\ hub # None /\ named \in DOMAIN cable \cup {None} /\ UNCHANGED <<cable, pop, closure>>
      /\ hub' = [hub EXCEPT !.input = named]
  BY DEF Sight!UpdateSplitter, Sight!SplitterScope
<1>3. hub' \in HubRow /\ hub'.closure = hub.closure /\ hub'.owner = hub.owner /\ hub'.input = named /\ hub'.to = hub.to
  BY <1>1, <1>2, SightRows DEF HubRow
<1>4. hub' # None
  BY <1>3 DEF SightSetup
<1>5. Standing'
  BY <1>1, <1>2, <1>3, <1>4 DEF Standing
<1>6. HubIsOwned'
  BY <1>1, <1>2, <1>3 DEF HubIsOwned
<1>7. pop' \in PopRow \cup {None} /\ closure' \in Actor \cup {None}
  BY <1>1, <1>2, SightRows
<1> QED
  BY <1>2, <1>3, <1>5, <1>6, <1>7, SitesChange

LEMMA DeleteSplitterKeeps ==
    ASSUME SightSetup, SightInv, NEW a \in Actor, Sight!DeleteSplitter(a)
    PROVE  SightInv'
<1>1. Sight!TypeOK /\ Standing /\ HubIsOwned
  BY DanglesIsStanding DEF SightInv
<1>2. Sight!Through(Splitter) = {} /\ hub' = None /\ UNCHANGED <<cable, pop, closure>>
  BY DEF Sight!DeleteSplitter
<1>3. \A g \in Fiber \cap DOMAIN cable : Splitter \notin Sight!ToSet(cable[g].points)
  BY <1>2 DEF Sight!Through, Sight!Visits, Sight!There
<1>4. pop' \in PopRow \cup {None} /\ closure' \in Actor \cup {None}
  BY <1>1, <1>2, SightRows
<1>5. Standing' /\ HubIsOwned'
  BY <1>1, <1>2, <1>3 DEF Standing, HubIsOwned
<1> QED
  BY <1>2, <1>4, <1>5, SitesChange

LEMMA PopKeeps ==
    ASSUME SightSetup, SightInv, NEW a \in Actor,
           \/ \E zones \in PopZones : Sight!CreatePop(a, zones) \/ Sight!UpdatePop(a, zones)
           \/ Sight!DeletePop(a)
    PROVE  SightInv'
<1>1. Sight!TypeOK /\ Standing /\ HubIsOwned
  BY DanglesIsStanding DEF SightInv
<1>2. UNCHANGED <<cable, closure, hub>>
  BY DEF Sight!CreatePop, Sight!UpdatePop, Sight!DeletePop
<1>3. closure' \in Actor \cup {None} /\ hub' \in HubRow \cup {None}
  BY <1>1, <1>2, SightRows
<1>4. HubIsOwned'
  BY <1>1, <1>2 DEF HubIsOwned
<1>5. ASSUME pop' \in PopRow PROVE SightInv'
  <2>1. pop' # None
    BY <1>5 DEF SightSetup
  <2>2. Standing'
    BY <1>1, <1>2, <2>1 DEF Standing
  <2> QED
    BY <1>2, <1>3, <1>4, <1>5, <2>2, SitesChange
<1>6. CASE \E zones \in PopZones : Sight!CreatePop(a, zones) \/ Sight!UpdatePop(a, zones)
  <2>1. PICK zones \in PopZones : Sight!CreatePop(a, zones) \/ Sight!UpdatePop(a, zones)
    BY <1>6
  <2>2. zones \in SUBSET Zone
    BY DEF SightSetup
  <2>3. CASE Sight!CreatePop(a, zones)
    <3>1. pop' = [zones |-> zones, owner |-> a]
      BY <2>3 DEF Sight!CreatePop
    <3> QED
      BY <1>5, <2>2, <3>1 DEF PopRow
  <2>4. CASE Sight!UpdatePop(a, zones)
    <3>1. pop # None /\ pop' = [pop EXCEPT !.zones = zones]
      BY <2>4 DEF Sight!UpdatePop, Sight!PopZoneScope
    <3>2. pop \in PopRow
      BY <1>1, <3>1, SightRows
    <3> QED
      BY <1>5, <2>2, <3>1, <3>2 DEF PopRow
  <2> QED
    BY <2>1, <2>3, <2>4
<1>7. CASE Sight!DeletePop(a)
  <2>1. Sight!Through(Pop) = {} /\ pop' = None
    BY <1>7 DEF Sight!DeletePop
  <2>2. \A g \in Fiber \cap DOMAIN cable : Pop \notin Sight!ToSet(cable[g].points)
    BY <2>1 DEF Sight!Through, Sight!Visits, Sight!There
  <2>3. Standing'
    BY <1>1, <1>2, <2>2 DEF Standing
  <2> QED
    BY <1>2, <1>3, <1>4, <2>1, <2>3, SitesChange
<1> QED
  BY <1>6, <1>7

\* Every step keeps the network's rows fit.
LEMMA SightStep ==
    ASSUME SightSetup, SightInv, [Sight!Next]_(Sight!vars)
    PROVE  SightInv'
<1>1. CASE Sight!Next
  <2>1. PICK a \in Actor :
          \/ \E f \in Fiber : \/ \E z \in Zone, points \in Shape : Sight!CreateFiber(a, f, z, points) \/ Sight!UpdateFiber(a, f, z, points)
                              \/ Sight!Feed(a, f) \/ Sight!DeleteFiber(a, f)
          \/ Sight!CreateClosure(a) \/ Sight!DeleteClosure(a)
          \/ \E f \in Fiber \cup {None} : Sight!AddSplitter(a, f) \/ Sight!UpdateSplitter(a, f)
          \/ Sight!DeleteSplitter(a) \/ Sight!DeletePop(a)
          \/ \E zones \in PopZones : Sight!CreatePop(a, zones) \/ Sight!UpdatePop(a, zones)
    BY <1>1, Zenon DEF Sight!Next
  <2>2. CASE \E f \in Fiber : \/ \E z \in Zone, points \in Shape : Sight!CreateFiber(a, f, z, points) \/ Sight!UpdateFiber(a, f, z, points)
                              \/ Sight!Feed(a, f) \/ Sight!DeleteFiber(a, f)
    BY <2>2, CreateFiberKeeps, UpdateFiberKeeps, FeedKeeps, DeleteFiberKeeps
  <2>3. CASE \/ Sight!CreateClosure(a) \/ Sight!DeleteClosure(a)
             \/ \E f \in Fiber \cup {None} : Sight!AddSplitter(a, f) \/ Sight!UpdateSplitter(a, f)
    BY <2>3, CreateClosureKeeps, DeleteClosureKeeps, AddSplitterKeeps, UpdateSplitterKeeps
  <2>4. CASE \/ Sight!DeleteSplitter(a) \/ Sight!DeletePop(a)
             \/ \E zones \in PopZones : Sight!CreatePop(a, zones) \/ Sight!UpdatePop(a, zones)
    BY <2>4, DeleteSplitterKeeps, PopKeeps
  <2> QED
    BY <2>1, <2>2, <2>3, <2>4
<1>2. CASE UNCHANGED Sight!vars
  <2>1. UNCHANGED <<cable, pop, closure, hub>>
    BY <1>2 DEF Sight!vars
  <2>2. Sight!TypeOK /\ Standing /\ HubIsOwned
    BY DanglesIsStanding DEF SightInv
  <2>3. pop' \in PopRow \cup {None} /\ closure' \in Actor \cup {None} /\ hub' \in HubRow \cup {None}
    BY <2>1, <2>2, SightRows
  <2>4. Standing' /\ HubIsOwned'
    BY <2>1, <2>2 DEF Standing, HubIsOwned
  <2> QED
    BY <2>1, <2>3, <2>4, SitesChange
<1> QED
  BY <1>1, <1>2

\* The fibre a splitter feeds starts where the splitter is reached.
FedStarts ==
    (hub # None /\ hub.to # None) => Sight!Head(cable[hub.to].points) = (IF hub.closure THEN Closure ELSE Splitter)

LEMMA FedStartsFirst == Sight!Init => FedStarts
BY DEF Sight!Init, FedStarts

\* A line made with the fibre leaves to the splitter what it feeds.
LEMMA MintedKeepsFed ==
    ASSUME SightSetup, SightInv, NEW f \in Fiber, NEW points, NEW owner \in Actor, Sight!Minted(f, points, owner)
    PROVE  /\ hub # None => hub' # None /\ hub'.to = hub.to /\ hub'.closure = hub.closure
           /\ hub = None => hub' = None \/ hub'.to = None
<1>1. hub # None => hub \in HubRow
  BY SightRows DEF SightInv
<1>2. PICK i : i = [hub EXCEPT !.input = f]
  OBVIOUS
<1>3. hub # None => i \in HubRow /\ i.closure = hub.closure /\ i.to = hub.to
  BY <1>1, <1>2 DEF HubRow
<1>4. hub # None => hub' = i \/ hub' = hub
  BY <1>2 DEF Sight!Minted
<1>5. hub = None => hub' = None \/ hub' = [closure |-> FALSE, owner |-> owner, input |-> f, to |-> None]
  BY DEF Sight!Minted
<1> QED
  BY <1>3, <1>4, <1>5 DEF SightSetup

\* A fibre that a splitter feeds keeps starting there: it may be drawn anew
\* only from there, and another is fed only if it starts there.
LEMMA FedStartsStep ==
    ASSUME SightSetup, SightInv, FedStarts, [Sight!Next]_(Sight!vars)
    PROVE  FedStarts'
<1>1. Sight!TypeOK /\ Standing
  BY DanglesIsStanding DEF SightInv
<1>2. hub # None => hub \in HubRow
  BY <1>1, SightRows
<1>3. ASSUME cable' = cable, hub' = None \/ hub'.to = None \/ (hub # None /\ hub'.to = hub.to /\ hub'.closure = hub.closure)
      PROVE  FedStarts'
  BY <1>3 DEF FedStarts
<1>4. ASSUME NEW a \in Actor, NEW f \in Fiber, NEW z \in Zone, NEW points \in Shape, Sight!CreateFiber(a, f, z, points)
      PROVE  FedStarts'
  <2>1. f \notin DOMAIN cable /\ Sight!Minted(f, points, a) /\ \A g \in DOMAIN cable : cable'[g] = cable[g]
    BY <1>4 DEF Sight!CreateFiber, Sight!There
  <2> QED
    BY <1>1, <2>1, MintedKeepsFed DEF FedStarts, Standing
<1>5. ASSUME NEW a \in Actor, NEW f \in Fiber, NEW z \in Zone, NEW points \in Shape, Sight!UpdateFiber(a, f, z, points)
      PROVE  FedStarts'
  <2>1. f \in DOMAIN cable /\ cable[f] \in CableRow
    BY <1>1, <1>5, SightRows DEF Sight!UpdateFiber, Sight!ZoneScope, Sight!There
  <2>2. Sight!Minted(f, points, cable[f].owner) /\ cable[f].owner \in Actor
    BY <1>1, <1>5, <2>1, SightRows DEF Sight!UpdateFiber
  <2>3. (hub # None /\ hub.to = f) => Sight!Head(points) = (IF hub.closure THEN Closure ELSE Splitter)
    BY <1>5 DEF Sight!UpdateFiber, Sight!Place
  <2>4. \A g \in DOMAIN cable : g # f => cable'[g] = cable[g]
    BY <1>5 DEF Sight!UpdateFiber
  <2>5. cable'[f].points = points
    <3>1. PICK y : y = [cable[f] EXCEPT !.zone = z]
      OBVIOUS
    <3>2. cable' = [[cable EXCEPT ![f] = y] EXCEPT ![f].points = points]
      BY <1>5, <3>1 DEF Sight!UpdateFiber
    <3>3. y \in CableRow
      BY <2>1, <3>1 DEF CableRow
    <3> QED
      BY <2>1, <3>2, <3>3 DEF CableRow
  <2> QED
    BY <1>1, <2>2, <2>3, <2>4, <2>5, MintedKeepsFed DEF FedStarts, Standing
<1>6. ASSUME NEW a \in Actor, NEW f \in Fiber, Sight!Feed(a, f)
      PROVE  FedStarts'
  <2>1. hub \in HubRow /\ cable' = cable
    BY <1>2, <1>6 DEF Sight!Feed
  <2>2. CASE hub.to = f
    <3>1. hub' = [hub EXCEPT !.to = None]
      BY <1>6, <2>2 DEF Sight!Feed
    <3>2. hub'.to = None
      BY <2>1, <3>1 DEF HubRow
    <3> QED
      BY <3>2 DEF FedStarts
  <2>3. CASE hub.to # f
    <3>1. hub' = [hub EXCEPT !.to = f] /\ Sight!Head(cable[f].points) = (IF hub.closure THEN Closure ELSE Splitter)
      BY <1>6, <2>3 DEF Sight!Feed, Sight!Place
    <3>2. hub'.to = f /\ hub'.closure = hub.closure
      BY <2>1, <3>1 DEF HubRow
    <3> QED
      BY <2>1, <3>1, <3>2 DEF FedStarts
  <2> QED
    BY <2>2, <2>3
<1>7. ASSUME NEW a \in Actor, NEW f \in Fiber, Sight!DeleteFiber(a, f)
      PROVE  FedStarts'
  <2> DEFINE Cleared(g) == IF g = f THEN None ELSE g
  <2>1. PICK h : h = [hub EXCEPT !.input = Cleared(@), !.to = Cleared(@)]
    OBVIOUS
  <2>2. hub # None => h.closure = hub.closure /\ h.to = Cleared(hub.to)
    BY <1>2, <2>1 DEF HubRow
  <2>3. hub' = None \/ (hub # None /\ hub' = h)
    BY <1>7, <2>1 DEF Sight!DeleteFiber
  <2>4. \A g \in DOMAIN cable : g # f => cable'[g] = cable[g]
    BY <1>7 DEF Sight!DeleteFiber
  <2> QED
    BY <1>1, <2>2, <2>3, <2>4 DEF FedStarts, Standing
<1>8. ASSUME NEW a \in Actor,
             \/ Sight!CreateClosure(a) \/ Sight!DeleteClosure(a) \/ Sight!DeleteSplitter(a) \/ Sight!DeletePop(a)
             \/ \E zones \in PopZones : Sight!CreatePop(a, zones) \/ Sight!UpdatePop(a, zones)
      PROVE  FedStarts'
  <2>1. cable' = cable /\ (hub' = None \/ hub' = hub)
    BY <1>8 DEF Sight!CreateClosure, Sight!DeleteClosure, Sight!DeleteSplitter, Sight!DeletePop, Sight!CreatePop, Sight!UpdatePop
  <2> QED
    BY <1>3, <2>1
<1>9. ASSUME NEW a \in Actor, NEW f \in Fiber \cup {None}, Sight!AddSplitter(a, f)
      PROVE  FedStarts'
  <2>1. cable' = cable /\ hub'.to = None
    BY <1>9 DEF Sight!AddSplitter
  <2> QED
    BY <1>3, <2>1
<1>10. ASSUME NEW a \in Actor, NEW f \in Fiber \cup {None}, Sight!UpdateSplitter(a, f)
       PROVE  FedStarts'
  <2>1. hub # None /\ cable' = cable /\ hub' = [hub EXCEPT !.input = f]
    BY <1>10 DEF Sight!UpdateSplitter, Sight!SplitterScope
  <2>2. hub'.to = hub.to /\ hub'.closure = hub.closure
    BY <1>2, <2>1 DEF HubRow
  <2> QED
    BY <1>3, <2>1, <2>2
<1>11. CASE Sight!Next
  BY <1>4, <1>5, <1>6, <1>7, <1>8, <1>9, <1>10, <1>11, Zenon DEF Sight!Next
<1>12. CASE UNCHANGED Sight!vars
  BY <1>3, <1>12 DEF Sight!vars
<1> QED
  BY <1>11, <1>12

\* A reader of fibres is no team leader, so the rule for rows already loaded is
\* that of the lists.
LEMMA SeenIsOpen ==
    ASSUME NEW a \in Actor, Sight!ReadsFibers(a), NEW f \in DOMAIN cable
    PROVE  /\ Sight!ZoneScope(a, f) <=> Sight!CanSeeFiber(a, f)
           /\ Sight!CanSeeFiber(a, f) => Sight!Opens(a, f)
BY DEF Sight!ReadsFibers, Sight!ZoneScope, Sight!CanSeeFiber, Sight!Opens, Sight!There, Sight!IsAdmin

LEMMA ShownOpens ==
    ASSUME SightInv, FedStarts
    PROVE  Sight!ShownIsOpenable
<1>1. Sight!TypeOK /\ Standing
  BY DanglesIsStanding DEF SightInv
<1>2. ASSUME NEW a \in Actor PROVE \A f \in Sight!PopShows(a) : Sight!Opens(a, f)
  BY DEF Sight!PopShows, Sight!Through, Sight!Visits, Sight!There, Sight!ReadsPops, Sight!ReadsFibers,
         Sight!ZoneScope, Sight!CanSeeFiber, Sight!Opens, Sight!IsAdmin
<1>3. ASSUME NEW a \in Actor PROVE \A f \in Sight!ClosureCables(a) : Sight!Opens(a, f)
  BY SeenIsOpen DEF Sight!ClosureCables, Sight!Through, Sight!Visits, Sight!There
<1>4. ASSUME NEW a \in Actor PROVE \A f \in Sight!SplitterShows(a) : Sight!Opens(a, f)
  BY SeenIsOpen DEF Sight!SplitterShows, Sight!Through, Sight!Visits, Sight!There
<1>5. ASSUME NEW a \in Actor, NEW f \in DOMAIN cable, NEW k \in 0 .. 2, Sight!Opens(a, f),
             NEW g \in Sight!DownstreamTold(a, f, k)
      PROVE  Sight!Opens(a, g)
  <2>1. hub # None /\ g = hub.to /\ g # None
    BY DEF Sight!DownstreamTold, Sight!CollectDownstream, Sight!FedPast, Sight!Fed
  <2>2. g \in DOMAIN cable
    BY <1>1, <2>1 DEF Standing
  <2>3. Sight!ReadsFibers(a)
    BY <1>5 DEF Sight!Opens
  <2>4. Sight!CanSeeFiber(a, g)
    BY DEF Sight!DownstreamTold, Sight!CanSeeFiber
  <2> QED
    BY <2>2, <2>3, <2>4, SeenIsOpen
<1>6. ASSUME NEW a \in Actor, NEW f \in Sight!ClosureShows(a), f \notin Sight!ClosureCables(a)
      PROVE  Sight!Head(cable[f].points) = Closure
  <2>1. hub # None /\ hub.closure /\ f = hub.to /\ f # None
    BY <1>6 DEF Sight!ClosureShows, Sight!Fed
  <2> QED
    BY <2>1 DEF FedStarts
<1>7. ASSUME NEW a \in Actor, NEW f \in Sight!ClosureShows(a)
      PROVE  Sight!Opens(a, f) \/ Sight!Head(cable[f].points) = Closure
  BY <1>3, <1>6
<1> QED
  BY <1>2, <1>3, <1>4, <1>5, <1>7, SeenIsOpen DEF Sight!ShownIsOpenable

LEMMA SitesFollow ==
    ASSUME SightInv
    PROVE  Sight!SitesFollowTheirFiber
<1>1. Sight!TypeOK /\ Standing /\ HubIsOwned
  BY DanglesIsStanding DEF SightInv
<1>2. ASSUME NEW a \in Actor, hub # None, hub.closure, Sight!ClosureScope(a)
      PROVE  Sight!SplitterScope(a)
  BY <1>1, <1>2 DEF HubIsOwned, Sight!ClosureScope, Sight!SplitterScope
<1>3. ASSUME NEW a \in Actor, NEW f \in DOMAIN cable, Sight!InZones(a, f)
      PROVE  /\ Sight!Visits(f, Closure) => Sight!ClosureScope(a)
             /\ Sight!Visits(f, Splitter) => Sight!SplitterScope(a)
  <2>1. f \in Fiber
    BY <1>1, SightRows
  <2>2. \A site : Sight!Visits(f, site) => f \in Sight!Through(site)
    BY <2>1 DEF Sight!Through
  <2>3. (Sight!Visits(f, Closure) => closure # None) /\ (Sight!Visits(f, Splitter) => hub # None)
    BY <1>1, <2>1 DEF Standing, Sight!Visits
  <2> QED
    BY <1>3, <2>2, <2>3 DEF Sight!ClosureScope, Sight!SplitterScope
<1> QED
  BY <1>2, <1>3 DEF Sight!SitesFollowTheirFiber

\* Whatever lines are drawn and sites made and removed: the cables a record shows
\* and what is told from a cut on the way down its reader could open, and what
\* else a closure names starts there; whoever works a fibre may open the sites it
\* runs by, and nothing runs over or hangs on a site that is gone (visibility.js
\* and the guards of the closure, splitter and POP deletions).
THEOREM NetworkSeenAlike ==
    ASSUME SightSetup
    PROVE  Sight!Spec => [](Sight!TypeOK /\ Sight!NetworkIsSeenAlike)
<1>1. Sight!Init => SightInv /\ FedStarts
  BY SightFirst, FedStartsFirst
<1>2. SightInv /\ FedStarts /\ [Sight!Next]_(Sight!vars) => SightInv' /\ FedStarts'
  BY SightStep, FedStartsStep
<1>3. SightInv /\ FedStarts => Sight!TypeOK /\ Sight!NetworkIsSeenAlike
  BY ShownOpens, SitesFollow DEF SightInv, Sight!NetworkIsSeenAlike
<1> QED
  BY <1>1, <1>2, <1>3, PTL DEF Sight!Spec
-----------------------------------------------------------------------------
(* Customers.                                                              *)

\* A set of numbers that is not empty has a least.
LEMMA LeastOf ==
    ASSUME NEW S \in SUBSET Nat, S # {}
    PROVE  \E x \in S : \A y \in S : x <= y
<1> DEFINE R == OpToRel(<, Nat)
<1>1. \E x \in S : \A y \in S : <<y, x>> \notin R
  <2>1. IsWellFoundedOn(R, Nat)
    BY NatLessThanWellFounded, Zenon
  <2> HIDE DEF R
  <2> QED
    BY <2>1, WFMin, Zenon
<1>2. ASSUME NEW x \in Nat, NEW y \in Nat, <<y, x>> \notin R
      PROVE  x <= y
  <2>1. <<y, x>> \in Nat \X Nat => ~ (<<y, x>>[1] < <<y, x>>[2])
    BY <1>2, Zenon DEF OpToRel
  <2> QED
    BY <2>1
<1> HIDE DEF R
<1> QED
  BY <1>1, <1>2

\* Rows are taken one after the other: the function by which the import is
\* defined exists.
LEMMA TakenInTurn ==
    \A sheet : Len(sheet) \in Nat =>
        /\ Customers!Taken(sheet)[0] = Customers!NoneTaken
        /\ \A n \in 1 .. Len(sheet) :
               Customers!Taken(sheet)[n] = Customers!Take(Customers!Taken(sheet)[n - 1], sheet[n])
<1> SUFFICES ASSUME NEW sheet, Len(sheet) \in Nat
             PROVE  /\ Customers!Taken(sheet)[0] = Customers!NoneTaken
                    /\ \A n \in 1 .. Len(sheet) :
                          Customers!Taken(sheet)[n] = Customers!Take(Customers!Taken(sheet)[n - 1], sheet[n])
  OBVIOUS
<1> DEFINE UpTo(g, m) == g = [n \in 0 .. m |-> IF n = 0 THEN Customers!NoneTaken ELSE Customers!Take(g[n - 1], sheet[n])]
           Bad == {m \in Nat : ~ \E g : UpTo(g, m)}
<1>1. Bad = {}
  <2> SUFFICES ASSUME Bad # {} PROVE FALSE
    OBVIOUS
  <2>1. PICK m \in Bad : \A k \in Bad : m <= k
    <3> HIDE DEF UpTo
    <3>1. Bad \in SUBSET Nat
      OBVIOUS
    <3> HIDE DEF Bad
    <3> QED
      BY <3>1, LeastOf
  <2>2. CASE m = 0
    <3> DEFINE g == [n \in 0 .. 0 |-> Customers!NoneTaken]
    <3>1. UpTo(g, 0)
      OBVIOUS
    <3> HIDE DEF g, UpTo
    <3> QED
      BY <2>2, <3>1
  <2>3. CASE m # 0
    <3>1. m - 1 \in Nat /\ m - 1 \notin Bad /\ m \in Nat
      <4> HIDE DEF UpTo
      <4> QED
        BY <2>1, <2>3
    <3>2. PICK g : UpTo(g, m - 1)
      <4> HIDE DEF UpTo
      <4> QED
        BY <3>1
    <3> DEFINE h == [n \in 0 .. m |-> IF n = m THEN Customers!Take(g[m - 1], sheet[m]) ELSE g[n]]
    <3>3. UpTo(h, m)
      <4>1. h = [n \in 0 .. m |-> h[n]]
        OBVIOUS
      <4>2. ASSUME NEW n \in 0 .. m
            PROVE  h[n] = IF n = 0 THEN Customers!NoneTaken ELSE Customers!Take(h[n - 1], sheet[n])
        <5>1. CASE n = m
          <6>1. n # 0 /\ n - 1 \in 0 .. m /\ n - 1 # m
            BY <5>1, <2>3, <3>1
          <6>2. h[n - 1] = g[m - 1] /\ h[n] = Customers!Take(g[m - 1], sheet[m])
            BY <6>1, <5>1
          <6> QED
            BY <6>1, <6>2, <5>1
        <5>2. CASE n # m
          <6>1. n \in 0 .. (m - 1)
            BY <5>2, <3>1
          <6>2. g[n] = IF n = 0 THEN Customers!NoneTaken ELSE Customers!Take(g[n - 1], sheet[n])
            BY <3>2, <6>1
          <6>3. h[n] = g[n] /\ (n # 0 => h[n - 1] = g[n - 1])
            BY <6>1, <3>1
          <6> QED
            BY <6>2, <6>3
        <5> QED
          BY <5>1, <5>2
      <4> HIDE DEF h
      <4> QED
        BY <4>1, <4>2
    <3> HIDE DEF h, UpTo
    <3> QED
      BY <3>3, <2>1
  <2> QED
    BY <2>2, <2>3
<1>2. \E g : UpTo(g, Len(sheet))
  <2> HIDE DEF UpTo
  <2> QED
    BY <1>1
<1>3. UpTo(Customers!Taken(sheet), Len(sheet))
  BY <1>2, Zenon DEF Customers!Taken
<1> QED
  BY <1>3

\* What the rows of sheets, the forms and the cells are.
CustomerSetup ==
    /\ Row \subseteq [building : Building, username : Username \cup {None},
                      mobile : Mobile \cup {None, Wrong}, text : Text \cup {None, Wrong}]
    /\ Form \subseteq Customers!Customer
    /\ None \notin Nat \cup Username \cup Mobile \cup Text \cup {Wrong}
    /\ Wrong \notin Username \cup Mobile \cup Text
    /\ MaxRows \in Nat /\ MaxId \in Nat

\* The table as its readers know it.
TableOK == made \in Nat /\ DOMAIN customer \subseteq 1 .. made /\ \A i \in DOMAIN customer : customer[i] \in Customers!Customer

\* What becomes of row k of a sheet, with the rows before it taken.
Before(sheet, k) == Customers!Taken(sheet)[k - 1]
Again(sheet, k) == ~Customers!Anonymous(sheet[k]) /\ Customers!Identity(sheet[k]) \in Before(sheet, k).seen
Whose(sheet, k) == Customers!Match(Before(sheet, k), sheet[k])
Elsewhere(sheet, k) ==
    Whose(sheet, k) # None /\ sheet[k].username # None /\ customer[Whose(sheet, k)].building # sheet[k].building
Fills(sheet, k) ==
    ~Again(sheet, k) /\ Whose(sheet, k) # None /\ ~Elsewhere(sheet, k) /\ Whose(sheet, k) \notin Before(sheet, k).matched
Valid(x) == x.mobile \in Mobile /\ x.text \in Text
Adds(sheet, k) == ~Again(sheet, k) /\ Whose(sheet, k) = None /\ Valid(sheet[k])
Changes(sheet, k) == Customers!Merged(customer[Whose(sheet, k)], sheet[k]) # customer[Whose(sheet, k)]
NewOf(x) == [building |-> x.building, username |-> x.username, mobile |-> x.mobile, text |-> x.text]
\* Where among the new customers that of row k is.
Place(sheet, k) == Len(Customers!Taken(sheet)[k].creates)

LEMMA OldestIs ==
    ASSUME NEW S \in SUBSET Nat, NEW otherwise
    PROVE  /\ S = {} => Customers!OldestOr(S, otherwise) = otherwise
           /\ S # {} => /\ Customers!OldestOr(S, otherwise) \in S
                        /\ \A j \in S : Customers!OldestOr(S, otherwise) <= j
           /\ \A i \in S : (\A j \in S : i <= j) => Customers!OldestOr(S, otherwise) = i
<1>1. ASSUME S # {}
      PROVE  /\ Customers!OldestOr(S, otherwise) \in S
             /\ \A j \in S : Customers!OldestOr(S, otherwise) <= j
  <2>1. \E i \in S : \A j \in S : i <= j
    BY <1>1, LeastOf
  <2>2. Customers!OldestOr(S, otherwise) = CHOOSE i \in S : \A j \in S : i <= j
    BY <1>1 DEF Customers!OldestOr
  <2> QED
    BY <2>1, <2>2
<1>2. ASSUME NEW i \in S, \A j \in S : i <= j
      PROVE  Customers!OldestOr(S, otherwise) = i
  <2> DEFINE o == Customers!OldestOr(S, otherwise)
  <2>1. o \in S /\ o <= i
    BY <1>1
  <2>2. i <= o
    BY <1>2, <2>1
  <2> HIDE DEF o
  <2>3. o \in Nat /\ i \in Nat
    BY <2>1
  <2>4. o = i
    BY <2>1, <2>2, <2>3
  <2> QED
    BY <2>4 DEF o
<1> QED
  BY <1>1, <1>2 DEF Customers!OldestOr

\* The customer a row is of has its Username, or none and its number; of those
\* with its number it is the oldest, first of those without a Username.
MatchFits(s, x) ==
    LET i == Customers!Match(s, x)
        numbered == Customers!OnMobile(s, x)
        blank == Customers!NoUsername(numbered)
    IN  /\ i # None => i \in DOMAIN customer
        /\ (x.username # None /\ Customers!WithUsername(x.username) # {}) => i \in Customers!WithUsername(x.username)
        /\ (i # None /\ (x.username = None \/ Customers!WithUsername(x.username) = {})) => i \in numbered
        /\ (i # None /\ x.username # None /\ Customers!WithUsername(x.username) = {}) => customer[i].username = None
        /\ (x.username # None /\ Customers!WithUsername(x.username) = {} /\ blank = {}) => i = None
        /\ i = None => x.username = None \/ Customers!WithUsername(x.username) = {}
        /\ (x.username = None /\ i = None) => numbered = {}
        /\ (x.username # None /\ i = None) => blank = {}
        /\ (x.username = None /\ blank # {}) => i = Customers!OldestOr(blank, None)
        /\ (x.username = None /\ blank = {}) => i = Customers!OldestOr(numbered, None)
        /\ blank \in SUBSET Nat /\ numbered \in SUBSET Nat

LEMMA MatchIs == CustomerSetup /\ TableOK => \A s, x : MatchFits(s, x)
<1> SUFFICES ASSUME CustomerSetup, TableOK, NEW s, NEW x PROVE MatchFits(s, x)
  OBVIOUS
<1> DEFINE i == Customers!Match(s, x)
           numbered == Customers!OnMobile(s, x)
           blank == Customers!NoUsername(numbered)
           named == Customers!WithUsername(x.username)
<1>1. DOMAIN customer \subseteq Nat /\ None \notin Nat
  BY DEF TableOK, CustomerSetup
<1>2. numbered \subseteq DOMAIN customer /\ blank \subseteq numbered /\ named \subseteq DOMAIN customer
  BY DEF Customers!OnMobile, Customers!WithMobile, Customers!NoUsername, Customers!WithUsername
<1>3. \A j \in blank : customer[j].username = None
  BY DEF Customers!NoUsername
<1>4. i = IF x.username = None THEN Customers!OldestOr(blank, Customers!OldestOr(numbered, None))
          ELSE Customers!OldestOr(named, Customers!OldestOr(blank, None))
  BY DEF Customers!Match
<1> HIDE DEF i, numbered, blank, named
<1>5. numbered \in SUBSET Nat /\ blank \in SUBSET Nat /\ named \in SUBSET Nat
  BY <1>1, <1>2
<1>6. \A T \in {numbered, blank, named} : \A o :
          /\ T = {} => Customers!OldestOr(T, o) = o
          /\ T # {} => Customers!OldestOr(T, o) \in T
  BY <1>5, OldestIs
<1>7. /\ x.username = None => i = IF blank # {} THEN Customers!OldestOr(blank, Customers!OldestOr(numbered, None))
                                  ELSE Customers!OldestOr(numbered, None)
      /\ x.username # None => i = IF named # {} THEN Customers!OldestOr(named, Customers!OldestOr(blank, None))
                                  ELSE Customers!OldestOr(blank, None)
  BY <1>4, <1>6
<1>8. /\ x.username = None => (numbered = {} => i = None) /\ (numbered # {} => i \in numbered)
      /\ x.username # None => /\ named # {} => i \in named
                              /\ named = {} => i = Customers!OldestOr(blank, None)
                              /\ (named = {} /\ blank # {}) => i \in blank
                              /\ (named = {} /\ blank = {}) => i = None
  BY <1>6, <1>7, <1>2
<1>9. \A j \in DOMAIN customer : j # None
  BY <1>1
<1>10. \A o, q : blank # {} => Customers!OldestOr(blank, o) = Customers!OldestOr(blank, q)
  BY DEF Customers!OldestOr
<1>11. /\ (x.username = None /\ blank # {}) => i = Customers!OldestOr(blank, None)
       /\ (x.username = None /\ blank = {}) => i = Customers!OldestOr(numbered, None)
  BY <1>7, <1>10
<1> QED
  BY <1>2, <1>3, <1>5, <1>8, <1>9, <1>11 DEF MatchFits, i, numbered, blank, named

\* What taking one row does to what was taken before.
TakeFits(s, x) ==
    LET i == Customers!Match(s, x)
        again == ~Customers!Anonymous(x) /\ Customers!Identity(x) \in s.seen
        elsewhere == i # None /\ x.username # None /\ customer[i].building # x.building
        fills == ~again /\ i # None /\ ~elsewhere /\ i \notin s.matched
        makes == ~again /\ i = None /\ Valid(x)
    IN  Customers!Take(s, x) =
            [seen |-> IF Customers!Anonymous(x) THEN s.seen ELSE s.seen \cup {Customers!Identity(x)},
             matched |-> IF fills THEN s.matched \cup {i} ELSE s.matched,
             updates |-> IF fills /\ Customers!Merged(customer[i], x) # customer[i]
                         THEN s.updates \cup {[id |-> i, row |-> x]} ELSE s.updates,
             creates |-> IF makes THEN Append(s.creates, NewOf(x)) ELSE s.creates]

LEMMA TakeIs ==
    CustomerSetup /\ TableOK =>
        \A s, x : (/\ s = [seen |-> s.seen, matched |-> s.matched, updates |-> s.updates, creates |-> s.creates]
                   /\ s.matched \subseteq DOMAIN customer) => TakeFits(s, x)
<1> SUFFICES ASSUME CustomerSetup, TableOK, NEW s, NEW x,
                    s = [seen |-> s.seen, matched |-> s.matched, updates |-> s.updates, creates |-> s.creates],
                    s.matched \subseteq DOMAIN customer
             PROVE  TakeFits(s, x)
  OBVIOUS
<1> DEFINE seen == s.seen
           matched == s.matched
           updates == s.updates
           creates == s.creates
           i == Customers!Match(s, x)
           anonymous == Customers!Anonymous(x)
           identity == Customers!Identity(x)
           again == ~anonymous /\ identity \in seen
           elsewhere == i # None /\ x.username # None /\ customer[i].building # x.building
           fills == ~again /\ i # None /\ ~elsewhere /\ i \notin matched
           makes == ~again /\ i = None /\ Valid(x)
           z == IF anonymous THEN s ELSE [s EXCEPT !.seen = @ \cup {identity}]
           merged == Customers!Merged(customer[i], x)
           seen2 == IF anonymous THEN seen ELSE seen \cup {identity}
<1>0. s = [seen |-> seen, matched |-> matched, updates |-> updates, creates |-> creates] /\ matched \subseteq DOMAIN customer
  OBVIOUS
<1> HIDE DEF seen, matched, updates, creates
<1>1. None \notin matched
  BY <1>0 DEF CustomerSetup, TableOK
<1>2. z = [seen |-> seen2, matched |-> matched, updates |-> updates, creates |-> creates]
  BY <1>0
<1>3. Customers!Match(z, x) = i
  <2>1. z.matched = s.matched
    BY <1>0, <1>2
  <2> HIDE DEF z
  <2> QED
    BY <2>1 DEF Customers!Match, Customers!OnMobile
<1>4. again => seen2 = seen
  OBVIOUS
<1>5. Customers!Take(s, x) =
        IF again THEN s
        ELSE IF elsewhere \/ i \in z.matched THEN z
        ELSE IF i # None THEN
            [z EXCEPT !.matched = @ \cup {i},
                      !.updates = IF merged = customer[i] THEN @ ELSE @ \cup {[id |-> i, row |-> x]}]
        ELSE IF x.mobile \in Mobile /\ x.text \in Text THEN [z EXCEPT !.creates = Append(@, NewOf(x))]
        ELSE z
  <2>1. Customers!Take(s, x) =
        IF again THEN s
        ELSE LET j == Customers!Match(z, x)
                 there == j # None /\ x.username # None /\ customer[j].building # x.building
             IN  IF there \/ j \in z.matched THEN z
                 ELSE IF j # None THEN
                    [z EXCEPT !.matched = @ \cup {j},
                              !.updates = IF Customers!Merged(customer[j], x) = customer[j] THEN @ ELSE @ \cup {[id |-> j, row |-> x]}]
                 ELSE IF x.mobile \in Mobile /\ x.text \in Text THEN [z EXCEPT !.creates = Append(@, NewOf(x))]
                 ELSE z
    BY Zenon DEF Customers!Take, NewOf, seen
  <2> HIDE DEF z, again, anonymous, identity
  <2> QED
    BY <2>1, <1>3
<1> HIDE DEF i, anonymous, identity, merged, z, seen2
<1>6. Customers!Take(s, x) =
                   [seen |-> seen2,
                    matched |-> IF fills THEN matched \cup {i} ELSE matched,
                    updates |-> IF fills /\ merged # customer[i] THEN updates \cup {[id |-> i, row |-> x]} ELSE updates,
                    creates |-> IF makes THEN Append(creates, NewOf(x)) ELSE creates]
  <2>1. CASE again
    BY <2>1, <1>0, <1>4, <1>5
  <2>2. CASE ~again /\ (elsewhere \/ i \in matched)
    BY <2>2, <1>1, <1>2, <1>5
  <2>3. CASE fills
    BY <2>3, <1>1, <1>2, <1>5
  <2>4. CASE makes
    BY <2>4, <1>1, <1>2, <1>5 DEF Valid
  <2>5. CASE ~again /\ ~elsewhere /\ i = None /\ ~Valid(x)
    BY <2>5, <1>1, <1>2, <1>5 DEF Valid
  <2> QED
    BY <2>1, <2>2, <2>3, <2>4, <2>5
<1> QED
  BY <1>6 DEF TakeFits, i, anonymous, identity, merged, seen2, seen, matched, updates, creates

\* The rows up to n, told at once.
Told(sheet, n) ==
    LET s == Customers!Taken(sheet)[n]
    IN  /\ s = [seen |-> s.seen, matched |-> s.matched, updates |-> s.updates, creates |-> s.creates]
        /\ \A y : y \in s.seen <=> \E k \in 1 .. n : ~Customers!Anonymous(sheet[k]) /\ y = Customers!Identity(sheet[k])
        /\ \A i : i \in s.matched <=> \E k \in 1 .. n : Fills(sheet, k) /\ i = Whose(sheet, k)
        /\ s.matched \subseteq DOMAIN customer
        /\ \A u : u \in s.updates <=> \E k \in 1 .. n : /\ Fills(sheet, k) /\ Changes(sheet, k)
                                                        /\ u = [id |-> Whose(sheet, k), row |-> sheet[k]]
        /\ s.creates \in Seq(Customers!Customer)
        /\ \A k \in 1 .. n : Adds(sheet, k) => Place(sheet, k) \in 1 .. Len(s.creates) /\ s.creates[Place(sheet, k)] = NewOf(sheet[k])
        /\ \A p \in 1 .. Len(s.creates) : \E k \in 1 .. n : Adds(sheet, k) /\ p = Place(sheet, k)

\* What one row more does to the states before it.
Moves(sheet, n) ==
    LET s == Before(sheet, n)
    IN  /\ Customers!Taken(sheet)[n] =
              [seen |-> IF Customers!Anonymous(sheet[n]) THEN s.seen ELSE s.seen \cup {Customers!Identity(sheet[n])},
               matched |-> IF Fills(sheet, n) THEN s.matched \cup {Whose(sheet, n)} ELSE s.matched,
               updates |-> IF Fills(sheet, n) /\ Changes(sheet, n)
                           THEN s.updates \cup {[id |-> Whose(sheet, n), row |-> sheet[n]]} ELSE s.updates,
               creates |-> IF Adds(sheet, n) THEN Append(s.creates, NewOf(sheet[n])) ELSE s.creates]

LEMMA RowsAre ==
    ASSUME NEW sheet \in Customers!Sheets, CustomerSetup
    PROVE  /\ Len(sheet) \in Nat
           /\ \A n \in 1 .. Len(sheet) : sheet[n] \in Row
<1>1. PICK n \in 1 .. MaxRows : sheet \in [1 .. n -> Row]
  BY DEF Customers!Sheets
<1>2. n \in Nat
  BY DEF CustomerSetup
<1>3. sheet \in Seq(Row) /\ Len(sheet) = n
  BY <1>1, <1>2
<1> QED
  BY <1>1, <1>2, <1>3

LEMMA ToldMoves ==
    ASSUME CustomerSetup, TableOK, NEW sheet \in Customers!Sheets, NEW n \in 1 .. Len(sheet), Told(sheet, n - 1)
    PROVE  Moves(sheet, n)
<1> DEFINE s == Customers!Taken(sheet)[n - 1]
<1>1. Len(sheet) \in Nat
  BY RowsAre
<1>2. Customers!Taken(sheet)[n] = Customers!Take(s, sheet[n])
  BY <1>1, TakenInTurn
<1>3. s = [seen |-> s.seen, matched |-> s.matched, updates |-> s.updates, creates |-> s.creates] /\ s.matched \subseteq DOMAIN customer
  BY DEF Told
<1> DEFINE i == Customers!Match(s, sheet[n])
           again == ~Customers!Anonymous(sheet[n]) /\ Customers!Identity(sheet[n]) \in s.seen
           elsewhere == i # None /\ sheet[n].username # None /\ customer[i].building # sheet[n].building
           fills == ~again /\ i # None /\ ~elsewhere /\ i \notin s.matched
           makes == ~again /\ i = None /\ Valid(sheet[n])
<1>4. Customers!Take(s, sheet[n]) =
                   [seen |-> IF Customers!Anonymous(sheet[n]) THEN s.seen ELSE s.seen \cup {Customers!Identity(sheet[n])},
                    matched |-> IF fills THEN s.matched \cup {i} ELSE s.matched,
                    updates |-> IF fills /\ Customers!Merged(customer[i], sheet[n]) # customer[i]
                                THEN s.updates \cup {[id |-> i, row |-> sheet[n]]} ELSE s.updates,
                    creates |-> IF makes THEN Append(s.creates, NewOf(sheet[n])) ELSE s.creates]
  <2> HIDE DEF s
  <2> QED
    BY <1>3, TakeIs DEF TakeFits
<1>6. i = Whose(sheet, n)
  BY DEF Whose, Before
<1> HIDE DEF i
<1>7. fills <=> Fills(sheet, n)
  BY <1>6 DEF Fills, Before, Again, Elsewhere
<1>8. makes <=> Adds(sheet, n)
  BY <1>6 DEF Adds, Before, Again
<1> HIDE DEF fills, makes
<1> QED
  BY <1>2, <1>4, <1>6, <1>7, <1>8 DEF Moves, Before, Changes

LEMMA ToldNext ==
    ASSUME CustomerSetup, TableOK, NEW sheet \in Customers!Sheets, NEW n \in 1 .. Len(sheet), Told(sheet, n - 1)
    PROVE  Told(sheet, n)
<1> DEFINE s == Customers!Taken(sheet)[n - 1]
           t == Customers!Taken(sheet)[n]
           x == sheet[n]
<1>1. Len(sheet) \in Nat /\ n \in Nat /\ n - 1 \in Nat /\ x \in Row
  BY RowsAre
<1>2. t = [seen |-> IF Customers!Anonymous(x) THEN s.seen ELSE s.seen \cup {Customers!Identity(x)},
           matched |-> IF Fills(sheet, n) THEN s.matched \cup {Whose(sheet, n)} ELSE s.matched,
           updates |-> IF Fills(sheet, n) /\ Changes(sheet, n) THEN s.updates \cup {[id |-> Whose(sheet, n), row |-> x]} ELSE s.updates,
           creates |-> IF Adds(sheet, n) THEN Append(s.creates, NewOf(x)) ELSE s.creates]
  BY ToldMoves DEF Moves, Before
<1>3. \A k : k \in 1 .. n <=> k \in 1 .. (n - 1) \/ k = n
  BY <1>1
<1>4. t = [seen |-> t.seen, matched |-> t.matched, updates |-> t.updates, creates |-> t.creates]
  BY <1>2
<1> HIDE DEF s
<1>5. \A y : y \in t.seen <=> \E k \in 1 .. n : ~Customers!Anonymous(sheet[k]) /\ y = Customers!Identity(sheet[k])
  <2>1. \A y : y \in s.seen <=> \E k \in 1 .. (n - 1) : ~Customers!Anonymous(sheet[k]) /\ y = Customers!Identity(sheet[k])
    BY DEF Told, s
  <2>2. t.seen = IF Customers!Anonymous(x) THEN s.seen ELSE s.seen \cup {Customers!Identity(x)}
    BY <1>2
  <2> HIDE DEF t
  <2> QED
    BY <1>3, <2>1, <2>2
<1>6. \A i : i \in t.matched <=> \E k \in 1 .. n : Fills(sheet, k) /\ i = Whose(sheet, k)
  <2>1. \A i : i \in s.matched <=> \E k \in 1 .. (n - 1) : Fills(sheet, k) /\ i = Whose(sheet, k)
    BY DEF Told, s
  <2>2. t.matched = IF Fills(sheet, n) THEN s.matched \cup {Whose(sheet, n)} ELSE s.matched
    BY <1>2
  <2> HIDE DEF t
  <2> QED
    BY <1>3, <2>1, <2>2
<1>7. t.matched \subseteq DOMAIN customer
  <2>1. s.matched \subseteq DOMAIN customer
    BY DEF Told, s
  <2>2. t.matched = IF Fills(sheet, n) THEN s.matched \cup {Whose(sheet, n)} ELSE s.matched
    BY <1>2
  <2>3. Fills(sheet, n) => Whose(sheet, n) \in DOMAIN customer
    BY MatchIs DEF MatchFits, Fills, Whose
  <2> HIDE DEF t
  <2> QED
    BY <2>1, <2>2, <2>3
<1>8. \A u : u \in t.updates <=> \E k \in 1 .. n : /\ Fills(sheet, k) /\ Changes(sheet, k)
                                                   /\ u = [id |-> Whose(sheet, k), row |-> sheet[k]]
  <2>1. \A u : u \in s.updates <=> \E k \in 1 .. (n - 1) : /\ Fills(sheet, k) /\ Changes(sheet, k)
                                                           /\ u = [id |-> Whose(sheet, k), row |-> sheet[k]]
    BY DEF Told, s
  <2>2. t.updates = IF Fills(sheet, n) /\ Changes(sheet, n) THEN s.updates \cup {[id |-> Whose(sheet, n), row |-> x]} ELSE s.updates
    BY <1>2
  <2> HIDE DEF t
  <2> QED
    BY <1>3, <2>1, <2>2
<1>9. /\ s.creates \in Seq(Customers!Customer)
      /\ \A k \in 1 .. (n - 1) : Adds(sheet, k) => Place(sheet, k) \in 1 .. Len(s.creates) /\ s.creates[Place(sheet, k)] = NewOf(sheet[k])
      /\ \A p \in 1 .. Len(s.creates) : \E k \in 1 .. (n - 1) : Adds(sheet, k) /\ p = Place(sheet, k)
  BY DEF Told, s
<1>10. t.creates = IF Adds(sheet, n) THEN Append(s.creates, NewOf(x)) ELSE s.creates
  BY <1>2
<1>11. Adds(sheet, n) => NewOf(x) \in Customers!Customer
  <2>1. ASSUME Valid(x) PROVE NewOf(x) \in Customers!Customer
    BY <1>1, <2>1 DEF Valid, NewOf, Customers!Customer, CustomerSetup
  <2> QED
    BY <2>1 DEF Adds
<1>12. Place(sheet, n) = Len(t.creates)
  BY DEF Place
<1> HIDE DEF t, x
<1>13. t.creates \in Seq(Customers!Customer)
  BY <1>9, <1>10, <1>11
<1>14. Adds(sheet, n) => Len(t.creates) = Len(s.creates) + 1 /\ t.creates[Len(t.creates)] = NewOf(x)
                          /\ \A p \in 1 .. Len(s.creates) : t.creates[p] = s.creates[p]
  BY <1>9, <1>10, <1>11
<1>15. Len(s.creates) \in Nat
  BY <1>9
<1>16. \A k \in 1 .. n : Adds(sheet, k) => Place(sheet, k) \in 1 .. Len(t.creates) /\ t.creates[Place(sheet, k)] = NewOf(sheet[k])
  <2> SUFFICES ASSUME NEW k \in 1 .. n, Adds(sheet, k)
               PROVE  Place(sheet, k) \in 1 .. Len(t.creates) /\ t.creates[Place(sheet, k)] = NewOf(sheet[k])
    OBVIOUS
  <2>1. CASE k = n
    BY <2>1, <1>12, <1>14, <1>15 DEF x
  <2>2. CASE k # n
    <3>1. k \in 1 .. (n - 1)
      BY <2>2, <1>1
    <3>2. Place(sheet, k) \in 1 .. Len(s.creates) /\ s.creates[Place(sheet, k)] = NewOf(sheet[k])
      BY <3>1, <1>9
    <3>3. CASE Adds(sheet, n)
      BY <3>2, <3>3, <1>14, <1>15
    <3>4. CASE ~Adds(sheet, n)
      BY <3>2, <3>4, <1>10
    <3> QED
      BY <3>3, <3>4
  <2> QED
    BY <2>1, <2>2
<1>17. \A p \in 1 .. Len(t.creates) : \E k \in 1 .. n : Adds(sheet, k) /\ p = Place(sheet, k)
  <2> SUFFICES ASSUME NEW p \in 1 .. Len(t.creates)
               PROVE  \E k \in 1 .. n : Adds(sheet, k) /\ p = Place(sheet, k)
    OBVIOUS
  <2>1. CASE p \in 1 .. Len(s.creates)
    BY <2>1, <1>9, <1>3
  <2>2. CASE p \notin 1 .. Len(s.creates)
    <3>1. Adds(sheet, n)
      BY <2>2, <1>10
    <3>2. p = Len(t.creates)
      BY <3>1, <2>2, <1>14, <1>15
    <3> QED
      BY <3>1, <3>2, <1>12, <1>3
  <2> QED
    BY <2>1, <2>2
<1> QED
  BY <1>4, <1>5, <1>6, <1>7, <1>8, <1>13, <1>16, <1>17 DEF Told, t

LEMMA AllTold ==
    CustomerSetup /\ TableOK => \A sheet \in Customers!Sheets : \A n \in 0 .. Len(sheet) : Told(sheet, n)
<1> SUFFICES ASSUME CustomerSetup, TableOK, NEW sheet \in Customers!Sheets
             PROVE  \A n \in 0 .. Len(sheet) : Told(sheet, n)
  OBVIOUS
<1>1. Len(sheet) \in Nat
  BY RowsAre
<1>2. Told(sheet, 0)
  <2>1. Customers!Taken(sheet)[0] = [seen |-> {}, matched |-> {}, updates |-> {}, creates |-> << >>]
    BY <1>1, TakenInTurn DEF Customers!NoneTaken
  <2>2. 1 .. 0 = {} /\ << >> \in Seq(Customers!Customer) /\ Len(<< >>) = 0
    OBVIOUS
  <2> QED
    BY <2>1, <2>2 DEF Told
<1> DEFINE Bad == {n \in 0 .. Len(sheet) : ~Told(sheet, n)}
<1>3. Bad = {}
  <2> SUFFICES ASSUME Bad # {} PROVE FALSE
    OBVIOUS
  <2>1. Bad \in SUBSET Nat
    BY <1>1
  <2> HIDE DEF Bad
  <2>2. PICK m \in Bad : \A k \in Bad : m <= k
    BY <2>1, LeastOf
  <2>3. m \in 0 .. Len(sheet) /\ ~Told(sheet, m) /\ m # 0
    BY <1>2 DEF Bad
  <2>4. m \in 1 .. Len(sheet) /\ m - 1 \in 0 .. Len(sheet) /\ ~(m <= m - 1)
    BY <1>1, <2>3
  <2>5. Told(sheet, m - 1)
    BY <2>2, <2>4 DEF Bad
  <2> QED
    BY <2>3, <2>4, <2>5, ToldNext
<1> QED
  BY <1>3

\* No two rows that are taken are of one identity, for one customer or at one place.
LEMMA RowsDiffer ==
    ASSUME CustomerSetup, TableOK, NEW sheet \in Customers!Sheets,
           NEW k \in 1 .. Len(sheet), NEW l \in 1 .. Len(sheet), k < l
    PROVE  /\ (~Customers!Anonymous(sheet[k]) /\ ~Customers!Anonymous(sheet[l]) /\ ~Again(sheet, l)) =>
                  Customers!Identity(sheet[k]) # Customers!Identity(sheet[l])
           /\ (Fills(sheet, k) /\ Fills(sheet, l)) => Whose(sheet, k) # Whose(sheet, l)
           /\ (Adds(sheet, k) /\ Adds(sheet, l)) => Place(sheet, k) # Place(sheet, l)
<1>1. Len(sheet) \in Nat
  BY RowsAre
<1>2. l - 1 \in 0 .. Len(sheet) /\ k \in 1 .. (l - 1)
  BY <1>1
<1>3. Told(sheet, l - 1)
  BY <1>2, AllTold
<1>4. Moves(sheet, l)
  BY <1>3, ToldMoves
<1> DEFINE s == Customers!Taken(sheet)[l - 1]
<1>5. /\ \A y : y \in s.seen <=> \E j \in 1 .. (l - 1) : ~Customers!Anonymous(sheet[j]) /\ y = Customers!Identity(sheet[j])
      /\ \A i : i \in s.matched <=> \E j \in 1 .. (l - 1) : Fills(sheet, j) /\ i = Whose(sheet, j)
      /\ s.creates \in Seq(Customers!Customer)
      /\ Adds(sheet, k) => Place(sheet, k) \in 1 .. Len(s.creates)
  BY <1>2, <1>3 DEF Told
<1>6. Adds(sheet, l) => Place(sheet, l) = Len(s.creates) + 1
  <2>1. Adds(sheet, l) => Customers!Taken(sheet)[l].creates = Append(s.creates, NewOf(sheet[l]))
    BY <1>4 DEF Moves, Before
  <2> HIDE DEF s
  <2> QED
    BY <2>1, <1>5 DEF Place
<1> HIDE DEF s
<1>7. s = Before(sheet, l)
  BY DEF s, Before
<1> QED
  BY <1>2, <1>5, <1>6, <1>7 DEF Again, Fills

\* The table once a plan is applied to it.
Imported(updates, creates) ==
    LET ids == {u.id : u \in updates}
        rowOf == [i \in ids |-> (CHOOSE u \in updates : u.id = i).row]
        new == made + 1 .. made + Len(creates)
    IN  [i \in DOMAIN customer \cup new |->
             IF i \in new THEN creates[i - made]
             ELSE IF i \in ids THEN Customers!Merged(customer[i], rowOf[i]) ELSE customer[i]]

NewIds(sheet) == made + 1 .. made + Len(Customers!Plan(sheet).creates)

\* Each customer is as the row says that was taken for them, or as they were.
RowsAreIn(c, sheet) ==
    /\ DOMAIN c = DOMAIN customer \cup NewIds(sheet)
    /\ Customers!Plan(sheet).creates \in Seq(Customers!Customer)
    /\ {u.id : u \in Customers!Plan(sheet).updates} \subseteq DOMAIN customer
    /\ \A k \in 1 .. Len(sheet) : Fills(sheet, k) =>
           Whose(sheet, k) \in DOMAIN customer /\ c[Whose(sheet, k)] = Customers!Merged(customer[Whose(sheet, k)], sheet[k])
    /\ \A i \in DOMAIN customer :
           (\A k \in 1 .. Len(sheet) : Fills(sheet, k) => Whose(sheet, k) # i) => c[i] = customer[i]
    /\ \A k \in 1 .. Len(sheet) : Adds(sheet, k) =>
           Place(sheet, k) \in Nat \ {0} /\ made + Place(sheet, k) \in NewIds(sheet) /\ c[made + Place(sheet, k)] = NewOf(sheet[k])
    /\ \A i \in NewIds(sheet) : \E k \in 1 .. Len(sheet) : Adds(sheet, k) /\ i = made + Place(sheet, k)
    /\ NewIds(sheet) \cap DOMAIN customer = {}

LEMMA ImportedIs ==
    ASSUME CustomerSetup, TableOK, NEW sheet \in Customers!Sheets, NEW c, c = Imported(Customers!Plan(sheet).updates, Customers!Plan(sheet).creates)
    PROVE  RowsAreIn(c, sheet)
<1> DEFINE N == Len(sheet)
           s == Customers!Taken(sheet)[N]
           ids == {u.id : u \in s.updates}
           new == made + 1 .. made + Len(s.creates)
           rowOf == [i \in ids |-> (CHOOSE u \in s.updates : u.id = i).row]
<1>1. N \in Nat /\ made \in Nat
  BY RowsAre DEF TableOK
<1>2. Told(sheet, N)
  BY <1>1, AllTold
<1>3. /\ \A i : i \in s.matched <=> \E k \in 1 .. N : Fills(sheet, k) /\ i = Whose(sheet, k)
      /\ s.matched \subseteq DOMAIN customer
      /\ \A u : u \in s.updates <=> \E k \in 1 .. N : /\ Fills(sheet, k) /\ Changes(sheet, k)
                                                      /\ u = [id |-> Whose(sheet, k), row |-> sheet[k]]
      /\ s.creates \in Seq(Customers!Customer)
      /\ \A k \in 1 .. N : Adds(sheet, k) => Place(sheet, k) \in 1 .. Len(s.creates) /\ s.creates[Place(sheet, k)] = NewOf(sheet[k])
      /\ \A p \in 1 .. Len(s.creates) : \E k \in 1 .. N : Adds(sheet, k) /\ p = Place(sheet, k)
  BY <1>2 DEF Told
<1>4. Customers!Plan(sheet) = [updates |-> s.updates, creates |-> s.creates]
  BY Zenon DEF Customers!Plan
<1>5. Customers!Plan(sheet).updates = s.updates /\ Customers!Plan(sheet).creates = s.creates
  BY <1>4
<1>6. NewIds(sheet) = new
  BY <1>5 DEF NewIds
<1>7. c = [i \in DOMAIN customer \cup new |->
             IF i \in new THEN s.creates[i - made]
             ELSE IF i \in ids THEN Customers!Merged(customer[i], rowOf[i]) ELSE customer[i]]
  <2>1. c = Imported(s.updates, s.creates)
    BY <1>5
  <2> HIDE DEF s
  <2> QED
    BY <2>1 DEF Imported
<1> HIDE DEF s, N
<1>8. new \cap DOMAIN customer = {}
  <2>1. Len(s.creates) \in Nat
    BY <1>3
  <2> QED
    BY <2>1, <1>1 DEF TableOK
<1>9. \A k \in 1 .. N : Fills(sheet, k) => Whose(sheet, k) \in DOMAIN customer
  BY <1>3
<1>10. \A k, l \in 1 .. N : (Fills(sheet, k) /\ Fills(sheet, l) /\ Whose(sheet, k) = Whose(sheet, l)) => k = l
  <2> SUFFICES ASSUME NEW k \in 1 .. N, NEW l \in 1 .. N, Fills(sheet, k), Fills(sheet, l), Whose(sheet, k) = Whose(sheet, l), k # l
               PROVE  FALSE
    OBVIOUS
  <2>1. k < l \/ l < k
    BY <1>1
  <2> QED
    BY <2>1, RowsDiffer DEF N
<1>11. ids \subseteq DOMAIN customer
  <2> SUFFICES ASSUME NEW u \in s.updates PROVE u.id \in DOMAIN customer
    OBVIOUS
  <2>1. PICK k \in 1 .. N : Fills(sheet, k) /\ u = [id |-> Whose(sheet, k), row |-> sheet[k]]
    BY <1>3
  <2> QED
    BY <2>1, <1>9
<1>12. \A k \in 1 .. N : Fills(sheet, k) => c[Whose(sheet, k)] = Customers!Merged(customer[Whose(sheet, k)], sheet[k])
  <2> SUFFICES ASSUME NEW k \in 1 .. N, Fills(sheet, k)
               PROVE  c[Whose(sheet, k)] = Customers!Merged(customer[Whose(sheet, k)], sheet[k])
    OBVIOUS
  <2> DEFINE i == Whose(sheet, k)
  <2>1. i \in DOMAIN customer /\ i \notin new
    BY <1>8, <1>9
  <2>2. CASE Changes(sheet, k)
    <3> DEFINE u == [id |-> i, row |-> sheet[k]]
    <3>1. u \in s.updates
      BY <1>3, <2>2
    <3>2. \A v \in s.updates : v.id = i => v = u
      <4> SUFFICES ASSUME NEW v \in s.updates, v.id = i PROVE v = u
        OBVIOUS
      <4>1. PICK l \in 1 .. N : Fills(sheet, l) /\ v = [id |-> Whose(sheet, l), row |-> sheet[l]]
        BY <1>3
      <4>2. Whose(sheet, l) = Whose(sheet, k)
        BY <4>1
      <4>3. l = k
        BY <4>1, <4>2, <1>10
      <4> QED
        BY <4>1, <4>3
    <3>3. u.id = i /\ u.row = sheet[k]
      OBVIOUS
    <3> HIDE DEF u, i
    <3>4. i \in ids
      BY <3>1, <3>3
    <3>5. (CHOOSE v \in s.updates : v.id = i) = u
      BY <3>1, <3>2, <3>3
    <3>6. rowOf[i] = sheet[k]
      BY <3>3, <3>4, <3>5
    <3> HIDE DEF rowOf, ids, new
    <3>7. c[i] = Customers!Merged(customer[i], sheet[k])
      BY <2>1, <3>4, <3>6, <1>7
    <3> QED
      BY <3>7 DEF i
  <2>3. CASE ~Changes(sheet, k)
    <3>1. i \notin ids
      <4> SUFFICES ASSUME NEW v \in s.updates, v.id = i PROVE FALSE
        OBVIOUS
      <4>1. PICK l \in 1 .. N : Fills(sheet, l) /\ Changes(sheet, l) /\ v = [id |-> Whose(sheet, l), row |-> sheet[l]]
        BY <1>3
      <4>2. Whose(sheet, l) = Whose(sheet, k)
        BY <4>1
      <4>3. l = k
        BY <4>1, <4>2, <1>10
      <4> QED
        BY <4>1, <4>3, <2>3
    <3>2. Customers!Merged(customer[i], sheet[k]) = customer[i]
      BY <2>3 DEF Changes
    <3> HIDE DEF i, rowOf, ids, new
    <3>3. c[i] = Customers!Merged(customer[i], sheet[k])
      BY <2>1, <3>1, <3>2, <1>7
    <3> QED
      BY <3>3 DEF i
  <2> QED
    BY <2>2, <2>3
<1>13. \A i \in DOMAIN customer : (\A k \in 1 .. N : Fills(sheet, k) => Whose(sheet, k) # i) => c[i] = customer[i]
  <2> SUFFICES ASSUME NEW i \in DOMAIN customer, \A k \in 1 .. N : Fills(sheet, k) => Whose(sheet, k) # i
               PROVE  c[i] = customer[i]
    OBVIOUS
  <2>1. i \notin ids
    <3> SUFFICES ASSUME NEW v \in s.updates, v.id = i PROVE FALSE
      OBVIOUS
    <3>1. PICK l \in 1 .. N : Fills(sheet, l) /\ v = [id |-> Whose(sheet, l), row |-> sheet[l]]
      BY <1>3
    <3> QED
      BY <3>1
  <2>2. i \notin new
    BY <1>8
  <2> HIDE DEF rowOf, ids, new
  <2> QED
    BY <2>1, <2>2, <1>7
<1>14. \A k \in 1 .. N : Adds(sheet, k) =>
          Place(sheet, k) \in Nat \ {0} /\ made + Place(sheet, k) \in new /\ c[made + Place(sheet, k)] = NewOf(sheet[k])
  <2> SUFFICES ASSUME NEW k \in 1 .. N, Adds(sheet, k)
               PROVE  Place(sheet, k) \in Nat \ {0} /\ made + Place(sheet, k) \in new /\ c[made + Place(sheet, k)] = NewOf(sheet[k])
    OBVIOUS
  <2>1. Place(sheet, k) \in 1 .. Len(s.creates) /\ s.creates[Place(sheet, k)] = NewOf(sheet[k])
    BY <1>3
  <2>2. Len(s.creates) \in Nat
    BY <1>3
  <2>3. Place(sheet, k) \in Nat \ {0} /\ made + Place(sheet, k) \in new /\ (made + Place(sheet, k)) - made = Place(sheet, k)
    BY <2>1, <2>2, <1>1
  <2> HIDE DEF rowOf, ids, new
  <2>4. c[made + Place(sheet, k)] = s.creates[(made + Place(sheet, k)) - made]
    BY <2>3, <1>7
  <2> QED
    BY <2>1, <2>3, <2>4
<1>15. \A i \in new : \E k \in 1 .. N : Adds(sheet, k) /\ i = made + Place(sheet, k)
  <2> SUFFICES ASSUME NEW i \in new
               PROVE  \E k \in 1 .. N : Adds(sheet, k) /\ i = made + Place(sheet, k)
    OBVIOUS
  <2>1. Len(s.creates) \in Nat
    BY <1>3
  <2>2. i - made \in 1 .. Len(s.creates) /\ i = made + (i - made)
    BY <2>1, <1>1
  <2>3. PICK k \in 1 .. N : Adds(sheet, k) /\ i - made = Place(sheet, k)
    BY <2>2, <1>3
  <2> QED
    BY <2>2, <2>3
<1>16. DOMAIN c = DOMAIN customer \cup new
  BY <1>7
<1> HIDE DEF new
<1>17. Customers!Plan(sheet).creates \in Seq(Customers!Customer) /\ {u.id : u \in Customers!Plan(sheet).updates} \subseteq DOMAIN customer
  BY <1>3, <1>5, <1>11
<1> QED
  BY <1>6, <1>8, <1>9, <1>12, <1>13, <1>14, <1>15, <1>16, <1>17 DEF N, RowsAreIn

\* A filled cell replaces what is stored, a blank or wrong one does not; the
\* same row again changes nothing.
LEMMA MergedIs ==
    ASSUME CustomerSetup, NEW x \in Row
    PROVE  /\ \A c \in Customers!Customer :
                /\ Customers!Merged(c, x) = [building |-> c.building,
                                             username |-> IF x.username = None THEN c.username ELSE x.username,
                                             mobile |-> IF x.mobile \in Mobile THEN x.mobile ELSE c.mobile,
                                             text |-> IF x.text \in Text THEN x.text ELSE c.text]
                /\ Customers!Merged(c, x) \in Customers!Customer
                /\ Customers!Merged(Customers!Merged(c, x), x) = Customers!Merged(c, x)
           /\ Valid(x) => NewOf(x) \in Customers!Customer /\ Customers!Merged(NewOf(x), x) = NewOf(x)
<1>1. /\ x.building \in Building /\ x.username \in Username \cup {None}
      /\ x.mobile \in Mobile \cup {None, Wrong} /\ x.text \in Text \cup {None, Wrong}
  BY DEF CustomerSetup
<1>2. /\ x.username = None <=> Customers!Cell(x.username) = None
      /\ x.mobile \in Mobile <=> Customers!Cell(x.mobile) # None
      /\ x.text \in Text <=> Customers!Cell(x.text) # None
      /\ x.username # None => Customers!Cell(x.username) = x.username
      /\ x.mobile \in Mobile => Customers!Cell(x.mobile) = x.mobile
      /\ x.text \in Text => Customers!Cell(x.text) = x.text
  BY <1>1 DEF CustomerSetup, Customers!Cell
<1>3. ASSUME NEW c \in Customers!Customer
      PROVE  /\ Customers!Merged(c, x) = [building |-> c.building,
                                          username |-> IF x.username = None THEN c.username ELSE x.username,
                                          mobile |-> IF x.mobile \in Mobile THEN x.mobile ELSE c.mobile,
                                          text |-> IF x.text \in Text THEN x.text ELSE c.text]
             /\ Customers!Merged(c, x) \in Customers!Customer
  <2>1. c = [building |-> c.building, username |-> c.username, mobile |-> c.mobile, text |-> c.text]
        /\ c.building \in Building /\ c.username \in Username \cup {None} /\ c.mobile \in Mobile /\ c.text \in Text
    BY DEF Customers!Customer
  <2>2. Customers!Merged(c, x) = [building |-> c.building,
                                  username |-> IF Customers!Cell(x.username) = None THEN c.username ELSE x.username,
                                  mobile |-> IF Customers!Cell(x.mobile) = None THEN c.mobile ELSE x.mobile,
                                  text |-> IF Customers!Cell(x.text) = None THEN c.text ELSE x.text]
    <3> DEFINE U == IF Customers!Cell(x.username) = None THEN c.username ELSE x.username
               M == IF Customers!Cell(x.mobile) = None THEN c.mobile ELSE x.mobile
               T == IF Customers!Cell(x.text) = None THEN c.text ELSE x.text
    <3>1. Customers!Merged(c, x) = [c EXCEPT !.username = U, !.mobile = M, !.text = T]
      BY Zenon DEF Customers!Merged
    <3> HIDE DEF U, M, T
    <3>2. [c EXCEPT !.username = U, !.mobile = M, !.text = T] = [building |-> c.building, username |-> U, mobile |-> M, text |-> T]
      <4> DEFINE e == [c EXCEPT !.username = U, !.mobile = M, !.text = T]
      <4>1. c \in [building : {c.building}, username : {c.username}, mobile : {c.mobile}, text : {c.text}]
        BY <2>1
      <4>2. e \in [building : {c.building}, username : {U}, mobile : {M}, text : {T}]
        BY <4>1
      <4> HIDE DEF e
      <4>3. e = [building |-> c.building, username |-> U, mobile |-> M, text |-> T]
        BY <4>2
      <4> QED
        BY <4>3 DEF e
    <3> QED
      BY <3>1, <3>2 DEF U, M, T
  <2>3. Customers!Merged(c, x) = [building |-> c.building,
                                  username |-> IF x.username = None THEN c.username ELSE x.username,
                                  mobile |-> IF x.mobile \in Mobile THEN x.mobile ELSE c.mobile,
                                  text |-> IF x.text \in Text THEN x.text ELSE c.text]
    <3>1. /\ (IF Customers!Cell(x.username) = None THEN c.username ELSE x.username)
                = (IF x.username = None THEN c.username ELSE x.username)
          /\ (IF Customers!Cell(x.mobile) = None THEN c.mobile ELSE x.mobile)
                = (IF x.mobile \in Mobile THEN x.mobile ELSE c.mobile)
          /\ (IF Customers!Cell(x.text) = None THEN c.text ELSE x.text)
                = (IF x.text \in Text THEN x.text ELSE c.text)
      BY <1>2
    <3> QED
      BY <2>2, <3>1
  <2> QED
    BY <1>1, <2>1, <2>3 DEF Customers!Customer
<1>4. \A c \in Customers!Customer : Customers!Merged(Customers!Merged(c, x), x) = Customers!Merged(c, x)
  BY <1>3
<1>5. ASSUME Valid(x) PROVE NewOf(x) \in Customers!Customer /\ Customers!Merged(NewOf(x), x) = NewOf(x)
  <2>1. NewOf(x) \in Customers!Customer
    BY <1>1, <1>5 DEF Valid, NewOf, Customers!Customer
  <2> QED
    BY <2>1, <1>3, <1>5 DEF Valid, NewOf
<1> QED
  BY <1>3, <1>4, <1>5

\* A Username of the new table was there before, or came by one row.
Comes(sheet, i, u, k) ==
    /\ sheet[k].username = u /\ Customers!WithUsername(u) = {}
    /\ \/ Fills(sheet, k) /\ i = Whose(sheet, k) /\ customer[i].username = None
       \/ Adds(sheet, k) /\ i = made + Place(sheet, k)

LEMMA UsernameComes ==
    ASSUME CustomerSetup, TableOK, NEW sheet \in Customers!Sheets, NEW c,
           c = Imported(Customers!Plan(sheet).updates, Customers!Plan(sheet).creates)
    PROVE  /\ \A i \in DOMAIN c : c[i] \in Customers!Customer
           /\ \A i \in DOMAIN c : c[i].username # None =>
                \/ i \in DOMAIN customer /\ customer[i].username = c[i].username
                \/ \E k \in 1 .. Len(sheet) : Comes(sheet, i, c[i].username, k)
           /\ \A i \in DOMAIN customer : /\ i \in DOMAIN c /\ c[i].building = customer[i].building
                                         /\ customer[i].username # None => c[i].username = customer[i].username
<1>1. \A k \in 1 .. Len(sheet) : sheet[k] \in Row
  BY RowsAre
<1>2. \A i \in DOMAIN customer : customer[i] \in Customers!Customer
  BY DEF TableOK
<1>11. RowsAreIn(c, sheet)
  BY ImportedIs
<1>7. DOMAIN c = DOMAIN customer \cup NewIds(sheet)
  BY <1>11 DEF RowsAreIn
<1>8. \A k \in 1 .. Len(sheet) : Fills(sheet, k) =>
          Whose(sheet, k) \in DOMAIN customer /\ c[Whose(sheet, k)] = Customers!Merged(customer[Whose(sheet, k)], sheet[k])
  BY <1>11 DEF RowsAreIn
<1>9. \A k \in 1 .. Len(sheet) : Adds(sheet, k) => c[made + Place(sheet, k)] = NewOf(sheet[k])
  BY <1>11 DEF RowsAreIn
<1>10. \A i \in NewIds(sheet) : \E k \in 1 .. Len(sheet) : Adds(sheet, k) /\ i = made + Place(sheet, k)
  BY <1>11 DEF RowsAreIn
<1>3. ASSUME NEW k \in 1 .. Len(sheet), Fills(sheet, k)
      PROVE  LET i == Whose(sheet, k)
             IN  /\ i \in DOMAIN customer /\ i \in DOMAIN c
                 /\ c[i] \in Customers!Customer
                 /\ c[i].building = customer[i].building
                 /\ customer[i].username # None => c[i].username = customer[i].username
                 /\ c[i].username # None => customer[i].username = c[i].username \/ Comes(sheet, i, c[i].username, k)
  <2> DEFINE i == Whose(sheet, k)
             x == sheet[k]
  <2>1. i \in DOMAIN customer /\ i \in DOMAIN c /\ c[i] = Customers!Merged(customer[i], x)
    BY <1>3, <1>7, <1>8
  <2>2. c[i] \in Customers!Customer /\ c[i].building = customer[i].building
        /\ c[i].username = IF x.username = None THEN customer[i].username ELSE x.username
    BY <1>1, <1>2, <2>1, MergedIs
  <2>3. i # None
    BY <1>3 DEF Fills
  <2>4. x.username # None /\ Customers!WithUsername(x.username) # {} => customer[i].username = x.username
    <3>1. x.username # None /\ Customers!WithUsername(x.username) # {} => i \in Customers!WithUsername(x.username)
      BY MatchIs DEF MatchFits, Whose
    <3> QED
      BY <3>1 DEF Customers!WithUsername
  <2>5. x.username # None /\ Customers!WithUsername(x.username) = {} => customer[i].username = None
    BY <2>3, MatchIs DEF MatchFits, Whose
  <2>6. x.username # None /\ Customers!WithUsername(x.username) = {} => Comes(sheet, i, x.username, k)
    BY <1>3, <2>5 DEF Comes
  <2> QED
    BY <2>1, <2>2, <2>4, <2>5, <2>6
<1>4. ASSUME NEW i \in NewIds(sheet)
      PROVE  /\ c[i] \in Customers!Customer
             /\ c[i].username # None => \E k \in 1 .. Len(sheet) : Comes(sheet, i, c[i].username, k)
  <2>1. PICK k \in 1 .. Len(sheet) : Adds(sheet, k) /\ i = made + Place(sheet, k)
    BY <1>10
  <2>2. c[i] = NewOf(sheet[k])
    BY <2>1, <1>9
  <2>3. Valid(sheet[k]) /\ Whose(sheet, k) = None
    BY <2>1 DEF Adds
  <2>4. c[i] \in Customers!Customer /\ c[i].username = sheet[k].username
    BY <1>1, <2>2, <2>3, MergedIs DEF NewOf
  <2>5. sheet[k].username # None => Customers!WithUsername(sheet[k].username) = {}
    BY <2>3, MatchIs DEF MatchFits, Whose
  <2> QED
    BY <2>1, <2>4, <2>5 DEF Comes
<1>5. ASSUME NEW i \in DOMAIN customer
      PROVE  i \in DOMAIN c /\ ((\A k \in 1 .. Len(sheet) : Fills(sheet, k) => Whose(sheet, k) # i) => c[i] = customer[i])
  BY <1>11 DEF RowsAreIn
<1>6. ASSUME NEW i \in DOMAIN customer
      PROVE  /\ i \in DOMAIN c /\ c[i] \in Customers!Customer
             /\ c[i].building = customer[i].building
             /\ customer[i].username # None => c[i].username = customer[i].username
             /\ c[i].username # None =>
                    customer[i].username = c[i].username \/ \E k \in 1 .. Len(sheet) : Comes(sheet, i, c[i].username, k)
  <2>1. CASE \A k \in 1 .. Len(sheet) : Fills(sheet, k) => Whose(sheet, k) # i
    BY <2>1, <1>2, <1>5
  <2>2. CASE \E k \in 1 .. Len(sheet) : Fills(sheet, k) /\ Whose(sheet, k) = i
    BY <2>2, <1>3
  <2> QED
    BY <2>1, <2>2
<1> QED
  BY <1>4, <1>6, <1>7

\* Usernames stay apart.
LEMMA ImportKeepsApart ==
    ASSUME CustomerSetup, TableOK, Customers!UsernamesAreUnique, NEW sheet \in Customers!Sheets, NEW c,
           c = Imported(Customers!Plan(sheet).updates, Customers!Plan(sheet).creates),
           NEW i \in DOMAIN c, NEW j \in DOMAIN c, c[i].username = c[j].username, i # j
    PROVE  c[i].username = None
<1> SUFFICES ASSUME c[i].username # None PROVE FALSE
  OBVIOUS
<1> DEFINE u == c[i].username
<1>1. /\ (i \in DOMAIN customer /\ customer[i].username = u) \/ \E k \in 1 .. Len(sheet) : Comes(sheet, i, u, k)
      /\ (j \in DOMAIN customer /\ customer[j].username = u) \/ \E k \in 1 .. Len(sheet) : Comes(sheet, j, u, k)
  BY UsernameComes
<1>2. u # None /\ i # j
  OBVIOUS
<1> HIDE DEF u
<1>3. ~(i \in DOMAIN customer /\ customer[i].username = u /\ j \in DOMAIN customer /\ customer[j].username = u)
  BY <1>2 DEF Customers!UsernamesAreUnique
<1>4. \A h : h \in DOMAIN customer /\ customer[h].username = u => Customers!WithUsername(u) # {}
  BY DEF Customers!WithUsername
<1>5. ASSUME NEW k \in 1 .. Len(sheet), NEW l \in 1 .. Len(sheet), Comes(sheet, i, u, k), Comes(sheet, j, u, l)
      PROVE  FALSE
  <2>1. CASE k = l
    BY <1>5, <1>2, <2>1 DEF Comes, Fills, Adds
  <2>2. CASE k # l
    <3>1. ~Customers!Anonymous(sheet[k]) /\ ~Customers!Anonymous(sheet[l])
          /\ Customers!Identity(sheet[k]) = <<u>> /\ Customers!Identity(sheet[l]) = <<u>>
      BY <1>5, <1>2 DEF Comes, Customers!Anonymous, Customers!Identity
    <3>2. ~Again(sheet, k) /\ ~Again(sheet, l)
      BY <1>5 DEF Comes, Fills, Adds
    <3>3. Len(sheet) \in Nat
      BY RowsAre
    <3>4. k < l \/ l < k
      BY <2>2, <3>3
    <3> QED
      BY <3>1, <3>2, <3>4, RowsDiffer
  <2> QED
    BY <2>1, <2>2
<1> QED
  BY <1>1, <1>3, <1>4, <1>5 DEF Comes

-----------------------------------------------------------------------------
(* The same sheet again.  Its second reading goes as the first: a row that *)
(* was taken for a customer is taken for them again, a row that made one   *)
(* is taken for the one it made, and any other is taken for nobody.        *)

\* A row is only taken for a customer of its building.
LEMMA FillsHere ==
    ASSUME CustomerSetup, TableOK, NEW sheet \in Customers!Sheets, NEW k \in 1 .. Len(sheet), Fills(sheet, k)
    PROVE  /\ Whose(sheet, k) \in DOMAIN customer
           /\ customer[Whose(sheet, k)].building = sheet[k].building
<1> DEFINE i == Whose(sheet, k)
           x == sheet[k]
<1>1. i # None /\ ~(x.username # None /\ customer[i].building # x.building)
  BY DEF Fills, Elsewhere
<1>2. MatchFits(Before(sheet, k), x) /\ i = Customers!Match(Before(sheet, k), x)
  BY MatchIs DEF Whose
<1>3. x.username = None => i \in Customers!OnMobile(Before(sheet, k), x)
  BY <1>1, <1>2 DEF MatchFits
<1>4. i \in DOMAIN customer
  BY <1>1, <1>2 DEF MatchFits
<1> QED
  BY <1>1, <1>3, <1>4 DEF Customers!OnMobile, Customers!WithMobile

\* If no two rows share a number, who has a row's number had it or has it of that row.
LEMMA NumberComes ==
    ASSUME CustomerSetup, TableOK, NEW sheet \in Customers!Sheets, ~Customers!SharesNumber(sheet), NEW c,
           c = Imported(Customers!Plan(sheet).updates, Customers!Plan(sheet).creates),
           NEW n \in 1 .. Len(sheet), NEW h \in DOMAIN c, c[h].building = sheet[n].building, c[h].mobile = sheet[n].mobile
    PROVE  \/ h \in DOMAIN customer /\ customer[h].building = sheet[n].building /\ customer[h].mobile = sheet[n].mobile
           \/ Fills(sheet, n) /\ h = Whose(sheet, n)
           \/ Adds(sheet, n) /\ h = made + Place(sheet, n)
<1>1. RowsAreIn(c, sheet)
  BY ImportedIs
<1>2. ASSUME NEW k \in 1 .. Len(sheet), sheet[k].building = sheet[n].building, sheet[k].mobile = sheet[n].mobile
      PROVE  k = n
  <2>1. DOMAIN sheet = 1 .. Len(sheet)
    BY DEF Customers!Sheets, CustomerSetup
  <2> QED
    BY <1>2, <2>1 DEF Customers!SharesNumber
<1>3. CASE h \in NewIds(sheet)
  <2>1. PICK k \in 1 .. Len(sheet) : Adds(sheet, k) /\ h = made + Place(sheet, k) /\ c[h] = NewOf(sheet[k])
    BY <1>1, <1>3 DEF RowsAreIn
  <2>2. sheet[k].building = sheet[n].building /\ sheet[k].mobile = sheet[n].mobile
    BY <2>1 DEF NewOf
  <2> QED
    BY <1>2, <2>1, <2>2
<1>4. CASE h \in DOMAIN customer /\ \A k \in 1 .. Len(sheet) : Fills(sheet, k) => Whose(sheet, k) # h
  BY <1>1, <1>4 DEF RowsAreIn
<1>5. ASSUME h \in DOMAIN customer, NEW k \in 1 .. Len(sheet), Fills(sheet, k), Whose(sheet, k) = h
      PROVE  \/ customer[h].building = sheet[n].building /\ customer[h].mobile = sheet[n].mobile
             \/ Fills(sheet, n) /\ h = Whose(sheet, n)
  <2>1. c[h] = Customers!Merged(customer[h], sheet[k])
    BY <1>1, <1>5 DEF RowsAreIn
  <2>2. sheet[k] \in Row /\ customer[h] \in Customers!Customer
    BY <1>5, RowsAre DEF TableOK
  <2>3. c[h].building = customer[h].building
        /\ c[h].mobile = IF sheet[k].mobile \in Mobile THEN sheet[k].mobile ELSE customer[h].mobile
    BY <2>1, <2>2, MergedIs
  <2>4. customer[h].building = sheet[k].building
    BY <1>5, FillsHere
  <2>5. CASE sheet[k].mobile \in Mobile
    <3>1. k = n
      BY <1>2, <2>3, <2>4, <2>5
    <3> QED
      BY <3>1, <1>5
  <2>6. CASE sheet[k].mobile \notin Mobile
    BY <2>3, <2>6
  <2> QED
    BY <2>5, <2>6
<1> QED
  BY <1>1, <1>3, <1>4, <1>5 DEF RowsAreIn

\* Of those who had a row's number none gets a Username but by that row.
LEMMA UsernameStays ==
    ASSUME CustomerSetup, TableOK, NEW sheet \in Customers!Sheets, ~Customers!SharesNumber(sheet), NEW c,
           c = Imported(Customers!Plan(sheet).updates, Customers!Plan(sheet).creates),
           NEW n \in 1 .. Len(sheet), sheet[n].username = None,
           NEW h \in DOMAIN customer, customer[h].building = sheet[n].building, customer[h].mobile = sheet[n].mobile
    PROVE  c[h].username = customer[h].username
<1> SUFFICES ASSUME c[h].username # customer[h].username PROVE FALSE
  OBVIOUS
<1>1. h \in DOMAIN c /\ customer[h].username = None /\ c[h].username # None
  BY UsernameComes
<1>2. PICK k \in 1 .. Len(sheet) : Comes(sheet, h, c[h].username, k)
  BY <1>1, UsernameComes
<1>3. NewIds(sheet) \cap DOMAIN customer = {} /\ \A l \in 1 .. Len(sheet) : Adds(sheet, l) => made + Place(sheet, l) \in NewIds(sheet)
  BY ImportedIs DEF RowsAreIn
<1>4. Fills(sheet, k) /\ h = Whose(sheet, k) /\ sheet[k].username # None /\ Customers!WithUsername(sheet[k].username) = {}
  BY <1>1, <1>2, <1>3 DEF Comes
<1>5. MatchFits(Before(sheet, k), sheet[k]) /\ h = Customers!Match(Before(sheet, k), sheet[k]) /\ h # None
  BY <1>4, MatchIs DEF Whose, Fills
<1>6. h \in Customers!OnMobile(Before(sheet, k), sheet[k])
  BY <1>4, <1>5 DEF MatchFits
<1>7. sheet[k].building = sheet[n].building /\ sheet[k].mobile = sheet[n].mobile
  BY <1>6 DEF Customers!OnMobile, Customers!WithMobile
<1>8. DOMAIN sheet = 1 .. Len(sheet)
  BY DEF Customers!Sheets, CustomerSetup
<1>9. k = n
  BY <1>7, <1>8 DEF Customers!SharesNumber
<1> QED
  BY <1>4, <1>9

\* Rows are matched in the table as it is afterwards, too.
LEMMA MatchThen == (CustomerSetup /\ TableOK => \A s, x : MatchFits(s, x))'
BY MatchIs, PTL

LEMMA TakeThen ==
    (CustomerSetup /\ TableOK =>
        \A s, x : (/\ s = [seen |-> s.seen, matched |-> s.matched, updates |-> s.updates, creates |-> s.creates]
                   /\ s.matched \subseteq DOMAIN customer) => TakeFits(s, x))'
BY TakeIs, PTL

LEMMA TakenThen ==
    (\A sheet : Len(sheet) \in Nat =>
        /\ Customers!Taken(sheet)[0] = Customers!NoneTaken
        /\ \A n \in 1 .. Len(sheet) :
               Customers!Taken(sheet)[n] = Customers!Take(Customers!Taken(sheet)[n - 1], sheet[n]))'
BY TakenInTurn, PTL

\* What the second reading has matched when row n comes: what the first had, and
\* those the rows before n made.
MatchedAgain(sheet, n) == Before(sheet, n).matched \cup {made + p : p \in 1 .. Len(Before(sheet, n).creates)}

LEMMA MatchedAgainIs ==
    ASSUME CustomerSetup, TableOK, NEW sheet \in Customers!Sheets, NEW n \in 1 .. Len(sheet)
    PROVE  /\ Before(sheet, n).matched \subseteq DOMAIN customer
           /\ Len(Before(sheet, n).creates) \in Nat
           /\ \A i \in DOMAIN customer : i \in MatchedAgain(sheet, n) <=> i \in Before(sheet, n).matched
           /\ Adds(sheet, n) => /\ Place(sheet, n) = Len(Before(sheet, n).creates) + 1
                                 /\ made + Place(sheet, n) \notin MatchedAgain(sheet, n)
<1>1. n - 1 \in 0 .. Len(sheet) /\ made \in Nat /\ DOMAIN customer \subseteq 1 .. made
  BY RowsAre DEF TableOK
<1>2. Told(sheet, n - 1)
  BY <1>1, AllTold
<1>3. Moves(sheet, n)
  BY <1>2, ToldMoves
<1> DEFINE s == Before(sheet, n)
<1>4. s.matched \subseteq DOMAIN customer /\ s.creates \in Seq(Customers!Customer)
  BY <1>2 DEF Told, Before
<1>5. Adds(sheet, n) => Customers!Taken(sheet)[n].creates = Append(s.creates, NewOf(sheet[n]))
  BY <1>3 DEF Moves
<1> HIDE DEF s
<1>6. Len(s.creates) \in Nat /\ (Adds(sheet, n) => Place(sheet, n) = Len(s.creates) + 1)
  BY <1>4, <1>5 DEF Place
<1>7. \A i \in DOMAIN customer : \A p \in 1 .. Len(s.creates) : i # made + p
  BY <1>1, <1>6
<1>8. \A i \in DOMAIN customer : i # made + (Len(s.creates) + 1)
  BY <1>1, <1>6
<1>9. \A p \in 1 .. Len(s.creates) : made + (Len(s.creates) + 1) # made + p
  BY <1>1, <1>6
<1> QED
  BY <1>4, <1>6, <1>7, <1>8, <1>9 DEF MatchedAgain, s

\* The customer a row is of, in the table c of the import, with these matched already.
MatchIn(c, matched, x, i) ==
    LET named == {h \in DOMAIN c : c[h].username = x.username}
        mobiles == {h \in DOMAIN c : c[h].building = x.building /\ c[h].mobile = x.mobile} \ matched
        blank == {h \in mobiles : c[h].username = None}
    IN  /\ (x.username # None /\ named # {}) => i \in named
        /\ (x.username # None /\ named = {} /\ blank = {}) => i = None
        /\ (x.username = None /\ blank # {}) => i = Customers!OldestOr(blank, None)
        /\ (x.username = None /\ blank = {}) => i = Customers!OldestOr(mobiles, None)
        /\ mobiles \in SUBSET Nat

\* What the second reading takes a row for.
SameAgain(sheet, n, i) ==
    /\ Whose(sheet, n) # None => i = Whose(sheet, n)
    /\ Adds(sheet, n) => i = made + Place(sheet, n)
    /\ (Whose(sheet, n) = None /\ ~Adds(sheet, n)) => i = None

LEMMA NamedAgain ==
    ASSUME CustomerSetup, TableOK, NEW sheet \in Customers!Sheets, ~Customers!SharesNumber(sheet), NEW c,
           c = Imported(Customers!Plan(sheet).updates, Customers!Plan(sheet).creates),
           \A i, j \in DOMAIN c : (c[i].username = c[j].username /\ i # j) => c[i].username = None,
           NEW n \in 1 .. Len(sheet), ~Again(sheet, n), sheet[n].username # None,
           NEW i, MatchIn(c, MatchedAgain(sheet, n), sheet[n], i)
    PROVE  SameAgain(sheet, n, i)
<1> DEFINE x == sheet[n]
           u == x.username
           w == Whose(sheet, n)
           named == {h \in DOMAIN c : c[h].username = u}
           mobiles == {h \in DOMAIN c : c[h].building = x.building /\ c[h].mobile = x.mobile} \ MatchedAgain(sheet, n)
           blank == {h \in mobiles : c[h].username = None}
<1>1. RowsAreIn(c, sheet) /\ x \in Row
  BY ImportedIs, RowsAre
<1>2. /\ named # {} => i \in named
      /\ (named = {} /\ blank = {}) => i = None
  BY Zenon DEF MatchIn
<1>3. /\ \A h \in DOMAIN c : c[h].username # None =>
                \/ h \in DOMAIN customer /\ customer[h].username = c[h].username
                \/ \E k \in 1 .. Len(sheet) : Comes(sheet, h, c[h].username, k)
      /\ \A h \in DOMAIN customer : /\ h \in DOMAIN c /\ c[h].building = customer[h].building
                                    /\ customer[h].username # None => c[h].username = customer[h].username
  BY UsernameComes
<1>4. MatchFits(Before(sheet, n), x) /\ w = Customers!Match(Before(sheet, n), x)
  BY MatchIs DEF Whose
<1>5. ASSUME NEW h \in DOMAIN c, c[h].username = u PROVE i = h
  <2>1. h \in named
    BY <1>5
  <2>2. i \in named
    BY <2>1, <1>2
  <2>3. i \in DOMAIN c /\ c[i].username = c[h].username
    BY <2>2, <1>5
  <2> QED
    BY <2>3, <1>5
<1>6. ASSUME w # None PROVE i = w
  <2>1. CASE Customers!WithUsername(u) # {}
    <3>1. w \in DOMAIN customer /\ customer[w].username = u
      BY <2>1, <1>4 DEF MatchFits, Customers!WithUsername
    <3> QED
      BY <3>1, <1>3, <1>5
  <2>2. CASE Customers!WithUsername(u) = {}
    <3>1. /\ w \in DOMAIN customer /\ w \in Customers!OnMobile(Before(sheet, n), x)
      BY <2>2, <1>4, <1>6 DEF MatchFits
    <3>2. customer[w].building = x.building /\ w \notin Before(sheet, n).matched
      BY <3>1 DEF Customers!OnMobile, Customers!WithMobile
    <3>3. Fills(sheet, n)
      BY <3>2, <1>6 DEF Fills, Elsewhere
    <3>4. c[w] = Customers!Merged(customer[w], x) /\ w \in DOMAIN c
      BY <3>1, <3>3, <1>1, <1>3 DEF RowsAreIn
    <3>5. c[w].username = u
      BY <3>1, <3>4, <1>1, MergedIs DEF TableOK
    <3> QED
      BY <3>4, <3>5, <1>5
  <2> QED
    BY <2>1, <2>2
<1>7. ASSUME Adds(sheet, n) PROVE i = made + Place(sheet, n)
  <2>1. made + Place(sheet, n) \in DOMAIN c /\ c[made + Place(sheet, n)] = NewOf(x)
    BY <1>1, <1>7 DEF RowsAreIn
  <2> QED
    BY <2>1, <1>5 DEF NewOf
<1>8. ASSUME w = None, ~Adds(sheet, n) PROVE i = None
  <2>1. Customers!WithUsername(u) = {} /\ Customers!NoUsername(Customers!OnMobile(Before(sheet, n), x)) = {}
    BY <1>4, <1>8 DEF MatchFits
  <2>2. ~Fills(sheet, n)
    BY <1>8 DEF Fills
  <2>3. ASSUME NEW h \in named PROVE FALSE
    <3>1. h \in DOMAIN c /\ c[h].username = u
      OBVIOUS
    <3>2. ~(h \in DOMAIN customer /\ customer[h].username = u)
      BY <2>1 DEF Customers!WithUsername
    <3>3. PICK k \in 1 .. Len(sheet) : Comes(sheet, h, u, k)
      BY <3>1, <3>2, <1>3
    <3>4. k # n /\ ~Again(sheet, k) /\ sheet[k].username = u
      BY <3>3, <2>2, <1>8 DEF Comes, Fills, Adds
    <3>5. ~Customers!Anonymous(sheet[k]) /\ ~Customers!Anonymous(x) /\ Customers!Identity(sheet[k]) = Customers!Identity(x)
      BY <3>4 DEF Customers!Anonymous, Customers!Identity
    <3>6. Len(sheet) \in Nat
      BY RowsAre
    <3>7. k < n \/ n < k
      BY <3>4, <3>6
    <3> QED
      BY <3>4, <3>5, <3>7, RowsDiffer
  <2>4. ASSUME NEW h \in blank PROVE FALSE
    <3>1. h \in DOMAIN c /\ c[h].building = x.building /\ c[h].mobile = x.mobile /\ h \notin MatchedAgain(sheet, n) /\ c[h].username = None
      OBVIOUS
    <3>2. h \in DOMAIN customer /\ customer[h].building = x.building /\ customer[h].mobile = x.mobile
      BY <3>1, <2>2, <1>8, NumberComes
    <3>3. h \notin Before(sheet, n).matched
      BY <3>1, <3>2, MatchedAgainIs
    <3>4. customer[h].username = None
      BY <3>1, <3>2, <1>3
    <3> QED
      BY <2>1, <3>2, <3>3, <3>4 DEF Customers!OnMobile, Customers!WithMobile, Customers!NoUsername
  <2> HIDE DEF named, blank
  <2>5. named = {} /\ blank = {}
    BY <2>3, <2>4
  <2> QED
    BY <2>5, <1>2
<1> QED
  BY <1>6, <1>7, <1>8 DEF SameAgain

LEMMA NumberedAgain ==
    ASSUME CustomerSetup, TableOK, NEW sheet \in Customers!Sheets, ~Customers!SharesNumber(sheet), NEW c,
           c = Imported(Customers!Plan(sheet).updates, Customers!Plan(sheet).creates),
           NEW n \in 1 .. Len(sheet), ~Again(sheet, n), sheet[n].username = None,
           NEW i, MatchIn(c, MatchedAgain(sheet, n), sheet[n], i)
    PROVE  SameAgain(sheet, n, i)
<1> DEFINE x == sheet[n]
           w == Whose(sheet, n)
           mobiles == {h \in DOMAIN c : c[h].building = x.building /\ c[h].mobile = x.mobile} \ MatchedAgain(sheet, n)
           blank == {h \in mobiles : c[h].username = None}
           numbered == Customers!OnMobile(Before(sheet, n), x)
           free == Customers!NoUsername(numbered)
<1>1. RowsAreIn(c, sheet) /\ x \in Row
  BY ImportedIs, RowsAre
<1>2. /\ blank # {} => i = Customers!OldestOr(blank, None)
      /\ blank = {} => i = Customers!OldestOr(mobiles, None)
      /\ mobiles \in SUBSET Nat
  BY Zenon DEF MatchIn
<1>3. /\ free # {} => w = Customers!OldestOr(free, None)
      /\ free = {} => w = Customers!OldestOr(numbered, None)
      /\ w # None => w \in numbered
      /\ w = None => numbered = {}
      /\ free \in SUBSET Nat /\ numbered \in SUBSET Nat
  BY MatchIs DEF MatchFits, Whose
<1>4. \A h : h \in mobiles <=> h \in DOMAIN c /\ c[h].building = x.building /\ c[h].mobile = x.mobile /\ h \notin MatchedAgain(sheet, n)
  OBVIOUS
<1>5. \A h : h \in blank <=> h \in mobiles /\ c[h].username = None
  OBVIOUS
<1>6. \A h : h \in numbered <=> h \in DOMAIN customer /\ customer[h].building = x.building /\ customer[h].mobile = x.mobile
                                /\ h \notin Before(sheet, n).matched
  BY DEF Customers!OnMobile, Customers!WithMobile
<1>7. \A h : h \in free <=> h \in numbered /\ customer[h].username = None
  BY DEF Customers!NoUsername
<1> HIDE DEF mobiles, blank, numbered, free
<1>8. blank \in SUBSET Nat
  BY <1>2, <1>5
\* Who has the number afterwards and is not matched had it and was not, or is of this row.
<1>9. ASSUME NEW h \in mobiles
      PROVE  h \in numbered \/ (Fills(sheet, n) /\ h = w) \/ (Adds(sheet, n) /\ h = made + Place(sheet, n))
  <2>1. h \in DOMAIN c /\ c[h].building = x.building /\ c[h].mobile = x.mobile /\ h \notin MatchedAgain(sheet, n)
    BY <1>4
  <2>2. CASE h \in DOMAIN customer /\ customer[h].building = x.building /\ customer[h].mobile = x.mobile
    BY <2>1, <2>2, <1>6, MatchedAgainIs
  <2> QED
    BY <2>1, <2>2, NumberComes
<1>10. \A h \in numbered : c[h].username = customer[h].username
  BY <1>6, UsernameStays
<1>11. ASSUME w # None PROVE i = w
  <2>1. w \in numbered /\ ~Adds(sheet, n)
    BY <1>3, <1>11 DEF Adds
  <2>2. w \in DOMAIN customer /\ customer[w].building = x.building /\ customer[w].mobile = x.mobile /\ w \notin Before(sheet, n).matched
    BY <2>1, <1>6
  <2>3. Fills(sheet, n)
    BY <2>2, <1>11 DEF Fills, Elsewhere
  <2>4. c[w] = Customers!Merged(customer[w], x) /\ w \in DOMAIN c /\ customer[w] \in Customers!Customer
    BY <2>2, <2>3, <1>1 DEF RowsAreIn, TableOK
  <2>5. c[w].building = customer[w].building /\ c[w].mobile = IF x.mobile \in Mobile THEN x.mobile ELSE customer[w].mobile
    BY <2>4, <1>1, MergedIs
  <2>6. w \in mobiles
    BY <2>2, <2>4, <2>5, <1>4, MatchedAgainIs
  <2>7. mobiles \subseteq numbered
    BY <2>1, <1>9
  <2>8. \A h \in mobiles : h \in blank <=> h \in free
    BY <2>7, <1>5, <1>7, <1>10
  <2>9. CASE free # {}
    <3>1. w \in free /\ \A h \in free : w <= h
      BY <2>9, <1>3, OldestIs
    <3>2. w \in blank /\ \A h \in blank : w <= h
      BY <3>1, <2>6, <2>8, <1>5
    <3> QED
      BY <3>2, <1>2, <1>8, OldestIs
  <2>10. CASE free = {}
    <3>1. blank = {}
      BY <2>10, <2>8, <1>5
    <3>2. \A h \in numbered : w <= h
      BY <2>1, <2>10, <1>3, OldestIs
    <3>3. \A h \in mobiles : w <= h
      BY <3>2, <2>7
    <3> QED
      BY <3>1, <3>3, <2>6, <1>2, OldestIs
  <2> QED
    BY <2>9, <2>10
<1>12. ASSUME Adds(sheet, n) PROVE i = made + Place(sheet, n)
  <2> DEFINE j == made + Place(sheet, n)
  <2>1. j \in DOMAIN c /\ c[j] = NewOf(x)
    BY <1>1, <1>12 DEF RowsAreIn
  <2>2. j \notin MatchedAgain(sheet, n)
    BY <1>12, MatchedAgainIs
  <2>3. w = None /\ ~Fills(sheet, n)
    BY <1>12 DEF Adds, Fills
  <2>4. c[j].building = x.building /\ c[j].mobile = x.mobile /\ c[j].username = None
    BY <2>1 DEF NewOf
  <2>5. \A h \in mobiles : h = j
    BY <2>3, <1>3, <1>9
  <2> HIDE DEF j
  <2>6. j \in blank
    BY <2>1, <2>2, <2>4, <1>4, <1>5
  <2>7. i \in blank
    <3>1. blank # {} /\ i = Customers!OldestOr(blank, None)
      BY <2>6, <1>2
    <3> QED
      BY <3>1, <1>8, OldestIs
  <2>8. i = j
    BY <2>5, <2>7, <1>5
  <2> QED
    BY <2>8 DEF j
<1>13. ASSUME w = None, ~Adds(sheet, n) PROVE i = None
  <2>1. mobiles = {}
    BY <1>3, <1>9, <1>13 DEF Fills
  <2>2. blank = {}
    BY <2>1, <1>5
  <2> QED
    BY <2>1, <2>2, <1>2, OldestIs
<1> QED
  BY <1>11, <1>12, <1>13 DEF SameAgain

\* The state of the second reading after n rows, told by that of the first.
TakenAgain(sheet, n) ==
    [seen |-> Customers!Taken(sheet)[n].seen,
     matched |-> Customers!Taken(sheet)[n].matched \cup {made + p : p \in 1 .. Len(Customers!Taken(sheet)[n].creates)},
     updates |-> {}, creates |-> << >>]

\* The rows are told apart as before, but are of customers of the new table.
LEMMA RowThen ==
    ASSUME CustomerSetup, TableOK', NEW t, NEW x
    PROVE  /\ MatchIn(customer', t.matched, x, Customers!Match(t, x)')
           /\ (/\ t = [seen |-> t.seen, matched |-> t.matched, updates |-> t.updates, creates |-> t.creates]
               /\ t.matched \subseteq DOMAIN customer') => TakeFits(t, x)'
<1>1. CustomerSetup'
  BY DEF CustomerSetup, Customers!Customer
<1>2. MatchFits(t, x)'
  BY <1>1, MatchThen
<1> DEFINE named == {h \in DOMAIN customer' : customer'[h].username = x.username}
           mobiles == {h \in DOMAIN customer' : customer'[h].building = x.building /\ customer'[h].mobile = x.mobile} \ t.matched
           blank == {h \in mobiles : customer'[h].username = None}
<1>3. /\ Customers!WithUsername(x.username)' = named
      /\ Customers!OnMobile(t, x)' = mobiles
      /\ Customers!NoUsername(Customers!OnMobile(t, x))' = blank
  BY DEF Customers!WithUsername, Customers!OnMobile, Customers!WithMobile, Customers!NoUsername
<1> DEFINE i == Customers!Match(t, x)'
<1>4. /\ (x.username # None /\ named # {}) => i \in named
      /\ (x.username # None /\ named = {} /\ blank = {}) => i = None
      /\ (x.username = None /\ blank # {}) => i = Customers!OldestOr(blank, None)
      /\ (x.username = None /\ blank = {}) => i = Customers!OldestOr(mobiles, None)
      /\ mobiles \in SUBSET Nat
  <2> HIDE DEF named, mobiles, blank
  <2> QED
    BY <1>2, <1>3 DEF MatchFits, Customers!OldestOr
<1>5. MatchIn(customer', t.matched, x, i)
  BY <1>4, Zenon DEF MatchIn
<1>6. (/\ t = [seen |-> t.seen, matched |-> t.matched, updates |-> t.updates, creates |-> t.creates]
       /\ t.matched \subseteq DOMAIN customer') => TakeFits(t, x)'
  BY <1>1, TakeThen
<1> QED
  BY <1>5, <1>6

\* One row of the second reading.
LEMMA TakeAgain ==
    ASSUME CustomerSetup, TableOK, TableOK', Customers!UsernamesAreUnique', NEW sheet \in Customers!Sheets, ~Customers!SharesNumber(sheet),
           customer' = Imported(Customers!Plan(sheet).updates, Customers!Plan(sheet).creates),
           NEW n \in 1 .. Len(sheet), NEW t, t = TakenAgain(sheet, n - 1), NEW x, x = sheet[n]
    PROVE  Customers!Take(t, x)' = TakenAgain(sheet, n)
<1> DEFINE s == Before(sheet, n)
           w == Whose(sheet, n)
           j == made + Place(sheet, n)
           matched == MatchedAgain(sheet, n)
           i == Customers!Match(t, x)'
<1>1. x \in Row /\ Len(sheet) \in Nat /\ n - 1 \in 0 .. Len(sheet) /\ None \notin Mobile
  BY RowsAre DEF CustomerSetup
<1>2. RowsAreIn(customer', sheet)
  BY ImportedIs
<1>3. Told(sheet, n - 1)
  BY <1>1, AllTold
<1>4. Moves(sheet, n)
  BY <1>3, ToldMoves
<1>5. t = [seen |-> s.seen, matched |-> matched, updates |-> {}, creates |-> << >>]
  BY Zenon DEF TakenAgain, MatchedAgain, Before
<1>6. t.matched \subseteq DOMAIN customer'
  <2>1. s.matched \subseteq DOMAIN customer
    BY MatchedAgainIs
  <2>2. ASSUME NEW p \in 1 .. Len(s.creates) PROVE made + p \in NewIds(sheet)
    <3>1. PICK k \in 1 .. (n - 1) : Adds(sheet, k) /\ p = Place(sheet, k)
      BY <1>3, Zenon DEF Told, Before
    <3>2. k \in 1 .. Len(sheet)
      BY <1>1
    <3> QED
      BY <1>2, <3>1, <3>2 DEF RowsAreIn
  <2>3. DOMAIN customer' = DOMAIN customer \cup NewIds(sheet)
    BY <1>2 DEF RowsAreIn
  <2>4. t.matched = matched
    BY <1>5
  <2>5. matched = s.matched \cup {made + p : p \in 1 .. Len(s.creates)}
    BY DEF MatchedAgain
  <2> HIDE DEF s, matched
  <2> QED
    BY <2>1, <2>2, <2>3, <2>4, <2>5
<1>7. ASSUME ~Again(sheet, n) PROVE SameAgain(sheet, n, i)
  <2>1. MatchIn(customer', matched, x, i)
    <3>1. t.matched = matched
      BY <1>5
    <3> HIDE DEF matched
    <3> QED
      BY <3>1, RowThen
  <2>2. \A h, l \in DOMAIN customer' : (customer'[h].username = customer'[l].username /\ h # l) => customer'[h].username = None
    BY DEF Customers!UsernamesAreUnique
  <2> DEFINE c == customer'
  <2>3. /\ c = Imported(Customers!Plan(sheet).updates, Customers!Plan(sheet).creates)
        /\ \A h, l \in DOMAIN c : (c[h].username = c[l].username /\ h # l) => c[h].username = None
        /\ MatchIn(c, MatchedAgain(sheet, n), sheet[n], i)
    BY <2>1, <2>2
  <2> HIDE DEF c, i
  <2>4. CASE x.username # None
    BY <1>7, <2>3, <2>4, NamedAgain
  <2>5. CASE x.username = None
    BY <1>7, <2>3, <2>5, NumberedAgain
  <2> QED
    BY <2>4, <2>5
<1> DEFINE again == ~Customers!Anonymous(x) /\ Customers!Identity(x) \in s.seen
           elsewhere == i # None /\ x.username # None /\ customer'[i].building # x.building
           fills == ~again /\ i # None /\ ~elsewhere /\ i \notin matched
           makes == ~again /\ i = None /\ Valid(x)
<1>8. Customers!Take(t, x)' =
            [seen |-> IF Customers!Anonymous(x) THEN s.seen ELSE s.seen \cup {Customers!Identity(x)},
             matched |-> IF fills THEN matched \cup {i} ELSE matched,
             updates |-> IF fills /\ Customers!Merged(customer'[i], x) # customer'[i] THEN {[id |-> i, row |-> x]} ELSE {},
             creates |-> IF makes THEN Append(<< >>, NewOf(x)) ELSE << >>]
  <2>1. t = [seen |-> t.seen, matched |-> t.matched, updates |-> t.updates, creates |-> t.creates]
    BY <1>5
  <2>2. TakeFits(t, x)'
    BY <1>6, <2>1, RowThen
  <2>3. t.seen = s.seen /\ t.matched = matched /\ t.updates = {} /\ t.creates = << >>
    BY <1>5
  <2> HIDE DEF s, matched
  <2>4. (Customers!Anonymous(x)' <=> Customers!Anonymous(x)) /\ Customers!Identity(x)' = Customers!Identity(x)
        /\ Customers!Merged(customer[Customers!Match(t, x)], x)' = Customers!Merged(customer'[i], x)
        /\ (Valid(x)' <=> Valid(x)) /\ NewOf(x)' = NewOf(x)
    BY Zenon DEF Customers!Anonymous, Customers!Identity, Customers!Merged, Customers!Cell, Valid, NewOf
  <2> QED
    BY <2>2, <2>3, <2>4 DEF TakeFits
<1>9. again <=> Again(sheet, n)
  BY DEF Again
<1>10. /\ (Fills(sheet, n) => i = w /\ fills /\ Customers!Merged(customer'[i], x) = customer'[i])
       /\ (Adds(sheet, n) => i = j /\ fills /\ Customers!Merged(customer'[i], x) = customer'[i])
       /\ (~Fills(sheet, n) /\ ~Adds(sheet, n) => ~fills)
       /\ ~makes
       /\ ~(Fills(sheet, n) /\ Adds(sheet, n))
  <2>1. /\ made \in Nat /\ None \notin Nat /\ None \notin DOMAIN customer
        /\ \A h \in DOMAIN customer : h \in DOMAIN customer' /\ customer'[h].building = customer[h].building
    <3> DEFINE c == customer'
    <3>1. c = Imported(Customers!Plan(sheet).updates, Customers!Plan(sheet).creates)
      OBVIOUS
    <3> HIDE DEF c
    <3>2. \A h \in DOMAIN customer : h \in DOMAIN c /\ c[h].building = customer[h].building
      BY <3>1, UsernameComes
    <3> QED
      BY <3>2 DEF c, TableOK, CustomerSetup
  <2> HIDE DEF i, s, matched
  <2>2. ASSUME Fills(sheet, n)
        PROVE  i = w /\ fills /\ Customers!Merged(customer'[i], x) = customer'[i] /\ ~Adds(sheet, n)
    <3>1. i = w /\ ~again /\ w # None /\ ~Elsewhere(sheet, n) /\ w \notin s.matched
      BY <2>2, <1>7, <1>9 DEF Fills, SameAgain, s
    <3>2. w \in DOMAIN customer /\ customer'[w] = Customers!Merged(customer[w], x)
      BY <2>2, <1>2 DEF RowsAreIn
    <3>3. w \notin matched
      BY <3>1, <3>2, MatchedAgainIs DEF matched, s
    <3>4. Customers!Merged(customer'[w], x) = customer'[w]
      BY <3>2, <1>1, MergedIs DEF TableOK
    <3>5. customer'[w].building = customer[w].building
      BY <2>1, <3>2
    <3> HIDE DEF w, again
    <3>6. ~elsewhere
      BY <3>1, <3>5 DEF Elsewhere, w
    <3> QED
      BY <3>1, <3>3, <3>4, <3>6 DEF Adds, w
  <2>3. ASSUME Adds(sheet, n)
        PROVE  i = j /\ fills /\ Customers!Merged(customer'[i], x) = customer'[i] /\ ~Fills(sheet, n)
    <3>1. i = j /\ ~again /\ w = None /\ Valid(x)
      BY <2>3, <1>7, <1>9 DEF Adds, SameAgain
    <3>2. Place(sheet, n) \in Nat /\ customer'[j] = NewOf(x)
      BY <2>3, <1>2 DEF RowsAreIn
    <3>3. j \notin matched
      BY <2>3, MatchedAgainIs DEF matched
    <3>4. Customers!Merged(NewOf(x), x) = NewOf(x)
      BY <3>1, <1>1, MergedIs
    <3>5. customer'[j].building = x.building
      BY <3>2 DEF NewOf
    <3>6. j # None
      BY <2>1, <3>2
    <3> HIDE DEF w, again, j
    <3> QED
      BY <3>1, <3>2, <3>3, <3>4, <3>5, <3>6 DEF Fills, w
  <2>4. ASSUME ~Fills(sheet, n), ~Adds(sheet, n) PROVE ~fills /\ ~makes
    <3>1. CASE again
      BY <3>1
    <3>2. CASE ~again /\ w # None
      <4>1. i = w /\ (Elsewhere(sheet, n) \/ w \in s.matched)
        BY <2>4, <3>2, <1>7, <1>9 DEF Fills, SameAgain, s
      <4>2. w \in DOMAIN customer
        BY <3>2, MatchIs DEF MatchFits, Whose
      <4>3. w \in s.matched => w \in matched
        BY <4>2, MatchedAgainIs DEF matched, s
      <4>4. customer'[w].building = customer[w].building
        BY <2>1, <4>2
      <4>5. Elsewhere(sheet, n) => elsewhere
        BY <3>2, <4>1, <4>4 DEF Elsewhere
      <4> HIDE DEF w, elsewhere
      <4> QED
        BY <3>2, <4>1, <4>3, <4>5
    <3>3. CASE ~again /\ w = None
      <4>1. i = None /\ ~Valid(x)
        BY <2>4, <3>3, <1>7, <1>9 DEF Adds, SameAgain
      <4> QED
        BY <4>1
    <3> QED
      BY <3>1, <3>2, <3>3
  <2>5. fills => ~makes
    OBVIOUS
  <2> HIDE DEF fills, makes
  <2> QED
    BY <2>2, <2>3, <2>4, <2>5
<1>11. Customers!Taken(sheet)[n] =
              [seen |-> IF Customers!Anonymous(x) THEN s.seen ELSE s.seen \cup {Customers!Identity(x)},
               matched |-> IF Fills(sheet, n) THEN s.matched \cup {w} ELSE s.matched,
               updates |-> IF Fills(sheet, n) /\ Changes(sheet, n)
                           THEN s.updates \cup {[id |-> w, row |-> x]} ELSE s.updates,
               creates |-> IF Adds(sheet, n) THEN Append(s.creates, NewOf(x)) ELSE s.creates]
  BY <1>4, Zenon DEF Moves
<1> DEFINE z == Customers!Taken(sheet)[n]
           seen == IF Customers!Anonymous(x) THEN s.seen ELSE s.seen \cup {Customers!Identity(x)}
           fresh == {made + p : p \in 1 .. Len(s.creates)}
           freshThen == {made + p : p \in 1 .. Len(z.creates)}
<1>12. /\ z.seen = seen
       /\ z.matched = IF Fills(sheet, n) THEN s.matched \cup {w} ELSE s.matched
       /\ z.creates = IF Adds(sheet, n) THEN Append(s.creates, NewOf(x)) ELSE s.creates
  <2> DEFINE matchedNow == IF Fills(sheet, n) THEN s.matched \cup {w} ELSE s.matched
             updates == IF Fills(sheet, n) /\ Changes(sheet, n) THEN s.updates \cup {[id |-> w, row |-> x]} ELSE s.updates
             creates == IF Adds(sheet, n) THEN Append(s.creates, NewOf(x)) ELSE s.creates
  <2>1. z = [seen |-> seen, matched |-> matchedNow, updates |-> updates, creates |-> creates]
    BY <1>11, Zenon
  <2> HIDE DEF z, s, w, seen, matchedNow, updates, creates
  <2>2. z.seen = seen /\ z.matched = matchedNow /\ z.creates = creates
    BY <2>1
  <2> QED
    BY <2>2, Zenon DEF matchedNow, creates
<1>13. TakenAgain(sheet, n) = [seen |-> z.seen, matched |-> z.matched \cup freshThen, updates |-> {}, creates |-> << >>]
  BY Zenon DEF TakenAgain
<1>14. matched = s.matched \cup fresh
  BY DEF MatchedAgain
<1>15. Adds(sheet, n) => freshThen = fresh \cup {j}
  <2> SUFFICES ASSUME Adds(sheet, n) PROVE freshThen = fresh \cup {j}
    OBVIOUS
  <2>1. Len(s.creates) \in Nat /\ Len(z.creates) = Len(s.creates) + 1 /\ j = made + (Len(s.creates) + 1)
    BY MatchedAgainIs DEF Place
  <2> HIDE DEF z, s
  <2>2. \A p : p \in 1 .. Len(z.creates) <=> p \in 1 .. Len(s.creates) \/ p = Len(s.creates) + 1
    BY <2>1
  <2> QED
    BY <2>1, <2>2
<1>16. ~Adds(sheet, n) => freshThen = fresh
  <2> SUFFICES ASSUME ~Adds(sheet, n) PROVE freshThen = fresh
    OBVIOUS
  <2>1. z.creates = s.creates
    BY <1>12, Zenon
  <2> QED
    BY <2>1, Zenon
<1>17. Customers!Take(t, x)' = [seen |-> seen, matched |-> IF fills THEN matched \cup {i} ELSE matched, updates |-> {}, creates |-> << >>]
  <2>1. CASE fills
    <3>1. Customers!Merged(customer'[i], x) = customer'[i]
      BY <2>1, <1>10
    <3> HIDE DEF s, i, matched
    <3> QED
      BY <2>1, <3>1, <1>8, <1>10
  <2>2. CASE ~fills
    <3> HIDE DEF s, i, matched
    <3> QED
      BY <2>2, <1>8, <1>10
  <2> QED
    BY <2>1, <2>2
<1>18. z.matched \cup freshThen = IF fills THEN matched \cup {i} ELSE matched
  <2>1. CASE Fills(sheet, n)
    <3>1. i = w /\ fills /\ ~Adds(sheet, n)
      BY <2>1, <1>10
    <3>2. z.matched = s.matched \cup {w} /\ freshThen = fresh
      BY <2>1, <3>1, <1>12, <1>16
    <3>3. (IF fills THEN matched \cup {i} ELSE matched) = matched \cup {w}
      BY <3>1, Zenon
    <3> HIDE DEF s, w, i, z, fresh, freshThen, matched, fills
    <3> QED
      BY <3>2, <3>3, <1>14
  <2>2. CASE Adds(sheet, n)
    <3>1. i = j /\ fills /\ ~Fills(sheet, n)
      BY <2>2, <1>10
    <3>2. z.matched = s.matched /\ freshThen = fresh \cup {j}
      BY <2>2, <3>1, <1>12, <1>15, Zenon
    <3>3. (IF fills THEN matched \cup {i} ELSE matched) = matched \cup {j}
      BY <3>1, Zenon
    <3> HIDE DEF s, j, i, z, fresh, freshThen, matched, fills
    <3> QED
      BY <3>2, <3>3, <1>14
  <2>3. CASE ~Fills(sheet, n) /\ ~Adds(sheet, n)
    <3>1. ~fills
      BY <2>3, <1>10
    <3>2. z.matched = s.matched /\ freshThen = fresh
      BY <2>3, <1>12, <1>16, Zenon
    <3>3. (IF fills THEN matched \cup {i} ELSE matched) = matched
      BY <3>1, Zenon
    <3> HIDE DEF s, i, z, fresh, freshThen, matched, fills
    <3> QED
      BY <3>2, <3>3, <1>14
  <2> QED
    BY <2>1, <2>2, <2>3
<1> HIDE DEF z, s, seen, fresh, freshThen, fills, matched, i
<1> QED
  BY <1>12, <1>13, <1>17, <1>18

LEMMA TakenTwice ==
    ASSUME CustomerSetup, TableOK, TableOK', Customers!UsernamesAreUnique', NEW sheet \in Customers!Sheets, ~Customers!SharesNumber(sheet),
           customer' = Imported(Customers!Plan(sheet).updates, Customers!Plan(sheet).creates)
    PROVE  \A n \in 0 .. Len(sheet) : Customers!Taken(sheet)'[n] = TakenAgain(sheet, n)
<1> DEFINE Bad == {n \in 0 .. Len(sheet) : Customers!Taken(sheet)'[n] # TakenAgain(sheet, n)}
<1>1. Len(sheet) \in Nat
  BY RowsAre
<1>2. /\ Customers!Taken(sheet)'[0] = Customers!NoneTaken
      /\ \A n \in 1 .. Len(sheet) :
            Customers!Taken(sheet)'[n] = Customers!Take(Customers!Taken(sheet)[n - 1], sheet[n])'
  BY <1>1, TakenThen DEF Customers!NoneTaken
<1>3. Customers!Taken(sheet)[0] = Customers!NoneTaken
  BY <1>1, TakenInTurn
<1>4. TakenAgain(sheet, 0) = Customers!NoneTaken
  <2>1. Len(Customers!Taken(sheet)[0].creates) = 0 /\ Customers!Taken(sheet)[0].seen = {} /\ Customers!Taken(sheet)[0].matched = {}
    BY <1>3 DEF Customers!NoneTaken
  <2>2. {made + p : p \in 1 .. Len(Customers!Taken(sheet)[0].creates)} = {}
    BY <2>1
  <2>3. TakenAgain(sheet, 0) = [seen |-> {}, matched |-> {} \cup {}, updates |-> {}, creates |-> << >>]
    BY <2>1, <2>2, Zenon DEF TakenAgain
  <2> QED
    BY <2>3 DEF Customers!NoneTaken
<1>5. ASSUME Bad # {} PROVE FALSE
  <2>1. PICK n \in Bad : \A k \in Bad : n <= k
    <3>1. Bad \in SUBSET Nat
      BY <1>1
    <3> HIDE DEF Bad
    <3> QED
      BY <3>1, <1>5, LeastOf
  <2>2. n \in 1 .. Len(sheet) /\ n - 1 \in 0 .. Len(sheet) /\ n - 1 \notin Bad
    BY <2>1, <1>1, <1>2, <1>4
  <2>3. Customers!Taken(sheet)'[n - 1] = TakenAgain(sheet, n - 1)
    BY <2>2
  <2> DEFINE t == Customers!Taken(sheet)'[n - 1]
             x == sheet[n]
  <2>4. Customers!Taken(sheet)'[n] = Customers!Take(Customers!Taken(sheet)[n - 1], sheet[n])'
    BY <1>2, <2>2
  <2>5. \A u, y : (u = TakenAgain(sheet, n - 1) /\ y = sheet[n]) => Customers!Take(u, y)' = TakenAgain(sheet, n)
    BY <2>2, TakeAgain
  <2>6. Customers!Taken(sheet)'[n] = TakenAgain(sheet, n)
    BY <2>3, <2>4, <2>5
  <2> QED
    BY <2>1, <2>6
<1> HIDE DEF Bad
<1>6. Bad = {}
  BY <1>5
<1> QED
  BY <1>6 DEF Bad

LEMMA PlanAgain ==
    ASSUME CustomerSetup, TableOK, TableOK', Customers!UsernamesAreUnique', NEW sheet \in Customers!Sheets, ~Customers!SharesNumber(sheet),
           customer' = Imported(Customers!Plan(sheet).updates, Customers!Plan(sheet).creates)
    PROVE  Customers!Plan(sheet)' = Customers!Nothing
<1>1. Len(sheet) \in Nat /\ Len(sheet) \in 0 .. Len(sheet)
  BY RowsAre
<1>2. Customers!Taken(sheet)'[Len(sheet)] = TakenAgain(sheet, Len(sheet))
  BY <1>1, TakenTwice
<1>3. TakenAgain(sheet, Len(sheet)).updates = {} /\ TakenAgain(sheet, Len(sheet)).creates = << >>
  BY DEF TakenAgain
<1>4. Customers!Plan(sheet)' = [updates |-> Customers!Taken(sheet)'[Len(sheet)].updates,
                                creates |-> Customers!Taken(sheet)'[Len(sheet)].creates]
  BY Zenon DEF Customers!Plan
<1> QED
  BY <1>2, <1>3, <1>4 DEF Customers!Nothing

-----------------------------------------------------------------------------
(* Requests that change customers, one at a time.                          *)

\* What a request has read and is about to write: it is as it read it.
Reads(w) ==
    \/ w = Idle
    \/ \E c \in Form : /\ w = [do |-> "create", new |-> c]
                       /\ c.username # None => Customers!WithUsername(c.username) = {}
    \/ \E i \in DOMAIN customer, c \in Form : /\ w = [do |-> "update", id |-> i, set |-> c]
                                              /\ c.username # None => Customers!WithUsername(c.username) \subseteq {i}
    \/ \E i \in DOMAIN customer : w = [do |-> "delete", id |-> i]
    \/ \E sheet \in Customers!Sheets : w = [do |-> "import", sheet |-> sheet, plan |-> Customers!Plan(sheet)]

CustomersInv(r) ==
    /\ Customers!TypeOK /\ TableOK
    /\ Customers!UsernamesAreUnique /\ Customers!ReuploadChangesNothing
    /\ r \in DOMAIN writing /\ Reads(writing[r])

\* What an import would write depends on the table alone.
LEMMA PlanStays ==
    customer' = customer => \A sheet : Customers!Plan(sheet)' = Customers!Plan(sheet)
<1> SUFFICES ASSUME customer' = customer PROVE \A sheet : Customers!Plan(sheet)' = Customers!Plan(sheet)
  OBVIOUS
<1>1. ASSUME NEW s, NEW x PROVE Customers!Match(s, x)' = Customers!Match(s, x)
  <2> DEFINE named == Customers!WithUsername(x.username)
             mobiles == Customers!OnMobile(s, x)
             blank == Customers!NoUsername(mobiles)
  <2>1. named' = named
    BY DEF Customers!WithUsername
  <2>2. mobiles' = mobiles
    BY DEF Customers!OnMobile, Customers!WithMobile
  <2>3. blank' = blank
    BY <2>2 DEF Customers!NoUsername
  <2>4. Customers!Match(s, x) = IF x.username = None THEN Customers!OldestOr(blank, Customers!OldestOr(mobiles, None))
                                ELSE Customers!OldestOr(named, Customers!OldestOr(blank, None))
    BY Zenon DEF Customers!Match
  <2>5. Customers!Match(s, x)' = IF x.username = None THEN Customers!OldestOr(blank', Customers!OldestOr(mobiles', None))
                                 ELSE Customers!OldestOr(named', Customers!OldestOr(blank', None))
    BY Zenon DEF Customers!Match, Customers!OldestOr
  <2> HIDE DEF named, mobiles, blank
  <2> QED
    BY <2>1, <2>2, <2>3, <2>4, <2>5
<1>2. ASSUME NEW s, NEW x PROVE Customers!Take(s, x)' = Customers!Take(s, x)
  <2>1. Customers!Anonymous(x)' <=> Customers!Anonymous(x)
    BY Zenon DEF Customers!Anonymous
  <2>2. Customers!Identity(x)' = Customers!Identity(x)
    BY Zenon DEF Customers!Identity
  <2>3. \A c : Customers!Merged(c, x)' = Customers!Merged(c, x)
    BY Zenon DEF Customers!Merged, Customers!Cell
  <2>4. \A z : Customers!Match(z, x)' = Customers!Match(z, x)
    BY <1>1
  <2> QED
    BY <2>1, <2>2, <2>3, <2>4 DEF Customers!Take
<1>3. \A sheet : Customers!Taken(sheet)' = Customers!Taken(sheet)
  BY <1>2, Zenon DEF Customers!Taken, Customers!NoneTaken
<1> QED
  BY <1>3, Zenon DEF Customers!Plan

LEMMA CustomersFirst ==
    ASSUME CustomerSetup, NEW r, Request = {r}
    PROVE  Customers!Init => CustomersInv(r)
<1> SUFFICES ASSUME Customers!Init PROVE CustomersInv(r)
  OBVIOUS
<1>1. customer = << >> /\ made = 0 /\ writing = [q \in Request |-> Idle] /\ last = << >>
  BY DEF Customers!Init
<1>2. DOMAIN customer = {}
  BY <1>1
<1>3. r \in DOMAIN writing /\ writing[r] = Idle
  BY <1>1
<1>4. Customers!TypeOK /\ TableOK
  BY <1>1, <1>2 DEF Customers!TypeOK, TableOK, CustomerSetup
<1> QED
  BY <1>1, <1>2, <1>3, <1>4 DEF CustomersInv, Reads, Customers!UsernamesAreUnique, Customers!ReuploadChangesNothing

\* A request that begins changes no table.
LEMMA BeginsKeep ==
    ASSUME CustomerSetup, NEW r, Request = {r}, CustomersInv(r), NEW w, Customers!Begins(r, w), Reads(w)
    PROVE  CustomersInv(r)'
<1>1. customer' = customer /\ made' = made /\ last' = last /\ writing' = [writing EXCEPT ![r] = w]
  BY DEF Customers!Begins
<1>2. r \in DOMAIN writing' /\ writing'[r] = w
  BY <1>1 DEF CustomersInv
<1>3. Reads(w)'
  <2>1. \A sheet : Customers!Plan(sheet)' = Customers!Plan(sheet)
    BY <1>1, PlanStays
  <2>2. Customers!Sheets' = Customers!Sheets
    BY DEF Customers!Sheets
  <2> QED
    BY <1>1, <2>1, <2>2 DEF Reads, Customers!WithUsername
<1>4. Customers!TypeOK' /\ TableOK' /\ Customers!UsernamesAreUnique'
  BY <1>1 DEF CustomersInv, Customers!TypeOK, TableOK, Customers!UsernamesAreUnique, Customers!Sheets, Customers!Customer
<1>5. Customers!ReuploadChangesNothing'
  <2>1. \A sheet : Customers!Plan(sheet)' = Customers!Plan(sheet)
    BY <1>1, PlanStays
  <2> QED
    BY <1>1, <2>1 DEF CustomersInv, Customers!ReuploadChangesNothing, Customers!Nothing, Customers!SharesNumber
<1> QED
  BY <1>2, <1>3, <1>4, <1>5 DEF CustomersInv

\* What changes the tables leaves Usernames apart.
LEMMA ApplyOneKeeps ==
    ASSUME CustomerSetup, NEW r, Request = {r}, CustomersInv(r), Customers!ApplyOne(r)
    PROVE  CustomersInv(r)'
<1>1. writing[r] # Idle /\ writing' = [writing EXCEPT ![r] = Idle] /\ last' = << >>
  BY DEF Customers!ApplyOne
<1>2. r \in DOMAIN writing' /\ writing'[r] = Idle
  BY <1>1 DEF CustomersInv
<1>3. /\ made \in Nat /\ made \in 0 .. MaxId /\ DOMAIN customer \subseteq 1 .. made
      /\ \A i \in DOMAIN customer : customer[i] \in Customers!Customer
      /\ \A i, j \in DOMAIN customer : (customer[i].username = customer[j].username /\ i # j) => customer[i].username = None
  BY DEF CustomersInv, TableOK, Customers!TypeOK, Customers!UsernamesAreUnique
<1>4. MaxId \in Nat /\ Form \subseteq Customers!Customer
  BY DEF CustomerSetup
<1> SUFFICES /\ made' \in 0 .. MaxId /\ DOMAIN customer' \subseteq 1 .. made'
             /\ \A i \in DOMAIN customer' : customer'[i] \in Customers!Customer
             /\ \A i, j \in DOMAIN customer' : (customer'[i].username = customer'[j].username /\ i # j) => customer'[i].username = None
  BY <1>1, <1>2, <1>4 DEF CustomersInv, Reads, Customers!TypeOK, TableOK, Customers!UsernamesAreUnique, Customers!Customer,
      Customers!ReuploadChangesNothing
<1>5. CASE writing[r].do = "create" /\ made < MaxId /\ made' = made + 1
           /\ customer' = [i \in DOMAIN customer \cup {made + 1} |-> IF i = made + 1 THEN writing[r].new ELSE customer[i]]
  <2>1. PICK c \in Form : /\ writing[r] = [do |-> "create", new |-> c]
                          /\ c.username # None => Customers!WithUsername(c.username) = {}
    BY <1>1, <1>5 DEF CustomersInv, Reads
  <2>2. /\ DOMAIN customer' = DOMAIN customer \cup {made + 1} /\ made + 1 \notin DOMAIN customer
        /\ customer'[made + 1] = c /\ \A i \in DOMAIN customer : customer'[i] = customer[i]
    BY <1>3, <1>5, <2>1
  <2>3. c.username # None => \A i \in DOMAIN customer : customer[i].username # c.username
    BY <2>1 DEF Customers!WithUsername
  <2> QED
    BY <1>3, <1>4, <1>5, <2>2, <2>3
<1>6. CASE writing[r].do = "update" /\ made' = made
           /\ customer' = [i \in DOMAIN customer |-> IF i = writing[r].id THEN writing[r].set ELSE customer[i]]
  <2>1. PICK i \in DOMAIN customer, c \in Form :
          /\ writing[r] = [do |-> "update", id |-> i, set |-> c]
          /\ c.username # None => Customers!WithUsername(c.username) \subseteq {i}
    BY <1>1, <1>6 DEF CustomersInv, Reads
  <2>2. DOMAIN customer' = DOMAIN customer /\ customer'[i] = c /\ \A j \in DOMAIN customer : j # i => customer'[j] = customer[j]
    BY <1>6, <2>1
  <2>3. c.username # None => \A j \in DOMAIN customer : j # i => customer[j].username # c.username
    BY <2>1 DEF Customers!WithUsername
  <2> QED
    BY <1>3, <1>4, <1>6, <2>2, <2>3
<1>7. CASE writing[r].do = "delete" /\ made' = made /\ customer' = [i \in DOMAIN customer \ {writing[r].id} |-> customer[i]]
  <2>1. DOMAIN customer' \subseteq DOMAIN customer /\ \A i \in DOMAIN customer' : customer'[i] = customer[i]
    BY <1>7
  <2> QED
    BY <1>3, <1>7, <2>1
<1> QED
  BY <1>5, <1>6, <1>7 DEF Customers!ApplyOne

\* An import that is applied: the table of the plan, which was made of this one.
LEMMA ApplyImportIs ==
    ASSUME CustomerSetup, NEW r, Request = {r}, CustomersInv(r), Customers!ApplyImport(r)
    PROVE  \E sheet \in Customers!Sheets :
              /\ customer' = Imported(Customers!Plan(sheet).updates, Customers!Plan(sheet).creates)
              /\ made' = made + Len(Customers!Plan(sheet).creates) /\ made' <= MaxId
              /\ last' = sheet
              /\ r \in DOMAIN writing' /\ writing'[r] = Idle
<1>1. writing[r] # Idle /\ writing[r].do = "import"
  BY DEF Customers!ApplyImport
<1>2. PICK sheet \in Customers!Sheets : writing[r] = [do |-> "import", sheet |-> sheet, plan |-> Customers!Plan(sheet)]
  BY <1>1 DEF CustomersInv, Reads
<1>3. writing[r].sheet = sheet /\ writing[r].plan = Customers!Plan(sheet)
  BY <1>2
<1> DEFINE plan == writing[r].plan
           ids == {u.id : u \in plan.updates}
           rowOf == [i \in ids |-> (CHOOSE u \in plan.updates : u.id = i).row]
           n == Len(plan.creates)
           new == made + 1 .. made + n
<1>4. /\ made + n <= MaxId /\ writing' = [writing EXCEPT ![r] = Idle]
      /\ IF ids \subseteq DOMAIN customer
         THEN /\ customer' = [i \in DOMAIN customer \cup new |->
                                  IF i \in new THEN plan.creates[i - made]
                                  ELSE IF i \in ids THEN Customers!Merged(customer[i], rowOf[i]) ELSE customer[i]]
              /\ made' = made + n /\ last' = writing[r].sheet
         ELSE UNCHANGED <<customer, made, last>>
  BY Zenon DEF Customers!ApplyImport
<1>5. TableOK
  BY DEF CustomersInv
<1>6. {u.id : u \in Customers!Plan(sheet).updates} \subseteq DOMAIN customer
  BY <1>5, ImportedIs DEF RowsAreIn
<1>7. ids \subseteq DOMAIN customer
  BY <1>3, <1>6
<1>8. customer' = Imported(plan.updates, plan.creates)
  BY <1>4, <1>7, Zenon DEF Imported
<1>9. r \in DOMAIN writing' /\ writing'[r] = Idle
  BY <1>4 DEF CustomersInv
<1> HIDE DEF plan, rowOf
<1>10. plan = Customers!Plan(sheet)
  BY <1>3 DEF plan
<1> QED
  BY <1>3, <1>4, <1>7, <1>8, <1>9, <1>10

LEMMA ApplyImportKeeps ==
    ASSUME CustomerSetup, NEW r, Request = {r}, CustomersInv(r), Customers!ApplyImport(r)
    PROVE  CustomersInv(r)'
<1>1. PICK sheet \in Customers!Sheets :
              /\ customer' = Imported(Customers!Plan(sheet).updates, Customers!Plan(sheet).creates)
              /\ made' = made + Len(Customers!Plan(sheet).creates) /\ made' <= MaxId
              /\ last' = sheet
              /\ r \in DOMAIN writing' /\ writing'[r] = Idle
  BY ApplyImportIs
<1>2. TableOK /\ Customers!UsernamesAreUnique
  BY DEF CustomersInv
<1>3. RowsAreIn(customer', sheet)
  BY <1>1, <1>2, ImportedIs
<1>4. Len(Customers!Plan(sheet).creates) \in Nat /\ made \in Nat /\ MaxId \in Nat /\ DOMAIN customer \subseteq 1 .. made
      /\ DOMAIN customer' = DOMAIN customer \cup (made + 1 .. made + Len(Customers!Plan(sheet).creates))
  BY <1>2, <1>3 DEF RowsAreIn, TableOK, CustomerSetup, NewIds
<1>5. made' \in Nat /\ made' \in 0 .. MaxId /\ DOMAIN customer' \subseteq 1 .. made'
  BY <1>1, <1>4
<1>6. \A i \in DOMAIN customer' : customer'[i] \in Customers!Customer
  BY <1>1, <1>2, UsernameComes
<1>7. \A i, j \in DOMAIN customer' : (customer'[i].username = customer'[j].username /\ i # j) => customer'[i].username = None
  <2> SUFFICES ASSUME NEW i \in DOMAIN customer', NEW j \in DOMAIN customer', customer'[i].username = customer'[j].username, i # j
               PROVE  customer'[i].username = None
    OBVIOUS
  <2> DEFINE c == customer'
  <2>1. /\ c = Imported(Customers!Plan(sheet).updates, Customers!Plan(sheet).creates)
        /\ i \in DOMAIN c /\ j \in DOMAIN c /\ c[i].username = c[j].username
    BY <1>1
  <2> HIDE DEF c
  <2>2. c[i].username = None
    BY <1>2, <2>1, ImportKeepsApart
  <2> QED
    BY <2>2 DEF c
<1>8. Customers!TypeOK' /\ TableOK' /\ Customers!UsernamesAreUnique'
  BY <1>1, <1>5, <1>6, <1>7 DEF Customers!TypeOK, TableOK, Customers!UsernamesAreUnique, Customers!Sheets, Customers!Customer
<1>9. ~Customers!SharesNumber(sheet) => Customers!Plan(sheet)' = Customers!Nothing
  BY <1>1, <1>2, <1>8, PlanAgain
<1>10. Customers!ReuploadChangesNothing'
  BY <1>1, <1>9 DEF Customers!ReuploadChangesNothing, Customers!SharesNumber, Customers!Nothing
<1> QED
  BY <1>1, <1>8, <1>10 DEF CustomersInv, Reads

LEMMA CustomersStep ==
    ASSUME CustomerSetup, NEW r, Request = {r}, CustomersInv(r), [Customers!Next]_(Customers!vars)
    PROVE  CustomersInv(r)'
<1>1. TableOK /\ Customers!UsernamesAreUnique /\ (\A i \in DOMAIN customer : i # None)
  BY DEF CustomersInv, TableOK, CustomerSetup
<1>2. CASE UNCHANGED Customers!vars
  <2>1. customer' = customer /\ made' = made /\ last' = last /\ writing' = writing
    BY <1>2 DEF Customers!vars
  <2>2. \A sheet : Customers!Plan(sheet)' = Customers!Plan(sheet)
    BY <2>1, PlanStays
  <2> QED
    BY <2>1, <2>2 DEF CustomersInv, Customers!TypeOK, TableOK, Customers!UsernamesAreUnique, Customers!Sheets, Customers!Customer,
        Reads, Customers!WithUsername, Customers!ReuploadChangesNothing, Customers!SharesNumber, Customers!Nothing
<1>3. ASSUME NEW c \in Form, Customers!CreateCustomer(r, c) PROVE CustomersInv(r)'
  BY <1>3, BeginsKeep DEF Customers!CreateCustomer, Reads
<1>4. ASSUME NEW i \in Customers!Id, NEW c \in Form, Customers!UpdateCustomer(r, i, c) PROVE CustomersInv(r)'
  <2> DEFINE w == [do |-> "update", id |-> i, set |-> c]
  <2>1. i \in DOMAIN customer /\ Customers!Begins(r, w)
    BY <1>4 DEF Customers!UpdateCustomer
  <2>2. c.username # None =>
          c.username = customer[i].username \/ \E j \in Customers!FindFirst(Customers!WithUsername(c.username)) : j \in {None, i}
    BY <1>4 DEF Customers!UpdateCustomer
  <2>3. c.username # None => Customers!WithUsername(c.username) = {} \/ i \in Customers!WithUsername(c.username)
    BY <1>1, <2>1, <2>2 DEF Customers!FindFirst, Customers!WithUsername
  <2>4. c.username # None => Customers!WithUsername(c.username) \subseteq {i}
    BY <1>1, <2>3 DEF Customers!WithUsername, Customers!UsernamesAreUnique
  <2>5. Reads(w)
    BY <2>1, <2>4 DEF Reads
  <2> QED
    BY <2>1, <2>5, BeginsKeep
<1>5. ASSUME NEW i \in Customers!Id, Customers!DeleteCustomer(r, i) PROVE CustomersInv(r)'
  BY <1>5, BeginsKeep DEF Customers!DeleteCustomer, Reads
<1>6. ASSUME NEW sheet \in Customers!Sheets, Customers!ImportCustomers(r, sheet) PROVE CustomersInv(r)'
  BY <1>6, BeginsKeep DEF Customers!ImportCustomers, Reads
<1>7. ASSUME Customers!Next PROVE CustomersInv(r)'
  BY <1>3, <1>4, <1>5, <1>6, <1>7, ApplyOneKeeps, ApplyImportKeeps DEF Customers!Next
<1> QED
  BY <1>2, <1>7

\* An import is the only step that names a sheet, and it erases nothing.
LEMMA ImportErases ==
    ASSUME CustomerSetup, NEW r, Request = {r}, CustomersInv(r), [Customers!Next]_(Customers!vars)
    PROVE  [last' \notin {<< >>, last} =>
              \A i \in DOMAIN customer :
                /\ i \in DOMAIN customer' /\ customer'[i].building = customer[i].building
                /\ customer[i].username # None => customer'[i].username = customer[i].username]_(Customers!vars)
<1> SUFFICES ASSUME Customers!Next, last' \notin {<< >>, last}
             PROVE  \A i \in DOMAIN customer :
                        /\ i \in DOMAIN customer' /\ customer'[i].building = customer[i].building
                        /\ customer[i].username # None => customer'[i].username = customer[i].username
  OBVIOUS
<1>1. Customers!ApplyImport(r)
  BY DEF Customers!Next, Customers!CreateCustomer, Customers!UpdateCustomer, Customers!DeleteCustomer, Customers!ImportCustomers,
      Customers!Begins, Customers!ApplyOne
<1>2. PICK sheet \in Customers!Sheets : customer' = Imported(Customers!Plan(sheet).updates, Customers!Plan(sheet).creates)
  BY <1>1, ApplyImportIs
<1>3. TableOK
  BY DEF CustomersInv
<1> QED
  BY <1>2, <1>3, UsernameComes

\* For any buildings, Usernames, numbers and sheets of any length, while requests
\* are taken one at a time: however forms and sheets alternate, no two customers
\* have one Username, a sheet without two rows for one number has nothing to
\* write when it is uploaded again, and an import loses nobody and changes no
\* building and no Username.
THEOREM CustomersStayKept ==
    ASSUME OneAtATime, CustomerSetup
    PROVE  Customers!Spec => /\ [](Customers!TypeOK /\ Customers!UsernamesAreUnique /\ Customers!ReuploadChangesNothing)
                             /\ Customers!ImportErasesNothing
<1>1. PICK r : Request = {r}
  BY DEF OneAtATime
<1>2. Customers!Init => CustomersInv(r)
  BY <1>1, CustomersFirst
<1>3. CustomersInv(r) /\ [Customers!Next]_(Customers!vars) => CustomersInv(r)'
  BY <1>1, CustomersStep
<1>4. CustomersInv(r) => Customers!TypeOK /\ Customers!UsernamesAreUnique /\ Customers!ReuploadChangesNothing
  BY DEF CustomersInv
<1>5. CustomersInv(r) /\ [Customers!Next]_(Customers!vars) =>
          [last' \notin {<< >>, last} =>
              \A i \in DOMAIN customer :
                /\ i \in DOMAIN customer' /\ customer'[i].building = customer[i].building
                /\ customer[i].username # None => customer'[i].username = customer[i].username]_(Customers!vars)
  BY <1>1, ImportErases
<1> QED
  BY <1>2, <1>3, <1>4, <1>5, PTL DEF Customers!Spec, Customers!ImportErasesNothing

-----------------------------------------------------------------------------
(* The wings of a building: its totals follow from them while requests     *)
(* about it are taken one at a time (a society's approval and markLive may *)
(* come between the two steps of one).  Overlapping requests judge a       *)
(* change by wings that are no longer there, and break it.                 *)
(*                                                                         *)
(* The invariant says what a request has seen: the wings as they are, and  *)
(* the count; and, unless the building is a society, its Live, for those   *)
(* are what the request compares with.  Between the two writes of a toggle *)
(* the building already has the Live its wings are yet to get.             *)

LEMMA WingsCardinality == \A S : Wings!Cardinality(S) = Cardinality(S)
BY Zenon DEF Wings!Cardinality, Wings!IsFiniteSet, Cardinality, IsFiniteSet

\* Wing rows are finitely many, counts are numbers, and null and a field that
\* is left out are not counts.
WingSizes ==
    /\ IsFiniteSet(WingId) /\ MaxCount \in Nat
    /\ None \notin Wings!Count /\ Keep \notin Wings!Count \cup {None} /\ Keep \notin BOOLEAN

\* Requests about the building are taken one at a time.
WorkersInTurn == \A v, w \in Worker : v = w

BuildingFields == {"count", "homePass", "live", "isSociety", "approved"}
WingAsks == {"wings", "edit", "society edit"}

BuildingOK ==
    /\ DOMAIN building = BuildingFields
    /\ building.count \in Wings!Count \cup {None}
    /\ building.live \in BOOLEAN /\ building.isSociety \in BOOLEAN

\* What request x has seen is still so.
WingSeenOK(x) ==
    /\ x.op \in WingAsks =>
        /\ x.wings = wings /\ x.building.count = building.count
        /\ ~building.isSociety => x.building.live = building.live
    /\ x.op = "society edit" => building.isSociety
    /\ x.op = "cascade" => x.live \in BOOLEAN /\ (~building.isSociety => x.live = building.live)

WingReqOK == DOMAIN wingReq = Worker /\ \A w \in Worker : WingSeenOK(wingReq[w])

WingsComplete == Wings!IsComplete(Wings!Placed(wings), building.count)
HomePassIsDerived == WingsComplete => building.homePass = Wings!DeriveTotals(wings).homePass
LiveFollows ==
    (WingsComplete /\ ~building.isSociety /\ \A w \in Worker : wingReq[w].op # "cascade") => Wings!LiveIsDerived

WingInv ==
    /\ BuildingOK /\ wings \in Wings!WingSet /\ WingReqOK
    /\ HomePassIsDerived /\ LiveFollows /\ Wings!PlacedWithinCount

-----------------------------------------------------------------------------
(* Wings and totals.                                                       *)

LEMMA PlacedIsNumber ==
    ASSUME WingSizes, NEW ws \in Wings!WingSet
    PROVE  Wings!Placed(ws) \in Nat /\ (Wings!Placed(ws) = 0 <=> DOMAIN ws = {})
<1>1. PICK T \in SUBSET WingId : ws \in [T -> Wings!Wing]
  BY DEF Wings!WingSet
<1>2. IsFiniteSet(DOMAIN ws)
  BY <1>1, FS_Subset DEF WingSizes
<1> QED
  BY <1>2, FS_EmptySet, FS_CardinalityType, WingsCardinality DEF Wings!Placed

LEMMA CountIsNumber ==
    ASSUME WingSizes, NEW n \in Wings!Count
    PROVE  n \in Nat /\ n > 0 /\ n # None /\ n # Keep
BY DEF WingSizes, Wings!Count

LEMMA EmptyIsNoSet == WingSizes => << >> \in Wings!WingSet /\ DOMAIN << >> = {}
<1> SUFFICES ASSUME WingSizes PROVE << >> \in Wings!WingSet /\ DOMAIN << >> = {}
  OBVIOUS
<1>1. << >> \in [{} -> Wings!Wing] /\ DOMAIN << >> = {}
  OBVIOUS
<1>2. Cardinality({}) <= MaxCount
  BY FS_EmptySet DEF WingSizes
<1> QED
  BY <1>1, <1>2, WingsCardinality DEF Wings!WingSet

LEMMA TotalsAre ==
    ASSUME NEW ws
    PROVE  /\ Wings!DeriveTotals(ws).live = (\E i \in DOMAIN ws : ws[i].live)
           /\ Wings!DeriveTotals(ws).homePass = Wings!SumFunction([i \in DOMAIN ws |-> ws[i].homePass])
BY DEF Wings!DeriveTotals

\* A cascade changes no home pass, and makes every wing's Live the same.
LEMMA CascadeKeepsTotals ==
    ASSUME WingSizes, NEW ws \in Wings!WingSet, NEW live \in BOOLEAN, NEW ws2,
           ws2 = [i \in DOMAIN ws |-> [ws[i] EXCEPT !.live = live]]
    PROVE  /\ ws2 \in Wings!WingSet /\ DOMAIN ws2 = DOMAIN ws
           /\ Wings!DeriveTotals(ws2).homePass = Wings!DeriveTotals(ws).homePass
           /\ \A i \in DOMAIN ws : ws2[i].live = live
<1>1. PICK T \in {S \in SUBSET WingId : Cardinality(S) <= MaxCount} : ws \in [T -> Wings!Wing]
  BY WingsCardinality DEF Wings!WingSet
<1>2. /\ DOMAIN ws = T /\ DOMAIN ws2 = T
      /\ \A i \in T : ws[i] \in Wings!Wing /\ ws2[i] = [ws[i] EXCEPT !.live = live]
  BY <1>1
<1>3. \A i \in T : ws2[i] \in Wings!Wing /\ ws2[i].homePass = ws[i].homePass /\ ws2[i].live = live
  BY <1>2 DEF Wings!Wing
<1>4. ws2 \in [T -> Wings!Wing]
  BY <1>2, <1>3
<1>5. [i \in DOMAIN ws2 |-> ws2[i].homePass] = [i \in DOMAIN ws |-> ws[i].homePass]
  BY <1>2, <1>3
<1>6. Wings!DeriveTotals(ws2).homePass = Wings!DeriveTotals(ws).homePass
  <2> DEFINE passes(f) == [i \in DOMAIN f |-> f[i].homePass]
  <2>1. /\ Wings!DeriveTotals(ws2).homePass = Wings!SumFunction(passes(ws2))
        /\ Wings!DeriveTotals(ws).homePass = Wings!SumFunction(passes(ws))
    BY DEF Wings!DeriveTotals
  <2>2. passes(ws2) = passes(ws)
    BY <1>5
  <2> HIDE DEF passes
  <2> QED
    BY <2>1, <2>2
<1> QED
  BY <1>1, <1>2, <1>3, <1>4, <1>6 DEF Wings!WingSet

LEMMA GivenCount ==
    ASSUME WingSizes, NEW n \in Wings!Count \cup {None, Keep}, NEW old \in Wings!Count \cup {None}
    PROVE  Wings!Given(n, old) \in Wings!Count \cup {None}
BY DEF Wings!Given

-----------------------------------------------------------------------------
(* Each step keeps the invariant.                                          *)

LEMMA WingsFirst == WingSizes /\ Wings!Init => WingInv
<1> SUFFICES ASSUME WingSizes, Wings!Init PROVE WingInv
  OBVIOUS
<1>1. BuildingOK
  BY DEF Wings!Init, BuildingOK, Wings!BuildingRow, BuildingFields
<1>2. wings \in Wings!WingSet /\ DOMAIN wings = {}
  BY EmptyIsNoSet DEF Wings!Init
<1>3. WingReqOK
  BY DEF Wings!Init, WingReqOK, WingSeenOK, Wings!Idle, WingAsks
<1>4. Wings!Placed(wings) = 0
  BY <1>2, PlacedIsNumber
<1>5. ~WingsComplete
  BY <1>1, <1>4, CountIsNumber DEF WingsComplete, Wings!IsComplete, BuildingOK
<1> QED
  BY <1>1, <1>2, <1>3, <1>5 DEF WingInv, HomePassIsDerived, LiveFollows, Wings!PlacedWithinCount

LEMMA ReadStep ==
    ASSUME WingInv, NEW w \in Worker, NEW op \in WingAsks, Wings!Read(w, op)
    PROVE  WingInv'
<1>1. UNCHANGED <<building, wings>>
  BY DEF Wings!Read
<1>2. WingReqOK'
  <2>1. DOMAIN wingReq' = Worker /\ \A v \in Worker : v # w => wingReq'[v] = wingReq[v]
    BY DEF Wings!Read, WingInv, WingReqOK
  <2>2. /\ wingReq'[w].op = op /\ wingReq'[w].building = building /\ wingReq'[w].wings = wings
    BY DEF Wings!Read, WingInv, WingReqOK
  <2>3. op = "society edit" => building.isSociety
    BY DEF Wings!Read
  <2>4. WingSeenOK(wingReq[w])'
    BY <1>1, <2>2, <2>3 DEF WingSeenOK, WingAsks
  <2>5. ASSUME NEW v \in Worker, v # w PROVE WingSeenOK(wingReq[v])'
    BY <1>1, <2>1, <2>5 DEF WingInv, WingReqOK, WingSeenOK
  <2> QED
    BY <2>1, <2>4, <2>5 DEF WingReqOK
<1>3. LiveFollows'
  <2>1. wingReq[w].op # "cascade"
    <3>1. wingReq[w] = Wings!Idle
      BY DEF Wings!Read
    <3>2. Wings!Idle.op # "cascade"
      BY DEF Wings!Idle
    <3> QED
      BY <3>1, <3>2
  <2>2. \A v \in Worker : v # w => wingReq'[v] = wingReq[v]
    BY DEF Wings!Read, WingInv, WingReqOK
  <2> QED
    BY <1>1, <2>1, <2>2 DEF WingInv, LiveFollows, WingsComplete, Wings!IsComplete, Wings!LiveIsDerived, Wings!Placed
<1> QED
  BY <1>1, <1>2, <1>3 DEF WingInv, BuildingOK, HomePassIsDerived, WingsComplete, Wings!IsComplete, Wings!Placed, Wings!PlacedWithinCount

\* The only request is done.
LEMMA NobodyAsks ==
    ASSUME WorkersInTurn, WingInv, NEW w \in Worker, Wings!Finish(w)
    PROVE  /\ WingReqOK' /\ \A v \in Worker : wingReq'[v].op # "cascade"
<1>1. DOMAIN wingReq' = Worker /\ wingReq'[w] = Wings!Idle
  BY DEF Wings!Finish, WingInv, WingReqOK
<1>2. \A v \in Worker : wingReq'[v].op = "idle"
  BY <1>1 DEF WorkersInTurn, Wings!Idle
<1> QED
  BY <1>1, <1>2 DEF WingReqOK, WingSeenOK, WingAsks

LEMMA RefuseStep ==
    ASSUME WorkersInTurn, WingInv, NEW w \in Worker, Wings!Refuse(w)
    PROVE  WingInv'
<1>1. UNCHANGED <<building, wings>> /\ Wings!Finish(w) /\ wingReq[w].op \in WingAsks
  BY DEF Wings!Refuse, WingAsks
<1>2. \A v \in Worker : wingReq[v].op # "cascade"
  BY <1>1 DEF WorkersInTurn, WingAsks
<1> QED
  BY <1>1, <1>2, NobodyAsks
  DEF WingInv, BuildingOK, HomePassIsDerived, LiveFollows, WingsComplete, Wings!IsComplete, Wings!LiveIsDerived, Wings!Placed, Wings!PlacedWithinCount

LEMMA ReplaceWingsStep ==
    ASSUME WingSizes, WorkersInTurn, WingInv, NEW w \in Worker, NEW new \in Wings!WingSet, NEW newCount \in Wings!Count \cup {Keep},
           Wings!ReplaceWings(w, new, newCount)
    PROVE  WingInv'
<1> DEFINE count == Wings!Given(newCount, building.count)
<1>1. /\ Wings!Finish(w) /\ wings' = new /\ wingReq[w].building.count = building.count
      /\ ~Wings!WingSetErrors(new, count)
  BY DEF Wings!ReplaceWings, Wings!Serves, WingAsks, WingInv, WingReqOK, WingSeenOK
<1>2. building' = [building EXCEPT
              !.count = count,
              !.homePass = IF Wings!IsComplete(Wings!Placed(new), count) THEN Wings!DeriveTotals(new).homePass ELSE @,
              !.live = IF Wings!IsComplete(Wings!Placed(new), count) THEN Wings!DeriveTotals(new).live ELSE @]
  BY <1>1 DEF Wings!ReplaceWings
<1>3. building.count \in Wings!Count \cup {None} /\ count \in Wings!Count \cup {None}
  BY GivenCount DEF WingInv, BuildingOK
<1>4. Wings!DeriveTotals(new).live \in BOOLEAN
  BY TotalsAre
<1> HIDE DEF count
<1>5. /\ DOMAIN building' = BuildingFields /\ building'.count = count /\ building'.isSociety = building.isSociety
      /\ building'.homePass = IF Wings!IsComplete(Wings!Placed(new), count) THEN Wings!DeriveTotals(new).homePass ELSE building.homePass
      /\ building'.live = IF Wings!IsComplete(Wings!Placed(new), count) THEN Wings!DeriveTotals(new).live ELSE building.live
  BY <1>2 DEF WingInv, BuildingOK, BuildingFields
<1>6. BuildingOK'
  BY <1>3, <1>4, <1>5 DEF WingInv, BuildingOK
<1>7. HomePassIsDerived' /\ LiveFollows'
  BY <1>1, <1>5, TotalsAre DEF HomePassIsDerived, LiveFollows, Wings!LiveIsDerived, WingsComplete, Wings!IsComplete, Wings!Placed
<1>8. Wings!PlacedWithinCount'
  <2>1. DOMAIN new # {} => count # None /\ ~(Wings!Placed(new) > count)
    BY <1>1 DEF Wings!WingSetErrors
  <2>2. count # None => count \in Nat
    BY <1>3, CountIsNumber
  <2>3. Wings!Placed(wings') \in Nat
    BY <1>1, PlacedIsNumber
  <2> QED
    BY <1>1, <1>5, <2>1, <2>2, <2>3 DEF Wings!PlacedWithinCount, Wings!Placed
<1> QED
  BY <1>1, <1>6, <1>7, <1>8, NobodyAsks DEF WingInv

\* A count that is not below the wings placed keeps them within it.
LEMMA NotBelowPlaced ==
    ASSUME WingSizes, BuildingOK, wings \in Wings!WingSet, Wings!PlacedWithinCount, NEW n \in Wings!Count \cup {None, Keep},
           ~Wings!BelowPlaced(n, Wings!Placed(wings)), DOMAIN wings # {}
    PROVE  Wings!Given(n, building.count) # None /\ Wings!Placed(wings) <= Wings!Given(n, building.count)
<1>1. Wings!Placed(wings) \in Nat /\ Wings!Placed(wings) # 0
  BY PlacedIsNumber
<1>2. CASE n = Keep
  BY <1>2 DEF Wings!Given, Wings!PlacedWithinCount
<1>3. CASE n = None /\ n # Keep
  BY <1>1, <1>3 DEF Wings!BelowPlaced
<1>4. CASE n \in Wings!Count
  <2>1. n \in Nat /\ n # None /\ n # Keep
    BY <1>4, CountIsNumber
  <2> QED
    BY <1>1, <2>1 DEF Wings!Given, Wings!BelowPlaced
<1> QED
  BY <1>2, <1>3, <1>4

LEMMA UpdateBuildingStep ==
    ASSUME WingSizes, WorkersInTurn, WingInv, NEW w \in Worker, NEW newCount \in Wings!Count \cup {None, Keep},
           NEW homePass, NEW live \in BOOLEAN \cup {Keep}, Wings!UpdateBuilding(w, newCount, homePass, live)
    PROVE  WingInv'
<1> DEFINE count == Wings!Given(newCount, building.count)
           complete == Wings!IsComplete(Wings!Placed(wings), count)
           totals == Wings!DeriveTotals(wings)
<1>1. /\ Wings!Finish(w) /\ UNCHANGED wings /\ wingReq[w].building.count = building.count /\ wingReq[w].wings = wings
      /\ ~building.isSociety => wingReq[w].building.live = building.live
      /\ ~Wings!BelowPlaced(newCount, Wings!Placed(wings))
  BY DEF Wings!UpdateBuilding, Wings!Serves, WingAsks, WingInv, WingReqOK, WingSeenOK
<1>2. building' = [building EXCEPT
              !.count = count,
              !.homePass = IF complete THEN totals.homePass ELSE Wings!Given(homePass, @),
              !.live = CASE ~complete -> Wings!Given(live, @)
                         [] complete /\ (building.isSociety \/ wingReq[w].building.live # totals.live) -> totals.live
                         [] OTHER -> @]
  BY <1>1 DEF Wings!UpdateBuilding
<1>3. building.count \in Wings!Count \cup {None} /\ count \in Wings!Count \cup {None}
  BY GivenCount DEF WingInv, BuildingOK
<1>4. totals.live \in BOOLEAN /\ Wings!Given(live, building.live) \in BOOLEAN /\ complete \in BOOLEAN
  BY TotalsAre DEF WingInv, BuildingOK, Wings!Given, Wings!IsComplete
<1> HIDE DEF count, complete, totals
<1>5. /\ DOMAIN building' = BuildingFields /\ building'.count = count /\ building'.isSociety = building.isSociety
      /\ complete => building'.homePass = totals.homePass
  BY <1>2 DEF WingInv, BuildingOK, BuildingFields
<1>6. /\ ~complete => building'.live = Wings!Given(live, building.live)
      /\ complete /\ (building.isSociety \/ wingReq[w].building.live # totals.live) => building'.live = totals.live
      /\ complete /\ ~(building.isSociety \/ wingReq[w].building.live # totals.live) => building'.live = building.live
  BY <1>2, <1>4 DEF WingInv, BuildingOK, BuildingFields
<1>7. building'.live \in BOOLEAN /\ (complete /\ ~building.isSociety => building'.live = totals.live)
  BY <1>1, <1>4, <1>6 DEF WingInv, BuildingOK
<1>8. BuildingOK'
  BY <1>3, <1>5, <1>7 DEF WingInv, BuildingOK
<1>9. complete = WingsComplete'
  BY <1>1, <1>5 DEF complete, WingsComplete, Wings!Placed
<1>10. HomePassIsDerived' /\ LiveFollows'
  BY <1>1, <1>5, <1>7, <1>9, TotalsAre DEF HomePassIsDerived, LiveFollows, Wings!LiveIsDerived, totals
<1>11. Wings!PlacedWithinCount'
  BY <1>1, <1>5, NotBelowPlaced DEF WingInv, Wings!PlacedWithinCount, Wings!Placed, count
<1> QED
  BY <1>1, <1>8, <1>10, <1>11, NobodyAsks DEF WingInv

LEMMA UpdateSocietyStep ==
    ASSUME WingSizes, WorkersInTurn, WingInv, NEW w \in Worker, NEW newCount \in Wings!Count \cup {None, Keep},
           NEW homePass, Wings!UpdateSociety(w, newCount, homePass)
    PROVE  WingInv'
<1> DEFINE count == Wings!Given(newCount, building.count)
           complete == Wings!IsComplete(Wings!Placed(wings), count)
<1>1. /\ Wings!Finish(w) /\ UNCHANGED wings /\ wingReq[w].building.count = building.count /\ wingReq[w].wings = wings
      /\ building.isSociety /\ ~Wings!BelowPlaced(newCount, Wings!Placed(wings))
  BY DEF Wings!UpdateSociety, Wings!Serves, WingAsks, WingInv, WingReqOK, WingSeenOK
<1>2. building' = [building EXCEPT
              !.count = count,
              !.homePass = IF complete THEN Wings!DeriveTotals(wings).homePass ELSE Wings!Given(homePass, @)]
  BY <1>1 DEF Wings!UpdateSociety
<1>3. building.count \in Wings!Count \cup {None} /\ count \in Wings!Count \cup {None}
  BY GivenCount DEF WingInv, BuildingOK
<1> HIDE DEF count, complete
<1>4. /\ DOMAIN building' = BuildingFields /\ building'.count = count /\ building'.isSociety = building.isSociety
      /\ building'.live = building.live
      /\ complete => building'.homePass = Wings!DeriveTotals(wings).homePass
  BY <1>2 DEF WingInv, BuildingOK, BuildingFields
<1>5. BuildingOK'
  BY <1>3, <1>4 DEF WingInv, BuildingOK
<1>6. complete = WingsComplete'
  BY <1>1, <1>4 DEF complete, WingsComplete, Wings!Placed
<1>7. HomePassIsDerived' /\ LiveFollows'
  BY <1>1, <1>4, <1>6 DEF HomePassIsDerived, LiveFollows
<1>8. Wings!PlacedWithinCount'
  BY <1>1, <1>4, NotBelowPlaced DEF WingInv, Wings!PlacedWithinCount, Wings!Placed, count
<1> QED
  BY <1>1, <1>5, <1>7, <1>8, NobodyAsks DEF WingInv

LEMMA SetLiveStep ==
    ASSUME WorkersInTurn, WingInv, NEW w \in Worker, NEW live \in BOOLEAN, Wings!SetLive(w, live)
    PROVE  WingInv'
<1>1. /\ UNCHANGED wings /\ DOMAIN building' = BuildingFields /\ building'.live = live
      /\ building'.count = building.count /\ building'.isSociety = building.isSociety
      /\ building'.homePass = building.homePass
  BY DEF Wings!SetLive, WingInv, BuildingOK, BuildingFields
<1>2. DOMAIN wingReq' = Worker /\ wingReq'[w].op = "cascade" /\ wingReq'[w].live = live
  BY DEF Wings!SetLive, WingInv, WingReqOK
<1>3. WingReqOK'
  BY <1>1, <1>2 DEF WingReqOK, WingSeenOK, WorkersInTurn, WingAsks
<1>4. BuildingOK'
  BY <1>1 DEF WingInv, BuildingOK
<1>5. WingsComplete' = WingsComplete
  BY <1>1 DEF WingsComplete, Wings!Placed
<1> QED
  BY <1>1, <1>2, <1>3, <1>4, <1>5 DEF WingInv, HomePassIsDerived, LiveFollows, Wings!PlacedWithinCount, Wings!Placed

LEMMA SetWingsLiveStep ==
    ASSUME WingSizes, WorkersInTurn, WingInv, NEW w \in Worker, Wings!SetWingsLive(w)
    PROVE  WingInv'
<1>1. UNCHANGED building /\ Wings!Finish(w)
  BY DEF Wings!SetWingsLive
<1>2. wingReq[w].live \in BOOLEAN /\ (~building.isSociety => wingReq[w].live = building.live)
  BY DEF Wings!SetWingsLive, Wings!Serves, WingInv, WingReqOK, WingSeenOK
<1>3. CASE ~WingsComplete
  <2>1. UNCHANGED wings
    BY <1>3 DEF Wings!SetWingsLive, WingsComplete
  <2> QED
    BY <1>1, <1>3, <2>1, NobodyAsks
    DEF WingInv, BuildingOK, HomePassIsDerived, LiveFollows, WingsComplete, Wings!IsComplete, Wings!Placed, Wings!PlacedWithinCount
<1>4. CASE WingsComplete
  <2> DEFINE live == wingReq[w].live
  <2>1. wings' = [i \in DOMAIN wings |-> [wings[i] EXCEPT !.live = live]]
    BY <1>4 DEF Wings!SetWingsLive, WingsComplete
  <2>2. /\ wings' \in Wings!WingSet /\ DOMAIN wings' = DOMAIN wings
        /\ Wings!DeriveTotals(wings').homePass = Wings!DeriveTotals(wings).homePass
        /\ \A i \in DOMAIN wings : wings'[i].live = live
    BY <1>2, <2>1, CascadeKeepsTotals DEF WingInv
  <2> HIDE DEF live
  <2>3. WingsComplete' /\ \E i \in DOMAIN wings : TRUE
    <3>1. Wings!Placed(wings') = Wings!Placed(wings)
      BY <2>2 DEF Wings!Placed
    <3>2. Wings!Placed(wings) # 0
      BY <1>4, CountIsNumber DEF WingsComplete, Wings!IsComplete, WingInv, BuildingOK
    <3> QED
      BY <1>1, <1>4, <3>1, <3>2, PlacedIsNumber DEF WingsComplete, Wings!IsComplete, WingInv
  <2>4. ~building.isSociety => Wings!LiveIsDerived'
    BY <1>1, <1>2, <2>2, <2>3 DEF Wings!LiveIsDerived, live
  <2>5. HomePassIsDerived' /\ LiveFollows'
    BY <1>1, <1>4, <2>2, <2>4 DEF WingInv, HomePassIsDerived, LiveFollows
  <2>6. Wings!PlacedWithinCount'
    BY <1>1, <2>2 DEF WingInv, Wings!PlacedWithinCount, Wings!Placed
  <2> QED
    BY <1>1, <2>2, <2>5, <2>6, NobodyAsks DEF WingInv, BuildingOK
<1> QED
  BY <1>3, <1>4

\* A society's approval and its markLive.
LEMMA SocietyStep ==
    ASSUME WingInv, Wings!Approve \/ Wings!MarkLive
    PROVE  WingInv'
<1>1. /\ UNCHANGED <<wings, wingReq>> /\ building.isSociety /\ DOMAIN building' = BuildingFields
      /\ building'.count = building.count /\ building'.isSociety = building.isSociety
      /\ building'.homePass = building.homePass /\ building'.live \in BOOLEAN
  BY DEF Wings!Approve, Wings!MarkLive, WingInv, BuildingOK, BuildingFields
<1>2. BuildingOK'
  BY <1>1 DEF WingInv, BuildingOK
<1>3. WingReqOK'
  BY <1>1 DEF WingInv, WingReqOK, WingSeenOK
<1>4. WingsComplete' = WingsComplete
  BY <1>1 DEF WingsComplete, Wings!Placed
<1> QED
  BY <1>1, <1>2, <1>3, <1>4 DEF WingInv, HomePassIsDerived, LiveFollows, Wings!PlacedWithinCount, Wings!Placed
LEMMA WingsStep == WingSizes /\ WorkersInTurn /\ WingInv /\ [Wings!Next]_Wings!vars => WingInv'
<1> SUFFICES ASSUME WingSizes, WorkersInTurn, WingInv, [Wings!Next]_Wings!vars PROVE WingInv'
  OBVIOUS
<1>1. ASSUME NEW w \in Worker, NEW op \in {"wings", "edit", "society edit"}, Wings!Read(w, op) PROVE WingInv'
  BY <1>1, ReadStep DEF WingAsks
<1>2. ASSUME NEW w \in Worker, NEW new \in Wings!WingSet, NEW newCount \in Wings!Count \cup {Keep},
             Wings!ReplaceWings(w, new, newCount)
      PROVE  WingInv'
  BY <1>2, ReplaceWingsStep
<1>3. ASSUME NEW w \in Worker, NEW newCount \in Wings!Count \cup {None, Keep},
             NEW homePass \in Wings!Pass \cup {None, Keep}, NEW live \in BOOLEAN \cup {Keep},
             Wings!UpdateBuilding(w, newCount, homePass, live)
      PROVE  WingInv'
  BY <1>3, UpdateBuildingStep
<1>4. ASSUME NEW w \in Worker, NEW newCount \in Wings!Count \cup {None, Keep},
             NEW homePass \in Wings!Pass \cup {None, Keep}, Wings!UpdateSociety(w, newCount, homePass)
      PROVE  WingInv'
  BY <1>4, UpdateSocietyStep
<1>5. ASSUME NEW w \in Worker, NEW live \in BOOLEAN, Wings!SetLive(w, live) PROVE WingInv'
  BY <1>5, SetLiveStep
<1>6. ASSUME NEW w \in Worker, Wings!SetWingsLive(w) \/ Wings!Refuse(w) PROVE WingInv'
  BY <1>6, SetWingsLiveStep, RefuseStep
<1>7. CASE Wings!Approve \/ Wings!MarkLive
  BY <1>7, SocietyStep
<1>8. CASE UNCHANGED Wings!vars
  BY <1>8
  DEF Wings!vars, WingInv, BuildingOK, WingReqOK, WingSeenOK, HomePassIsDerived, LiveFollows, Wings!LiveIsDerived, WingsComplete,
      Wings!IsComplete, Wings!Placed, Wings!PlacedWithinCount
<1> QED
  BY <1>1, <1>2, <1>3, <1>4, <1>5, <1>6, <1>7, <1>8 DEF Wings!Next

-----------------------------------------------------------------------------
(* The theorems.                                                           *)

\* While requests are taken one at a time, a building whose wings are all
\* placed has their home pass and, unless it is a society, their Live.
THEOREM TotalsFollowWings ==
    ASSUME WingSizes, WorkersInTurn
    PROVE  Wings!Spec => []Wings!TotalsAreDerived
<1>1. Wings!Init => WingInv
  BY WingsFirst
<1>2. WingInv /\ [Wings!Next]_Wings!vars => WingInv'
  BY WingsStep
<1>3. WingInv => Wings!TotalsAreDerived
  BY DEF WingInv, HomePassIsDerived, LiveFollows, WingsComplete, Wings!TotalsAreDerived, Wings!AllPlaced
<1> QED
  BY <1>1, <1>2, <1>3, PTL DEF Wings!Spec

\* Nor are more wings placed than the building has, whatever edits of its
\* count come between.
THEOREM WingsStayWithinCount ==
    ASSUME WingSizes, WorkersInTurn
    PROVE  Wings!Spec => []Wings!PlacedWithinCount
<1>1. Wings!Init => WingInv
  BY WingsFirst
<1>2. WingInv /\ [Wings!Next]_Wings!vars => WingInv'
  BY WingsStep
<1>3. WingInv => Wings!PlacedWithinCount
  BY DEF WingInv
<1> QED
  BY <1>1, <1>2, <1>3, PTL DEF Wings!Spec

-----------------------------------------------------------------------------
(* The types of the wings, however requests overlap.  The home pass of a   *)
(* building is a sum over its wings, which SumFunction takes in the order  *)
(* of CHOOSE.                                                              *)

\* f over s, if what it is over smaller sets is g.
SumStep(f, g, s) == IF s = {} THEN 0 ELSE f[CHOOSE x \in s : TRUE] + g[s \ {CHOOSE x \in s : TRUE}]
IsSum(f, g, D) == g = [s \in D |-> SumStep(f, g, s)]

LEMMA SumUnfolds ==
    ASSUME NEW f, NEW S
    PROVE  LET g == CHOOSE h : IsSum(f, h, SUBSET S) IN  S = DOMAIN f => Wings!SumFunction(f) = g[S]
BY Zenon DEF Wings!SumFunction, Wings!SumFunctionOnSet, Wings!FoldFunctionOnSet, Wings!MapThenFoldSet, IsSum, SumStep

\* A fold over the subsets of a finite set exists: up to any size of subset.
LEMMA SumExists ==
    ASSUME NEW f, NEW S, IsFiniteSet(S)
    PROVE  \E g : IsSum(f, g, SUBSET S)
<1> DEFINE UpTo(m) == {s \in SUBSET S : Cardinality(s) <= m}
           Bad == {m \in Nat : ~ \E g : IsSum(f, g, UpTo(m))}
<1>1. \A s \in SUBSET S : IsFiniteSet(s) /\ Cardinality(s) \in Nat /\ Cardinality(s) <= Cardinality(S)
  BY FS_Subset, FS_CardinalityType
<1>2. \A s \in SUBSET S : s # {} => /\ (CHOOSE x \in s : TRUE) \in s
                                    /\ s \ {CHOOSE x \in s : TRUE} \in SUBSET S
                                    /\ Cardinality(s \ {CHOOSE x \in s : TRUE}) = Cardinality(s) - 1
  BY <1>1, FS_RemoveElement
<1>3. Bad = {}
  <2> SUFFICES ASSUME Bad # {} PROVE FALSE
    OBVIOUS
  <2>1. PICK m \in Bad : \A k \in Bad : m <= k
    <3>1. Bad \in SUBSET Nat
      OBVIOUS
    <3> HIDE DEF Bad
    <3> QED
      BY <3>1, LeastOf
  <2>2. m \in Nat /\ ~ \E g : IsSum(f, g, UpTo(m))
    BY <2>1
  <2>3. CASE m = 0
    <3> DEFINE g == [s \in UpTo(0) |-> 0]
    <3>1. \A s \in UpTo(0) : s = {}
      <4>1. \A s \in UpTo(0) : IsFiniteSet(s) /\ Cardinality(s) = 0
        BY <1>1
      <4> QED
        BY <4>1, FS_EmptySet, Zenon
    <3>2. \A s \in UpTo(0) : g[s] = SumStep(f, g, s)
      BY <3>1, Zenon DEF SumStep
    <3>3. g = [s \in UpTo(0) |-> g[s]]
      OBVIOUS
    <3> HIDE DEF g, UpTo
    <3>4. IsSum(f, g, UpTo(0))
      BY <3>2, <3>3 DEF IsSum
    <3> QED
      BY <3>4, <2>2, <2>3
  <2>4. CASE m # 0
    <3>1. m - 1 \in Nat /\ ~ (m <= m - 1)
      BY <2>2, <2>4
    <3>2. PICK g : IsSum(f, g, UpTo(m - 1))
      <4>1. m - 1 \notin Bad
        BY <2>1, <3>1
      <4> QED
        BY <4>1, <3>1
    <3> DEFINE h == [s \in UpTo(m) |-> SumStep(f, g, s)]
    <3>3. \A s \in UpTo(m - 1) : s \in UpTo(m) /\ g[s] = SumStep(f, g, s)
      <4>1. \A s \in UpTo(m - 1) : s \in UpTo(m)
        BY <1>1, <2>2
      <4> HIDE DEF UpTo
      <4> QED
        BY <4>1, <3>2 DEF IsSum
    <3>4. \A s \in UpTo(m) : s # {} => s \ {CHOOSE x \in s : TRUE} \in UpTo(m - 1)
      BY <1>1, <1>2, <2>2
    <3>5. \A s \in UpTo(m) : h[s] = SumStep(f, h, s)
      <4> HIDE DEF UpTo
      <4>1. \A s \in UpTo(m - 1) : h[s] = g[s]
        BY <3>3
      <4> QED
        BY <3>4, <4>1, <3>3 DEF SumStep
    <3>6. h = [s \in UpTo(m) |-> h[s]]
      OBVIOUS
    <3> HIDE DEF h, UpTo
    <3>7. IsSum(f, h, UpTo(m))
      BY <3>5, <3>6 DEF IsSum
    <3> QED
      BY <3>7, <2>2
  <2> QED
    BY <2>3, <2>4
<1>4. UpTo(Cardinality(S)) = SUBSET S
  BY <1>1
<1>5. Cardinality(S) \in Nat
  BY FS_CardinalityType
<1> HIDE DEF UpTo
<1>6. \E g : IsSum(f, g, UpTo(Cardinality(S)))
  <2>1. Cardinality(S) \notin Bad
    BY <1>3
  <2> QED
    BY <2>1, <1>5
<1> QED
  BY <1>6, <1>4

\* One such fold, chosen for each set.
Fold(f, S) == CHOOSE g : IsSum(f, g, SUBSET S)

LEMMA FoldIs ==
    ASSUME NEW f, NEW S, IsFiniteSet(S)
    PROVE  \A s \in SUBSET S : Fold(f, S)[s] = SumStep(f, Fold(f, S), s)
<1>1. IsSum(f, Fold(f, S), SUBSET S)
  BY SumExists, Zenon DEF Fold
<1> HIDE DEF Fold
<1> QED
  BY <1>1 DEF IsSum

\* Among subsets of a finite set there is one that loses its place with any element.
LEMMA SmallestSet ==
    ASSUME NEW T, IsFiniteSet(T), NEW Bad \in SUBSET SUBSET T, Bad # {}
    PROVE  \E S \in Bad : \A x \in S : S \ {x} \in SUBSET T /\ S \ {x} \notin Bad
<1> DEFINE Sizes == {Cardinality(S) : S \in Bad}
<1>1. \A S \in Bad : IsFiniteSet(S) /\ Cardinality(S) \in Nat
  BY FS_Subset, FS_CardinalityType
<1>2. PICK n \in Sizes : \A k \in Sizes : n <= k
  <2>1. Sizes \in SUBSET Nat /\ Sizes # {}
    BY <1>1
  <2> HIDE DEF Sizes
  <2> QED
    BY <2>1, LeastOf
<1>3. PICK S \in Bad : Cardinality(S) = n
  BY <1>2
<1>4. ASSUME NEW x \in S PROVE S \ {x} \in SUBSET T /\ S \ {x} \notin Bad
  <2>1. IsFiniteSet(S) /\ Cardinality(S) \in Nat
    BY <1>1
  <2>2. Cardinality(S \ {x}) = n - 1
    BY <1>3, <2>1, FS_RemoveElement
  <2>3. ~ (n <= n - 1)
    BY <1>3, <2>1
  <2> QED
    BY <1>2, <2>2, <2>3
<1> QED
  BY <1>3, <1>4


\* A sum of numbers up to m is at most as many times m.
LEMMA Multiples ==
    ASSUME NEW m \in Nat, NEW n \in Nat
    PROVE  /\ n * m \in Nat /\ n # 0 => n * m = m + (n - 1) * m
           /\ \A k \in Nat : n <= k => n * m <= k * m
<1>1. n * m \in Nat /\ n * m = m + (n - 1) * m
  BY Z3
<1>2. ASSUME NEW k \in Nat, n <= k PROVE n * m <= k * m
  BY <1>2, Z3
<1> QED
  BY <1>1, <1>2

LEMMA SumIsBounded ==
    ASSUME NEW f, IsFiniteSet(DOMAIN f), NEW m \in Nat, \A x \in DOMAIN f : f[x] \in 0 .. m
    PROVE  Wings!SumFunction(f) \in 0 .. Cardinality(DOMAIN f) * m
<1> DEFINE T == DOMAIN f
           g == Fold(f, T)
           Bad == {s \in SUBSET T : g[s] \notin 0 .. Cardinality(s) * m}
<1>1. \A s \in SUBSET T : g[s] = SumStep(f, g, s)
  BY FoldIs
<1>2. ASSUME Bad # {} PROVE FALSE
  <2>1. PICK s \in Bad : \A x \in s : s \ {x} \in SUBSET T /\ s \ {x} \notin Bad
    <3>1. Bad \in SUBSET SUBSET T
      OBVIOUS
    <3> HIDE DEF Bad
    <3> QED
      BY <3>1, <1>2, SmallestSet
  <2>2. s \in SUBSET T /\ g[s] \notin 0 .. Cardinality(s) * m /\ IsFiniteSet(s) /\ Cardinality(s) \in Nat
    BY <2>1, FS_Subset, FS_CardinalityType
  <2>3. s # {}
    <3>1. g[{}] = 0
      BY <1>1, Zenon DEF SumStep
    <3>2. Cardinality({}) * m \in Nat
      BY FS_EmptySet, Multiples
    <3>3. 0 \in 0 .. Cardinality({}) * m
      BY <3>2
    <3> HIDE DEF g
    <3> QED
      BY <2>2, <3>1, <3>3
  <2> DEFINE x == CHOOSE y \in s : TRUE
             t == s \ {x}
  <2>4. x \in s
    BY <2>3
  <2>5. g[s] = f[x] + g[t]
    BY <1>1, <2>2, <2>3, Zenon DEF SumStep
  <2>6. Cardinality(t) = Cardinality(s) - 1 /\ Cardinality(s) # 0
    BY <2>2, <2>4, FS_RemoveElement, FS_EmptySet
  <2>7. g[t] \in 0 .. Cardinality(t) * m
    BY <2>1, <2>4
  <2> DEFINE n == Cardinality(s)
  <2> HIDE DEF x, g, n
  <2>8. f[x] \in 0 .. m /\ g[t] \in 0 .. (n - 1) * m
    BY <2>2, <2>4, <2>6, <2>7 DEF n
  <2>9. n * m = m + (n - 1) * m /\ n - 1 \in Nat /\ n \in Nat
    BY <2>2, <2>6, Multiples DEF n
  <2>10. n * m \in Nat /\ (n - 1) * m \in Nat
    BY <2>9, Multiples
  <2>11. g[s] \in 0 .. n * m
    BY <2>5, <2>8, <2>9, <2>10
  <2> QED
    BY <2>2, <2>11 DEF n
<1>3. g[T] \in 0 .. Cardinality(T) * m
  BY <1>2
<1>4. Wings!SumFunction(f) = g[T]
  BY SumUnfolds, Zenon DEF Fold
<1> QED
  BY <1>3, <1>4

\* Wing rows are finitely many, and so are a wing's flats.
WingBounds == WingSizes /\ MaxPass \in Nat

LEMMA TotalsFit ==
    ASSUME WingBounds, NEW ws \in Wings!WingSet
    PROVE  Wings!DeriveTotals(ws).homePass \in Wings!Pass /\ Wings!DeriveTotals(ws).live \in BOOLEAN
<1> DEFINE f == [i \in DOMAIN ws |-> ws[i].homePass]
<1>1. PICK T \in SUBSET WingId : Cardinality(T) <= MaxCount /\ ws \in [T -> Wings!Wing]
  BY WingsCardinality DEF Wings!WingSet
<1>2. IsFiniteSet(T) /\ Cardinality(T) \in Nat /\ MaxCount \in Nat /\ MaxPass \in Nat
  BY <1>1, FS_Subset, FS_CardinalityType DEF WingBounds, WingSizes
<1>3. DOMAIN f = T /\ \A x \in DOMAIN f : f[x] \in 0 .. MaxPass
  BY <1>1 DEF Wings!Wing
<1> HIDE DEF f
<1>4. Wings!SumFunction(f) \in 0 .. Cardinality(T) * MaxPass
  BY <1>2, <1>3, SumIsBounded
<1>5. Cardinality(T) * MaxPass <= MaxCount * MaxPass
  BY <1>1, <1>2, Multiples
<1>6. Cardinality(T) * MaxPass \in Nat /\ MaxCount * MaxPass \in Nat
  BY <1>2, Multiples
<1>7. Wings!SumFunction(f) \in Wings!Pass
  BY <1>4, <1>5, <1>6 DEF Wings!Pass
<1> QED
  BY <1>7, TotalsAre DEF f

\* What each kind of request carries.
LEMMA RequestIs ==
    ASSUME NEW x \in Wings!Request
    PROVE  /\ x.op \in WingAsks => x.building \in Wings!BuildingRow /\ x.wings \in Wings!WingSet
           /\ x.op = "cascade" => x.live \in BOOLEAN
<1>1. CASE x = [op |-> "idle"]
  BY <1>1 DEF WingAsks
<1>2. CASE x \in [op : WingAsks, building : Wings!BuildingRow, wings : Wings!WingSet]
  BY <1>2 DEF WingAsks
<1>3. CASE x \in [op : {"cascade"}, live : BOOLEAN]
  BY <1>3 DEF WingAsks
<1> QED
  BY <1>1, <1>2, <1>3 DEF Wings!Request, Wings!Idle, WingAsks

LEMMA FinishFits == Wings!TypeOK /\ (\E w \in Worker : Wings!Finish(w)) => wingReq' \in [Worker -> Wings!Request]
<1>1. Wings!Idle \in Wings!Request
  BY DEF Wings!Request
<1> QED
  BY <1>1 DEF Wings!TypeOK, Wings!Finish

LEMMA WingTypesStay ==
    ASSUME WingBounds, Wings!TypeOK, [Wings!Next]_Wings!vars
    PROVE  Wings!TypeOK'
<1>1. ASSUME NEW w \in Worker, NEW op \in WingAsks, Wings!Read(w, op) PROVE Wings!TypeOK'
  <2>1. [op |-> op, building |-> building, wings |-> wings] \in Wings!Request
    BY DEF Wings!TypeOK, Wings!Request, WingAsks
  <2> QED
    BY <1>1, <2>1 DEF Wings!Read, Wings!TypeOK
<1>2. ASSUME NEW w \in Worker, NEW new \in Wings!WingSet, NEW newCount \in Wings!Count \cup {Keep},
             Wings!ReplaceWings(w, new, newCount)
      PROVE  Wings!TypeOK'
  <2>1. Wings!DeriveTotals(new).homePass \in Wings!Pass /\ Wings!DeriveTotals(new).live \in BOOLEAN
    BY TotalsFit
  <2>2. building \in Wings!BuildingRow /\ Wings!Given(newCount, building.count) \in Wings!Count \cup {None}
    BY DEF Wings!TypeOK, Wings!BuildingRow, Wings!Given
  <2>3. \E c : building' = [building EXCEPT
              !.count = Wings!Given(newCount, building.count),
              !.homePass = IF c THEN Wings!DeriveTotals(new).homePass ELSE building.homePass,
              !.live = IF c THEN Wings!DeriveTotals(new).live ELSE building.live]
    BY <1>2 DEF Wings!ReplaceWings
  <2>4. building' \in Wings!BuildingRow
    BY <2>1, <2>2, <2>3 DEF Wings!BuildingRow
  <2>5. wings' = new /\ Wings!Finish(w)
    BY <1>2 DEF Wings!ReplaceWings
  <2> QED
    BY <2>4, <2>5, FinishFits DEF Wings!TypeOK
<1>3. ASSUME NEW w \in Worker, NEW newCount \in Wings!Count \cup {None, Keep},
             NEW homePass \in Wings!Pass \cup {None, Keep}, NEW live \in BOOLEAN \cup {Keep},
             Wings!UpdateBuilding(w, newCount, homePass, live)
      PROVE  Wings!TypeOK'
  <2> DEFINE totals == Wings!DeriveTotals(wingReq[w].wings)
  <2>1. totals.homePass \in Wings!Pass /\ totals.live \in BOOLEAN
    <3>1. wingReq[w].wings \in Wings!WingSet
      BY <1>3, RequestIs DEF Wings!UpdateBuilding, Wings!Serves, WingAsks, Wings!TypeOK
    <3> QED
      BY <3>1, TotalsFit
  <2>2. /\ building \in Wings!BuildingRow /\ Wings!Given(newCount, building.count) \in Wings!Count \cup {None}
        /\ Wings!Given(homePass, building.homePass) \in Wings!Pass \cup {None} /\ Wings!Given(live, building.live) \in BOOLEAN
    BY DEF Wings!TypeOK, Wings!BuildingRow, Wings!Given
  <2> HIDE DEF totals
  <2>3. /\ wings' = wings /\ Wings!Finish(w)
        /\ \E n \in {totals.homePass, Wings!Given(homePass, building.homePass)},
              l \in {Wings!Given(live, building.live), totals.live, building.live} :
              building' = [building EXCEPT !.count = Wings!Given(newCount, building.count), !.homePass = n, !.live = l]
    BY <1>3 DEF Wings!UpdateBuilding, totals
  <2>4. building' \in Wings!BuildingRow
    BY <2>1, <2>2, <2>3 DEF Wings!BuildingRow
  <2> QED
    BY <2>3, <2>4, FinishFits DEF Wings!TypeOK
<1>4. ASSUME NEW w \in Worker, NEW newCount \in Wings!Count \cup {None, Keep},
             NEW homePass \in Wings!Pass \cup {None, Keep}, Wings!UpdateSociety(w, newCount, homePass)
      PROVE  Wings!TypeOK'
  <2> DEFINE totals == Wings!DeriveTotals(wingReq[w].wings)
  <2>1. totals.homePass \in Wings!Pass
    <3>1. wingReq[w].wings \in Wings!WingSet
      BY <1>4, RequestIs DEF Wings!UpdateSociety, Wings!Serves, WingAsks, Wings!TypeOK
    <3> QED
      BY <3>1, TotalsFit
  <2>2. /\ building \in Wings!BuildingRow /\ Wings!Given(newCount, building.count) \in Wings!Count \cup {None}
        /\ Wings!Given(homePass, building.homePass) \in Wings!Pass \cup {None}
    BY DEF Wings!TypeOK, Wings!BuildingRow, Wings!Given
  <2> HIDE DEF totals
  <2>3. /\ wings' = wings /\ Wings!Finish(w)
        /\ \E n \in {totals.homePass, Wings!Given(homePass, building.homePass)} :
              building' = [building EXCEPT !.count = Wings!Given(newCount, building.count), !.homePass = n]
    BY <1>4 DEF Wings!UpdateSociety, totals
  <2>4. building' \in Wings!BuildingRow
    BY <2>1, <2>2, <2>3 DEF Wings!BuildingRow
  <2> QED
    BY <2>3, <2>4, FinishFits DEF Wings!TypeOK
<1>5. ASSUME NEW w \in Worker, NEW live \in BOOLEAN, Wings!SetLive(w, live) PROVE Wings!TypeOK'
  <2>1. [op |-> "cascade", live |-> live] \in Wings!Request
    BY DEF Wings!Request
  <2>2. building' \in Wings!BuildingRow
    BY <1>5 DEF Wings!SetLive, Wings!TypeOK, Wings!BuildingRow
  <2> QED
    BY <1>5, <2>1, <2>2 DEF Wings!SetLive, Wings!TypeOK
<1>6. ASSUME NEW w \in Worker, Wings!SetWingsLive(w) PROVE Wings!TypeOK'
  <2>1. wingReq[w].op = "cascade" /\ wingReq[w] \in Wings!Request
    BY <1>6 DEF Wings!SetWingsLive, Wings!Serves, Wings!TypeOK
  <2>2. wingReq[w].live \in BOOLEAN
    BY <2>1, RequestIs
  <2>3. wings' \in Wings!WingSet
    BY <1>6, <2>2, CascadeKeepsTotals DEF Wings!SetWingsLive, Wings!TypeOK, WingBounds
  <2>4. building' = building /\ Wings!Finish(w)
    BY <1>6 DEF Wings!SetWingsLive
  <2> QED
    BY <2>3, <2>4, FinishFits DEF Wings!TypeOK
<1>7. ASSUME NEW w \in Worker, Wings!Refuse(w) PROVE Wings!TypeOK'
  BY <1>7, FinishFits DEF Wings!Refuse, Wings!TypeOK
<1>8. CASE Wings!Approve \/ Wings!MarkLive
  BY <1>8 DEF Wings!Approve, Wings!MarkLive, Wings!TypeOK, Wings!BuildingRow
<1>9. CASE UNCHANGED Wings!vars
  BY <1>9 DEF Wings!vars, Wings!TypeOK
<1> QED
  BY <1>1, <1>2, <1>3, <1>4, <1>5, <1>6, <1>7, <1>8, <1>9 DEF Wings!Next, WingAsks

\* However requests overlap, a building has no more flats than the wings on it
\* could have, and what requests have seen is a building and its wings.
THEOREM WingTypesHold == ASSUME WingBounds PROVE Wings!Spec => []Wings!TypeOK
<1>1. Wings!Init => Wings!TypeOK
  BY EmptyIsNoSet DEF Wings!Init, Wings!TypeOK, Wings!Request, WingBounds
<1>2. Wings!TypeOK /\ [Wings!Next]_Wings!vars => Wings!TypeOK'
  BY WingTypesStay
<1> QED
  BY <1>1, <1>2, PTL DEF Wings!Spec

-----------------------------------------------------------------------------
(* The list of all customers.                                              *)

\* A lookup answers one of four ways, with an OLT or none; readers see some of
\* the buildings; and None is no word, no truth value and no number.
ListSetup ==
    /\ MaxId \in Nat /\ Readers \subseteq SUBSET Building
    /\ \A x \in Answer : x.state \in {"online", "offline", "not_seen", "not_linked"}
    /\ None \notin BOOLEAN \cup Int \cup {"online", "offline", "not_seen", "not_linked", "no_username"}

\* The row of one customer, as TypeOK has it.
ReadFits(c) ==
    /\ c \in List!Customer
    /\ (c.at = None) <=> (c.read = List!Unread)
    /\ c.read # List!Unread => (c.named <=> c.read # List!NoUsername)

LEMMA RowsOfType ==
    List!TypeOK <=> /\ listRow \in [List!Id -> List!Customer \cup {None}] /\ down \subseteq Olt
                    /\ \A i \in List!Id : listRow[i] # None => ReadFits(listRow[i])
BY DEF List!TypeOK, ReadFits

LEMMA CustomerFields ==
    ASSUME NEW c \in List!Customer
    PROVE  /\ c.building \in Building /\ c.named \in BOOLEAN /\ c.expires \in {None, -1, 7}
           /\ c.read \in Answer \cup {List!NoUsername, List!Unread} /\ c.at \in {None, List!Stale, List!Fresh}
BY DEF List!Customer

\* A reading is kept only if it is worth it, and then it fits.
LEMMA SavedFits ==
    ASSUME ListSetup, List!TypeOK, NEW S \in SUBSET List!Rows, NEW answers \in List!Answers(S)
    PROVE  /\ DOMAIN answers = S
           /\ List!Saved(answers) \in [List!Id -> List!Customer \cup {None}]
           /\ \A i \in List!Id : /\ i \notin S \/ answers[i] \in List!Silent => List!Saved(answers)[i] = listRow[i]
                                 /\ i \in S /\ answers[i] \notin List!Silent =>
                                      /\ List!Saved(answers)[i].read = answers[i]
                                      /\ List!Saved(answers)[i].building = listRow[i].building
                                      /\ List!Saved(answers)[i].at = List!Fresh /\ List!Fresh # None
                                      /\ ReadFits(List!Saved(answers)[i])
                                 /\ List!Saved(answers)[i] # None => ReadFits(List!Saved(answers)[i])
<1>1. /\ answers \in [S -> Answer \cup List!Silent \cup {List!NoUsername}]
      /\ \A i \in S : IF listRow[i].named THEN answers[i] # List!NoUsername ELSE answers[i] = List!NoUsername
  BY DEF List!Answers
<1>2. /\ listRow \in [List!Id -> List!Customer \cup {None}]
      /\ \A i \in List!Id : listRow[i] # None => ReadFits(listRow[i])
  BY RowsOfType
<1> DEFINE new(i) == [listRow[i] EXCEPT !.read = answers[i], !.at = List!Fresh]
<1>3. List!Saved(answers) = [i \in List!Id |-> IF i \in S /\ answers[i] \notin List!Silent THEN new(i) ELSE listRow[i]]
  BY <1>1, Zenon DEF List!Saved
<1>4. ASSUME NEW i \in S, answers[i] \notin List!Silent
      PROVE  /\ ReadFits(new(i)) /\ new(i).read = answers[i] /\ new(i).building = listRow[i].building
             /\ new(i).at = List!Fresh /\ List!Fresh # None
  <2>1. listRow[i] \in List!Customer /\ i \in List!Id
    BY <1>2 DEF List!Rows
  <2>2. answers[i] \in Answer \cup {List!NoUsername}
    BY <1>1, <1>4
  <2>3. /\ new(i) \in List!Customer /\ new(i).read = answers[i] /\ new(i).at = List!Fresh
        /\ new(i).named = listRow[i].named /\ new(i).building = listRow[i].building
    BY <2>1, <2>2 DEF List!Customer
  <2>4. answers[i].state # None /\ List!Unread.state = None
    BY <2>2 DEF ListSetup, List!NoUsername, List!Nothing, List!Unread
  <2>5. answers[i] # List!Unread
    BY <2>4
  <2>6. listRow[i].named <=> answers[i] # List!NoUsername
    BY <1>1
  <2>7. List!Fresh # None
    BY DEF ListSetup, List!Fresh
  <2> QED
    BY <2>3, <2>5, <2>6, <2>7 DEF ReadFits
<1>5. S \subseteq List!Id
  BY DEF List!Rows
<1> HIDE DEF new
<1>6. \A i \in List!Id : List!Saved(answers)[i] = IF i \in S /\ answers[i] \notin List!Silent THEN new(i) ELSE listRow[i]
  BY <1>3
<1>7. \A i \in List!Id : List!Saved(answers)[i] \in List!Customer \cup {None}
  BY <1>2, <1>4, <1>6 DEF ReadFits
<1>8. List!Saved(answers) \in [List!Id -> List!Customer \cup {None}]
  <2> DEFINE g == [i \in List!Id |-> IF i \in S /\ answers[i] \notin List!Silent THEN new(i) ELSE listRow[i]]
  <2>1. \A i \in List!Id : g[i] \in List!Customer \cup {None}
    BY <1>3, <1>7
  <2> QED
    BY <1>3, <2>1
<1> QED
  BY <1>1, <1>2, <1>4, <1>6, <1>8

LEMMA ListFirst == ListSetup /\ List!Init => List!TypeOK
BY DEF List!Init, List!TypeOK

\* A step that changes one row, and the table as it is.
LEMMA OneRowFits ==
    ASSUME List!TypeOK, NEW i \in List!Id, NEW c, c = None \/ ReadFits(c),
           listRow' = [listRow EXCEPT ![i] = c], UNCHANGED down
    PROVE  List!TypeOK'
<1>1. /\ listRow \in [List!Id -> List!Customer \cup {None}] /\ down \subseteq Olt
      /\ \A j \in List!Id : listRow[j] # None => ReadFits(listRow[j])
  BY RowsOfType
<1>2. listRow' \in [List!Id -> List!Customer \cup {None}]
  BY <1>1 DEF ReadFits
<1>3. \A j \in List!Id : listRow'[j] = IF j = i THEN c ELSE listRow[j]
  BY <1>1
<1>4. \A j \in List!Id : listRow'[j] # None => ReadFits(listRow'[j])
  BY <1>1, <1>3
<1> QED
  BY <1>1, <1>2, <1>4 DEF List!TypeOK, ReadFits

LEMMA SavedKeeps ==
    ASSUME ListSetup, List!TypeOK, NEW S \in SUBSET List!Rows, NEW answers \in List!Answers(S),
           listRow' = List!Saved(answers), UNCHANGED down
    PROVE  List!TypeOK'
<1>1. listRow' \in [List!Id -> List!Customer \cup {None}] /\ \A i \in List!Id : listRow'[i] # None => ReadFits(listRow'[i])
  BY SavedFits
<1>2. down' \subseteq Olt
  BY DEF List!TypeOK
<1> QED
  BY <1>1, <1>2 DEF List!TypeOK, ReadFits

LEMMA ListStep == ListSetup /\ List!TypeOK /\ [List!Next]_(List!vars) => List!TypeOK'
<1> SUFFICES ASSUME ListSetup, List!TypeOK, [List!Next]_(List!vars) PROVE List!TypeOK'
  OBVIOUS
<1>1. ASSUME NEW i \in List!Id, List!CreateCustomer(i) PROVE List!TypeOK'
  <2>1. PICK b \in Building, named \in BOOLEAN, expires \in {None, -1, 7} :
            listRow' = [listRow EXCEPT ![i] = [building |-> b, named |-> named, expires |-> expires, read |-> List!Unread, at |-> None]]
    BY <1>1, Zenon DEF List!CreateCustomer
  <2>2. ReadFits([building |-> b, named |-> named, expires |-> expires, read |-> List!Unread, at |-> None])
    BY DEF ReadFits, List!Customer
  <2>3. UNCHANGED down
    BY <1>1 DEF List!CreateCustomer
  <2> QED
    BY <2>1, <2>2, <2>3, OneRowFits
<1>2. ASSUME NEW i \in List!Id, List!Rename(i) PROVE List!TypeOK'
  <2>1. PICK named \in BOOLEAN : listRow' = [listRow EXCEPT ![i].named = named, ![i].read = List!Unread, ![i].at = None]
    BY <1>2, Zenon DEF List!Rename
  <2>2. listRow[i] \in List!Customer /\ listRow \in [List!Id -> List!Customer \cup {None}]
    BY <1>2 DEF List!TypeOK, List!Rename, List!Rows
  <2> DEFINE c == [[[listRow[i] EXCEPT !.named = named] EXCEPT !.read = List!Unread] EXCEPT !.at = None]
  <2>3. ReadFits(c)
    BY <2>2 DEF ReadFits, List!Customer
  <2>4. listRow' = [listRow EXCEPT ![i] = c]
    BY <2>1, <2>2
  <2>5. UNCHANGED down
    BY <1>2 DEF List!Rename
  <2> HIDE DEF c
  <2> QED
    BY <2>3, <2>4, <2>5, OneRowFits
<1>3. ASSUME NEW i \in List!Id, List!DeleteCustomer(i) PROVE List!TypeOK'
  BY <1>3, OneRowFits DEF List!DeleteCustomer
<1>4. ASSUME NEW i \in List!Id, List!GrowsStale(i) PROVE List!TypeOK'
  <2>1. /\ listRow[i] \in List!Customer /\ listRow \in [List!Id -> List!Customer \cup {None}] /\ ReadFits(listRow[i])
        /\ listRow[i].at = List!Fresh /\ listRow' = [listRow EXCEPT ![i] = [listRow[i] EXCEPT !.at = List!Stale]] /\ UNCHANGED down
    BY <1>4, RowsOfType DEF List!GrowsStale, List!Rows
  <2>2. List!Fresh # None /\ List!Stale # None
    BY DEF ListSetup, List!Fresh, List!Stale
  <2> DEFINE c == [listRow[i] EXCEPT !.at = List!Stale]
  <2>3. ReadFits(c)
    BY <2>1, <2>2 DEF ReadFits, List!Customer
  <2> QED
    BY <2>1, <2>3, OneRowFits
<1>5. ASSUME NEW i \in List!Id, List!CustomerConnection(i) PROVE List!TypeOK'
  BY <1>5, SavedKeeps DEF List!CustomerConnection
<1>6. ASSUME NEW b \in Building, List!BuildingConnections(b) PROVE List!TypeOK'
  BY <1>6, SavedKeeps DEF List!BuildingConnections, List!OfBuilding
<1>7. ASSUME NEW ids \in SUBSET List!Id, NEW canRead \in Readers, NEW force \in BOOLEAN,
             List!RefreshCustomers(ids, canRead, force)
      PROVE  List!TypeOK'
  BY <1>7, SavedKeeps DEF List!RefreshCustomers, List!Due
<1>8. CASE List!OltsChange
  BY <1>8 DEF List!OltsChange, List!TypeOK
<1>9. CASE UNCHANGED List!vars
  BY <1>9 DEF List!vars, List!TypeOK
<1> QED
  BY <1>1, <1>2, <1>3, <1>4, <1>5, <1>6, <1>7, <1>8, <1>9 DEF List!Next


\* What a row says of its customer, column by column.
LEMMA Says ==
    ASSUME ListSetup, NEW c, ReadFits(c)
    PROVE  /\ c.named \in BOOLEAN
           /\ \/ c.read.state = None /\ c.at = None
              \/ c.read.state = "no_username" /\ ~c.named /\ c.at # None
              \/ c.read.state \in {"online", "offline", "not_seen", "not_linked"} /\ c.named /\ c.at # None
<1>1. c.named \in BOOLEAN /\ c.read \in Answer \cup {List!NoUsername, List!Unread}
  BY CustomerFields DEF ReadFits
<1>2. List!Unread.state = None /\ List!NoUsername.state = "no_username"
  BY DEF List!Unread, List!NoUsername, List!Nothing
<1>3. CASE c.read = List!Unread
  BY <1>1, <1>2, <1>3 DEF ReadFits
<1>4. CASE c.read = List!NoUsername /\ c.read # List!Unread
  BY <1>1, <1>2, <1>4 DEF ReadFits
<1>5. CASE c.read \in Answer /\ c.read # List!NoUsername /\ c.read # List!Unread
  BY <1>1, <1>5 DEF ReadFits, ListSetup
<1> QED
  BY <1>1, <1>3, <1>4, <1>5

\* The OLT of a customer not seen is down or not.
LEMMA DownOrNot ==
    ASSUME ListSetup, NEW c
    PROVE  /\ List!OltDownWhere(c) => c.read.state = "not_seen" /\ down # {}
           /\ List!NotSeenWhere(c) => c.read.state = "not_seen"
           /\ c.read.state = "not_seen" => (List!NotSeenWhere(c) <=> ~List!OltDownWhere(c))
           /\ c.read.state = "not_seen" => List!CountKey(c.read) = IF List!OltDownWhere(c) THEN "olt_down" ELSE "not_seen"
           /\ c.read.state # "not_seen" => List!CountKey(c.read) = c.read.state
BY DEF ListSetup, List!OltDownWhere, List!NotSeenWhere, List!In, List!NotIn, List!CountKey, List!OltReachable

\* The one filter a customer is under.
FilterOf(c) ==
    IF c.read.state = "no_username" \/ ~c.named THEN "no_username"
    ELSE IF c.at = None THEN "never" ELSE List!CountKey(c.read)

LEMMA FilterIs ==
    ASSUME ListSetup, NEW c, ReadFits(c)
    PROVE  /\ FilterOf(c) \in List!Conn
           /\ \A conn \in List!Conn : List!ConnWhere(c, conn) <=> conn = FilterOf(c)
<1>1. /\ c.named \in BOOLEAN
      /\ \/ c.read.state = None /\ c.at = None
         \/ c.read.state = "no_username" /\ ~c.named /\ c.at # None
         \/ c.read.state \in {"online", "offline", "not_seen", "not_linked"} /\ c.named /\ c.at # None
  BY Says
<1>2. None \notin {"online", "offline", "not_seen", "not_linked", "no_username"}
  BY DEF ListSetup
<1> DEFINE key == List!CountKey(c.read)
           olt == List!OltDownWhere(c)
           seen == List!NotSeenWhere(c)
<1>3. /\ olt => c.read.state = "not_seen"
      /\ seen => c.read.state = "not_seen"
      /\ c.read.state = "not_seen" => (seen <=> ~olt)
      /\ c.read.state = "not_seen" => key = IF olt THEN "olt_down" ELSE "not_seen"
      /\ c.read.state # "not_seen" => key = c.read.state
  BY DownOrNot
<1>4. FilterOf(c) = IF c.read.state = "no_username" \/ ~c.named THEN "no_username"
                    ELSE IF c.at = None THEN "never" ELSE key
  BY DEF FilterOf
<1>5. \A conn \in List!Conn : List!ConnWhere(c, conn) <=>
          \/ conn = "never" /\ c.at = None /\ c.named
          \/ conn = "no_username" /\ (c.read.state = "no_username" \/ ~c.named)
          \/ conn = "olt_down" /\ olt
          \/ conn = "not_seen" /\ seen
          \/ conn \in {"online", "offline", "not_linked"} /\ c.read.state = conn
  BY DEF List!ConnWhere, List!Conn
<1> HIDE DEF key, olt, seen
<1>6. FilterOf(c) \in List!Conn
  BY <1>1, <1>3, <1>4 DEF List!Conn
<1>7. ASSUME NEW conn \in List!Conn PROVE List!ConnWhere(c, conn) <=> conn = FilterOf(c)
  BY <1>1, <1>2, <1>3, <1>4, <1>5 DEF List!Conn
<1> QED
  BY <1>6, <1>7

LEMMA WordIsFilter ==
    ASSUME ListSetup, NEW c, ReadFits(c), c.at # None
    PROVE  FilterOf(c) = List!CountKey(c.read)
<1>1. \/ c.read.state = "no_username" /\ ~c.named
      \/ c.read.state # "no_username" /\ c.named
  BY Says
<1>2. c.read.state = "no_username" => List!CountKey(c.read) = "no_username"
  BY DownOrNot
<1> QED
  BY <1>1, <1>2 DEF FilterOf

LEMMA ListCardinality == \A S : List!Cardinality(S) = Cardinality(S)
BY Zenon DEF List!Cardinality, List!IsFiniteSet, Cardinality, IsFiniteSet

LEMMA RowsFinite ==
    ASSUME ListSetup, NEW S \in SUBSET List!Rows
    PROVE  IsFiniteSet(S) /\ Cardinality(S) \in Nat
<1>1. IsFiniteSet(List!Id)
  BY FS_Interval DEF ListSetup, List!Id
<1>2. S \subseteq List!Id
  BY DEF List!Rows
<1> QED
  BY <1>1, <1>2, FS_Subset, FS_CardinalityType

LEMMA ScopesStay == ASSUME ListSetup PROVE List!ScopeIsNeverWidened
<1>1. ASSUME NEW canRead, NEW query, NEW i \in List!Listed(query, canRead)
      PROVE  listRow[i].building \in canRead
  BY DEF List!Listed, List!CustomerListWhere, List!NarrowedIds, List!ScopedBuildings
<1>2. ASSUME NEW canRead, NEW b \in List!ScopedBuildings(canRead), NEW query,
             query.conn = None, query.weak = FALSE, query.expiry = None,
             query.zone \in {None, ZoneAt[b]}, query.building \in {None, b}
      PROVE  List!Listed(query, canRead) # {}
  <2>1. PICK i \in List!Rows : listRow[i].building = b
    BY DEF List!ScopedBuildings
  <2>2. i \in List!Listed(query, canRead)
    BY <1>2, <2>1 DEF List!Listed, List!CustomerListWhere, List!NarrowedIds
  <2> QED
    BY <2>2
<1>3. ASSUME NEW canRead, NEW b \in List!ScopedBuildings(canRead)
      PROVE  /\ List!Listed(List!Ask(None, FALSE, None, None, b), canRead) # {}
             /\ List!Listed(List!Ask(None, FALSE, None, ZoneAt[b], None), canRead) # {}
  <2> DEFINE here == List!Ask(None, FALSE, None, None, b)
             zone == List!Ask(None, FALSE, None, ZoneAt[b], None)
  <2>1. here.conn = None /\ here.weak = FALSE /\ here.expiry = None /\ here.zone = None /\ here.building = b
    BY DEF List!Ask
  <2>2. zone.conn = None /\ zone.weak = FALSE /\ zone.expiry = None /\ zone.zone = ZoneAt[b] /\ zone.building = None
    BY DEF List!Ask
  <2> HIDE DEF here, zone
  <2>3. List!Listed(here, canRead) # {}
    BY <1>2, <2>1
  <2>4. List!Listed(zone, canRead) # {}
    BY <1>2, <2>2
  <2> QED
    BY <2>3, <2>4 DEF here, zone
<1> QED
  BY <1>1, <1>3, Zenon DEF List!ScopeIsNeverWidened

LEMMA FiltersSplit == ASSUME ListSetup, List!TypeOK PROVE List!OneFilterEach
<1>1. SUFFICES ASSUME NEW i \in List!Rows
               PROVE  /\ Cardinality({conn \in List!Conn : List!ConnWhere(listRow[i], conn)}) = 1
                      /\ IF listRow[i].at = None
                         THEN /\ List!ConnectionWord(listRow[i]) = "not checked"
                              /\ List!ConnWhere(listRow[i], "never") \/ List!ConnWhere(listRow[i], "no_username")
                         ELSE List!ConnWhere(listRow[i], List!ConnectionWord(listRow[i]))
  BY ListCardinality, Zenon DEF List!OneFilterEach
<1>2. ReadFits(listRow[i])
  BY RowsOfType DEF List!Rows
<1>3. {conn \in List!Conn : List!ConnWhere(listRow[i], conn)} = {FilterOf(listRow[i])}
  BY <1>2, FilterIs
<1>4. Cardinality({FilterOf(listRow[i])}) = 1
  BY FS_Singleton
<1>5. CASE listRow[i].at = None
  <2>1. FilterOf(listRow[i]) \in {"never", "no_username"}
    BY <1>5 DEF FilterOf
  <2>2. List!ConnectionWord(listRow[i]) = "not checked"
    BY <1>5 DEF List!ConnectionWord
  <2>3. "never" \in List!Conn /\ "no_username" \in List!Conn
    BY DEF List!Conn
  <2> QED
    BY <1>2, <1>3, <1>4, <1>5, <2>1, <2>2, <2>3, FilterIs
<1>6. CASE listRow[i].at # None
  <2>1. List!ConnectionWord(listRow[i]) = List!CountKey(listRow[i].read)
    BY <1>6 DEF List!ConnectionWord
  <2>2. List!CountKey(listRow[i].read) = FilterOf(listRow[i])
    BY <1>2, <1>6, WordIsFilter
  <2> QED
    BY <1>2, <1>3, <1>4, <1>6, <2>1, <2>2, FilterIs
<1> QED
  BY <1>3, <1>4, <1>5, <1>6

LEMMA CountsLead == ASSUME ListSetup, List!TypeOK PROVE List!CountsLeadThere
<1>1. ASSUME NEW S \in SUBSET List!Rows, NEW key \in DOMAIN List!Counts(S)
      PROVE  List!Counts(S)[key] = Cardinality({i \in S : List!ConnWhere(listRow[i], key)})
  <2> DEFINE state(x) == {i \in S : listRow[i].read.state = x}
             gone == {i \in S : List!OltDownWhere(listRow[i])}
             oltDown == IF down = {} THEN 0 ELSE Cardinality(gone)
  <2>1. /\ DOMAIN List!Counts(S) = {"online", "offline", "olt_down", "not_seen"}
        /\ List!Counts(S)["online"] = Cardinality(state("online"))
        /\ List!Counts(S)["offline"] = Cardinality(state("offline"))
        /\ List!Counts(S)["olt_down"] = oltDown
        /\ List!Counts(S)["not_seen"] = IF Cardinality(state("not_seen")) < oltDown THEN 0
                                        ELSE Cardinality(state("not_seen")) - oltDown
    BY ListCardinality DEF List!Counts
  <2>2. IsFiniteSet(state("not_seen")) /\ Cardinality(state("not_seen")) \in Nat
    BY RowsFinite
  <2>3. gone \subseteq state("not_seen")
    BY DownOrNot
  <2>4. IsFiniteSet(gone) /\ Cardinality(gone) \in Nat /\ Cardinality(gone) <= Cardinality(state("not_seen"))
    BY <2>2, <2>3, FS_Subset, FS_CardinalityType
  <2>5. oltDown = Cardinality(gone)
    <3>1. down = {} => gone = {}
      BY DownOrNot
    <3> QED
      BY <3>1, FS_EmptySet
  <2>6. Cardinality(state("not_seen") \ gone) = Cardinality(state("not_seen")) - Cardinality(gone)
    <3>1. state("not_seen") \cap gone = gone
      BY <2>3
    <3> HIDE DEF state, gone
    <3> QED
      BY <2>2, <3>1, FS_Difference
  <2>7. {i \in S : List!ConnWhere(listRow[i], "online")} = state("online")
    BY DEF List!ConnWhere
  <2>8. {i \in S : List!ConnWhere(listRow[i], "offline")} = state("offline")
    BY DEF List!ConnWhere
  <2>9. {i \in S : List!ConnWhere(listRow[i], "olt_down")} = gone
    BY DEF List!ConnWhere
  <2>10. {i \in S : List!ConnWhere(listRow[i], "not_seen")} = state("not_seen") \ gone
    <3>1. \A i \in S : List!ConnWhere(listRow[i], "not_seen") <=> List!NotSeenWhere(listRow[i])
      BY DEF List!ConnWhere
    <3> QED
      BY <3>1, DownOrNot
  <2> HIDE DEF state, gone, oltDown
  <2>11. CASE key = "online"
    BY <2>1, <2>7, <2>11
  <2>12. CASE key = "offline"
    BY <2>1, <2>8, <2>12
  <2>13. CASE key = "olt_down"
    BY <2>1, <2>5, <2>9, <2>13
  <2>14. CASE key = "not_seen"
    <3>1. Cardinality({i \in S : List!ConnWhere(listRow[i], "not_seen")}) = Cardinality(state("not_seen")) - Cardinality(gone)
      BY <2>6, <2>10, Zenon
    <3>2. ~(Cardinality(state("not_seen")) < Cardinality(gone))
      BY <2>2, <2>4
    <3> QED
      BY <2>1, <2>5, <2>14, <3>1, <3>2, Zenon
  <2> QED
    BY <2>1, <2>11, <2>12, <2>13, <2>14
<1>2. \A query : List!Listed(query, Building) \subseteq List!Rows
  BY DEF List!Listed, List!CustomerListWhere
<1> QED
  BY <1>1, <1>2, ListCardinality, Zenon DEF List!CountsLeadThere

\* An order of the rows has each of them once.
LEMMA OrderIs ==
    ASSUME ListSetup, NEW sort, NEW u \in List!Orders(List!Rows, sort)
    PROVE  LET D == 1 .. Cardinality(List!Rows) IN
           /\ Cardinality(List!Rows) \in Nat /\ Cardinality(List!Rows) <= MaxId
           /\ DOMAIN u = D /\ u \in [D -> List!Rows]
           /\ \A m, n \in D : m # n => u[m] # u[n]
           /\ \A x \in List!Rows : \E n \in D : u[n] = x
           /\ \A m, n \in D : m < n => ~List!Precedes(u[n], u[m], sort)
<1> DEFINE D == 1 .. Cardinality(List!Rows)
<1>1. IsFiniteSet(List!Rows) /\ Cardinality(List!Rows) \in Nat
  BY RowsFinite
<1>2. Cardinality(List!Rows) <= MaxId
  <2>1. IsFiniteSet(List!Id) /\ Cardinality(List!Id) = MaxId
    BY FS_Interval DEF ListSetup, List!Id
  <2>2. List!Rows \subseteq List!Id
    BY DEF List!Rows
  <2> QED
    BY <2>1, <2>2, FS_Subset
<1>3. /\ u \in [D -> List!Rows] /\ \A m, n \in D : m # n => u[m] # u[n]
      /\ \A m, n \in D : m < n => ~List!Precedes(u[n], u[m], sort)
  BY ListCardinality DEF List!Orders, List!SetToSeqs
<1>4. IsFiniteSet(D) /\ Cardinality(D) = Cardinality(List!Rows)
  <2>1. 1 \in Int /\ Cardinality(List!Rows) \in Int
    BY <1>1
  <2> QED
    BY <1>1, <2>1, FS_Interval
<1>5. u \in Surjection(D, List!Rows)
  <2>1. u \in Injection(D, List!Rows)
    BY <1>3 DEF Injection, IsInjective
  <2> HIDE DEF D
  <2> QED
    BY <1>1, <1>4, <2>1, FS_Injection
<1>6. \A x \in List!Rows : \E n \in D : u[n] = x
  BY <1>5 DEF Surjection
<1> QED
  BY <1>1, <1>2, <1>3, <1>6

\* Of two orders of the rows, what the first k places of one hold the first k
\* places of the other hold.
LEMMA SameStart ==
    ASSUME ListSetup, NEW sort, \A i \in List!Rows : List!Key(i, sort) \in Int,
           NEW s \in List!Orders(List!Rows, sort), NEW t \in List!Orders(List!Rows, sort), NEW k \in Nat
    PROVE  {s[n] : n \in DOMAIN s \cap 1 .. k} = {t[n] : n \in DOMAIN t \cap 1 .. k}
<1> DEFINE D == 1 .. Cardinality(List!Rows)
           start(u) == {u[n] : n \in D \cap 1 .. k}
           before(i, j) == List!Precedes(i, j, sort)
<1>1. Cardinality(List!Rows) \in Nat /\ List!Rows \subseteq Nat
  BY RowsFinite DEF List!Rows, List!Id
<1>2. \A u \in List!Orders(List!Rows, sort) :
          /\ DOMAIN u = D /\ u \in [D -> List!Rows] /\ \A m, n \in D : m # n => u[m] # u[n]
          /\ \A x \in List!Rows : \E n \in D : u[n] = x
          /\ \A m, n \in D : m < n => ~before(u[n], u[m])
  BY OrderIs
<1>3. \A i, j \in List!Rows : i = j \/ before(i, j) \/ before(j, i)
  BY <1>1 DEF List!Precedes
<1>4. ASSUME NEW u \in List!Orders(List!Rows, sort)
      PROVE  /\ IsFiniteSet(start(u)) /\ Cardinality(start(u)) = Cardinality(D \cap 1 .. k)
             /\ start(u) \subseteq List!Rows
             /\ \A x \in start(u), y \in List!Rows : before(y, x) => y \in start(u)
  <2>1. /\ u \in [D -> List!Rows] /\ \A m, n \in D : m # n => u[m] # u[n]
        /\ \A x \in List!Rows : \E n \in D : u[n] = x
        /\ \A m, n \in D : m < n => ~before(u[n], u[m])
    BY <1>2
  <2>2. IsFiniteSet(D \cap 1 .. k)
    <3>1. 1 \in Int /\ k \in Int
      OBVIOUS
    <3>2. IsFiniteSet(1 .. k)
      BY <3>1, FS_Interval
    <3> HIDE DEF D
    <3> QED
      BY <3>2, FS_Subset
  <2> DEFINE g == [n \in D \cap 1 .. k |-> u[n]]
  <2>3. g \in Injection(D \cap 1 .. k, start(u)) /\ g \in Surjection(D \cap 1 .. k, start(u))
    BY <2>1 DEF Injection, Surjection, IsInjective
  <2>4. IsFiniteSet(start(u)) /\ Cardinality(start(u)) = Cardinality(D \cap 1 .. k)
    <3> HIDE DEF g, start, D
    <3> QED
      BY <2>2, <2>3, FS_Surjection
  <2>5. ASSUME NEW x \in start(u), NEW y \in List!Rows, before(y, x) PROVE y \in start(u)
    <3>1. PICK n \in D \cap 1 .. k : x = u[n]
      OBVIOUS
    <3>2. PICK m \in D : y = u[m]
      BY <2>1
    <3>3. ~(n < m)
      BY <2>1, <2>5, <3>1, <3>2
    <3>4. m \in 1 .. k
      BY <1>1, <3>3
    <3> QED
      BY <3>2, <3>4
  <2>6. start(u) \subseteq List!Rows
    BY <2>1
  <2> QED
    BY <2>4, <2>5, <2>6
<1>5. start(s) \subseteq start(t) \/ start(t) \subseteq start(s)
  <2> SUFFICES ASSUME NEW x \in start(s), x \notin start(t), NEW y \in start(t), y \notin start(s)
               PROVE  FALSE
    OBVIOUS
  <2> HIDE DEF start, before
  <2>1. x \in List!Rows /\ y \in List!Rows /\ x # y
    BY <1>4
  <2> QED
    BY <1>3, <1>4, <2>1
<1>6. start(s) = start(t)
  <2> HIDE DEF start
  <2> QED
    BY <1>4, <1>5, FS_Subset
<1>7. DOMAIN s = D /\ DOMAIN t = D
  BY <1>2
<1> QED
  BY <1>6, <1>7

\* The places after the first k are on a later page.
LEMMA LaterPage ==
    ASSUME NEW k \in Nat \ {0}, NEW n \in Nat, NEW max \in Nat, k < n, n <= max
    PROVE  \E page \in 2 .. max : n \in (page - 1) * k + 1 .. page * k
<1> DEFINE q == (n - 1) \div k
<1>1. q \in Nat /\ q * k <= n - 1 /\ n - 1 < (q + 1) * k
  OBVIOUS
<1>2. q > 0
  <2> SUFFICES ASSUME q = 0 PROVE FALSE
    BY <1>1
  <2> QED
    BY <1>1
<1> HIDE DEF q
<1>3. q <= q * k
  BY <1>1
<1>4. q + 1 \in 2 .. max
  BY <1>1, <1>2, <1>3
<1>5. (q + 1) - 1 = q
  BY <1>1
<1>6. n \in ((q + 1) - 1) * k + 1 .. (q + 1) * k
  BY <1>1, <1>5
<1> QED
  BY <1>4, <1>6

LEMMA PagesAreWhole == ASSUME ListSetup, List!TypeOK PROVE List!PagesPartition
<1>1. SUFFICES ASSUME NEW sort \in {"name", "expiry", "checked"}, NEW k \in 1 .. MaxId,
                      NEW s \in List!Orders(List!Rows, sort), NEW t \in List!Orders(List!Rows, sort)
               PROVE  LET rest == UNION {List!Page(t, page, k) : page \in 2 .. MaxId}
                      IN  List!Page(s, 1, k) \cup rest = List!Rows /\ List!Page(s, 1, k) \cap rest = {}
  BY Zenon DEF List!PagesPartition
<1> DEFINE D == 1 .. Cardinality(List!Rows)
           rest == UNION {List!Page(t, page, k) : page \in 2 .. MaxId}
<1>2. \A i \in List!Rows : List!Key(i, sort) \in Int
  <2> SUFFICES ASSUME NEW i \in List!Rows PROVE List!Key(i, sort) \in Int
    OBVIOUS
  <2>1. listRow[i].expires \in {None, -1, 7} /\ listRow[i].at \in {None, 1, 2}
    BY RowsOfType, CustomerFields DEF List!Rows, ReadFits, List!Stale, List!Fresh
  <2> QED
    BY <2>1 DEF List!Key, List!Late
<1>3. /\ Cardinality(List!Rows) \in Nat /\ Cardinality(List!Rows) <= MaxId
      /\ DOMAIN t = D /\ DOMAIN s = D /\ t \in [D -> List!Rows]
      /\ \A m, n \in D : m # n => t[m] # t[n]
      /\ \A x \in List!Rows : \E n \in D : t[n] = x
  BY OrderIs
<1>4. List!Page(s, 1, k) = {t[n] : n \in D \cap 1 .. k}
  <2>1. (1 - 1) * k + 1 = 1 /\ 1 * k = k
    BY DEF ListSetup
  <2>2. List!Page(s, 1, k) = {s[n] : n \in DOMAIN s \cap 1 .. k}
    BY <2>1, Zenon DEF List!Page
  <2>3. k \in Nat
    BY DEF ListSetup
  <2>4. {s[n] : n \in DOMAIN s \cap 1 .. k} = {t[n] : n \in DOMAIN t \cap 1 .. k}
    BY <1>2, <2>3, SameStart
  <2> QED
    BY <1>3, <2>2, <2>4, Zenon
<1>5. rest = {t[n] : n \in D \ (1 .. k)}
  <2>1. ASSUME NEW page \in 2 .. MaxId, NEW x \in List!Page(t, page, k)
        PROVE  \E n \in D \ (1 .. k) : x = t[n]
    <3>1. PICK n \in D \cap (page - 1) * k + 1 .. page * k : x = t[n]
      BY <1>3 DEF List!Page
    <3>2. (page - 1) * k >= k
      BY DEF ListSetup
    <3> QED
      BY <1>3, <3>1, <3>2 DEF ListSetup
  <2>2. ASSUME NEW n \in D \ (1 .. k) PROVE t[n] \in rest
    <3>1. k < n /\ n <= MaxId /\ k \in Nat \ {0} /\ n \in Nat /\ MaxId \in Nat
      BY <1>3 DEF ListSetup
    <3>2. PICK page \in 2 .. MaxId : n \in (page - 1) * k + 1 .. page * k
      BY <3>1, LaterPage
    <3>3. t[n] \in List!Page(t, page, k)
      BY <1>3, <3>2 DEF List!Page
    <3> QED
      BY <3>3
  <2> QED
    BY <2>1, <2>2
<1>6. List!Page(s, 1, k) \cup rest = List!Rows
  <2> HIDE DEF rest
  <2> QED
    BY <1>3, <1>4, <1>5
<1>7. List!Page(s, 1, k) \cap rest = {}
  <2> HIDE DEF rest
  <2> QED
    BY <1>3, <1>4, <1>5
<1> QED
  BY <1>6, <1>7, Zenon

LEMMA PageAgrees == ASSUME ListSetup, List!TypeOK PROVE List!PageAgreesWithList
<1>1. ASSUME NEW b \in Building, NEW answers \in List!Answers(List!OfBuilding(b)), NEW key \in List!Conn \ {"never"}
      PROVE  {i \in DOMAIN answers : List!CountKey(answers[i]) = key}
             = {i \in {j \in DOMAIN answers : answers[j] \notin List!Silent} : List!ConnWhere(List!Saved(answers)[i], key)}
  <2> DEFINE after(i) == List!Saved(answers)[i]
  <2>1. List!OfBuilding(b) \subseteq List!Rows
    BY DEF List!OfBuilding
  <2>2. /\ DOMAIN answers = List!OfBuilding(b)
        /\ \A i \in List!Id : i \in List!OfBuilding(b) /\ answers[i] \notin List!Silent =>
                after(i).read = answers[i] /\ after(i).at # None /\ ReadFits(after(i))
    BY <2>1, SavedFits
  <2>3. ASSUME NEW i \in DOMAIN answers, answers[i] \in List!Silent PROVE List!CountKey(answers[i]) # key
    <3>1. answers[i].state \in {"unavailable", "pending"}
      BY <2>3 DEF List!Silent, List!Nothing
    <3> QED
      BY <3>1 DEF List!CountKey, List!Conn
  <2> HIDE DEF after
  <2>4. ASSUME NEW i \in DOMAIN answers, answers[i] \notin List!Silent
        PROVE  (List!CountKey(answers[i]) = key) <=> List!ConnWhere(after(i), key)
    <3>1. i \in List!Id
      BY <2>1, <2>2 DEF List!Rows
    <3>2. after(i).read = answers[i] /\ after(i).at # None /\ ReadFits(after(i))
      BY <2>2, <2>4, <3>1
    <3>3. FilterOf(after(i)) = List!CountKey(answers[i])
      BY <3>2, WordIsFilter
    <3> QED
      BY <3>2, <3>3, FilterIs
  <2>5. {i \in DOMAIN answers : List!CountKey(answers[i]) = key}
        = {i \in {j \in DOMAIN answers : answers[j] \notin List!Silent} : List!ConnWhere(after(i), key)}
    BY <2>3, <2>4
  <2> QED
    BY <2>5 DEF after
<1> QED
  BY <1>1, ListCardinality, Zenon DEF List!PageAgreesWithList, List!PageCount

LEMMA PonCounts == ASSUME ListSetup, List!TypeOK PROVE List!PonCountsItsOwn
<1>1. ASSUME NEW i \in List!Rows, NEW answers \in List!Answers({i}), List!PonOf(i, answers[i]) # None
      PROVE  i \in List!SamePon(List!PonOf(i, answers[i]), {listRow[i].building}, List!Saved(answers))
  <2>1. i \in List!Id
    BY DEF List!Rows
  <2>2. /\ answers[i] \in List!Silent => List!Saved(answers)[i] = listRow[i]
        /\ answers[i] \notin List!Silent => /\ List!Saved(answers)[i].read = answers[i]
                                          /\ List!Saved(answers)[i].building = listRow[i].building
    BY <2>1, SavedFits
  <2> QED
    BY <2>2 DEF List!PonOf, List!SamePon
<1> QED
  BY <1>1, Zenon DEF List!PonCountsItsOwn

\* Whatever customers, buildings and answers of the monitoring: a list stays in
\* its reader's buildings, each customer is under one filter of the connection,
\* counts and pages are those of the list they are of, and what a page of a
\* building and a PON count is what the list then says.
THEOREM ListsStayAgreed ==
    ASSUME ListSetup
    PROVE  List!Spec => [](List!TypeOK /\ List!ListsAgree)
<1>1. List!Init => List!TypeOK
  BY ListFirst
<1>2. List!TypeOK /\ [List!Next]_(List!vars) => List!TypeOK'
  BY ListStep
<1>3. List!TypeOK => List!ListsAgree
  BY ScopesStay, FiltersSplit, CountsLead, PagesAreWhole, PageAgrees, PonCounts DEF List!ListsAgree
<1> QED
  BY <1>1, <1>2, <1>3, PTL DEF List!Spec
=============================================================================
