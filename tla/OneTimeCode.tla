----------------------------- MODULE OneTimeCode -----------------------------
(***************************************************************************)
(* The one-time code that signs a partner in or proves the number of a     *)
(* newcomer (modules/partner-auth): asked for, sent by SMS, typed back.    *)
(*                                                                         *)
(* A request reads in one step and writes in a later one: the check of the *)
(* resend timer and the new code, the reading of the live code and what    *)
(* follows from the guess.  With one Request they come in turn.  The SMS   *)
(* may fail, and so may the removal of the code that it should have taken. *)
(* A code's age is one of three: too young to be asked for again, alive,   *)
(* past its time.  The mail copy, the testing echo of the code and the     *)
(* status SUSPENDED, which nothing sets, are left out.                     *)
(***************************************************************************)
EXTENDS Naturals, Sequences, FiniteSets, FiniteSetsExt

CONSTANTS
    Mobile, None,
    maxAttempts,
    MaxCodes,          \* bound
    Request, Idle

VARIABLES
    challenge,   \* OtpChallenge, oldest first; guesses and opened count what was judged and let in, for the properties
    proof,       \* signup tokens handed out and not yet past their time, by mobile
    account,     \* mobiles with a partner account
    session,     \* mobiles a partner token was signed for
    asking

vars == <<challenge, proof, account, session, asking>>

Age == {"young", "alive", "past"}
TypeOK ==
    /\ challenge \in Seq([mobile : Mobile, attempts : Nat, consumed : BOOLEAN, age : Age, removed : BOOLEAN,
                          guesses : Nat, opened : Nat])
    /\ proof \subseteq Mobile /\ account \subseteq Mobile /\ session \subseteq Mobile

Begins(r, op) == asking[r] = Idle /\ asking' = [asking EXCEPT ![r] = op] /\ UNCHANGED <<proof, account, session>>
At(r, op) == asking[r] # Idle /\ asking[r].op = op
Becomes(r, next) == asking' = [asking EXCEPT ![r] = next]
Turn == Cardinality(Request) = 1 => \A r \in Request : asking[r] = Idle

----------------------------------------------------------------------------
(* Asking for a code *)

CodesOf(m) == {c \in DOMAIN challenge : challenge[c].mobile = m /\ ~challenge[c].removed}

\* The newest code is young; older ones are older.
Cooling(m) == CodesOf(m) # {} /\ challenge[Max(CodesOf(m))].age = "young"

\* While the timer runs the request succeeds and does nothing.
BeginRequestOtp(r, m) ==
    /\ Len(challenge) < MaxCodes /\ ~Cooling(m)
    /\ Begins(r, [op |-> "create", mobile |-> m]) /\ UNCHANGED challenge
CreateChallenge(r) ==
    /\ At(r, "create") /\ Len(challenge) < MaxCodes
    /\ challenge' = Append(challenge, [mobile |-> asking[r].mobile, attempts |-> 0, consumed |-> FALSE, age |-> "young",
                                       removed |-> FALSE, guesses |-> 0, opened |-> 0])
    /\ Becomes(r, [op |-> "send", code |-> Len(challenge')]) /\ UNCHANGED <<proof, account, session>>
SmsSent(r) == At(r, "send") /\ Becomes(r, Idle) /\ UNCHANGED <<challenge, proof, account, session>>
SmsFails(r) ==
    /\ At(r, "send") /\ Becomes(r, Idle) /\ UNCHANGED <<proof, account, session>>
    /\ \E removed \in BOOLEAN : challenge' = [challenge EXCEPT ![asking[r].code].removed = removed]

\* Time passes for the oldest code first.
Age1(c) ==
    /\ challenge[c].age # "past" /\ \A d \in 1 .. c - 1 : challenge[d].age # challenge[c].age
    /\ challenge' = [challenge EXCEPT ![c].age = IF @ = "young" THEN "alive" ELSE "past"]
    /\ UNCHANGED <<proof, account, session, asking>>

----------------------------------------------------------------------------
(* Typing it back *)

\* findActive: the newest code that is unused and not past its time.
LiveCodes(m) == {c \in CodesOf(m) : ~challenge[c].consumed /\ challenge[c].age # "past"}

AttemptsLeft(c) == challenge[c].attempts < maxAttempts

\* A person types a code they were sent or something else; only the live code is right.
BeginVerifyOtp(r, m, typed) ==
    LET c == Max(LiveCodes(m)) IN
    /\ LiveCodes(m) # {} /\ AttemptsLeft(c)
    /\ challenge' = [challenge EXCEPT ![c].guesses = IF typed = c THEN @ ELSE @ + 1]
    /\ Begins(r, [op |-> IF typed = c THEN "consume" ELSE "bump", code |-> c, mobile |-> m])

BumpAttempts(r) ==
    /\ At(r, "bump") /\ Becomes(r, Idle) /\ UNCHANGED <<proof, account, session>>
    /\ challenge' = [challenge EXCEPT ![asking[r].code].attempts = @ + 1]

\* The known are signed in, the unknown may sign up.
ConsumeOtp(r) ==
    LET m == asking[r].mobile IN
    /\ At(r, "consume") /\ Becomes(r, Idle) /\ UNCHANGED account
    /\ challenge' = [challenge EXCEPT ![asking[r].code].consumed = TRUE, ![asking[r].code].opened = @ + 1]
    /\ IF m \in account THEN session' = session \cup {m} /\ UNCHANGED proof ELSE proof' = proof \cup {m} /\ UNCHANGED session

\* register, for the number of the signup token; the mobile is unique.
Register(m) ==
    /\ Turn /\ m \in proof /\ m \notin account
    /\ account' = account \cup {m} /\ session' = session \cup {m} /\ UNCHANGED <<challenge, proof, asking>>
ProofExpires(m) == proof' = proof \ {m} /\ UNCHANGED <<challenge, account, session, asking>>

----------------------------------------------------------------------------
Init ==
    /\ challenge = << >> /\ proof = {} /\ account \in SUBSET Mobile /\ session = {}
    /\ asking = [r \in Request |-> Idle]

Next ==
    \/ \E c \in DOMAIN challenge : Age1(c)
    \/ \E m \in proof : Register(m) \/ ProofExpires(m)
    \/ \E r \in Request :
        \/ \E m \in Mobile : BeginRequestOtp(r, m) \/ \E typed \in CodesOf(m) \cup {None} : BeginVerifyOtp(r, m, typed)
        \/ CreateChallenge(r) \/ SmsSent(r) \/ SmsFails(r) \/ BumpAttempts(r) \/ ConsumeOtp(r)

Spec == Init /\ [][Next]_vars

----------------------------------------------------------------------------
(* Properties, of requests that come in turn *)

\* "attempt-capped" (lib/otp.js): no code is guessed at more often than allowed.
GuessesAreCapped == \A c \in DOMAIN challenge : challenge[c].guesses <= maxAttempts

\* A code opens one session or proves one signup.
CodeOpensOnce == \A c \in DOMAIN challenge : challenge[c].opened <= 1

\* The resend timer: a number never has two codes that are both young.
OneYoungCode == \A m \in Mobile : Cardinality({c \in CodesOf(m) : challenge[c].age = "young"}) <= 1

\* Whoever holds a session has an account, and whoever made it since the start
\* had the number proven by a code of its own.
SessionsAreProven ==
    /\ session \subseteq account
    /\ \A m \in session \cup proof : \E c \in DOMAIN challenge : challenge[c].mobile = m /\ challenge[c].opened > 0

CodesAreKept == GuessesAreCapped /\ CodeOpensOnce /\ OneYoungCode /\ SessionsAreProven
=============================================================================
