--------------------------- MODULE VisitPlanProofs ---------------------------
(***************************************************************************)
(* The visit plan, for any people, buildings, sheets and bounds: that a    *)
(* task with a visit is kept through every change of the plan, that nobody *)
(* ever has the same task twice, that previews come true and lists tell    *)
(* what is there; and that the row of a sheet plans the days it asks for.  *)
(* The field work on the visits: its rows fit each other though requests   *)
(* overlap, and with requests in turn what was checked out is fixed.  What *)
(* sales is shown of it all: that it is there, and that it adds up.        *)
(*                                                                         *)
(* A pass of matchDay is a fold over the tasks; it is shown to go from the *)
(* tasks without the last one to all of them (PassOfLast), and what holds  *)
(* of it follows for every finite set of tasks, the smallest one for which *)
(* it did not hold being impossible (SmallestSet).  So a task without a    *)
(* visit can be left out, and one that takes none added, and the pairs are *)
(* the same; each action of the plan is one or several of these.           *)
(***************************************************************************)
EXTENDS VisitPlan, FiniteSetTheorems, FunctionTheorems, TLAPS

CONSTANTS Week, MaxAhead, MaxRepeat, Oldest, LastDate, LastToday, NoDate, NoRepeat   \* of the rows of a sheet
VARIABLES line, readOn   \* a row, and the day it is read
Sheet == INSTANCE PlanSheet WITH row <- line, today <- readOn, MaxUntil <- MaxAhead,
    Bad <- NoDate, Absent <- NoRepeat

CONSTANTS Worker, FieldLeader, FieldExecutive, FieldTeam, Site, Zone, ZoneOf, Held, Type, Photo, MaxImages, Status, Time,
    MaxStays, MaxInquiries, LastShift   \* of the field work
VARIABLES stays, activities, inquiries, meetings, zones, shift, request
Work == INSTANCE FieldVisits WITH visits <- stays, today <- shift, Leader <- FieldLeader, Executive <- FieldExecutive,
    Team <- FieldTeam, Building <- Site, MaxVisits <- MaxStays, LastDay <- LastShift

CONSTANTS Colleague, RoleOf, ManagerOf, ZoneAt, Awaiting, MaxActivity   \* of what sales is shown
VARIABLES leaderOf, active, zonesOf, visible, heldBy, log
Desk == INSTANCE SalesDesk WITH leader <- leaderOf, zones <- zonesOf, holder <- heldBy, activity <- log,
    Person <- Colleague, Building <- Site

\* A non-empty set of naturals has a least element.
LEMMA LeastNatural ==
    ASSUME NEW T, T \subseteq Nat, T # {}
    PROVE  \E x \in T : \A y \in T : x <= y
<1> DEFINE R == OpToRel(<, Nat)
<1>1. \E x \in T : \A y \in T : <<y, x>> \notin R
  <2>1. IsWellFoundedOn(R, Nat)
    BY NatLessThanWellFounded, Zenon
  <2> HIDE DEF R
  <2> QED
    BY <2>1, WFMin, Zenon
<1>2. ASSUME NEW x \in Nat, NEW y \in Nat, <<y, x>> \notin R
      PROVE  x <= y
  <2>1. <<y, x>> \in Nat \X Nat => ~ (<<y, x>>[1] < <<y, x>>[2])
    BY <1>2, Zenon DEF OpToRel
  <2> QED
    BY <2>1
<1> QED
  BY <1>1, <1>2

\* Among subsets of a finite set there is one that loses its place with any element.
LEMMA SmallestSet ==
    ASSUME NEW T, IsFiniteSet(T), NEW Bad \in SUBSET SUBSET T, Bad # {}
    PROVE  \E S \in Bad : \A x \in S : S \ {x} \in SUBSET T /\ S \ {x} \notin Bad
<1> DEFINE Sizes == {Cardinality(S) : S \in Bad}
<1>1. \A S \in Bad : IsFiniteSet(S) /\ Cardinality(S) \in Nat
  BY FS_Subset, FS_CardinalityType
<1>2. PICK n \in Sizes : \A k \in Sizes : n <= k
  <2>1. Sizes \in SUBSET Nat /\ Sizes # {}
    BY <1>1
  <2> HIDE DEF Sizes
  <2> QED
    BY <2>1, LeastNatural
<1>3. PICK S \in Bad : Cardinality(S) = n
  BY <1>2
<1>4. ASSUME NEW x \in S PROVE S \ {x} \in SUBSET T /\ S \ {x} \notin Bad
  <2>1. IsFiniteSet(S) /\ Cardinality(S) \in Nat
    BY <1>1
  <2>2. Cardinality(S \ {x}) = n - 1
    BY <1>3, <2>1, FS_RemoveElement
  <2>3. ~ (n <= n - 1)
    BY <1>3, <2>1
  <2> QED
    BY <1>2, <2>2, <2>3
<1> QED
  BY <1>3, <1>4

-----------------------------------------------------------------------------
(* The order of tasks and visits, and one pass as a recursion over it.     *)

\* The tasks of S are finitely many and start one after the other.
InOrder(S) ==
    /\ IsFiniteSet(S)
    /\ \A t \in S : ~StartsBefore(t, t)
    /\ \A t \in S : \A u \in S : t # u => StartsBefore(t, u) \/ StartsBefore(u, t)
    /\ \A t \in S : \A u \in S : \A w \in S : StartsBefore(t, u) /\ StartsBefore(u, w) => StartsBefore(t, w)

\* The same of visits: each is earlier or later than any other.
InTurn(S) ==
    /\ IsFiniteSet(S)
    /\ \A t \in S : ~Earlier(t, t)
    /\ \A t \in S : \A u \in S : t # u => Earlier(t, u) \/ Earlier(u, t)
    /\ \A t \in S : \A u \in S : \A w \in S : Earlier(t, u) /\ Earlier(u, w) => Earlier(t, w)

\* Tasks in order have a last one.
LEMMA LastIs ==
    ASSUME NEW T, InOrder(T)
    PROVE  \A S \in SUBSET T : S # {} =>
               Last(S) \in S /\ \A u \in S \ {Last(S)} : StartsBefore(u, Last(S))
<1> DEFINE Has(S) == \E t \in S : \A u \in S \ {t} : StartsBefore(u, t)
           Bad == {S \in SUBSET T : S # {} /\ ~Has(S)}
<1>1. ASSUME Bad # {} PROVE FALSE
  <2>1. PICK S \in Bad : \A x \in S : S \ {x} \in SUBSET T /\ S \ {x} \notin Bad
    <3>1. Bad \in SUBSET SUBSET T /\ IsFiniteSet(T)
      BY DEF InOrder
    <3> HIDE DEF Bad
    <3> QED
      BY <3>1, <1>1, SmallestSet
  <2>2. PICK x \in S : S \subseteq T /\ ~Has(S)
    BY <2>1
  <2>3. S \ {x} # {}
    <3>1. S \ {x} = {} => Has(S)
      BY <2>2
    <3> QED
      BY <3>1, <2>2
  <2>4. PICK l \in S \ {x} : \A u \in (S \ {x}) \ {l} : StartsBefore(u, l)
    BY <2>1, <2>2, <2>3
  <2>5. l \in T /\ x \in T /\ l # x /\ (StartsBefore(x, l) \/ StartsBefore(l, x))
    BY <2>2, <2>4 DEF InOrder
  <2>6. CASE StartsBefore(x, l)
    <3>1. \A u \in S \ {l} : StartsBefore(u, l)
      BY <2>4, <2>6
    <3> QED
      BY <3>1, <2>2, <2>4
  <2>7. CASE StartsBefore(l, x)
    <3>1. \A u \in S \ {x} : u = l \/ StartsBefore(u, l)
      BY <2>4
    <3>2. \A u \in S \ {x} : StartsBefore(u, x)
      BY <3>1, <2>2, <2>5, <2>7, Zenon DEF InOrder
    <3> QED
      BY <3>2, <2>2
  <2> QED
    BY <2>5, <2>6, <2>7
<1>2. \A S \in SUBSET T : S # {} => Has(S)
  BY <1>1
<1> QED
  BY <1>2 DEF Last

\* Visits in turn have an earliest one.
LEMMA EarliestIs ==
    ASSUME NEW T, InTurn(T)
    PROVE  \A S \in SUBSET T : S # {} =>
               Earliest(S) \in S /\ \A u \in S \ {Earliest(S)} : Earlier(Earliest(S), u)
<1> DEFINE Has(S) == \E t \in S : \A u \in S \ {t} : Earlier(t, u)
           Bad == {S \in SUBSET T : S # {} /\ ~Has(S)}
<1>1. ASSUME Bad # {} PROVE FALSE
  <2>1. PICK S \in Bad : \A x \in S : S \ {x} \in SUBSET T /\ S \ {x} \notin Bad
    <3>1. Bad \in SUBSET SUBSET T /\ IsFiniteSet(T)
      BY DEF InTurn
    <3> HIDE DEF Bad
    <3> QED
      BY <3>1, <1>1, SmallestSet
  <2>2. PICK x \in S : S \subseteq T /\ ~Has(S)
    BY <2>1
  <2>3. S \ {x} # {}
    <3>1. S \ {x} = {} => Has(S)
      BY <2>2
    <3> QED
      BY <3>1, <2>2
  <2>4. PICK l \in S \ {x} : \A u \in (S \ {x}) \ {l} : Earlier(l, u)
    BY <2>1, <2>2, <2>3
  <2>5. l \in T /\ x \in T /\ l # x /\ (Earlier(x, l) \/ Earlier(l, x))
    BY <2>2, <2>4 DEF InTurn
  <2>6. CASE Earlier(l, x)
    <3>1. \A u \in S \ {l} : Earlier(l, u)
      BY <2>4, <2>6
    <3> QED
      BY <3>1, <2>2, <2>4
  <2>7. CASE Earlier(x, l)
    <3>1. \A u \in S \ {x} : u = l \/ Earlier(l, u)
      BY <2>4
    <3>2. \A u \in S \ {x} : Earlier(x, u)
      BY <3>1, <2>2, <2>5, <2>7, Zenon DEF InTurn
    <3> QED
      BY <3>2, <2>2
  <2> QED
    BY <2>5, <2>6, <2>7
<1>2. \A S \in SUBSET T : S # {} => Has(S)
  BY <1>1
<1> QED
  BY <1>2 DEF Earliest

\* The pairs after the tasks s, if those after smaller sets are g.
PassStep(seen, anyTime, base, g, s) ==
    IF s = {} THEN base ELSE Take(Last(s), seen, anyTime, g[s \ {Last(s)}])
IsPass(seen, anyTime, base, g, D) == g = [s \in D |-> PassStep(seen, anyTime, base, g, s)]
Passed(seen, anyTime, base, S) == CHOOSE g : IsPass(seen, anyTime, base, g, SUBSET S)

\* The fold a pass is, with the library's names gone.
LEMMA PassUnfolds ==
    ASSUME NEW S, NEW seen, NEW anyTime, NEW base
    PROVE  Pass(S, seen, anyTime, base) = Passed(seen, anyTime, base, S)[S]
BY Zenon DEF Pass, MapThenFoldSet, PassStep, IsPass, Passed

\* There is a function that takes the tasks of every subset in their order.
LEMMA PassExists ==
    ASSUME NEW S, InOrder(S), NEW seen, NEW anyTime, NEW base
    PROVE  \E g : IsPass(seen, anyTime, base, g, SUBSET S)
<1> DEFINE UpTo(m) == {s \in SUBSET S : Cardinality(s) <= m}
           Bad == {m \in Nat : ~ \E g : IsPass(seen, anyTime, base, g, UpTo(m))}
<1>0. IsFiniteSet(S)
  BY DEF InOrder
<1>1. \A s \in SUBSET S : IsFiniteSet(s) /\ Cardinality(s) \in Nat /\ Cardinality(s) <= Cardinality(S)
  BY <1>0, FS_Subset, FS_CardinalityType
<1>2. \A s \in SUBSET S : s # {} => /\ s \ {Last(s)} \in SUBSET S
                                    /\ Cardinality(s \ {Last(s)}) = Cardinality(s) - 1
  BY <1>1, LastIs, FS_RemoveElement
<1>3. Bad = {}
  <2> SUFFICES ASSUME Bad # {} PROVE FALSE
    OBVIOUS
  <2>1. PICK m \in Bad : \A k \in Bad : m <= k
    <3>1. Bad \in SUBSET Nat
      OBVIOUS
    <3> HIDE DEF Bad
    <3> QED
      BY <3>1, LeastNatural
  <2>2. m \in Nat /\ ~ \E g : IsPass(seen, anyTime, base, g, UpTo(m))
    BY <2>1
  <2>3. CASE m = 0
    <3> DEFINE g == [s \in UpTo(0) |-> base]
    <3>1. \A s \in UpTo(0) : s = {}
      <4>1. \A s \in UpTo(0) : IsFiniteSet(s) /\ Cardinality(s) = 0
        BY <1>1
      <4> QED
        BY <4>1, FS_EmptySet, Zenon
    <3>2. \A s \in UpTo(0) : g[s] = PassStep(seen, anyTime, base, g, s)
      BY <3>1, Zenon DEF PassStep
    <3>3. g = [s \in UpTo(0) |-> g[s]]
      OBVIOUS
    <3> HIDE DEF g, UpTo
    <3>4. IsPass(seen, anyTime, base, g, UpTo(0))
      BY <3>2, <3>3 DEF IsPass
    <3> QED
      BY <3>4, <2>2, <2>3
  <2>4. CASE m # 0
    <3>1. m - 1 \in Nat /\ ~ (m <= m - 1)
      BY <2>2, <2>4
    <3>2. PICK g : IsPass(seen, anyTime, base, g, UpTo(m - 1))
      <4>1. m - 1 \notin Bad
        BY <2>1, <3>1
      <4> QED
        BY <4>1, <3>1
    <3> DEFINE h == [s \in UpTo(m) |-> PassStep(seen, anyTime, base, g, s)]
    <3>3. \A s \in UpTo(m - 1) : s \in UpTo(m) /\ g[s] = PassStep(seen, anyTime, base, g, s)
      <4>1. \A s \in UpTo(m - 1) : s \in UpTo(m)
        BY <1>1, <2>2
      <4> HIDE DEF UpTo
      <4> QED
        BY <4>1, <3>2 DEF IsPass
    <3>4. \A s \in UpTo(m) : s # {} => s \ {Last(s)} \in UpTo(m - 1)
      BY <1>1, <1>2, <2>2
    <3>5. \A s \in UpTo(m) : h[s] = PassStep(seen, anyTime, base, h, s)
      <4> HIDE DEF UpTo
      <4>1. \A s \in UpTo(m - 1) : h[s] = g[s]
        BY <3>3
      <4> QED
        BY <3>4, <4>1, <3>3 DEF PassStep
    <3>6. h = [s \in UpTo(m) |-> h[s]]
      OBVIOUS
    <3> HIDE DEF h, UpTo
    <3>7. IsPass(seen, anyTime, base, h, UpTo(m))
      BY <3>5, <3>6 DEF IsPass
    <3> QED
      BY <3>7, <2>2
  <2> QED
    BY <2>3, <2>4
<1>4. UpTo(Cardinality(S)) = SUBSET S
  BY <1>1
<1>5. Cardinality(S) \in Nat
  BY <1>0, FS_CardinalityType
<1> HIDE DEF UpTo
<1>6. \E g : IsPass(seen, anyTime, base, g, UpTo(Cardinality(S)))
  <2>1. Cardinality(S) \notin Bad
    BY <1>3
  <2> QED
    BY <2>1, <1>5
<1> QED
  BY <1>6, <1>4

\* And the pass is one.
LEMMA PassedIs ==
    ASSUME NEW S, InOrder(S), NEW seen, NEW anyTime, NEW base
    PROVE  \A s \in SUBSET S : Passed(seen, anyTime, base, S)[s] = PassStep(seen, anyTime, base, Passed(seen, anyTime, base, S), s)
<1>1. IsPass(seen, anyTime, base, Passed(seen, anyTime, base, S), SUBSET S)
  BY PassExists, Zenon DEF Passed
<1> HIDE DEF Passed
<1> QED
  BY <1>1 DEF IsPass

\* Some of the tasks in order are in order.
LEMMA OrderWithin ==
    ASSUME NEW T, InOrder(T), NEW S \in SUBSET T
    PROVE  InOrder(S)
BY FS_Subset DEF InOrder

\* A pass over some of the tasks is the same, seen from more of them.
LEMMA PassedWithin ==
    ASSUME NEW T, InOrder(T), NEW seen, NEW anyTime, NEW base
    PROVE  \A S \in SUBSET T : \A s \in SUBSET S : Passed(seen, anyTime, base, S)[s] = Passed(seen, anyTime, base, T)[s]
<1> DEFINE At2(S) == Passed(seen, anyTime, base, S)
           Bad == {s \in SUBSET T : \E S \in SUBSET T : s \in SUBSET S /\ At2(S)[s] # At2(T)[s]}
<1>1. ASSUME Bad # {} PROVE FALSE
  <2>1. PICK s \in Bad : \A x \in s : s \ {x} \in SUBSET T /\ s \ {x} \notin Bad
    <3>1. Bad \in SUBSET SUBSET T /\ IsFiniteSet(T)
      BY DEF InOrder
    <3> HIDE DEF Bad
    <3> QED
      BY <3>1, <1>1, SmallestSet
  <2>2. PICK S \in SUBSET T : s \in SUBSET S /\ At2(S)[s] # At2(T)[s]
    BY <2>1
  <2>3. InOrder(S) /\ s \in SUBSET T
    BY <2>2, OrderWithin
  <2>4. At2(S)[s] = PassStep(seen, anyTime, base, At2(S), s) /\ At2(T)[s] = PassStep(seen, anyTime, base, At2(T), s)
    BY <2>2, <2>3, PassedIs
  <2>5. s # {}
    BY <2>2, <2>4, Zenon DEF PassStep
  <2> DEFINE t == s \ {Last(s)}
  <2>6. t \in SUBSET S /\ t \in SUBSET T /\ t \notin Bad
    <3>1. Last(s) \in s
      BY <2>3, <2>5, LastIs
    <3> QED
      BY <3>1, <2>1, <2>2
  <2>7. At2(S)[t] = At2(T)[t]
    BY <2>6
  <2> QED
    BY <2>2, <2>4, <2>5, <2>7, Zenon DEF PassStep
<1> QED
  BY <1>1

\* Without tasks a pass adds nothing; the last task takes its visit when all others have.
LEMMA PassOfNone ==
    ASSUME NEW seen, NEW anyTime, NEW base
    PROVE  Pass({}, seen, anyTime, base) = base
<1>1. InOrder({})
  BY FS_EmptySet DEF InOrder
<1>2. Passed(seen, anyTime, base, {})[{}] = PassStep(seen, anyTime, base, Passed(seen, anyTime, base, {}), {})
  BY <1>1, PassedIs
<1> QED
  BY <1>2, PassUnfolds, Zenon DEF PassStep

LEMMA PassOfLast ==
    ASSUME NEW S, InOrder(S), S # {}, NEW seen, NEW anyTime, NEW base
    PROVE  Pass(S, seen, anyTime, base) = Take(Last(S), seen, anyTime, Pass(S \ {Last(S)}, seen, anyTime, base))
<1> DEFINE t == S \ {Last(S)}
<1>1. t \in SUBSET S /\ S \in SUBSET S /\ t \in SUBSET t
  OBVIOUS
<1>2. Pass(S, seen, anyTime, base) = Passed(seen, anyTime, base, S)[S] /\ Pass(t, seen, anyTime, base) = Passed(seen, anyTime, base, t)[t]
  BY PassUnfolds
<1>3. Passed(seen, anyTime, base, S)[S] = PassStep(seen, anyTime, base, Passed(seen, anyTime, base, S), S)
  BY <1>1, PassedIs
<1>4. Passed(seen, anyTime, base, t)[t] = Passed(seen, anyTime, base, S)[t]
  BY <1>1, PassedWithin
<1> QED
  BY <1>2, <1>3, <1>4, Zenon DEF PassStep

-----------------------------------------------------------------------------
(* What a pass does.                                                       *)

\* A task takes the earliest visit that is free for it, if there is one.
Takes(t, v, seen, anyTime, pairs) ==
    /\ v \in seen /\ v \notin Visits(pairs) /\ v.b = t.b /\ (anyTime \/ InWindow(t, v))
    /\ \A w \in Free(t, seen, anyTime, pairs) \ {v} : Earlier(v, w)

\* The pairs after t takes v.
With(pairs, t, v) == pairs \cup {[task |-> t, visit |-> v]}

\* A pair adds its task and its visit.
LEMMA WithIs ==
    \A pairs, a, z : Tasks(With(pairs, a, z)) = Tasks(pairs) \cup {a} /\ Visits(With(pairs, a, z)) = Visits(pairs) \cup {z}
<1> TAKE pairs, a, z
<1> DEFINE r == [task |-> a, visit |-> z]
           more == With(pairs, a, z)
<1>1. r.task = a /\ r.visit = z /\ more = pairs \cup {r}
  BY DEF With
<1> HIDE DEF r, more
<1>2. {p.task : p \in more} = {p.task : p \in pairs} \cup {a}
  BY <1>1
<1>3. {p.visit : p \in more} = {p.visit : p \in pairs} \cup {z}
  BY <1>1
<1> QED
  BY <1>2, <1>3, Zenon DEF Tasks, Visits, more

\* A task takes a visit if one is free, and none otherwise.
LEMMA TakeIs ==
    ASSUME NEW t, NEW seen, InTurn(seen), NEW anyTime, NEW pairs
    PROVE  \/ Free(t, seen, anyTime, pairs) = {} /\ Take(t, seen, anyTime, pairs) = pairs
           \/ \E v \in Free(t, seen, anyTime, pairs) :
                 /\ Takes(t, v, seen, anyTime, pairs)
                 /\ Take(t, seen, anyTime, pairs) = With(pairs, t, v)
<1> DEFINE free == Free(t, seen, anyTime, pairs)
<1>1. free \in SUBSET seen
  BY DEF Free
<1>2. CASE free = {}
  BY <1>2, Zenon DEF Take
<1>3. CASE free # {}
  <2> DEFINE v == Earliest(free)
  <2>1. v \in free /\ \A w \in free \ {v} : Earlier(v, w)
    BY <1>1, <1>3, EarliestIs
  <2>2. Take(t, seen, anyTime, pairs) = With(pairs, t, v)
    BY <1>3, Zenon DEF Take, With
  <2>3. Takes(t, v, seen, anyTime, pairs)
    BY <2>1 DEF Takes, Free
  <2> HIDE DEF v
  <2> QED
    BY <2>1, <2>2, <2>3
<1> QED
  BY <1>2, <1>3

LEMMA PairOf == ASSUME NEW t, NEW v PROVE [task |-> t, visit |-> v].task = t /\ [task |-> t, visit |-> v].visit = v
OBVIOUS

\* A pair of a pass: a task and a visit at its building, in its window or at any time.
Pair(p, S, seen, anyTime) ==
    /\ p.task \in S /\ p.visit \in seen /\ p.visit.b = p.task.b
    /\ anyTime \/ InWindow(p.task, p.visit)

\* A pass adds pairs of its tasks only, each of them right.
LEMMA PassPairs ==
    ASSUME NEW T, InOrder(T), NEW seen, InTurn(seen), NEW anyTime, NEW base
    PROVE  \A S \in SUBSET T : /\ base \subseteq Pass(S, seen, anyTime, base)
                               /\ \A p \in Pass(S, seen, anyTime, base) \ base : Pair(p, S, seen, anyTime)
<1> DEFINE R(S) == Pass(S, seen, anyTime, base)
           Fine(S) == base \subseteq R(S) /\ \A p \in R(S) \ base : Pair(p, S, seen, anyTime)
           Bad == {S \in SUBSET T : ~Fine(S)}
<1>1. ASSUME Bad # {} PROVE FALSE
  <2>1. PICK S \in Bad : \A x \in S : S \ {x} \in SUBSET T /\ S \ {x} \notin Bad
    <3>1. Bad \in SUBSET SUBSET T /\ IsFiniteSet(T)
      BY DEF InOrder
    <3> HIDE DEF Bad
    <3> QED
      BY <3>1, <1>1, SmallestSet
  <2>2. InOrder(S) /\ ~Fine(S) /\ S \in SUBSET T
    BY <2>1, OrderWithin
  <2>3. S # {}
    <3>1. R({}) = base
      BY PassOfNone
    <3>2. Fine({})
      BY <3>1
    <3> QED
      BY <3>2, <2>2
  <2> DEFINE t == Last(S)
             before == R(S \ {t})
  <2>4. t \in S /\ R(S) = Take(t, seen, anyTime, before)
    BY <2>2, <2>3, LastIs, PassOfLast
  <2>5. base \subseteq before /\ \A p \in before \ base : Pair(p, S \ {t}, seen, anyTime)
    <3>1. Fine(S \ {t})
      BY <2>1, <2>4
    <3> QED
      BY <3>1
  <2> HIDE DEF t, before, Fine
  <2>6. \A p \in before \ base : Pair(p, S, seen, anyTime)
    BY <2>5 DEF Pair
  <2>7. CASE R(S) = before
    BY <2>7, <2>5, <2>6, <2>2 DEF Fine
  <2>8. ASSUME NEW v, Takes(t, v, seen, anyTime, before), R(S) = With(before, t, v)
        PROVE  FALSE
    <3>1. Pair([task |-> t, visit |-> v], S, seen, anyTime)
      BY <2>4, <2>8, PairOf DEF Pair, Takes
    <3> QED
      BY <3>1, <2>8, <2>5, <2>6, <2>2 DEF Fine, With
  <2> HIDE DEF R
  <2> QED
    BY <2>4, <2>7, <2>8, TakeIs
<1>2. \A S \in SUBSET T : Fine(S)
  BY <1>1
<1> QED
  BY <1>2

\* No task has two visits and no visit two tasks.
Paired(pairs) == \A p \in pairs : \A q \in pairs : p.task = q.task \/ p.visit = q.visit => p = q

\* And pairs nobody twice.
LEMMA PassMatches ==
    ASSUME NEW T, InOrder(T), NEW seen, InTurn(seen), NEW anyTime, NEW base,
           Paired(base), \A p \in base : p.task \notin T
    PROVE  \A S \in SUBSET T : Paired(Pass(S, seen, anyTime, base))
<1> DEFINE R(S) == Pass(S, seen, anyTime, base)
           Bad == {S \in SUBSET T : ~Paired(R(S))}
<1>1. ASSUME Bad # {} PROVE FALSE
  <2>1. PICK S \in Bad : \A x \in S : S \ {x} \in SUBSET T /\ S \ {x} \notin Bad
    <3>1. Bad \in SUBSET SUBSET T /\ IsFiniteSet(T)
      BY DEF InOrder
    <3> HIDE DEF Bad
    <3> QED
      BY <3>1, <1>1, SmallestSet
  <2>2. InOrder(S) /\ ~Paired(R(S)) /\ S \in SUBSET T
    BY <2>1, OrderWithin
  <2>3. S # {}
    BY <2>2, PassOfNone
  <2> DEFINE t == Last(S)
             before == R(S \ {t})
  <2>4. t \in S /\ R(S) = Take(t, seen, anyTime, before)
    BY <2>2, <2>3, LastIs, PassOfLast
  <2>5. Paired(before) /\ S \ {t} \in SUBSET T
    BY <2>1, <2>4
  <2>6. \A p \in before : p.task # t
    <3>1. \A p \in before \ base : Pair(p, S \ {t}, seen, anyTime)
      BY <2>5, PassPairs
    <3> HIDE DEF before, t
    <3>2. \A p \in before \ base : p.task \in S \ {t}
      BY <3>1 DEF Pair
    <3> QED
      BY <3>2, <2>2, <2>4
  <2> HIDE DEF t, before
  <2>7. CASE R(S) = before
    BY <2>7, <2>5, <2>2
  <2>8. ASSUME NEW v, Takes(t, v, seen, anyTime, before), R(S) = With(before, t, v)
        PROVE  FALSE
    <3>1. \A p \in before : p.visit # v
      BY <2>8 DEF Takes, Visits
    <3>2. \A p \in R(S) : p \in before \/ (p = [task |-> t, visit |-> v] /\ p.task = t /\ p.visit = v)
      BY <2>8, PairOf DEF With
    <3> HIDE DEF R
    <3>3. Paired(R(S))
      BY <3>1, <3>2, <2>5, <2>6 DEF Paired
    <3> QED
      BY <3>3, <2>2
  <2> HIDE DEF R
  <2> QED
    BY <2>4, <2>7, <2>8, TakeIs
<1> QED
  BY <1>1

\* Whatever is free for a task afterwards was free for it when its turn came.
LEMMA PassLeaves ==
    ASSUME NEW T, InOrder(T), NEW seen, InTurn(seen), NEW anyTime, NEW base
    PROVE  \A S \in SUBSET T : \A t \in S :
               t \in Tasks(Pass(S, seen, anyTime, base)) \/ Free(t, seen, anyTime, Pass(S, seen, anyTime, base)) = {}
<1> DEFINE R(S) == Pass(S, seen, anyTime, base)
           Fine(S) == \A t \in S : t \in Tasks(R(S)) \/ Free(t, seen, anyTime, R(S)) = {}
           Bad == {S \in SUBSET T : ~Fine(S)}
<1>1. ASSUME Bad # {} PROVE FALSE
  <2>1. PICK S \in Bad : \A x \in S : S \ {x} \in SUBSET T /\ S \ {x} \notin Bad
    <3>1. Bad \in SUBSET SUBSET T /\ IsFiniteSet(T)
      BY DEF InOrder
    <3> HIDE DEF Bad
    <3> QED
      BY <3>1, <1>1, SmallestSet
  <2>2. InOrder(S) /\ ~Fine(S) /\ S \in SUBSET T
    BY <2>1, OrderWithin
  <2>3. S # {}
    BY <2>2
  <2> DEFINE t == Last(S)
             before == R(S \ {t})
  <2>4. t \in S /\ R(S) = Take(t, seen, anyTime, before)
    BY <2>2, <2>3, LastIs, PassOfLast
  <2>5. \A u \in S \ {t} : u \in Tasks(before) \/ Free(u, seen, anyTime, before) = {}
    <3>1. Fine(S \ {t})
      BY <2>1, <2>4
    <3> QED
      BY <3>1
  <2> HIDE DEF t, before, Fine
  <2>6. CASE Free(t, seen, anyTime, before) = {} /\ R(S) = before
    BY <2>6, <2>5, <2>2 DEF Fine
  <2>7. ASSUME NEW v, NEW after, after = With(before, t, v), R(S) = after
        PROVE  FALSE
    <3>1. Tasks(after) = Tasks(before) \cup {t} /\ Visits(after) = Visits(before) \cup {v}
      <4>1. Tasks(With(before, t, v)) = Tasks(before) \cup {t} /\ Visits(With(before, t, v)) = Visits(before) \cup {v}
        BY WithIs
      <4> QED
        BY <2>7, <4>1, Zenon
    <3>2. \A u : Free(u, seen, anyTime, after) \subseteq Free(u, seen, anyTime, before)
      BY <3>1 DEF Free
    <3> HIDE DEF R
    <3>3. \A u \in S : u \in Tasks(after) \/ Free(u, seen, anyTime, after) = {}
      BY <3>1, <3>2, <2>5
    <3> QED
      BY <3>3, <2>2, <2>7 DEF Fine
  <2> HIDE DEF R
  <2> QED
    <3>1. \/ Free(t, seen, anyTime, before) = {} /\ Take(t, seen, anyTime, before) = before
          \/ \E v : Take(t, seen, anyTime, before) = With(before, t, v)
      BY TakeIs
    <3> QED
      BY <3>1, <2>4, <2>6, <2>7
<1>2. \A S \in SUBSET T : Fine(S)
  BY <1>1
<1> QED
  BY <1>2

-----------------------------------------------------------------------------
(* What the pairing of a day is.                                           *)

InTime(T, V) == Pass(T, V, FALSE, {})

\* The first pass and the second.
LEMMA MatchIs ==
    ASSUME NEW T, NEW V
    PROVE  Match(T, V) = Pass(T \ Tasks(InTime(T, V)), V, TRUE, InTime(T, V))
BY Zenon DEF Match, InTime

\* What the first pass pairs: tasks with visits in their windows.
LEMMA InTimeIs ==
    ASSUME NEW T, InOrder(T), NEW V, InTurn(V)
    PROVE  /\ \A p \in InTime(T, V) : Pair(p, T, V, FALSE)
           /\ Paired(InTime(T, V))
           /\ \A t \in T \ Tasks(InTime(T, V)) : Free(t, V, FALSE, InTime(T, V)) = {}
<1>1. Paired({})
  BY DEF Paired
<1>2. T \in SUBSET T
  OBVIOUS
<1>3. \A p \in InTime(T, V) \ {} : Pair(p, T, V, FALSE)
  BY <1>2, PassPairs DEF InTime
<1>4. Paired(InTime(T, V))
  BY <1>1, <1>2, PassMatches DEF InTime
<1>5. \A t \in T : t \in Tasks(InTime(T, V)) \/ Free(t, V, FALSE, InTime(T, V)) = {}
  BY <1>2, PassLeaves DEF InTime
<1> QED
  BY <1>3, <1>4, <1>5

\* What both do: nobody is paired twice, and a task without a visit leaves none at its building.
LEMMA MatchesAre ==
    ASSUME NEW T, InOrder(T), NEW V, InTurn(V)
    PROVE  /\ InTime(T, V) \subseteq Match(T, V)
           /\ \A p \in Match(T, V) \ InTime(T, V) : Pair(p, T \ Tasks(InTime(T, V)), V, TRUE)
           /\ \A p \in Match(T, V) : Pair(p, T, V, TRUE)
           /\ Paired(Match(T, V))
           /\ \A t \in T \ Tasks(Match(T, V)) : Free(t, V, TRUE, Match(T, V)) = {}
<1> DEFINE I == InTime(T, V)
           M == Match(T, V)
           rest == T \ Tasks(I)
<1>1. InOrder(rest)
  BY OrderWithin
<1>2. M = Pass(rest, V, TRUE, I)
  BY MatchIs
<1>3. /\ \A p \in I : Pair(p, T, V, FALSE)
      /\ Paired(I)
  BY InTimeIs
<1>4. rest \in SUBSET rest /\ \A p \in I : p.task \notin rest
  BY DEF Tasks
<1> HIDE DEF I, M, rest
<1>5. I \subseteq M /\ \A p \in M \ I : Pair(p, rest, V, TRUE)
  BY <1>1, <1>2, <1>4, PassPairs
<1>6. Paired(M)
  BY <1>1, <1>2, <1>3, <1>4, PassMatches
<1>7. \A t \in rest : t \in Tasks(M) \/ Free(t, V, TRUE, M) = {}
  BY <1>1, <1>2, <1>4, PassLeaves
<1>8. \A p \in M : Pair(p, T, V, TRUE)
  BY <1>3, <1>5 DEF Pair, rest
<1>9. \A t \in T \ Tasks(M) : t \in rest
  BY <1>5 DEF rest, Tasks
<1> QED
  BY <1>5, <1>6, <1>7, <1>8, <1>9 DEF I, M, rest

\* A task is visited outside its window only for want of a visit in it.
LEMMA OutsideIs ==
    ASSUME NEW T, InOrder(T), NEW V, InTurn(V),
           NEW p \in Match(T, V), ~InWindow(p.task, p.visit), NEW v \in V, v.b = p.task.b, InWindow(p.task, v)
    PROVE  \E q \in Match(T, V) : InWindow(q.task, q.visit) /\ q.visit = v
<1> DEFINE I == InTime(T, V)
<1>1. \A q \in I : Pair(q, T, V, FALSE)
  BY InTimeIs
<1>2. p \notin I
  BY <1>1 DEF Pair
<1>3. p.task \in T \ Tasks(I)
  BY <1>2, MatchesAre DEF Pair
<1>4. Free(p.task, V, FALSE, I) = {}
  BY <1>3, InTimeIs
<1>5. v \in Visits(I)
  BY <1>4 DEF Free
<1>6. PICK q \in I : q.visit = v
  BY <1>5 DEF Visits
<1>7. q \in Match(T, V)
  BY <1>6, MatchesAre
<1>8. InWindow(q.task, q.visit)
  BY <1>1, <1>6 DEF Pair
<1> QED
  BY <1>6, <1>7, <1>8

\* A set is as large as what an injection makes of it, if that is finite.
LEMMA AsMany ==
    ASSUME NEW S, NEW T, IsFiniteSet(T), NEW g \in [S -> T],
           \A p \in S : \A q \in S : g[p] = g[q] => p = q
    PROVE  IsFiniteSet(S) /\ Cardinality({g[p] : p \in S}) = Cardinality(S)
<1> DEFINE image == {g[p] : p \in S}
<1>1. IsFiniteSet(image)
  BY FS_Subset
<1>2. g \in Bijection(S, image)
  BY DEF Bijection, Injection, Surjection, IsInjective
<1>3. ExistsBijection(S, image)
  BY <1>2 DEF ExistsBijection
<1>4. ExistsBijection(image, S)
  BY <1>3, Fun_ExistsBijSymmetric
<1> HIDE DEF image
<1>5. IsFiniteSet(S) /\ Cardinality(image) = Cardinality(S)
  BY <1>1, <1>4, FS_Bijection
<1> QED
  BY <1>5 DEF image

\* Pairs, their tasks and their visits are as many.
LEMMA PairsCounted ==
    ASSUME NEW S, NEW T, IsFiniteSet(T), NEW V, IsFiniteSet(V), Paired(S),
           \A p \in S : p.task \in T /\ p.visit \in V
    PROVE  /\ IsFiniteSet(S)
           /\ Cardinality(Tasks(S)) = Cardinality(S)
           /\ Cardinality(Visits(S)) = Cardinality(S)
<1> DEFINE f == [p \in S |-> p.task]
           g == [p \in S |-> p.visit]
<1>1. f \in [S -> T] /\ g \in [S -> V]
  OBVIOUS
<1>2. /\ \A p \in S : \A q \in S : f[p] = f[q] => p = q
      /\ \A p \in S : \A q \in S : g[p] = g[q] => p = q
  BY DEF Paired
<1>3. Tasks(S) = {f[p] : p \in S} /\ Visits(S) = {g[p] : p \in S}
  BY DEF Tasks, Visits
<1> HIDE DEF f, g
<1> QED
  BY <1>1, <1>2, <1>3, AsMany

-----------------------------------------------------------------------------
(* A further visit takes nothing away.                                     *)

\* With more visits than others, and those still unused among them, no fewer tasks.
Outdoes(V, pairs, W, more) == V \ Visits(pairs) \subseteq W \ Visits(more) /\ Tasks(pairs) \subseteq Tasks(more)

\* Of two visits only one is the earlier.
LEMMA VisitsDiffer ==
    ASSUME NEW V, InTurn(V), NEW a \in V, NEW c \in V, Earlier(a, c), Earlier(c, a)
    PROVE  FALSE
BY DEF InTurn

\* The side ahead stays ahead when a task takes its turn on both.
LEMMA TakeOutdoes ==
    ASSUME NEW W, InTurn(W), NEW V \in SUBSET W, NEW anyTime, NEW pairs, NEW more, NEW a,
           Outdoes(V, pairs, W, more)
    PROVE  Outdoes(V, Take(a, V, anyTime, pairs), W, Take(a, W, anyTime, more))
<1>1. InTurn(V)
  BY FS_Subset DEF InTurn
<1>2. Free(a, V, anyTime, pairs) \subseteq Free(a, W, anyTime, more)
  BY DEF Free, Outdoes
<1>3. \A z \in Free(a, W, anyTime, more) : z \in V \ Visits(pairs) => z \in Free(a, V, anyTime, pairs)
  BY DEF Free
<1>4. CASE Free(a, V, anyTime, pairs) = {} /\ Take(a, V, anyTime, pairs) = pairs
  <2>1. CASE Take(a, W, anyTime, more) = more
    BY <1>4, <2>1
  <2>2. ASSUME NEW z \in Free(a, W, anyTime, more), Take(a, W, anyTime, more) = With(more, a, z)
        PROVE  Outdoes(V, pairs, W, Take(a, W, anyTime, more))
    <3>1. Tasks(With(more, a, z)) = Tasks(more) \cup {a} /\ Visits(With(more, a, z)) = Visits(more) \cup {z}
      BY WithIs
    <3>2. z \notin V \ Visits(pairs)
      BY <1>3, <1>4
    <3> QED
      BY <3>1, <3>2, <2>2 DEF Outdoes
  <2> QED
    BY <1>4, <2>1, <2>2, TakeIs
<1>5. ASSUME NEW y \in Free(a, V, anyTime, pairs), Takes(a, y, V, anyTime, pairs), Take(a, V, anyTime, pairs) = With(pairs, a, y)
      PROVE  Outdoes(V, Take(a, V, anyTime, pairs), W, Take(a, W, anyTime, more))
  <2>1. PICK z \in Free(a, W, anyTime, more) : Takes(a, z, W, anyTime, more) /\ Take(a, W, anyTime, more) = With(more, a, z)
    BY <1>2, <1>5, TakeIs
  <2>2. z \in V \ Visits(pairs) => z = y
    <3> SUFFICES ASSUME z \in V \ Visits(pairs), z # y PROVE FALSE
      OBVIOUS
    <3>1. Earlier(y, z)
      BY <1>3, <1>5 DEF Takes
    <3>2. Earlier(z, y)
      BY <1>2, <1>5, <2>1 DEF Takes
    <3>3. y \in W /\ z \in W
      BY <1>5 DEF Free
    <3> QED
      BY <3>1, <3>2, <3>3, VisitsDiffer
  <2>3. Tasks(With(more, a, z)) = Tasks(more) \cup {a} /\ Visits(With(more, a, z)) = Visits(more) \cup {z}
    BY WithIs
  <2>4. Tasks(With(pairs, a, y)) = Tasks(pairs) \cup {a} /\ Visits(With(pairs, a, y)) = Visits(pairs) \cup {y}
    BY WithIs
  <2>5. Outdoes(V, With(pairs, a, y), W, With(more, a, z))
    BY <2>2, <2>3, <2>4 DEF Outdoes
  <2> QED
    BY <1>5, <2>1, <2>5, Zenon
<1> QED
  BY <1>1, <1>4, <1>5, TakeIs

\* The side that is behind may also let a task take its turn alone.
LEMMA TakeBehind ==
    ASSUME NEW W, NEW V, InTurn(V), NEW anyTime, NEW pairs, NEW more, NEW a,
           Outdoes(V, pairs, W, more), a \in Tasks(more)
    PROVE  Outdoes(V, Take(a, V, anyTime, pairs), W, more)
<1>1. CASE Take(a, V, anyTime, pairs) = pairs
  BY <1>1
<1>2. ASSUME NEW y, Take(a, V, anyTime, pairs) = With(pairs, a, y)
      PROVE  Outdoes(V, Take(a, V, anyTime, pairs), W, more)
  <2>1. Tasks(With(pairs, a, y)) = Tasks(pairs) \cup {a} /\ Visits(With(pairs, a, y)) = Visits(pairs) \cup {y}
    BY WithIs
  <2> QED
    BY <1>2, <2>1 DEF Outdoes
<1> QED
  BY <1>1, <1>2, TakeIs

\* A whole pass, in which the tasks of D, and on the side ahead those of E, are
\* done already.
LEMMA PassOutdoes ==
    ASSUME NEW T, InOrder(T), NEW W, InTurn(W), NEW V \in SUBSET W, NEW anyTime, NEW base, NEW ahead,
           NEW E, NEW D \in SUBSET E, E \subseteq Tasks(ahead), Outdoes(V, base, W, ahead)
    PROVE  \A S \in SUBSET T : Outdoes(V, Pass(S \ D, V, anyTime, base), W, Pass(S \ E, W, anyTime, ahead))
<1> DEFINE F(S) == Pass(S \ D, V, anyTime, base)
           G(S) == Pass(S \ E, W, anyTime, ahead)
           Fine(S) == Outdoes(V, F(S), W, G(S))
           Bad == {S \in SUBSET T : ~Fine(S)}
<1>0. InTurn(V)
  BY FS_Subset DEF InTurn
<1>1. ASSUME Bad # {} PROVE FALSE
  <2>1. PICK S \in Bad : \A x \in S : S \ {x} \in SUBSET T /\ S \ {x} \notin Bad
    <3>1. Bad \in SUBSET SUBSET T /\ IsFiniteSet(T)
      BY DEF InOrder
    <3> HIDE DEF Bad
    <3> QED
      BY <3>1, <1>1, SmallestSet
  <2>2. ~Fine(S) /\ S \in SUBSET T
    BY <2>1
  <2>3. S # {}
    <3>1. {} \ D = {} /\ {} \ E = {}
      OBVIOUS
    <3>2. F({}) = base /\ G({}) = ahead
      BY <3>1, PassOfNone
    <3>3. Fine({})
      BY <3>2
    <3> QED
      BY <3>3, <2>2
  <2>4. PICK a \in S : a = Last(S) /\ \A u \in S \ {a} : StartsBefore(u, a)
    BY <2>2, <2>3, LastIs
  <2>5. Fine(S \ {a})
    BY <2>1
  <2>6. \A X : InOrder(S \ X) /\ (a \notin X => S \ X # {} /\ Last(S \ X) = a)
    <3> TAKE X
    <3>1. S \ X \in SUBSET T /\ InOrder(S \ X)
      BY <2>2, OrderWithin
    <3>2. ASSUME a \notin X PROVE S \ X # {} /\ Last(S \ X) = a
      <4>1. a \in S \ X
        BY <3>2
      <4>2. Last(S \ X) \in S \ X /\ \A u \in (S \ X) \ {Last(S \ X)} : StartsBefore(u, Last(S \ X))
        BY <3>1, <4>1, LastIs
      <4>3. Last(S \ X) # a => StartsBefore(a, Last(S \ X)) /\ StartsBefore(Last(S \ X), a)
        BY <4>1, <4>2, <2>4
      <4>4. ~ (StartsBefore(a, Last(S \ X)) /\ StartsBefore(Last(S \ X), a))
        BY <4>1, <4>2, <3>1 DEF InOrder
      <4> QED
        BY <4>1, <4>3, <4>4
    <3> QED
      BY <3>1, <3>2
  <2>7. \A X : a \notin X => (S \ X) \ {a} = (S \ {a}) \ X
    OBVIOUS
  <2>8. a \notin D => F(S) = Take(a, V, anyTime, F(S \ {a}))
    <3> SUFFICES ASSUME a \notin D PROVE F(S) = Take(a, V, anyTime, F(S \ {a}))
      OBVIOUS
    <3> DEFINE rest == S \ D
    <3>1. InOrder(rest) /\ rest # {} /\ Last(rest) = a
      BY <2>6
    <3>2. rest \ {a} = (S \ {a}) \ D
      BY <2>7
    <3> HIDE DEF rest
    <3>3. Pass(rest, V, anyTime, base) = Take(a, V, anyTime, Pass(rest \ {a}, V, anyTime, base))
      BY <3>1, PassOfLast
    <3> QED
      BY <3>2, <3>3 DEF rest
  <2>9. a \notin E => G(S) = Take(a, W, anyTime, G(S \ {a}))
    <3> SUFFICES ASSUME a \notin E PROVE G(S) = Take(a, W, anyTime, G(S \ {a}))
      OBVIOUS
    <3> DEFINE rest == S \ E
    <3>1. InOrder(rest) /\ rest # {} /\ Last(rest) = a
      BY <2>6
    <3>2. rest \ {a} = (S \ {a}) \ E
      BY <2>7
    <3> HIDE DEF rest
    <3>3. Pass(rest, W, anyTime, ahead) = Take(a, W, anyTime, Pass(rest \ {a}, W, anyTime, ahead))
      BY <3>1, PassOfLast
    <3> QED
      BY <3>2, <3>3 DEF rest
  <2>10. \A X : a \in X => S \ X = (S \ {a}) \ X
    OBVIOUS
  <2>11. (a \in D => F(S) = F(S \ {a})) /\ (a \in E => G(S) = G(S \ {a}))
    BY <2>10
  <2>12. a \in E => a \in Tasks(G(S \ {a}))
    <3>1. InOrder((S \ {a}) \ E)
      BY <2>2, OrderWithin
    <3>2. ahead \subseteq G(S \ {a})
      BY <3>1, PassPairs
    <3> QED
      BY <3>2 DEF Tasks
  <2>13. Fine(S)
    <3>1. CASE a \in D
      <4>1. a \in E
        BY <3>1
      <4> HIDE DEF F, G
      <4> QED
        BY <3>1, <4>1, <2>5, <2>11
    <3>2. CASE a \notin D /\ a \in E
      <4> HIDE DEF F, G
      <4>1. Outdoes(V, Take(a, V, anyTime, F(S \ {a})), W, G(S \ {a}))
        BY <3>2, <2>5, <2>12, <1>0, TakeBehind
      <4> QED
        BY <3>2, <4>1, <2>8, <2>11
    <3>3. CASE a \notin E
      <4> HIDE DEF F, G
      <4>1. Outdoes(V, Take(a, V, anyTime, F(S \ {a})), W, Take(a, W, anyTime, G(S \ {a})))
        BY <2>5, TakeOutdoes
      <4> QED
        BY <3>3, <4>1, <2>8, <2>9
    <3> QED
      BY <3>1, <3>2, <3>3
  <2> QED
    BY <2>2, <2>13
<1>2. \A S \in SUBSET T : Fine(S)
  BY <1>1
<1> QED
  BY <1>2

\* A task that has a visit has one still when there are more of them.
LEMMA MoreVisits ==
    ASSUME NEW T, InOrder(T), NEW W, InTurn(W), NEW V \in SUBSET W
    PROVE  Tasks(Match(T, V)) \subseteq Tasks(Match(T, W))
<1>1. Outdoes(V, {}, W, {})
  BY DEF Outdoes, Visits, Tasks
<1>2. {} \in SUBSET {} /\ {} \subseteq Tasks({}) /\ T \in SUBSET T /\ T \ {} = T
  OBVIOUS
<1>3. Outdoes(V, InTime(T, V), W, InTime(T, W))
  <2>1. Outdoes(V, Pass(T \ {}, V, FALSE, {}), W, Pass(T \ {}, W, FALSE, {}))
    BY <1>1, <1>2, PassOutdoes
  <2> QED
    BY <2>1, <1>2 DEF InTime
<1> DEFINE D == Tasks(InTime(T, V))
           E == Tasks(InTime(T, W))
<1>4. D \in SUBSET E /\ E \subseteq Tasks(InTime(T, W))
  BY <1>3 DEF Outdoes
<1> HIDE DEF D, E
<1>5. Outdoes(V, Pass(T \ D, V, TRUE, InTime(T, V)), W, Pass(T \ E, W, TRUE, InTime(T, W)))
  BY <1>2, <1>3, <1>4, PassOutdoes
<1>6. Outdoes(V, Match(T, V), W, Match(T, W))
  BY <1>5, MatchIs DEF D, E
<1> QED
  BY <1>6 DEF Outdoes

-----------------------------------------------------------------------------
(* A task without a visit does not matter to the others.                   *)

LEMMA LastWithout ==
    ASSUME NEW T, InOrder(T), NEW S \in SUBSET T, NEW l \in S, NEW m \in S,
           \A u \in S \ {l} : StartsBefore(u, l), \A u \in S \ {m} : StartsBefore(u, m)
    PROVE  l = m
<1>1. l # m => StartsBefore(m, l) /\ StartsBefore(l, m)
  OBVIOUS
<1>2. ~ (StartsBefore(m, l) /\ StartsBefore(l, m))
  BY Zenon DEF InOrder
<1> QED
  BY <1>1, <1>2

LEMMA PassWithout ==
    ASSUME NEW T, InOrder(T), NEW seen, InTurn(seen), NEW anyTime, NEW base
    PROVE  \A U : \A S \in SUBSET T : U \cap Tasks(Pass(S, seen, anyTime, base)) = {} =>
               Pass(S \ U, seen, anyTime, base) = Pass(S, seen, anyTime, base)
<1> TAKE U
<1> DEFINE R(S) == Pass(S, seen, anyTime, base)
           Fine(S) == U \cap Tasks(R(S)) = {} => R(S \ U) = R(S)
           Bad == {S \in SUBSET T : ~Fine(S)}
<1>1. ASSUME Bad # {} PROVE FALSE
  <2>1. PICK S \in Bad : \A x \in S : S \ {x} \in SUBSET T /\ S \ {x} \notin Bad
    <3>1. Bad \in SUBSET SUBSET T /\ IsFiniteSet(T)
      BY DEF InOrder
    <3> HIDE DEF Bad
    <3> QED
      BY <3>1, <1>1, SmallestSet
  <2>2. InOrder(S) /\ S \in SUBSET T /\ U \cap Tasks(R(S)) = {} /\ R(S \ U) # R(S)
    BY <2>1, OrderWithin
  <2>3. S # {}
    BY <2>2
  <2> DEFINE l == Last(S)
             before == R(S \ {l})
  <2>4. /\ l \in S /\ \A u \in S \ {l} : StartsBefore(u, l)
        /\ R(S) = Take(l, seen, anyTime, before)
    BY <2>2, <2>3, LastIs, PassOfLast
  <2>5. Fine(S \ {l})
    BY <2>1, <2>4
  <2> HIDE DEF l, R
  <2>6. \/ Free(l, seen, anyTime, before) = {} /\ R(S) = before
        \/ \E v : R(S) = With(before, l, v)
    BY <2>4, TakeIs
  <2>7. Tasks(before) \subseteq Tasks(R(S))
    <3>1. ASSUME NEW v, R(S) = With(before, l, v) PROVE Tasks(before) \subseteq Tasks(R(S))
      <4>1. Tasks(With(before, l, v)) = Tasks(before) \cup {l}
        BY WithIs
      <4> QED
        BY <3>1, <4>1, Zenon
    <3> QED
      BY <2>6, <3>1
  <2>8. R((S \ {l}) \ U) = before
    BY <2>2, <2>5, <2>7
  <2>9. CASE l \in U
    <3>1. (S \ {l}) \ U = S \ U
      BY <2>9
    <3>2. R(S \ U) = before
      BY <3>1, <2>8
    <3>3. l \notin Tasks(R(S))
      BY <2>2, <2>9
    <3>4. R(S) = before
      BY <2>6, <3>3, WithIs
    <3> QED
      BY <3>2, <3>4, <2>2
  <2>10. CASE l \notin U
    <3> DEFINE W == S \ U
    <3>1. l \in W /\ W \in SUBSET T /\ W # {} /\ (S \ {l}) \ U = W \ {l}
      BY <2>2, <2>4, <2>10
    <3> HIDE DEF W
    <3>2. Last(W) \in W /\ \A u \in W \ {Last(W)} : StartsBefore(u, Last(W))
      BY <3>1, LastIs
    <3>3. \A u \in W \ {l} : StartsBefore(u, l)
      BY <2>4 DEF W
    <3>4. Last(W) = l
      BY <3>1, <3>2, <3>3, LastWithout
    <3>5. InOrder(W)
      BY <3>1, OrderWithin
    <3>6. R(W) = Take(l, seen, anyTime, R(W \ {l}))
      BY <3>1, <3>4, <3>5, PassOfLast DEF R
    <3>7. R(W) = R(S)
      BY <3>1, <3>6, <2>4, <2>8, Zenon
    <3> QED
      BY <3>7, <2>2 DEF W
  <2> QED
    BY <2>9, <2>10
<1>2. \A S \in SUBSET T : Fine(S)
  BY <1>1
<1> QED
  BY <1>2

\* The pairs are the same without tasks that have no visit.
LEMMA MatchWithout ==
    ASSUME NEW T, InOrder(T), NEW V, InTurn(V), NEW U, U \cap Tasks(Match(T, V)) = {}
    PROVE  Match(T \ U, V) = Match(T, V)
<1> DEFINE I == InTime(T, V)
           rest == T \ Tasks(I)
<1>1. InOrder(T \ U) /\ InOrder(rest) /\ T \in SUBSET T /\ rest \in SUBSET rest
  BY OrderWithin
<1>2. Match(T, V) = Pass(rest, V, TRUE, I)
  BY MatchIs
<1>3. U \cap Tasks(I) = {}
  BY MatchesAre DEF Tasks
<1>4. InTime(T \ U, V) = I
  <2>1. PICK no : no = FALSE
    OBVIOUS
  <2>2. U \cap Tasks(Pass(T, V, no, {})) = {}
    BY <1>3, <2>1 DEF InTime
  <2>3. Pass(T \ U, V, no, {}) = Pass(T, V, no, {})
    BY <1>1, <2>2, PassWithout
  <2> QED
    BY <2>1, <2>3 DEF InTime
<1>5. Match(T \ U, V) = Pass((T \ U) \ Tasks(I), V, TRUE, I)
  BY <1>1, <1>4, MatchIs
<1>6. (T \ U) \ Tasks(I) = rest \ U
  OBVIOUS
<1> HIDE DEF I, rest
<1>7. Pass(rest \ U, V, TRUE, I) = Pass(rest, V, TRUE, I)
  <2>1. PICK yes : yes = TRUE
    OBVIOUS
  <2>2. U \cap Tasks(Pass(rest, V, yes, I)) = {}
    BY <1>2, <2>1
  <2>3. Pass(rest \ U, V, yes, I) = Pass(rest, V, yes, I)
    BY <1>1, <2>2, PassWithout
  <2> QED
    BY <2>1, <2>3
<1> QED
  BY <1>2, <1>5, <1>6, <1>7, Zenon

-----------------------------------------------------------------------------
(* The plan: who is planned for, and what is known of it at every moment.  *)

\* Bounds are numbers, leaders have executives, and what is asked for is of
\* the kinds of a plan's fields.
PlanSetup ==
    /\ LastDay \in Nat /\ 1 <= LastDay /\ MaxId \in Nat /\ MaxUploads \in Nat /\ MaxVisits \in Nat /\ Minute \subseteq Nat
    /\ IsFiniteSet(Executive) /\ Team \in [Leader -> SUBSET Executive]
    /\ \A win \in Windows : win.allDay \in BOOLEAN /\ win.from \in Nat /\ win.to \in Nat
    /\ Wishes \subseteq [who : Person, b : Building, day : Nat, win : Windows]
    /\ \A patch \in Patches : patch.win \in Windows \cup {Keep}
    /\ Sheets \subseteq Seq([who : Person, b : Building, days : SUBSET Day, win : Windows])

PlanOf(ts) == \E S \in SUBSET Id : ts \in [S -> Task]

\* Nobody checks in ahead of time, and a person's check-ins are numbered as they come.
VisitsFit ==
    /\ IsFiniteSet(visits)
    /\ \A v \in visits : v.day <= today /\ v.id \in 1 .. Cardinality(visits)
    /\ \A v \in visits : \A w \in visits : v.id = w.id /\ v.who = w.who => v = w

PlanInv == TypeOK /\ VisitsFit /\ PlanHasNoTwins

\* The tasks of a person and day as they are paired.
TaskOf(ts, i) == [id |-> i, b |-> ts[i].b, win |-> ts[i].win]
TaskSet(ts, p, d) == {TaskOf(ts, i) : i \in On(ts, p, d)}

LEMMA PairsAre == \A ts, p, d : PairsOf(ts, p, d) = Match(TaskSet(ts, p, d), VisitsOf(p, d))
BY Zenon DEF PairsOf, TaskSet, TaskOf

LEMMA TaskIs ==
    \A ts, i : TaskOf(ts, i).id = i /\ TaskOf(ts, i).b = ts[i].b /\ TaskOf(ts, i).win = ts[i].win
BY DEF TaskOf

LEMMA TaskParts ==
    ASSUME PlanSetup, NEW ts, PlanOf(ts), NEW i \in DOMAIN ts
    PROVE  /\ i \in Nat /\ i \in Id /\ ts[i] \in Task
           /\ ts[i].who \in Person /\ ts[i].b \in Building /\ ts[i].day \in Day /\ ts[i].win \in Windows
           /\ ts[i].series \in Id \cup {None} /\ ts[i].upload \in Upload \cup {None}
<1>1. PICK S \in SUBSET Id : ts \in [S -> Task]
  BY DEF PlanOf
<1>2. i \in Id /\ ts[i] \in Task
  BY <1>1
<1>3. i \in Nat
  BY <1>2 DEF Id, PlanSetup
<1> QED
  BY <1>2, <1>3 DEF Task

\* A person's tasks of a day are in order,
LEMMA DayInOrder ==
    ASSUME PlanSetup, NEW ts, PlanOf(ts), NEW p, NEW d
    PROVE  InOrder(TaskSet(ts, p, d))
<1> DEFINE T == TaskSet(ts, p, d)
<1>1. \A t \in T : \E i \in On(ts, p, d) : t = TaskOf(ts, i) /\ i \in DOMAIN ts
  BY DEF TaskSet, On
<1>2. IsFiniteSet(T)
  <2> DEFINE f == [i \in On(ts, p, d) |-> TaskOf(ts, i)]
  <2>1. f \in Surjection(On(ts, p, d), T)
    BY DEF Surjection, TaskSet
  <2>2. On(ts, p, d) \subseteq Id
    BY TaskParts DEF On
  <2>3. IsFiniteSet(Id)
    BY FS_Interval DEF Id, PlanSetup
  <2>4. IsFiniteSet(On(ts, p, d))
    BY <2>2, <2>3, FS_Subset
  <2> QED
    BY <2>1, <2>4, FS_Surjection
<1>3. \A t \in T : t.id \in Nat /\ t.win.allDay \in BOOLEAN /\ t.win.from \in Nat /\ t.win.to \in Nat
  <2> SUFFICES ASSUME NEW t \in T PROVE t.id \in Nat /\ t.win.allDay \in BOOLEAN /\ t.win.from \in Nat /\ t.win.to \in Nat
    OBVIOUS
  <2>1. PICK i \in On(ts, p, d) : t = TaskOf(ts, i) /\ i \in DOMAIN ts
    BY <1>1
  <2>2. i \in Nat /\ ts[i].win \in Windows
    BY <2>1, TaskParts
  <2> QED
    BY <2>1, <2>2, TaskIs DEF PlanSetup
<1>4. \A t \in T : \A u \in T : t.id = u.id => t = u
  BY <1>1, TaskIs
<1> HIDE DEF T
<1>5. \A t \in T : ~StartsBefore(t, t)
  BY <1>3 DEF StartsBefore
<1>6. \A t \in T : \A u \in T : t # u => StartsBefore(t, u) \/ StartsBefore(u, t)
  BY <1>3, <1>4 DEF StartsBefore
<1>7. \A t \in T : \A u \in T : \A w \in T : StartsBefore(t, u) /\ StartsBefore(u, w) => StartsBefore(t, w)
  BY <1>3 DEF StartsBefore
<1> QED
  BY <1>2, <1>5, <1>6, <1>7 DEF InOrder, T

\* and the visits.
LEMMA DayInTurn ==
    ASSUME PlanSetup, NEW V \in SUBSET visits, visits \subseteq Visit, IsFiniteSet(visits), NEW p,
           \A v \in visits : \A w \in visits : v.id = w.id /\ v.who = w.who => v = w,
           \A v \in V : v.who = p
    PROVE  InTurn(V)
<1>0. IsFiniteSet(V)
  BY FS_Subset
<1>1. ASSUME NEW v \in V PROVE v.id \in Nat /\ v.at \in Nat
  <2>1. v \in Visit
    OBVIOUS
  <2>2. v.id \in 1 .. MaxVisits /\ v.at \in Minute
    BY <2>1 DEF Visit
  <2>3. MaxVisits \in Nat /\ Minute \subseteq Nat
    BY DEF PlanSetup
  <2>4. \A n \in 1 .. MaxVisits : n \in Nat
    BY <2>3
  <2> QED
    BY <2>2, <2>3, <2>4, Zenon
<1>2. \A v \in V : \A w \in V : v.id = w.id => v = w
  OBVIOUS
<1>3. \A t \in V : ~Earlier(t, t)
  BY <1>1 DEF Earlier
<1>4. \A t \in V : \A u \in V : t # u => Earlier(t, u) \/ Earlier(u, t)
  BY <1>1, <1>2 DEF Earlier
<1>5. \A t \in V : \A u \in V : \A w \in V : Earlier(t, u) /\ Earlier(u, w) => Earlier(t, w)
  BY <1>1 DEF Earlier
<1> QED
  BY <1>0, <1>3, <1>4, <1>5 DEF InTurn

LEMMA VisitsAreInTurn ==
    ASSUME PlanSetup, TypeOK, VisitsFit, NEW p, NEW d
    PROVE  InTurn(VisitsOf(p, d))
<1>1. VisitsOf(p, d) \in SUBSET visits /\ \A v \in VisitsOf(p, d) : v.who = p
  BY DEF VisitsOf
<1> QED
  BY <1>1, DayInTurn DEF TypeOK, VisitsFit

-----------------------------------------------------------------------------
(* Tasks with a visit.                                                     *)

\* A task's visit is its person's, of its day and at its building.
LEMMA WorkedBy ==
    ASSUME PlanSetup, TypeOK, VisitsFit, NEW ts, PlanOf(ts), NEW i \in VisitedIds(ts)
    PROVE  /\ i \in DOMAIN ts
           /\ \E v \in visits : v.who = ts[i].who /\ v.day = ts[i].day /\ v.b = ts[i].b
<1>1. PICK v \in visits : i \in {t.id : t \in Tasks(PairsOf(ts, v.who, v.day))}
  BY DEF VisitedIds
<1>2. PICK q \in PairsOf(ts, v.who, v.day) : i = q.task.id
  BY <1>1 DEF Tasks
<1> DEFINE T == TaskSet(ts, v.who, v.day)
           V == VisitsOf(v.who, v.day)
<1>3. InOrder(T) /\ InTurn(V)
  BY DayInOrder, VisitsAreInTurn
<1>4. q \in Match(T, V)
  BY <1>2, PairsAre
<1> HIDE DEF T, V
<1>5. q.task \in T /\ q.visit \in V /\ q.visit.b = q.task.b
  <2>1. \A x \in Match(T, V) : Pair(x, T, V, TRUE)
    BY <1>3, MatchesAre, Zenon
  <2>2. Pair(q, T, V, TRUE)
    BY <1>4, <2>1, Zenon
  <2> QED
    BY <2>2, Zenon DEF Pair
<1>6. PICK j \in On(ts, v.who, v.day) : q.task = TaskOf(ts, j)
  BY <1>5 DEF T, TaskSet
<1>7. i = j /\ q.task.b = ts[i].b
  BY <1>2, <1>6, TaskIs
<1>8. i \in DOMAIN ts /\ ts[i].who = v.who /\ ts[i].day = v.day
  BY <1>6, <1>7 DEF On
<1>9. q.visit \in visits /\ q.visit.who = v.who /\ q.visit.day = v.day
  BY <1>5 DEF V, VisitsOf
<1> QED
  BY <1>5, <1>7, <1>8, <1>9

LEMMA WithoutIs ==
    \A ts, U : /\ DOMAIN Without(ts, U) = DOMAIN ts \ U
               /\ \A i \in DOMAIN ts \ U : Without(ts, U)[i] = ts[i]
BY DEF Without, Restrict

LEMMA WithoutIsPlan ==
    ASSUME NEW ts, PlanOf(ts), NEW U
    PROVE  PlanOf(Without(ts, U))
<1>1. PICK S \in SUBSET Id : ts \in [S -> Task]
  BY DEF PlanOf
<1>2. Without(ts, U) \in [S \ U -> Task]
  BY <1>1 DEF Without, Restrict
<1> QED
  BY <1>2 DEF PlanOf

\* The tasks that have a visit have it without those that have none.
LEMMA VisitedWithout ==
    ASSUME PlanSetup, TypeOK, VisitsFit, NEW ts, PlanOf(ts), NEW U, U \cap VisitedIds(ts) = {}
    PROVE  VisitedIds(Without(ts, U)) = VisitedIds(ts)
<1> DEFINE rest == Without(ts, U)
<1>1. ASSUME NEW v \in visits PROVE PairsOf(rest, v.who, v.day) = PairsOf(ts, v.who, v.day)
  <2> DEFINE T == TaskSet(ts, v.who, v.day)
             V == VisitsOf(v.who, v.day)
             X == {t \in T : t.id \in U}
  <2>1. TaskSet(rest, v.who, v.day) = T \ X
    <3>0. DOMAIN rest = DOMAIN ts \ U /\ \A i \in DOMAIN rest : rest[i] = ts[i]
      BY WithoutIs
    <3> HIDE DEF rest
    <3>1. On(rest, v.who, v.day) = On(ts, v.who, v.day) \ U
      BY <3>0 DEF On
    <3>2. \A i \in On(rest, v.who, v.day) : TaskOf(rest, i) = TaskOf(ts, i)
      BY <3>0 DEF On, TaskOf
    <3>3. \A i \in On(ts, v.who, v.day) : TaskOf(ts, i) \in X <=> i \in U
      BY TaskIs DEF TaskSet
    <3> QED
      BY <3>1, <3>2, <3>3 DEF TaskSet
  <2>2. InOrder(T) /\ InTurn(V)
    BY DayInOrder, VisitsAreInTurn
  <2>3. PairsOf(ts, v.who, v.day) = Match(T, V) /\ PairsOf(rest, v.who, v.day) = Match(T \ X, V)
    BY <2>1, PairsAre
  <2>4. X \cap Tasks(Match(T, V)) = {}
    <3>1. \A t \in Tasks(Match(T, V)) : t.id \in VisitedIds(ts)
      BY <2>3 DEF VisitedIds
    <3> QED
      BY <3>1
  <2> HIDE DEF T, V, X
  <2> QED
    BY <2>2, <2>3, <2>4, MatchWithout
<1> HIDE DEF rest
<1>2. VisitedIds(rest) = VisitedIds(ts)
  BY <1>1 DEF VisitedIds
<1> QED
  BY <1>2 DEF rest

\* Tasks at whose building their person has not been on their day have no visit.
Unworked(ts, U) == \A i \in U : \A v \in visits : ~(v.who = ts[i].who /\ v.day = ts[i].day /\ v.b = ts[i].b)

LEMMA UnworkedIs ==
    ASSUME PlanSetup, TypeOK, VisitsFit, NEW ts, PlanOf(ts), NEW U, Unworked(ts, U)
    PROVE  U \cap VisitedIds(ts) = {}
BY WorkedBy DEF Unworked

LEMMA StrandedIsUnworked ==
    ASSUME PlanSetup, TypeOK, VisitsFit, NEW ts, PlanOf(ts), NEW b, NEW who
    PROVE  Unworked(ts, StrandedTasks(ts, b, who))
<1> SUFFICES ASSUME NEW i \in StrandedTasks(ts, b, who), NEW v \in visits,
                    v.who = ts[i].who, v.day = ts[i].day, v.b = ts[i].b
             PROVE  FALSE
  BY DEF Unworked
<1>1. i \in DOMAIN ts /\ ts[i].day >= today /\ ~(ts[i].day = today /\ VisitedToday(ts[i].who, ts[i].b)) /\ ts[i].b = b
  BY DEF StrandedTasks
<1>2. v.day <= today /\ today \in Int /\ ts[i].day \in Int
  <2>1. v.day <= today
    BY DEF VisitsFit
  <2>2. today \in Day
    BY DEF TypeOK
  <2>3. ts[i].day \in Day
    BY <1>1, TaskParts
  <2> QED
    BY <2>1, <2>2, <2>3 DEF Day
<1>3. ts[i].day = today
  BY <1>1, <1>2
<1>4. VisitedToday(ts[i].who, ts[i].b)
  BY <1>3 DEF VisitedToday, VisitsOf
<1> QED
  BY <1>1, <1>3, <1>4


-----------------------------------------------------------------------------
(* What a request plans, over the tasks there are.                         *)

LEMMA OverIs ==
    \A f, g : /\ DOMAIN Over(f, g) = DOMAIN f \cup DOMAIN g
              /\ \A i \in DOMAIN f : Over(f, g)[i] = f[i]
              /\ \A i \in DOMAIN g \ DOMAIN f : Over(f, g)[i] = g[i]
BY DEF Over

LEMMA OverIsPlan ==
    ASSUME NEW f, PlanOf(f), NEW g, PlanOf(g)
    PROVE  PlanOf(Over(f, g))
<1>1. PICK S \in SUBSET Id : f \in [S -> Task]
  BY DEF PlanOf
<1>2. PICK R \in SUBSET Id : g \in [R -> Task]
  BY DEF PlanOf
<1>3. Over(f, g) \in [S \cup R -> Task]
  BY <1>1, <1>2 DEF Over
<1> QED
  BY <1>3 DEF PlanOf

LEMMA OverOthers ==
    \A f, g : Over(f, Without(g, DOMAIN f)) = Over(f, g)
BY DEF Over, Without, Restrict

LEMMA VisitedAreThere ==
    ASSUME PlanSetup, TypeOK, VisitsFit, NEW ts, PlanOf(ts)
    PROVE  VisitedIds(ts) \subseteq DOMAIN ts
BY WorkedBy

LEMMA TasksArePlan == ASSUME TypeOK PROVE PlanOf(tasks)
BY DEF TypeOK, PlanOf

\* What is planned where no task with a visit is, and takes no visit of another,
\* leaves the tasks with a visit theirs, though tasks without one go.
LEMMA PlannedOver ==
    ASSUME PlanSetup, TypeOK, VisitsFit, NEW landing, PlanOf(landing),
           DOMAIN landing \cap VisitedIds(tasks) = {}, CheckTargetDays(landing),
           NEW U, Unworked(Over(landing, tasks), U)
    PROVE  /\ VisitedIds(tasks) \subseteq VisitedIds(Without(Over(landing, tasks), U))
           /\ \A i \in VisitedIds(tasks) : /\ i \in DOMAIN Without(Over(landing, tasks), U)
                                           /\ Without(Over(landing, tasks), U)[i] = tasks[i]
<1> DEFINE new == Over(landing, tasks)
           left == Without(new, U)
           others == Without(tasks, DOMAIN landing)
<1>1. PlanOf(tasks) /\ PlanOf(new)
  BY TasksArePlan, OverIsPlan
<1>2. VisitedIds(others) = VisitedIds(tasks)
  BY <1>1, VisitedWithout
<1>3. VisitedIds(others) \subseteq VisitedIds(Over(landing, others))
  BY DEF CheckTargetDays
<1>4. Over(landing, others) = new
  BY OverOthers
<1>5. U \cap VisitedIds(new) = {}
  BY <1>1, UnworkedIs
<1> HIDE DEF others
<1>6. VisitedIds(tasks) \subseteq VisitedIds(new)
  BY <1>2, <1>3, <1>4, Zenon
<1>7. VisitedIds(left) = VisitedIds(new)
  BY <1>1, <1>5, VisitedWithout
<1>8. \A i \in VisitedIds(tasks) : i \in DOMAIN tasks /\ i \notin DOMAIN landing /\ i \notin U
  BY <1>1, <1>5, <1>6, VisitedAreThere
<1>9. /\ DOMAIN new = DOMAIN landing \cup DOMAIN tasks
      /\ \A i \in DOMAIN tasks \ DOMAIN landing : new[i] = tasks[i]
  BY DEF Over
<1>10. DOMAIN left = DOMAIN new \ U /\ \A i \in DOMAIN new \ U : left[i] = new[i]
  BY WithoutIs, Zenon
<1> HIDE DEF new, left
<1>11. \A i \in VisitedIds(tasks) : i \in DOMAIN left /\ left[i] = tasks[i]
  BY <1>8, <1>9, <1>10
<1> QED
  BY <1>6, <1>7, <1>11 DEF new, left

\* Nobody has a task twice.
NoTwins(ts) == \A i, j \in DOMAIN ts : KeyOf(ts[i]) = KeyOf(ts[j]) => i = j

LEMMA TwinsWithout ==
    ASSUME NEW ts, NoTwins(ts), NEW U
    PROVE  NoTwins(Without(ts, U))
<1> DEFINE left == Without(ts, U)
<1>1. DOMAIN left = DOMAIN ts \ U /\ \A i \in DOMAIN left : left[i] = ts[i]
  BY DEF Without, Restrict
<1> HIDE DEF left
<1>2. NoTwins(left)
  BY <1>1 DEF NoTwins
<1> QED
  BY <1>2 DEF left

\* What is planned is planned for nobody twice.
LEMMA TwinsOver ==
    ASSUME NoTwins(tasks), NEW landing, CheckTargetDays(landing)
    PROVE  NoTwins(Over(landing, tasks))
<1> DEFINE new == Over(landing, tasks)
           others == Without(tasks, DOMAIN landing)
<1>1. \A i \in DOMAIN landing : \A j \in DOMAIN landing \cup DOMAIN others :
          i # j => KeyOf(landing[i]) # KeyOf(Over(landing, others)[j])
  BY Zenon DEF CheckTargetDays
<1>2. Over(landing, others) = new
  BY OverOthers
<1>3. DOMAIN others = DOMAIN tasks \ DOMAIN landing
  BY DEF Without, Restrict
<1>4. /\ DOMAIN new = DOMAIN landing \cup DOMAIN tasks
      /\ \A i \in DOMAIN landing : new[i] = landing[i]
      /\ \A i \in DOMAIN tasks \ DOMAIN landing : new[i] = tasks[i]
  BY DEF Over
<1> HIDE DEF new, others
<1>5. \A i \in DOMAIN landing : \A j \in DOMAIN new : i # j => KeyOf(new[i]) # KeyOf(new[j])
  BY <1>1, <1>2, <1>3, <1>4
<1>6. \A i, j \in DOMAIN tasks \ DOMAIN landing : KeyOf(new[i]) = KeyOf(new[j]) => i = j
  BY <1>4 DEF NoTwins
<1>7. NoTwins(new)
  BY <1>4, <1>5, <1>6 DEF NoTwins
<1> QED
  BY <1>7 DEF new

\* The step of a request that planned so.
WorkKept(now) ==
    /\ \A i \in VisitedIds(tasks) : i \in DOMAIN now /\ now[i] = tasks[i]
    /\ \A i \in DOMAIN now : (i \notin DOMAIN tasks \/ tasks[i] # now[i]) => now[i].day >= today

LEMMA PlannedIsKept ==
    ASSUME PlanSetup, TypeOK, VisitsFit, NEW landing, PlanOf(landing),
           DOMAIN landing \cap VisitedIds(tasks) = {}, CheckTargetDays(landing),
           \A i \in DOMAIN landing : landing[i].day >= today,
           NEW U, Unworked(Over(landing, tasks), U)
    PROVE  /\ WorkKept(Without(Over(landing, tasks), U)) /\ PlanOf(Without(Over(landing, tasks), U))
           /\ VisitedIds(tasks) \subseteq VisitedIds(Without(Over(landing, tasks), U))
           /\ NoTwins(tasks) => NoTwins(Without(Over(landing, tasks), U))
<1> DEFINE new == Over(landing, tasks)
           left == Without(new, U)
<1>0. NoTwins(tasks) => NoTwins(left)
  BY TwinsOver, TwinsWithout
<1>1. PlanOf(left)
  BY TasksArePlan, OverIsPlan, WithoutIsPlan
<1>2. /\ VisitedIds(tasks) \subseteq VisitedIds(left)
      /\ \A i \in VisitedIds(tasks) : i \in DOMAIN left /\ left[i] = tasks[i]
  BY PlannedOver
<1>5. /\ DOMAIN new = DOMAIN landing \cup DOMAIN tasks
      /\ \A i \in DOMAIN landing : new[i] = landing[i]
      /\ \A i \in DOMAIN tasks \ DOMAIN landing : new[i] = tasks[i]
  BY DEF Over
<1>6. DOMAIN left = DOMAIN new \ U /\ \A i \in DOMAIN new \ U : left[i] = new[i]
  BY WithoutIs, Zenon
<1> HIDE DEF left, new
<1>3. ASSUME NEW i \in DOMAIN left, i \notin DOMAIN tasks \/ tasks[i] # left[i]
      PROVE  left[i].day >= today
  <2>1. i \in DOMAIN landing
    BY <1>3, <1>5, <1>6
  <2>2. left[i] = landing[i]
    BY <2>1, <1>5, <1>6
  <2> QED
    BY <2>1, <2>2
<1>4. WorkKept(left)
  BY <1>2, <1>3 DEF WorkKept
<1> QED
  BY <1>0, <1>1, <1>2, <1>4 DEF left, new

\* Tasks without a visit go.
LEMMA DroppedIsKept ==
    ASSUME PlanSetup, TypeOK, VisitsFit, NEW U, U \cap VisitedIds(tasks) = {}
    PROVE  /\ WorkKept(Without(tasks, U)) /\ PlanOf(Without(tasks, U))
           /\ VisitedIds(tasks) = VisitedIds(Without(tasks, U))
           /\ NoTwins(tasks) => NoTwins(Without(tasks, U))
<1>1. PlanOf(tasks)
  BY TasksArePlan
<1>2. PlanOf(Without(tasks, U)) /\ VisitedIds(tasks) = VisitedIds(Without(tasks, U))
  BY <1>1, WithoutIsPlan, VisitedWithout
<1>3. \A i \in VisitedIds(tasks) : i \in DOMAIN tasks \ U
  BY <1>1, VisitedAreThere
<1>4. WorkKept(Without(tasks, U))
  BY <1>3, WithoutIs DEF WorkKept
<1> QED
  BY <1>2, <1>4, TwinsWithout

-----------------------------------------------------------------------------
(* Every request keeps the plan's types and the tasks with a visit.        *)

LEMMA MinIs ==
    ASSUME NEW S, S \subseteq Nat, S # {}
    PROVE  Min(S) \in S /\ \A x \in S : Min(S) <= x
<1>1. \E x \in S : \A y \in S : x <= y
  BY LeastNatural
<1> QED
  BY <1>1 DEF Min

LEMMA AssigneesArePeople ==
    ASSUME PlanSetup, NEW actor
    PROVE  Assignees(actor) \subseteq Person
<1>1. \A l \in Leader : Team[l] \subseteq Executive
  BY DEF PlanSetup
<1> QED
  BY <1>1 DEF Assignees, Person

LEMMA EditIs ==
    ASSUME PlanSetup, TypeOK, NEW actor, NEW t, CheckEdit(actor, t)
    PROVE  t.who \in Person /\ t.b \in Building /\ t.day \in Day /\ t.day >= today
<1>1. t.who \in Person
  BY AssigneesArePeople DEF CheckEdit
<1>2. t.b \in Building
  BY DEF CheckEdit, Assignable
<1>3. t.day \in Day \cap (today .. today + MaxUntil)
  BY DEF CheckEdit, CheckWhen
<1> QED
  BY <1>1, <1>2, <1>3

LEMMA RestFits ==
    ASSUME PlanSetup, TypeOK, VisitsFit, visits' = visits, today' = today, PlanOf(tasks'),
           holder' \in [Building -> Executive \cup {None}], uploads' \subseteq Upload
    PROVE  TypeOK' /\ VisitsFit'
<1>1. TypeOK'
  BY DEF TypeOK, PlanOf
<1>2. VisitsFit'
  BY DEF VisitsFit
<1> QED
  BY <1>1, <1>2

LEMMA VisitedNow ==
    ASSUME visits' = visits
    PROVE  VisitedIds(tasks)' = VisitedIds(tasks')
BY DEF VisitedIds, PairsOf, VisitsOf, On

\* What a hand-over drops has no visit.
LEMMA AllStrandedAreUnworked ==
    ASSUME PlanSetup, TypeOK, VisitsFit, NEW ts, PlanOf(ts), NEW pairs
    PROVE  Unworked(ts, UNION {StrandedTasks(ts, p[1], p[2]) : p \in pairs})
<1>1. \A p \in pairs : Unworked(ts, StrandedTasks(ts, p[1], p[2]))
  BY StrandedIsUnworked
<1> QED
  BY <1>1 DEF Unworked

LEMMA HandedOver ==
    ASSUME TypeOK, NEW pairs, \A p \in pairs : p[2] \in Executive
    PROVE  [b \in Building |-> IF \E p \in pairs : p[1] = b THEN (CHOOSE p \in pairs : p[1] = b)[2] ELSE holder[b]]
               \in [Building -> Executive \cup {None}]
<1> SUFFICES ASSUME NEW b \in Building
             PROVE  (IF \E p \in pairs : p[1] = b THEN (CHOOSE p \in pairs : p[1] = b)[2] ELSE holder[b])
                        \in Executive \cup {None}
  OBVIOUS
<1>1. CASE \E p \in pairs : p[1] = b
  <2>1. (CHOOSE p \in pairs : p[1] = b) \in pairs
    BY <1>1
  <2> QED
    BY <1>1, <2>1
<1>2. CASE ~ \E p \in pairs : p[1] = b
  BY <1>2 DEF TypeOK
<1> QED
  BY <1>1, <1>2

LEMMA CreateKeeps ==
    ASSUME PlanSetup, TypeOK, VisitsFit, NEW actor, NEW t \in Wishes, CreateTask(actor, t)
    PROVE  /\ TypeOK' /\ VisitsFit' /\ WorkKept(tasks') /\ (NoTwins(tasks) => NoTwins(tasks'))
           /\ VisitedIds(tasks) \subseteq VisitedIds(tasks)'
<1> DEFINE task == [who |-> t.who, b |-> t.b, day |-> t.day, win |-> t.win, series |-> None, upload |-> None]
           new == [i \in {Min(Fresh)} |-> task]
           stranded == StrandedTasks(tasks, t.b, t.who)
<1>1. /\ CheckEdit(actor, t) /\ CheckTargetDays(new)
      /\ visits' = visits /\ uploads' = uploads /\ today' = today
      /\ NeedsHandOver(t.who, t.b) => tasks' = Over(new, Without(tasks, stranded))
      /\ ~NeedsHandOver(t.who, t.b) => tasks' = Over(new, tasks)
  BY DEF CreateTask
<1>2. t.who \in Person /\ t.b \in Building /\ t.day \in Day /\ t.day >= today /\ t.win \in Windows
  <2>1. t.win \in Windows
    BY DEF PlanSetup
  <2> QED
    BY <1>1, <2>1, EditIs
<1>3. Min(Fresh) \in Id \ DOMAIN tasks
  <2>1. Fresh # {}
    BY DEF CreateTask
  <2>2. Fresh \subseteq Id
    BY DEF Fresh
  <2>3. Id \subseteq Nat
    BY DEF Id
  <2>4. Min(Fresh) \in Fresh
    BY <2>1, <2>2, <2>3, MinIs
  <2> QED
    BY <2>4 DEF Fresh
<1>4. task \in Task
  BY <1>2 DEF Task
<1>5. task.day = t.day
  OBVIOUS
<1> HIDE DEF task
<1>6. new \in [{Min(Fresh)} -> Task] /\ {Min(Fresh)} \in SUBSET Id
  BY <1>3, <1>4
<1>7. PlanOf(new) /\ DOMAIN new = {Min(Fresh)} /\ \A i \in DOMAIN new : new[i].day >= today
  BY <1>2, <1>5, <1>6 DEF PlanOf
<1>8. DOMAIN new \cap VisitedIds(tasks) = {}
  BY <1>3, <1>7, TasksArePlan, VisitedAreThere
<1>9. PlanOf(tasks) /\ PlanOf(Over(new, tasks))
  BY <1>7, TasksArePlan, OverIsPlan
<1>10. \E U : Unworked(Over(new, tasks), U) /\ tasks' = Without(Over(new, tasks), U)
  <2>1. CASE NeedsHandOver(t.who, t.b)
    <3>1. tasks' = Over(new, Without(tasks, stranded))
      BY <1>1, <2>1
    <3>2. Unworked(tasks, stranded) /\ stranded \subseteq DOMAIN tasks
      <4>1. Unworked(tasks, stranded)
        BY <1>9, StrandedIsUnworked
      <4>2. stranded \subseteq DOMAIN tasks
        BY DEF StrandedTasks
      <4> QED
        BY <4>1, <4>2
    <3> HIDE DEF stranded
    <3>3. DOMAIN new \cap stranded = {}
      BY <1>3, <1>7, <3>2
    <3> HIDE DEF new
    <3>4. \A i \in stranded : Over(new, tasks)[i] = tasks[i]
      BY <3>2, <3>3 DEF Over
    <3>5. Unworked(Over(new, tasks), stranded)
      BY <3>2, <3>4 DEF Unworked
    <3>6. Over(new, Without(tasks, stranded)) = Without(Over(new, tasks), stranded)
      BY <3>3 DEF Over, Without, Restrict
    <3> QED
      BY <3>1, <3>5, <3>6
  <2>2. CASE ~NeedsHandOver(t.who, t.b)
    <3>1. tasks' = Over(new, tasks)
      BY <1>1, <2>2
    <3>2. Unworked(Over(new, tasks), {})
      BY DEF Unworked
    <3>3. Over(new, tasks) = Without(Over(new, tasks), {})
      BY DEF Over, Without, Restrict
    <3> QED
      BY <3>1, <3>2, <3>3
  <2> QED
    BY <2>1, <2>2
<1> HIDE DEF new
<1>11. WorkKept(tasks') /\ PlanOf(tasks') /\ (NoTwins(tasks) => NoTwins(tasks')) /\ VisitedIds(tasks) \subseteq VisitedIds(tasks')
  BY <1>1, <1>7, <1>8, <1>10, PlannedIsKept
<1>12. holder' \in [Building -> Executive \cup {None}]
  <2>1. (holder' = [holder EXCEPT ![t.b] = t.who] /\ t.who \in Executive) \/ holder' = holder
    BY DEF CreateTask, NeedsHandOver
  <2> QED
    BY <1>2, <2>1 DEF TypeOK
<1>13. uploads' \subseteq Upload
  BY <1>1 DEF TypeOK
<1> QED
  BY <1>1, <1>11, <1>12, <1>13, RestFits, VisitedNow

LEMMA TargetsAre ==
    ASSUME PlanSetup, TypeOK, VisitsFit, NEW actor, NEW i, NEW scope, Editable(actor, i)
    PROVE  Targets(actor, i, scope) \subseteq DOMAIN tasks \ VisitedIds(tasks)
<1>1. i \in DOMAIN tasks \ VisitedIds(tasks)
  BY DEF Editable
<1>2. LaterInSeries(i, Assignees(actor)) \subseteq DOMAIN tasks \ VisitedIds(tasks)
  BY DEF LaterInSeries, LaterAll
<1> QED
  BY <1>1, <1>2 DEF Targets

LEMMA PatchedIs ==
    ASSUME PlanSetup, TypeOK, NEW i \in DOMAIN tasks, NEW j \in DOMAIN tasks, NEW patch \in Patches,
           Patched(i, j, patch).who \in Person, Patched(i, j, patch).b \in Building,
           Patched(i, j, patch).day \in Day
    PROVE  Patched(i, j, patch) \in Task
<1> DEFINE old == tasks[j]
           who == Given(patch.who, old.who)
           b == Given(patch.b, old.b)
           win == Given(patch.win, old.win)
           at == IF patch.day = Keep THEN old.day ELSE old.day + patch.day - tasks[i].day
           new == [who |-> who, b |-> b, win |-> win, day |-> at, series |-> old.series, upload |-> old.upload]
<1>1. old \in Task /\ PlanOf(tasks)
  BY TasksArePlan, TaskParts
<1>2. win \in Windows
  <2>1. old.win \in Windows
    BY <1>1 DEF Task
  <2>2. patch.win \in Windows \cup {Keep}
    BY DEF PlanSetup
  <2> QED
    BY <2>1, <2>2 DEF Given
<1>3. Patched(i, j, patch) = new
  BY DEF Patched
<1> HIDE DEF old, who, b, win, at
<1>4. new.who = who /\ new.b = b /\ new.day = at
  BY <1>1 DEF Task
<1>5. who \in Person /\ b \in Building /\ at \in Day
  BY <1>3, <1>4
<1>6. new \in Task
  BY <1>1, <1>2, <1>5 DEF Task
<1> QED
  BY <1>3, <1>6

LEMMA UpdateKeeps ==
    ASSUME PlanSetup, TypeOK, VisitsFit, NEW actor, NEW i \in DOMAIN tasks, NEW scope, NEW patch \in Patches,
           UpdateTask(actor, i, scope, patch)
    PROVE  /\ TypeOK' /\ VisitsFit' /\ WorkKept(tasks') /\ (NoTwins(tasks) => NoTwins(tasks'))
           /\ VisitedIds(tasks) \subseteq VisitedIds(tasks)'
<1> DEFINE targets == Targets(actor, i, scope)
           landing == [j \in targets |-> Patched(i, j, patch)]
           moved == {j \in DOMAIN landing : landing[j].who # tasks[j].who \/ landing[j].b # tasks[j].b}
           pairs == {<<landing[j].b, landing[j].who>> : j \in {k \in moved : NeedsHandOver(landing[k].who, landing[k].b)}}
           U == UNION {StrandedTasks(Over(landing, tasks), p[1], p[2]) : p \in pairs}
<1>1. /\ Editable(actor, i) /\ CheckTargetDays(landing) /\ \A j \in DOMAIN landing : CheckEdit(actor, landing[j])
      /\ HandOver(Over(landing, tasks), pairs)
      /\ visits' = visits /\ uploads' = uploads /\ today' = today
  BY DEF UpdateTask
<1>3. targets \subseteq DOMAIN tasks \ VisitedIds(tasks) /\ DOMAIN landing = targets
  BY <1>1, TargetsAre
<1>4. \A j \in targets : landing[j] = Patched(i, j, patch)
  OBVIOUS
<1> HIDE DEF targets, landing, moved
<1>2. ASSUME NEW p \in pairs PROVE p[2] \in Executive
  <2>1. PICK k \in moved : p = <<landing[k].b, landing[k].who>> /\ NeedsHandOver(landing[k].who, landing[k].b)
    OBVIOUS
  <2>2. landing[k].who \in Executive
    BY <2>1 DEF NeedsHandOver
  <2> QED
    BY <2>1, <2>2
<1> HIDE DEF pairs
<1>5. ASSUME NEW j \in targets PROVE landing[j] \in Task /\ landing[j].day >= today
  <2>1. CheckEdit(actor, landing[j])
    BY <1>1, <1>3
  <2>2. landing[j].who \in Person /\ landing[j].b \in Building /\ landing[j].day \in Day /\ landing[j].day >= today
    BY <2>1, EditIs
  <2>3. j \in DOMAIN tasks /\ landing[j] = Patched(i, j, patch)
    BY <1>3, <1>4
  <2> QED
    BY <2>2, <2>3, PatchedIs
<1>6. PlanOf(landing)
  <2>1. landing \in [targets -> Task]
    BY <1>3, <1>5 DEF landing
  <2>2. targets \in SUBSET Id
    BY <1>3, TasksArePlan, TaskParts
  <2> QED
    BY <2>1, <2>2 DEF PlanOf
<1>7. PlanOf(Over(landing, tasks))
  BY <1>6, TasksArePlan, OverIsPlan
<1>8. Unworked(Over(landing, tasks), U)
  BY <1>7, AllStrandedAreUnworked
<1>9. tasks' = Without(Over(landing, tasks), U)
  BY <1>1 DEF HandOver
<1> HIDE DEF U
<1>10. DOMAIN landing \cap VisitedIds(tasks) = {} /\ \A j \in DOMAIN landing : landing[j].day >= today
  BY <1>3, <1>5
<1>11. WorkKept(tasks') /\ PlanOf(tasks') /\ (NoTwins(tasks) => NoTwins(tasks')) /\ VisitedIds(tasks) \subseteq VisitedIds(tasks')
  BY <1>1, <1>6, <1>8, <1>9, <1>10, PlannedIsKept
<1>12. holder' \in [Building -> Executive \cup {None}]
  BY <1>1, <1>2, HandedOver DEF HandOver
<1>13. uploads' \subseteq Upload
  BY <1>1 DEF TypeOK
<1> QED
  BY <1>1, <1>11, <1>12, <1>13, RestFits, VisitedNow

LEMMA DeleteKeeps ==
    ASSUME PlanSetup, TypeOK, VisitsFit, NEW actor, NEW i, NEW scope, DeleteTask(actor, i, scope)
    PROVE  /\ TypeOK' /\ VisitsFit' /\ WorkKept(tasks') /\ (NoTwins(tasks) => NoTwins(tasks'))
           /\ VisitedIds(tasks) \subseteq VisitedIds(tasks)'
<1>1. /\ Editable(actor, i) /\ tasks' = Without(tasks, Targets(actor, i, scope))
      /\ visits' = visits /\ uploads' = uploads /\ holder' = holder /\ today' = today
  BY DEF DeleteTask
<1>2. Targets(actor, i, scope) \cap VisitedIds(tasks) = {}
  BY <1>1, TargetsAre
<1>3. WorkKept(tasks') /\ PlanOf(tasks') /\ (NoTwins(tasks) => NoTwins(tasks')) /\ VisitedIds(tasks) = VisitedIds(tasks')
  BY <1>1, <1>2, DroppedIsKept
<1>4. holder' \in [Building -> Executive \cup {None}] /\ uploads' \subseteq Upload
  BY <1>1 DEF TypeOK
<1> QED
  BY <1>1, <1>3, <1>4, RestFits, VisitedNow

LEMMA RemoveKeeps ==
    ASSUME PlanSetup, TypeOK, VisitsFit, NEW u, RemoveUpload(u)
    PROVE  /\ TypeOK' /\ VisitsFit' /\ WorkKept(tasks') /\ (NoTwins(tasks) => NoTwins(tasks'))
           /\ VisitedIds(tasks) \subseteq VisitedIds(tasks)'
<1>1. /\ UploadTasks(u) \cap VisitedIds(tasks) = {} /\ tasks' = Without(tasks, UploadTasks(u))
      /\ visits' = visits /\ uploads' = uploads \ {u} /\ holder' = holder /\ today' = today
  BY DEF RemoveUpload
<1>2. WorkKept(tasks') /\ PlanOf(tasks') /\ (NoTwins(tasks) => NoTwins(tasks')) /\ VisitedIds(tasks) = VisitedIds(tasks')
  BY <1>1, DroppedIsKept
<1>3. holder' \in [Building -> Executive \cup {None}] /\ uploads' \subseteq Upload
  BY <1>1 DEF TypeOK
<1> QED
  BY <1>1, <1>2, <1>3, RestFits, VisitedNow

\* Of a finite set of numbers there are as many of the lowest as are wanted.
LEMMA LowestOf ==
    ASSUME NEW F, F \subseteq Nat, IsFiniteSet(F), NEW n \in Nat, n <= Cardinality(F)
    PROVE  \E S \in SUBSET F : Cardinality(S) = n /\ \A i \in S, j \in F \ S : i < j
<1> DEFINE Lowest(k, S) == Cardinality(S) = k /\ \A i \in S, j \in F \ S : i < j
           Bad == {k \in Nat : k <= Cardinality(F) /\ ~ \E S \in SUBSET F : Lowest(k, S)}
<1>0. Cardinality(F) \in Nat
  BY FS_CardinalityType
<1>1. ASSUME Bad # {} PROVE FALSE
  <2>1. PICK k \in Bad : \A m \in Bad : k <= m
    <3>1. Bad \subseteq Nat
      OBVIOUS
    <3> HIDE DEF Bad
    <3> QED
      BY <1>1, <3>1, LeastNatural
  <2>2. k \in Nat /\ k <= Cardinality(F) /\ ~ \E S \in SUBSET F : Lowest(k, S)
    BY <2>1
  <2>3. k # 0
    <3>1. Lowest(0, {})
      BY FS_EmptySet
    <3> HIDE DEF Lowest
    <3> QED
      BY <2>2, <3>1
  <2>4. k - 1 \in Nat /\ k - 1 \notin Bad
    BY <2>1, <2>2, <2>3
  <2>5. PICK S \in SUBSET F : Lowest(k - 1, S)
    BY <1>0, <2>2, <2>4
  <2>6. IsFiniteSet(S) /\ F \ S # {} /\ F \ S \subseteq Nat
    <3>1. IsFiniteSet(S)
      BY FS_Subset
    <3>2. Cardinality(S) # Cardinality(F)
      BY <1>0, <2>2, <2>5
    <3>3. S # F
      BY <3>2, Zenon
    <3> QED
      BY <3>1, <3>3
  <2>7. PICK m \in F \ S : \A j \in F \ S : m <= j
    BY <2>6, LeastNatural
  <2>8. Cardinality(S \cup {m}) = k
    <3>1. Cardinality(S \cup {m}) = Cardinality(S) + 1
      BY <2>6, <2>7, FS_AddElement
    <3>2. Cardinality(S) = k - 1
      BY <2>5
    <3> QED
      BY <2>2, <3>1, <3>2
  <2>9. \A i \in S \cup {m}, j \in F \ (S \cup {m}) : i < j
    <3>1. \A i \in S, j \in F \ S : i < j
      BY <2>5
    <3>2. \A j \in F \ S : j # m => m < j
      BY <2>7
    <3> QED
      BY <2>7, <3>1, <3>2
  <2>10. Lowest(k, S \cup {m}) /\ S \cup {m} \in SUBSET F
    BY <2>7, <2>8, <2>9
  <2> HIDE DEF Lowest
  <2> QED
    BY <2>2, <2>10
<1>2. n \notin Bad
  BY <1>1
<1> QED
  BY <1>2

\* The rows of a sheet that have a day left.
LEMMA RowsAre ==
    ASSUME PlanSetup, NEW sheet \in Sheets
    PROVE  /\ IsFiniteSet(LiveRows(sheet)) /\ LiveRows(sheet) \subseteq Nat
           /\ \A k \in LiveRows(sheet) : /\ sheet[k].who \in Person /\ sheet[k].b \in Building
                                         /\ sheet[k].win \in Windows /\ sheet[k].days \subseteq Day
<1> DEFINE Row == [who : Person, b : Building, days : SUBSET Day, win : Windows]
<1>1. sheet \in Seq(Row)
  BY DEF PlanSetup
<1> HIDE DEF Row
<1>2. LiveRows(sheet) \subseteq 1 .. Len(sheet) /\ Len(sheet) \in Nat
  BY <1>1 DEF LiveRows
<1>3. IsFiniteSet(LiveRows(sheet)) /\ LiveRows(sheet) \subseteq Nat
  <2>1. IsFiniteSet(1 .. Len(sheet))
    BY <1>2, FS_Interval
  <2> QED
    BY <1>2, <2>1, FS_Subset
<1>4. \A k \in LiveRows(sheet) : sheet[k] \in Row
  BY <1>1, <1>2
<1>5. \A r \in Row : r.who \in Person /\ r.b \in Building /\ r.win \in Windows /\ r.days \subseteq Day
  BY DEF Row
<1> QED
  BY <1>3, <1>4, <1>5

LEMMA PlannedIs ==
    ASSUME PlanSetup, TypeOK, NEW sheet \in Sheets
    PROVE  /\ IsFiniteSet(Planned(sheet, LiveRows(sheet)))
           /\ \A c \in Planned(sheet, LiveRows(sheet)) :
                 /\ c.row \in LiveRows(sheet) /\ c.day \in Day /\ c.day >= today
                 /\ c.key[1] \in Person /\ c.key[2] \in Building /\ c.key[4] \in Windows
<1> DEFINE rows == LiveRows(sheet)
           P == Planned(sheet, rows)
           made(k, d) == [row |-> k, key |-> KeyOf(RowTask(sheet, k, d)), day |-> d]
           f == [x \in rows \X Day |-> made(x[1], x[2])]
<1>1. ASSUME NEW c \in P
      PROVE  \E k \in rows, d \in Day : c = made(k, d) /\ d >= today
  <2>1. PICK k \in rows : \E d \in DaysLeft(sheet, rows, k) : c = made(k, d)
    BY DEF Planned
  <2> QED
    BY <2>1 DEF DaysLeft, DaysOf
<1>2. IsFiniteSet(P)
  <2>1. IsFiniteSet(rows \X Day)
    <3>1. IsFiniteSet(Day)
      <4>1. LastDay \in Int
        BY DEF PlanSetup
      <4> QED
        BY <4>1, FS_Interval DEF Day
    <3>2. IsFiniteSet(rows)
      BY RowsAre
    <3> HIDE DEF rows
    <3> QED
      BY <3>1, <3>2, FS_Product
  <2> DEFINE image == {f[x] : x \in rows \X Day}
  <2>2. P \subseteq image
    <3> SUFFICES ASSUME NEW c \in P PROVE c \in image
      OBVIOUS
    <3>1. PICK k \in rows, d \in Day : c = made(k, d)
      BY <1>1
    <3>2. <<k, d>> \in rows \X Day /\ f[<<k, d>>] = made(k, d)
      OBVIOUS
    <3> HIDE DEF f, made, rows
    <3> QED
      BY <3>1, <3>2
  <2>3. f \in Surjection(rows \X Day, image)
    BY DEF Surjection
  <2>4. IsFiniteSet(image)
    <3> HIDE DEF image, f, rows
    <3> QED
      BY <2>1, <2>3, FS_Surjection
  <2> QED
    BY <2>2, <2>4, FS_Subset
<1>3. ASSUME NEW c \in P
      PROVE  /\ c.row \in rows /\ c.day \in Day /\ c.day >= today
             /\ c.key[1] \in Person /\ c.key[2] \in Building /\ c.key[4] \in Windows
  <2>1. PICK k \in rows, d \in Day : c = made(k, d) /\ d >= today
    BY <1>1
  <2>2. c.row = k /\ c.day = d /\ c.key = <<sheet[k].who, sheet[k].b, d, sheet[k].win>>
    BY <2>1 DEF KeyOf, RowTask
  <2>3. sheet[k].who \in Person /\ sheet[k].b \in Building /\ sheet[k].win \in Windows
    BY RowsAre
  <2> QED
    BY <2>1, <2>2, <2>3
<1> QED
  BY <1>2, <1>3

\* What a sheet replaces has no visit.
LEMMA ReplaceableIsUnworked ==
    ASSUME PlanSetup, TypeOK, VisitsFit, NEW sheet \in Sheets
    PROVE  Unworked(tasks, Replaceable(sheet, LiveRows(sheet)))
<1> DEFINE rows == LiveRows(sheet)
<1> SUFFICES ASSUME NEW i \in Replaceable(sheet, rows), NEW v \in visits,
                    v.who = tasks[i].who, v.day = tasks[i].day, v.b = tasks[i].b
             PROVE  FALSE
  BY DEF Unworked
<1>1. i \in DOMAIN tasks /\ tasks[i].day \in Span(sheet, rows, tasks[i].who) /\ ~Kept(i)
  BY DEF Replaceable, InSpan
<1> DEFINE days == UNION {DaysOf(sheet[k]) : k \in {n \in rows : sheet[n].who = tasks[i].who}}
<1>2. days # {} /\ tasks[i].day \in Min(days) .. Max(days)
  BY <1>1 DEF Span
<1>3. today \in Day /\ Day \subseteq Nat /\ tasks[i].day \in Day
  BY <1>1, TasksArePlan, TaskParts DEF TypeOK, Day
<1>4. \A d \in days : d \in Day /\ d >= today
  BY RowsAre DEF DaysOf
<1> HIDE DEF days
<1>5. Min(days) \in days
  BY <1>2, <1>3, <1>4, MinIs
<1>6. tasks[i].day >= today
  <2>1. Min(days) >= today /\ Min(days) \in Nat
    BY <1>3, <1>4, <1>5
  <2>2. tasks[i].day >= Min(days)
    BY <1>2, <1>3
  <2>3. today \in Nat /\ tasks[i].day \in Nat
    BY <1>3
  <2> HIDE DEF rows
  <2> QED
    BY <2>1, <2>2, <2>3
<1>7. v.day <= today
  BY DEF VisitsFit
<1>8. tasks[i].day = today
  <2>1. tasks[i].day \in Nat /\ today \in Nat
    BY <1>3
  <2>2. tasks[i].day <= today
    BY <1>7
  <2> HIDE DEF rows
  <2> QED
    BY <1>6, <2>1, <2>2
<1>9. VisitedToday(tasks[i].who, tasks[i].b)
  BY <1>8 DEF VisitedToday, VisitsOf
<1> QED
  BY <1>1, <1>8, <1>9 DEF Kept

LEMMA MaxIs ==
    ASSUME NEW S, NEW n \in Nat, S \subseteq 1 .. n, S # {}
    PROVE  Max(S) \in S /\ \A x \in S : x <= Max(S)
<1> DEFINE R == {n - x : x \in S}
<1>1. R \subseteq Nat /\ R # {}
  <2>1. \A x \in S : n - x \in Nat
    OBVIOUS
  <2>2. R # {}
    OBVIOUS
  <2> QED
    BY <2>1, <2>2
<1>2. PICK y \in R : \A z \in R : y <= z
  <2> HIDE DEF R
  <2> QED
    BY <1>1, LeastNatural
<1>3. PICK x \in S : y = n - x
  BY <1>2
<1>4. \A z \in S : x >= z
  <2> SUFFICES ASSUME NEW z \in S PROVE x >= z
    OBVIOUS
  <2>1. n - z \in R /\ z \in Nat /\ x \in Nat
    OBVIOUS
  <2>2. n - x <= n - z
    BY <1>2, <1>3, <2>1
  <2> QED
    BY <2>1, <2>2
<1>5. Max(S) \in S /\ \A z \in S : Max(S) >= z
  BY <1>4 DEF Max
<1> QED
  BY <1>5

\* No two tasks that a sheet plans are the same,
LEMMA PlannedDiffer ==
    ASSUME PlanSetup, TypeOK, NEW sheet \in Sheets,
           NEW c \in Planned(sheet, LiveRows(sheet)), NEW e \in Planned(sheet, LiveRows(sheet)), c.key = e.key
    PROVE  c = e
<1> DEFINE rows == LiveRows(sheet)
           made(k, d) == [row |-> k, key |-> KeyOf(RowTask(sheet, k, d)), day |-> d]
<1>1. PICK k \in rows : \E d \in DaysLeft(sheet, rows, k) : c = made(k, d)
  BY DEF Planned
<1>2. PICK d \in DaysLeft(sheet, rows, k) : c = made(k, d)
  BY <1>1
<1>3. PICK m \in rows : \E f \in DaysLeft(sheet, rows, m) : e = made(m, f)
  BY DEF Planned
<1>4. PICK f \in DaysLeft(sheet, rows, m) : e = made(m, f)
  BY <1>3
<1>5. KeyOf(RowTask(sheet, k, d)) = KeyOf(RowTask(sheet, m, f))
  BY <1>2, <1>4
<1>6. d = f
  BY <1>5 DEF KeyOf, RowTask
<1>7. k \in Nat /\ m \in Nat
  BY RowsAre
<1>8. ~(k < m) /\ ~(m < k)
  BY <1>5, <1>6 DEF DaysLeft
<1>9. k = m
  BY <1>7, <1>8
<1> QED
  BY <1>2, <1>4, <1>6, <1>9

\* and none is one that was there and stays.
LEMMA CreatedAreNew ==
    ASSUME PlanSetup, TypeOK, NEW sheet \in Sheets, NEW c \in Creates(sheet, LiveRows(sheet)),
           NEW i \in DOMAIN tasks, KeyOf(tasks[i]) = c.key
    PROVE  i \in Replaceable(sheet, LiveRows(sheet))
<1> DEFINE rows == LiveRows(sheet)
           made(k, d) == [row |-> k, key |-> KeyOf(RowTask(sheet, k, d)), day |-> d]
           days == UNION {DaysOf(sheet[k]) : k \in {n \in rows : sheet[n].who = tasks[i].who}}
<1>1. c \in Planned(sheet, rows) /\ c.key \notin KeptKeys(sheet, rows)
  BY DEF Creates
<1>2. PICK k \in rows : \E d \in DaysLeft(sheet, rows, k) : c = made(k, d)
  BY <1>1 DEF Planned
<1>3. PICK d \in DaysLeft(sheet, rows, k) : c = made(k, d)
  BY <1>2
<1>4. tasks[i].who = sheet[k].who /\ tasks[i].day = d
  BY <1>3 DEF KeyOf, RowTask
<1>5. d \in DaysOf(sheet[k])
  BY DEF DaysLeft
<1>6. d \in days
  BY <1>4, <1>5
<1>7. days \subseteq Day /\ LastDay \in Nat
  BY RowsAre DEF DaysOf, PlanSetup
<1> HIDE DEF days
<1>8. Min(days) <= d /\ d <= Max(days)
  <2>1. days \subseteq 1 .. LastDay /\ days \subseteq Nat
    BY <1>7 DEF Day
  <2> QED
    BY <1>6, <1>7, <2>1, MinIs, MaxIs
<1>9. Min(days) \in Int /\ Max(days) \in Int /\ d \in Int
  <2>1. days \subseteq 1 .. LastDay /\ days \subseteq Nat
    BY <1>7 DEF Day
  <2>2. Min(days) \in days /\ Max(days) \in days
    BY <1>6, <1>7, <2>1, MinIs, MaxIs
  <2>3. Min(days) \in Nat /\ Max(days) \in Nat /\ d \in Nat
    BY <1>6, <2>1, <2>2, Zenon
  <2> HIDE DEF days
  <2> QED
    BY <2>3
<1>10. d \in Span(sheet, rows, tasks[i].who)
  BY <1>6, <1>8, <1>9 DEF Span, days
<1>11. i \in InSpan(sheet, rows)
  BY <1>4, <1>10 DEF InSpan
<1>12. ~Kept(i)
  BY <1>1, <1>11 DEF KeptKeys
<1> QED
  BY <1>11, <1>12 DEF Replaceable

LEMMA ManyOf ==
    ASSUME NEW F, F \subseteq Nat, IsFiniteSet(F), NEW S, IsFiniteSet(S), Cardinality(S) <= Cardinality(F)
    PROVE  Injection(S, F) # {}
<1>1. Cardinality(S) \in Nat
  BY FS_CardinalityType
<1>2. PICK R \in SUBSET F : Cardinality(R) = Cardinality(S)
  BY <1>1, LowestOf
<1>3. IsFiniteSet(R)
  BY FS_Subset
<1>4. PICK f : f \in Bijection(S, R)
  BY <1>2, <1>3, FS_SameCardinalityBij DEF ExistsBijection
<1>5. f \in Injection(S, F)
  BY <1>4 DEF Bijection, Injection
<1> QED
  BY <1>5

LEMMA PlannedKey ==
    ASSUME NEW sheet, NEW rows, NEW c \in Planned(sheet, rows)
    PROVE  c.key = <<c.key[1], c.key[2], c.day, c.key[4]>>
<1>1. PICK k \in rows : \E d \in DaysLeft(sheet, rows, k) :
                     c = [row |-> k, key |-> KeyOf(RowTask(sheet, k, d)), day |-> d]
  BY DEF Planned
<1> QED
  BY <1>1 DEF KeyOf, RowTask

LEMMA ImportKeeps ==
    ASSUME PlanSetup, TypeOK, VisitsFit, NEW actor, NEW sheet \in Sheets, Import(actor, sheet)
    PROVE  TypeOK' /\ VisitsFit' /\ WorkKept(tasks') /\ uploads' \ uploads # {} /\ (NoTwins(tasks) => NoTwins(tasks'))
<1> DEFINE u == Min(Upload \ uploads)
           rows == LiveRows(sheet)
           gone == Replaceable(sheet, rows) \cup UNION {StrandedTasks(tasks, a[1], a[2]) : a \in Assigns(sheet, rows)}
           creates == Creates(sheet, rows)
           free == CHOOSE S \in kSubset(Cardinality(creates), Fresh) : \A i \in S, j \in Fresh \ S : i < j
           at == CHOOSE f \in Bijection(creates, free) : TRUE
           numbers == Id \ {tasks[i].series : i \in DOMAIN tasks}
           series == CHOOSE f \in Injection(rows, numbers) : TRUE
           task(c) == [who |-> c.key[1], b |-> c.key[2], day |-> c.day, win |-> c.key[4], series |-> series[c.row], upload |-> u]
           made == [i \in free |-> task(CHOOSE c \in creates : at[c] = i)]
           left == Without(tasks, gone)
<1>1. /\ Cardinality(creates) <= Cardinality(Fresh) /\ Cardinality(rows) <= Cardinality(numbers)
      /\ tasks' = Over(made, left)
      /\ holder' = [b \in Building |->
            IF \E a \in Assigns(sheet, rows) : a[1] = b THEN (CHOOSE a \in Assigns(sheet, rows) : a[1] = b)[2] ELSE holder[b]]
      /\ uploads' = uploads \cup {u}
      /\ visits' = visits /\ today' = today
  BY DEF Import, ImportPlan
<1>2. u \in Upload \ uploads
  <2>1. Upload \ uploads # {}
    BY DEF Import
  <2>2. Upload \ uploads \subseteq Nat
    BY DEF Upload
  <2> QED
    BY <2>1, <2>2, MinIs
<1>3. /\ IsFiniteSet(creates) /\ IsFiniteSet(rows)
      /\ \A c \in creates : /\ c.row \in rows /\ c.day \in Day /\ c.day >= today
                            /\ c.key[1] \in Person /\ c.key[2] \in Building /\ c.key[4] \in Windows
  <2>1. creates \subseteq Planned(sheet, rows)
    BY DEF Creates
  <2>2. IsFiniteSet(creates)
    BY <2>1, PlannedIs, FS_Subset
  <2>3. \A c \in Planned(sheet, rows) :
            /\ c.row \in rows /\ c.day \in Day /\ c.day >= today
            /\ c.key[1] \in Person /\ c.key[2] \in Building /\ c.key[4] \in Windows
    BY PlannedIs
  <2>4. IsFiniteSet(rows)
    BY RowsAre
  <2> HIDE DEF creates, rows
  <2> QED
    BY <2>1, <2>2, <2>3, <2>4
<1>4. Id \subseteq Nat /\ IsFiniteSet(Id)
  <2>1. MaxId \in Nat
    BY DEF PlanSetup
  <2> QED
    BY <2>1, FS_Interval DEF Id
<1>5. Fresh \subseteq Id /\ numbers \subseteq Id /\ IsFiniteSet(Fresh) /\ IsFiniteSet(numbers)
  <2>1. Fresh \subseteq Id /\ numbers \subseteq Id
    BY DEF Fresh
  <2> QED
    BY <1>4, <2>1, FS_Subset
<1>6. series \in Injection(rows, numbers)
  <2>1. Injection(rows, numbers) # {}
    <3> HIDE DEF rows, numbers
    <3> QED
      BY <1>1, <1>3, <1>4, <1>5, ManyOf
  <2> HIDE DEF rows, numbers
  <2> QED
    BY <2>1
<1>7. free \subseteq Fresh /\ Cardinality(free) = Cardinality(creates)
  <2>1. Cardinality(creates) \in Nat
    BY <1>3, FS_CardinalityType
  <2>2. \E S \in SUBSET Fresh : Cardinality(S) = Cardinality(creates) /\ \A i \in S, j \in Fresh \ S : i < j
    <3> HIDE DEF creates
    <3> QED
      BY <1>1, <1>4, <1>5, <2>1, LowestOf
  <2>3. \E S \in kSubset(Cardinality(creates), Fresh) : \A i \in S, j \in Fresh \ S : i < j
    <3> HIDE DEF creates
    <3> QED
      BY <2>2 DEF kSubset
  <2>4. free \in kSubset(Cardinality(creates), Fresh)
    <3> HIDE DEF creates
    <3> QED
      BY <2>3
  <2> HIDE DEF creates, free
  <2> QED
    BY <2>4 DEF kSubset
<1>8. at \in Bijection(creates, free)
  <2>1. IsFiniteSet(free)
    BY <1>5, <1>7, FS_Subset
  <2>2. ExistsBijection(creates, free)
    <3> HIDE DEF creates, free
    <3> QED
      BY <1>3, <1>7, <2>1, FS_SameCardinalityBij
  <2> HIDE DEF creates, free
  <2> QED
    BY <2>2 DEF ExistsBijection
<1> HIDE DEF series, rows, numbers, creates, free, at, u, gone
<1>9. \A c \in creates : task(c) \in Task /\ task(c).day >= today
  <2> SUFFICES ASSUME NEW c \in creates PROVE task(c) \in Task /\ task(c).day >= today
    OBVIOUS
  <2>1. series[c.row] \in Id
    BY <1>3, <1>5, <1>6 DEF Injection
  <2> QED
    BY <1>2, <1>3, <2>1 DEF Task
<1>10. \A i \in free : (CHOOSE c \in creates : at[c] = i) \in creates
  BY <1>8 DEF Bijection, Surjection
<1>19. \A c \in creates : KeyOf(task(c)) = c.key
  <2>1. ASSUME NEW c \in Planned(sheet, LiveRows(sheet)) PROVE KeyOf(task(c)) = c.key
    <3>1. c.key = <<c.key[1], c.key[2], c.day, c.key[4]>>
      BY PlannedKey
    <3> QED
      BY <3>1 DEF KeyOf
  <2> QED
    BY <2>1 DEF creates, Creates, rows
<1> HIDE DEF task
<1>11. made \in [free -> Task] /\ \A i \in free : made[i].day >= today
  BY <1>9, <1>10
<1>12. DOMAIN made = free /\ PlanOf(made)
  <2>1. free \in SUBSET Id
    BY <1>5, <1>7
  <2> QED
    BY <1>11, <2>1 DEF PlanOf
<1>13. Unworked(tasks, gone)
  <2>1. Unworked(tasks, UNION {StrandedTasks(tasks, a[1], a[2]) : a \in Assigns(sheet, rows)})
    BY TasksArePlan, AllStrandedAreUnworked
  <2>2. Unworked(tasks, Replaceable(sheet, rows))
    BY ReplaceableIsUnworked DEF rows
  <2> QED
    BY <2>1, <2>2 DEF Unworked, gone
<1>14. WorkKept(left) /\ PlanOf(left)
  BY <1>13, TasksArePlan, UnworkedIs, DroppedIsKept
<1> HIDE DEF made
<1>15. PlanOf(Over(made, left))
  BY <1>12, <1>14, OverIsPlan
<1>16. WorkKept(Over(made, left))
  <2>1. \A i \in VisitedIds(tasks) : i \notin DOMAIN made
    BY <1>7, <1>12, TasksArePlan, VisitedAreThere DEF Fresh
  <2> HIDE DEF left
  <2>2. /\ DOMAIN Over(made, left) = DOMAIN made \cup DOMAIN left
        /\ \A i \in DOMAIN made : Over(made, left)[i] = made[i]
        /\ \A i \in DOMAIN left \ DOMAIN made : Over(made, left)[i] = left[i]
    BY DEF Over
  <2> QED
    BY <1>11, <1>12, <1>14, <2>1, <2>2 DEF WorkKept
<1>20. NoTwins(tasks) => NoTwins(Over(made, left))
  <2> SUFFICES ASSUME NoTwins(tasks) PROVE NoTwins(Over(made, left))
    OBVIOUS
  <2>1. NoTwins(left)
    BY TwinsWithout
  <2> DEFINE from(i) == CHOOSE c \in creates : at[c] = i
  <2>2. \A i \in free : from(i) \in creates /\ at[from(i)] = i
    BY <1>8 DEF Bijection, Surjection
  <2>3. \A i \in free : KeyOf(made[i]) = from(i).key
    BY <1>19, <2>2 DEF made
  <2> HIDE DEF from
  <2>4. ASSUME NEW i \in free, NEW j \in free, KeyOf(made[i]) = KeyOf(made[j]) PROVE i = j
    <3>1. from(i).key = from(j).key
      BY <2>3, <2>4
    <3>2. from(i) = from(j)
      BY <2>2, <3>1, PlannedDiffer DEF creates, Creates, rows
    <3> QED
      BY <2>2, <3>2
  <2>5. ASSUME NEW i \in free, NEW j \in DOMAIN left, KeyOf(made[i]) = KeyOf(left[j]) PROVE FALSE
    <3>1. j \in DOMAIN tasks /\ j \notin gone /\ left[j] = tasks[j]
      <4>1. DOMAIN left = DOMAIN tasks \ gone /\ \A k \in DOMAIN tasks \ gone : left[k] = tasks[k]
        BY DEF left, Without, Restrict
      <4> HIDE DEF left
      <4> QED
        BY <2>5, <4>1
    <3>2. KeyOf(tasks[j]) = from(i).key
      BY <2>3, <2>5, <3>1
    <3>3. j \in Replaceable(sheet, rows)
      BY <2>2, <3>1, <3>2, CreatedAreNew DEF creates, rows
    <3> QED
      BY <3>1, <3>3 DEF gone
  <2> HIDE DEF left
  <2>6. /\ DOMAIN Over(made, left) = free \cup DOMAIN left
        /\ \A i \in free : Over(made, left)[i] = made[i]
        /\ \A i \in DOMAIN left \ free : Over(made, left)[i] = left[i]
    BY <1>12 DEF Over
  <2> DEFINE new == Over(made, left)
  <2> HIDE DEF new
  <2>7. /\ DOMAIN new = free \cup DOMAIN left
        /\ \A i \in free : new[i] = made[i]
        /\ \A i \in DOMAIN left \ free : new[i] = left[i]
    BY <2>6 DEF new
  <2>8. NoTwins(new)
    BY <2>1, <2>4, <2>5, <2>7 DEF NoTwins
  <2> QED
    BY <2>8 DEF new
<1>17. holder' \in [Building -> Executive \cup {None}]
  <2>1. ASSUME NEW a \in Assigns(sheet, rows) PROVE a[2] \in Executive
    BY DEF Assigns, NeedsHandOver
  <2> QED
    BY <1>1, <2>1, HandedOver
<1>18. uploads' \subseteq Upload /\ uploads' \ uploads # {}
  BY <1>1, <1>2 DEF TypeOK
<1> QED
  BY <1>1, <1>15, <1>16, <1>17, <1>18, <1>20, RestFits

LEMMA CheckInKeeps ==
    ASSUME PlanSetup, TypeOK, VisitsFit, NEW who \in Person, NEW b \in Building, NEW at \in Minute,
           NEW along \in SUBSET Executive, CheckIn(who, b, at, along)
    PROVE  TypeOK' /\ VisitsFit' /\ UNCHANGED <<tasks, uploads, today>>
<1> DEFINE n == Cardinality(visits)
           who2 == {who} \cup along
           visit(p) == [id |-> n + 1, who |-> p, b |-> b, day |-> today, at |-> at, via |-> p # who]
           came == {visit(p) : p \in who2}
<1>1. /\ n + 1 + Cardinality(along) <= MaxVisits /\ visits' = visits \cup came
      /\ tasks' = tasks /\ uploads' = uploads /\ holder' = holder /\ today' = today
  BY DEF CheckIn
<1>2. IsFiniteSet(visits) /\ n \in Nat /\ today \in Day /\ Day \subseteq Nat /\ MaxVisits \in Nat
  BY FS_CardinalityType DEF VisitsFit, TypeOK, Day, PlanSetup
<1>3. IsFiniteSet(along) /\ Cardinality(along) \in Nat /\ IsFiniteSet(who2)
  <2>1. IsFiniteSet(along)
    BY FS_Subset DEF PlanSetup
  <2> QED
    BY <2>1, FS_CardinalityType, FS_Singleton, FS_Union
<1>4. \A v \in came : /\ v \in Visit /\ v.id = n + 1 /\ v.day = today
                      /\ \A w \in came : v.who = w.who => v = w
  <2>1. who2 \subseteq Person
    BY DEF Person
  <2>2. n + 1 \in 1 .. MaxVisits
    BY <1>1, <1>2, <1>3
  <2>3. \A p \in who2 : visit(p) \in Visit /\ visit(p).id = n + 1 /\ visit(p).day = today /\ visit(p).who = p
    BY <1>2, <2>1, <2>2 DEF Visit
  <2> HIDE DEF visit, who2
  <2> QED
    BY <2>3
<1>5. IsFiniteSet(came) /\ came # {}
  <2> DEFINE f == [p \in who2 |-> visit(p)]
  <2>1. f \in Surjection(who2, came)
    BY DEF Surjection
  <2>2. who \in who2
    OBVIOUS
  <2> HIDE DEF f, who2, visit
  <2> QED
    BY <1>3, <2>1, <2>2, FS_Surjection
<1> HIDE DEF came
<1>6. IsFiniteSet(visits') /\ Cardinality(visits') \in Nat /\ Cardinality(visits') >= n + 1
  <2>1. came \cap visits = {}
    <3>1. \A v \in visits : v.id \in 1 .. n
      BY DEF VisitsFit
    <3>2. \A v \in visits : v.id # n + 1
      BY <1>2, <3>1
    <3> QED
      BY <1>4, <3>2
  <2>2. PICK v : v \in came
    BY <1>5
  <2>3. visits \cup {v} \in SUBSET visits' /\ v \notin visits
    BY <1>1, <2>1, <2>2
  <2>4. IsFiniteSet(visits')
    BY <1>1, <1>2, <1>5, FS_Union
  <2>5. Cardinality(visits \cup {v}) = n + 1
    BY <1>2, <2>3, FS_AddElement
  <2>6. Cardinality(visits \cup {v}) <= Cardinality(visits') /\ Cardinality(visits') \in Nat
    BY <2>3, <2>4, FS_Subset, FS_CardinalityType
  <2> HIDE DEF n
  <2> QED
    BY <1>2, <2>4, <2>5, <2>6
<1> HIDE DEF n
<1>7. VisitsFit'
  <2>1. \A v \in visits : v.id \in 1 .. n /\ v.day <= today
    BY DEF VisitsFit, n
  <2>2. \A v \in visits' : v.day <= today'
    BY <1>1, <1>2, <1>4, <2>1
  <2>3. \A v \in visits' : v.id \in 1 .. Cardinality(visits')
    <3>1. \A m \in 1 .. n : m \in 1 .. Cardinality(visits')
      BY <1>2, <1>6
    <3>2. n + 1 \in 1 .. Cardinality(visits')
      BY <1>2, <1>6
    <3> QED
      BY <1>1, <1>4, <2>1, <3>1, <3>2
  <2>4. \A v \in visits' : \A w \in visits' : v.id = w.id /\ v.who = w.who => v = w
    <3>1. \A v \in visits : \A w \in visits : v.id = w.id /\ v.who = w.who => v = w
      BY DEF VisitsFit
    <3>2. \A v \in visits : \A w \in came : v.id # w.id
      BY <1>2, <1>4, <2>1
    <3> QED
      BY <1>1, <1>4, <3>1, <3>2
  <2> QED
    BY <1>6, <2>2, <2>3, <2>4 DEF VisitsFit
<1>8. TypeOK'
  BY <1>1, <1>4 DEF TypeOK
<1> QED
  BY <1>1, <1>7, <1>8

LEMMA TickKeeps ==
    ASSUME PlanSetup, TypeOK, VisitsFit, Tick
    PROVE  /\ TypeOK' /\ VisitsFit' /\ WorkKept(tasks') /\ (NoTwins(tasks) => NoTwins(tasks'))
           /\ VisitedIds(tasks) \subseteq VisitedIds(tasks)'
<1>1. /\ today' = today + 1 /\ today < LastDay
      /\ tasks' = tasks /\ visits' = visits /\ uploads' = uploads /\ holder' = holder
  BY DEF Tick
<1>2. today \in Day /\ LastDay \in Nat
  BY DEF TypeOK, PlanSetup
<1>3. today' \in Day
  BY <1>1, <1>2 DEF Day
<1>4. TypeOK'
  BY <1>1, <1>3 DEF TypeOK
<1>5. \A v \in visits : v.day \in Day
  BY DEF TypeOK, Visit
<1>6. VisitsFit'
  <2>1. \A v \in visits : v.day <= today + 1
    BY <1>2, <1>5 DEF VisitsFit, Day
  <2> QED
    BY <1>1, <2>1 DEF VisitsFit
<1>7. WorkKept(tasks')
  BY <1>1, TasksArePlan, VisitedAreThere DEF WorkKept
<1> QED
  BY <1>1, <1>4, <1>6, <1>7, VisitedNow

-----------------------------------------------------------------------------
\* One step of the plan, whatever is asked for.
WorkStep ==
    LET worked == VisitedIds(tasks) IN
    /\ \A i \in worked : i \in DOMAIN tasks' /\ tasks'[i] = tasks[i]
    /\ \A i \in DOMAIN tasks' : (i \notin DOMAIN tasks \/ tasks[i] # tasks'[i]) => tasks'[i].day >= today
    /\ worked \subseteq VisitedIds(tasks)' \/ uploads' \ uploads # {}

LEMMA StepOf ==
    ASSUME WorkKept(tasks'), VisitedIds(tasks) \subseteq VisitedIds(tasks)' \/ uploads' \ uploads # {}
    PROVE  WorkStep
BY DEF WorkKept, WorkStep

THEOREM EveryStepKeepsWork ==
    ASSUME PlanSetup, TypeOK, VisitsFit, Next
    PROVE  /\ TypeOK' /\ VisitsFit' /\ (NoTwins(tasks) => NoTwins(tasks'))
           /\ WorkStep \/ UNCHANGED <<tasks, uploads, today>>
<1>1. CASE \E actor \in Planner, t \in Wishes : CreateTask(actor, t)
  BY <1>1, CreateKeeps, StepOf
<1>2. CASE \E actor \in Planner, i \in DOMAIN tasks, scope \in Scope, patch \in Patches :
              UpdateTask(actor, i, scope, patch)
  BY <1>2, UpdateKeeps, StepOf
<1>3. CASE \E actor \in Planner, i \in DOMAIN tasks, scope \in Scope : DeleteTask(actor, i, scope)
  BY <1>3, DeleteKeeps, StepOf
<1>4. CASE \E actor \in Planner, sheet \in Sheets : Import(actor, sheet)
  BY <1>4, ImportKeeps, StepOf
<1>5. CASE \E u \in uploads : RemoveUpload(u)
  BY <1>5, RemoveKeeps, StepOf
<1>6. CASE \E who \in Person, b \in Building, at \in Minute, along \in SUBSET Executive : CheckIn(who, b, at, along)
  BY <1>6, CheckInKeeps
<1>7. CASE Tick
  BY <1>7, TickKeeps, StepOf
<1> QED
  BY <1>1, <1>2, <1>3, <1>4, <1>5, <1>6, <1>7 DEF Next

-----------------------------------------------------------------------------
(* The plan from its beginning on.                                         *)

\* There is nothing at first.
LEMMA PlanFirst == PlanSetup /\ Init => PlanInv
<1> SUFFICES ASSUME PlanSetup, Init PROVE PlanInv
  OBVIOUS
<1>1. tasks \in [{} -> Task] /\ DOMAIN tasks = {}
  BY DEF Init
<1>2. {} \in SUBSET Id
  OBVIOUS
<1>3. \E S \in SUBSET Id : tasks \in [S -> Task]
  BY <1>1, <1>2, Zenon
<1>4. today \in Day /\ holder \in [Building -> Executive \cup {None}]
  BY DEF Init, PlanSetup, Day
<1>5. visits = {} /\ uploads = {}
  BY DEF Init
<1>6. IsFiniteSet(visits)
  BY <1>5, FS_EmptySet
<1>7. NoTwins(tasks)
  BY <1>1 DEF NoTwins
<1> QED
  BY <1>3, <1>4, <1>5, <1>6, <1>7 DEF PlanInv, TypeOK, VisitsFit, NoTwins, PlanHasNoTwins

LEMMA PlanStep == PlanSetup /\ PlanInv /\ [Next]_vars => PlanInv'
<1> SUFFICES ASSUME PlanSetup, PlanInv, [Next]_vars PROVE PlanInv'
  OBVIOUS
<1>1. NoTwins(tasks) /\ (NoTwins(tasks') => PlanHasNoTwins')
  BY Zenon DEF PlanInv, PlanHasNoTwins, NoTwins, KeyOf
<1>2. CASE Next
  BY <1>1, <1>2, EveryStepKeepsWork DEF PlanInv
<1>3. CASE UNCHANGED vars
  <2>1. UNCHANGED <<tasks, visits, uploads, holder, today>>
    BY <1>3 DEF vars
  <2>2. TypeOK'
    BY <2>1, Zenon DEF PlanInv, TypeOK
  <2>3. VisitsFit'
    BY <2>1, Zenon DEF PlanInv, VisitsFit
  <2>4. PlanHasNoTwins'
    BY <1>1, <2>1
  <2> QED
    BY <2>2, <2>3, <2>4 DEF PlanInv
<1> QED
  BY <1>2, <1>3

\* The types of the plan, and nobody has the same task twice: whatever sheets,
\* edits of series and hand-overs made it, for any people, buildings and bounds.
THEOREM PlanStaysFit == PlanSetup => (Spec => []PlanInv)
<1> SUFFICES ASSUME PlanSetup PROVE Spec => []PlanInv
  OBVIOUS
<1>1. Init => PlanInv
  BY PlanFirst
<1>2. PlanInv /\ [Next]_vars => PlanInv'
  BY PlanStep
<1> QED
  BY <1>1, <1>2, PTL DEF Spec

LEMMA StepKeepsWork == PlanSetup /\ PlanInv /\ [Next]_vars => WorkStep \/ UNCHANGED <<tasks, uploads, today>>
<1> SUFFICES ASSUME PlanSetup, PlanInv, [Next]_vars PROVE WorkStep \/ UNCHANGED <<tasks, uploads, today>>
  OBVIOUS
<1>1. CASE Next
  BY <1>1, EveryStepKeepsWork DEF PlanInv
<1>2. CASE UNCHANGED vars
  BY <1>2 DEF vars
<1> QED
  BY <1>1, <1>2

\* A task with a visit stays as it is and keeps the visit, but for a task of a new
\* sheet; and nothing is planned for a day that has passed.
THEOREM WorkStaysKept == PlanSetup => (Spec => WorkIsKept)
<1> SUFFICES ASSUME PlanSetup PROVE Spec => WorkIsKept
  OBVIOUS
<1>1. PlanInv /\ [Next]_vars =>
        [LET worked == VisitedIds(tasks) IN
         /\ \A i \in worked : i \in DOMAIN tasks' /\ tasks'[i] = tasks[i]
         /\ \A i \in DOMAIN tasks' : (i \notin DOMAIN tasks \/ tasks[i] # tasks'[i]) => tasks'[i].day >= today
         /\ worked \subseteq VisitedIds(tasks)' \/ uploads' \ uploads # {}]_<<tasks, uploads, today>>
  BY StepKeepsWork, Zenon DEF WorkStep
<1>2. Spec => []PlanInv
  BY PlanStaysFit
<1> QED
  BY <1>1, <1>2, PTL DEF Spec, WorkIsKept

-----------------------------------------------------------------------------
(* The lists of tasks and visits.                                          *)

\* A pair is of one of the person's tasks and one of the person's visits of the day.
LEMMA PairsFit ==
    ASSUME PlanSetup, TypeOK, VisitsFit, NEW p, NEW d
    PROVE  /\ \A q \in PairsOf(tasks, p, d) : /\ q.task.id \in On(tasks, p, d) /\ q.task = TaskOf(tasks, q.task.id)
                                              /\ q.visit \in VisitsOf(p, d)
           /\ \A q \in PairsOf(tasks, p, d) : \A r \in PairsOf(tasks, p, d) : q.visit = r.visit => q = r
<1> DEFINE T == TaskSet(tasks, p, d)
           V == VisitsOf(p, d)
<1>1. InOrder(T) /\ InTurn(V)
  BY TasksArePlan, DayInOrder, VisitsAreInTurn
<1>2. PairsOf(tasks, p, d) = Match(T, V)
  BY PairsAre
<1> HIDE DEF T, V
<1>3. (\A x \in Match(T, V) : Pair(x, T, V, TRUE)) /\ Paired(Match(T, V))
  BY <1>1, MatchesAre, Zenon
<1>4. \A x \in Match(T, V) : x.task \in T /\ x.visit \in V
  BY <1>3, Zenon DEF Pair
<1>5. \A t \in T : \E i \in On(tasks, p, d) : t = TaskOf(tasks, i)
  BY DEF T, TaskSet
<1>6. \A t \in T : t.id \in On(tasks, p, d) /\ t = TaskOf(tasks, t.id)
  BY <1>5, TaskIs
<1> QED
  BY <1>2, <1>3, <1>4, <1>6 DEF Paired, V

\* What is listed of a person by somebody who may read it.
LEMMA ListIs ==
    ASSUME PlanSetup, TypeOK, VisitsFit, NEW actor, NEW p \in Readable(actor)
    PROVE  LET list == ListTasks(actor, p, Day)
               seen(i) == {q.visit : q \in {r \in PairsOf(tasks, p, tasks[i].day) : r.task.id = i}}
           IN  /\ DOMAIN list.tasks = {i \in DOMAIN tasks : tasks[i].who = p}
               /\ \A i \in DOMAIN list.tasks : list.tasks[i].visit = seen(i) /\ list.tasks[i].later = SeriesLaterCount(actor, i)
               /\ list.offPlan = UNION {{v \in VisitsOf(p, d) \ Visits(PairsOf(tasks, p, d)) : ~v.via} : d \in Day}
<1> DEFINE list == ListTasks(actor, p, Day)
           seen(i) == {q.visit : q \in {r \in PairsOf(tasks, p, tasks[i].day) : r.task.id = i}}
           here == UNION {On(tasks, p, d) : d \in Day}
           off == UNION {{v \in VisitsOf(p, d) \ Visits(PairsOf(tasks, p, d)) : ~v.via} : d \in Day}
<1>1. here = {i \in DOMAIN tasks : tasks[i].who = p}
  <2>1. \A i \in DOMAIN tasks : tasks[i].day \in Day
    BY TasksArePlan, TaskParts
  <2> QED
    BY <2>1 DEF On
<1>2. list = [tasks |-> [i \in here |-> [visit |-> seen(i), later |-> SeriesLaterCount(actor, i)]], offPlan |-> off]
  BY Zenon DEF ListTasks
<1> HIDE DEF list, seen, here, off
<1>3. list.tasks = [i \in here |-> [visit |-> seen(i), later |-> SeriesLaterCount(actor, i)]] /\ list.offPlan = off
  BY <1>2
<1>4. /\ DOMAIN list.tasks = here
      /\ \A i \in here : list.tasks[i].visit = seen(i) /\ list.tasks[i].later = SeriesLaterCount(actor, i)
  BY <1>3
<1> QED
  BY <1>1, <1>3, <1>4 DEF list, seen, off

\* A visit is listed with one task or off plan.
LEMMA VisitsAreListed ==
    ASSUME PlanSetup, TypeOK, VisitsFit, NEW actor, NEW p \in Readable(actor)
    PROVE  LET list == ListTasks(actor, p, Day)
               counted == UNION {list.tasks[i].visit : i \in DOMAIN list.tasks}
           IN  /\ {v \in visits : v.who = p /\ ~v.via} \subseteq counted \cup list.offPlan
               /\ counted \cap list.offPlan = {}
               /\ \A i, j \in DOMAIN list.tasks : list.tasks[i].visit \cap list.tasks[j].visit # {} => i = j
<1> DEFINE list == ListTasks(actor, p, Day)
           seen(i) == {q.visit : q \in {r \in PairsOf(tasks, p, tasks[i].day) : r.task.id = i}}
           counted == UNION {list.tasks[i].visit : i \in DOMAIN list.tasks}
<1>1. /\ DOMAIN list.tasks = {i \in DOMAIN tasks : tasks[i].who = p}
      /\ \A i \in DOMAIN list.tasks : list.tasks[i].visit = seen(i)
      /\ list.offPlan = UNION {{v \in VisitsOf(p, d) \ Visits(PairsOf(tasks, p, d)) : ~v.via} : d \in Day}
  BY ListIs
<1> HIDE DEF list
<1>2. \A v \in visits : v.day \in Day
  BY DEF TypeOK, Visit
\* Whose visit a listed task has, and when.
<1>3. \A i \in DOMAIN list.tasks : \A v \in list.tasks[i].visit :
          v.day = tasks[i].day /\ \E q \in PairsOf(tasks, p, v.day) : q.visit = v /\ q.task.id = i
  <2> SUFFICES ASSUME NEW i \in DOMAIN list.tasks, NEW v \in seen(i)
               PROVE  v.day = tasks[i].day /\ \E q \in PairsOf(tasks, p, v.day) : q.visit = v /\ q.task.id = i
    BY <1>1
  <2>1. PICK q \in PairsOf(tasks, p, tasks[i].day) : q.visit = v /\ q.task.id = i
    OBVIOUS
  <2>2. v.day = tasks[i].day
    BY <2>1, PairsFit DEF VisitsOf
  <2> QED
    BY <2>1, <2>2
<1>4. ASSUME NEW v \in visits, v.who = p, ~v.via PROVE v \in counted \cup list.offPlan
  <2>1. v.day \in Day /\ v \in VisitsOf(p, v.day)
    BY <1>2, <1>4 DEF VisitsOf
  <2>2. CASE v \in Visits(PairsOf(tasks, p, v.day))
    <3>1. PICK q \in PairsOf(tasks, p, v.day) : q.visit = v
      BY <2>2 DEF Visits
    <3>2. q.task.id \in DOMAIN tasks /\ tasks[q.task.id].who = p /\ tasks[q.task.id].day = v.day
      BY <3>1, PairsFit DEF On
    <3>3. q.task.id \in DOMAIN list.tasks
      BY <3>2, <1>1
    <3>4. v \in seen(q.task.id)
      BY <3>1, <3>2
    <3> HIDE DEF seen
    <3> QED
      BY <3>3, <3>4, <1>1
  <2>3. CASE v \notin Visits(PairsOf(tasks, p, v.day))
    BY <2>1, <2>3, <1>1, <1>4
  <2> QED
    BY <2>2, <2>3
<1>5. ASSUME NEW v \in counted, v \in list.offPlan PROVE FALSE
  <2>1. PICK i \in DOMAIN list.tasks : v \in list.tasks[i].visit
    OBVIOUS
  <2>2. PICK d \in Day : v \in VisitsOf(p, d) \ Visits(PairsOf(tasks, p, d))
    BY <1>1, <1>5
  <2>3. v.day = d
    BY <2>2 DEF VisitsOf
  <2>4. \E q \in PairsOf(tasks, p, d) : q.visit = v
    BY <1>3, <2>1, <2>3
  <2> QED
    BY <2>2, <2>4 DEF Visits
<1>6. ASSUME NEW i \in DOMAIN list.tasks, NEW j \in DOMAIN list.tasks,
             NEW v \in list.tasks[i].visit, v \in list.tasks[j].visit
      PROVE  i = j
  <2>1. PICK q \in PairsOf(tasks, p, v.day) : q.visit = v /\ q.task.id = i
    BY <1>3
  <2>2. PICK r \in PairsOf(tasks, p, v.day) : r.visit = v /\ r.task.id = j
    BY <1>3, <1>6
  <2>3. q = r
    BY <2>1, <2>2, PairsFit
  <2> QED
    BY <2>1, <2>2, <2>3
<1>7. {v \in visits : v.who = p /\ ~v.via} \subseteq counted \cup list.offPlan
  BY <1>4
<1>8. counted \cap list.offPlan = {}
  BY <1>5
<1>9. \A i, j \in DOMAIN list.tasks : list.tasks[i].visit \cap list.tasks[j].visit # {} => i = j
  BY <1>6
<1> QED
  BY <1>7, <1>8, <1>9, Zenon DEF list

\* Of a task its reader may edit, there is no visit, and as many are counted later in
\* the series as an edit of those changes.
LEMMA LaterIsEdited ==
    ASSUME PlanSetup, TypeOK, VisitsFit, NEW actor, NEW p \in Readable(actor)
    PROVE  LET list == ListTasks(actor, p, Day) IN
           \A i \in DOMAIN list.tasks : Editable(actor, i) =>
               /\ list.tasks[i].visit = {}
               /\ list.tasks[i].later = Cardinality(Targets(actor, i, "FOLLOWING") \ {i})
<1> DEFINE list == ListTasks(actor, p, Day)
<1> SUFFICES ASSUME NEW i \in DOMAIN list.tasks, Editable(actor, i)
             PROVE  list.tasks[i].visit = {} /\ list.tasks[i].later = Cardinality(Targets(actor, i, "FOLLOWING") \ {i})
  OBVIOUS
<1>1. /\ i \in DOMAIN tasks /\ tasks[i].who = p
      /\ list.tasks[i].visit = {q.visit : q \in {r \in PairsOf(tasks, p, tasks[i].day) : r.task.id = i}}
      /\ list.tasks[i].later = SeriesLaterCount(actor, i)
  BY ListIs
<1> HIDE DEF list
<1>2. i \notin VisitedIds(tasks) /\ p \in Assignees(actor)
  BY <1>1 DEF Editable
<1>3. list.tasks[i].visit = {}
  <2> SUFFICES ASSUME NEW q \in PairsOf(tasks, p, tasks[i].day), q.task.id = i PROVE FALSE
    BY <1>1
  <2>1. q.visit \in visits /\ q.visit.who = p /\ q.visit.day = tasks[i].day
    BY PairsFit DEF VisitsOf
  <2>2. q.task \in Tasks(PairsOf(tasks, q.visit.who, q.visit.day))
    BY <2>1 DEF Tasks
  <2>3. i \in {t.id : t \in Tasks(PairsOf(tasks, q.visit.who, q.visit.day))}
    BY <2>2
  <2>4. i \in VisitedIds(tasks)
    BY <2>1, <2>3, Zenon DEF VisitedIds
  <2> QED
    BY <1>2, <2>4
<1>4. actor \in Planner
  BY <1>2 DEF Assignees, Planner
<1>5. \A j \in DOMAIN tasks : tasks[j].day \in Int
  BY TasksArePlan, TaskParts DEF Day
<1> DEFINE rest == {j \in DOMAIN tasks : /\ tasks[i].series # None /\ tasks[j].series = tasks[i].series
                                         /\ tasks[j].day >= today
                                         /\ actor \in Planner => tasks[j].who \in Assignees(actor)}
           later == {j \in rest \ VisitedIds(tasks) : tasks[j].day > tasks[i].day}
<1>6. SeriesLaterCount(actor, i) = Cardinality(later)
  BY Zenon DEF SeriesLaterCount
<1>7. LaterInSeries(i, Assignees(actor)) = later
  BY <1>1, <1>4, <1>5 DEF LaterInSeries, LaterAll
<1>8. Targets(actor, i, "FOLLOWING") \ {i} = later
  <2>1. i \notin later
    BY <1>1, <1>5
  <2>2. Targets(actor, i, "FOLLOWING") = {i} \cup LaterInSeries(i, Assignees(actor))
    BY DEF Targets
  <2> HIDE DEF later
  <2> QED
    BY <2>1, <2>2, <1>7
<1> QED
  BY <1>1, <1>3, <1>6, <1>8

LEMMA UnionCounted ==
    ASSUME NEW S, IsFiniteSet(S), NEW T, IsFiniteSet(T), S \cap T = {}
    PROVE  IsFiniteSet(S \cup T) /\ Cardinality(S \cup T) = Cardinality(S) + Cardinality(T)
<1>1. Cardinality(S \cap T) = 0
  BY FS_EmptySet
<1>2. Cardinality(S) \in Nat /\ Cardinality(T) \in Nat
  BY FS_CardinalityType
<1>3. IsFiniteSet(S \cup T) /\ Cardinality(S \cup T) = Cardinality(S) + Cardinality(T) - Cardinality(S \cap T)
  BY FS_Union
<1> QED
  BY <1>1, <1>2, <1>3

\* What an upload counts is what its list shows.
LEMMA UploadsAreListed ==
    ASSUME PlanSetup, TypeOK, VisitsFit, NEW actor \in Admin, NEW u \in uploads
    PROVE  LET count == ListUploads[u]
               list == UploadTaskList(actor, u)
               many(status) == Cardinality({i \in DOMAIN list : list[i] = status})
           IN  /\ count.task = many("VISITED") + many("UPCOMING") + many("MISSED")
               /\ count.visited = many("VISITED") /\ count.upcoming = many("UPCOMING")
<1> DEFINE count == ListUploads[u]
           list == UploadTaskList(actor, u)
           U == UploadTasks(u)
           visited == VisitedIds(tasks)
           coming == {i \in U \ visited : tasks[i].day >= today}
           missed == {i \in U \ visited : tasks[i].day < today}
<1>1. /\ count.task = Cardinality(U) /\ count.visited = Cardinality(U \cap visited)
      /\ count.upcoming = Cardinality(coming)
  BY DEF ListUploads
<1>2. \A i \in DOMAIN tasks : tasks[i].who \in Person /\ tasks[i].day \in Int /\ i \in Id
  BY TasksArePlan, TaskParts DEF Day
<1>3. today \in Int
  BY DEF TypeOK, Day
<1>4. U \subseteq DOMAIN tasks
  BY DEF UploadTasks
<1>5. DOMAIN list = U /\ \A i \in U : list[i] = UploadTaskStatus(i)
  <2>1. {j \in U : tasks[j].who \in Assignees(actor)} = U
    BY <1>2, <1>4 DEF Assignees
  <2> HIDE DEF U
  <2>2. list = [i \in {j \in U : tasks[j].who \in Assignees(actor)} |-> UploadTaskStatus(i)]
    BY DEF UploadTaskList, U
  <2> HIDE DEF list
  <2> QED
    BY <2>1, <2>2
<1> HIDE DEF list, U, visited
<1>6. \A i \in U : UploadTaskStatus(i) = IF i \in visited THEN "VISITED" ELSE IF tasks[i].day < today THEN "MISSED" ELSE "UPCOMING"
  BY DEF UploadTaskStatus, visited
<1>7. /\ {i \in DOMAIN list : list[i] = "VISITED"} = U \cap visited
      /\ {i \in DOMAIN list : list[i] = "UPCOMING"} = coming
      /\ {i \in DOMAIN list : list[i] = "MISSED"} = missed
  BY <1>2, <1>3, <1>4, <1>5, <1>6
<1>8. U = ((U \cap visited) \cup coming) \cup missed
  BY <1>2, <1>3, <1>4
<1>9. ((U \cap visited) \cup coming) \cap missed = {} /\ (U \cap visited) \cap coming = {}
  BY <1>2, <1>3, <1>4
<1>10. IsFiniteSet(U)
  <2>1. MaxId \in Nat
    BY DEF PlanSetup
  <2>2. IsFiniteSet(Id)
    BY <2>1, FS_Interval DEF Id
  <2> QED
    BY <1>2, <1>4, <2>2, FS_Subset
<1>11. IsFiniteSet(U \cap visited) /\ IsFiniteSet(coming) /\ IsFiniteSet(missed)
  <2>1. U \cap visited \subseteq U /\ coming \subseteq U /\ missed \subseteq U
    OBVIOUS
  <2> QED
    BY <1>10, <2>1, FS_Subset
<1> HIDE DEF coming, missed
<1>12. IsFiniteSet((U \cap visited) \cup coming)
       /\ Cardinality((U \cap visited) \cup coming) = Cardinality(U \cap visited) + Cardinality(coming)
  BY <1>9, <1>11, UnionCounted
<1>13. Cardinality(U) = Cardinality((U \cap visited) \cup coming) + Cardinality(missed)
  BY <1>8, <1>9, <1>11, <1>12, UnionCounted
<1> QED
  BY <1>1, <1>7, <1>12, <1>13, Zenon DEF list

LEMMA ListsTell == PlanSetup /\ TypeOK /\ VisitsFit => ListsTellThePlan
<1> SUFFICES ASSUME PlanSetup, TypeOK, VisitsFit PROVE ListsTellThePlan
  OBVIOUS
<1> QED
  BY VisitsAreListed, LaterIsEdited, UploadsAreListed, Zenon DEF ListsTellThePlan

-----------------------------------------------------------------------------
(* Sums over people.  SumFunction takes the elements of a set in the order *)
(* of CHOOSE, which is not known; a sum of sizes of sets that have nothing *)
(* in common is the size of all together, whatever the order.              *)

\* f over s, if what it is over smaller sets is g.
SumStep(f, g, s) == IF s = {} THEN 0 ELSE f[CHOOSE x \in s : TRUE] + g[s \ {CHOOSE x \in s : TRUE}]
IsSum(f, g, D) == g = [s \in D |-> SumStep(f, g, s)]
Summed(f, S) == CHOOSE g : IsSum(f, g, SUBSET S)

\* What the sets F of all of S have.
AllOf(F, S) == UNION {F[p] : p \in S}

LEMMA SumUnfolds == ASSUME NEW f, NEW S PROVE SumFunctionOnSet(f, S) = Summed(f, S)[S]
BY Zenon DEF SumFunctionOnSet, FoldFunctionOnSet, MapThenFoldSet, IsSum, SumStep, Summed

\* There is such a fold: the sizes themselves are one.
LEMMA SumOfSizes ==
    ASSUME NEW P, IsFiniteSet(P), NEW F, \A p \in P : IsFiniteSet(F[p]),
           \A p \in P : \A q \in P : p # q => F[p] \cap F[q] = {},
           NEW f, \A p \in P : f[p] = Cardinality(F[p])
    PROVE  /\ SumFunctionOnSet(f, P) = Cardinality(AllOf(F, P))
           /\ IsFiniteSet(AllOf(F, P))
<1> DEFINE All(s) == UNION {F[p] : p \in s}
           g == [s \in SUBSET P |-> Cardinality(All(s))]
           Pick(s) == CHOOSE x \in s : TRUE
           Bad == {s \in SUBSET P : ~IsFiniteSet(All(s))}
\* One more person's.
<1>1. \A s \in SUBSET P : s # {} => /\ Pick(s) \in s /\ s \ {Pick(s)} \in SUBSET P
                                    /\ All(s) = F[Pick(s)] \cup All(s \ {Pick(s)})
                                    /\ F[Pick(s)] \cap All(s \ {Pick(s)}) = {}
                                    /\ IsFiniteSet(F[Pick(s)]) /\ f[Pick(s)] = Cardinality(F[Pick(s)])
  <2> SUFFICES ASSUME NEW s \in SUBSET P, s # {}
               PROVE  /\ Pick(s) \in s /\ s \ {Pick(s)} \in SUBSET P
                      /\ All(s) = F[Pick(s)] \cup All(s \ {Pick(s)})
                      /\ F[Pick(s)] \cap All(s \ {Pick(s)}) = {}
                      /\ IsFiniteSet(F[Pick(s)]) /\ f[Pick(s)] = Cardinality(F[Pick(s)])
    OBVIOUS
  <2>1. Pick(s) \in s
    OBVIOUS
  <2> DEFINE x == Pick(s)
  <2> HIDE DEF x
  <2>2. x \in s /\ x \in P
    BY <2>1 DEF x
  <2>3. All(s) = F[x] \cup All(s \ {x})
    BY <2>2
  <2>4. F[x] \cap All(s \ {x}) = {}
    <3> SUFFICES ASSUME NEW e \in F[x], NEW p \in s \ {x}, e \in F[p] PROVE FALSE
      OBVIOUS
    <3>1. p \in P /\ p # x
      OBVIOUS
    <3> QED
      BY <2>2, <3>1
  <2>5. IsFiniteSet(F[x]) /\ f[x] = Cardinality(F[x])
    BY <2>2
  <2> QED
    BY <2>2, <2>3, <2>4, <2>5 DEF x
<1>2. All({}) = {}
  OBVIOUS
<1> HIDE DEF All, Pick
<1>3. Bad = {}
  <2> SUFFICES ASSUME Bad # {} PROVE FALSE
    OBVIOUS
  <2>1. PICK s \in Bad : \A x \in s : s \ {x} \in SUBSET P /\ s \ {x} \notin Bad
    <3>1. Bad \in SUBSET SUBSET P
      OBVIOUS
    <3> HIDE DEF Bad
    <3> QED
      BY <3>1, SmallestSet
  <2>2. s \in SUBSET P /\ ~IsFiniteSet(All(s))
    BY <2>1
  <2>3. s # {}
    BY <1>2, <2>2, FS_EmptySet
  <2>4. IsFiniteSet(All(s \ {Pick(s)})) /\ IsFiniteSet(F[Pick(s)]) /\ All(s) = F[Pick(s)] \cup All(s \ {Pick(s)})
    BY <1>1, <2>1, <2>2, <2>3
  <2>5. IsFiniteSet(All(s))
    <3>1. IsFiniteSet(F[Pick(s)] \cup All(s \ {Pick(s)}))
      BY <2>4, FS_Union, Zenon
    <3> QED
      BY <2>4, <3>1, Zenon
  <2> QED
    BY <2>2, <2>5
<1>4. \A s \in SUBSET P : IsFiniteSet(All(s))
  BY <1>3
\* Every fold gives the sizes.
<1>5. IsSum(f, g, SUBSET P)
  <2>1. \A s \in SUBSET P : g[s] = SumStep(f, g, s)
    <3> SUFFICES ASSUME NEW s \in SUBSET P PROVE g[s] = SumStep(f, g, s)
      OBVIOUS
    <3>1. CASE s = {}
      <4>1. g[s] = 0
        BY <3>1, <1>2, FS_EmptySet
      <4> HIDE DEF g
      <4> QED
        BY <3>1, <4>1 DEF SumStep
    <3>2. CASE s # {}
      <4>1. /\ s \ {Pick(s)} \in SUBSET P
            /\ All(s) = F[Pick(s)] \cup All(s \ {Pick(s)}) /\ F[Pick(s)] \cap All(s \ {Pick(s)}) = {}
            /\ IsFiniteSet(F[Pick(s)]) /\ f[Pick(s)] = Cardinality(F[Pick(s)])
        BY <1>1, <3>2
      <4>2. Cardinality(All(s)) = Cardinality(F[Pick(s)]) + Cardinality(All(s \ {Pick(s)}))
        <5>1. IsFiniteSet(All(s \ {Pick(s)}))
          BY <1>4, <4>1
        <5> QED
          BY <4>1, <5>1, UnionCounted
      <4>3. g[s] = f[Pick(s)] + g[s \ {Pick(s)}]
        BY <4>1, <4>2
      <4> HIDE DEF g
      <4> QED
        BY <3>2, <4>3, Zenon DEF SumStep, Pick
    <3> QED
      BY <3>1, <3>2
  <2>2. g = [s \in SUBSET P |-> g[s]]
    OBVIOUS
  <2> HIDE DEF g
  <2> QED
    BY <2>1, <2>2 DEF IsSum
<1>6. IsSum(f, Summed(f, P), SUBSET P)
  BY <1>5, Zenon DEF Summed
<1> DEFINE h == Summed(f, P)
           Off == {s \in SUBSET P : h[s] # g[s]}
<1>7. \A s \in SUBSET P : g[s] = SumStep(f, g, s) /\ h[s] = SumStep(f, h, s)
  <2> HIDE DEF g, h
  <2>1. IsSum(f, h, SUBSET P)
    BY <1>6 DEF h
  <2> QED
    BY <1>5, <2>1 DEF IsSum
<1> HIDE DEF g, h
<1>8. Off = {}
  <2> SUFFICES ASSUME Off # {} PROVE FALSE
    OBVIOUS
  <2>1. PICK s \in Off : \A x \in s : s \ {x} \in SUBSET P /\ s \ {x} \notin Off
    <3>1. Off \in SUBSET SUBSET P
      OBVIOUS
    <3> HIDE DEF Off
    <3> QED
      BY <3>1, SmallestSet
  <2>2. s \in SUBSET P /\ h[s] # g[s]
    BY <2>1
  <2>3. s # {}
    BY <1>7, <2>2, Zenon DEF SumStep
  <2>4. h[s \ {Pick(s)}] = g[s \ {Pick(s)}]
    BY <1>1, <2>1, <2>2, <2>3
  <2>5. h[s] = SumStep(f, h, s) /\ g[s] = SumStep(f, g, s)
    BY <1>7, <2>2
  <2>6. SumStep(f, h, s) = SumStep(f, g, s)
    BY <2>3, <2>4, Zenon DEF SumStep, Pick
  <2> QED
    BY <2>2, <2>5, <2>6, Zenon
<1>9. h[P] = g[P]
  BY <1>8
<1>10. g[P] = Cardinality(All(P))
  BY DEF g
<1> QED
  BY <1>4, <1>9, <1>10, SumUnfolds, Zenon DEF h, All, AllOf

-----------------------------------------------------------------------------
(* What a planner is told of a sheet before it is imported.                *)

\* Of a sheet without an error all rows are fit, and no building is planned
\* for two executives.
LEMMA NoErrors ==
    ASSUME NEW actor, NEW sheet, ~Preview(actor, sheet).errors
    PROVE  /\ \A k \in DOMAIN sheet : RowOk(actor, sheet[k])
           /\ PreviewRows(actor, sheet) = LiveRows(sheet)
           /\ Contested(sheet, LiveRows(sheet)) = {}
<1> DEFINE rows == PreviewRows(actor, sheet)
           ok == {k \in LiveRows(sheet) : RowOk(actor, sheet[k])}
<1>1. rows = {k \in DOMAIN sheet : k \in LiveRows(sheet) \/ ~RowOk(actor, sheet[k])}
  BY DEF Preview
<1>2. rows = {k \in ok : ~(sheet[k].who \in Executive /\ sheet[k].b \in Contested(sheet, ok))}
  BY Zenon DEF PreviewRows
<1>3. LiveRows(sheet) \subseteq DOMAIN sheet
  BY DEF LiveRows
<1> HIDE DEF rows
<1>4. \A k \in DOMAIN sheet : RowOk(actor, sheet[k])
  BY <1>1, <1>2
<1>5. rows = LiveRows(sheet) /\ ok = LiveRows(sheet)
  BY <1>1, <1>3, <1>4
<1>6. Contested(sheet, LiveRows(sheet)) = {}
  <2> SUFFICES ASSUME NEW b \in Contested(sheet, LiveRows(sheet)) PROVE FALSE
    OBVIOUS
  <2>1. PICK k \in LiveRows(sheet) : sheet[k].who \in Executive /\ sheet[k].b = b
    BY DEF Contested
  <2> HIDE DEF ok
  <2> QED
    BY <1>2, <1>5, <2>1
<1> QED
  BY <1>4, <1>5, <1>6, Zenon DEF rows

\* A sheet with a live row plans something: the first row is nobody else's.
LEMMA LivePlans ==
    ASSUME PlanSetup, NEW sheet \in Sheets, LiveRows(sheet) # {}
    PROVE  Planned(sheet, LiveRows(sheet)) # {}
<1> DEFINE rows == LiveRows(sheet)
<1>1. rows \subseteq Nat /\ rows # {}
  BY RowsAre
<1>2. PICK k \in rows : \A m \in rows : k <= m
  <2> HIDE DEF rows
  <2> QED
    BY <1>1, LeastNatural
<1>3. PICK d \in DaysOf(sheet[k]) : TRUE
  BY DEF LiveRows
<1>4. d \in Day
  BY RowsAre DEF DaysOf
<1>5. d \in DaysLeft(sheet, rows, k)
  <2>1. \A m \in rows : ~(m < k)
    BY <1>1, <1>2
  <2> HIDE DEF rows
  <2> QED
    BY <1>3, <1>4, <2>1, Zenon DEF DaysLeft
<1> DEFINE of(n) == {[row |-> n, key |-> KeyOf(RowTask(sheet, n, e)), day |-> e] : e \in DaysLeft(sheet, rows, n)}
<1>6. of(k) # {}
  BY <1>5
<1>7. Planned(sheet, rows) = UNION {of(n) : n \in rows}
  BY Zenon DEF Planned
<1> HIDE DEF of, rows
<1>8. Planned(sheet, rows) # {}
  BY <1>6, <1>7
<1> QED
  BY <1>8 DEF rows

\* What is created, counted person by person.
LEMMA CreatesCounted ==
    ASSUME PlanSetup, TypeOK, NEW sheet \in Sheets
    PROVE  LET rows == LiveRows(sheet)
               people == {sheet[k].who : k \in rows}
           IN  SumFunction([p \in people |-> Cardinality({c \in Creates(sheet, rows) : c.key[1] = p})])
                   = Cardinality(Creates(sheet, rows))
<1> DEFINE rows == LiveRows(sheet)
           people == {sheet[k].who : k \in rows}
           C == Creates(sheet, rows)
           of(p) == {c \in C : c.key[1] = p}
           F == [p \in people |-> of(p)]
           f == [p \in people |-> Cardinality(of(p))]
<1>1. IsFiniteSet(C)
  <2>1. C \subseteq Planned(sheet, rows)
    BY DEF Creates
  <2>2. IsFiniteSet(Planned(sheet, rows))
    BY PlannedIs
  <2> QED
    BY <2>1, <2>2, FS_Subset
<1>2. \A c \in C : c.key[1] \in people
  <2> SUFFICES ASSUME NEW c \in C PROVE c.key[1] \in people
    OBVIOUS
  <2>1. PICK k \in rows : \E d \in DaysLeft(sheet, rows, k) : c = [row |-> k, key |-> KeyOf(RowTask(sheet, k, d)), day |-> d]
    BY DEF Creates, Planned
  <2> QED
    BY <2>1 DEF KeyOf, RowTask
<1>3. IsFiniteSet(people)
  <2> DEFINE g == [k \in rows |-> sheet[k].who]
  <2>1. IsFiniteSet(rows)
    BY RowsAre
  <2>2. g \in Surjection(rows, people)
    BY DEF Surjection
  <2> HIDE DEF g, people, rows
  <2> QED
    BY <2>1, <2>2, FS_Surjection
<1> HIDE DEF rows, people, C
<1>4. \A p \in people : IsFiniteSet(F[p])
  BY <1>1, FS_Subset
<1>5. \A p \in people : \A q \in people : p # q => F[p] \cap F[q] = {}
  OBVIOUS
<1>6. \A p \in people : f[p] = Cardinality(F[p])
  OBVIOUS
<1>7. AllOf(F, people) = C
  BY <1>2 DEF AllOf
<1>8. DOMAIN f = people
  OBVIOUS
<1> HIDE DEF F
<1>9. SumFunctionOnSet(f, people) = Cardinality(AllOf(F, people))
  <2> HIDE DEF f, of
  <2> QED
    BY <1>3, <1>4, <1>5, <1>6, SumOfSizes, Zenon
<1>10. SumFunction(f) = Cardinality(C)
  <2> HIDE DEF f
  <2> QED
    BY <1>7, <1>8, <1>9, Zenon DEF SumFunction
<1> QED
  BY <1>10, Zenon DEF f, C, people, rows

\* A building without a contest is handed over to one executive.
LEMMA AssignsAreOne ==
    ASSUME NEW sheet, NEW rows, Contested(sheet, rows) = {},
           NEW a \in Assigns(sheet, rows), NEW c \in Assigns(sheet, rows), a[1] = c[1]
    PROVE  a = c
<1>1. PICK k \in rows : NeedsHandOver(sheet[k].who, sheet[k].b) /\ a = <<sheet[k].b, sheet[k].who>>
  BY DEF Assigns
<1>2. PICK m \in rows : NeedsHandOver(sheet[m].who, sheet[m].b) /\ c = <<sheet[m].b, sheet[m].who>>
  BY DEF Assigns
<1>3. sheet[k].who \in Executive /\ sheet[m].who \in Executive /\ sheet[k].b = sheet[m].b
  BY <1>1, <1>2 DEF NeedsHandOver
<1>4. sheet[k].b \notin Contested(sheet, rows)
  OBVIOUS
<1>5. sheet[m].who = sheet[k].who
  BY <1>3, <1>4 DEF Contested
<1> QED
  BY <1>1, <1>2, <1>3, <1>5

LEMMA AssignsCounted ==
    ASSUME PlanSetup, NEW sheet \in Sheets, Contested(sheet, LiveRows(sheet)) = {}
    PROVE  Cardinality(Assigns(sheet, LiveRows(sheet))) = Cardinality({a[1] : a \in Assigns(sheet, LiveRows(sheet))})
<1> DEFINE rows == LiveRows(sheet)
           A == Assigns(sheet, rows)
           B == {a[1] : a \in A}
           f == [a \in A |-> a[1]]
           g == [k \in rows |-> <<sheet[k].b, sheet[k].who>>]
           image == {g[k] : k \in rows}
<1>1. IsFiniteSet(A)
  <2>1. IsFiniteSet(rows)
    BY RowsAre
  <2>2. g \in Surjection(rows, image)
    BY DEF Surjection
  <2>3. A \subseteq image
    BY DEF Assigns
  <2> HIDE DEF g, image, A, rows
  <2>4. IsFiniteSet(image)
    BY <2>1, <2>2, FS_Surjection
  <2> QED
    BY <2>3, <2>4, FS_Subset
<1>2. \A a \in A : \A c \in A : a[1] = c[1] => a = c
  <2> HIDE DEF rows
  <2> QED
    BY AssignsAreOne DEF rows
<1> HIDE DEF A
<1>3. f \in Bijection(A, B)
  BY <1>2 DEF Bijection, Injection, Surjection, IsInjective
<1> HIDE DEF f, B
<1>4. ExistsBijection(A, B)
  BY <1>3 DEF ExistsBijection
<1>5. IsFiniteSet(B) /\ Cardinality(B) = Cardinality(A)
  BY <1>1, <1>4, FS_Bijection DEF ExistsBijection
<1> QED
  BY <1>5 DEF A, B, rows

\* What goes, counted once: what is replaced, and person by person what else is
\* dropped with the buildings handed over to them.
LEMMA ReplacesCounted ==
    ASSUME PlanSetup, TypeOK, NEW sheet \in Sheets, Contested(sheet, LiveRows(sheet)) = {}
    PROVE  LET rows == LiveRows(sheet)
               replaced == Replaceable(sheet, rows)
               people == {sheet[k].who : k \in rows}
               taken(p) == UNION {StrandedTasks(tasks, a[1], p) \ replaced : a \in {x \in Assigns(sheet, rows) : x[2] = p}}
               gone == Replaceable(sheet, rows) \cup UNION {StrandedTasks(tasks, a[1], a[2]) : a \in Assigns(sheet, rows)}
           IN  Cardinality(replaced) + SumFunction([p \in people |-> Cardinality(taken(p))]) = Cardinality(gone)
<1> DEFINE rows == LiveRows(sheet)
           replaced == Replaceable(sheet, rows)
           people == {sheet[k].who : k \in rows}
           A == Assigns(sheet, rows)
           taken(p) == UNION {StrandedTasks(tasks, a[1], p) \ replaced : a \in {x \in A : x[2] = p}}
           dropped == UNION {StrandedTasks(tasks, a[1], a[2]) : a \in A}
           F == [p \in people |-> taken(p)]
           f == [p \in people |-> Cardinality(taken(p))]
<1>1. IsFiniteSet(DOMAIN tasks)
  <2>1. MaxId \in Nat
    BY DEF PlanSetup
  <2>2. IsFiniteSet(Id)
    BY <2>1, FS_Interval DEF Id
  <2>3. DOMAIN tasks \subseteq Id
    BY DEF TypeOK
  <2> QED
    BY <2>2, <2>3, FS_Subset
<1>2. IsFiniteSet(people)
  <2> DEFINE g == [k \in rows |-> sheet[k].who]
  <2>1. IsFiniteSet(rows)
    BY RowsAre
  <2>2. g \in Surjection(rows, people)
    BY DEF Surjection
  <2> HIDE DEF g, people, rows
  <2> QED
    BY <2>1, <2>2, FS_Surjection
<1>3. replaced \subseteq DOMAIN tasks
  BY DEF Replaceable, InSpan
<1>4. \A a \in A : a[2] \in people
  BY DEF Assigns
<1>5. \A a \in A : \A c \in A : a[1] = c[1] => a = c
  <2> HIDE DEF rows
  <2> QED
    BY AssignsAreOne DEF rows
<1> HIDE DEF rows, people, replaced, A
<1>6. \A a \in A : \A i \in StrandedTasks(tasks, a[1], a[2]) : i \in DOMAIN tasks /\ tasks[i].b = a[1]
  BY DEF StrandedTasks
<1>7. \A p \in people : \A i \in taken(p) :
          \E a \in A : a[2] = p /\ i \in StrandedTasks(tasks, a[1], a[2]) /\ i \notin replaced
  OBVIOUS
<1>8. \A a \in A : \A i \in StrandedTasks(tasks, a[1], a[2]) : i \notin replaced => i \in taken(a[2])
  OBVIOUS
<1>9. \A p \in people : F[p] = taken(p) /\ f[p] = Cardinality(F[p])
  OBVIOUS
<1>10. DOMAIN f = people
  OBVIOUS
<1> HIDE DEF F, f, taken
<1>11. \A p \in people : IsFiniteSet(F[p])
  <2>1. \A p \in people : F[p] \subseteq DOMAIN tasks
    BY <1>6, <1>7, <1>9
  <2> QED
    BY <1>1, <2>1, FS_Subset
<1>12. ASSUME NEW p \in people, NEW q \in people, p # q PROVE F[p] \cap F[q] = {}
  <2> SUFFICES ASSUME NEW i \in taken(p), i \in taken(q) PROVE FALSE
    BY <1>9
  <2>1. PICK a \in A : a[2] = p /\ i \in StrandedTasks(tasks, a[1], a[2])
    BY <1>7
  <2>2. PICK c \in A : c[2] = q /\ i \in StrandedTasks(tasks, c[1], c[2])
    BY <1>7
  <2>3. a[1] = c[1]
    BY <1>6, <2>1, <2>2
  <2> QED
    BY <1>5, <1>12, <2>1, <2>2, <2>3
<1>13. SumFunctionOnSet(f, people) = Cardinality(AllOf(F, people)) /\ IsFiniteSet(AllOf(F, people))
  BY <1>2, <1>9, <1>11, <1>12, SumOfSizes, Zenon
<1>14. SumFunction(f) = Cardinality(AllOf(F, people))
  BY <1>10, <1>13, Zenon DEF SumFunction
<1>15. \A i : i \in AllOf(F, people) <=> \E p \in people : i \in F[p]
  BY DEF AllOf
<1>16. AllOf(F, people) \cap replaced = {}
  <2> SUFFICES ASSUME NEW i \in AllOf(F, people), i \in replaced PROVE FALSE
    OBVIOUS
  <2>1. PICK p \in people : i \in taken(p)
    BY <1>9, <1>15
  <2> QED
    BY <1>7, <2>1
<1>17. replaced \cup AllOf(F, people) = replaced \cup dropped
  <2>1. ASSUME NEW i \in AllOf(F, people) PROVE i \in dropped
    <3>1. PICK p \in people : i \in taken(p)
      BY <1>9, <1>15
    <3> QED
      BY <1>7, <3>1
  <2>2. ASSUME NEW i \in dropped, i \notin replaced PROVE i \in AllOf(F, people)
    <3>1. PICK a \in A : i \in StrandedTasks(tasks, a[1], a[2])
      OBVIOUS
    <3>2. i \in F[a[2]]
      BY <1>4, <1>8, <1>9, <2>2, <3>1
    <3> QED
      BY <1>4, <1>15, <3>2
  <2> HIDE DEF dropped
  <2> QED
    BY <2>1, <2>2
<1>18. IsFiniteSet(replaced)
  BY <1>1, <1>3, FS_Subset
<1> HIDE DEF dropped
<1>19. Cardinality(replaced) + Cardinality(AllOf(F, people)) = Cardinality(replaced \cup AllOf(F, people))
  BY <1>13, <1>16, <1>18, UnionCounted
<1>20. Cardinality(replaced) + SumFunction(f) = Cardinality(replaced \cup dropped)
  BY <1>14, <1>17, <1>19, Zenon
<1> QED
  BY <1>20, Zenon DEF f, taken, dropped, A, people, replaced, rows

LEMMA PreviewTells == PlanSetup /\ TypeOK => PreviewIsTrue
<1> SUFFICES ASSUME PlanSetup, TypeOK, NEW actor \in Planner, NEW sheet \in Sheets,
                    ~Preview(actor, sheet).errors, LiveRows(sheet) # {}
             PROVE  LET told == Preview(actor, sheet)
                        rows == LiveRows(sheet)
                        gone == Replaceable(sheet, rows) \cup UNION {StrandedTasks(tasks, a[1], a[2]) : a \in Assigns(sheet, rows)}
                    IN  /\ ImportChecks(actor, sheet)
                        /\ told.creates = Cardinality(Creates(sheet, rows))
                        /\ told.replaces = Cardinality(gone)
                        /\ told.assigns = Cardinality({a[1] : a \in Assigns(sheet, rows)})
  BY Zenon DEF PreviewIsTrue
<1> DEFINE told == Preview(actor, sheet)
           rows == LiveRows(sheet)
           replaced == Replaceable(sheet, rows)
           people == {sheet[k].who : k \in rows}
           taken(p) == UNION {StrandedTasks(tasks, a[1], p) \ replaced : a \in {x \in Assigns(sheet, rows) : x[2] = p}}
           made == SumFunction([p \in people |-> Cardinality({c \in Creates(sheet, rows) : c.key[1] = p})])
           dropped == SumFunction([p \in people |-> Cardinality(taken(p))])
           gone == Replaceable(sheet, rows) \cup UNION {StrandedTasks(tasks, a[1], a[2]) : a \in Assigns(sheet, rows)}
<1>1. /\ \A k \in DOMAIN sheet : RowOk(actor, sheet[k])
      /\ PreviewRows(actor, sheet) = rows /\ Contested(sheet, rows) = {}
  BY NoErrors
<1>2. ImportChecks(actor, sheet)
  BY <1>1, LivePlans DEF ImportChecks
<1>3. told = [errors |-> rows # {k \in DOMAIN sheet : k \in rows \/ ~RowOk(actor, sheet[k])},
              creates |-> made, replaces |-> Cardinality(replaced) + dropped, assigns |-> Cardinality(Assigns(sheet, rows))]
  BY <1>1, Zenon DEF Preview
<1>4. made = Cardinality(Creates(sheet, rows))
  BY CreatesCounted, Zenon
<1>5. Cardinality(replaced) + dropped = Cardinality(gone)
  BY <1>1, ReplacesCounted, Zenon
<1>6. Cardinality(Assigns(sheet, rows)) = Cardinality({a[1] : a \in Assigns(sheet, rows)})
  BY <1>1, AssignsCounted, Zenon
<1> HIDE DEF told, rows, replaced, made, dropped, gone
<1>7. told.creates = made /\ told.replaces = Cardinality(replaced) + dropped /\ told.assigns = Cardinality(Assigns(sheet, rows))
  BY <1>3
<1> QED
  BY <1>2, <1>4, <1>5, <1>6, <1>7, Zenon DEF told, rows, gone

\* Whatever was done to the plan: a sheet previewed without an error is imported
\* as previewed, with so many tasks made and gone and buildings handed over; and the
\* lists show each visit once, and count what an edit changes and an upload has.
THEOREM PlanStaysTold == PlanSetup => (Spec => [](PlanHasNoTwins /\ PreviewIsTrue /\ ListsTellThePlan))
<1> SUFFICES ASSUME PlanSetup PROVE Spec => [](PlanHasNoTwins /\ PreviewIsTrue /\ ListsTellThePlan)
  OBVIOUS
<1>1. PlanInv => PlanHasNoTwins /\ PreviewIsTrue /\ ListsTellThePlan
  BY PreviewTells, ListsTell DEF PlanInv
<1>2. Spec => []PlanInv
  BY PlanStaysFit
<1> QED
  BY <1>1, <1>2, PTL

-----------------------------------------------------------------------------
(* What a row of a sheet asks for.                                         *)

\* Weeks have days, and cells that are no date are no numbers.
SheetSetup ==
    /\ Week \in Nat \ {0} /\ MaxAhead \in Nat /\ MaxRepeat \in Nat /\ Oldest \in Nat /\ LastDate \in Nat
    /\ None \notin Int /\ NoDate \notin Int /\ NoRepeat \notin Int
    /\ None # NoDate /\ None # NoRepeat /\ NoDate # NoRepeat

LEMMA QuotientIs ==
    ASSUME NEW W \in Nat \ {0}, NEW q \in Int, NEW p \in Int, NEW r \in Int, NEW s \in Int,
           0 <= r, r < W, 0 <= s, s < W, W * q + r = W * p + s
    PROVE  q = p /\ r = s
<1>1. ASSUME NEW m \in Int, NEW n \in Int, m < n PROVE W * (n - m) >= W
  <2>1. n - m >= 1
    BY <1>1
  <2> QED
    BY <2>1
<1>2. CASE q < p
  <2>1. W * (p - q) = r - s
    OBVIOUS
  <2> QED
    BY <1>1, <1>2, <2>1
<1>3. CASE p < q
  <2>1. W * (q - p) = s - r
    OBVIOUS
  <2> QED
    BY <1>1, <1>3, <2>1
<1> QED
  BY <1>2, <1>3

\* The days of a weekday are weeks apart.
LEMMA WeeksApart ==
    ASSUME NEW W \in Nat \ {0}, NEW a \in Int
    PROVE  /\ \A k \in Int : (a + W * k) % W = a % W
           /\ \A d \in Int : d % W = a % W => \E k \in Int : d = a + W * k
<1>1. \A d \in Int : /\ d \div W \in Int /\ d % W \in Int /\ 0 <= d % W /\ d % W < W
                     /\ d = W * (d \div W) + (d % W)
  OBVIOUS
<1>2. ASSUME NEW k \in Int PROVE (a + W * k) % W = a % W
  <2> DEFINE d == a + W * k
  <2>1. d \in Int /\ (a \div W) + k \in Int
    BY <1>1
  <2>2. d = W * ((a \div W) + k) + (a % W)
    BY <1>1
  <2> HIDE DEF d
  <2>3. d = W * (d \div W) + (d % W)
    BY <1>1, <2>1
  <2>4. d % W = a % W
    <3> DEFINE q == d \div W
               r == d % W
               p == (a \div W) + k
               s == a % W
    <3>1. q \in Int /\ r \in Int /\ 0 <= r /\ r < W /\ p \in Int /\ s \in Int /\ 0 <= s /\ s < W
      BY <1>1, <2>1
    <3>2. W * q + r = W * p + s
      BY <2>2, <2>3
    <3> HIDE DEF q, r, p, s
    <3>3. r = s
      BY <3>1, <3>2, QuotientIs
    <3> QED
      BY <3>3 DEF r, s
  <2> QED
    BY <2>4 DEF d
<1>3. ASSUME NEW d \in Int, d % W = a % W PROVE \E k \in Int : d = a + W * k
  <2>1. (d \div W) - (a \div W) \in Int
    BY <1>1
  <2>2. d - a = W * (d \div W) - W * (a \div W)
    BY <1>1, <1>3
  <2>3. d = a + W * ((d \div W) - (a \div W))
    BY <1>1, <2>2
  <2> QED
    BY <2>1, <2>3
<1> QED
  BY <1>2, <1>3

\* So from a date to so many weeks on, they are one a week.
LEMMA WeekdayIs ==
    ASSUME NEW W \in Nat \ {0}, NEW a \in Int, NEW n \in Nat
    PROVE  {d \in a .. a + W * n : d % W \in {a % W}} = {a + W * k : k \in 0 .. n}
<1>1. ASSUME NEW d \in a .. a + W * n, d % W = a % W PROVE d \in {a + W * k : k \in 0 .. n}
  <2>1. PICK k \in Int : d = a + W * k
    <3>1. d \in Int
      OBVIOUS
    <3> QED
      BY <1>1, <3>1, WeeksApart, Zenon
  <2>2. 0 <= k
    <3> SUFFICES ASSUME k < 0 PROVE FALSE
      OBVIOUS
    <3>1. W * k <= 0 - W
      <4>1. 0 - k >= 1
        OBVIOUS
      <4>2. W * (0 - k) >= W
        BY <4>1
      <4> QED
        BY <4>2
    <3> QED
      BY <2>1, <3>1
  <2>3. k <= n
    <3> SUFFICES ASSUME k > n PROVE FALSE
      OBVIOUS
    <3>1. W * (k - n) >= W
      <4>1. k - n >= 1
        OBVIOUS
      <4> QED
        BY <4>1
    <3>2. W * k = W * n + W * (k - n)
      OBVIOUS
    <3> QED
      BY <2>1, <3>1, <3>2
  <2> QED
    BY <2>1, <2>2, <2>3
<1>2. ASSUME NEW k \in 0 .. n PROVE a + W * k \in {d \in a .. a + W * n : d % W \in {a % W}}
  <2>1. 0 <= W * k /\ W * k <= W * n
    <3>1. W * k \in Int /\ W * n \in Int /\ n - k \in Nat
      OBVIOUS
    <3>2. 0 <= W * k
      OBVIOUS
    <3>3. 0 <= W * (n - k)
      BY <3>1
    <3>4. W * (n - k) = W * n - W * k
      OBVIOUS
    <3> QED
      BY <3>1, <3>2, <3>3, <3>4
  <2>2. (a + W * k) % W = a % W
    <3>1. k \in Int
      OBVIOUS
    <3> QED
      BY <3>1, WeeksApart, Zenon
  <2> QED
    BY <2>1, <2>2
<1> QED
  BY <1>1, <1>2

LEMMA CellsAre ==
    ASSUME SheetSetup, NEW r \in Sheet!Row
    PROVE  /\ r.date \in Int \cup {None, NoDate} /\ r.until \in Int \cup {None, NoDate}
           /\ r.repeat \in Int \cup {NoRepeat, None, NoDate}
           /\ Sheet!IsDay(r.date) <=> r.date \in Int
           /\ Sheet!IsDay(r.until) <=> r.until \in Int
<1>1. \A c \in -Oldest .. LastDate : c \in Int
  OBVIOUS
<1>2. \A c \in 0 .. MaxRepeat + 1 : c \in Int
  OBVIOUS
<1>3. r.date \in Sheet!Cell /\ r.until \in Sheet!Cell /\ r.repeat \in {NoRepeat, None, NoDate} \cup 0 .. MaxRepeat + 1
  BY DEF Sheet!Row
<1>4. r.date \in Int \cup {None, NoDate} /\ r.until \in Int \cup {None, NoDate}
  BY <1>1, <1>3 DEF Sheet!Cell
<1>5. r.repeat \in Int \cup {NoRepeat, None, NoDate}
  BY <1>2, <1>3
<1> QED
  BY <1>4, <1>5 DEF Sheet!IsDay, SheetSetup

\* A row of the weekly template: so many weeks are a monthly row up to the last.
LEMMA WeeklyIsRead ==
    ASSUME SheetSetup, NEW r \in Sheet!Row, NEW day \in Int, Sheet!Kind(r) = "WEEKLY",
           Sheet!ParseWeekly(r, day).errors = {}
    PROVE  Sheet!ParseWeekly(r, day).dates = {d \in Sheet!Asked(r) : d >= day}
<1> DEFINE weeks == Sheet!RepeatWeeks(r.repeat)
           dated == Sheet!IsDay(r.date)
           as == IF dated /\ weeks # NoDate THEN Sheet!WeeklyAsMonthly(r.date, weeks) ELSE [until |-> None, ticked |-> {}]
           errors == (IF dated THEN {} ELSE {"date"}) \cup (IF weeks = NoDate THEN {"repeat"} ELSE {})
               \cup (IF dated /\ r.date < day THEN {"passed"} ELSE {})
               \cup (IF as.until # None /\ as.until > day + MaxAhead THEN {"ahead"} ELSE {})
           dates == IF dated THEN Sheet!ExpandDates(r.date, as.until, as.ticked) ELSE {}
<1>1. Sheet!ParseWeekly(r, day) = Sheet!Result(errors, dates)
  BY Zenon DEF Sheet!ParseWeekly
<1> HIDE DEF weeks, dated, as, errors, dates
<1>2. errors = {} /\ Sheet!ParseWeekly(r, day).dates = dates
  BY <1>1 DEF Sheet!Result
<1>3. /\ dated /\ weeks # NoDate /\ ~(r.date < day)
      /\ as.until # None => ~(as.until > day + MaxAhead)
  BY <1>2 DEF errors
<1>4. r.date \in Int /\ r.date >= day
  BY <1>3, CellsAre DEF dated
<1>5. weeks \in Nat /\ weeks >= 1
  <2>1. weeks = 1 \/ weeks \in 1 .. MaxRepeat
    BY <1>3 DEF weeks, Sheet!RepeatWeeks
  <2> QED
    BY <2>1 DEF SheetSetup
<1>6. as = Sheet!WeeklyAsMonthly(r.date, weeks) /\ dates = Sheet!ExpandDates(r.date, as.until, as.ticked)
  BY <1>3, Zenon DEF as, dates
<1>7. Week \in Nat \ {0} /\ MaxAhead \in Nat /\ None \notin Int
  BY DEF SheetSetup
<1>8. Sheet!Asked(r) = {r.date + Week * k : k \in 0 .. weeks - 1}
  BY Zenon DEF Sheet!Asked, weeks
<1>9. dates = {r.date + Week * k : k \in 0 .. weeks - 1}
  <2>1. CASE weeks <= 1
    <3>1. weeks = 1
      BY <1>5, <2>1
    <3>2. as.ticked = {}
      BY <1>6, <2>1 DEF Sheet!WeeklyAsMonthly
    <3>3. dates = {r.date}
      BY <1>6, <3>2 DEF Sheet!ExpandDates
    <3>4. {r.date + Week * k : k \in 0 .. weeks - 1} = {r.date}
      <4>1. 0 .. weeks - 1 = {0}
        BY <3>1
      <4>2. r.date + Week * 0 = r.date
        BY <1>4, <1>7
      <4> QED
        BY <4>1, <4>2
    <3> QED
      BY <3>3, <3>4
  <2>2. CASE ~(weeks <= 1)
    <3> DEFINE until == r.date + Week * (weeks - 1)
               weekday == {r.date % Week}
    <3>1. as = [until |-> until, ticked |-> weekday]
      BY <1>6, <2>2, Zenon DEF Sheet!WeeklyAsMonthly
    <3>2. until \in Int
      <4>1. weeks - 1 \in Int
        BY <1>5
      <4> QED
        BY <1>4, <1>7, <4>1
    <3>3. weekday # {}
      OBVIOUS
    <3>4. weeks - 1 \in Nat
      BY <1>5
    <3> HIDE DEF weekday, until
    <3>5. as.until = until /\ as.ticked = weekday
      BY <3>1
    <3>6. until # None /\ ~(until > r.date + 2 * MaxAhead)
      <4>1. until # None
        BY <1>7, <3>2
      <4>2. ~(until > day + MaxAhead)
        BY <1>3, <3>5, <4>1
      <4> QED
        BY <1>4, <1>7, <3>2, <4>1, <4>2
    <3>7. dates = {d \in r.date .. until : d % Week \in weekday}
      BY <1>6, <3>3, <3>5, <3>6, Zenon DEF Sheet!ExpandDates
    <3>8. {d \in r.date .. until : d % Week \in weekday} = {r.date + Week * k : k \in 0 .. weeks - 1}
      BY <1>4, <1>7, <3>4, WeekdayIs, Zenon DEF until, weekday
    <3> QED
      BY <3>7, <3>8
  <2> QED
    BY <2>1, <2>2
<1>10. \A d \in dates : d >= day
  <2> SUFFICES ASSUME NEW k \in 0 .. weeks - 1 PROVE r.date + Week * k >= day
    BY <1>9
  <2>1. k \in Nat /\ Week \in Nat
    BY <1>5, <1>7
  <2>2. Week * k \in Nat
    BY <2>1
  <2> QED
    BY <1>4, <2>2
<1>11. Sheet!Asked(r) = dates
  BY <1>8, <1>9
<1> QED
  BY <1>2, <1>10, <1>11

\* A row of the monthly template.
LEMMA MonthlyIsRead ==
    ASSUME SheetSetup, NEW r \in Sheet!Row, NEW day \in Int, Sheet!Kind(r) = "MONTHLY",
           Sheet!ParseMonthly(r, day).errors = {}
    PROVE  Sheet!ParseMonthly(r, day).dates =
               IF r.ticked # {} /\ r.until > r.date + 2 * MaxAhead THEN {} ELSE {d \in Sheet!Asked(r) : d >= day}
<1> DEFINE dated == Sheet!IsDay(r.date)
           ends == Sheet!IsDay(r.until)
           errors == (IF dated THEN {} ELSE {"date"}) \cup (IF r.until = NoDate THEN {"until"} ELSE {})
               \cup (IF r.until = None /\ r.ticked # {} THEN {"no end"} ELSE {})
               \cup (IF dated /\ ends /\ r.until < r.date THEN {"until"} ELSE {})
               \cup (IF ends /\ r.until > day + MaxAhead THEN {"ahead"} ELSE {})
           dates == IF errors = {} THEN {d \in Sheet!ExpandDates(r.date, r.until, r.ticked) : d >= day} ELSE {}
<1>1. Sheet!ParseMonthly(r, day) = Sheet!Result(errors, dates)
  BY Zenon DEF Sheet!ParseMonthly
<1> HIDE DEF dated, ends, errors, dates
<1>2. errors = {} /\ Sheet!ParseMonthly(r, day).dates = dates
  BY <1>1 DEF Sheet!Result
<1>3. dated /\ r.until # NoDate /\ (r.ticked # {} => r.until # None)
  BY <1>2 DEF errors
<1>4. dates = {d \in Sheet!ExpandDates(r.date, r.until, r.ticked) : d >= day}
  BY <1>2, Zenon DEF dates
<1>5. Sheet!Asked(r) = IF r.ticked = {} THEN {r.date} ELSE {d \in r.date .. r.until : d % Week \in r.ticked}
  <2>1. Sheet!Kind(r) # "WEEKLY"
    OBVIOUS
  <2> QED
    BY <2>1, Zenon DEF Sheet!Asked
<1>6. CASE r.ticked = {}
  <2>1. Sheet!ExpandDates(r.date, r.until, r.ticked) = Sheet!Asked(r)
    BY <1>5, <1>6 DEF Sheet!ExpandDates
  <2> QED
    BY <1>2, <1>4, <1>6, <2>1
<1>7. CASE r.ticked # {} /\ r.until > r.date + 2 * MaxAhead
  <2>1. Sheet!ExpandDates(r.date, r.until, r.ticked) = {}
    BY <1>7, Zenon DEF Sheet!ExpandDates
  <2> QED
    BY <1>2, <1>4, <1>7, <2>1
<1>8. CASE r.ticked # {} /\ ~(r.until > r.date + 2 * MaxAhead)
  <2>1. Sheet!ExpandDates(r.date, r.until, r.ticked) = Sheet!Asked(r)
    BY <1>3, <1>5, <1>8, Zenon DEF Sheet!ExpandDates
  <2> QED
    BY <1>2, <1>4, <1>8, <2>1
<1> QED
  BY <1>6, <1>7, <1>8

LEMMA RowIsRead == SheetSetup /\ line \in Sheet!Row /\ readOn \in Int => Sheet!RowMeansItsDays
<1> SUFFICES ASSUME SheetSetup, line \in Sheet!Row, readOn \in Int, Sheet!ParseRow(line, readOn).errors = {}
             PROVE  Sheet!ParseRow(line, readOn).dates =
                       IF Sheet!Kind(line) = "MONTHLY" /\ line.ticked # {} /\ line.until > line.date + 2 * MaxAhead THEN {}
                       ELSE {d \in Sheet!Asked(line) : d >= readOn}
  BY Zenon DEF Sheet!RowMeansItsDays
<1>1. CASE Sheet!Kind(line) = "WEEKLY"
  <2>1. Sheet!ParseRow(line, readOn) = Sheet!ParseWeekly(line, readOn)
    BY <1>1 DEF Sheet!ParseRow
  <2> QED
    BY <1>1, <2>1, WeeklyIsRead
<1>2. CASE Sheet!Kind(line) = "MONTHLY"
  <2>1. Sheet!ParseRow(line, readOn) = Sheet!ParseMonthly(line, readOn)
    BY <1>2 DEF Sheet!ParseRow
  <2> QED
    BY <1>2, <2>1, MonthlyIsRead
<1>3. CASE Sheet!Kind(line) \notin {"WEEKLY", "MONTHLY"}
  <2>1. Sheet!ParseRow(line, readOn) = Sheet!Result({"both"} \cup Sheet!ParseMonthly(line, readOn).errors, {})
    BY <1>3 DEF Sheet!ParseRow
  <2>2. Sheet!ParseRow(line, readOn).errors # {}
    BY <2>1 DEF Sheet!Result
  <2> QED
    BY <2>2
<1> QED
  BY <1>1, <1>2, <1>3

\* For weeks of any length, any horizon and any row, whatever the day it is read on:
\* without an error it plans the days it asks for, but for those that have passed.
THEOREM RowStaysRead == SheetSetup => (Sheet!Spec => []Sheet!RowMeansItsDays)
<1> SUFFICES ASSUME SheetSetup PROVE Sheet!Spec => []Sheet!RowMeansItsDays
  OBVIOUS
<1> DEFINE Inv == line \in Sheet!Row /\ readOn \in Int
<1>1. Sheet!Init => Inv
  BY DEF Sheet!Init
<1>2. Inv /\ [Sheet!Next]_(Sheet!vars) => Inv'
  <2> HIDE DEF Sheet!Row
  <2> QED
    BY DEF Sheet!Next, Sheet!vars
<1>3. Inv => Sheet!RowMeansItsDays
  BY RowIsRead
<1> HIDE DEF Inv
<1> QED
  BY <1>1, <1>2, <1>3, PTL DEF Sheet!Spec

-----------------------------------------------------------------------------
(* The field work, in requests that overlap.                               *)

\* Null is no value of a column, and there are days and room for so many photos.
FieldSetup ==
    /\ None \notin Work!Op \cup Time
    /\ MaxImages \in Nat /\ LastShift \in Nat /\ 1 <= LastShift

Party == [solo : BOOLEAN, with : SUBSET FieldExecutive]
Stay == [who : Work!Person, b : Site, party : Party, open : BOOLEAN]
Inquiry == [by : Work!Person, b : Site, visit : Nat \cup {None}, status : Status, followUp : Time \cup {None}]
Meeting == FieldLeader \X (1 .. LastShift)

PartyFits(who, party) ==
    IF who \in FieldLeader THEN party.with \subseteq FieldTeam[who] /\ (party.solo <=> party.with = {})
    ELSE party = [solo |-> FALSE, with |-> {}]
ImagesFit(images) == images \subseteq Photo /\ IsFiniteSet(images) /\ Cardinality(images) <= MaxImages
InquiryFits(ss, q) ==
    /\ q \in Inquiry
    /\ q.visit # None => q.visit \in DOMAIN ss /\ ss[q.visit].who = q.by /\ ss[q.visit].b = q.b
    /\ (q.status = "FOLLOW_UP") <=> q.followUp # None

\* What request r is about to write fits the visits ss.
Pending(ss, r) ==
    \/ r = Work!Idle
    \/ r.op = "checkIn" /\ r.who \in Work!Person /\ r.b \in Site /\ r.party \in Party /\ PartyFits(r.who, r.party)
    \/ r.op = "checkOut" /\ r.visit \in DOMAIN ss
    \/ r.op \in {"addActivity", "removeActivity"} /\ r.at \in (DOMAIN ss) \X Type
    \/ r.op \in {"addPhoto", "removePhoto"} /\ r.at \in (DOMAIN ss) \X Type /\ r.photo \in Photo
    \/ r.op = "setImages" /\ r.at \in (DOMAIN ss) \X Type /\ ImagesFit(r.images)
    \/ r.op = "inquiry" /\ InquiryFits(ss, r.row)
    \/ r.op = "meeting" /\ r.key \in Meeting

StaysFit(ss) == (\E n \in Nat : ss \in [1 .. n -> Stay]) /\ \A i \in DOMAIN ss : PartyFits(ss[i].who, ss[i].party)
InquiriesFit(ss, qs) == (\E n \in Nat : DOMAIN qs = 1 .. n) /\ \A i \in DOMAIN qs : InquiryFits(ss, qs[i])
ActivitiesFit(ss, as) == \A k \in DOMAIN as : k \in (DOMAIN ss) \X Type /\ ImagesFit(as[k])

FieldInv ==
    /\ StaysFit(stays) /\ InquiriesFit(stays, inquiries) /\ ActivitiesFit(stays, activities)
    /\ meetings \subseteq Meeting /\ zones \in [FieldLeader -> SUBSET Zone] /\ shift \in 1 .. LastShift
    /\ DOMAIN request = Worker /\ \A w \in Worker : Pending(stays, request[w])

\* Later visits and what was written of earlier ones: they are of the same person
\* and building.
Later(ss, tt) == DOMAIN ss \subseteq DOMAIN tt /\ \A i \in DOMAIN ss : tt[i].who = ss[i].who /\ tt[i].b = ss[i].b

LEMMA LaterFits ==
    ASSUME NEW ss, NEW tt, Later(ss, tt)
    PROVE  /\ \A q : InquiryFits(ss, q) => InquiryFits(tt, q)
           /\ \A r : Pending(ss, r) => Pending(tt, r)
           /\ \A qs : InquiriesFit(ss, qs) => InquiriesFit(tt, qs)
           /\ \A as : ActivitiesFit(ss, as) => ActivitiesFit(tt, as)
<1>1. \A q : InquiryFits(ss, q) => InquiryFits(tt, q)
  <2> SUFFICES ASSUME NEW q, InquiryFits(ss, q) PROVE InquiryFits(tt, q)
    OBVIOUS
  <2>1. q.visit # None => q.visit \in DOMAIN tt /\ tt[q.visit].who = q.by /\ tt[q.visit].b = q.b
    BY Zenon DEF InquiryFits, Later
  <2> QED
    BY <2>1, Zenon DEF InquiryFits
<1>2. \A k : k \in (DOMAIN ss) \X Type => k \in (DOMAIN tt) \X Type
  BY DEF Later
<1>3. \A i : i \in DOMAIN ss => i \in DOMAIN tt
  BY Zenon DEF Later
<1>4. \A r : Pending(ss, r) => Pending(tt, r)
  BY <1>1, <1>2, <1>3, Zenon DEF Pending
<1> QED
  BY <1>1, <1>2, <1>4, Zenon DEF InquiriesFit, ActivitiesFit

\* The next number of a table numbered from 1 on is free, and then it is numbered so.
LEMMA NextIs ==
    ASSUME NEW n \in Nat
    PROVE  Work!Next1(1 .. n) = n + 1 /\ (1 .. n) \cup {n + 1} = 1 .. n + 1
<1>1. CASE n = 0
  <2>1. 1 .. n = {}
    BY <1>1
  <2>2. Work!Next1({}) = 1
    BY Zenon DEF Work!Next1
  <2>3. Work!Next1(1 .. n) = 1
    BY <2>1, <2>2
  <2> QED
    BY <1>1, <2>1, <2>3
<1>2. CASE n # 0
  <2>1. n \in 1 .. n /\ \A x \in 1 .. n : n >= x
    BY <1>2
  <2> DEFINE m == Work!Max(1 .. n)
  <2>2. m \in 1 .. n /\ \A x \in 1 .. n : m >= x
    BY <2>1, Zenon DEF Work!Max
  <2>3. m = n
    <3>1. m \in Int /\ m >= n /\ m <= n
      BY <2>1, <2>2
    <3> QED
      BY <3>1
  <2>4. Work!Next1(1 .. n) = m + 1
    BY <2>1, Zenon DEF Work!Next1
  <2> QED
    BY <2>3, <2>4
<1> QED
  BY <1>1, <1>2

\* A table with a row more.
LEMMA RowAdded ==
    ASSUME NEW table, NEW n \in Nat, DOMAIN table = 1 .. n, NEW row,
           NEW more, more = Work!With(table, Work!Next1(DOMAIN table), row)
    PROVE  /\ DOMAIN more = 1 .. n + 1
           /\ \A i \in DOMAIN table : more[i] = table[i]
           /\ \A i \in DOMAIN more : i \in DOMAIN table \/ more[i] = row
<1> DEFINE id == Work!Next1(DOMAIN table)
<1>1. id = n + 1 /\ DOMAIN table \cup {id} = 1 .. n + 1
  BY NextIs
<1>2. more = [i \in DOMAIN table \cup {id} |-> IF i \in DOMAIN table THEN table[i] ELSE row]
  BY Zenon DEF Work!With
<1> HIDE DEF id
<1>3. more = [i \in 1 .. n + 1 |-> IF i \in DOMAIN table THEN table[i] ELSE row]
  BY <1>1, <1>2
<1>4. /\ DOMAIN more = 1 .. n + 1
      /\ \A i \in 1 .. n + 1 : more[i] = IF i \in DOMAIN table THEN table[i] ELSE row
  BY <1>3
<1>5. \A i \in DOMAIN table : i \in 1 .. n + 1
  BY <1>1
<1> QED
  BY <1>4, <1>5, Zenon DEF id

\* What is pending is told by what is asked for.
LEMMA PendingIs ==
    ASSUME FieldSetup, NEW ss, NEW r, Pending(ss, r)
    PROVE  /\ r.op = "checkIn" => r.who \in Work!Person /\ r.b \in Site /\ r.party \in Party /\ PartyFits(r.who, r.party)
           /\ r.op = "checkOut" => r.visit \in DOMAIN ss
           /\ r.op \in {"addActivity", "removeActivity", "addPhoto", "removePhoto", "setImages"} =>
                  r.at \in (DOMAIN ss) \X Type
           /\ r.op \in {"addPhoto", "removePhoto"} => r.photo \in Photo
           /\ r.op = "setImages" => ImagesFit(r.images)
           /\ r.op = "inquiry" => InquiryFits(ss, r.row)
           /\ r.op = "meeting" => r.key \in Meeting
<1>1. r = Work!Idle => r.op = None
  BY DEF Work!Idle
<1>2. None \notin Work!Op
  BY DEF FieldSetup
<1> QED
  BY <1>1, <1>2 DEF Pending, Work!Op

LEMMA LaterSame == ASSUME NEW ss PROVE Later(ss, ss)
BY Zenon DEF Later

\* Of the requests one changes.
LEMMA RequestsFit ==
    ASSUME FieldInv, Later(stays, stays'), NEW w \in Worker, NEW r, Pending(stays', r),
           request' = [request EXCEPT ![w] = r]
    PROVE  DOMAIN request' = Worker /\ \A v \in Worker : Pending(stays', request'[v])
<1>1. DOMAIN request = Worker /\ \A v \in Worker : Pending(stays, request[v])
  BY Zenon DEF FieldInv
<1>2. \A v \in Worker : Pending(stays', request[v])
  BY <1>1, LaterFits
<1>3. DOMAIN request' = Worker /\ \A v \in Worker : request'[v] = IF v = w THEN r ELSE request[v]
  BY <1>1
<1> QED
  BY <1>2, <1>3, Zenon

LEMMA IdleFits == ASSUME NEW ss PROVE Pending(ss, Work!Idle)
BY Zenon DEF Pending

\* A request that begins.
LEMMA BeginFits ==
    ASSUME FieldInv, NEW w \in Worker, NEW r, Pending(stays, r), Work!Begin(w, r)
    PROVE  FieldInv'
<1>1. /\ UNCHANGED <<stays, activities, inquiries, meetings, zones, shift>>
      /\ request' = [request EXCEPT ![w] = r]
  BY Zenon DEF Work!Begin, Work!rows
<1>2. Pending(stays', r) /\ Later(stays, stays')
  BY <1>1, LaterSame
<1>3. DOMAIN request' = Worker /\ \A v \in Worker : Pending(stays', request'[v])
  BY <1>1, <1>2, RequestsFit, Zenon
<1> QED
  BY <1>1, <1>3 DEF FieldInv

\* One that ends: what it writes of the visits has all of them still.
LEMMA EndFits ==
    ASSUME FieldInv, NEW w \in Worker, Work!Finish(w), Later(stays, stays'), StaysFit(stays'),
           InquiriesFit(stays', inquiries'), ActivitiesFit(stays', activities'), meetings' \subseteq Meeting, zones' = zones
    PROVE  FieldInv'
<1>1. request' = [request EXCEPT ![w] = Work!Idle] /\ shift' = shift
  BY Zenon DEF Work!Finish
<1>2. DOMAIN request' = Worker /\ \A v \in Worker : Pending(stays', request'[v])
  BY <1>1, IdleFits, RequestsFit, Zenon
<1> QED
  BY <1>1, <1>2 DEF FieldInv

\* A leader goes with executives of the team or solo, nobody else with anybody.
LEMMA PartiesFit ==
    ASSUME NEW actor \in Work!Person, NEW ids \in SUBSET FieldExecutive, NEW solo \in BOOLEAN,
           NEW party \in Work!Party(actor, ids, solo)
    PROVE  party \in Party /\ PartyFits(actor, party)
<1>1. CASE actor \notin FieldLeader
  <2>1. party = [solo |-> FALSE, with |-> {}]
    BY <1>1 DEF Work!Party
  <2> QED
    BY <1>1, <2>1 DEF Party, PartyFits
<1>2. CASE actor \in FieldLeader /\ solo
  <2>1. party = [solo |-> TRUE, with |-> {}]
    BY <1>2 DEF Work!Party
  <2> QED
    BY <1>2, <2>1 DEF Party, PartyFits
<1>3. CASE actor \in FieldLeader /\ ~solo
  <2>1. PICK x \in {y \in {ids} \ {{}} : y \subseteq FieldTeam[actor]} : party = [solo |-> FALSE, with |-> x]
    BY <1>3 DEF Work!Party
  <2> QED
    BY <1>3, <2>1 DEF Party, PartyFits
<1> QED
  BY <1>1, <1>2, <1>3

LEMMA OpenIs ==
    ASSUME NEW actor, NEW i, Work!OwnedOpen(actor, i)
    PROVE  i \in DOMAIN stays /\ stays[i].who = actor /\ stays[i].open
BY Zenon DEF Work!OwnedOpen, Work!OpenVisitOf

LEMMA RequestFits == ASSUME FieldSetup, FieldInv, NEW w \in Worker, Work!Request(w) PROVE FieldInv'
<1>1. PICK actor \in Work!Person :
        \/ \E b \in Site, ids \in SUBSET FieldExecutive, solo \in BOOLEAN : Work!BeginCheckIn(w, actor, b, ids, solo)
        \/ \E i \in DOMAIN stays :
            \/ Work!BeginCheckOut(w, actor, i)
            \/ \E type \in Type :
                \/ \E op \in {"addActivity", "removeActivity"} : Work!BeginActivity(w, actor, i, type, op)
                \/ \E photo \in Photo, op \in {"addPhoto", "removePhoto"} : Work!BeginPhoto(w, actor, i, type, photo, op)
        \/ \E b \in Site, i \in DOMAIN stays \cup {None}, status \in Status, time \in Time :
               Work!BeginInquiry(w, actor, b, i, status, time)
        \/ actor \in FieldLeader /\ Work!BeginMeeting(w, actor)
  BY Zenon DEF Work!Request
<1>2. ASSUME NEW b \in Site, NEW ids \in SUBSET FieldExecutive, NEW solo \in BOOLEAN,
             Work!BeginCheckIn(w, actor, b, ids, solo)
      PROVE  FieldInv'
  <2>1. PICK party \in Work!Party(actor, ids, solo) :
          Work!Begin(w, [op |-> "checkIn", who |-> actor, b |-> b, party |-> party])
    BY <1>2, Zenon DEF Work!BeginCheckIn
  <2> DEFINE r == [op |-> "checkIn", who |-> actor, b |-> b, party |-> party]
  <2>2. r.op = "checkIn" /\ r.who = actor /\ r.b = b /\ r.party = party
    OBVIOUS
  <2> HIDE DEF r
  <2>3. Pending(stays, r)
    BY <2>2, PartiesFit, Zenon DEF Pending
  <2> QED
    BY <2>1, <2>3, BeginFits DEF r
<1>3. ASSUME NEW i \in DOMAIN stays, Work!BeginCheckOut(w, actor, i) PROVE FieldInv'
  <2>1. Work!Begin(w, [op |-> "checkOut", visit |-> i])
    BY <1>3, Zenon DEF Work!BeginCheckOut
  <2>2. Pending(stays, [op |-> "checkOut", visit |-> i])
    BY DEF Pending
  <2> QED
    BY <2>1, <2>2, BeginFits
<1>4. ASSUME NEW i \in DOMAIN stays, NEW type \in Type, NEW op \in {"addActivity", "removeActivity"},
             Work!BeginActivity(w, actor, i, type, op)
      PROVE  FieldInv'
  <2>1. Work!Begin(w, [op |-> op, at |-> <<i, type>>])
    BY <1>4, Zenon DEF Work!BeginActivity
  <2>2. Pending(stays, [op |-> op, at |-> <<i, type>>])
    BY DEF Pending
  <2> QED
    BY <2>1, <2>2, BeginFits
<1>5. ASSUME NEW i \in DOMAIN stays, NEW type \in Type, NEW photo \in Photo, NEW op \in {"addPhoto", "removePhoto"},
             Work!BeginPhoto(w, actor, i, type, photo, op)
      PROVE  FieldInv'
  <2>1. Work!Begin(w, [op |-> op, at |-> <<i, type>>, photo |-> photo])
    BY <1>5, Zenon DEF Work!BeginPhoto
  <2>2. Pending(stays, [op |-> op, at |-> <<i, type>>, photo |-> photo])
    BY DEF Pending
  <2> QED
    BY <2>1, <2>2, BeginFits
<1>6. ASSUME NEW b \in Site, NEW i \in DOMAIN stays \cup {None}, NEW status \in Status, NEW time \in Time,
             Work!BeginInquiry(w, actor, b, i, status, time)
      PROVE  FieldInv'
  <2> DEFINE q == [by |-> actor, b |-> b, visit |-> i, status |-> status, followUp |-> Work!FollowUpAt(status, time)]
             r == [op |-> "inquiry", row |-> q]
  <2>1. Work!Begin(w, r) /\ Work!Linkable(actor, b, i)
    BY <1>6, Zenon DEF Work!BeginInquiry
  <2>2. q.by = actor /\ q.b = b /\ q.visit = i /\ q.status = status /\ q.followUp = Work!FollowUpAt(status, time)
    OBVIOUS
  <2>3. DOMAIN stays \subseteq Nat
    BY DEF FieldInv, StaysFit
  <2>4. Work!FollowUpAt(status, time) \in Time \cup {None} /\ (status = "FOLLOW_UP" <=> Work!FollowUpAt(status, time) # None)
    BY DEF Work!FollowUpAt, FieldSetup
  <2>5. q \in Inquiry
    BY <2>3, <2>4 DEF Inquiry
  <2> HIDE DEF q
  <2>6. i # None => i \in DOMAIN stays /\ stays[i].who = actor /\ stays[i].b = b
    BY <2>1, OpenIs, Zenon DEF Work!Linkable
  <2>7. InquiryFits(stays, q)
    BY <2>2, <2>4, <2>5, <2>6, Zenon DEF InquiryFits
  <2>8. r.op = "inquiry" /\ r.row = q
    OBVIOUS
  <2> HIDE DEF r
  <2>9. Pending(stays, r)
    BY <2>7, <2>8, Zenon DEF Pending
  <2> QED
    BY <2>1, <2>9, BeginFits
<1>7. ASSUME actor \in FieldLeader, Work!BeginMeeting(w, actor) PROVE FieldInv'
  <2>1. Work!Begin(w, [op |-> "meeting", key |-> <<actor, shift>>])
    BY <1>7, Zenon DEF Work!BeginMeeting
  <2>2. shift \in 1 .. LastShift
    BY Zenon DEF FieldInv
  <2>3. Pending(stays, [op |-> "meeting", key |-> <<actor, shift>>])
    BY <1>7, <2>2 DEF Pending, Meeting
  <2> QED
    BY <2>1, <2>3, BeginFits
<1> QED
  BY <1>1, <1>2, <1>3, <1>4, <1>5, <1>6, <1>7, Zenon

LEMMA StepPending == ASSUME FieldSetup, FieldInv, NEW w \in Worker PROVE Pending(stays, request[w])
BY Zenon DEF FieldInv

LEMMA CheckInFits == ASSUME FieldSetup, FieldInv, NEW w \in Worker, Work!CheckIn(w) PROVE FieldInv'
<1> DEFINE r == request[w]
           row == [who |-> r.who, b |-> r.b, party |-> r.party, open |-> TRUE]
<1>1. /\ r.op = "checkIn" /\ stays' = Work!With(stays, Work!Next1(DOMAIN stays), row)
      /\ Work!Finish(w) /\ UNCHANGED <<activities, inquiries, meetings, zones>>
  BY Zenon DEF Work!CheckIn
<1>2. r.who \in Work!Person /\ r.b \in Site /\ r.party \in Party /\ PartyFits(r.who, r.party)
  BY <1>1, StepPending, PendingIs, Zenon
<1>3. row \in Stay /\ row.who = r.who /\ row.party = r.party
  BY <1>2 DEF Stay
<1> HIDE DEF row, r
<1>4. PICK n \in Nat : stays \in [1 .. n -> Stay]
  BY Zenon DEF FieldInv, StaysFit
<1>5. DOMAIN stays = 1 .. n /\ \A i \in DOMAIN stays : stays[i] \in Stay
  BY <1>4
<1>6. /\ DOMAIN stays' = 1 .. n + 1
      /\ \A i \in DOMAIN stays : stays'[i] = stays[i]
      /\ \A i \in DOMAIN stays' : i \in DOMAIN stays \/ stays'[i] = row
  BY <1>1, <1>5, RowAdded
<1>7. \A i \in 1 .. n + 1 : stays'[i] \in Stay
  BY <1>3, <1>5, <1>6, Zenon
<1>8. stays' \in [1 .. n + 1 -> Stay] /\ n + 1 \in Nat
  <2>1. stays' = [i \in DOMAIN stays' |-> stays'[i]]
    BY <1>1 DEF Work!With
  <2> QED
    BY <1>6, <1>7, <2>1
<1>9. \A i \in DOMAIN stays' : PartyFits(stays'[i].who, stays'[i].party)
  BY <1>2, <1>3, <1>6, Zenon DEF FieldInv, StaysFit
<1>10. StaysFit(stays')
  BY <1>8, <1>9, Zenon DEF StaysFit
<1>11. Later(stays, stays')
  <2>1. DOMAIN stays \subseteq DOMAIN stays'
    BY <1>5, <1>6
  <2> QED
    BY <2>1, <1>6, Zenon DEF Later
<1>12. InquiriesFit(stays', inquiries') /\ ActivitiesFit(stays', activities')
  BY <1>1, <1>11, LaterFits DEF FieldInv
<1>13. meetings' \subseteq Meeting /\ zones' = zones
  BY <1>1 DEF FieldInv
<1> QED
  BY <1>1, <1>10, <1>11, <1>12, <1>13, EndFits, Zenon

LEMMA CheckOutFits == ASSUME FieldSetup, FieldInv, NEW w \in Worker, Work!CheckOut(w) PROVE FieldInv'
<1> DEFINE at == request[w].visit
<1>1. /\ request[w].op = "checkOut" /\ stays' = [stays EXCEPT ![at].open = FALSE]
      /\ Work!Finish(w) /\ UNCHANGED <<activities, inquiries, meetings, zones>>
  BY Zenon DEF Work!CheckOut
<1>2. at \in DOMAIN stays
  BY <1>1, StepPending, PendingIs, Zenon
<1> HIDE DEF at
<1>3. PICK n \in Nat : stays \in [1 .. n -> Stay]
  BY Zenon DEF FieldInv, StaysFit
<1>4. stays' \in [1 .. n -> Stay]
  BY <1>1, <1>2, <1>3 DEF Stay
<1>5. /\ DOMAIN stays' = DOMAIN stays
      /\ \A i \in DOMAIN stays : stays'[i].who = stays[i].who /\ stays'[i].b = stays[i].b /\ stays'[i].party = stays[i].party
  BY <1>1, <1>2, <1>3 DEF Stay
<1>6. StaysFit(stays')
  BY <1>4, <1>5, Zenon DEF FieldInv, StaysFit
<1>7. Later(stays, stays')
  BY <1>5 DEF Later
<1>8. InquiriesFit(stays', inquiries') /\ ActivitiesFit(stays', activities')
  BY <1>1, <1>7, LaterFits DEF FieldInv
<1>9. meetings' \subseteq Meeting /\ zones' = zones
  BY <1>1 DEF FieldInv
<1> QED
  BY <1>1, <1>6, <1>7, <1>8, <1>9, EndFits, Zenon

\* A request that ends and leaves the visits alone.
LEMMA EndBeside ==
    ASSUME FieldInv, NEW w \in Worker, Work!Finish(w), stays' = stays, InquiriesFit(stays, inquiries'),
           ActivitiesFit(stays, activities'), meetings' \subseteq Meeting, zones' = zones
    PROVE  FieldInv'
<1>1. Later(stays, stays') /\ StaysFit(stays') /\ InquiriesFit(stays', inquiries') /\ ActivitiesFit(stays', activities')
  BY LaterSame DEF FieldInv
<1> QED
  BY <1>1, EndFits, Zenon

LEMMA InvParts ==
    ASSUME FieldInv
    PROVE  InquiriesFit(stays, inquiries) /\ ActivitiesFit(stays, activities) /\ meetings \subseteq Meeting
BY Zenon DEF FieldInv

LEMMA ActivityFits ==
    ASSUME FieldSetup, FieldInv, NEW w \in Worker, Work!AddActivity(w) \/ Work!RemoveActivity(w)
    PROVE  FieldInv'
<1> DEFINE at == request[w].at
<1>1. request[w].op \in {"addActivity", "removeActivity"} /\ Work!Finish(w) /\ UNCHANGED <<stays, inquiries, meetings, zones>>
  BY Zenon DEF Work!AddActivity, Work!RemoveActivity
<1>2. at \in (DOMAIN stays) \X Type
  BY <1>1, StepPending, PendingIs, Zenon
<1>3. ImagesFit({})
  BY FS_EmptySet DEF ImagesFit, FieldSetup
<1>4. ActivitiesFit(stays, activities')
  <2> HIDE DEF at
  <2>1. CASE activities' = Work!With(activities, at, {})
    <3>1. /\ DOMAIN activities' = DOMAIN activities \cup {at}
          /\ \A k \in DOMAIN activities' : activities'[k] = IF k \in DOMAIN activities THEN activities[k] ELSE {}
      BY <2>1 DEF Work!With
    <3> QED
      BY <1>2, <1>3, <3>1 DEF FieldInv, ActivitiesFit
  <2>2. CASE activities' = Work!Restrict(activities, DOMAIN activities \ {at})
    BY <2>2 DEF FieldInv, ActivitiesFit, Work!Restrict
  <2>3. activities' = Work!With(activities, at, {}) \/ activities' = Work!Restrict(activities, DOMAIN activities \ {at})
    BY Zenon DEF Work!AddActivity, Work!RemoveActivity, at
  <2> QED
    BY <2>1, <2>2, <2>3
<1> QED
  BY <1>1, <1>4, InvParts, EndBeside

LEMMA ImagesFew ==
    ASSUME FieldSetup, NEW images, ImagesFit(images), NEW photo \in Photo
    PROVE  /\ Work!Room(images) => ImagesFit(images \cup {photo})
           /\ ImagesFit(images \ {photo})
<1>1. IsFiniteSet(images) /\ images \subseteq Photo /\ Cardinality(images) <= MaxImages /\ Cardinality(images) \in Nat
  BY FS_CardinalityType DEF ImagesFit
<1>2. Cardinality(images \cup {photo}) \in Nat /\ Cardinality(images \cup {photo}) <= Cardinality(images) + 1
      /\ IsFiniteSet(images \cup {photo})
  <2>1. IsFiniteSet(images \cup {photo})
    BY <1>1, FS_AddElement
  <2>2. Cardinality(images \cup {photo}) = IF photo \in images THEN Cardinality(images) ELSE Cardinality(images) + 1
    BY <1>1, FS_AddElement
  <2> QED
    BY <1>1, <2>1, <2>2
<1>3. Work!Room(images) => Cardinality(images) < MaxImages
  BY Zenon DEF Work!Room, Work!Cardinality, Cardinality
<1>4. IsFiniteSet(images \ {photo}) /\ Cardinality(images \ {photo}) \in Nat
      /\ Cardinality(images \ {photo}) <= Cardinality(images)
  BY <1>1, FS_Subset, FS_CardinalityType
<1>5. MaxImages \in Nat
  BY DEF FieldSetup
<1>6. Work!Room(images) => Cardinality(images \cup {photo}) <= MaxImages
  BY <1>1, <1>2, <1>3, <1>5
<1>7. Cardinality(images \ {photo}) <= MaxImages
  BY <1>1, <1>4, <1>5
<1>8. images \cup {photo} \subseteq Photo /\ images \ {photo} \subseteq Photo
  BY <1>1
<1> QED
  BY <1>2, <1>4, <1>6, <1>7, <1>8 DEF ImagesFit

LEMMA ReadFits == ASSUME FieldSetup, FieldInv, NEW w \in Worker, Work!ReadActivity(w) PROVE FieldInv'
<1> DEFINE r == request[w]
           refused == r.at \notin DOMAIN activities
                        \/ (r.op = "addPhoto" /\ (r.photo \in activities[r.at] \/ ~Work!Room(activities[r.at])))
           images == IF r.op = "addPhoto" THEN activities[r.at] \cup {r.photo} ELSE activities[r.at] \ {r.photo}
           then == IF refused THEN Work!Idle ELSE [op |-> "setImages", at |-> r.at, images |-> images]
<1>1. /\ r.op \in {"addPhoto", "removePhoto"} /\ request' = [request EXCEPT ![w] = then]
      /\ UNCHANGED <<stays, activities, inquiries, meetings, zones, shift>>
  BY Zenon DEF Work!ReadActivity, Work!rows
<1>2. r.at \in (DOMAIN stays) \X Type /\ r.photo \in Photo
  BY <1>1, StepPending, PendingIs, Zenon
<1>3. Pending(stays, then)
  <2>1. CASE refused
    BY <2>1, IdleFits
  <2>2. CASE ~refused
    <3>1. ImagesFit(activities[r.at])
      BY <2>2 DEF FieldInv, ActivitiesFit
    <3>2. ImagesFit(images)
      BY <1>2, <2>2, <3>1, ImagesFew, Zenon
    <3>3. then = [op |-> "setImages", at |-> r.at, images |-> images]
      BY <2>2, Zenon
    <3> HIDE DEF then, images, refused, r
    <3> QED
      BY <1>2, <3>2, <3>3 DEF Pending
  <2> QED
    BY <2>1, <2>2
<1> HIDE DEF then
<1>4. Pending(stays', then) /\ Later(stays, stays')
  BY <1>1, <1>3, LaterSame
<1>5. DOMAIN request' = Worker /\ \A v \in Worker : Pending(stays', request'[v])
  BY <1>1, <1>4, RequestsFit, Zenon
<1> QED
  BY <1>1, <1>5 DEF FieldInv

LEMMA ImagesSet == ASSUME FieldSetup, FieldInv, NEW w \in Worker, Work!SetActivityImages(w) PROVE FieldInv'
<1> DEFINE r == request[w]
<1>1. /\ r.op = "setImages" /\ Work!Finish(w) /\ UNCHANGED <<stays, inquiries, meetings, zones>>
      /\ activities' = IF r.at \in DOMAIN activities THEN [activities EXCEPT ![r.at] = r.images] ELSE activities
  BY Zenon DEF Work!SetActivityImages
<1>2. r.at \in (DOMAIN stays) \X Type /\ ImagesFit(r.images)
  BY <1>1, StepPending, PendingIs, Zenon
<1> HIDE DEF r
<1>3. ActivitiesFit(stays, activities')
  BY <1>1, <1>2 DEF FieldInv, ActivitiesFit
<1> QED
  BY <1>1, <1>3, InvParts, EndBeside

LEMMA InquiryMade == ASSUME FieldSetup, FieldInv, NEW w \in Worker, Work!CreateInquiry(w) PROVE FieldInv'
<1> DEFINE q == request[w].row
<1>1. /\ request[w].op = "inquiry" /\ Work!Finish(w) /\ UNCHANGED <<stays, activities, meetings, zones>>
      /\ inquiries' = Work!With(inquiries, Work!Next1(DOMAIN inquiries), q)
  BY Zenon DEF Work!CreateInquiry
<1>2. InquiryFits(stays, q)
  BY <1>1, StepPending, PendingIs, Zenon
<1> HIDE DEF q
<1>3. PICK n \in Nat : DOMAIN inquiries = 1 .. n
  BY Zenon DEF FieldInv, InquiriesFit
<1>4. /\ DOMAIN inquiries' = 1 .. n + 1
      /\ \A i \in DOMAIN inquiries : inquiries'[i] = inquiries[i]
      /\ \A i \in DOMAIN inquiries' : i \in DOMAIN inquiries \/ inquiries'[i] = q
  BY <1>1, <1>3, RowAdded
<1>5. \A i \in DOMAIN inquiries' : InquiryFits(stays, inquiries'[i])
  BY <1>2, <1>4, Zenon DEF FieldInv, InquiriesFit
<1>6. n + 1 \in Nat
  OBVIOUS
<1>7. InquiriesFit(stays, inquiries')
  BY <1>4, <1>5, <1>6, Zenon DEF InquiriesFit
<1> QED
  BY <1>1, <1>7, InvParts, EndBeside

LEMMA MeetingMade == ASSUME FieldSetup, FieldInv, NEW w \in Worker, Work!CreateMeeting(w) PROVE FieldInv'
<1>1. /\ request[w].op = "meeting" /\ Work!Finish(w) /\ UNCHANGED <<stays, activities, inquiries, zones>>
      /\ meetings' = meetings \cup {request[w].key}
  BY Zenon DEF Work!CreateMeeting
<1>2. request[w].key \in Meeting
  BY <1>1, StepPending, PendingIs, Zenon
<1> QED
  BY <1>1, <1>2, InvParts, EndBeside

\* What is written at once leaves the requests as they are.
LEMMA RestOfField ==
    ASSUME FieldInv, stays' = stays, activities' = activities, meetings' = meetings, request' = request,
           InquiriesFit(stays, inquiries'), zones' \in [FieldLeader -> SUBSET Zone], shift' \in 1 .. LastShift
    PROVE  FieldInv'
BY DEF FieldInv

LEMMA InquiryUpdated ==
    ASSUME FieldSetup, FieldInv, NEW actor \in Work!Person, NEW i \in DOMAIN inquiries, NEW status \in Status, NEW time \in Time,
           Work!UpdateInquiry(actor, i, status, time)
    PROVE  FieldInv'
<1> DEFINE at == Work!FollowUpAt(status, time)
<1>1. /\ inquiries' = [inquiries EXCEPT ![i].status = status, ![i].followUp = at]
      /\ UNCHANGED <<stays, activities, meetings, zones, shift, request>>
  BY Zenon DEF Work!UpdateInquiry
<1>2. at \in Time \cup {None} /\ (status = "FOLLOW_UP" <=> at # None)
  BY DEF Work!FollowUpAt, FieldSetup
<1> HIDE DEF at
<1>3. DOMAIN inquiries' = DOMAIN inquiries /\ \A j \in DOMAIN inquiries : j # i => inquiries'[j] = inquiries[j]
  BY <1>1
<1>4. inquiries'[i] = [inquiries[i] EXCEPT !.status = status, !.followUp = at]
  BY <1>1
<1>5. InquiryFits(stays, inquiries[i])
  BY DEF FieldInv, InquiriesFit
<1>6. /\ inquiries'[i] \in Inquiry /\ inquiries'[i].by = inquiries[i].by /\ inquiries'[i].b = inquiries[i].b
      /\ inquiries'[i].visit = inquiries[i].visit /\ inquiries'[i].status = status /\ inquiries'[i].followUp = at
  BY <1>2, <1>4, <1>5 DEF InquiryFits, Inquiry
<1>7. InquiryFits(stays, inquiries'[i])
  BY <1>2, <1>5, <1>6 DEF InquiryFits
<1>8. InquiriesFit(stays, inquiries')
  BY <1>3, <1>7, Zenon DEF FieldInv, InquiriesFit
<1>9. zones' \in [FieldLeader -> SUBSET Zone] /\ shift' \in 1 .. LastShift
  BY <1>1 DEF FieldInv
<1> QED
  BY <1>1, <1>8, <1>9, RestOfField

LEMMA FieldStep == FieldSetup /\ FieldInv /\ [Work!Next]_(Work!vars) => FieldInv'
<1> SUFFICES ASSUME FieldSetup, FieldInv, [Work!Next]_(Work!vars) PROVE FieldInv'
  OBVIOUS
<1>1. ASSUME NEW w \in Worker,
             \/ Work!Request(w)
             \/ Work!CheckIn(w) \/ Work!CheckOut(w) \/ Work!AddActivity(w) \/ Work!RemoveActivity(w)
             \/ Work!ReadActivity(w) \/ Work!SetActivityImages(w) \/ Work!CreateInquiry(w) \/ Work!CreateMeeting(w)
      PROVE  FieldInv'
  BY <1>1, RequestFits, CheckInFits, CheckOutFits, ActivityFits, ReadFits, ImagesSet, InquiryMade, MeetingMade
<1>2. ASSUME NEW leader \in FieldLeader, NEW ids \in SUBSET Zone, Work!SetTeamLeaderZones(leader, ids) PROVE FieldInv'
  <2>1. zones' = [zones EXCEPT ![leader] = ids] /\ UNCHANGED <<stays, activities, inquiries, meetings, shift, request>>
    BY <1>2, Zenon DEF Work!SetTeamLeaderZones
  <2>2. zones' \in [FieldLeader -> SUBSET Zone] /\ shift' \in 1 .. LastShift
    BY <2>1 DEF FieldInv
  <2> QED
    BY <2>1, <2>2, InvParts, RestOfField
<1>3. CASE Work!NextDay
  <2>1. shift < LastShift /\ shift' = shift + 1 /\ UNCHANGED <<stays, activities, inquiries, meetings, zones, request>>
    BY <1>3, Zenon DEF Work!NextDay, Work!rows
  <2>2. shift' \in 1 .. LastShift /\ zones' \in [FieldLeader -> SUBSET Zone]
    BY <2>1 DEF FieldInv, FieldSetup
  <2> QED
    BY <2>1, <2>2, InvParts, RestOfField
<1>4. CASE UNCHANGED Work!vars
  <2>1. UNCHANGED <<stays, activities, inquiries, meetings, zones, shift, request>>
    BY <1>4, Zenon DEF Work!vars
  <2> QED
    BY <2>1 DEF FieldInv
<1> QED
  BY <1>1, <1>2, <1>3, <1>4, InquiryUpdated, Zenon DEF Work!Next

LEMMA FieldFirst == FieldSetup /\ Work!Init => FieldInv
<1> SUFFICES ASSUME FieldSetup, Work!Init PROVE FieldInv
  OBVIOUS
<1>1. /\ stays = << >> /\ activities = << >> /\ inquiries = << >> /\ meetings = {}
      /\ zones = [l \in FieldLeader |-> {}] /\ shift = 1 /\ request = [w \in Worker |-> Work!Idle]
  BY Zenon DEF Work!Init
<1>2. DOMAIN stays = {} /\ DOMAIN activities = {} /\ DOMAIN inquiries = {} /\ 1 .. 0 = {}
  BY <1>1
<1>3. stays \in [1 .. 0 -> Stay] /\ 0 \in Nat
  BY <1>1, <1>2
<1>4. StaysFit(stays) /\ InquiriesFit(stays, inquiries) /\ ActivitiesFit(stays, activities)
  BY <1>2, <1>3 DEF StaysFit, InquiriesFit, ActivitiesFit
<1>5. \A w \in Worker : Pending(stays, request[w])
  BY <1>1, IdleFits
<1>6. meetings \subseteq Meeting /\ zones \in [FieldLeader -> SUBSET Zone] /\ shift \in 1 .. LastShift /\ DOMAIN request = Worker
  BY <1>1 DEF FieldSetup
<1> QED
  BY <1>4, <1>5, <1>6 DEF FieldInv

LEMMA FieldIsFit == FieldInv => Work!TypeOK /\ Work!FieldRecordsFit
<1> SUFFICES ASSUME FieldInv PROVE Work!TypeOK /\ Work!FieldRecordsFit
  OBVIOUS
<1>1. PICK n \in Nat : stays \in [1 .. n -> Stay]
  BY Zenon DEF FieldInv, StaysFit
<1>2. \A i \in DOMAIN stays : stays[i].who \in Work!Person /\ stays[i].b \in Site /\ PartyFits(stays[i].who, stays[i].party)
  BY <1>1 DEF FieldInv, StaysFit, Stay
<1>3. \A k \in DOMAIN activities : k \in (DOMAIN stays) \X Type /\ activities[k] \subseteq Photo /\ Cardinality(activities[k]) <= MaxImages
  BY DEF FieldInv, ActivitiesFit, ImagesFit
<1>4. \A i \in DOMAIN inquiries : InquiryFits(stays, inquiries[i])
  BY DEF FieldInv, InquiriesFit
<1>5. \A i \in DOMAIN inquiries : inquiries[i].by \in Work!Person /\ inquiries[i].status \in Status
  BY <1>4 DEF InquiryFits, Inquiry
<1>6. Work!TypeOK
  BY <1>2, <1>3, <1>5 DEF FieldInv, Work!TypeOK, Meeting
<1>7. \A k \in DOMAIN activities : Work!Cardinality(activities[k]) <= MaxImages
  BY <1>3, Zenon DEF Work!Cardinality, Cardinality
<1>8. Work!FieldRecordsFit
  BY <1>2, <1>4, <1>7, Zenon DEF Work!FieldRecordsFit, InquiryFits, PartyFits
<1> QED
  BY <1>6, <1>8

\* Requests in turn: what was read of the visits is still so when it is written.
OneOpen(ss) == \A i, j \in DOMAIN ss : (ss[i].open /\ ss[j].open /\ ss[i].who = ss[j].who) => i = j
StillSo(ss, r) ==
    /\ r.op = "checkIn" => \A i \in DOMAIN ss : ~(ss[i].who = r.who /\ ss[i].open)
    /\ r.op = "checkOut" => ss[r.visit].open
    /\ r.op \in {"addActivity", "removeActivity", "addPhoto", "removePhoto", "setImages"} => ss[r.at[1]].open
TurnInv(w) == FieldInv /\ OneOpen(stays) /\ StillSo(stays, request[w])

\* What is done on a visit is what its activities are.
LEMMA DoneIs ==
    ASSUME NEW i, i \in DOMAIN stays,
           \A u : (<<i, u>> \in DOMAIN activities <=> <<i, u>> \in DOMAIN activities')
                  /\ (<<i, u>> \in DOMAIN activities => activities'[<<i, u>>] = activities[<<i, u>>])
    PROVE  Work!WorkDone(i)' = Work!WorkDone(i)
<1>1. {u \in Type : <<i, u>> \in DOMAIN activities} = {u \in Type : <<i, u>> \in DOMAIN activities'}
  OBVIOUS
<1> DEFINE S == {u \in Type : <<i, u>> \in DOMAIN activities}
<1>2. [t \in S |-> activities[<<i, t>>]] = [t \in S |-> activities'[<<i, t>>]]
  OBVIOUS
<1> QED
  BY <1>1, <1>2, Zenon DEF Work!WorkDone

ClosedKept == \A i \in DOMAIN stays : ~stays[i].open => stays'[i] = stays[i] /\ Work!WorkDone(i)' = Work!WorkDone(i)

\* Only of a visit that is open are the activities changed.
LEMMA OthersKept ==
    ASSUME NEW at, stays[at[1]].open, stays' = stays,
           \A k : k # at => (k \in DOMAIN activities <=> k \in DOMAIN activities')
                            /\ (k \in DOMAIN activities => activities'[k] = activities[k])
    PROVE  ClosedKept
<1> SUFFICES ASSUME NEW i \in DOMAIN stays, ~stays[i].open
             PROVE  stays'[i] = stays[i] /\ Work!WorkDone(i)' = Work!WorkDone(i)
  BY Zenon DEF ClosedKept
<1>1. \A u : <<i, u>> # at
  <2> SUFFICES ASSUME NEW u, <<i, u>> = at PROVE FALSE
    OBVIOUS
  <2>1. at[1] = i
    OBVIOUS
  <2> QED
    BY <2>1
<1>2. Work!WorkDone(i)' = Work!WorkDone(i)
  BY <1>1, DoneIs
<1> QED
  BY <1>2

LEMMA AllKept ==
    ASSUME activities' = activities, \A i \in DOMAIN stays : ~stays[i].open => stays'[i] = stays[i]
    PROVE  ClosedKept
<1> SUFFICES ASSUME NEW i \in DOMAIN stays, ~stays[i].open PROVE Work!WorkDone(i)' = Work!WorkDone(i)
  BY Zenon DEF ClosedKept
<1> QED
  BY DoneIs

LEMMA IdleStill == ASSUME FieldSetup, NEW ss PROVE StillSo(ss, Work!Idle)
<1>1. Work!Idle.op = None
  BY DEF Work!Idle
<1>2. None \notin Work!Op
  BY DEF FieldSetup
<1> QED
  BY <1>1, <1>2 DEF StillSo, Work!Op

\* A request that begins or goes on, with what it reads.
LEMMA TurnBegins ==
    ASSUME FieldSetup, NEW w, Worker = {w}, TurnInv(w), FieldInv', stays' = stays, activities' = activities,
           NEW r, request' = [request EXCEPT ![w] = r], StillSo(stays, r)
    PROVE  TurnInv(w)' /\ ClosedKept
<1>1. request'[w] = r
  BY DEF TurnInv, FieldInv
<1>2. ClosedKept
  BY AllKept
<1>3. StillSo(stays', request'[w]) /\ OneOpen(stays')
  BY <1>1 DEF TurnInv
<1> QED
  BY <1>2, <1>3 DEF TurnInv

LEMMA TurnEnds ==
    ASSUME FieldSetup, NEW w, Worker = {w}, TurnInv(w), FieldInv', Work!Finish(w), OneOpen(stays')
    PROVE  TurnInv(w)'
<1>1. request' = [request EXCEPT ![w] = Work!Idle]
  BY Zenon DEF Work!Finish
<1>2. request'[w] = Work!Idle
  BY <1>1 DEF TurnInv, FieldInv
<1>3. StillSo(stays', request'[w])
  BY <1>2, IdleStill
<1> QED
  BY <1>3 DEF TurnInv

LEMMA TurnRequests ==
    ASSUME FieldSetup, NEW w, Worker = {w}, TurnInv(w), FieldInv', Work!Request(w)
    PROVE  TurnInv(w)' /\ ClosedKept
<1>1. PICK actor \in Work!Person :
        \/ \E b \in Site, ids \in SUBSET FieldExecutive, solo \in BOOLEAN : Work!BeginCheckIn(w, actor, b, ids, solo)
        \/ \E i \in DOMAIN stays :
            \/ Work!BeginCheckOut(w, actor, i)
            \/ \E type \in Type :
                \/ \E op \in {"addActivity", "removeActivity"} : Work!BeginActivity(w, actor, i, type, op)
                \/ \E photo \in Photo, op \in {"addPhoto", "removePhoto"} : Work!BeginPhoto(w, actor, i, type, photo, op)
        \/ \E b \in Site, i \in DOMAIN stays \cup {None}, status \in Status, time \in Time :
               Work!BeginInquiry(w, actor, b, i, status, time)
        \/ actor \in FieldLeader /\ Work!BeginMeeting(w, actor)
  BY Zenon DEF Work!Request
<1>2. ASSUME NEW r, Work!Begin(w, r), StillSo(stays, r) PROVE TurnInv(w)' /\ ClosedKept
  <2>1. request' = [request EXCEPT ![w] = r] /\ stays' = stays /\ activities' = activities
    BY <1>2, Zenon DEF Work!Begin, Work!rows
  <2> QED
    BY <1>2, <2>1, TurnBegins
<1>3. ASSUME NEW b, NEW ids, NEW solo, Work!BeginCheckIn(w, actor, b, ids, solo) PROVE TurnInv(w)' /\ ClosedKept
  <2>1. PICK party : Work!Begin(w, [op |-> "checkIn", who |-> actor, b |-> b, party |-> party])
    BY <1>3, Zenon DEF Work!BeginCheckIn
  <2>2. \A i \in DOMAIN stays : ~(stays[i].who = actor /\ stays[i].open)
    BY <1>3 DEF Work!BeginCheckIn, Work!OpenVisitOf
  <2>3. StillSo(stays, [op |-> "checkIn", who |-> actor, b |-> b, party |-> party])
    BY <2>2 DEF StillSo
  <2> QED
    BY <1>2, <2>1, <2>3
<1>4. ASSUME NEW i, Work!BeginCheckOut(w, actor, i) PROVE TurnInv(w)' /\ ClosedKept
  <2>1. Work!Begin(w, [op |-> "checkOut", visit |-> i]) /\ stays[i].open
    BY <1>4, OpenIs, Zenon DEF Work!BeginCheckOut
  <2>2. StillSo(stays, [op |-> "checkOut", visit |-> i])
    BY <2>1 DEF StillSo
  <2> QED
    BY <1>2, <2>1, <2>2
<1>5. ASSUME NEW i, NEW type, NEW op \in {"addActivity", "removeActivity"}, Work!BeginActivity(w, actor, i, type, op)
      PROVE  TurnInv(w)' /\ ClosedKept
  <2>1. Work!Begin(w, [op |-> op, at |-> <<i, type>>]) /\ stays[i].open
    BY <1>5, OpenIs, Zenon DEF Work!BeginActivity
  <2>2. StillSo(stays, [op |-> op, at |-> <<i, type>>])
    BY <2>1 DEF StillSo
  <2> QED
    BY <1>2, <2>1, <2>2
<1>6. ASSUME NEW i, NEW type, NEW photo, NEW op \in {"addPhoto", "removePhoto"}, Work!BeginPhoto(w, actor, i, type, photo, op)
      PROVE  TurnInv(w)' /\ ClosedKept
  <2>1. Work!Begin(w, [op |-> op, at |-> <<i, type>>, photo |-> photo]) /\ stays[i].open
    BY <1>6, OpenIs, Zenon DEF Work!BeginPhoto
  <2>2. StillSo(stays, [op |-> op, at |-> <<i, type>>, photo |-> photo])
    BY <2>1 DEF StillSo
  <2> QED
    BY <1>2, <2>1, <2>2
<1>7. ASSUME NEW b, NEW i, NEW status, NEW time, Work!BeginInquiry(w, actor, b, i, status, time)
      PROVE  TurnInv(w)' /\ ClosedKept
  <2>1. PICK q : Work!Begin(w, [op |-> "inquiry", row |-> q])
    BY <1>7, Zenon DEF Work!BeginInquiry
  <2>2. StillSo(stays, [op |-> "inquiry", row |-> q])
    BY DEF StillSo
  <2> QED
    BY <1>2, <2>1, <2>2
<1>8. ASSUME Work!BeginMeeting(w, actor) PROVE TurnInv(w)' /\ ClosedKept
  <2>1. Work!Begin(w, [op |-> "meeting", key |-> <<actor, shift>>])
    BY <1>8, Zenon DEF Work!BeginMeeting
  <2>2. StillSo(stays, [op |-> "meeting", key |-> <<actor, shift>>])
    BY DEF StillSo
  <2> QED
    BY <1>2, <2>1, <2>2
<1> QED
  BY <1>1, <1>3, <1>4, <1>5, <1>6, <1>7, <1>8, Zenon

LEMMA TurnCheckIn ==
    ASSUME FieldSetup, NEW w, Worker = {w}, TurnInv(w), FieldInv', Work!CheckIn(w)
    PROVE  TurnInv(w)' /\ ClosedKept
<1> DEFINE r == request[w]
           row == [who |-> r.who, b |-> r.b, party |-> r.party, open |-> TRUE]
<1>1. /\ r.op = "checkIn" /\ stays' = Work!With(stays, Work!Next1(DOMAIN stays), row)
      /\ Work!Finish(w) /\ activities' = activities
  BY Zenon DEF Work!CheckIn
<1>2. \A i \in DOMAIN stays : ~(stays[i].who = r.who /\ stays[i].open)
  BY <1>1, Zenon DEF TurnInv, StillSo
<1>3. row.who = r.who
  OBVIOUS
<1> HIDE DEF row, r
<1>4. /\ DOMAIN stays' = DOMAIN stays \cup {Work!Next1(DOMAIN stays)}
      /\ \A i \in DOMAIN stays' : stays'[i] = IF i \in DOMAIN stays THEN stays[i] ELSE row
  BY <1>1 DEF Work!With
<1>5. OneOpen(stays')
  BY <1>2, <1>3, <1>4 DEF OneOpen, TurnInv
<1>6. ClosedKept
  <2>1. \A i \in DOMAIN stays : stays'[i] = stays[i]
    BY <1>4
  <2> QED
    BY <1>1, <2>1, AllKept
<1> QED
  BY <1>1, <1>5, <1>6, TurnEnds

LEMMA TurnCheckOut ==
    ASSUME FieldSetup, NEW w, Worker = {w}, TurnInv(w), FieldInv', Work!CheckOut(w)
    PROVE  TurnInv(w)' /\ ClosedKept
<1> DEFINE at == request[w].visit
<1>1. /\ request[w].op = "checkOut" /\ stays' = [stays EXCEPT ![at].open = FALSE]
      /\ Work!Finish(w) /\ activities' = activities
  BY Zenon DEF Work!CheckOut
<1>2. at \in DOMAIN stays /\ stays[at].open
  <2>1. FieldInv /\ w \in Worker /\ StillSo(stays, request[w])
    BY DEF TurnInv
  <2> QED
    BY <1>1, <2>1, StepPending, PendingIs, Zenon DEF StillSo
<1> HIDE DEF at
<1>3. PICK n \in Nat : stays \in [1 .. n -> Stay]
  BY Zenon DEF TurnInv, FieldInv, StaysFit
<1>4. /\ DOMAIN stays' = DOMAIN stays
      /\ \A i \in DOMAIN stays : i # at => stays'[i] = stays[i]
      /\ ~stays'[at].open
  BY <1>1, <1>2, <1>3 DEF Stay
<1>5. OneOpen(stays')
  BY <1>4 DEF OneOpen, TurnInv
<1>6. ClosedKept
  BY <1>1, <1>2, <1>4, AllKept
<1> QED
  BY <1>1, <1>5, <1>6, TurnEnds

LEMMA TurnActivity ==
    ASSUME FieldSetup, NEW w, Worker = {w}, TurnInv(w), FieldInv',
           Work!AddActivity(w) \/ Work!RemoveActivity(w) \/ Work!SetActivityImages(w)
    PROVE  TurnInv(w)' /\ ClosedKept
<1> DEFINE at == request[w].at
<1>1. /\ request[w].op \in {"addActivity", "removeActivity", "setImages"} /\ Work!Finish(w) /\ stays' = stays
      /\ \/ activities' = Work!With(activities, at, {})
         \/ activities' = Work!Restrict(activities, DOMAIN activities \ {at})
         \/ \E images : activities' = [activities EXCEPT ![at] = images]
         \/ activities' = activities
  BY Zenon DEF Work!AddActivity, Work!RemoveActivity, Work!SetActivityImages
<1>2. stays[at[1]].open
  BY <1>1 DEF TurnInv, StillSo
<1> HIDE DEF at
<1>3. \A k : k # at => (k \in DOMAIN activities <=> k \in DOMAIN activities')
                       /\ (k \in DOMAIN activities => activities'[k] = activities[k])
  BY <1>1 DEF Work!With, Work!Restrict
<1>4. ClosedKept
  BY <1>1, <1>2, <1>3, OthersKept
<1>5. OneOpen(stays')
  BY <1>1 DEF TurnInv
<1> QED
  BY <1>1, <1>4, <1>5, TurnEnds

LEMMA TurnStep ==
    ASSUME FieldSetup, NEW w, Worker = {w}, TurnInv(w), [Work!Next]_(Work!vars)
    PROVE  TurnInv(w)' /\ ClosedKept
<1>1. FieldInv'
  BY FieldStep DEF TurnInv
<1>2. ASSUME stays' = stays, activities' = activities, request' = request PROVE TurnInv(w)' /\ ClosedKept
  <2>1. ClosedKept
    BY <1>2, AllKept
  <2> QED
    BY <1>1, <1>2, <2>1 DEF TurnInv
<1>3. ASSUME NEW v \in Worker,
             \/ Work!Request(v)
             \/ Work!CheckIn(v) \/ Work!CheckOut(v) \/ Work!AddActivity(v) \/ Work!RemoveActivity(v)
             \/ Work!ReadActivity(v) \/ Work!SetActivityImages(v) \/ Work!CreateInquiry(v) \/ Work!CreateMeeting(v)
      PROVE  TurnInv(w)' /\ ClosedKept
  <2>1. v = w
    OBVIOUS
  <2>2. CASE Work!ReadActivity(w)
    <3> DEFINE r == request[w]
               refused == r.at \notin DOMAIN activities
                            \/ (r.op = "addPhoto" /\ (r.photo \in activities[r.at] \/ ~Work!Room(activities[r.at])))
               images == IF r.op = "addPhoto" THEN activities[r.at] \cup {r.photo} ELSE activities[r.at] \ {r.photo}
               then == IF refused THEN Work!Idle ELSE [op |-> "setImages", at |-> r.at, images |-> images]
    <3>1. /\ r.op \in {"addPhoto", "removePhoto"} /\ request' = [request EXCEPT ![w] = then]
          /\ stays' = stays /\ activities' = activities
      BY <2>2, Zenon DEF Work!ReadActivity, Work!rows
    <3>2. stays[r.at[1]].open
      BY <3>1 DEF TurnInv, StillSo
    <3>3. then = Work!Idle \/ then = [op |-> "setImages", at |-> r.at, images |-> images]
      BY Zenon
    <3> HIDE DEF then, images, refused, r
    <3>4. StillSo(stays, then)
      BY <3>2, <3>3, IdleStill DEF StillSo
    <3> QED
      BY <1>1, <3>1, <3>4, TurnBegins
  <2>3. CASE Work!CreateInquiry(w) \/ Work!CreateMeeting(w)
    <3>1. Work!Finish(w) /\ stays' = stays /\ activities' = activities
      BY <2>3, Zenon DEF Work!CreateInquiry, Work!CreateMeeting
    <3>2. OneOpen(stays')
      BY <3>1 DEF TurnInv
    <3> QED
      BY <1>1, <3>1, <3>2, TurnEnds, AllKept
  <2> QED
    BY <1>1, <1>3, <2>1, <2>2, <2>3, TurnRequests, TurnCheckIn, TurnCheckOut, TurnActivity
<1>4. ASSUME NEW actor, NEW i, NEW status, NEW time, Work!UpdateInquiry(actor, i, status, time) PROVE TurnInv(w)' /\ ClosedKept
  BY <1>2, <1>4, Zenon DEF Work!UpdateInquiry
<1>5. ASSUME NEW leader, NEW ids, Work!SetTeamLeaderZones(leader, ids) PROVE TurnInv(w)' /\ ClosedKept
  BY <1>2, <1>5, Zenon DEF Work!SetTeamLeaderZones
<1>6. CASE Work!NextDay \/ UNCHANGED Work!vars
  BY <1>2, <1>6, Zenon DEF Work!NextDay, Work!rows, Work!vars
<1> QED
  BY <1>3, <1>4, <1>5, <1>6, Zenon DEF Work!Next

LEMMA TurnFirst == ASSUME FieldSetup, NEW w, Worker = {w}, Work!Init PROVE TurnInv(w)
<1>1. stays = << >> /\ request = [v \in Worker |-> Work!Idle]
  BY Zenon DEF Work!Init
<1>2. DOMAIN stays = {} /\ request[w] = Work!Idle
  BY <1>1
<1>3. OneOpen(stays)
  BY <1>2 DEF OneOpen
<1> QED
  BY <1>2, <1>3, IdleStill, FieldFirst DEF TurnInv

\* Whatever requests overlap: an inquiry is of a visit of its maker at its building,
\* a lead to follow up, and no other, has a time, a leader's visit names executives
\* of the team or says solo, and no activity has too many photos.
THEOREM FieldStaysFit == FieldSetup => (Work!Spec => [](Work!TypeOK /\ Work!FieldRecordsFit))
<1> SUFFICES ASSUME FieldSetup PROVE Work!Spec => [](Work!TypeOK /\ Work!FieldRecordsFit)
  OBVIOUS
<1> QED
  BY FieldFirst, FieldStep, FieldIsFit, PTL DEF Work!Spec

\* Requests in turn: nobody has two open visits, and what was done on a visit is fixed
\* once it is checked out.
THEOREM ClosedVisitsStay ==
    ASSUME FieldSetup, NEW CONSTANT w, Worker = {w}
    PROVE  Work!Spec => []Work!OneOpenVisit /\ [][Work!KeptWhenClosed]_(Work!vars)
<1>1. Work!Init => TurnInv(w)
  BY TurnFirst
<1>2. TurnInv(w) /\ [Work!Next]_(Work!vars) => TurnInv(w)' /\ ClosedKept
  BY TurnStep
<1>3. TurnInv(w) => Work!OneOpenVisit
  BY DEF TurnInv, OneOpen, Work!OneOpenVisit
<1>4. ClosedKept => Work!KeptWhenClosed
  BY Zenon DEF ClosedKept, Work!KeptWhenClosed
<1> QED
  BY <1>1, <1>2, <1>3, <1>4, PTL DEF Work!Spec

-----------------------------------------------------------------------------
(* What sales is shown.                                                    *)

\* People are finitely many and none is null; who is reported to is a manager.
DeskSetup ==
    /\ IsFiniteSet(Colleague) /\ None \notin Colleague
    /\ ManagerOf \in [Colleague -> Desk!OfRole("SALES_MANAGER") \cup {None}]

\* Leaders lead, and what somebody holds can be seen and is held by a manager or an executive.
DeskInv ==
    /\ Desk!TypeOK
    /\ \A p \in Colleague : leaderOf[p] \in Desk!OfRole("TEAM_LEADER") \cup {None}
    /\ \A b \in Site : heldBy[b] # None => b \in visible /\ RoleOf[heldBy[b]] \in {"SALES_MANAGER", "SALES_EXECUTIVE"}

LEMMA DeskFirst == DeskSetup /\ Desk!Init => DeskInv
<1> SUFFICES ASSUME DeskSetup, Desk!Init PROVE DeskInv
  OBVIOUS
<1>1. /\ leaderOf = [p \in Colleague |-> None] /\ active = Colleague /\ zonesOf = [p \in Colleague |-> {}]
      /\ visible = Site \ Awaiting /\ heldBy = [b \in Site |-> None] /\ log = << >>
  BY Zenon DEF Desk!Init
<1> QED
  BY <1>1 DEF DeskInv, Desk!TypeOK

LEMMA DeskStep == DeskSetup /\ DeskInv /\ [Desk!Next]_(Desk!vars) => DeskInv'
<1> SUFFICES ASSUME DeskSetup, DeskInv, [Desk!Next]_(Desk!vars) PROVE DeskInv'
  OBVIOUS
<1>1. /\ leaderOf \in [Colleague -> Colleague \cup {None}] /\ active \subseteq Colleague
      /\ zonesOf \in [Colleague -> SUBSET Zone] /\ visible \subseteq Site /\ heldBy \in [Site -> Colleague \cup {None}]
      /\ log \in Seq([kind : Desk!Kind, by : Colleague, building : Site \cup {None}])
      /\ \A p \in Colleague : leaderOf[p] \in Desk!OfRole("TEAM_LEADER") \cup {None}
      /\ \A b \in Site : heldBy[b] # None => b \in visible /\ RoleOf[heldBy[b]] \in {"SALES_MANAGER", "SALES_EXECUTIVE"}
  BY Zenon DEF DeskInv, Desk!TypeOK
<1>2. ASSUME NEW a \in active, NEW bs \in SUBSET Site, NEW t \in Colleague, Desk!AssignBuildings(a, bs, t)
      PROVE  DeskInv'
  <2>1. /\ heldBy' = [b \in Site |-> IF b \in bs THEN t ELSE heldBy[b]]
        /\ UNCHANGED <<leaderOf, active, zonesOf, visible, log>>
        /\ Desk!MayAssignTo(a, t) /\ \A b \in bs : Desk!MayAssign(a, b)
    BY <1>2, Zenon DEF Desk!AssignBuildings
  <2>2. RoleOf[t] \in {"SALES_MANAGER", "SALES_EXECUTIVE"} /\ \A b \in bs : b \in visible
    BY <2>1 DEF Desk!MayAssignTo, Desk!MayAssign, Desk!SALES_ROLES
  <2>3. heldBy' \in [Site -> Colleague \cup {None}]
    BY <1>1, <2>1
  <2>4. \A b \in Site : heldBy'[b] = IF b \in bs THEN t ELSE heldBy[b]
    BY <2>1
  <2>5. \A b \in Site : heldBy'[b] # None => b \in visible /\ RoleOf[heldBy'[b]] \in {"SALES_MANAGER", "SALES_EXECUTIVE"}
    BY <1>1, <2>2, <2>4
  <2> QED
    BY <1>1, <2>1, <2>3, <2>5 DEF DeskInv, Desk!TypeOK
<1>3. ASSUME NEW a \in active, NEW kind \in Desk!Kind, NEW b \in Site \cup {None}, Desk!Log(a, kind, b) PROVE DeskInv'
  <2>1. /\ log' = Append(log, [kind |-> kind, by |-> a, building |-> b])
        /\ UNCHANGED <<leaderOf, active, zonesOf, visible, heldBy>>
    BY <1>3, Zenon DEF Desk!Log
  <2>2. [kind |-> kind, by |-> a, building |-> b] \in [kind : Desk!Kind, by : Colleague, building : Site \cup {None}]
    BY <1>1
  <2>3. log' \in Seq([kind : Desk!Kind, by : Colleague, building : Site \cup {None}])
    BY <1>1, <2>1, <2>2
  <2> QED
    BY <1>1, <2>1, <2>3, Zenon DEF DeskInv, Desk!TypeOK
<1>4. ASSUME NEW a \in active, NEW l \in Colleague, NEW ids \in SUBSET Zone, Desk!SetTeamLeaderZones(a, l, ids)
      PROVE  DeskInv'
  <2>1. zonesOf' = [zonesOf EXCEPT ![l] = ids] /\ UNCHANGED <<leaderOf, active, visible, heldBy, log>>
    BY <1>4, Zenon DEF Desk!SetTeamLeaderZones
  <2>2. zonesOf' \in [Colleague -> SUBSET Zone]
    BY <1>1, <2>1
  <2> QED
    BY <1>1, <2>1, <2>2, Zenon DEF DeskInv, Desk!TypeOK
<1>5. ASSUME NEW e \in Desk!OfRole("SALES_EXECUTIVE"), NEW l \in Desk!OfRole("TEAM_LEADER") \cup {None}, Desk!MoveToTeam(e, l)
      PROVE  DeskInv'
  <2>1. leaderOf' = [leaderOf EXCEPT ![e] = l] /\ UNCHANGED <<active, zonesOf, visible, heldBy, log>>
    BY <1>5, Zenon DEF Desk!MoveToTeam
  <2>2. e \in Colleague /\ l \in Colleague \cup {None}
    BY DEF Desk!OfRole
  <2>3. leaderOf' \in [Colleague -> Colleague \cup {None}]
    BY <1>1, <2>1, <2>2
  <2>4. \A p \in Colleague : leaderOf'[p] \in Desk!OfRole("TEAM_LEADER") \cup {None}
    BY <1>1, <2>1, <2>2
  <2> QED
    BY <1>1, <2>1, <2>3, <2>4, Zenon DEF DeskInv, Desk!TypeOK
<1>6. ASSUME NEW e \in Desk!OfRole("SALES_EXECUTIVE"), NEW on \in BOOLEAN, Desk!SetActive(e, on) PROVE DeskInv'
  <2>1. /\ active' = IF on THEN active \cup {e} ELSE active \ {e}
        /\ UNCHANGED <<leaderOf, zonesOf, visible, heldBy, log>>
    BY <1>6, Zenon DEF Desk!SetActive
  <2>2. active' \subseteq Colleague
    BY <1>1, <2>1 DEF Desk!OfRole
  <2> QED
    BY <1>1, <2>1, <2>2, Zenon DEF DeskInv, Desk!TypeOK
<1>7. ASSUME NEW b \in Site, Desk!ApproveSociety(b) PROVE DeskInv'
  <2>1. visible' = visible \cup {b} /\ UNCHANGED <<leaderOf, active, zonesOf, heldBy, log>>
    BY <1>7, Zenon DEF Desk!ApproveSociety
  <2>2. visible' \subseteq Site /\ \A c \in visible : c \in visible'
    BY <1>1, <2>1
  <2> QED
    BY <1>1, <2>1, <2>2, Zenon DEF DeskInv, Desk!TypeOK
<1>8. CASE UNCHANGED Desk!vars
  BY <1>1, <1>8, Zenon DEF Desk!vars, DeskInv, Desk!TypeOK
<1> QED
  BY <1>2, <1>3, <1>4, <1>5, <1>6, <1>7, <1>8, Zenon DEF Desk!Next

LEMMA MapTells == DeskInv => Desk!MapTellsCheckIn
<1> SUFFICES ASSUME NEW a \in Colleague
             PROVE  {c.building : c \in {d \in Desk!MapBuildings(a) : d.assigned}} = Desk!ListMyBuildings(a)
  BY Zenon DEF Desk!MapTellsCheckIn
<1> DEFINE marks(b) == [building |-> b, assigned |-> b \in Desk!AssignedInScope(a)]
           shown(b) == [building |-> b, assigned |-> TRUE]
<1>1. CASE RoleOf[a] \in Desk!REGISTRY_ASSIGNERS
  <2>1. Desk!MapBuildings(a) = {marks(b) : b \in visible}
    BY <1>1, Zenon DEF Desk!MapBuildings
  <2>2. Desk!ListMyBuildings(a) = {b \in visible : b \in Desk!AssignedInScope(a)}
    <3>1. Desk!InZones(a) = {}
      BY <1>1 DEF Desk!InZones, Desk!REGISTRY_ASSIGNERS
    <3> QED
      BY <3>1 DEF Desk!ListMyBuildings, Desk!Pool
  <2>3. {c.building : c \in {d \in Desk!MapBuildings(a) : d.assigned}} = {b \in visible : b \in Desk!AssignedInScope(a)}
    <3>1. ASSUME NEW b \in visible, b \in Desk!AssignedInScope(a)
          PROVE  b \in {c.building : c \in {d \in Desk!MapBuildings(a) : d.assigned}}
      <4>1. marks(b) \in Desk!MapBuildings(a) /\ marks(b).assigned /\ marks(b).building = b
        BY <2>1, <3>1
      <4> QED
        BY <4>1, Zenon
    <3>2. ASSUME NEW c \in Desk!MapBuildings(a), c.assigned
          PROVE  c.building \in {b \in visible : b \in Desk!AssignedInScope(a)}
      <4>1. PICK b \in visible : c = marks(b)
        BY <2>1
      <4>2. c.building = b /\ b \in Desk!AssignedInScope(a)
        BY <3>2, <4>1
      <4> QED
        BY <4>2
    <3> QED
      BY <3>1, <3>2
  <2> QED
    BY <2>2, <2>3
<1>2. CASE RoleOf[a] \notin Desk!REGISTRY_ASSIGNERS
  <2>1. Desk!MapBuildings(a) = {shown(b) : b \in Desk!ListMyBuildings(a)}
    BY <1>2, Zenon DEF Desk!MapBuildings
  <2>2. \A b \in Desk!ListMyBuildings(a) : shown(b) \in Desk!MapBuildings(a) /\ shown(b).assigned /\ shown(b).building = b
    BY <2>1
  <2>3. \A c \in Desk!MapBuildings(a) : \E b \in Desk!ListMyBuildings(a) : c.building = b
    BY <2>1
  <2> HIDE DEF shown
  <2>4. \A b \in Desk!ListMyBuildings(a) : b \in {c.building : c \in {d \in Desk!MapBuildings(a) : d.assigned}}
    BY <2>2, Zenon
  <2> QED
    BY <2>3, <2>4
<1> QED
  BY <1>1, <1>2

\* Who is above somebody has them in scope.
LEMMA ChainSees ==
    ASSUME DeskSetup, DeskInv, NEW h \in Colleague, RoleOf[h] \in {"SALES_MANAGER", "SALES_EXECUTIVE"},
           NEW a \in {h, leaderOf[h], ManagerOf[h]} \ {None}
    PROVE  h \in Desk!Scope(a)
<1>1. CASE a = h
  BY <1>1 DEF Desk!Scope, Desk!SALES_ROLES
<1>2. CASE a = leaderOf[h] /\ a # h
  <2>1. a \in Colleague /\ RoleOf[a] = "TEAM_LEADER"
    BY <1>2 DEF DeskInv, Desk!OfRole
  <2>2. Desk!TeamUnder(a) = {p \in Colleague : leaderOf[p] = a}
    BY <2>1 DEF Desk!TeamUnder
  <2> QED
    BY <1>2, <2>1, <2>2 DEF Desk!Scope, Desk!SALES_ROLES
<1>3. CASE a = ManagerOf[h] /\ a # h
  <2>1. a \in Colleague /\ RoleOf[a] = "SALES_MANAGER"
    BY <1>3 DEF DeskSetup, Desk!OfRole
  <2>2. Desk!TeamUnder(a) = {p \in Colleague : ManagerOf[p] = a}
    BY <2>1 DEF Desk!TeamUnder
  <2> QED
    BY <1>3, <2>1, <2>2 DEF Desk!Scope, Desk!SALES_ROLES
<1> QED
  BY <1>1, <1>2, <1>3

LEMMA HeldSeen == DeskSetup /\ DeskInv => Desk!HeldIsSeenUpTheChain
<1> SUFFICES ASSUME DeskSetup, DeskInv, NEW b \in Site, heldBy[b] # None,
                    NEW a \in {heldBy[b], leaderOf[heldBy[b]], ManagerOf[heldBy[b]]} \ {None}
             PROVE  b \in Desk!ListMyBuildings(a) /\ Desk!ReadsHistory(a, b)
  BY Zenon DEF Desk!HeldIsSeenUpTheChain
<1>1. heldBy[b] \in Colleague /\ b \in visible /\ RoleOf[heldBy[b]] \in {"SALES_MANAGER", "SALES_EXECUTIVE"}
  BY DEF DeskInv, Desk!TypeOK
<1>2. b \in Desk!AssignedInScope(a)
  <2>1. heldBy[b] \in Desk!Scope(a)
    BY <1>1, ChainSees
  <2> QED
    BY <2>1, Zenon DEF Desk!AssignedInScope
<1> QED
  BY <1>1, <1>2 DEF Desk!ListMyBuildings, Desk!Pool, Desk!ReadsHistory

LEMMA PickerHasAll == DeskSetup /\ DeskInv => Desk!PickerIsComplete
<1> SUFFICES ASSUME DeskSetup, DeskInv, NEW a \in active, NEW t \in Colleague, NEW b \in Site,
                    Desk!MayAssignTo(a, t), Desk!MayAssign(a, b)
             PROVE  t \in Desk!TeamMembers(a) /\ b \in Desk!SearchBuildings(a) \cup Desk!ListMyBuildings(a)
  BY Zenon DEF Desk!PickerIsComplete
<1>1. /\ RoleOf[a] \in {"ADMIN", "SALES_MANAGER", "TEAM_LEADER"} /\ t \in active /\ RoleOf[t] \in Desk!SALES_ROLES
      /\ \/ RoleOf[a] = "ADMIN"
         \/ RoleOf[a] = "SALES_MANAGER" /\ ManagerOf[t] = a
         \/ RoleOf[a] = "TEAM_LEADER" /\ RoleOf[t] = "SALES_EXECUTIVE" /\ leaderOf[t] = a
  BY DEF Desk!MayAssignTo, Desk!CanAssign, Desk!REGISTRY_ASSIGNERS, Desk!AssertTargetInTeam
<1>2. t \in Desk!TeamMembers(a)
  BY <1>1 DEF Desk!TeamMembers, Desk!TeamUnder
<1>3. b \in visible /\ (RoleOf[a] = "TEAM_LEADER" => b \in Desk!Pool(a))
  BY Zenon DEF Desk!MayAssign
<1>4. b \in Desk!SearchBuildings(a) \cup Desk!ListMyBuildings(a)
  BY <1>1, <1>3 DEF Desk!SearchBuildings, Desk!ListMyBuildings, Desk!REGISTRY_ASSIGNERS
<1> QED
  BY <1>2, <1>4

\* The numbers of the dashboard.
LEMMA RowsFinite ==
    ASSUME DeskInv, NEW a, NEW kind, NEW person
    PROVE  IsFiniteSet(Desk!Rows(a, kind, person)) /\ Desk!Rows(a, kind, person) \subseteq DOMAIN log
<1>1. IsFiniteSet(DOMAIN log)
  <2>1. log \in Seq([kind : Desk!Kind, by : Colleague, building : Site \cup {None}])
    BY Zenon DEF DeskInv, Desk!TypeOK
  <2>2. DOMAIN log = 1 .. Len(log) /\ Len(log) \in Nat
    BY <2>1
  <2> QED
    BY <2>2, FS_Interval
<1>2. Desk!Rows(a, kind, person) \subseteq DOMAIN log
  BY Zenon DEF Desk!Rows
<1> QED
  BY <1>1, <1>2, FS_Subset

LEMMA DeskCounts == ASSUME NEW S PROVE Desk!Cardinality(S) = Cardinality(S)
BY Zenon DEF Desk!Cardinality, Cardinality

LEMMA DeskSums == ASSUME NEW f PROVE Desk!SumFunction(f) = SumFunction(f)
BY Zenon DEF Desk!SumFunction, SumFunction, Desk!SumFunctionOnSet, SumFunctionOnSet, Desk!FoldFunctionOnSet,
    FoldFunctionOnSet, Desk!MapThenFoldSet, MapThenFoldSet

LEMMA DashboardAdds == DeskSetup /\ DeskInv => Desk!DashboardAddsUp
<1> SUFFICES ASSUME DeskSetup, DeskInv, NEW a \in Colleague, NEW kind \in Desk!Kind
             PROVE  LET all == Desk!Dashboard(a, kind, None)
                    IN  /\ \A u \in Desk!TeamMembers(a) : all.team[u] = Desk!Dashboard(a, kind, u).total
                        /\ Desk!SumFunction(all.team) <= all.total
                        /\ \A u \in Colleague \cup {None} : \A i \in Desk!Rows(a, kind, u) : Desk!MayOpen(a, i)
  BY Zenon DEF Desk!DashboardAddsUp
<1> DEFINE rows == Desk!Rows(a, kind, None)
           members == Desk!TeamMembers(a)
           of(u) == {i \in rows : log[i].by = u}
           F == [u \in members |-> of(u)]
           f == [u \in members |-> Desk!Cardinality(of(u))]
<1>1. Desk!Dashboard(a, kind, None) = [total |-> Desk!Cardinality(rows), team |-> f]
  BY Zenon DEF Desk!Dashboard
<1>2. members \subseteq Colleague
  BY DEF Desk!TeamMembers, DeskInv, Desk!TypeOK
<1>3. \A u \in members : f[u] = Cardinality(F[u]) /\ F[u] = of(u) /\ f[u] = Desk!Cardinality(of(u))
  BY DeskCounts
<1>4. DOMAIN f = members
  OBVIOUS
<1>5. \A i : i \in rows <=> i \in DOMAIN log /\ log[i].kind = kind /\ log[i].by \in Desk!Scope(a)
  BY Zenon DEF Desk!Rows
<1>6. ASSUME NEW u \in Colleague
      PROVE  \A i : i \in Desk!Rows(a, kind, u) <=> i \in DOMAIN log /\ log[i].kind = kind /\ log[i].by \in Desk!Scope(a) \cap {u}
  <2>1. u # None
    BY DEF DeskSetup
  <2> QED
    BY <2>1, Zenon DEF Desk!Rows
<1>7. ASSUME NEW u \in members PROVE f[u] = Desk!Dashboard(a, kind, u).total
  <2>1. of(u) = Desk!Rows(a, kind, u)
    <3>1. u \in Colleague
      BY <1>2
    <3> HIDE DEF rows, members
    <3> QED
      BY <1>5, <1>6, <3>1
  <2>2. Desk!Dashboard(a, kind, u).total = Desk!Cardinality(Desk!Rows(a, kind, u))
    BY DEF Desk!Dashboard
  <2> QED
    BY <1>3, <2>1, <2>2, Zenon
<1>8. Desk!SumFunction(f) <= Desk!Cardinality(rows)
  <2>1. IsFiniteSet(rows)
    BY RowsFinite
  <2>2. IsFiniteSet(members)
    BY <1>2, FS_Subset DEF DeskSetup
  <2>3. \A u \in members : IsFiniteSet(F[u]) /\ F[u] \subseteq rows
    <3> SUFFICES ASSUME NEW u \in members PROVE IsFiniteSet(F[u]) /\ F[u] \subseteq rows
      OBVIOUS
    <3>1. F[u] \subseteq rows
      BY <1>3
    <3> HIDE DEF F, rows
    <3> QED
      BY <2>1, <3>1, FS_Subset
  <2>4. \A u, v \in members : u # v => F[u] \cap F[v] = {}
    BY <1>3
  <2> HIDE DEF F, f, members, rows, of
  <2>5. SumFunctionOnSet(f, members) = Cardinality(AllOf(F, members))
    BY <1>3, <2>2, <2>3, <2>4, SumOfSizes, Zenon
  <2>6. AllOf(F, members) \subseteq rows
    BY <2>3 DEF AllOf
  <2>7. Cardinality(AllOf(F, members)) <= Cardinality(rows)
    BY <2>1, <2>6, FS_Subset
  <2>8. Desk!SumFunction(f) = Cardinality(AllOf(F, members))
    BY <1>4, <2>5, DeskSums, Zenon DEF SumFunction
  <2> QED
    BY <2>7, <2>8, DeskCounts
<1>9. ASSUME NEW u \in Colleague \cup {None}, NEW i \in Desk!Rows(a, kind, u) PROVE Desk!MayOpen(a, i)
  <2>1. log[i].by \in Desk!Scope(a)
    BY DEF Desk!Rows
  <2> QED
    BY <2>1, Zenon DEF Desk!MayOpen
<1> HIDE DEF rows, members, f
<1>10. Desk!Dashboard(a, kind, None).total = Desk!Cardinality(rows) /\ Desk!Dashboard(a, kind, None).team = f
  BY <1>1
<1> QED
  BY <1>7, <1>8, <1>9, <1>10, Zenon DEF members

\* The pages, one row on each, in one sequence are the rows.
LEMMA PagesJoin ==
    ASSUME NEW n \in Nat \ {0}, NEW V, NEW s \in [1 .. n -> V]
    PROVE  Desk!FlattenSeq([p \in 1 .. n |-> <<s[p]>>]) = s
<1> DEFINE pages == [p \in 1 .. n |-> <<s[p]>>]
           first(k) == [j \in 1 .. k |-> s[j]]
           Joins(g) == g = [i \in 1 .. n |-> IF i = 1 THEN pages[i] ELSE g[i - 1] \o pages[i]]
           joined == CHOOSE g : Joins(g)
           g0 == [i \in 1 .. n |-> first(i)]
<1>1. Len(pages) = n /\ n # 0 /\ \A p \in 1 .. n : pages[p] = <<s[p]>>
  OBVIOUS
<1>2. Desk!FlattenSeq(pages) = joined[n]
  <2> HIDE DEF pages
  <2> QED
    BY <1>1, Zenon DEF Desk!FlattenSeq
\* The first k rows, and the next.
<1>3. first(1) = <<s[1]>>
  OBVIOUS
<1>4. ASSUME NEW k \in 1 .. n, k # 1 PROVE first(k) = first(k - 1) \o <<s[k]>>
  <2>1. first(k - 1) \in Seq(V) /\ Len(first(k - 1)) = k - 1 /\ s[k] \in V /\ k - 1 \in Nat
    BY <1>4
  <2>2. <<s[k]>> \in Seq(V) /\ Len(<<s[k]>>) = 1
    BY <2>1
  <2> DEFINE both == first(k - 1) \o <<s[k]>>
  <2>3. Len(both) = k /\ both \in Seq(V)
    BY <2>1, <2>2
  <2>4. \A j \in 1 .. k : both[j] = s[j]
    BY <2>1, <2>2
  <2>5. both = [j \in 1 .. k |-> both[j]]
    BY <2>3
  <2> QED
    BY <2>4, <2>5
<1>5. Joins(g0)
  <2>1. \A i \in 1 .. n : g0[i] = first(i)
    OBVIOUS
  <2>2. ASSUME NEW i \in 1 .. n PROVE g0[i] = IF i = 1 THEN pages[i] ELSE g0[i - 1] \o pages[i]
    <3>1. CASE i = 1
      BY <1>1, <1>3, <2>1, <3>1
    <3>2. CASE i # 1
      <4>1. i - 1 \in 1 .. n
        BY <3>2
      <4>2. g0[i - 1] = first(i - 1) /\ g0[i] = first(i) /\ pages[i] = <<s[i]>>
        BY <1>1, <2>1, <4>1
      <4>3. first(i) = first(i - 1) \o <<s[i]>>
        BY <1>4, <3>2
      <4> HIDE DEF g0, first, pages
      <4> QED
        BY <3>2, <4>2, <4>3
    <3> QED
      BY <3>1, <3>2
  <2>3. g0 = [i \in 1 .. n |-> g0[i]]
    OBVIOUS
  <2> HIDE DEF g0, pages, first
  <2> QED
    BY <2>2, <2>3
<1>6. Joins(joined)
  <2> HIDE DEF g0, pages
  <2>1. \E g : Joins(g)
    BY <1>5
  <2> HIDE DEF Joins
  <2> QED
    BY <2>1
\* The least page where it went wrong has one before it.
<1> DEFINE Wrong == {i \in 1 .. n : joined[i] # first(i)}
<1>7. \A i \in 1 .. n : joined[i] = IF i = 1 THEN pages[i] ELSE joined[i - 1] \o pages[i]
  <2> HIDE DEF joined, pages
  <2> QED
    BY <1>6
<1>8. Wrong = {}
  <2> SUFFICES ASSUME Wrong # {} PROVE FALSE
    OBVIOUS
  <2>1. Wrong \subseteq Nat
    OBVIOUS
  <2>2. PICK i \in Wrong : \A j \in Wrong : i <= j
    <3> HIDE DEF Wrong
    <3> QED
      BY <2>1, LeastNatural
  <2>3. i \in 1 .. n /\ joined[i] # first(i)
    OBVIOUS
  <2> HIDE DEF joined
  <2>4. CASE i = 1
    BY <1>1, <1>3, <1>7, <2>3, <2>4
  <2>5. CASE i # 1
    <3>1. i - 1 \in 1 .. n /\ ~(i <= i - 1)
      BY <2>3, <2>5
    <3>2. joined[i - 1] = first(i - 1)
      BY <2>2, <3>1
    <3>3. joined[i] = first(i - 1) \o <<s[i]>>
      BY <1>1, <1>7, <2>3, <2>5, <3>2
    <3> HIDE DEF first
    <3> QED
      BY <1>4, <2>3, <2>5, <3>3
  <2> QED
    BY <2>4, <2>5
<1>9. n \in 1 .. n /\ first(n) = s
  OBVIOUS
<1> HIDE DEF joined, first, pages
<1>10. joined[n] = s
  BY <1>8, <1>9
<1> QED
  BY <1>2, <1>10 DEF pages

LEMMA OnePage == ASSUME NEW s PROVE Desk!FlattenSeq([p \in 1 .. 1 |-> s]) = s
<1> DEFINE pages == [p \in 1 .. 1 |-> s]
           Joins(g) == g = [i \in 1 .. 1 |-> IF i = 1 THEN pages[i] ELSE g[i - 1] \o pages[i]]
           joined == CHOOSE g : Joins(g)
<1>1. Len(pages) = 1 /\ 1 # 0 /\ 1 \in 1 .. 1 /\ pages[1] = s
  OBVIOUS
<1>2. Desk!FlattenSeq(pages) = joined[1]
  <2> HIDE DEF pages
  <2> QED
    BY <1>1, Zenon DEF Desk!FlattenSeq
<1>3. Joins([i \in 1 .. 1 |-> pages[i]])
  <2>1. \A i \in 1 .. 1 : i = 1
    OBVIOUS
  <2> HIDE DEF pages
  <2> QED
    BY <2>1
<1>4. Joins(joined)
  <2> HIDE DEF Joins
  <2> QED
    BY <1>3
<1>5. joined[1] = s
  <2> HIDE DEF joined, pages
  <2> QED
    BY <1>1, <1>4
<1> HIDE DEF joined
<1> QED
  BY <1>2, <1>5

LEMMA OneRow ==
    ASSUME NEW V, NEW s \in Seq(V), NEW p \in 1 .. Len(s)
    PROVE  SubSeq(s, p, p) = <<s[p]>>
<1>1. s[p] \in V /\ p \in Nat /\ 1 <= p /\ p <= Len(s)
  OBVIOUS
<1>2. SubSeq(s, p, p) \in Seq(V) /\ Len(SubSeq(s, p, p)) = 1
  BY <1>1
<1>3. SubSeq(s, p, p)[1] = s[p]
  BY <1>1
<1>4. <<s[p]>> = [i \in 1 .. 1 |-> s[p]]
  OBVIOUS
<1> DEFINE one == SubSeq(s, p, p)
<1>5. one = [i \in 1 .. 1 |-> one[i]]
  <2> HIDE DEF one
  <2>1. one = [i \in 1 .. Len(one) |-> one[i]]
    BY <1>2 DEF one
  <2> QED
    BY <1>2, <2>1 DEF one
<1>6. \A i \in 1 .. 1 : one[i] = s[p]
  BY <1>3
<1> HIDE DEF one
<1>7. one = [i \in 1 .. 1 |-> s[p]]
  BY <1>5, <1>6
<1> QED
  BY <1>4, <1>7 DEF one

LEMMA PagesCover == DeskInv => Desk!MeetingPagesCover
<1> SUFFICES ASSUME DeskInv, NEW a \in Colleague
             PROVE  Desk!FlattenSeq([p \in 1 .. Desk!TotalPages(a) |-> Desk!Page(a, p)]) = Desk!Meetings(a)
  BY Zenon DEF Desk!MeetingPagesCover
<1> DEFINE rows == Desk!Rows(a, "meeting", None)
           n == Desk!Cardinality(rows)
           s == Desk!Meetings(a)
           V == {s[k] : k \in 1 .. n}
<1>1. n \in Nat
  <2>1. IsFiniteSet(rows)
    BY RowsFinite
  <2> HIDE DEF rows
  <2> QED
    BY <2>1, FS_CardinalityType, DeskCounts
<1>2. s = [k \in 1 .. n |-> s[k]]
  <2> HIDE DEF rows
  <2> QED
    BY DEF Desk!Meetings, rows
<1> HIDE DEF n, s
<1>3. Len(s) = n /\ s \in [1 .. n -> V] /\ s \in Seq(V)
  <2>1. \A k \in 1 .. n : s[k] \in V
    OBVIOUS
  <2>2. s \in [1 .. n -> V]
    BY <1>2, <2>1
  <2> HIDE DEF V
  <2>3. s \in Seq(V) /\ DOMAIN s = 1 .. n
    BY <1>1, <2>2
  <2> QED
    BY <1>1, <2>2, <2>3
<1> HIDE DEF V
<1>4. /\ Desk!TotalPages(a) = Desk!Max({1, (n + 1 - 1) \div 1})
      /\ \A p : Desk!Page(a, p) = SubSeq(s, (p - 1) * 1 + 1, Desk!Min({p * 1, n}))
  BY <1>3, Zenon DEF Desk!TotalPages, Desk!Page, Desk!PageSize, s
<1>5. (n + 1 - 1) \div 1 = n
  BY <1>1
<1>6. CASE n = 0
  <2>1. Desk!TotalPages(a) = 1
    BY <1>4, <1>5, <1>6 DEF Desk!Max
  <2>2. Desk!Min({1 * 1, n}) = 0 /\ (1 - 1) * 1 + 1 = 1
    BY <1>6 DEF Desk!Min
  <2>3. Desk!Page(a, 1) = SubSeq(s, 1, 0)
    BY <1>4, <2>2
  <2>4. SubSeq(s, 1, 0) = << >> /\ s = << >>
    BY <1>2, <1>3, <1>6
  <2>5. \A p \in 1 .. 1 : Desk!Page(a, p) = s
    BY <2>3, <2>4
  <2>6. [p \in 1 .. 1 |-> Desk!Page(a, p)] = [p \in 1 .. 1 |-> s]
    BY <2>5
  <2> QED
    BY <2>1, <2>6, OnePage DEF s
<1>7. CASE n # 0
  <2>1. Desk!TotalPages(a) = n
    <3>1. n \in {1, n} /\ \A y \in {1, n} : n >= y
      BY <1>1, <1>7
    <3>2. Desk!Max({1, n}) \in {1, n} /\ \A y \in {1, n} : Desk!Max({1, n}) >= y
      BY <3>1, Zenon DEF Desk!Max
    <3>3. Desk!Max({1, n}) = n
      BY <1>1, <1>7, <3>2
    <3> QED
      BY <1>4, <1>5, <3>3
  <2>2. ASSUME NEW p \in 1 .. n PROVE Desk!Page(a, p) = <<s[p]>>
    <3>1. p * 1 = p /\ (p - 1) * 1 + 1 = p /\ p <= n /\ p \in Nat
      OBVIOUS
    <3>2. p \in {p, n} /\ \A y \in {p, n} : p <= y
      BY <1>1, <3>1
    <3>3. Desk!Min({p, n}) \in {p, n} /\ \A y \in {p, n} : Desk!Min({p, n}) <= y
      BY <3>2, Zenon DEF Desk!Min
    <3>4. Desk!Min({p, n}) = p
      BY <1>1, <3>1, <3>3
    <3>5. Desk!Page(a, p) = SubSeq(s, p, p)
      BY <1>4, <3>1, <3>4
    <3>6. p \in 1 .. Len(s)
      BY <1>3
    <3> QED
      BY <1>3, <3>5, <3>6, OneRow
  <2>3. [p \in 1 .. n |-> Desk!Page(a, p)] = [p \in 1 .. n |-> <<s[p]>>]
    BY <2>2
  <2>4. n \in Nat \ {0}
    BY <1>1, <1>7
  <2>5. Desk!FlattenSeq([p \in 1 .. n |-> <<s[p]>>]) = s
    BY <1>3, <2>4, PagesJoin
  <2> QED
    BY <2>1, <2>3, <2>5 DEF s
<1> QED
  BY <1>6, <1>7

LEMMA DeskShows == DeskSetup /\ DeskInv => Desk!DeskShowsWhatIsThere
BY MapTells, HeldSeen, DashboardAdds, PickerHasAll, PagesCover, Zenon DEF Desk!DeskShowsWhatIsThere

\* For any people, teams, zones and buildings, however they change hands: the map offers
\* a check-in where one is let in, whoever is above a holder sees the building, the
\* dashboard adds up, the picker has whoever may be given a building, and the pages
\* hold every meeting once.
THEOREM DeskStaysTrue == DeskSetup => (Desk!Spec => [](Desk!TypeOK /\ Desk!DeskShowsWhatIsThere))
<1> SUFFICES ASSUME DeskSetup PROVE Desk!Spec => [](Desk!TypeOK /\ Desk!DeskShowsWhatIsThere)
  OBVIOUS
<1>1. DeskInv => Desk!TypeOK
  BY Zenon DEF DeskInv
<1> QED
  BY <1>1, DeskFirst, DeskStep, DeskShows, PTL DEF Desk!Spec
=============================================================================
