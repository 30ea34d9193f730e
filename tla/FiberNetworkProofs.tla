------------------------- MODULE FiberNetworkProofs -------------------------
(***************************************************************************)
(* What holds of FiberNetwork for any fibres, closures, splitters and      *)
(* ratios, while requests are taken one at a time; overlapping ones judge  *)
(* by outputs that somebody else has claimed since.                        *)
(***************************************************************************)
EXTENDS FiberNetwork, WellFoundedInduction, FiniteSetTheorems, TLAPS

\* One request at a time; ratios are bounded; a fibre is drawn over two points
\* or more; null is not a value of a field.
OneAtATime == \E r : Request = {r}
Setup ==
    /\ Ratio \subseteq Nat /\ \E top \in Nat : \A n \in Ratio : n <= top
    /\ MaxPort \in Nat
    /\ \A points \in Shape : points \in Seq(Closure \cup Splitter \cup Building) /\ Len(points) > 1
    /\ \A d \in Asks : /\ d.points \in Shape \cup {Keep}
                       /\ d.port \in (1 .. MaxPort) \cup {None, Keep}
                       /\ d.feed \in (Splitter \X Nat) \cup {None, Keep}
    /\ None \notin Fiber \cup Closure \cup (Splitter \X Nat)

-----------------------------------------------------------------------------
(* The tables, and who feeds whom in them.                                 *)

Outlet == 1 .. Max(Ratio)
Row == [closure : Closure \cup {None}, input : Fiber \cup {None}, out : UNION {[1 .. n -> Output] : n \in Ratio}]
Rows(all) == \E S \in SUBSET Splitter : all \in [S -> Row]

\* Output n of splitter s feeds f; where a fibre that it feeds starts.
Fed(all, f, s, n) == s \in DOMAIN all /\ n \in DOMAIN all[s].out /\ all[s].out[n].toFiber = f
Site(all, s) == IF all[s].closure # None THEN all[s].closure ELSE s

\* f has the same feed in both tables.
SameFeed(all, new, f) == \A s, n : Fed(new, f, s, n) <=> Fed(all, f, s, n)

\* A fibre is fed once, starts where it is fed, and is on no port besides.
FedOnce(all) == \A f \in Fiber : \A s, t, m, n : Fed(all, f, s, m) /\ Fed(all, f, t, n) => s = t /\ m = n
FedRight(all, rows) ==
    \A f \in Fiber : \A s, n :
        Fed(all, f, s, n) => f \in DOMAIN rows /\ rows[f].port = None /\ rows[f].points[1] = Site(all, s)

\* A bounded set of naturals that is not empty has a greatest element.
LEMMA GreatestNatural ==
    ASSUME NEW T, T \subseteq Nat, NEW x \in T, NEW top \in Nat, \A n \in T : n <= top
    PROVE  Max(T) \in T /\ \A n \in T : n <= Max(T)
<1> DEFINE B == {b \in Nat : \A n \in T : n <= b}
<1> DEFINE R == OpToRel(<, Nat)
<1>1. ASSUME NEW b \in Nat, NEW c \in Nat, <<c, b>> \notin R
      PROVE  b <= c
  <2>1. <<c, b>> \in Nat \X Nat => ~ (<<c, b>>[1] < <<c, b>>[2])
    BY <1>1, Zenon DEF OpToRel
  <2> QED
    BY <2>1
<1>2. \E b \in B : \A c \in B : b <= c
  <2>1. IsWellFoundedOn(R, Nat)
    BY NatLessThanWellFounded, Zenon
  <2>2. B \subseteq Nat /\ B # {}
    OBVIOUS
  <2>3. \A b, c \in B : <<c, b>> \notin R => b <= c
    BY <1>1, Zenon
  <2> HIDE DEF R, B
  <2>4. \E b \in B : \A c \in B : <<c, b>> \notin R
    BY <2>1, <2>2, WFMin, Zenon
  <2> QED
    BY <2>3, <2>4, Zenon
<1> HIDE DEF R
<1>3. PICK b \in B : \A c \in B : b <= c
  BY <1>2
<1>4. b \in T
  <2>1. SUFFICES ASSUME b \notin T PROVE FALSE
    OBVIOUS
  <2>2. b - 1 \in Nat /\ \A n \in T : n <= b - 1
    BY <1>3, <2>1
  <2> QED
    BY <1>3, <2>2
<1>5. \E y \in T : \A n \in T : y >= n
  BY <1>3, <1>4
<1>6. Max(T) \in T /\ \A n \in T : Max(T) >= n
  BY <1>5, Zenon DEF Max
<1> QED
  BY <1>6

\* What a row is made of; an output has a number within the ratio.
LEMMA RowParts ==
    ASSUME Setup, NEW row \in Row
    PROVE  /\ row.closure \in Closure \cup {None} /\ row.input \in Fiber \cup {None}
           /\ row.out \in UNION {[1 .. n -> Output] : n \in Ratio}
           /\ row = [closure |-> row.closure, input |-> row.input, out |-> row.out]
           /\ \A n \in DOMAIN row.out : row.out[n] \in Output /\ n \in Outlet
<1>1. /\ row.closure \in Closure \cup {None} /\ row.input \in Fiber \cup {None}
      /\ row.out \in UNION {[1 .. n -> Output] : n \in Ratio}
      /\ row = [closure |-> row.closure, input |-> row.input, out |-> row.out]
  BY DEF Row
<1>2. PICK ratio \in Ratio : row.out \in [1 .. ratio -> Output]
  BY <1>1
<1>3. \A n \in 1 .. ratio : n \in Outlet
  <2>1. Max(Ratio) \in Ratio /\ ratio <= Max(Ratio)
    BY GreatestNatural DEF Setup
  <2>2. ratio \in Nat /\ Max(Ratio) \in Nat
    BY <2>1 DEF Setup
  <2> QED
    BY <2>1, <2>2 DEF Outlet
<1> QED
  BY <1>1, <1>2, <1>3

\* A feed is an output of a splitter.
LEMMA FeedInRange ==
    ASSUME Setup, NEW all, Rows(all), NEW f, NEW s, NEW n, Fed(all, f, s, n)
    PROVE  s \in Splitter /\ n \in Outlet /\ n \in Nat
<1>1. PICK S \in SUBSET Splitter : all \in [S -> Row]
  BY DEF Rows
<1>2. s \in S /\ all[s] \in Row /\ n \in DOMAIN all[s].out
  BY <1>1 DEF Fed
<1>3. n \in Outlet
  BY <1>2, RowParts
<1> QED
  BY <1>2, <1>3 DEF Outlet

\* FedBy, of any table.
FeedIn(all, f) ==
    LET feeds == {x \in (DOMAIN all) \X (1 .. Max(Ratio)) :
                      x[2] \in DOMAIN all[x[1]].out /\ all[x[1]].out[x[2]].toFiber = f}
    IN  IF feeds = {} THEN None ELSE CHOOSE x \in feeds : TRUE

\* FedBy answers the feed of a fibre, or null when it has none.
LEMMA FeedInIsFeed ==
    ASSUME Setup, NEW all, Rows(all), FedOnce(all), NEW f \in Fiber
    PROVE  /\ \A s, n : Fed(all, f, s, n) => FeedIn(all, f) = <<s, n>>
           /\ \/ FeedIn(all, f) = None /\ \A s, n : ~ Fed(all, f, s, n)
              \/ \E s \in Splitter, n \in Nat : FeedIn(all, f) = <<s, n>> /\ Fed(all, f, s, n)
<1> DEFINE feeds == {x \in (DOMAIN all) \X (1 .. Max(Ratio)) :
                      x[2] \in DOMAIN all[x[1]].out /\ all[x[1]].out[x[2]].toFiber = f}
<1>1. FeedIn(all, f) = IF feeds = {} THEN None ELSE CHOOSE x \in feeds : TRUE
  BY Zenon DEF FeedIn
<1>2. ASSUME NEW s, NEW n, Fed(all, f, s, n)
      PROVE  <<s, n>> \in feeds
  <2>1. n \in 1 .. Max(Ratio)
    BY <1>2, FeedInRange DEF Outlet
  <2> QED
    BY <1>2, <2>1 DEF Fed
<1>3. ASSUME NEW x \in feeds
      PROVE  \E s, n : x = <<s, n>> /\ Fed(all, f, s, n)
  BY DEF Fed
<1> HIDE DEF feeds
<1>4. CASE feeds = {}
  <2>1. \A s, n : ~ Fed(all, f, s, n)
    BY <1>2, <1>4
  <2> QED
    BY <1>1, <1>4, <2>1
<1>5. CASE feeds # {}
  <2>1. FeedIn(all, f) \in feeds
    BY <1>1, <1>5, Zenon
  <2>2. PICK s, n : FeedIn(all, f) = <<s, n>> /\ Fed(all, f, s, n)
    BY <1>3, <2>1
  <2>3. s \in Splitter /\ n \in Nat
    BY <2>2, FeedInRange
  <2>4. \A t, m : Fed(all, f, t, m) => FeedIn(all, f) = <<t, m>>
    BY <2>2 DEF FedOnce
  <2> QED
    BY <2>2, <2>3, <2>4
<1> QED
  BY <1>4, <1>5

\* The same feed reads the same.
LEMMA SameFeedReadsSame ==
    ASSUME Setup, NEW all, NEW new, Rows(all), Rows(new), FedOnce(all), FedOnce(new), NEW f \in Fiber, SameFeed(all, new, f)
    PROVE  FeedIn(new, f) = FeedIn(all, f)
<1>1. \A s, n : Fed(all, f, s, n) => FeedIn(all, f) = <<s, n>>
  BY FeedInIsFeed
<1>2. \/ FeedIn(new, f) = None /\ \A s, n : ~ Fed(new, f, s, n)
      \/ \E s \in Splitter, n \in Nat : FeedIn(new, f) = <<s, n>> /\ Fed(new, f, s, n)
  BY FeedInIsFeed
<1>3. \/ FeedIn(all, f) = None /\ \A s, n : ~ Fed(all, f, s, n)
      \/ \E s \in Splitter, n \in Nat : FeedIn(all, f) = <<s, n>> /\ Fed(all, f, s, n)
  BY FeedInIsFeed
<1> QED
  BY <1>1, <1>2, <1>3 DEF SameFeed

-----------------------------------------------------------------------------
(* What the operators on the table of splitters do.                        *)

\* Output n of splitter s set to v: it feeds v, and the rest is as it was.
Put(all, s, n, v) == [all EXCEPT ![s].out[n].toFiber = v]

LEMMA OutputSet ==
    ASSUME Setup, NEW all, Rows(all), NEW s \in DOMAIN all, NEW n \in DOMAIN all[s].out, NEW v \in Fiber \cup {None},
           NEW new, new = Put(all, s, n, v)
    PROVE  /\ Rows(new) /\ DOMAIN new = DOMAIN all
           /\ \A t \in DOMAIN all : new[t].closure = all[t].closure /\ DOMAIN new[t].out = DOMAIN all[t].out
           /\ \A f, t, m : Fed(new, f, t, m) <=> (IF t = s /\ m = n THEN f = v ELSE Fed(all, f, t, m))
<1>1. PICK S \in SUBSET Splitter : all \in [S -> Row]
  BY DEF Rows
<1>2. /\ s \in S /\ all[s] \in Row
      /\ all[s] = [closure |-> all[s].closure, input |-> all[s].input, out |-> all[s].out]
      /\ all[s].closure \in Closure \cup {None} /\ all[s].input \in Fiber \cup {None} /\ all[s].out[n] \in Output
  BY <1>1, RowParts
<1>3. PICK ratio \in Ratio : all[s].out \in [1 .. ratio -> Output]
  BY <1>2, RowParts
<1>4. PICK o : o = [all[s].out[n] EXCEPT !.toFiber = v]
  OBVIOUS
<1>5. o \in Output /\ o.toFiber = v
  BY <1>2, <1>4 DEF Output
<1>6. PICK out : out = [all[s].out EXCEPT ![n] = o]
  OBVIOUS
<1>7. out \in [1 .. ratio -> Output] /\ out[n] = o /\ DOMAIN out = DOMAIN all[s].out
      /\ \A m \in DOMAIN out : m # n => out[m] = all[s].out[m]
  BY <1>3, <1>5, <1>6
<1>8. PICK row : row = [closure |-> all[s].closure, input |-> all[s].input, out |-> out]
  OBVIOUS
<1>9. row \in Row /\ row.closure = all[s].closure /\ row.out = out
  BY <1>2, <1>7, <1>8 DEF Row
<1>10. row = [all[s] EXCEPT !.out = out]
  BY <1>2, <1>8
<1>11. new = [all EXCEPT ![s] = row]
  BY <1>4, <1>6, <1>10 DEF Put
<1>12. new \in [S -> Row] /\ DOMAIN new = S /\ DOMAIN all = S /\ new[s] = row /\ \A t \in S : t # s => new[t] = all[t]
  BY <1>1, <1>2, <1>9, <1>11
<1>13. \A t \in DOMAIN all : new[t].closure = all[t].closure /\ DOMAIN new[t].out = DOMAIN all[t].out
  BY <1>12, <1>9, <1>7
<1>14. ASSUME NEW f, NEW t, NEW m
       PROVE  Fed(new, f, t, m) <=> (IF t = s /\ m = n THEN f = v ELSE Fed(all, f, t, m))
  <2>1. CASE t = s
    BY <2>1, <1>12, <1>9, <1>7, <1>5, <1>2 DEF Fed
  <2>2. CASE t # s
    BY <2>2, <1>12 DEF Fed
  <2> QED
    BY <2>1, <2>2
<1> QED
  BY <1>12, <1>13, <1>14 DEF Rows

\* Splitters that are added with nothing on their outputs feed nobody.
LEMMA TableGrows ==
    ASSUME NEW all, NEW new, DOMAIN all \subseteq DOMAIN new, \A s \in DOMAIN all : new[s] = all[s],
           \A s \in DOMAIN new \ DOMAIN all : \A n \in DOMAIN new[s].out : new[s].out[n].toFiber = None,
           Setup
    PROVE  /\ \A f \in Fiber : SameFeed(all, new, f)
           /\ \A s \in DOMAIN all : Site(new, s) = Site(all, s)
<1>1. ASSUME NEW f \in Fiber, NEW s, NEW n
      PROVE  Fed(new, f, s, n) <=> Fed(all, f, s, n)
  <2>1. f # None
    BY DEF Setup
  <2>2. CASE s \in DOMAIN all
    BY <2>2 DEF Fed
  <2>3. CASE s \notin DOMAIN all
    BY <2>1, <2>3 DEF Fed
  <2> QED
    BY <2>2, <2>3
<1> QED
  BY <1>1 DEF SameFeed, Site

\* A splitter without outputs in use is a row.
LEMMA NewRow ==
    ASSUME Setup, NEW c \in Closure \cup {None}, NEW f \in Fiber \cup {None}, NEW n \in Ratio,
           NEW out \in [1 .. n -> {Unused}]
    PROVE  [closure |-> c, input |-> f, out |-> out] \in Row /\ \A i \in DOMAIN out : out[i].toFiber = None
<1>1. Unused \in Output /\ Unused.toFiber = None
  BY DEF Unused, Output
<1>2. out \in [1 .. n -> Output] /\ \A i \in DOMAIN out : out[i] = Unused
  BY <1>1
<1> QED
  BY <1>1, <1>2 DEF Row

\* A splitter drawn onto the line feeds nobody.
LEMMA DrawnFeeds ==
    ASSUME Setup, Rows(splitter), NEW f \in Fiber, NEW points, NEW ratio \in Ratio
    PROVE  /\ Rows(Drawn(f, points, ratio)) /\ DOMAIN splitter \subseteq DOMAIN Drawn(f, points, ratio)
           /\ \A s \in DOMAIN splitter : Drawn(f, points, ratio)[s] = splitter[s]
           /\ \A s \in DOMAIN Drawn(f, points, ratio) \ DOMAIN splitter :
                 \A n \in DOMAIN Drawn(f, points, ratio)[s].out : Drawn(f, points, ratio)[s].out[n].toFiber = None
<1> DEFINE new == (ToSet(points) \cap Splitter) \ DOMAIN splitter
           row == [closure |-> None, input |-> f, out |-> [n \in 1 .. ratio |-> Unused]]
           all == [s \in DOMAIN splitter \cup new |-> IF s \in new THEN row ELSE splitter[s]]
<1>1. Drawn(f, points, ratio) = all
  BY Zenon DEF Drawn
<1>2. row \in Row /\ \A n \in DOMAIN row.out : row.out[n].toFiber = None
  <2>1. PICK out : out = [n \in 1 .. ratio |-> Unused]
    OBVIOUS
  <2>2. [closure |-> None, input |-> f, out |-> out] \in Row /\ \A n \in DOMAIN out : out[n].toFiber = None
    <3>1. out \in [1 .. ratio -> {Unused}]
      BY <2>1
    <3> QED
      BY <3>1, NewRow
  <2>3. row = [closure |-> None, input |-> f, out |-> out]
    BY <2>1, Zenon
  <2>4. row.out = out
    BY <2>3
  <2> HIDE DEF row
  <2> QED
    BY <2>2, <2>3, <2>4
<1>3. PICK S \in SUBSET Splitter : splitter \in [S -> Row]
  BY DEF Rows
<1>4. new \subseteq Splitter /\ new \cap DOMAIN splitter = {} /\ DOMAIN splitter = S
  BY <1>3
<1> HIDE DEF row, new
<1>5. DOMAIN all = S \cup new /\ \A s \in S \cup new : all[s] = IF s \in new THEN row ELSE splitter[s]
  BY <1>4
<1>6. all \in [S \cup new -> Row] /\ S \cup new \in SUBSET Splitter
  BY <1>2, <1>3, <1>4
<1> HIDE DEF all
<1>7. Rows(all)
  BY <1>6 DEF Rows
<1>8. \A s \in S : all[s] = splitter[s]
  BY <1>4, <1>5
<1>9. \A s \in DOMAIN all \ S : all[s] = row
  BY <1>5
<1> QED
  BY <1>1, <1>2, <1>4, <1>5, <1>7, <1>8, <1>9

\* A line that claims inputs leaves the outputs alone.
LEMMA InputClaimedFeeds ==
    ASSUME NEW all, Rows(all), NEW f \in Fiber, NEW points, NEW new, new = InputClaimed(all, f, points)
    PROVE  /\ Rows(new) /\ DOMAIN new = DOMAIN all
           /\ \A t \in DOMAIN all : new[t].closure = all[t].closure
           /\ \A g, s, n : Fed(new, g, s, n) <=> Fed(all, g, s, n)
<1>1. PICK S \in SUBSET Splitter : all \in [S -> Row]
  BY DEF Rows
<1>2. /\ DOMAIN new = S
      /\ \A s \in S : new[s] = IF all[s].closure = Last(points) /\ all[s].input = None THEN [all[s] EXCEPT !.input = f] ELSE all[s]
  BY <1>1 DEF InputClaimed
<1>3. ASSUME NEW s \in S
      PROVE  new[s] \in Row /\ new[s].closure = all[s].closure /\ new[s].out = all[s].out
  <2>1. all[s] \in Row
    BY <1>1
  <2>2. [all[s] EXCEPT !.input = f] \in Row /\ [all[s] EXCEPT !.input = f].closure = all[s].closure
        /\ [all[s] EXCEPT !.input = f].out = all[s].out
    BY <2>1 DEF Row
  <2> QED
    BY <1>2, <2>1, <2>2
<1>4. new \in [S -> Row]
  <2>1. new = [s \in S |-> new[s]]
    BY <1>1 DEF InputClaimed
  <2> QED
    BY <1>3, <2>1
<1> QED
  BY <1>1, <1>2, <1>3, <1>4 DEF Rows, Fed

\* A splitter's feeding place is kept with its closure.
LEMMA SiteKept ==
    ASSUME NEW all, NEW new, NEW s, new[s].closure = all[s].closure
    PROVE  Site(new, s) = Site(all, s)
  BY DEF Site

\* An output is given back: its fibre is fed by it no more, all others are fed as they were.
LEMMA ReleasedFeeds ==
    ASSUME Setup, NEW all, Rows(all), FedOnce(all), NEW f \in Fiber, NEW feed, feed = FeedIn(all, f),
           NEW new, new = Released(all, feed)
    PROVE  /\ Rows(new) /\ DOMAIN new = DOMAIN all
           /\ \A s \in DOMAIN all : Site(new, s) = Site(all, s)
           /\ \A g \in Fiber \ {f} : SameFeed(all, new, g)
           /\ \A s, n : ~ Fed(new, f, s, n)
<1>1. \/ feed = None /\ \A s, n : ~ Fed(all, f, s, n)
      \/ \E s \in Splitter, n \in Nat : feed = <<s, n>> /\ Fed(all, f, s, n)
  BY FeedInIsFeed
<1>2. CASE feed = None /\ \A s, n : ~ Fed(all, f, s, n)
  <2>1. new = all
    BY <1>2 DEF Released
  <2> QED
    BY <1>2, <2>1 DEF SameFeed
<1>3. ASSUME NEW s \in Splitter, NEW n \in Nat, feed = <<s, n>>, Fed(all, f, s, n)
      PROVE  /\ Rows(new) /\ DOMAIN new = DOMAIN all
             /\ \A t \in DOMAIN all : Site(new, t) = Site(all, t)
             /\ \A g \in Fiber \ {f} : SameFeed(all, new, g)
             /\ \A t, m : ~ Fed(new, f, t, m)
  <2>1. feed # None /\ f # None
    BY <1>3 DEF Setup
  <2>2. new = Put(all, s, n, None)
    <3>1. feed[1] = s /\ feed[2] = n
      BY <1>3
    <3> QED
      BY <2>1, <3>1, Zenon DEF Released, Put
  <2>3. s \in DOMAIN all /\ n \in DOMAIN all[s].out /\ all[s].out[n].toFiber = f
    BY <1>3 DEF Fed
  <2>4. /\ Rows(new) /\ DOMAIN new = DOMAIN all
        /\ \A t \in DOMAIN all : new[t].closure = all[t].closure /\ DOMAIN new[t].out = DOMAIN all[t].out
        /\ \A g, t, m : Fed(new, g, t, m) <=> (IF t = s /\ m = n THEN g = None ELSE Fed(all, g, t, m))
    BY <2>2, <2>3, OutputSet
  <2>5. ASSUME NEW g \in Fiber \ {f}
        PROVE  SameFeed(all, new, g)
    <3>1. g # None
      BY DEF Setup
    <3>2. ~ Fed(all, g, s, n)
      BY <2>3 DEF Fed
    <3> QED
      BY <2>4, <3>1, <3>2 DEF SameFeed
  <2>6. \A t, m : ~ Fed(new, f, t, m)
    BY <1>3, <2>1, <2>4 DEF FedOnce
  <2> QED
    BY <2>4, <2>5, <2>6, SiteKept
<1> QED
  BY <1>1, <1>2, <1>3

\* An output that is free, or f's own, is claimed for f: f is fed by it besides
\* what else feeds it, and all others are fed as they were.
LEMMA ClaimedFeeds ==
    ASSUME Setup, NEW all, Rows(all), NEW f \in Fiber, NEW points,
           NEW feed, \/ feed = None
                     \/ /\ feed \in Splitter \X Nat
                        /\ feed[1] \in DOMAIN all /\ feed[2] \in DOMAIN all[feed[1]].out
                        /\ all[feed[1]].out[feed[2]].toFiber \in {None, f},
           NEW new, new = InputClaimed(Claimed(all, f, feed), f, points)
    PROVE  /\ Rows(new) /\ DOMAIN new = DOMAIN all
           /\ \A s \in DOMAIN all : Site(new, s) = Site(all, s)
           /\ \A g \in Fiber \ {f} : SameFeed(all, new, g)
           /\ \A s, n : Fed(new, f, s, n) <=> (Fed(all, f, s, n) \/ (feed # None /\ feed = <<s, n>>))
<1>1. PICK fed : fed = Claimed(all, f, feed)
  OBVIOUS
<1>2. /\ Rows(fed) /\ DOMAIN fed = DOMAIN all
      /\ \A s \in DOMAIN all : fed[s].closure = all[s].closure
      /\ \A g \in Fiber \ {f} : SameFeed(all, fed, g)
      /\ \A s, n : Fed(fed, f, s, n) <=> (Fed(all, f, s, n) \/ (feed # None /\ feed = <<s, n>>))
  <2>1. CASE feed = None
    <3>1. fed = all
      BY <1>1, <2>1 DEF Claimed
    <3> QED
      BY <2>1, <3>1 DEF SameFeed
  <2>2. CASE feed # None
    <3>1. PICK s \in Splitter, n \in Nat : feed = <<s, n>>
      BY <2>2
    <3>2. s \in DOMAIN all /\ n \in DOMAIN all[s].out /\ all[s].out[n].toFiber \in {None, f}
      BY <2>2, <3>1
    <3>3. fed = Put(all, s, n, f)
      <4>1. feed[1] = s /\ feed[2] = n
        BY <3>1
      <4> QED
        BY <1>1, <2>2, <4>1, Zenon DEF Claimed, Put
    <3>4. /\ Rows(fed) /\ DOMAIN fed = DOMAIN all
          /\ \A t \in DOMAIN all : fed[t].closure = all[t].closure /\ DOMAIN fed[t].out = DOMAIN all[t].out
          /\ \A g, t, m : Fed(fed, g, t, m) <=> (IF t = s /\ m = n THEN g = f ELSE Fed(all, g, t, m))
      BY <3>2, <3>3, OutputSet
    <3>5. ASSUME NEW g \in Fiber \ {f}
          PROVE  SameFeed(all, fed, g)
      <4>1. ~ Fed(all, g, s, n)
        BY <3>2 DEF Fed, Setup
      <4> QED
        BY <3>4, <4>1 DEF SameFeed
    <3>6. \A t, m : feed = <<t, m>> <=> t = s /\ m = n
      BY <3>1
    <3>7. \A t, m : Fed(fed, f, t, m) <=> (Fed(all, f, t, m) \/ (feed # None /\ feed = <<t, m>>))
      BY <2>2, <3>4, <3>6
    <3> QED
      BY <3>4, <3>5, <3>7
  <2> QED
    BY <2>1, <2>2
<1>3. new = InputClaimed(fed, f, points)
  BY <1>1
<1>4. /\ Rows(new) /\ DOMAIN new = DOMAIN fed
      /\ \A s \in DOMAIN fed : new[s].closure = fed[s].closure
      /\ \A g, s, n : Fed(new, g, s, n) <=> Fed(fed, g, s, n)
  BY <1>2, <1>3, InputClaimedFeeds
<1> QED
  BY <1>2, <1>4 DEF SameFeed, Site

-----------------------------------------------------------------------------
(* The inductive invariant.                                                *)

Line == {row \in [points : Shape, cut : UNION {[Segments(points) -> BOOLEAN] : points \in Shape}, port : (1 .. MaxPort) \cup {None}] :
            row.cut \in [Segments(row.points) -> BOOLEAN]}
Lines(rows) == \E S \in SUBSET Fiber : rows \in [S -> Line]

\* What a request has read is still so when it writes.
ReadOK(r) ==
    LET x == request[r] IN
    /\ At(r, "create") => /\ x.f \in Fiber \ DOMAIN fiber /\ x.data \in Asks
                          /\ Keep \notin {x.data.points, x.data.port, x.data.feed}
                          /\ None \in {x.data.port, x.data.feed}
    /\ At(r, "update") => /\ x.f \in DOMAIN fiber /\ x.data \in Asks
                          /\ x.old.feed = FedBy(x.f) /\ x.old.points = fiber[x.f].points /\ x.old.cut = fiber[x.f].cut
                          /\ \/ MergedFeed(x.data.feed, x.old) = None
                             \/ (IF x.data.port = Keep THEN fiber[x.f].port ELSE x.data.port) = None
    /\ At(r, "ratio") => x.s \in DOMAIN splitter /\ x.n \in Ratio /\ MayReduce(x.s, x.n)

IInv ==
    /\ Rows(splitter) /\ Lines(fiber) /\ ponPorts \in 0 .. MaxPort /\ DOMAIN request = Request
    /\ FedOnce(splitter) /\ FedRight(splitter, fiber)
    /\ \A r \in Request : ReadOK(r)

\* What LightIsKept and CutsSurvive ask of a step.
Lit ==
    \A f \in DOMAIN fiber \cap DOMAIN fiber' :
        FedBy(f) # None => \/ FedBy(f)' = FedBy(f)
                           \/ \E r \in Request : At(r, "update") /\ request[r].f = f /\ request[r].data.feed # Keep
Pair(x, i) == <<x.points[i], x.points[i + 1]>>
CutKept(was, is) ==
    was.points # is.points =>
        \A i \in DOMAIN was.cut, j \in DOMAIN is.cut :
            (Pair(was, i) = Pair(is, j) /\ \A k \in DOMAIN was.cut \ {i} : Pair(was, k) # Pair(was, i)) => is.cut[j] = was.cut[i]
CutsKept == \A f \in DOMAIN fiber \cap DOMAIN fiber' : CutKept(fiber[f], fiber'[f])

\* FedBy reads the table of the moment.
LEMMA FedByIsFeedIn ==
    ASSUME NEW f
    PROVE  FedBy(f) = FeedIn(splitter, f) /\ FedBy(f)' = FeedIn(splitter', f)
  BY Zenon DEF FedBy, FeedIn

\* A step that feeds nobody anew, takes the feed of no fibre that stays, and
\* leaves lines and ports in place.
Quiet ==
    /\ \A f \in Fiber : \A s, n :
          Fed(splitter', f, s, n) => Fed(splitter, f, s, n) /\ f \in DOMAIN fiber' /\ Site(splitter', s) = Site(splitter, s)
    /\ \A f \in DOMAIN fiber' : /\ f \in DOMAIN fiber /\ SameFeed(splitter, splitter', f)
                                /\ fiber'[f].points = fiber[f].points /\ fiber'[f].port = fiber[f].port

\* A quiet step keeps the invariant, every feed and every cut.
LEMMA QuietStep ==
    ASSUME Setup, IInv, Quiet, Rows(splitter)', Lines(fiber)', (ponPorts \in 0 .. MaxPort)',
           (DOMAIN request = Request)', (\A r \in Request : ReadOK(r))'
    PROVE  IInv' /\ Lit /\ CutsKept
<1>1. FedOnce(splitter')
  BY DEF IInv, Quiet, FedOnce
<1>2. FedRight(splitter', fiber')
  BY DEF IInv, Quiet, FedRight
<1>3. DOMAIN fiber' \subseteq Fiber
  BY DEF Lines
<1>4. ASSUME NEW f \in DOMAIN fiber'
      PROVE  FedBy(f)' = FedBy(f)
  <2>1. Rows(splitter) /\ Rows(splitter') /\ FedOnce(splitter) /\ f \in Fiber /\ SameFeed(splitter, splitter', f)
    BY <1>3 DEF IInv, Quiet
  <2>2. FeedIn(splitter', f) = FeedIn(splitter, f)
    BY <1>1, <2>1, SameFeedReadsSame
  <2> QED
    BY <2>2, FedByIsFeedIn
<1>5. Lit
  BY <1>4 DEF Lit
<1>6. CutsKept
  BY DEF CutsKept, CutKept, Quiet
<1> QED
  BY <1>1, <1>2, <1>5, <1>6 DEF IInv

\* A step that leaves fibres and splitters alone is quiet.
LEMMA NothingRewired ==
    ASSUME Setup, IInv, UNCHANGED <<fiber, splitter>>
    PROVE  Quiet /\ Rows(splitter)' /\ Lines(fiber)'
<1>1. fiber' = fiber /\ splitter' = splitter /\ DOMAIN fiber \subseteq Fiber
  BY DEF IInv, Lines
<1>2. \A f \in Fiber : \A s, n : Fed(splitter, f, s, n) => f \in DOMAIN fiber
  BY DEF IInv, FedRight
<1>3. Quiet
  BY <1>1, <1>2 DEF Quiet, SameFeed
<1>4. Rows(splitter') /\ Lines(fiber')
  BY <1>1 DEF IInv
<1> QED
  BY <1>3, <1>4

\* Who has written holds no request; while others edit, nobody does.
LEMMA NobodyAsks ==
    ASSUME OneAtATime, IInv,
           \/ \E r \in Request : Ends(r)
           \/ (InTurn => \A r \in Request : request[r] = Idle) /\ UNCHANGED request
    PROVE  (DOMAIN request = Request)' /\ (\A r \in Request : ReadOK(r))'
<1>1. PICK q : Request = {q}
  BY DEF OneAtATime
<1>2. DOMAIN request = Request
  BY DEF IInv
<1>3. DOMAIN request' = Request /\ request'[q] = Idle
  <2>1. CASE \E r \in Request : Ends(r)
    BY <1>1, <1>2, <2>1 DEF Ends
  <2>2. CASE (InTurn => \A r \in Request : request[r] = Idle) /\ UNCHANGED request
    <3>1. InTurn
      BY <1>1, FS_Singleton, Zenon DEF InTurn
    <3> QED
      BY <1>1, <1>2, <2>2, <3>1
  <2> QED
    BY <2>1, <2>2
<1>4. \A op : At(q, op)' = FALSE
  BY <1>3 DEF At
<1>5. ReadOK(q)'
  BY <1>4 DEF ReadOK
<1> QED
  BY <1>1, <1>3, <1>5

-----------------------------------------------------------------------------
(* The checks of a request.                                                *)

\* A request begins with what it has read and checked.
LEMMA BeginStep ==
    ASSUME Setup, OneAtATime, IInv, NEW r \in Request, NEW op,
           Begins(r, op), (ReadOK(r))'
    PROVE  IInv' /\ Lit /\ CutsKept
<1>1. Request = {r}
  BY DEF OneAtATime
<1>2. DOMAIN request' = Request /\ UNCHANGED <<fiber, splitter, ponPorts>>
  BY DEF Begins, IInv
<1>3. Quiet /\ Rows(splitter)' /\ Lines(fiber)'
  BY <1>2, NothingRewired
<1>4. (\A q \in Request : ReadOK(q))'
  BY <1>1
<1>5. (ponPorts \in 0 .. MaxPort)'
  BY <1>2 DEF IInv
<1> QED
  BY <1>2, <1>3, <1>4, <1>5, QuietStep

\* createFiber, up to its transaction.
LEMMA BeginCreateStep ==
    ASSUME Setup, OneAtATime, IInv, NEW r \in Request, NEW f \in Fiber, NEW d \in Asks, BeginCreate(r, f, d)
    PROVE  IInv' /\ Lit /\ CutsKept
<1>1. PICK op : op = [op |-> "create", f |-> f, data |-> d]
  OBVIOUS
<1>2. /\ f \notin DOMAIN fiber /\ d.points # Keep /\ d.port # Keep /\ d.feed # Keep
      /\ None \in {d.port, d.feed} /\ Begins(r, op)
  BY <1>1 DEF BeginCreate
<1>3. request'[r] = op /\ UNCHANGED <<fiber, splitter>>
  BY <1>2 DEF Begins, IInv
<1>4. op.op = "create" /\ op.f = f /\ op.data = d
  BY <1>1
<1>5. ReadOK(r)'
  BY <1>2, <1>3, <1>4 DEF ReadOK, At
<1> QED
  BY <1>2, <1>5, BeginStep

\* updateFiber, up to its transaction.
LEMMA BeginUpdateStep ==
    ASSUME Setup, OneAtATime, IInv, NEW r \in Request, NEW f \in Fiber, NEW d \in Asks, BeginUpdate(r, f, d)
    PROVE  IInv' /\ Lit /\ CutsKept
<1>1. PICK old : old = [feed |-> FedBy(f), points |-> fiber[f].points, cut |-> fiber[f].cut]
  OBVIOUS
<1>2. PICK op : op = [op |-> "update", f |-> f, data |-> d, old |-> old]
  OBVIOUS
<1>3. /\ f \in DOMAIN fiber /\ Begins(r, op)
      /\ None \in {MergedFeed(d.feed, old), IF d.port = Keep THEN fiber[f].port ELSE d.port}
  BY <1>1, <1>2, Zenon DEF BeginUpdate
<1>4. request'[r] = op /\ UNCHANGED <<fiber, splitter>>
  BY <1>3 DEF Begins, IInv
<1>5. op.op = "update" /\ op.f = f /\ op.data = d /\ op.old = old
  BY <1>2
<1>6. old.feed = FedBy(f) /\ old.points = fiber[f].points /\ old.cut = fiber[f].cut
  BY <1>1
<1>7. FedBy(f)' = FedBy(f)
  BY <1>4, FedByIsFeedIn
<1>8. ~ At(r, "create")' /\ ~ At(r, "ratio")'
  BY <1>4, <1>5 DEF At
<1>9. ReadOK(r)'
  BY <1>3, <1>4, <1>5, <1>6, <1>7, <1>8 DEF ReadOK
<1> QED
  BY <1>3, <1>9, BeginStep

\* updateSplitter, up to its write.
LEMMA BeginRatioStep ==
    ASSUME Setup, OneAtATime, IInv, NEW r \in Request, NEW s \in Splitter, NEW n \in Ratio, BeginRatio(r, s, n)
    PROVE  IInv' /\ Lit /\ CutsKept
<1>1. PICK op : op = [op |-> "ratio", s |-> s, n |-> n]
  OBVIOUS
<1>2. s \in DOMAIN splitter /\ MayReduce(s, n) /\ Begins(r, op)
  BY <1>1 DEF BeginRatio
<1>3. request'[r] = op /\ UNCHANGED <<fiber, splitter>>
  BY <1>2 DEF Begins, IInv
<1>4. op.op = "ratio" /\ op.s = s /\ op.n = n
  BY <1>1
<1>5. MayReduce(s, n)'
  BY <1>2, <1>3 DEF MayReduce, UsedOutputs
<1>6. ReadOK(r)'
  BY <1>2, <1>3, <1>4, <1>5 DEF ReadOK, At
<1> QED
  BY <1>2, <1>6, BeginStep

-----------------------------------------------------------------------------
(* Lines.                                                                  *)

\* What a line is made of; it passes the point it starts at.
LEMMA LineParts ==
    ASSUME Setup, Lines(fiber), NEW f \in DOMAIN fiber
    PROVE  /\ f \in Fiber /\ fiber[f] \in Line
           /\ fiber[f].points \in Shape /\ fiber[f].port \in (1 .. MaxPort) \cup {None}
           /\ fiber[f].cut \in [Segments(fiber[f].points) -> BOOLEAN]
           /\ fiber[f] = [points |-> fiber[f].points, cut |-> fiber[f].cut, port |-> fiber[f].port]
           /\ Visits(f, fiber[f].points[1])
<1>1. PICK S \in SUBSET Fiber : fiber \in [S -> Line]
  BY DEF Lines
<1>2. f \in Fiber /\ fiber[f] \in Line
  BY <1>1
<1>3. /\ fiber[f].points \in Shape /\ fiber[f].port \in (1 .. MaxPort) \cup {None}
      /\ fiber[f].cut \in [Segments(fiber[f].points) -> BOOLEAN]
      /\ fiber[f] = [points |-> fiber[f].points, cut |-> fiber[f].cut, port |-> fiber[f].port]
  BY <1>2 DEF Line
<1>4. 1 \in DOMAIN fiber[f].points
  BY <1>3 DEF Setup
<1>5. Visits(f, fiber[f].points[1])
  BY <1>4, Zenon DEF Visits, ToSet
<1> QED
  BY <1>2, <1>3, <1>5

\* A line of a shape, with cuts of its segments and a port.
LEMMA LineOfParts ==
    ASSUME NEW points \in Shape, NEW cut \in [Segments(points) -> BOOLEAN], NEW port \in (1 .. MaxPort) \cup {None}
    PROVE  [points |-> points, cut |-> cut, port |-> port] \in Line
  BY DEF Line

\* Only the cuts of f change, if anything.
LEMMA CutsOnly ==
    ASSUME Setup, OneAtATime, IInv, NEW f \in DOMAIN fiber, NEW cut \in [Segments(fiber[f].points) -> BOOLEAN],
           NEW line, line = [points |-> fiber[f].points, cut |-> cut, port |-> fiber[f].port],
           fiber' = [fiber EXCEPT ![f] = line],
           UNCHANGED <<splitter, ponPorts, request>>, InTurn => \A r \in Request : request[r] = Idle
    PROVE  IInv' /\ Lit /\ CutsKept
<1>1. PICK S \in SUBSET Fiber : fiber \in [S -> Line]
  BY DEF IInv, Lines
<1>2. line \in Line
  BY LineParts, LineOfParts DEF IInv
<1>3. /\ fiber' \in [S -> Line] /\ DOMAIN fiber' = S
      /\ \A g \in S : fiber'[g] = IF g = f THEN line ELSE fiber[g]
  BY <1>1, <1>2
<1>4. splitter' = splitter
  OBVIOUS
<1>5. \A g \in S : fiber'[g].points = fiber[g].points /\ fiber'[g].port = fiber[g].port
  BY <1>3
<1>6. \A g \in Fiber : \A s, n : Fed(splitter, g, s, n) => g \in DOMAIN fiber
  BY DEF IInv, FedRight
<1>7. Quiet
  BY <1>1, <1>3, <1>4, <1>5, <1>6 DEF Quiet, SameFeed
<1>8. Rows(splitter') /\ Lines(fiber') /\ (ponPorts \in 0 .. MaxPort)'
  BY <1>3 DEF IInv, Lines
<1> QED
  BY <1>7, <1>8, NobodyAsks, QuietStep

\* A cut leaves points and port alone.
LEMMA CutFiberStep ==
    ASSUME Setup, OneAtATime, IInv, NEW f \in Fiber, NEW i \in 1 .. 2, CutFiber(f, i),
           InTurn => \A r \in Request : request[r] = Idle
    PROVE  IInv' /\ Lit /\ CutsKept
<1>1. f \in DOMAIN fiber /\ i \in DOMAIN fiber[f].cut /\ UNCHANGED <<splitter, ponPorts, request>>
  BY DEF CutFiber
<1>2. /\ fiber[f].cut \in [Segments(fiber[f].points) -> BOOLEAN]
      /\ fiber[f] = [points |-> fiber[f].points, cut |-> fiber[f].cut, port |-> fiber[f].port]
  BY <1>1, LineParts DEF IInv
<1>3. PICK cut : cut = [fiber[f].cut EXCEPT ![i] = TRUE]
  OBVIOUS
<1>4. cut \in [Segments(fiber[f].points) -> BOOLEAN]
  BY <1>1, <1>2, <1>3
<1>5. PICK line : line = [points |-> fiber[f].points, cut |-> cut, port |-> fiber[f].port]
  OBVIOUS
<1>6. line = [fiber[f] EXCEPT !.cut = cut]
  BY <1>2, <1>5
<1>7. fiber' = [fiber EXCEPT ![f] = line]
  BY <1>3, <1>6 DEF CutFiber
<1> QED
  BY <1>1, <1>4, <1>5, <1>7, CutsOnly

\* So does the repair of all cuts.
LEMMA RestoreFiberStep ==
    ASSUME Setup, OneAtATime, IInv, NEW f \in Fiber, RestoreFiber(f),
           InTurn => \A r \in Request : request[r] = Idle
    PROVE  IInv' /\ Lit /\ CutsKept
<1>1. f \in DOMAIN fiber /\ UNCHANGED <<splitter, ponPorts, request>>
  BY DEF RestoreFiber
<1>2. /\ fiber[f].cut \in [Segments(fiber[f].points) -> BOOLEAN]
      /\ fiber[f] = [points |-> fiber[f].points, cut |-> fiber[f].cut, port |-> fiber[f].port]
  BY <1>1, LineParts DEF IInv
<1>3. PICK cut : cut = [i \in DOMAIN fiber[f].cut |-> FALSE]
  OBVIOUS
<1>4. cut \in [Segments(fiber[f].points) -> BOOLEAN]
  BY <1>2, <1>3
<1>5. PICK line : line = [points |-> fiber[f].points, cut |-> cut, port |-> fiber[f].port]
  OBVIOUS
<1>6. line = [fiber[f] EXCEPT !.cut = cut]
  BY <1>2, <1>5
<1>7. fiber' = [fiber EXCEPT ![f] = line]
  BY <1>3, <1>6 DEF RestoreFiber
<1> QED
  BY <1>1, <1>4, <1>5, <1>7, CutsOnly

\* The row of a splitter without what a deleted fibre was on.
Cleared(row, f) ==
    [row EXCEPT !.input = IF @ = f THEN None ELSE @,
                !.out = [n \in DOMAIN @ |-> IF @[n].toFiber = f THEN [@[n] EXCEPT !.toFiber = None] ELSE @[n]]]

\* Cleared takes f off the outputs, and nobody else.
LEMMA ClearedRow ==
    ASSUME Setup, NEW row \in Row, NEW f \in Fiber
    PROVE  /\ Cleared(row, f) \in Row /\ Cleared(row, f).closure = row.closure
           /\ DOMAIN Cleared(row, f).out = DOMAIN row.out
           /\ \A n \in DOMAIN row.out, g \in Fiber : Cleared(row, f).out[n].toFiber = g <=> g # f /\ row.out[n].toFiber = g
<1>1. PICK out : out = [n \in DOMAIN row.out |-> IF row.out[n].toFiber = f THEN [row.out[n] EXCEPT !.toFiber = None] ELSE row.out[n]]
  OBVIOUS
<1>2. PICK input : input = IF row.input = f THEN None ELSE row.input
  OBVIOUS
<1>3. /\ row.closure \in Closure \cup {None} /\ row.input \in Fiber \cup {None}
      /\ row = [closure |-> row.closure, input |-> row.input, out |-> row.out]
      /\ \E ratio \in Ratio : row.out \in [1 .. ratio -> Output]
  BY RowParts
<1>4. PICK ratio \in Ratio : row.out \in [1 .. ratio -> Output]
  BY <1>3
<1>5. ASSUME NEW n \in 1 .. ratio
      PROVE  /\ out[n] \in Output
             /\ \A g \in Fiber : out[n].toFiber = g <=> g # f /\ row.out[n].toFiber = g
  <2>1. row.out[n] \in Output
    BY <1>4
  <2>2. PICK o : o = [row.out[n] EXCEPT !.toFiber = None]
    OBVIOUS
  <2>3. o \in Output /\ o.toFiber = None
    BY <2>1, <2>2 DEF Output
  <2>4. out[n] = IF row.out[n].toFiber = f THEN o ELSE row.out[n]
    BY <1>1, <1>4, <2>2
  <2>5. None \notin Fiber
    BY DEF Setup
  <2> QED
    BY <2>1, <2>3, <2>4, <2>5
<1>6. out \in [1 .. ratio -> Output] /\ DOMAIN out = 1 .. ratio
  BY <1>1, <1>4, <1>5
<1>7. PICK new : new = [closure |-> row.closure, input |-> input, out |-> out]
  OBVIOUS
<1>8. new \in Row
  <2>1. input \in Fiber \cup {None}
    BY <1>2, <1>3
  <2>2. out \in UNION {[1 .. n -> Output] : n \in Ratio}
    BY <1>6
  <2> QED
    BY <1>3, <1>7, <2>1, <2>2 DEF Row
<1>9. Cleared(row, f) = new
  <2>1. Cleared(row, f) = [row EXCEPT !.input = input, !.out = out]
    BY <1>1, <1>2 DEF Cleared
  <2> QED
    BY <1>3, <1>7, <2>1
<1>10. new.out = out /\ new.closure = row.closure
  BY <1>7
<1> QED
  BY <1>4, <1>5, <1>6, <1>8, <1>9, <1>10

\* Splitters of no closure that only f's line passes feed nobody but f.
LEMMA DeleteFiberStep ==
    ASSUME Setup, OneAtATime, IInv, NEW f \in Fiber, DeleteFiber(f),
           InTurn => \A r \in Request : request[r] = Idle
    PROVE  IInv' /\ Lit /\ CutsKept
<1> DEFINE mine == {s \in DOMAIN splitter : splitter[s].closure = None /\ Visits(f, s)}
<1>1. /\ f \in DOMAIN fiber /\ \A s \in mine : OnPoints(s) = {f}
      /\ fiber' = [g \in DOMAIN fiber \ {f} |-> fiber[g]]
      /\ splitter' = [s \in DOMAIN splitter \ mine |-> Cleared(splitter[s], f)]
      /\ UNCHANGED <<ponPorts, request>>
  BY Zenon DEF DeleteFiber, Cleared
<1>2. PICK S \in SUBSET Splitter : splitter \in [S -> Row]
  BY DEF IInv, Rows
<1>3. PICK G \in SUBSET Fiber : fiber \in [G -> Line]
  BY DEF IInv, Lines
<1>4. /\ mine \subseteq S
      /\ \A s \in S : splitter[s].closure = None /\ Visits(f, s) => s \in mine
      /\ \A s \in mine : splitter[s].closure = None
  BY <1>2
<1> HIDE DEF mine
<1>5. DOMAIN splitter' = S \ mine /\ \A s \in S \ mine : splitter'[s] = Cleared(splitter[s], f)
  BY <1>1, <1>2
<1>6. ASSUME NEW s \in S
      PROVE  /\ Cleared(splitter[s], f) \in Row /\ Cleared(splitter[s], f).closure = splitter[s].closure
             /\ DOMAIN Cleared(splitter[s], f).out = DOMAIN splitter[s].out
             /\ \A n \in DOMAIN splitter[s].out, g \in Fiber :
                   Cleared(splitter[s], f).out[n].toFiber = g <=> g # f /\ splitter[s].out[n].toFiber = g
  BY <1>2, ClearedRow
<1>7. splitter' \in [S \ mine -> Row]
  BY <1>1, <1>2, <1>6
<1>8. fiber' \in [G \ {f} -> Line] /\ DOMAIN fiber' = G \ {f} /\ \A g \in G \ {f} : fiber'[g] = fiber[g]
  BY <1>1, <1>3
<1>9. ASSUME NEW g \in Fiber, NEW s, NEW n
      PROVE  Fed(splitter', g, s, n) <=> s \notin mine /\ g # f /\ Fed(splitter, g, s, n)
  BY <1>2, <1>5, <1>6 DEF Fed
<1>10. ASSUME NEW g \in Fiber \ {f}, NEW s \in mine, NEW n, Fed(splitter, g, s, n)
       PROVE  FALSE
  <2>1. g \in DOMAIN fiber /\ fiber[g].points[1] = Site(splitter, s)
    BY <1>10 DEF IInv, FedRight
  <2>2. Site(splitter, s) = s
    BY <1>4 DEF Site
  <2>3. Visits(g, s)
    BY <2>1, <2>2, LineParts DEF IInv
  <2>4. g \in OnPoints(s)
    BY <2>1, <2>3 DEF OnPoints
  <2> QED
    BY <1>1, <2>4
<1>11. ASSUME NEW g \in DOMAIN fiber'
       PROVE  /\ g \in DOMAIN fiber /\ SameFeed(splitter, splitter', g)
              /\ fiber'[g].points = fiber[g].points /\ fiber'[g].port = fiber[g].port
  <2>1. g \in Fiber \ {f} /\ g \in DOMAIN fiber /\ fiber'[g] = fiber[g]
    BY <1>3, <1>8
  <2>2. \A s, n : Fed(splitter', g, s, n) <=> Fed(splitter, g, s, n)
    BY <1>9, <1>10, <2>1
  <2> QED
    BY <2>1, <2>2 DEF SameFeed
<1>12. ASSUME NEW g \in Fiber, NEW s, NEW n, Fed(splitter', g, s, n)
       PROVE  Fed(splitter, g, s, n) /\ g \in DOMAIN fiber' /\ Site(splitter', s) = Site(splitter, s)
  <2>1. g # f /\ Fed(splitter, g, s, n)
    BY <1>9, <1>12
  <2>2. g \in DOMAIN fiber
    BY <2>1 DEF IInv, FedRight
  <2>3. s \in S \ mine
    BY <1>5, <1>12 DEF Fed
  <2>4. splitter'[s].closure = splitter[s].closure
    BY <1>5, <1>6, <2>3
  <2> QED
    BY <1>3, <1>8, <2>1, <2>2, <2>4, SiteKept
<1>13. Quiet
  BY <1>11, <1>12 DEF Quiet
<1>14. Rows(splitter') /\ Lines(fiber') /\ (ponPorts \in 0 .. MaxPort)'
  <2>1. S \ mine \in SUBSET Splitter /\ G \ {f} \in SUBSET Fiber
    OBVIOUS
  <2>2. Rows(splitter')
    BY <1>7, <2>1, Zenon DEF Rows
  <2>3. Lines(fiber')
    BY <1>8, <2>1, Zenon DEF Lines
  <2> QED
    BY <1>1, <2>2, <2>3 DEF IInv
<1>15. (DOMAIN request = Request)' /\ (\A r \in Request : ReadOK(r))'
  BY <1>1, NobodyAsks
<1> QED
  BY <1>13, <1>14, <1>15, QuietStep

-----------------------------------------------------------------------------
(* Closures and splitters.                                                 *)

\* Only the table of splitters changes.
LEMMA TableStep ==
    ASSUME Setup, OneAtATime, IInv, Rows(splitter)', UNCHANGED <<fiber, ponPorts>>,
           \/ \E r \in Request : Ends(r)
           \/ (InTurn => \A r \in Request : request[r] = Idle) /\ UNCHANGED request,
           \A f \in Fiber : SameFeed(splitter, splitter', f),
           \A s \in DOMAIN splitter \cap DOMAIN splitter' : splitter'[s].closure = splitter[s].closure
    PROVE  IInv' /\ Lit /\ CutsKept
<1>1. Lines(fiber') /\ DOMAIN fiber \subseteq Fiber /\ (ponPorts \in 0 .. MaxPort)'
  BY DEF IInv, Lines
<1>2. ASSUME NEW f \in Fiber, NEW s, NEW n, Fed(splitter', f, s, n)
      PROVE  Fed(splitter, f, s, n) /\ f \in DOMAIN fiber' /\ Site(splitter', s) = Site(splitter, s)
  <2>1. Fed(splitter, f, s, n)
    BY <1>2 DEF SameFeed
  <2>2. f \in DOMAIN fiber
    BY <2>1 DEF IInv, FedRight
  <2>3. s \in DOMAIN splitter \cap DOMAIN splitter'
    BY <1>2, <2>1 DEF Fed
  <2> QED
    BY <2>1, <2>2, <2>3, SiteKept
<1>3. Quiet
  BY <1>1, <1>2 DEF Quiet
<1> QED
  BY <1>1, <1>3, NobodyAsks, QuietStep

\* The splitters of a closure that no line passes feed nobody.
LEMMA DeleteClosureStep ==
    ASSUME Setup, OneAtATime, IInv, NEW c \in Closure, DeleteClosure(c),
           InTurn => \A r \in Request : request[r] = Idle
    PROVE  IInv' /\ Lit /\ CutsKept
<1> DEFINE kept == {s \in DOMAIN splitter : splitter[s].closure # c}
<1>1. /\ OnPoints(c) = {} /\ splitter' = [s \in kept |-> splitter[s]] /\ UNCHANGED <<fiber, ponPorts, request>>
  BY DEF DeleteClosure
<1>2. PICK S \in SUBSET Splitter : splitter \in [S -> Row]
  BY DEF IInv, Rows
<1>3. kept \subseteq S /\ \A s \in S \ kept : splitter[s].closure = c
  BY <1>2
<1> HIDE DEF kept
<1>4. splitter' \in [kept -> Row] /\ DOMAIN splitter' = kept /\ \A s \in kept : splitter'[s] = splitter[s]
  BY <1>1, <1>2, <1>3
<1>5. kept \in SUBSET Splitter
  BY <1>2, <1>3
<1>6. Rows(splitter')
  BY <1>4, <1>5, Zenon DEF Rows
<1>7. ASSUME NEW f \in Fiber, NEW s \in S \ kept, NEW n, Fed(splitter, f, s, n)
      PROVE  FALSE
  <2>1. f \in DOMAIN fiber /\ fiber[f].points[1] = Site(splitter, s)
    BY <1>7 DEF IInv, FedRight
  <2>2. Site(splitter, s) = c
    BY <1>3 DEF Site, Setup
  <2>3. Visits(f, c)
    BY <2>1, <2>2, LineParts DEF IInv
  <2>4. f \in OnPoints(c)
    BY <2>1, <2>3 DEF OnPoints
  <2> QED
    BY <1>1, <2>4
<1>8. ASSUME NEW f \in Fiber, NEW s, NEW n
      PROVE  Fed(splitter', f, s, n) <=> Fed(splitter, f, s, n)
  <2>1. CASE s \in kept
    BY <1>2, <1>3, <1>4, <2>1 DEF Fed
  <2>2. CASE s \in S \ kept
    BY <1>4, <1>7, <2>2 DEF Fed
  <2>3. CASE s \notin S
    BY <1>2, <1>3, <1>4, <2>3 DEF Fed
  <2> QED
    BY <2>1, <2>2, <2>3
<1>9. \A f \in Fiber : SameFeed(splitter, splitter', f)
  BY <1>8 DEF SameFeed
<1> QED
  BY <1>1, <1>4, <1>6, <1>9, TableStep

\* A new splitter feeds nobody.
LEMMA AddSplitterStep ==
    ASSUME Setup, OneAtATime, IInv, NEW s \in Splitter, NEW c \in Closure, NEW n \in Ratio, NEW named \in Fiber \cup {None},
           AddSplitter(s, c, n, named), InTurn => \A r \in Request : request[r] = Idle
    PROVE  IInv' /\ Lit /\ CutsKept
<1> DEFINE ending == {f \in DOMAIN fiber : Last(fiber[f].points) = c}
<1> DEFINE picked == IF named # None THEN named ELSE IF Cardinality(ending) = 1 THEN CHOOSE f \in ending : TRUE ELSE None
<1> HIDE DEF picked
<1>1. PICK input : input = picked
  OBVIOUS
<1>2. PICK out : out = [i \in 1 .. n |-> Unused]
  OBVIOUS
<1>3. PICK row : row = [closure |-> c, input |-> input, out |-> out]
  OBVIOUS
<1>4. /\ s \notin DOMAIN splitter
      /\ splitter' = [t \in DOMAIN splitter \cup {s} |-> IF t = s THEN row ELSE splitter[t]]
      /\ UNCHANGED <<fiber, ponPorts, request>>
  BY <1>1, <1>2, <1>3 DEF AddSplitter, picked
<1>5. input \in Fiber \cup {None}
  <2>1. ending \subseteq Fiber
    BY DEF IInv, Lines
  <2>2. Cardinality({}) = 0
    BY FS_EmptySet, Zenon
  <2> HIDE DEF ending
  <2>3. CASE named # None
    BY <1>1, <2>3 DEF picked
  <2>4. CASE named = None /\ ending = {}
    BY <1>1, <2>2, <2>4 DEF picked
  <2>5. CASE named = None /\ ending # {}
    BY <1>1, <2>1, <2>5 DEF picked
  <2> QED
    BY <2>3, <2>4, <2>5
<1>6. row \in Row /\ row.out = out /\ \A i \in DOMAIN out : out[i].toFiber = None
  <2>1. [closure |-> c, input |-> input, out |-> out] \in Row /\ \A i \in DOMAIN out : out[i].toFiber = None
    <3>1. out \in [1 .. n -> {Unused}]
      BY <1>2
    <3> QED
      BY <1>5, <3>1, NewRow
  <2> QED
    BY <1>3, <2>1
<1>7. PICK S \in SUBSET Splitter : splitter \in [S -> Row]
  BY DEF IInv, Rows
<1>8. /\ splitter' \in [S \cup {s} -> Row] /\ DOMAIN splitter' = S \cup {s} /\ splitter'[s] = row
      /\ \A t \in S : splitter'[t] = splitter[t]
  BY <1>4, <1>6, <1>7
<1>9. S \cup {s} \in SUBSET Splitter
  OBVIOUS
<1>10. Rows(splitter')
  BY <1>8, <1>9, Zenon DEF Rows
<1>11. \A f \in Fiber : SameFeed(splitter, splitter', f)
  BY <1>6, <1>7, <1>8, TableGrows
<1> QED
  BY <1>4, <1>7, <1>8, <1>10, <1>11, TableStep

\* Row s of the table replaced.
PutRow(all, s, row) == [all EXCEPT ![s] = row]

\* One row is replaced; its closure and the fibres on its outputs are the same.
LEMMA RowReplaced ==
    ASSUME Setup, OneAtATime, IInv, NEW s \in DOMAIN splitter, NEW row \in Row,
           splitter' = PutRow(splitter, s, row), row.closure = splitter[s].closure,
           \A f \in Fiber : \A n : (n \in DOMAIN row.out /\ row.out[n].toFiber = f)
                                       <=> (n \in DOMAIN splitter[s].out /\ splitter[s].out[n].toFiber = f),
           UNCHANGED <<fiber, ponPorts>>,
           \/ \E r \in Request : Ends(r)
           \/ (InTurn => \A r \in Request : request[r] = Idle) /\ UNCHANGED request
    PROVE  IInv' /\ Lit /\ CutsKept
<1>1. PICK S \in SUBSET Splitter : splitter \in [S -> Row]
  BY DEF IInv, Rows
<1>2. /\ splitter' \in [S -> Row] /\ DOMAIN splitter' = S /\ splitter'[s] = row
      /\ \A t \in S \ {s} : splitter'[t] = splitter[t]
  BY <1>1 DEF PutRow
<1>3. Rows(splitter')
  BY <1>2, Zenon DEF Rows
<1>4. ASSUME NEW f \in Fiber, NEW t, NEW n
      PROVE  Fed(splitter', f, t, n) <=> Fed(splitter, f, t, n)
  BY <1>1, <1>2 DEF Fed
<1>5. \A f \in Fiber : SameFeed(splitter, splitter', f)
  BY <1>4 DEF SameFeed
<1>6. \A t \in DOMAIN splitter \cap DOMAIN splitter' : splitter'[t].closure = splitter[t].closure
  BY <1>1, <1>2
<1> QED
  BY <1>3, <1>5, <1>6, TableStep

\* Outputs above the new ratio are unused.
LEMMA WriteRatioStep ==
    ASSUME Setup, OneAtATime, IInv, NEW r \in Request, WriteRatio(r)
    PROVE  IInv' /\ Lit /\ CutsKept
<1>1. PICK s, n : s = request[r].s /\ n = request[r].n
  OBVIOUS
<1>2. s \in DOMAIN splitter /\ n \in Ratio /\ MayReduce(s, n) /\ Ends(r) /\ UNCHANGED <<fiber, ponPorts>>
  BY <1>1 DEF WriteRatio, IInv, ReadOK
<1>3. PICK named \in Fiber \cup {None, Keep} :
          splitter' = IF s \in DOMAIN splitter /\ named \in DOMAIN fiber \cup {None, Keep}
                      THEN [splitter EXCEPT ![s].out = [i \in 1 .. n |-> IF i \in DOMAIN splitter[s].out THEN splitter[s].out[i] ELSE Unused],
                                            ![s].input = IF named = Keep THEN @ ELSE named]
                      ELSE splitter
  BY <1>1, Zenon DEF WriteRatio
<1>4. splitter[s] \in Row
  BY <1>2 DEF IInv, Rows
<1>5. /\ splitter[s].closure \in Closure \cup {None} /\ splitter[s].input \in Fiber \cup {None}
      /\ splitter[s] = [closure |-> splitter[s].closure, input |-> splitter[s].input, out |-> splitter[s].out]
      /\ \E ratio \in Ratio : splitter[s].out \in [1 .. ratio -> Output]
  BY <1>4, RowParts
<1>6. CASE named \notin DOMAIN fiber \cup {None, Keep}
  <2>1. splitter' = PutRow(splitter, s, splitter[s])
    <3>1. splitter' = splitter /\ \E S : splitter \in [S -> Row]
      BY <1>3, <1>6 DEF IInv, Rows
    <3> QED
      BY <3>1 DEF PutRow
  <2> QED
    BY <1>2, <1>4, <2>1, RowReplaced
<1>7. PICK input : input = IF named = Keep THEN splitter[s].input ELSE named
  OBVIOUS
<1>8. CASE named \in DOMAIN fiber \cup {None, Keep}
  <2>1. input \in Fiber \cup {None}
    BY <1>5, <1>7
  <2>2. PICK out : out = [i \in 1 .. n |-> IF i \in DOMAIN splitter[s].out THEN splitter[s].out[i] ELSE Unused]
    OBVIOUS
  <2>3. PICK row : row = [closure |-> splitter[s].closure, input |-> input, out |-> out]
    OBVIOUS
  <2>4. PICK ratio \in Ratio : splitter[s].out \in [1 .. ratio -> Output]
    BY <1>5
  <2>5. Unused \in Output /\ Unused.toFiber = None /\ None \notin Fiber
    BY DEF Unused, Output, Setup
  <2>6. out \in [1 .. n -> Output]
    BY <2>2, <2>4, <2>5
  <2>7. row \in Row /\ row.closure = splitter[s].closure /\ row.out = out
    <3>1. out \in UNION {[1 .. m -> Output] : m \in Ratio}
      BY <1>2, <2>6
    <3> QED
      BY <1>5, <2>1, <2>3, <3>1 DEF Row
  <2>8. splitter' = PutRow(splitter, s, row)
    <3>1. splitter' = [splitter EXCEPT ![s].out = out, ![s].input = IF named = Keep THEN @ ELSE named]
      BY <1>2, <1>3, <1>8, <2>2
    <3>2. PICK first : first = [splitter[s] EXCEPT !.out = out]
      OBVIOUS
    <3>3. first = [closure |-> splitter[s].closure, input |-> splitter[s].input, out |-> out]
      BY <1>5, <3>2
    <3>4. row = [first EXCEPT !.input = input]
      BY <2>3, <3>3
    <3>5. first.input = splitter[s].input
      BY <3>3
    <3> QED
      BY <1>2, <1>7, <3>1, <3>2, <3>4, <3>5 DEF PutRow
  <2>9. ASSUME NEW f \in Fiber, NEW i
        PROVE  (i \in DOMAIN out /\ out[i].toFiber = f)
                  <=> (i \in DOMAIN splitter[s].out /\ splitter[s].out[i].toFiber = f)
    <3>1. DOMAIN out = 1 .. n /\ \A k \in 1 .. n : out[k] = IF k \in DOMAIN splitter[s].out THEN splitter[s].out[k] ELSE Unused
      BY <2>2
    <3>2. CASE i \in 1 .. n
      BY <2>5, <3>1, <3>2
    <3>3. ASSUME i \notin 1 .. n, i \in DOMAIN splitter[s].out, splitter[s].out[i].toFiber = f
          PROVE  FALSE
      <4>1. splitter[s].out[i] # Unused
        BY <2>5, <3>3
      <4>2. i \in UsedOutputs(s)
        BY <3>3, <4>1 DEF UsedOutputs
      <4>3. i <= n /\ i \in 1 .. ratio /\ n \in Nat
        BY <1>2, <2>4, <3>3, <4>2 DEF MayReduce, Setup
      <4>4. i \in Nat /\ i >= 1
        BY <2>4, <4>3 DEF Setup
      <4> QED
        BY <3>3, <4>3, <4>4
    <3> QED
      BY <3>1, <3>2, <3>3
  <2> QED
    BY <1>2, <2>7, <2>8, <2>9, RowReplaced
<1> QED
  BY <1>6, <1>8

\* A splitter's input feeds nobody by itself.
LEMMA SetInputStep ==
    ASSUME Setup, OneAtATime, IInv, NEW s \in Splitter, NEW input \in Fiber \cup {None}, SetInput(s, input),
           InTurn => \A r \in Request : request[r] = Idle
    PROVE  IInv' /\ Lit /\ CutsKept
<1>1. s \in DOMAIN splitter /\ UNCHANGED <<fiber, ponPorts, request>> /\ splitter' = [splitter EXCEPT ![s].input = input]
  BY DEF SetInput
<1>2. splitter[s] \in Row
  BY <1>1 DEF IInv, Rows
<1>3. /\ splitter[s].closure \in Closure \cup {None}
      /\ splitter[s] = [closure |-> splitter[s].closure, input |-> splitter[s].input, out |-> splitter[s].out]
      /\ splitter[s].out \in UNION {[1 .. m -> Output] : m \in Ratio}
  BY <1>2, RowParts
<1>4. PICK row : row = [closure |-> splitter[s].closure, input |-> input, out |-> splitter[s].out]
  OBVIOUS
<1>5. row \in Row /\ row.closure = splitter[s].closure /\ row.out = splitter[s].out
  BY <1>3, <1>4 DEF Row
<1>6. splitter' = PutRow(splitter, s, row)
  <2>1. row = [splitter[s] EXCEPT !.input = input]
    BY <1>3, <1>4
  <2> QED
    BY <1>1, <2>1 DEF PutRow
<1> QED
  BY <1>1, <1>5, <1>6, RowReplaced

\* A splitter that is deleted feeds nobody.
LEMMA DeleteSplitterStep ==
    ASSUME Setup, OneAtATime, IInv, NEW s \in Splitter, DeleteSplitter(s),
           InTurn => \A r \in Request : request[r] = Idle
    PROVE  IInv' /\ Lit /\ CutsKept
<1>1. /\ s \in DOMAIN splitter /\ \A i \in DOMAIN splitter[s].out : splitter[s].out[i].toFiber = None
      /\ splitter' = [t \in DOMAIN splitter \ {s} |-> splitter[t]]
      /\ UNCHANGED <<fiber, ponPorts, request>>
  BY DEF DeleteSplitter
<1>2. PICK S \in SUBSET Splitter : splitter \in [S -> Row]
  BY DEF IInv, Rows
<1>3. splitter' \in [S \ {s} -> Row] /\ DOMAIN splitter' = S \ {s} /\ \A t \in S \ {s} : splitter'[t] = splitter[t]
  BY <1>1, <1>2
<1>4. S \ {s} \in SUBSET Splitter
  OBVIOUS
<1>5. Rows(splitter')
  BY <1>3, <1>4, Zenon DEF Rows
<1>6. ASSUME NEW f \in Fiber, NEW t, NEW n
      PROVE  Fed(splitter', f, t, n) <=> Fed(splitter, f, t, n)
  <2>1. f # None
    BY DEF Setup
  <2> QED
    BY <1>1, <1>2, <1>3, <2>1 DEF Fed
<1>7. \A f \in Fiber : SameFeed(splitter, splitter', f)
  BY <1>6 DEF SameFeed
<1>8. \A t \in DOMAIN splitter \cap DOMAIN splitter' : splitter'[t].closure = splitter[t].closure
  BY <1>3
<1> QED
  BY <1>1, <1>5, <1>7, <1>8, TableStep

\* The building of an output is not its fibre.
LEMMA SetOutputStep ==
    ASSUME Setup, OneAtATime, IInv, NEW s \in Splitter, NEW i, NEW b \in BOOLEAN, SetOutput(s, i, b),
           InTurn => \A r \in Request : request[r] = Idle
    PROVE  IInv' /\ Lit /\ CutsKept
<1>1. s \in DOMAIN splitter /\ i \in DOMAIN splitter[s].out /\ UNCHANGED <<fiber, ponPorts, request>>
  BY DEF SetOutput
<1>2. splitter[s] \in Row
  BY <1>1 DEF IInv, Rows
<1>3. /\ splitter[s].closure \in Closure \cup {None} /\ splitter[s].input \in Fiber \cup {None}
      /\ splitter[s] = [closure |-> splitter[s].closure, input |-> splitter[s].input, out |-> splitter[s].out]
      /\ \E ratio \in Ratio : splitter[s].out \in [1 .. ratio -> Output]
  BY <1>2, RowParts
<1>4. PICK ratio \in Ratio : splitter[s].out \in [1 .. ratio -> Output]
  BY <1>3
<1>5. PICK o : o = [splitter[s].out[i] EXCEPT !.toBuilding = b]
  OBVIOUS
<1>6. o \in Output /\ o.toFiber = splitter[s].out[i].toFiber
  <2>1. splitter[s].out[i] \in Output
    BY <1>1, <1>4
  <2> QED
    BY <1>5, <2>1 DEF Output
<1>7. PICK out : out = [splitter[s].out EXCEPT ![i] = o]
  OBVIOUS
<1>8. /\ out \in [1 .. ratio -> Output] /\ DOMAIN out = DOMAIN splitter[s].out
      /\ \A n \in DOMAIN out : out[n].toFiber = splitter[s].out[n].toFiber
  BY <1>1, <1>4, <1>6, <1>7
<1>9. PICK row : row = [closure |-> splitter[s].closure, input |-> splitter[s].input, out |-> out]
  OBVIOUS
<1>10. row \in Row /\ row.closure = splitter[s].closure /\ row.out = out
  <2>1. out \in UNION {[1 .. m -> Output] : m \in Ratio}
    BY <1>8
  <2> QED
    BY <1>3, <1>9, <2>1 DEF Row
<1>11. splitter' = PutRow(splitter, s, row)
  <2>1. splitter' = [splitter EXCEPT ![s].out[i].toBuilding = b]
    BY DEF SetOutput
  <2>2. row = [splitter[s] EXCEPT !.out = out]
    BY <1>3, <1>9
  <2> QED
    BY <1>5, <1>7, <2>1, <2>2 DEF PutRow
<1>12. \A f \in Fiber : \A n : (n \in DOMAIN row.out /\ row.out[n].toFiber = f)
                                   <=> (n \in DOMAIN splitter[s].out /\ splitter[s].out[n].toFiber = f)
  BY <1>8, <1>10
<1> QED
  BY <1>1, <1>10, <1>11, <1>12, RowReplaced

\* The ports of the OLT concern no feed.
LEMMA PortsStep ==
    ASSUME Setup, OneAtATime, IInv, NEW n \in 0 .. MaxPort, UpdateOlt(n) \/ SyncOlts(n),
           InTurn => \A r \in Request : request[r] = Idle
    PROVE  IInv' /\ Lit /\ CutsKept
<1>1. ponPorts' = n /\ UNCHANGED <<fiber, splitter, request>>
  BY DEF UpdateOlt, SyncOlts
<1>2. Quiet /\ Rows(splitter)' /\ Lines(fiber)'
  BY <1>1, NothingRewired
<1>3. (DOMAIN request = Request)' /\ (\A r \in Request : ReadOK(r))'
  BY <1>1, NobodyAsks
<1> QED
  BY <1>1, <1>2, <1>3, QuietStep

-----------------------------------------------------------------------------
(* The writes that rewire a fibre.                                         *)

\* f has the feed asked for, or none, and all others have theirs.
Refed(all, new, f, feed) ==
    /\ \A g \in Fiber \ {f} : SameFeed(all, new, g)
    /\ \A s, n : Fed(new, f, s, n) <=> feed # None /\ feed = <<s, n>>
    /\ \A s \in DOMAIN all : Site(new, s) = Site(all, s)

\* A fed f starts at its feed, off the ports; other lines start where they did.
Redrawn(rows, after, new, f, feed) ==
    /\ \A g \in DOMAIN rows \ {f} : g \in DOMAIN after /\ after[g].port = rows[g].port /\ after[g].points[1] = rows[g].points[1]
    /\ feed # None => f \in DOMAIN after /\ after[f].port = None /\ after[f].points[1] = Site(new, feed[1])

\* After such a write each fibre is fed once and where it starts.
LEMMA Rewired ==
    ASSUME Setup, NEW all, NEW new, NEW rows, NEW after, FedOnce(all), FedRight(all, rows), NEW f \in Fiber, NEW feed,
           Refed(all, new, f, feed), Redrawn(rows, after, new, f, feed)
    PROVE  FedOnce(new) /\ FedRight(new, after)
<1> USE DEF Refed, Redrawn
<1>1. ASSUME NEW g \in Fiber, NEW s, NEW t, NEW m, NEW n, Fed(new, g, s, m), Fed(new, g, t, n)
      PROVE  s = t /\ m = n
  <2>1. CASE g = f
    <3>1. <<s, m>> = <<t, n>>
      BY <1>1, <2>1
    <3> QED
      BY <3>1
  <2>2. CASE g # f
    <3>1. Fed(all, g, s, m) /\ Fed(all, g, t, n)
      BY <1>1, <2>2 DEF SameFeed
    <3> QED
      BY <3>1 DEF FedOnce
  <2> QED
    BY <2>1, <2>2
<1>2. ASSUME NEW g \in Fiber, NEW s, NEW n, Fed(new, g, s, n)
      PROVE  g \in DOMAIN after /\ after[g].port = None /\ after[g].points[1] = Site(new, s)
  <2>1. CASE g = f
    <3>1. feed # None /\ feed = <<s, n>>
      BY <1>2, <2>1
    <3>2. feed[1] = s
      BY <3>1
    <3> QED
      BY <2>1, <3>1, <3>2
  <2>2. CASE g # f
    <3>1. Fed(all, g, s, n)
      BY <1>2, <2>2 DEF SameFeed
    <3>2. g \in DOMAIN rows /\ rows[g].port = None /\ rows[g].points[1] = Site(all, s) /\ s \in DOMAIN all
      BY <3>1 DEF FedRight, Fed
    <3> QED
      BY <2>2, <3>2
  <2> QED
    BY <2>1, <2>2
<1>3. FedOnce(new)
  BY <1>1 DEF FedOnce
<1>4. FedRight(new, after)
  BY <1>2 DEF FedRight
<1> QED
  BY <1>3, <1>4

\* Tables that feed alike feed everyone once alike.
LEMMA SameFeedsStayOnce ==
    ASSUME NEW all, NEW new, FedOnce(all), \A f \in Fiber : SameFeed(all, new, f)
    PROVE  FedOnce(new)
  BY DEF FedOnce, SameFeed

\* What a write needs to have shown of f, whose feed it sets.
LEMMA WriteStep ==
    ASSUME Setup, OneAtATime, IInv, NEW r \in Request, Ends(r), UNCHANGED ponPorts, Rows(splitter)', Lines(fiber)',
           FedOnce(splitter'), FedRight(splitter', fiber'),
           NEW f \in Fiber, \A g \in Fiber \ {f} : SameFeed(splitter, splitter', g),
           \/ f \notin DOMAIN fiber \/ SameFeed(splitter, splitter', f)
           \/ At(r, "update") /\ request[r].f = f /\ request[r].data.feed # Keep,
           \A g \in (DOMAIN fiber \cap DOMAIN fiber') \ {f} : fiber'[g].points = fiber[g].points,
           f \in DOMAIN fiber => CutKept(fiber[f], fiber'[f])
    PROVE  IInv' /\ Lit /\ CutsKept
<1>1. (DOMAIN request = Request)' /\ (\A q \in Request : ReadOK(q))'
  BY NobodyAsks
<1>2. IInv'
  BY <1>1 DEF IInv
<1>3. Rows(splitter) /\ FedOnce(splitter) /\ DOMAIN fiber \subseteq Fiber
  BY DEF IInv, Lines
<1>4. ASSUME NEW g \in DOMAIN fiber, SameFeed(splitter, splitter', g)
      PROVE  FedBy(g)' = FedBy(g)
  <2>1. FeedIn(splitter', g) = FeedIn(splitter, g)
    BY <1>3, <1>4, SameFeedReadsSame
  <2> QED
    BY <2>1, FedByIsFeedIn
<1>5. Lit
  BY <1>3, <1>4 DEF Lit
<1>6. CutsKept
  BY DEF CutsKept, CutKept
<1> QED
  BY <1>2, <1>5, <1>6

\* What createFiber writes when its rules hold.
Created(f, d, all) ==
    /\ f \notin DOMAIN fiber /\ SplitterRules(f, all, d.points, d.feed)
    /\ fiber' = [g \in DOMAIN fiber \cup {f} |->
                    IF g = f THEN [points |-> d.points, cut |-> [i \in Segments(d.points) |-> FALSE], port |-> d.port]
                    ELSE fiber[g]]
    /\ splitter' = InputClaimed(Claimed(all, f, d.feed), f, d.points)

\* A new line is fed by nobody, or by the free output it asks for.
LEMMA CreatedStep ==
    ASSUME Setup, OneAtATime, IInv, NEW r \in Request, Ends(r), UNCHANGED ponPorts,
           NEW f \in Fiber, NEW d \in Asks, Keep \notin {d.points, d.port, d.feed}, None \in {d.port, d.feed},
           NEW ratio \in Ratio, Created(f, d, Drawn(f, d.points, ratio))
    PROVE  IInv' /\ Lit /\ CutsKept
<1>1. d.points \in Shape /\ d.port \in (1 .. MaxPort) \cup {None} /\ d.feed \in (Splitter \X Nat) \cup {None}
  BY DEF Setup
<1>2. PICK all : all = Drawn(f, d.points, ratio)
  OBVIOUS
<1>3. Rows(splitter) /\ FedOnce(splitter) /\ FedRight(splitter, fiber)
  BY DEF IInv
<1>4. /\ Rows(all) /\ DOMAIN splitter \subseteq DOMAIN all /\ \A s \in DOMAIN splitter : all[s] = splitter[s]
      /\ \A s \in DOMAIN all \ DOMAIN splitter : \A n \in DOMAIN all[s].out : all[s].out[n].toFiber = None
  BY <1>2, <1>3, DrawnFeeds
<1>5. /\ \A g \in Fiber : SameFeed(splitter, all, g)
      /\ \A s \in DOMAIN splitter : Site(all, s) = Site(splitter, s)
  BY <1>4, TableGrows
<1>6. f \notin DOMAIN fiber /\ SplitterRules(f, all, d.points, d.feed)
  BY <1>2 DEF Created
<1>7. splitter' = InputClaimed(Claimed(all, f, d.feed), f, d.points)
  BY <1>2, Zenon DEF Created
<1>8. \/ d.feed = None
      \/ /\ d.feed \in Splitter \X Nat
         /\ d.feed[1] \in DOMAIN all /\ d.feed[2] \in DOMAIN all[d.feed[1]].out
         /\ all[d.feed[1]].out[d.feed[2]].toFiber \in {None, f}
  BY <1>1, <1>6 DEF SplitterRules
<1>9. d.feed # None => d.feed[1] \in DOMAIN all /\ d.points[1] = Site(all, d.feed[1])
  BY <1>6 DEF SplitterRules, Site
<1>10. /\ Rows(splitter') /\ DOMAIN splitter' = DOMAIN all
       /\ \A s \in DOMAIN all : Site(splitter', s) = Site(all, s)
       /\ \A g \in Fiber \ {f} : SameFeed(all, splitter', g)
       /\ \A s, n : Fed(splitter', f, s, n) <=> (Fed(all, f, s, n) \/ (d.feed # None /\ d.feed = <<s, n>>))
  BY <1>4, <1>7, <1>8, ClaimedFeeds
<1>11. \A s, n : ~ Fed(all, f, s, n)
  BY <1>3, <1>5, <1>6 DEF FedRight, SameFeed
<1>12. PICK cut : cut = [i \in Segments(d.points) |-> FALSE]
  OBVIOUS
<1>13. PICK line : line = [points |-> d.points, cut |-> cut, port |-> d.port]
  OBVIOUS
<1>14. line \in Line /\ line.points = d.points /\ line.port = d.port
  <2>1. cut \in [Segments(d.points) -> BOOLEAN]
    BY <1>12
  <2>2. [points |-> d.points, cut |-> cut, port |-> d.port] \in Line
    BY <1>1, <2>1, LineOfParts
  <2> QED
    BY <1>13, <2>2
<1>15. fiber' = [g \in DOMAIN fiber \cup {f} |-> IF g = f THEN line ELSE fiber[g]]
  BY <1>12, <1>13 DEF Created
<1>16. PICK G \in SUBSET Fiber : fiber \in [G -> Line]
  BY DEF IInv, Lines
<1>17. /\ fiber' \in [G \cup {f} -> Line] /\ DOMAIN fiber' = G \cup {f} /\ fiber'[f] = line
       /\ \A g \in G : g # f => fiber'[g] = fiber[g]
  BY <1>14, <1>15, <1>16
<1>18. Lines(fiber')
  <2>1. G \cup {f} \in SUBSET Fiber
    OBVIOUS
  <2> QED
    BY <1>17, <2>1, Zenon DEF Lines
<1>19. \A g \in Fiber \ {f} : SameFeed(splitter, splitter', g)
  BY <1>5, <1>10 DEF SameFeed
<1>20. \A s, n : Fed(splitter', f, s, n) <=> d.feed # None /\ d.feed = <<s, n>>
  BY <1>10, <1>11
<1>21. \A s \in DOMAIN splitter : Site(splitter', s) = Site(splitter, s)
  BY <1>4, <1>5, <1>10
<1>22. \A g \in DOMAIN fiber \ {f} :
          g \in DOMAIN fiber' /\ fiber'[g].port = fiber[g].port /\ fiber'[g].points[1] = fiber[g].points[1]
  BY <1>16, <1>17
<1>23. d.feed # None => f \in DOMAIN fiber' /\ fiber'[f].port = None /\ fiber'[f].points[1] = Site(splitter', d.feed[1])
  BY <1>9, <1>10, <1>14, <1>17
<1>24. Refed(splitter, splitter', f, d.feed)
  BY <1>19, <1>20, <1>21 DEF Refed
<1>25. Redrawn(fiber, fiber', splitter', f, d.feed)
  BY <1>22, <1>23 DEF Redrawn
<1>26. FedOnce(splitter') /\ FedRight(splitter', fiber')
  BY <1>3, <1>24, <1>25, Rewired
<1> QED
  BY <1>6, <1>10, <1>16, <1>17, <1>18, <1>19, <1>26, WriteStep

\* A write that is refused changes nothing.
LEMMA RefusedStep ==
    ASSUME Setup, OneAtATime, IInv, NEW r \in Request, Ends(r), UNCHANGED <<fiber, splitter, ponPorts>>
    PROVE  IInv' /\ Lit /\ CutsKept
<1>1. Quiet /\ Rows(splitter)' /\ Lines(fiber)'
  BY NothingRewired
<1>2. (DOMAIN request = Request)' /\ (\A q \in Request : ReadOK(q))'
  BY NobodyAsks
<1>3. (ponPorts \in 0 .. MaxPort)'
  BY DEF IInv
<1> QED
  BY <1>1, <1>2, <1>3, QuietStep

\* createFiber's transaction.
LEMMA WriteCreateStep ==
    ASSUME Setup, OneAtATime, IInv, NEW r \in Request, WriteCreate(r)
    PROVE  IInv' /\ Lit /\ CutsKept
<1> DEFINE f == request[r].f
           d == request[r].data
<1>1. /\ At(r, "create") /\ Ends(r) /\ UNCHANGED ponPorts
      /\ UNCHANGED <<fiber, splitter>> \/ \E ratio \in Ratio : Created(f, d, Drawn(f, d.points, ratio))
  BY Zenon DEF WriteCreate, Created
<1>2. f \in Fiber /\ d \in Asks /\ Keep \notin {d.points, d.port, d.feed} /\ None \in {d.port, d.feed}
  BY <1>1 DEF IInv, ReadOK
<1> HIDE DEF f, d
<1>3. CASE UNCHANGED <<fiber, splitter>>
  BY <1>1, <1>3, RefusedStep
<1>4. CASE \E ratio \in Ratio : Created(f, d, Drawn(f, d.points, ratio))
  BY <1>1, <1>2, <1>4, CreatedStep
<1> QED
  BY <1>1, <1>3, <1>4

\* A redraw carries each cut to the segment between the same two points.
LEMMA CarryKeepsCuts ==
    ASSUME NEW old, NEW was, NEW is, was.points \in Seq(Closure \cup Splitter \cup Building), is.points \in Seq(Closure \cup Splitter \cup Building),
           was.cut \in [Segments(was.points) -> BOOLEAN], old.points = was.points, old.cut = was.cut,
           is.cut = Carry(old, is.points)
    PROVE  CutKept(was, is)
<1>1. SUFFICES ASSUME NEW i \in DOMAIN was.cut, NEW j \in DOMAIN is.cut, Pair(was, i) = Pair(is, j),
                      \A k \in DOMAIN was.cut \ {i} : Pair(was, k) # Pair(was, i)
               PROVE  is.cut[j] = was.cut[i]
  BY Zenon DEF CutKept
<1> DEFINE alike == {k \in Segments(old.points) : old.points[k] = is.points[j] /\ old.points[k + 1] = is.points[j + 1]}
<1>2. DOMAIN was.cut = Segments(was.points) /\ was.cut[i] \in BOOLEAN
  OBVIOUS
<1>3. is.cut[j] = (alike # {} /\ old.cut[Max(alike)])
  <2>1. j \in Segments(is.points)
    BY DEF Carry
  <2> QED
    BY <2>1, Zenon DEF Carry
<1>4. \A k \in Segments(was.points) :
         Pair(was, k) = Pair(was, i) <=> was.points[k] = is.points[j] /\ was.points[k + 1] = is.points[j + 1]
  <2>1. Pair(was, i) = <<is.points[j], is.points[j + 1]>>
    BY <1>1 DEF Pair
  <2> QED
    BY <2>1 DEF Pair
<1>5. alike = {i}
  BY <1>1, <1>2, <1>4
<1> HIDE DEF alike
<1>6. i \in Nat
  BY <1>2 DEF Segments
<1>7. Max(alike) = i
  <2>1. \E x \in alike : \A y \in alike : x >= y
    BY <1>5, <1>6
  <2>2. Max(alike) \in alike
    BY <2>1, Zenon DEF Max
  <2> QED
    BY <1>5, <2>2
<1>8. old.cut[Max(alike)] = was.cut[i]
  BY <1>7
<1> QED
  BY <1>2, <1>3, <1>5, <1>8, Zenon

\* carryForward answers a flag for each segment.
LEMMA CarryType ==
    ASSUME NEW old, NEW points
    PROVE  Carry(old, points) \in [Segments(points) -> BOOLEAN]
<1> DEFINE Alike(i) == {j \in Segments(old.points) : old.points[j] = points[i] /\ old.points[j + 1] = points[i + 1]}
<1>1. Carry(old, points) = [i \in Segments(points) |-> Alike(i) # {} /\ old.cut[Max(Alike(i))]]
  BY Zenon DEF Carry
<1> HIDE DEF Alike
<1> QED
  BY <1>1

\* The feed that an update leaves the splitters with, before it claims another.
GivesBack(d, old) == d.feed # Keep /\ old.feed # None /\ d.feed # old.feed
After(d, old) == IF GivesBack(d, old) THEN Released(splitter, old.feed) ELSE splitter
Left(d, old) == IF GivesBack(d, old) THEN None ELSE old.feed
Port(d, f) == IF d.port = Keep THEN fiber[f].port ELSE d.port

\* After the old feed is given back, f has the feed that is left.
LEMMA AfterFeeds ==
    ASSUME Setup, IInv, NEW f \in DOMAIN fiber, NEW d, NEW old, old.feed = FedBy(f)
    PROVE  /\ Rows(After(d, old)) /\ DOMAIN After(d, old) = DOMAIN splitter
           /\ Refed(splitter, After(d, old), f, Left(d, old))
<1>1. Rows(splitter) /\ FedOnce(splitter) /\ f \in Fiber /\ old.feed = FeedIn(splitter, f)
  BY FedByIsFeedIn DEF IInv, Lines
<1>2. CASE GivesBack(d, old)
  <2>1. PICK new : new = Released(splitter, old.feed)
    OBVIOUS
  <2>2. /\ Rows(new) /\ DOMAIN new = DOMAIN splitter
        /\ \A s \in DOMAIN splitter : Site(new, s) = Site(splitter, s)
        /\ \A g \in Fiber \ {f} : SameFeed(splitter, new, g)
        /\ \A s, n : ~ Fed(new, f, s, n)
    BY <1>1, <2>1, ReleasedFeeds
  <2>3. After(d, old) = new /\ Left(d, old) = None
    BY <1>2, <2>1 DEF After, Left
  <2> QED
    BY <2>2, <2>3 DEF Refed
<1>3. CASE ~ GivesBack(d, old)
  <2>1. After(d, old) = splitter /\ Left(d, old) = old.feed
    BY <1>3 DEF After, Left
  <2>2. /\ \A s, n : Fed(splitter, f, s, n) => old.feed = <<s, n>>
        /\ \/ old.feed = None /\ \A s, n : ~ Fed(splitter, f, s, n)
           \/ \E s \in Splitter, n \in Nat : old.feed = <<s, n>> /\ Fed(splitter, f, s, n)
    BY <1>1, FeedInIsFeed
  <2>3. \A s, n : Fed(splitter, f, s, n) <=> old.feed # None /\ old.feed = <<s, n>>
    <3>1. CASE old.feed = None /\ \A s, n : ~ Fed(splitter, f, s, n)
      BY <3>1
    <3>2. ASSUME NEW s \in Splitter, NEW n \in Nat, old.feed = <<s, n>>, Fed(splitter, f, s, n)
          PROVE  \A t, m : Fed(splitter, f, t, m) <=> old.feed # None /\ old.feed = <<t, m>>
      <4>1. old.feed # None
        BY <3>2 DEF Setup
      <4>2. ASSUME NEW t, NEW m, old.feed = <<t, m>>
            PROVE  t = s /\ m = n
        BY <3>2, <4>2
      <4> QED
        BY <2>2, <3>2, <4>1, <4>2
    <3> QED
      BY <2>2, <3>1, <3>2
  <2> QED
    BY <1>1, <2>1, <2>3 DEF Refed, SameFeed
<1> QED
  BY <1>2, <1>3

\* What updateFiber writes without points.
Settled(f, d, old) ==
    /\ d.points = Keep /\ splitter' = After(d, old)
    /\ fiber' = [fiber EXCEPT ![f].port = Port(d, f)]

\* The table with the splitters on the line, of which those in all are as there.
Patched(drawn, all) == [s \in DOMAIN drawn |-> IF s \in DOMAIN all THEN all[s] ELSE drawn[s]]

\* Splitters drawn onto the line are added to the table.
LEMMA PatchedTable ==
    ASSUME NEW base, NEW all, Rows(base), Rows(all), DOMAIN all \subseteq DOMAIN base,
           \A s \in DOMAIN base \ DOMAIN all : \A n \in DOMAIN base[s].out : base[s].out[n].toFiber = None,
           NEW drawn, drawn = Patched(base, all)
    PROVE  /\ Rows(drawn) /\ DOMAIN all \subseteq DOMAIN drawn /\ \A s \in DOMAIN all : drawn[s] = all[s]
           /\ \A s \in DOMAIN drawn \ DOMAIN all : \A n \in DOMAIN drawn[s].out : drawn[s].out[n].toFiber = None
<1>1. PICK S \in SUBSET Splitter : base \in [S -> Row]
  BY DEF Rows
<1>2. PICK T \in SUBSET Splitter : all \in [T -> Row]
  BY DEF Rows
<1>3. drawn \in [S -> Row] /\ \A s \in S : drawn[s] = IF s \in T THEN all[s] ELSE base[s]
  BY <1>1, <1>2 DEF Patched
<1>4. Rows(drawn)
  BY <1>3, Zenon DEF Rows
<1> QED
  BY <1>1, <1>2, <1>3, <1>4

\* What updateFiber writes with points.
RedrawnTo(f, d, old, drawn) ==
    /\ d.points # Keep /\ SplitterRules(f, drawn, d.points, MergedFeed(d.feed, old))
    /\ fiber' = [fiber EXCEPT ![f].points = d.points, ![f].cut = Carry(old, d.points), ![f].port = Port(d, f)]
    /\ splitter' = InputClaimed(Claimed(drawn, f, IF d.feed = Keep THEN None ELSE d.feed), f, d.points)

\* An update without points: the feed that is not asked for any more is given back.
LEMMA SettledStep ==
    ASSUME Setup, OneAtATime, IInv, NEW r \in Request, Ends(r), UNCHANGED ponPorts, At(r, "update"),
           NEW f \in DOMAIN fiber, f = request[r].f, NEW d \in Asks, d = request[r].data,
           NEW old, old.feed = FedBy(f), MergedFeed(d.feed, old) = None \/ Port(d, f) = None, Settled(f, d, old)
    PROVE  IInv' /\ Lit /\ CutsKept
<1>1. PICK G \in SUBSET Fiber : fiber \in [G -> Line]
  BY DEF IInv, Lines
<1>2. f \in G /\ f \in Fiber /\ FedOnce(splitter) /\ FedRight(splitter, fiber)
  BY <1>1 DEF IInv
<1>3. /\ Rows(splitter') /\ Refed(splitter, splitter', f, Left(d, old))
  BY AfterFeeds DEF Settled
<1>4. /\ fiber[f].points \in Shape /\ fiber[f].port \in (1 .. MaxPort) \cup {None}
      /\ fiber[f].cut \in [Segments(fiber[f].points) -> BOOLEAN]
      /\ fiber[f] = [points |-> fiber[f].points, cut |-> fiber[f].cut, port |-> fiber[f].port]
  BY LineParts DEF IInv
<1>5. PICK port : port = Port(d, f)
  OBVIOUS
<1>6. port \in (1 .. MaxPort) \cup {None}
  BY <1>4, <1>5 DEF Port, Setup
<1>7. PICK line : line = [points |-> fiber[f].points, cut |-> fiber[f].cut, port |-> port]
  OBVIOUS
<1>8. line \in Line /\ line.points = fiber[f].points /\ line.port = port
  BY <1>4, <1>6, <1>7, LineOfParts
<1>9. fiber' = [fiber EXCEPT ![f] = line]
  <2>1. fiber' = [fiber EXCEPT ![f].port = port]
    BY <1>5 DEF Settled
  <2>2. line = [fiber[f] EXCEPT !.port = port]
    BY <1>4, <1>7
  <2> QED
    BY <2>1, <2>2
<1>10. /\ fiber' \in [G -> Line] /\ DOMAIN fiber' = G /\ fiber'[f] = line
       /\ \A g \in G : g # f => fiber'[g] = fiber[g]
  BY <1>1, <1>2, <1>8, <1>9
<1>11. Lines(fiber')
  BY <1>10, Zenon DEF Lines
<1>12. ASSUME Left(d, old) # None
       PROVE  port = None /\ fiber[f].points[1] = Site(splitter', Left(d, old)[1])
  <2>1. Left(d, old) = old.feed /\ ~ GivesBack(d, old)
    BY <1>12 DEF Left
  <2>2. MergedFeed(d.feed, old) = old.feed
    BY <1>12, <2>1 DEF GivesBack, MergedFeed
  <2>3. port = None
    BY <1>5, <1>12, <2>1, <2>2
  <2>4. Rows(splitter) /\ old.feed = FeedIn(splitter, f)
    BY FedByIsFeedIn DEF IInv
  <2>5. PICK s \in Splitter, n \in Nat : old.feed = <<s, n>> /\ Fed(splitter, f, s, n)
    BY <1>2, <1>12, <2>1, <2>4, FeedInIsFeed
  <2>6. old.feed[1] = s /\ s \in DOMAIN splitter
    BY <2>5 DEF Fed
  <2>7. fiber[f].points[1] = Site(splitter, s)
    BY <1>2, <2>5 DEF FedRight
  <2>8. Site(splitter', s) = Site(splitter, s)
    BY <1>3, <2>6 DEF Refed
  <2> QED
    BY <2>1, <2>3, <2>6, <2>7, <2>8
<1>13. Redrawn(fiber, fiber', splitter', f, Left(d, old))
  BY <1>1, <1>2, <1>8, <1>10, <1>12 DEF Redrawn
<1>14. FedOnce(splitter') /\ FedRight(splitter', fiber')
  BY <1>2, <1>3, <1>13, Rewired
<1>15. SameFeed(splitter, splitter', f) \/ d.feed # Keep
  <2>1. SUFFICES ASSUME d.feed = Keep PROVE SameFeed(splitter, splitter', f)
    OBVIOUS
  <2>2. splitter' = splitter
    BY <2>1 DEF Settled, After, GivesBack
  <2> QED
    BY <2>2 DEF SameFeed
<1>16. \A g \in Fiber \ {f} : SameFeed(splitter, splitter', g)
  BY <1>3 DEF Refed
<1>17. CutKept(fiber[f], fiber'[f])
  BY <1>8, <1>10 DEF CutKept
<1>18. \A g \in (DOMAIN fiber \cap DOMAIN fiber') \ {f} : fiber'[g].points = fiber[g].points
  BY <1>1, <1>10
<1> QED
  BY <1>2, <1>3, <1>11, <1>14, <1>15, <1>16, <1>17, <1>18, WriteStep

\* An update with points: the line is fed as it asks, or as it was.
LEMMA RedrawnStep ==
    ASSUME Setup, OneAtATime, IInv, NEW r \in Request, Ends(r), UNCHANGED ponPorts, At(r, "update"),
           NEW f \in DOMAIN fiber, f = request[r].f, NEW d \in Asks, d = request[r].data,
           NEW old, old.feed = FedBy(f), old.points = fiber[f].points, old.cut = fiber[f].cut,
           MergedFeed(d.feed, old) = None \/ Port(d, f) = None,
           NEW ratio \in Ratio, RedrawnTo(f, d, old, Patched(Drawn(f, d.points, ratio), After(d, old)))
    PROVE  IInv' /\ Lit /\ CutsKept
<1>1. PICK G \in SUBSET Fiber : fiber \in [G -> Line]
  BY DEF IInv, Lines
<1>2. f \in G /\ f \in Fiber /\ FedOnce(splitter) /\ FedRight(splitter, fiber) /\ Rows(splitter)
  BY <1>1 DEF IInv
<1>3. PICK all : all = After(d, old)
  OBVIOUS
<1>4. PICK left : left = Left(d, old)
  OBVIOUS
<1>5. Rows(all) /\ DOMAIN all = DOMAIN splitter /\ Refed(splitter, all, f, left)
  BY <1>3, <1>4, AfterFeeds
<1>6. PICK base : base = Drawn(f, d.points, ratio)
  OBVIOUS
<1>7. /\ Rows(base) /\ DOMAIN splitter \subseteq DOMAIN base
      /\ \A s \in DOMAIN base \ DOMAIN splitter : \A n \in DOMAIN base[s].out : base[s].out[n].toFiber = None
  BY <1>2, <1>6, DrawnFeeds
<1>8. PICK drawn : drawn = Patched(base, all)
  OBVIOUS
<1>9. /\ Rows(drawn) /\ DOMAIN all \subseteq DOMAIN drawn /\ \A s \in DOMAIN all : drawn[s] = all[s]
      /\ \A s \in DOMAIN drawn \ DOMAIN all : \A n \in DOMAIN drawn[s].out : drawn[s].out[n].toFiber = None
  BY <1>5, <1>7, <1>8, PatchedTable
<1>10. /\ \A g \in Fiber : SameFeed(all, drawn, g)
       /\ \A s \in DOMAIN all : Site(drawn, s) = Site(all, s)
  BY <1>9, TableGrows
<1>11. PICK target : target = MergedFeed(d.feed, old)
  OBVIOUS
<1>12. PICK claim : claim = IF d.feed = Keep THEN None ELSE d.feed
  OBVIOUS
<1>13. d.points # Keep /\ SplitterRules(f, drawn, d.points, target)
  BY <1>3, <1>6, <1>8, <1>11 DEF RedrawnTo
<1>14. splitter' = InputClaimed(Claimed(drawn, f, claim), f, d.points)
  BY <1>3, <1>6, <1>8, <1>12, Zenon DEF RedrawnTo
<1>15. d.points \in Shape /\ claim \in (Splitter \X Nat) \cup {None} /\ (claim # None => claim = target)
  BY <1>11, <1>12, <1>13 DEF Setup, MergedFeed
<1>16. \/ claim = None
       \/ /\ claim \in Splitter \X Nat
          /\ claim[1] \in DOMAIN drawn /\ claim[2] \in DOMAIN drawn[claim[1]].out
          /\ drawn[claim[1]].out[claim[2]].toFiber \in {None, f}
  BY <1>13, <1>15 DEF SplitterRules
<1>17. /\ Rows(splitter') /\ DOMAIN splitter' = DOMAIN drawn
       /\ \A s \in DOMAIN drawn : Site(splitter', s) = Site(drawn, s)
       /\ \A g \in Fiber \ {f} : SameFeed(drawn, splitter', g)
       /\ \A s, n : Fed(splitter', f, s, n) <=> (Fed(drawn, f, s, n) \/ (claim # None /\ claim = <<s, n>>))
  BY <1>2, <1>9, <1>14, <1>16, ClaimedFeeds
<1>18. target # None => target[1] \in DOMAIN drawn /\ d.points[1] = Site(drawn, target[1])
  BY <1>13 DEF SplitterRules, Site
<1>19. /\ left # None => left = target
       /\ claim # None => claim = target
       /\ target # None => left = target \/ claim = target
  BY <1>4, <1>11, <1>12 DEF Left, GivesBack, MergedFeed
<1>20. \A s, n : Fed(splitter', f, s, n) <=> target # None /\ target = <<s, n>>
  <2>1. \A s, n : Fed(drawn, f, s, n) <=> left # None /\ left = <<s, n>>
    BY <1>2, <1>5, <1>10 DEF Refed, SameFeed
  <2>2. \A s, n : Fed(splitter', f, s, n) <=> ((left # None /\ left = <<s, n>>) \/ (claim # None /\ claim = <<s, n>>))
    BY <1>17, <2>1
  <2> QED
    BY <1>19, <2>2
<1>21. \A g \in Fiber \ {f} : SameFeed(splitter, splitter', g)
  BY <1>5, <1>10, <1>17 DEF Refed, SameFeed
<1>22. \A s \in DOMAIN splitter : Site(splitter', s) = Site(splitter, s)
  BY <1>5, <1>9, <1>10, <1>17 DEF Refed
<1>23. Refed(splitter, splitter', f, target)
  BY <1>20, <1>21, <1>22 DEF Refed
<1>24. /\ fiber[f].points \in Shape /\ fiber[f].port \in (1 .. MaxPort) \cup {None}
       /\ fiber[f].cut \in [Segments(fiber[f].points) -> BOOLEAN]
       /\ fiber[f] = [points |-> fiber[f].points, cut |-> fiber[f].cut, port |-> fiber[f].port]
  BY LineParts DEF IInv
<1>25. PICK port : port = Port(d, f)
  OBVIOUS
<1>26. port \in (1 .. MaxPort) \cup {None}
  BY <1>24, <1>25 DEF Port, Setup
<1>27. PICK cut : cut = Carry(old, d.points)
  OBVIOUS
<1>28. PICK line : line = [points |-> d.points, cut |-> cut, port |-> port]
  OBVIOUS
<1>29. line \in Line /\ line.points = d.points /\ line.port = port /\ line.cut = cut
  <2>1. cut \in [Segments(d.points) -> BOOLEAN]
    BY <1>27, CarryType
  <2>2. [points |-> d.points, cut |-> cut, port |-> port] \in Line
    BY <1>15, <1>26, <2>1, LineOfParts
  <2> QED
    BY <1>28, <2>2
<1>30. fiber' = [fiber EXCEPT ![f] = line]
  <2>1. fiber' = [fiber EXCEPT ![f].points = d.points, ![f].cut = cut, ![f].port = port]
    BY <1>25, <1>27, Zenon DEF RedrawnTo
  <2>2. fiber' = [fiber EXCEPT ![f] = [[[fiber[f] EXCEPT !.points = d.points] EXCEPT !.cut = cut] EXCEPT !.port = port]]
    BY <1>1, <1>2, <2>1
  <2>3. line = [[[fiber[f] EXCEPT !.points = d.points] EXCEPT !.cut = cut] EXCEPT !.port = port]
    <3>1. PICK drawnOver : drawnOver = [fiber[f] EXCEPT !.points = d.points]
      OBVIOUS
    <3>2. drawnOver = [points |-> d.points, cut |-> fiber[f].cut, port |-> fiber[f].port]
      BY <1>24, <3>1
    <3>3. PICK carried : carried = [drawnOver EXCEPT !.cut = cut]
      OBVIOUS
    <3>4. carried = [points |-> d.points, cut |-> cut, port |-> fiber[f].port]
      BY <3>2, <3>3
    <3>5. line = [carried EXCEPT !.port = port]
      BY <1>28, <3>4
    <3> QED
      BY <3>1, <3>3, <3>5
  <2> QED
    BY <2>2, <2>3
<1>31. /\ fiber' \in [G -> Line] /\ DOMAIN fiber' = G /\ fiber'[f] = line
       /\ \A g \in G : g # f => fiber'[g] = fiber[g]
  BY <1>1, <1>2, <1>29, <1>30
<1>32. Lines(fiber')
  BY <1>31, Zenon DEF Lines
<1>33. target # None => f \in DOMAIN fiber' /\ fiber'[f].port = None /\ fiber'[f].points[1] = Site(splitter', target[1])
  BY <1>2, <1>11, <1>17, <1>18, <1>25, <1>29, <1>31
<1>34. Redrawn(fiber, fiber', splitter', f, target)
  BY <1>1, <1>31, <1>33 DEF Redrawn
<1>35. FedOnce(splitter') /\ FedRight(splitter', fiber')
  BY <1>2, <1>23, <1>34, Rewired
<1>36. SameFeed(splitter, splitter', f) \/ d.feed # Keep
  <2>1. SUFFICES ASSUME d.feed = Keep PROVE SameFeed(splitter, splitter', f)
    OBVIOUS
  <2>2. claim = None /\ all = splitter
    BY <1>3, <1>12, <2>1 DEF After, GivesBack
  <2> QED
    BY <1>2, <1>10, <1>17, <2>2 DEF SameFeed
<1>37. CutKept(fiber[f], fiber'[f])
  <2>1. PICK was, is : was = fiber[f] /\ is = line
    OBVIOUS
  <2>2. was.points \in Seq(Closure \cup Splitter \cup Building) /\ is.points \in Seq(Closure \cup Splitter \cup Building)
    BY <1>15, <1>24, <1>29, <2>1 DEF Setup
  <2>3. is.cut = Carry(old, is.points) /\ was.cut \in [Segments(was.points) -> BOOLEAN] /\ old.points = was.points /\ old.cut = was.cut
    BY <1>24, <1>27, <1>29, <2>1
  <2>4. CutKept(was, is)
    BY <2>2, <2>3, CarryKeepsCuts
  <2> QED
    BY <1>31, <2>1, <2>4
<1>38. \A g \in (DOMAIN fiber \cap DOMAIN fiber') \ {f} : fiber'[g].points = fiber[g].points
  BY <1>1, <1>31
<1> QED
  BY <1>2, <1>17, <1>21, <1>32, <1>35, <1>36, <1>37, <1>38, WriteStep

\* updateFiber's transaction.
LEMMA WriteUpdateStep ==
    ASSUME Setup, OneAtATime, IInv, NEW r \in Request, WriteUpdate(r)
    PROVE  IInv' /\ Lit /\ CutsKept
<1> DEFINE f == request[r].f
           d == request[r].data
           old == request[r].old
<1>1. /\ At(r, "update") /\ Ends(r) /\ UNCHANGED ponPorts
      /\ \/ UNCHANGED <<fiber, splitter>>
         \/ Settled(f, d, old)
         \/ \E ratio \in Ratio : RedrawnTo(f, d, old, Patched(Drawn(f, d.points, ratio), After(d, old)))
  BY Zenon DEF WriteUpdate, Settled, RedrawnTo, Patched, After, GivesBack, Port
<1>2. /\ f \in DOMAIN fiber /\ d \in Asks
      /\ old.feed = FedBy(f) /\ old.points = fiber[f].points /\ old.cut = fiber[f].cut
      /\ MergedFeed(d.feed, old) = None \/ Port(d, f) = None
  BY <1>1 DEF IInv, ReadOK, Port
<1>3. f = request[r].f /\ d = request[r].data
  OBVIOUS
<1> HIDE DEF f, d, old
<1>4. CASE UNCHANGED <<fiber, splitter>>
  BY <1>1, <1>4, RefusedStep
<1>5. CASE Settled(f, d, old)
  BY <1>1, <1>2, <1>3, <1>5, SettledStep
<1>6. CASE \E ratio \in Ratio : RedrawnTo(f, d, old, Patched(Drawn(f, d.points, ratio), After(d, old)))
  BY <1>1, <1>2, <1>3, <1>6, RedrawnStep
<1> QED
  BY <1>1, <1>4, <1>5, <1>6

-----------------------------------------------------------------------------
(* The theorems.                                                           *)

\* An empty network.
LEMMA InitIInv ==
    ASSUME Setup, Init
    PROVE  IInv
<1>1. fiber = << >> /\ splitter = << >> /\ ponPorts = MaxPort /\ request = [r \in Request |-> Idle]
  BY DEF Init
<1>2. DOMAIN splitter = {} /\ splitter \in [{} -> Row] /\ fiber \in [{} -> Line]
  BY <1>1
<1>3. Rows(splitter)
  <2>1. {} \in SUBSET Splitter
    OBVIOUS
  <2> QED
    BY <1>2, <2>1, Zenon DEF Rows
<1>4. Lines(fiber)
  <2>1. {} \in SUBSET Fiber
    OBVIOUS
  <2> QED
    BY <1>2, <2>1, Zenon DEF Lines
<1>5. FedOnce(splitter) /\ FedRight(splitter, fiber)
  BY <1>2 DEF FedOnce, FedRight, Fed
<1>6. ponPorts \in 0 .. MaxPort /\ DOMAIN request = Request
  BY <1>1 DEF Setup
<1>7. \A r \in Request : ReadOK(r)
  BY <1>1 DEF ReadOK, At
<1> QED
  BY <1>3, <1>4, <1>5, <1>6, <1>7 DEF IInv

\* Every step, by its action.
LEMMA NextStep ==
    ASSUME Setup, OneAtATime, IInv, [Next]_vars
    PROVE  IInv' /\ Lit /\ CutsKept
<1>1. CASE UNCHANGED vars
  <2>1. UNCHANGED <<fiber, splitter, ponPorts, request>>
    BY <1>1 DEF vars
  <2>2. Quiet /\ Rows(splitter)' /\ Lines(fiber)'
    BY <2>1, NothingRewired
  <2>3. \A f : FedBy(f)' = FedBy(f)
    BY <2>1, FedByIsFeedIn
  <2>4. ASSUME NEW r \in Request
        PROVE  ReadOK(r)'
    <3>1. ReadOK(r) /\ request' = request /\ fiber' = fiber /\ splitter' = splitter
      BY <2>1 DEF IInv
    <3>2. \A s, n : MayReduce(s, n)' = MayReduce(s, n)
      BY <2>1 DEF MayReduce, UsedOutputs
    <3> QED
      BY <2>3, <3>1, <3>2 DEF ReadOK, At
  <2>5. (DOMAIN request = Request)' /\ (ponPorts \in 0 .. MaxPort)'
    BY <2>1 DEF IInv
  <2> QED
    BY <2>2, <2>4, <2>5, QuietStep
<1>2. ASSUME NEW r \in Request,
             \/ \E f \in Fiber, d \in Asks : BeginCreate(r, f, d) \/ BeginUpdate(r, f, d)
             \/ \E s \in Splitter, n \in Ratio : BeginRatio(r, s, n)
             \/ WriteCreate(r) \/ WriteUpdate(r) \/ WriteRatio(r)
      PROVE  IInv' /\ Lit /\ CutsKept
  BY <1>2, BeginCreateStep, BeginUpdateStep, BeginRatioStep, WriteCreateStep, WriteUpdateStep, WriteRatioStep
<1>3. CASE InTurn => \A r \in Request : request[r] = Idle
  <2>1. CASE \E f \in Fiber : DeleteFiber(f) \/ RestoreFiber(f) \/ \E i \in 1 .. 2 : CutFiber(f, i)
    BY <1>3, <2>1, DeleteFiberStep, RestoreFiberStep, CutFiberStep
  <2>2. CASE \E c \in Closure : DeleteClosure(c) \/ \E s \in Splitter, n \in Ratio, g \in Fiber \cup {None} : AddSplitter(s, c, n, g)
    BY <1>3, <2>2, DeleteClosureStep, AddSplitterStep
  <2>3. CASE \E s \in Splitter : \/ DeleteSplitter(s) \/ \E g \in Fiber \cup {None} : SetInput(s, g)
                                 \/ \E i \in 1 .. Max(Ratio), b \in BOOLEAN : SetOutput(s, i, b)
    BY <1>3, <2>3, DeleteSplitterStep, SetInputStep, SetOutputStep
  <2>4. CASE \E n \in 0 .. MaxPort : UpdateOlt(n) \/ SyncOlts(n)
    BY <1>3, <2>4, PortsStep
  <2> QED
    BY <1>1, <1>2, <2>1, <2>2, <2>3, <2>4, Zenon DEF Next
<1> QED
  BY <1>1, <1>2, <1>3, Zenon DEF Next

\* The invariant implies the types and FeedsFit.
LEMMA InvariantFits ==
    ASSUME Setup, IInv
    PROVE  TypeOK /\ FeedsFit
<1>1. Rows(splitter) /\ FedOnce(splitter) /\ FedRight(splitter, fiber) /\ Lines(fiber)
  BY DEF IInv
<1>2. TypeOK
  <2>1. \A f \in DOMAIN fiber : /\ fiber[f].points \in Shape /\ fiber[f].port \in (1 .. MaxPort) \cup {None}
                                /\ fiber[f].cut \in [Segments(fiber[f].points) -> BOOLEAN]
    BY <1>1, LineParts
  <2>2. \A s \in DOMAIN splitter : splitter[s] \in Row
    BY <1>1 DEF Rows
  <2>3. \A s \in DOMAIN splitter : /\ splitter[s].closure \in Closure \cup {None} /\ splitter[s].input \in Fiber \cup {None}
                                   /\ \E n \in Ratio : splitter[s].out \in [1 .. n -> Output]
    BY <2>2, RowParts
  <2>4. DOMAIN fiber \subseteq Fiber /\ DOMAIN splitter \subseteq Splitter /\ ponPorts \in 0 .. MaxPort
    BY DEF IInv, Rows, Lines
  <2> QED
    BY <2>1, <2>3, <2>4 DEF TypeOK
<1>3. ASSUME NEW f \in DOMAIN fiber, FedBy(f) # None
      PROVE  /\ fiber[f].port = None
             /\ fiber[f].points[1] = IF splitter[FedBy(f)[1]].closure # None THEN splitter[FedBy(f)[1]].closure ELSE FedBy(f)[1]
  <2>1. f \in Fiber /\ FedBy(f) = FeedIn(splitter, f)
    BY <1>1, LineParts, FedByIsFeedIn
  <2>2. PICK s \in Splitter, n \in Nat : FedBy(f) = <<s, n>> /\ Fed(splitter, f, s, n)
    BY <1>1, <1>3, <2>1, FeedInIsFeed
  <2>3. FedBy(f)[1] = s
    BY <2>2
  <2> QED
    BY <1>1, <2>1, <2>2, <2>3 DEF FedRight, Site
<1>4. FeedsFit
  BY <1>3, Zenon DEF FeedsFit
<1> QED
  BY <1>2, <1>4

\* Whatever the requests ask, each fibre is fed once and from where it starts, and
\* what a request has read holds until it writes (fiber.service.js, closure.service.js).
THEOREM Invariance ==
    ASSUME Setup, OneAtATime
    PROVE  Spec => []IInv
<1>1. Init => IInv
  BY InitIInv
<1>2. IInv /\ [Next]_vars => IInv'
  BY NextStep
<1> QED
  BY <1>1, <1>2, PTL DEF Spec

\* Of requests that come in turn, a fibre on an output has no PON port and starts
\* where its splitter is reached (assertSplitterRules, deleteClosure, deleteFiber).
THEOREM FeedsStayFit ==
    ASSUME Setup, OneAtATime
    PROVE  Spec => [](TypeOK /\ FeedsFit)
<1>1. IInv => TypeOK /\ FeedsFit
  BY InvariantFits
<1> QED
  BY <1>1, Invariance, PTL

\* No deletion of a closure, a splitter or another line, and no smaller ratio takes
\* a fibre's feed away: only an edit of the fibre that names its feed does.
THEOREM LightStays ==
    ASSUME Setup, OneAtATime
    PROVE  Spec => LightIsKept
<1>1. IInv /\ [Next]_vars => Lit
  BY NextStep
<1>2. Lit => [\A f \in DOMAIN fiber \cap DOMAIN fiber' :
        FedBy(f) # None => \/ FedBy(f)' = FedBy(f)
                           \/ \E r \in Request : At(r, "update") /\ request[r].f = f /\ request[r].data.feed # Keep]_vars
  BY DEF Lit
<1> QED
  BY <1>1, <1>2, Invariance, PTL DEF Spec, LightIsKept

\* A cut stays on the segment between its two points when the fibre is redrawn.
THEOREM CutsStay ==
    ASSUME Setup, OneAtATime
    PROVE  Spec => CutsSurvive
<1>1. IInv /\ [Next]_vars => CutsKept
  BY NextStep
<1>2. CutsKept => [\A f \in DOMAIN fiber \cap DOMAIN fiber' :
        LET was == fiber[f]
            is == fiber'[f]
            Ends2(x, i) == <<x.points[i], x.points[i + 1]>>
        IN  was.points # is.points =>
                \A i \in DOMAIN was.cut, j \in DOMAIN is.cut :
                    (Ends2(was, i) = Ends2(is, j) /\ \A k \in DOMAIN was.cut \ {i} : Ends2(was, k) # Ends2(was, i))
                        => is.cut[j] = was.cut[i]]_vars
  BY Zenon DEF CutsKept, CutKept, Pair
<1> QED
  BY <1>1, <1>2, Invariance, PTL DEF Spec, CutsSurvive
=============================================================================
