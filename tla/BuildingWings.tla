--------------------------- MODULE BuildingWings ---------------------------
(***************************************************************************)
(* One building and its wings (src/src/lib/building-wings.js, replaceWings *)
(* and updateBuilding of building.service.js, the Live toggles).           *)
(*                                                                         *)
(* The number of wings is typed; the wings placed on the map are rows of   *)
(* their own.  Once as many are placed as were typed, the building's home  *)
(* pass and Live follow from them.  Every request reads the building with  *)
(* its wings, checks what it wants against what it read, and then writes.  *)
(***************************************************************************)
EXTENDS Integers, FiniteSets, Functions

CONSTANTS
    Worker,
    WingId,     \* ids of wing rows, old and new
    MaxCount,   \* bound on the wings of a building
    MaxPass,    \* bound on the home pass of a wing
    None, Keep  \* null, and a field the request leaves out

VARIABLES
    building,   \* its wing count, home pass and Live; whether it is a society, and an approved one
    wings,      \* the BuildingWing rows: id -> [homePass, live]
    req

vars == <<building, wings, req>>

Count == 1 .. MaxCount
Pass == 0 .. MaxCount * MaxPass
Wing == [homePass: 0 .. MaxPass, live: BOOLEAN]
WingSet == UNION {[S -> Wing] : S \in {T \in SUBSET WingId : Cardinality(T) <= MaxCount}}

BuildingRow == [count: Count \cup {None}, homePass: Pass \cup {None}, live: BOOLEAN,
             isSociety: BOOLEAN, approved: BOOLEAN]
Idle == [op |-> "idle"]
Request == {Idle} \cup [op: {"wings", "edit", "society edit"}, building: BuildingRow, wings: WingSet]
                  \cup [op: {"cascade"}, live: BOOLEAN]

TypeOK == building \in BuildingRow /\ wings \in WingSet /\ req \in [Worker -> Request]

----------------------------------------------------------------------------
(* building-wings.js *)

Placed(ws) == Cardinality(DOMAIN ws)
IsComplete(placed, count) == count # None /\ count > 0 /\ placed = count
WingSetErrors(ws, count) == DOMAIN ws # {} /\ (count = None \/ Placed(ws) > count)
DeriveTotals(ws) ==
    [live |-> \E i \in DOMAIN ws : ws[i].live,
     homePass |-> SumFunction([i \in DOMAIN ws |-> ws[i].homePass])]

Given(next, old) == IF next = Keep THEN old ELSE next

----------------------------------------------------------------------------
Read(w, op) ==
    /\ req[w] = Idle
    /\ op = "society edit" => building.isSociety /\ ~building.approved
    /\ req' = [req EXCEPT ![w] = [op |-> op, building |-> building, wings |-> wings]]
    /\ UNCHANGED <<building, wings>>

Serves(w, op) == req[w].op = op
Finish(w) == req' = [req EXCEPT ![w] = Idle]
Refuse(w) == req[w].op \in {"wings", "edit", "society edit"} /\ Finish(w) /\ UNCHANGED <<building, wings>>

\* The wings as one set: kept rows under their ids, the others under new ones.
ReplaceWings(w, new, newCount) ==
    LET seen == req[w]
        count == Given(newCount, seen.building.count)
        kept == DOMAIN new \cap DOMAIN seen.wings
        totals == DeriveTotals(new)
    IN  /\ Serves(w, "wings")
        /\ ~WingSetErrors(new, count)
        /\ kept \subseteq DOMAIN wings
        /\ (DOMAIN new \ kept) \cap DOMAIN wings = {}
        /\ wings' = new
        /\ building' = [building EXCEPT
              !.count = Given(newCount, @),
              !.homePass = IF IsComplete(Placed(new), count) THEN totals.homePass ELSE @,
              !.live = IF IsComplete(Placed(new), count) THEN totals.live ELSE @]
        /\ Finish(w)

\* updateBuilding: the wing count may not drop below the wings placed, and for
\* a complete building home pass and Live are not the request's to give.
BelowPlaced(newCount, placed) == newCount # Keep /\ (IF newCount = None THEN 0 ELSE newCount) < placed

UpdateBuilding(w, newCount, homePass, live) ==
    LET seen == req[w]
        placed == Placed(seen.wings)
        complete == IsComplete(placed, Given(newCount, seen.building.count))
        totals == DeriveTotals(seen.wings)
    IN  /\ Serves(w, "edit")
        /\ ~BelowPlaced(newCount, placed)
        /\ building' = [building EXCEPT
              !.count = Given(newCount, @),
              !.homePass = IF complete THEN totals.homePass ELSE Given(homePass, @),
              !.live = CASE ~complete -> Given(live, @)
                         [] complete /\ (building.isSociety \/ seen.building.live # totals.live) -> totals.live
                         [] OTHER -> @]
        /\ Finish(w) /\ UNCHANGED wings

\* The executive's edit of a society: home pass is derived, Live stays as it is.
UpdateSociety(w, newCount, homePass) ==
    LET seen == req[w]
        placed == Placed(seen.wings)
        complete == IsComplete(placed, Given(newCount, seen.building.count))
    IN  /\ Serves(w, "society edit") /\ ~building.approved
        /\ ~BelowPlaced(newCount, placed)
        /\ building' = [building EXCEPT
              !.count = Given(newCount, @),
              !.homePass = IF complete THEN DeriveTotals(seen.wings).homePass ELSE Given(homePass, @)]
        /\ Finish(w) /\ UNCHANGED wings

\* updateStatus and bulkSetLive: the building first, its wings after that.
SetLive(w, live) ==
    /\ req[w] = Idle
    /\ building.isSociety => building.approved
    /\ building' = [building EXCEPT !.live = live]
    /\ req' = [req EXCEPT ![w] = [op |-> "cascade", live |-> live]]
    /\ UNCHANGED wings

SetWingsLiveSome(w) ==
    /\ Serves(w, "cascade")
    /\ wings' = IF IsComplete(Placed(wings), building.count) /\ ~req[w].live
                THEN [i \in DOMAIN wings |-> [wings[i] EXCEPT !.live = req[w].live]] ELSE wings
    /\ Finish(w) /\ UNCHANGED building
SetWingsLive(w) ==
    /\ Serves(w, "cascade")
    /\ wings' = IF IsComplete(Placed(wings), building.count)
                THEN [i \in DOMAIN wings |-> [wings[i] EXCEPT !.live = req[w].live]] ELSE wings
    /\ Finish(w) /\ UNCHANGED building

\* A society's approval, and its surveyor's markLive.
Approve ==
    /\ building.isSociety /\ ~building.approved
    /\ building' = [building EXCEPT !.approved = TRUE] /\ UNCHANGED <<wings, req>>
MarkLive ==
    /\ building.isSociety /\ building.approved /\ ~building.live
    /\ building' = [building EXCEPT !.live = TRUE] /\ UNCHANGED <<wings, req>>

----------------------------------------------------------------------------
\* createBuilding: a building has no wings placed when it is added.
Init ==
    /\ building \in {b \in BuildingRow : ~b.approved}
    /\ wings = << >>
    /\ req = [w \in Worker |-> Idle]

Next ==
    \/ \E w \in Worker :
        \/ \E op \in {"wings", "edit", "society edit"} : Read(w, op)
        \/ \E new \in WingSet, newCount \in Count \cup {Keep} : ReplaceWings(w, new, newCount)
        \/ \E newCount \in Count \cup {None, Keep}, homePass \in Pass \cup {None, Keep} :
            \/ \E live \in BOOLEAN \cup {Keep} : UpdateBuilding(w, newCount, homePass, live)
            \/ UpdateSociety(w, newCount, homePass)
        \/ \E live \in BOOLEAN : SetLive(w, live)
        \/ SetWingsLive(w)
        \/ Refuse(w)
    \/ Approve
    \/ MarkLive

Spec == Init /\ [][Next]_vars

----------------------------------------------------------------------------
(* Properties. *)

AllPlaced == IsComplete(Placed(wings), building.count) /\ \A w \in Worker : req[w].op # "cascade"
LiveIsDerived == building.live <=> \E i \in DOMAIN wings : wings[i].live

\* Once every wing is placed, whatever edits, placements and toggles came
\* before, the building's home pass and, unless it is a society, its Live are
\* those of its wings.
TotalsAreDerived ==
    AllPlaced => /\ building.homePass = DeriveTotals(wings).homePass
                 /\ ~building.isSociety => LiveIsDerived

\* The same of a society's Live, which updateBuilding's comment promises.
SocietyLiveIsDerived == (building.isSociety /\ AllPlaced) => LiveIsDerived

\* No more wings are placed than the building has.
PlacedWithinCount ==
    DOMAIN wings # {} => (building.count # None /\ Placed(wings) <= building.count)
=============================================================================
