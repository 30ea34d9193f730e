------------------------- MODULE MCBuildingHandover -------------------------
(* Small instances of BuildingHandover for TLC.                            *)
EXTENDS BuildingHandover, TLC

CONSTANTS w1, w2, boss, north, south, asha, bela, chand, tower, villa

Workers == {w1, w2}
WorkerSymmetry == Permutations(Workers)

\* Two team leaders share both buildings' zone; north leads two executives.
MCTeam == [a \in Actor |-> CASE a = north -> {asha, bela} \cap Executive
                            [] a = south -> {chand}
                            [] OTHER -> Executive]
MCZone == [a \in Leader |-> Building]

\* The tower is held by asha, everything else by nobody.
MCFirstRow == [r \in RowId |-> IF r = 1 THEN [b |-> tower, holder |-> asha, active |-> TRUE]
                              ELSE Unborn]
\* asha has a visit planned there.
MCFirstTask == [t \in TaskId |-> IF t = 1 THEN [who |-> asha, b |-> tower, version |-> 0]
                                ELSE Unborn]
=============================================================================
