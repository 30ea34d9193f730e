------------------------------- MODULE MCOlt -------------------------------
(***************************************************************************)
(* Small instances of OltReadings for TLC: three customers, of whom pages  *)
(* and edits touch two.  Either the third has no Username, and the two meet *)
(* all the events; or all have one, and all events but one are over.       *)
(***************************************************************************)
EXTENDS OltReadings

CONSTANTS c1, c2, c3

\* The server has just started, and nobody was checked yet; or c3 was, and has no
\* Username.
Two == username[c3] = None /\ conn = [[c \in Customer |-> Unread] EXCEPT ![c3] = None] /\ events = 0
Three == None \notin {username[c] : c \in Customer} /\ conn = [c \in Customer |-> Unread] /\ events = MaxEvents - 1

MCInit ==
    /\ username \in [Customer -> Username \cup {None}] /\ order = <<c3, c1, c2>>
    /\ Two \/ Three
    /\ tokens = Burst /\ credit = Burst /\ paused = FALSE
    /\ cache = [u \in Username |-> None] /\ call = [k \in Call |-> None]
    /\ reader = [r \in Reader |-> Off] /\ held = [c \in Customer |-> 0]
    /\ overtaken = {}

MCSpec == MCInit /\ [][Next]_vars /\ Fairness
=============================================================================
