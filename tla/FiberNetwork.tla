---------------------------- MODULE FiberNetwork ----------------------------
(***************************************************************************)
(* Fibres, closures and splitters (modules/fibers, modules/closures) and   *)
(* the PON ports of an OLT (modules/pops).  A fibre runs over points; it   *)
(* is fed by a PON port or by an output of a splitter, which hangs on a    *)
(* closure or sits on a line; two of its points bound a segment, which may *)
(* be cut.  Waypoints carry no state and are left out, and so are names,   *)
(* photos, lengths, and the status, which the form may set; the actor sees *)
(* whatever the request names.                                             *)
(*                                                                         *)
(* A request reads and checks first and writes in a transaction later,     *)
(* by what it read: with one Request they come in turn.                    *)
(***************************************************************************)
EXTENDS Naturals, Sequences, FiniteSets, SequencesExt

CONSTANTS
    Fiber, Closure, Splitter, Building, None, Keep,
    Ratio,       \* how many outputs a splitter may have
    Shape,       \* the sequences of points a fibre may be drawn over
    Asks,        \* what a request may ask: points, port and feed, each one or Keep
    MaxPort,     \* bound: PON ports of the OLT
    Request, Idle

VARIABLES
    fiber,       \* partial function: points, cut (of each segment), port
    splitter,    \* partial function: closure, input fibre, outputs
    ponPorts,    \* Olt.ponPortCount
    request

vars == <<fiber, splitter, ponPorts, request>>

Output == [toFiber : Fiber \cup {None}, toBuilding : BOOLEAN]
Unused == [toFiber |-> None, toBuilding |-> FALSE]
Segments(points) == 1 .. Len(points) - 1

TypeOK ==
    /\ \A f \in DOMAIN fiber : /\ fiber[f].points \in Shape /\ fiber[f].port \in (1 .. MaxPort) \cup {None}
                               /\ fiber[f].cut \in [Segments(fiber[f].points) -> BOOLEAN]
    /\ \A s \in DOMAIN splitter : /\ splitter[s].closure \in Closure \cup {None} /\ splitter[s].input \in Fiber \cup {None}
                                  /\ \E n \in Ratio : splitter[s].out \in [1 .. n -> Output]
    /\ DOMAIN fiber \subseteq Fiber /\ DOMAIN splitter \subseteq Splitter /\ ponPorts \in 0 .. MaxPort

\* SplitterOutput.toFiberId is unique: a fibre has at most one feed.
FedBy(f) ==
    LET feeds == {x \in (DOMAIN splitter) \X (1 .. Max(Ratio)) :
                      x[2] \in DOMAIN splitter[x[1]].out /\ splitter[x[1]].out[x[2]].toFiber = f}
    IN  IF feeds = {} THEN None ELSE CHOOSE x \in feeds : TRUE
Visits(f, p) == p \in ToSet(fiber[f].points)
OnPoints(p) == {f \in DOMAIN fiber : Visits(f, p)}
UsedOutputs(s) == {n \in DOMAIN splitter[s].out : splitter[s].out[n] # Unused}
FibersOnPort(n) == {f \in DOMAIN fiber : fiber[f].port = n}

InTurn == Cardinality(Request) = 1
Begins(r, op) == request[r] = Idle /\ request' = [request EXCEPT ![r] = op] /\ UNCHANGED <<fiber, splitter, ponPorts>>
Ends(r) == request' = [request EXCEPT ![r] = Idle]
At(r, op) == request[r] # Idle /\ request[r].op = op

----------------------------------------------------------------------------
(* Fibres *)

\* The feed an edit ends up with: what is absent is kept, a null detaches.
MergedFeed(feed, old) == IF feed = Keep THEN old.feed ELSE feed

\* assertPort, on the rows as they are now.
PortFree(f, port) == port \in {None} \cup {n \in 1 .. ponPorts : FibersOnPort(n) \subseteq {f}}

BeginCreate(r, f, data) ==
    /\ f \notin DOMAIN fiber /\ data.points # Keep /\ data.port # Keep /\ data.feed # Keep
    /\ None \in {data.port, data.feed}
    /\ PortFree(f, data.port)
    /\ Begins(r, [op |-> "create", f |-> f, data |-> data])

BeginUpdate(r, f, data) ==
    LET old == [feed |-> FedBy(f), points |-> fiber[f].points, cut |-> fiber[f].cut]
        port == IF data.port = Keep THEN fiber[f].port ELSE data.port
    IN  /\ f \in DOMAIN fiber
        /\ None \in {MergedFeed(data.feed, old), port}
        /\ PortFree(f, port)
        /\ Begins(r, [op |-> "update", f |-> f, data |-> data, old |-> old])

\* resolvePoints: a splitter drawn onto the line is made there and then.
Drawn(f, points, ratio) ==
    LET new == (ToSet(points) \cap Splitter) \ DOMAIN splitter
    IN  [s \in DOMAIN splitter \cup new |->
            IF s \in new THEN [closure |-> None, input |-> f, out |-> [n \in 1 .. ratio |-> Unused]] ELSE splitter[s]]

\* assertSplitterRules, inside the transaction: the output is there and free, and
\* the fibre starts where its splitter is reached.
SplitterRules(f, all, points, feed) ==
    feed = None \/
        /\ feed[1] \in DOMAIN all /\ feed[2] \in DOMAIN all[feed[1]].out
        /\ all[feed[1]].out[feed[2]].toFiber \in {None, f}
        /\ points[1] = IF all[feed[1]].closure # None THEN all[feed[1]].closure ELSE feed[1]

Released(all, feed) ==
    IF feed = None THEN all ELSE [all EXCEPT ![feed[1]].out[feed[2]].toFiber = None]
Claimed(all, f, feed) ==
    IF feed = None THEN all ELSE [all EXCEPT ![feed[1]].out[feed[2]].toFiber = f]
\* claimSplitterInput: a line that ends on a closure feeds the splitters there that have no input.
InputClaimed(all, f, points) ==
    [s \in DOMAIN all |-> IF all[s].closure = Last(points) /\ all[s].input = None THEN [all[s] EXCEPT !.input = f] ELSE all[s]]

\* Fault: a redraw carries the cuts over by position.
CarryByPosition(old, points) == [i \in Segments(points) |-> i \in DOMAIN old.cut /\ old.cut[i]]
\* carryForward: by the pair of points a segment joins; of two alike, the last counts.
Carry(old, points) ==
    [i \in Segments(points) |->
        LET alike == {j \in Segments(old.points) : old.points[j] = points[i] /\ old.points[j + 1] = points[i + 1]}
        IN  alike # {} /\ old.cut[Max(alike)]]

WriteCreate(r) ==
    \E ratio \in Ratio :
    LET d == request[r].data
        f == request[r].f
        all == Drawn(f, d.points, ratio)
        ok == /\ f \notin DOMAIN fiber /\ (d.port # None => FibersOnPort(d.port) = {})
              /\ SplitterRules(f, all, d.points, d.feed)
    IN  /\ At(r, "create") /\ Ends(r) /\ UNCHANGED ponPorts
        /\ IF ok
           THEN /\ fiber' = [g \in DOMAIN fiber \cup {f} |->
                                IF g = f THEN [points |-> d.points, cut |-> [i \in Segments(d.points) |-> FALSE], port |-> d.port]
                                ELSE fiber[g]]
                /\ splitter' = InputClaimed(Claimed(all, f, d.feed), f, d.points)
           ELSE UNCHANGED <<fiber, splitter>>

\* Without points the new feed is never claimed, only the old one is given back.
WriteUpdate(r) ==
    \E ratio \in Ratio :
    LET d == request[r].data
        f == request[r].f
        old == request[r].old
        port == IF d.port = Keep THEN fiber[f].port ELSE d.port
        release == d.feed # Keep /\ old.feed # None /\ d.feed # old.feed
        all == IF release THEN Released(splitter, old.feed) ELSE splitter
        drawn == [s \in DOMAIN Drawn(f, d.points, ratio) |-> IF s \in DOMAIN all THEN all[s] ELSE Drawn(f, d.points, ratio)[s]]
        ok == /\ f \in DOMAIN fiber /\ (port # None => FibersOnPort(port) \subseteq {f})
              /\ release => old.feed[1] \in DOMAIN splitter /\ old.feed[2] \in DOMAIN splitter[old.feed[1]].out
              /\ d.points # Keep => SplitterRules(f, drawn, d.points, MergedFeed(d.feed, old))
    IN  /\ At(r, "update") /\ Ends(r) /\ UNCHANGED ponPorts
        /\ IF ~ok THEN UNCHANGED <<fiber, splitter>>
           ELSE IF d.points = Keep
           THEN fiber' = [fiber EXCEPT ![f].port = port] /\ splitter' = all
           ELSE /\ fiber' = [fiber EXCEPT ![f].points = d.points, ![f].cut = Carry(old, d.points), ![f].port = port]
                /\ splitter' = InputClaimed(Claimed(drawn, f, IF d.feed = Keep THEN None ELSE d.feed), f, d.points)

\* deleteFiber: splitters on no closure go with the line, unless another line
\* still has a point there; then the database refuses the whole.
DeleteFiber(f) ==
    LET mine == {s \in DOMAIN splitter : splitter[s].closure = None /\ Visits(f, s)}
    IN  /\ f \in DOMAIN fiber /\ \A s \in mine : OnPoints(s) = {f}
        /\ fiber' = [g \in DOMAIN fiber \ {f} |-> fiber[g]]
        /\ splitter' = [s \in DOMAIN splitter \ mine |->
                [splitter[s] EXCEPT !.input = IF @ = f THEN None ELSE @,
                                    !.out = [n \in DOMAIN @ |-> IF @[n].toFiber = f THEN [@[n] EXCEPT !.toFiber = None] ELSE @[n]]]]
        /\ UNCHANGED <<ponPorts, request>>

CutFiber(f, i) ==
    f \in DOMAIN fiber /\ i \in DOMAIN fiber[f].cut /\ fiber' = [fiber EXCEPT ![f].cut[i] = TRUE] /\ UNCHANGED <<splitter, ponPorts, request>>
RestoreFiber(f) ==
    /\ f \in DOMAIN fiber /\ fiber' = [fiber EXCEPT ![f].cut = [i \in DOMAIN @ |-> FALSE]]
    /\ UNCHANGED <<splitter, ponPorts, request>>

----------------------------------------------------------------------------
(* Closures and splitters *)

\* deleteClosure: its splitters go with it, and their outputs with them; the database
\* refuses while a line runs over one (FiberPoint.splitter is onDelete: Restrict).
DeleteClosure(c) ==
    /\ OnPoints(c) = {} /\ \A s \in DOMAIN splitter : splitter[s].closure = c => OnPoints(s) = {}
    /\ splitter' = [s \in {s \in DOMAIN splitter : splitter[s].closure # c} |-> splitter[s]]
    /\ UNCHANGED <<fiber, ponPorts, request>>

\* addSplitter: unless a fibre is named, the only one that ends here feeds it.
AddSplitter(s, c, n, named) ==
    LET ending == {f \in DOMAIN fiber : Last(fiber[f].points) = c}
        input == IF named # None THEN named ELSE IF Cardinality(ending) = 1 THEN CHOOSE f \in ending : TRUE ELSE None
    IN  /\ s \notin DOMAIN splitter /\ named \in DOMAIN fiber \cup {None}
        /\ splitter' = [t \in DOMAIN splitter \cup {s} |->
                IF t = s THEN [closure |-> c, input |-> input, out |-> [i \in 1 .. n |-> Unused]] ELSE splitter[t]]
        /\ UNCHANGED <<fiber, ponPorts, request>>

MayReduce(s, n) == \A i \in UsedOutputs(s) : i <= n
BeginRatio(r, s, n) == s \in DOMAIN splitter /\ MayReduce(s, n) /\ Begins(r, [op |-> "ratio", s |-> s, n |-> n])
\* A PATCH may name another input, too; the database refuses a fibre that is not there.
WriteRatio(r) ==
    \E input \in Fiber \cup {None, Keep} :
    LET s == request[r].s
        resized == [i \in 1 .. request[r].n |-> IF i \in DOMAIN splitter[s].out THEN splitter[s].out[i] ELSE Unused]
        ok == s \in DOMAIN splitter /\ input \in DOMAIN fiber \cup {None, Keep}
    IN  /\ At(r, "ratio") /\ Ends(r) /\ UNCHANGED <<fiber, ponPorts>>
        /\ splitter' = IF ok THEN [splitter EXCEPT ![s].out = resized, ![s].input = IF input = Keep THEN @ ELSE input]
                       ELSE splitter
\* A PATCH that names an input and no ratio.
SetInput(s, input) ==
    /\ s \in DOMAIN splitter /\ input \in DOMAIN fiber \cup {None}
    /\ splitter' = [splitter EXCEPT ![s].input = input] /\ UNCHANGED <<fiber, ponPorts, request>>

DeleteSplitter(s) ==
    /\ s \in DOMAIN splitter /\ OnPoints(s) = {} /\ \A i \in DOMAIN splitter[s].out : splitter[s].out[i].toFiber = None
    /\ splitter' = [t \in DOMAIN splitter \ {s} |-> splitter[t]]
    /\ UNCHANGED <<fiber, ponPorts, request>>

SetOutput(s, i, b) ==
    /\ s \in DOMAIN splitter /\ i \in DOMAIN splitter[s].out
    /\ splitter' = [splitter EXCEPT ![s].out[i].toBuilding = b]
    /\ UNCHANGED <<fiber, ponPorts, request>>

----------------------------------------------------------------------------
\* updateOlt refuses fewer ports than are in use; the form of the POP (syncOlts) does not.
UpdateOlt(n) == (\A f \in DOMAIN fiber : fiber[f].port \in {None} \cup 1 .. n) /\ ponPorts' = n /\ UNCHANGED <<fiber, splitter, request>>
SyncOlts(n) == ponPorts' = n /\ UNCHANGED <<fiber, splitter, request>>

Init == fiber = << >> /\ splitter = << >> /\ ponPorts = MaxPort /\ request = [r \in Request |-> Idle]

Next ==
    \/ \E r \in Request : \/ \E f \in Fiber, d \in Asks : BeginCreate(r, f, d) \/ BeginUpdate(r, f, d)
                          \/ \E s \in Splitter, n \in Ratio : BeginRatio(r, s, n)
                          \/ WriteCreate(r) \/ WriteUpdate(r) \/ WriteRatio(r)
    \/ (InTurn => \A r \in Request : request[r] = Idle) /\
         \/ \E f \in Fiber : DeleteFiber(f) \/ RestoreFiber(f) \/ \E i \in 1 .. 2 : CutFiber(f, i)
         \/ \E c \in Closure : DeleteClosure(c) \/ \E s \in Splitter, n \in Ratio, g \in Fiber \cup {None} : AddSplitter(s, c, n, g)
         \/ \E s \in Splitter : \/ DeleteSplitter(s) \/ \E g \in Fiber \cup {None} : SetInput(s, g)
                               \/ \E i \in 1 .. Max(Ratio), b \in BOOLEAN : SetOutput(s, i, b)
         \/ \E n \in 0 .. MaxPort : UpdateOlt(n) \/ SyncOlts(n)

Spec == Init /\ [][Next]_vars

----------------------------------------------------------------------------
(* Properties, of requests that come in turn *)

\* A fibre on an output has no PON port of its own, and starts where its splitter
\* is reached, however it is redrawn, detached and fed anew, and whatever
\* becomes of the closures and splitters of its line.
FeedsFit ==
    \A f \in DOMAIN fiber : LET feed == FedBy(f) IN
        feed # None => /\ fiber[f].port = None
                       /\ fiber[f].points[1] = IF splitter[feed[1]].closure # None THEN splitter[feed[1]].closure ELSE feed[1]

\* Only an edit of the fibre itself that names another feed, or none, takes its
\* feed away: no deletion of a closure, splitter or line and no smaller ratio does.
LightIsKept ==
    [][\A f \in DOMAIN fiber \cap DOMAIN fiber' :
        FedBy(f) # None => \/ FedBy(f)' = FedBy(f)
                           \/ \E r \in Request : At(r, "update") /\ request[r].f = f /\ request[r].data.feed # Keep]_vars

\* A cut stays on its segment when the fibre is redrawn over the same two points,
\* if it passed them once.
CutsSurvive ==
    [][\A f \in DOMAIN fiber \cap DOMAIN fiber' :
        LET was == fiber[f]
            is == fiber'[f]
            Pair(x, i) == <<x.points[i], x.points[i + 1]>>
        IN  was.points # is.points =>
                \A i \in DOMAIN was.cut, j \in DOMAIN is.cut :
                    (Pair(was, i) = Pair(is, j) /\ \A k \in DOMAIN was.cut \ {i} : Pair(was, k) # Pair(was, i))
                        => is.cut[j] = was.cut[i]]_vars

\* A port a fibre is on is one the OLT has: what UpdateOlt guards and SyncOlts does not.
PortsExist == \A f \in DOMAIN fiber : fiber[f].port = None \/ fiber[f].port <= ponPorts

\* What an update asks for it gets: without points it does not.
FeedIsAsAsked ==
    [][\A r \in Request : LET d == request[r].data IN
        (At(r, "update") /\ request'[r] = Idle /\ <<fiber, splitter>>' # <<fiber, splitter>> /\ d.feed # Keep)
            => FedBy(request[r].f)' = d.feed]_vars
=============================================================================
