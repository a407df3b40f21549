------------------------------- MODULE EventFeed -------------------------------
(***************************************************************************)
(* What the event stream promises the client of one deployment: a cursor   *)
(* over a log that only grows.                                             *)
(*                                                                         *)
(* Each time it hears from the server, the client gets the next stretch of *)
(* the log: every event between the last one it has and some later one, in *)
(* order, none left out.  Connections, signals, heartbeats and retries are *)
(* not visible here.  What is: an event may join the log behind the        *)
(* cursor (its INSERT committed late), and such an event never comes.      *)
(* After the client has been told the end it gets nothing more.            *)
(***************************************************************************)
EXTENDS Naturals, Sequences, FiniteSets

VARIABLES
    log,      \* ids of the events there are
    got,      \* what the client has received, in order
    closed    \* the client was told that the stream is over

feedVars == <<log, got, closed>>

Init == log = {} /\ got = <<>> /\ closed = FALSE

\* Where the client is: the last event it has.
Cursor == IF got = <<>> THEN 0 ELSE got[Len(got)]

\* The events after the cursor, up to one of them.
Stretch(upto) == {i \in log : Cursor < i /\ i <= upto}

Ascending(s) == \A i, j \in DOMAIN s : i < j => s[i] < s[j]

Extend ==
    /\ \E i \in log' : i \notin log /\ i # 0 /\ log' = log \union {i}
    /\ UNCHANGED <<got, closed>>

Receive ==
    /\ ~closed
    /\ \E upto \in log :
        \E s \in [1 .. Cardinality(Stretch(upto)) -> Stretch(upto)] :
            /\ Ascending(s) /\ {s[i] : i \in DOMAIN s} = Stretch(upto)
            /\ got' = got \o s
    /\ UNCHANGED <<log, closed>>

Close ==
    /\ ~closed
    /\ closed' = TRUE
    /\ UNCHANGED <<log, got>>

Next == Extend \/ Receive \/ Close

Spec == Init /\ [][Next]_feedVars
================================================================================
