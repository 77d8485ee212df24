------------------------------- MODULE Alerts -------------------------------
(***************************************************************************)
(* Alerts (alert.cpp, main.cpp): signed notices that nodes pass on to each *)
(* other, that cancel one another and that expire.  Each node keeps those  *)
(* it shows in mapAlerts, and per connection, in CNode::setKnown, those    *)
(* its peer has seen.  The holder of the alert key gives an alert to some  *)
(* node; the order in which the others see the alerts is open.             *)
(***************************************************************************)
EXTENDS Integers, Sequences, FiniteSets, SequencesExt

CONSTANTS
    Node,
    Link,           \* <<n, m>>: n opens a connection to m
    Alert,
    nID,            \* [Alert -> Nat]
    FirstID,        \* ids below this one are never in effect (200)
    nCancel,        \* [Alert -> Nat] cancels all ids up to this one
    setCancel,      \* [Alert -> SUBSET Nat] and these
    Versions,       \* [Alert -> SUBSET Node] the nodes whose version the alert is for
    nExpiration,    \* [Alert -> Nat]
    nRelayUntil,    \* [Alert -> Nat]
    Ignored,        \* badly signed, or of the last id and not as it must be
    Version,        \* the version message
    MaxTime,        \* bound: the clock
    MaxBreaks       \* bound: how often a link breaks

VARIABLES
    mapAlerts,      \* [Node -> SUBSET Alert]
    setKnown,       \* [End -> SUBSET Alert]
    pipe,           \* [End -> Seq(Alert \cup {Version})] messages on the way
    up,             \* the links that stand
    greeted,        \* the ends that have the peer's version
    issued,         \* the alerts given out
    seen,           \* [Node -> SUBSET Alert] ghost: shown, or cancelled on arrival
    early,          \* ghost: <<e, a>>, a was passed to e before its version came
    now,            \* GetAdjustedTime
    nBreaks

vars == <<mapAlerts, setKnown, pipe, up, greeted, issued, seen, early, now, nBreaks>>

End == Link \cup {<<l[2], l[1]>> : l \in Link}
Opposite(e) == <<e[2], e[1]>>
Stands(e) == e \in up \/ Opposite(e) \in up

AlertAssumption ==
    /\ Link \subseteq {l \in Node \X Node : l[1] # l[2]}
    /\ \A l \in Link : Opposite(l) \notin Link
    /\ Version \notin Alert
    /\ nID \in [Alert -> Nat] /\ nCancel \in [Alert -> Nat]
    /\ setCancel \in [Alert -> SUBSET Nat]
    /\ Versions \in [Alert -> SUBSET Node]
    /\ nExpiration \in [Alert -> Nat] /\ nRelayUntil \in [Alert -> Nat]
    /\ Ignored \subseteq Alert /\ MaxTime \in Nat /\ MaxBreaks \in Nat

-----------------------------------------------------------------------------
(* CAlert                                                                  *)

IsInEffect(a) == nID[a] >= FirstID /\ now < nExpiration[a]

Cancels(a, b) == IsInEffect(a) /\ (nID[b] <= nCancel[a] \/ nID[b] \in setCancel[a])

AppliesTo(a, n) == IsInEffect(a) /\ n \in Versions[a]

\* Mutant: an alert is passed on only by those it is meant for.
RelayedByAddressed(e, s, known, fVersion) ==
    SelectSeq(s, LAMBDA a : a \notin known /\ AppliesTo(a, e[1]))

\* RelayTo, for the alerts of s in turn and the end e: those sent.  All of
\* them are then in setKnown, if they are in effect.  A peer that has not sent
\* its version has the version 0.
Relayed(e, s, known, fVersion) ==
    LET Sent(a) == /\ IsInEffect(a) /\ a \notin known
                   /\ \/ fVersion /\ AppliesTo(a, e[2])
                      \/ AppliesTo(a, e[1])
                      \/ now < nRelayUntil[a]
    IN SelectSeq(s, Sent)

\* What ProcessAlert leaves of the alerts S: what a cancels and what has
\* expired goes, even if a itself turns out to be cancelled.
Kept(S, a) == {b \in S : ~Cancels(a, b) /\ IsInEffect(b)}

CancelledBy(S, a) == \E b \in S : Cancels(b, a)

-----------------------------------------------------------------------------
(* n takes an alert message of m                                           *)

\* Nothing is heard before the version; an alert that m is known to have, that
\* is ignored or not in effect any more changes nothing.
Heard(n, m, a) ==
    <<n, m>> \in greeted /\ a \notin setKnown[<<n, m>>] \cup Ignored /\ IsInEffect(a)

AlertDropped(n, m, a) ==
    /\ ~Heard(n, m, a)
    /\ UNCHANGED <<mapAlerts, setKnown, seen, early>>
    /\ pipe' = [pipe EXCEPT ![<<m, n>>] = Tail(@)]

AlertCancelled(n, m, a) ==
    /\ Heard(n, m, a)
    /\ CancelledBy(Kept(mapAlerts[n], a), a)
    /\ mapAlerts' = [mapAlerts EXCEPT ![n] = Kept(@, a)]
    /\ seen' = [seen EXCEPT ![n] = @ \cup {a}]
    /\ UNCHANGED <<setKnown, early>>
    /\ pipe' = [pipe EXCEPT ![<<m, n>>] = Tail(@)]

\* n shows a and passes it on to every peer, known being setKnown and rest the
\* messages on the way so far.
ShowAndRelay(n, a, known, rest) ==
    LET peers == {e \in End : e[1] = n /\ Stands(e)}
    IN /\ mapAlerts' = [mapAlerts EXCEPT ![n] = Kept(@, a) \cup {a}]
       /\ setKnown' = [e \in End |-> IF e \in peers THEN known[e] \cup {a} ELSE known[e]]
       /\ pipe' = [e \in End |-> IF e \in peers THEN rest[e] \o Relayed(e, <<a>>, known[e], e \in greeted)
                                                ELSE rest[e]]
       /\ seen' = [seen EXCEPT ![n] = @ \cup {a}]
       /\ early' = early \cup {<<e, a>> : e \in peers \ greeted}

AlertAccepted(n, m, a) ==
    /\ Heard(n, m, a)
    /\ ~CancelledBy(Kept(mapAlerts[n], a), a)
    /\ ShowAndRelay(n, a, [setKnown EXCEPT ![<<n, m>>] = @ \cup {a}],
                    [pipe EXCEPT ![<<m, n>>] = Tail(@)])

ReceiveAlert(n, m) ==
    /\ pipe[<<m, n>>] # << >> /\ Head(pipe[<<m, n>>]) # Version
    /\ LET alert == Head(pipe[<<m, n>>])
       IN AlertDropped(n, m, alert) \/ AlertCancelled(n, m, alert) \/ AlertAccepted(n, m, alert)
    /\ UNCHANGED <<up, greeted, issued, now, nBreaks>>

\* The version handler: n answers with its own version if m dialled, and tells
\* m about every alert it shows.
ReceiveVersion(n, m) ==
    /\ pipe[<<m, n>>] # << >> /\ Head(pipe[<<m, n>>]) = Version
    /\ greeted' = greeted \cup {<<n, m>>}
    /\ \E s \in SetToSeqs(mapAlerts[n]) :
          pipe' = [pipe EXCEPT ![<<m, n>>] = Tail(@), ![<<n, m>>] =
             @ \o (IF <<n, m>> \in Link THEN << >> ELSE <<Version>>)
               \o Relayed(<<n, m>>, s, setKnown[<<n, m>>], TRUE)]
    /\ setKnown' = [setKnown EXCEPT ![<<n, m>>] =
          @ \cup {a \in mapAlerts[n] : IsInEffect(a)}]
    /\ UNCHANGED <<mapAlerts, up, issued, seen, early, now, nBreaks>>

-----------------------------------------------------------------------------
(* The holder of the key, the clock and the network                        *)

\* The holder of the key connects to n for a moment and sends a.
Issue(n, a) ==
    /\ a \notin issued /\ issued' = issued \cup {a}
    /\ IF a \in Ignored \/ ~IsInEffect(a)
       THEN UNCHANGED <<mapAlerts, setKnown, pipe, seen, early>>
       ELSE IF CancelledBy(Kept(mapAlerts[n], a), a)
       THEN /\ mapAlerts' = [mapAlerts EXCEPT ![n] = Kept(@, a)]
            /\ seen' = [seen EXCEPT ![n] = @ \cup {a}]
            /\ UNCHANGED <<setKnown, pipe, early>>
       ELSE ShowAndRelay(n, a, setKnown, pipe)
    /\ UNCHANGED <<up, greeted, now, nBreaks>>

Tick ==
    /\ now < MaxTime /\ now' = now + 1
    /\ UNCHANGED <<mapAlerts, setKnown, pipe, up, greeted, issued, seen, early, nBreaks>>

Connect(l) ==
    /\ l \in Link \ up /\ up' = up \cup {l}
    /\ pipe' = [pipe EXCEPT ![l] = <<Version>>]
    /\ UNCHANGED <<mapAlerts, setKnown, greeted, issued, seen, early, now, nBreaks>>

Disconnect(l) ==
    LET ends == {l, Opposite(l)}
    IN /\ l \in up /\ nBreaks < MaxBreaks
       /\ up' = up \ {l} /\ nBreaks' = nBreaks + 1
       /\ greeted' = greeted \ ends
       /\ setKnown' = [e \in End |-> IF e \in ends THEN {} ELSE setKnown[e]]
       /\ pipe' = [e \in End |-> IF e \in ends THEN << >> ELSE pipe[e]]
       /\ early' = {x \in early : x[1] \notin ends}
       /\ UNCHANGED <<mapAlerts, issued, seen, now>>

-----------------------------------------------------------------------------
Init ==
    /\ mapAlerts = [n \in Node |-> {}]
    /\ setKnown = [e \in End |-> {}]
    /\ pipe = [e \in End |-> << >>]
    /\ up = {} /\ greeted = {}
    /\ issued = {} /\ seen = [n \in Node |-> {}] /\ early = {} /\ now = 0 /\ nBreaks = 0

Next ==
    \/ \E e \in End : ReceiveAlert(e[1], e[2])
    \/ \E e \in End : ReceiveVersion(e[1], e[2])
    \/ \E n \in Node, a \in Alert : Issue(n, a)
    \/ Tick
    \/ \E l \in Link : Connect(l) \/ Disconnect(l)

Spec == Init /\ [][Next]_vars

-----------------------------------------------------------------------------
TypeOK ==
    /\ mapAlerts \in [Node -> SUBSET Alert]
    /\ setKnown \in [End -> SUBSET Alert]
    /\ pipe \in [End -> Seq(Alert \cup {Version})]
    /\ up \subseteq Link /\ greeted \subseteq End
    /\ issued \subseteq Alert /\ now \in 0 .. MaxTime

\* No node shows an alert beside one that cancels it, whichever of the two
\* came first and whatever expired in between.
CancelledNotShown ==
    \A n \in Node : \A a, b \in mapAlerts[n] : a # b => ~Cancels(a, b)

\* Alerts spread: on a link with nothing on its way, what one end shows the
\* other has shown too, or has refused as cancelled; past links that break,
\* alerts that cross, cancel each other and expire, and whichever end dialled.
\* Exempt are alerts meant for neither version, and those accepted while the
\* handshake was under way: RelayTo has put them into setKnown by the time the
\* peer's version comes, and before the peer listens.
AlertsSpread ==
    \A e \in End :
        /\ {e, Opposite(e)} \subseteq greeted
        /\ pipe[e] = << >> /\ pipe[Opposite(e)] = << >>
        => \A a \in mapAlerts[e[1]] :
              \/ ~IsInEffect(a) \/ Versions[a] \cap {e[1], e[2]} = {} \/ <<e, a>> \in early
              \/ a \in seen[e[2]]
=============================================================================
