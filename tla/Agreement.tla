------------------------------ MODULE Agreement ------------------------------
(***************************************************************************)
(* What CallManager promises of voice calls: a call has two parties, the   *)
(* callee agrees to it at most once, the caller talks in it only after     *)
(* that, nobody else talks in it, and nobody goes from one call into       *)
(* another without leaving the first.                                      *)
(***************************************************************************)
CONSTANTS
    Nodes,
    NoNode,
    Calls,
    NoCall

VARIABLES
    parties, \* [Calls -> caller and callee, once the call has been made]
    agreed,  \* the calls the callee has agreed to
    talking  \* [Nodes -> the call a node talks in]

avars == <<parties, agreed, talking>>

Unmade == [from |-> NoNode, to |-> NoNode]

Init ==
    /\ parties = [i \in Calls |-> Unmade]
    /\ agreed = {}
    /\ talking = [n \in Nodes |-> NoCall]

\* Who makes a call talks in none.
Make(n, p, i) ==
    /\ n # p /\ parties[i] = Unmade /\ talking[n] = NoCall
    /\ parties' = [parties EXCEPT ![i] = [from |-> n, to |-> p]]
    /\ UNCHANGED <<agreed, talking>>

\* The callee agrees, and talks unless its engine does not start.
Agree(n, i) ==
    /\ parties[i].to = n /\ i \notin agreed
    /\ agreed' = agreed \cup {i}
    /\ \/ talking[n] = NoCall /\ talking' = [talking EXCEPT ![n] = i]
       \/ UNCHANGED talking
    /\ UNCHANGED parties

\* The caller joins in.
Join(n, i) ==
    /\ parties[i].from = n /\ i \in agreed /\ talking[n] = NoCall
    /\ talking' = [talking EXCEPT ![n] = i]
    /\ UNCHANGED <<parties, agreed>>

Leave(n) ==
    /\ talking' = [talking EXCEPT ![n] = NoCall]
    /\ UNCHANGED <<parties, agreed>>

Next ==
    \E n \in Nodes :
        \/ \E i \in Calls : (\E p \in Nodes : Make(n, p, i)) \/ Agree(n, i) \/ Join(n, i)
        \/ Leave(n)

Spec == Init /\ [][Next]_avars
=============================================================================
