----------------------------- MODULE MCLeadCache ------------------------------
(***************************************************************************)
(* Instances of LeadCache for TLC.  Which operation each request is, is    *)
(* chosen in the initial state; Requests is a set of numbers here, and     *)
(* requests are interchangeable.                                           *)
(***************************************************************************)
EXTENDS LeadCache

Order == <<"create", "update", "score", "get", "list", "latest">>

Rank(operation) == CHOOSE i \in DOMAIN Order : Order[i] = operation

\* One of the orders in which the same operations may be given to the requests.
Sorted == \A q, r \in Requests : q < r => Rank(op[q]) <= Rank(op[r])

\* The last request reads what the first one writes.
Related ==
  <<op[1], op[3]>> \in ({"create", "update"} \X {"get", "list"}) \cup {<<"score", "latest">>}

SortedInit == Init /\ Sorted /\ Related

SortedSpec == SortedInit /\ [][Next]_vars /\ Fairness
===============================================================================
