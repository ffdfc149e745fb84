------------------------------ MODULE MCServices ------------------------------
(***************************************************************************)
(* The life of cases, unattended replies, the paging of lists and the      *)
(* screening of texts, in one run: each module has its own rows, and one   *)
(* of them has work to do in a behaviour.                                  *)
(***************************************************************************)
EXTENDS CaseLifecycle, Autonomy, Listing, Prefilter

CONSTANT s1

OneSweeper == {s1}
\* What the routing seam may say of a message. The first may be chitchat or
\* open a case by itself; the second may raise two issues, if the first was
\* only about the case at hand.
AnySignal == {"none", "chitchat", "new", "match", "confirm", "split"}
FewTurns ==
    \A m, n \in Messages :
        /\ msg[m].signal \in {"chitchat", "new"} => m = 1
        /\ msg[m].signal = "split" => m > 1 /\ (n < m => msg[n].signal = "none")
\* Two messages on one case and one on another of the same property, which is
\* routine.
TwoCases == <<1, 1, 2>>
CalmCase == \A m \in Requests : CaseOf[m] = 2 => request[m].severity \in {"none", "routine"}
OneProperty == <<1, 1>>

VARIABLE work  \* what there is to do

ServicesInit ==
    /\ work \in {"cases", "replies", "lists", "texts"}
    /\ Init /\ AutonomyInit /\ ListInit /\ PrefilterInit
    /\ work = "replies" \/ (/\ \A m \in Requests : ~request[m].hard
                            /\ \A p \in RatedProperties : ledger[p] = <<>>)
    \* Ladders at their foot or at their top; at most one HARD hit, on the
    \* case of two messages and where autonomy is earned.
    /\ \A p \in RatedProperties : Len(ledger[p]) \in {0, Threshold}
    /\ \A m, n \in Requests : request[m].hard =>
           /\ m < MaxRequest
           /\ request[n].hard => m = n
           /\ \A p \in RatedProperties : ledger[p] # <<>>
    /\ work = "lists" \/ (list = "cases" /\ \A r \in Rows : stamp[r] = 0)

ServicesNext ==
    /\ UNCHANGED work
    /\ \/ work = "cases" /\ Next /\ FewTurns' /\ UNCHANGED <<trustVars, listVars, text>>
       \/ work = "replies" /\ AutonomyNext /\ CalmCase' /\ UNCHANGED <<vars, listVars, text>>
       \/ work = "lists" /\ ListNext /\ UNCHANGED <<vars, trustVars, text>>
       \/ work = "texts" /\ PrefilterNext /\ UNCHANGED <<vars, trustVars, listVars>>

ServicesSpec == ServicesInit /\ [][ServicesNext]_<<work, vars, trustVars, listVars, text>>
-----------------------------------------------------------------------------

\* Every variable keeps its type: no reply is written in words that failed the
\* guards, no page is longer than asked for.
ServicesTypeOK ==
    /\ work = "cases" => TypeOK
    /\ work = "replies" => AutonomyTypeOK
    /\ work = "lists" => ListTypeOK
    /\ work = "texts" => PrefilterTypeOK
=============================================================================
