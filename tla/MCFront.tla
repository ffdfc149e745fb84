------------------------------- MODULE MCFront -------------------------------
(***************************************************************************)
(* Small instances of what a text meets first: the webhook's decision whose *)
(* text it is, the pools its work draws connections from, and what is      *)
(* recorded of it while Twilio delivers it again or two machines sweep.  Each *)
(* module has its own rows, and one of them has work to do in a behaviour. *)
(***************************************************************************)
EXTENDS MCIntake, Pools, Routing

\* Two of three jobs are about the same case.
TwoCasesOfJobs == <<1, 1, 2>>

VARIABLE busy  \* what there is to do in this behaviour

FrontInit ==
    /\ busy \in {"redelivery", "sweeps", "routing", "pools"}
    /\ Init /\ RoutingInit /\ PoolsInit
    /\ busy = "redelivery" \/ tier0 \in [Messages ->
                                        IF busy = "sweeps" THEN Routed ELSE Plain]
    /\ busy = "pools" \/ kind = [j \in Jobs |-> "tick"]
    /\ busy = "routing" \/ (/\ content = [s \in Sids |-> "other"]
                            /\ number /\ owner /\ tenancy = "none")

\* A message is delivered again, or two machines sweep its retry row, not both.
OneSweeps == proc'[t2].pc = "idle"
DeliveredOnce == crashes' = 0 /\ \A m \in Messages : proc'[<<m, 2>>].pc = "unsent"

FrontNext ==
    /\ UNCHANGED busy
    /\ \/ busy = "redelivery" /\ Next /\ OneSweeps /\ UNCHANGED <<routingVars, poolVars>>
       \/ busy = "sweeps" /\ Next /\ DeliveredOnce /\ UNCHANGED <<routingVars, poolVars>>
       \/ busy = "routing" /\ RoutingNext /\ UNCHANGED <<vars, poolVars>>
       \/ busy = "pools" /\ PoolsNext /\ UNCHANGED <<vars, routingVars>>

FrontSpec == FrontInit /\ [][FrontNext]_<<busy, vars, routingVars, poolVars>>
=============================================================================
