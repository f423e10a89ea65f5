------------------------------ MODULE MCServer ------------------------------
(***************************************************************************)
(* Small instances, for TLC, of the parts of the server that share no       *)
(* state: the tables of clients and of gateways, the rate limits of the     *)
(* token endpoint, the trusted devices, the first user, the forced change   *)
(* of a password, the standing of a user and the life of the process.  A    *)
(* behaviour is one of one part, the others stay as they begin; one of the  *)
(* devices is of a long time without a reset, or of a short one with it.    *)
(***************************************************************************)
EXTENDS MCClientTable, GatewayTable, RateLimits, TrustedDevices, FirstUser, Lifecycle, ForcedChange, Standing

VARIABLE part   \* the part this behaviour is one of

\* The files: none of the gateways, or any with one of the targets.
SmallGatewayFiles == {<<>>} \cup {g :> t : g \in Gateways, t \in Targets}
SmallMax == [b \in Addresses \cup {Client} |-> IF b = Client THEN 2 ELSE 1]

serverVars == <<part, clientVars, gatewayVars, limitVars, deviceVars, setupVars, forcedVars, standingVars, lifeVars>>

ServerInit ==
    /\ part \in {"clients", "gateways", "limits", "devices", "resets", "setup", "password", "standing", "life"}
    /\ Init /\ GatewaysInit /\ LimitsInit /\ SetupInit /\ DevicesInit /\ ForcedInit /\ StandingInit /\ LifeInit
    /\ part = "clients" \/ \A b \in Budgets : calls <= b.calls

ServerNext ==
    \/ part = "clients" /\ Next
       /\ UNCHANGED <<part, gatewayVars, limitVars, deviceVars, setupVars, forcedVars, standingVars, lifeVars>>
    \/ part = "gateways" /\ GatewaysNext
       /\ UNCHANGED <<part, clientVars, limitVars, deviceVars, setupVars, forcedVars, standingVars, lifeVars>>
    \/ part = "limits" /\ LimitsNext
       /\ UNCHANGED <<part, clientVars, gatewayVars, deviceVars, setupVars, forcedVars, standingVars, lifeVars>>
    \/ part = "devices" /\ DevicesNext /\ reset' = reset
       /\ UNCHANGED <<part, clientVars, gatewayVars, limitVars, setupVars, forcedVars, standingVars, lifeVars>>
    \/ part = "resets" /\ DevicesNext /\ now' <= 1
       /\ UNCHANGED <<part, clientVars, gatewayVars, limitVars, setupVars, forcedVars, standingVars, lifeVars>>
    \/ part = "setup" /\ SetupNext
       /\ UNCHANGED <<part, clientVars, gatewayVars, limitVars, deviceVars, forcedVars, standingVars, lifeVars>>
    \/ part = "password" /\ ForcedNext
       /\ UNCHANGED <<part, clientVars, gatewayVars, limitVars, deviceVars, setupVars, standingVars, lifeVars>>
    \/ part = "standing" /\ StandingNext
       /\ UNCHANGED <<part, clientVars, gatewayVars, limitVars, deviceVars, setupVars, forcedVars, lifeVars>>
    \/ part = "life" /\ LifeNext
       /\ UNCHANGED <<part, clientVars, gatewayVars, limitVars, deviceVars, setupVars, forcedVars, standingVars>>

ServerSpec == ServerInit /\ [][ServerNext]_serverVars /\ SetupFairness /\ LifeFairness

\* Every variable of every part stays in its type.
AllTypeOK ==
    /\ part = "clients" => TypeOK
    /\ part = "gateways" => GatewaysTypeOK
    /\ part = "limits" => LimitsTypeOK
    /\ part \in {"devices", "resets"} => DevicesTypeOK
    /\ part = "setup" => SetupTypeOK
    /\ part = "password" => ForcedTypeOK
    /\ part = "standing" => StandingTypeOK
    /\ part = "life" => LifeTypeOK

\* Both tables that a start-up brings into line keep the same promise about whose
\* a row is, with the same abstract table (gateways/reconcile.ts,
\* oidc/reconcile.ts and the endpoints of both).
OwnersPassAsPromised == OwnersChangeAsPromised /\ ClientOwnersChangeAsPromised
=============================================================================
