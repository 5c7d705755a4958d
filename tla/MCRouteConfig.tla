--------------------------- MODULE MCRouteConfig ---------------------------
(***************************************************************************)
(* Two calls that may overlap. The first asks for any operation; the       *)
(* second for one of those that get in the way of others.                  *)
(***************************************************************************)
EXTENDS RouteConfig, TLC

MCCalls == 1 .. 2

Ask(k, b, a, s) == [kind |-> k, b |-> b, addr |-> a, names |-> s]

Fix == Ask("AutoFix", Unset, Zero, {"stateMachineId", "destinationContract"})

MCOps ==
    << { Ask("Preflight", 0, Zero, {}),
         Ask("Config", 1, Zero, {"chainSelector", "destinationAdapter", "trustedSender"}),
         Ask("Config", 2, Zero, {"route"}),
         Ask("Config", 3, Zero, {"relayerFee"}),
         Ask("E2E", 2, "other", {"register", "default", "route", "peer"}),
         Ask("E2E", 2, Zero, {"route", "delegate"}),
         Ask("AutoFix", 1, Zero, {}),
         Ask("AutoFix", 2, Zero, {}),
         Ask("AutoFix", 3, Zero, {}),
         Fix },
       { Ask("Register", 0, "hyper2", {}),
         Ask("SetDefault", 2, Zero, {}),
         Ask("Config", 0, Zero, {"stateMachineId", "destinationContract"}),
         Fix } >>

\* No adapter is registered, or all of the database's are.
MCInitAdapters ==
    { [b \in Bridges |-> Zero],
      (0 :> "hyper" @@ 1 :> "ccip" @@ 2 :> "stargate" @@ 3 :> "hyper") }

\* Any one of the reads of GetStatus fails, or all of them.
MCOutages == {{r} : r \in Reads} \cup {Reads}

\* Every script of these calls consists of steps with known setters.
ASSUME ScriptsAssumption ==
    \A o \in DOMAIN Scripts : \A i \in 1 .. Len(Scripts[o]) : Scripts[o][i].names \subseteq Names

=============================================================================
