------------------------------ MODULE MCFrontDoor ------------------------------
(* Two requests about one agent, in six deployments. *)
EXTENDS FrontDoor, TLC

CONSTANTS r1, r2, t1, t2, a1, alice, bob

MCRequests == {r1, r2}
MCTenants  == {t1, t2}
MCAgents   == {a1}
MCAccounts == {alice, bob}
MCBound    == (alice :> t1) @@ (bob :> NoTenant)
MCEdge     == {alice}
MCPermitted == (MCTenants \X {"run", "register"}) \cup {<<t1, "delete">>}

Deploy(authn, mode, wired, cc, writable, quota) ==
  [authn |-> authn, mode |-> mode, wired |-> wired, cc |-> cc, writable |-> writable,
   metered |-> quota >= 0, quota |-> IF quota >= 0 THEN quota ELSE 0,
   opa |-> authn # "token"]

MCDeployments ==
  { Deploy("cognito", "agentcore", {"agentcore", "runtask"}, TRUE, TRUE, 1),
    Deploy("token", "agentcore", {"agentcore"}, FALSE, TRUE, 1),
    Deploy("gcp-oidc", "agentengine", {"agentengine"}, FALSE, FALSE, 1),
    Deploy("oidc-sa", "inprocess", {}, FALSE, FALSE, -1),
    Deploy("mesh-id", "inprocess", {}, FALSE, FALSE, 0),
    Deploy("mesh", "inprocess", {}, FALSE, FALSE, 0) }

Bearer(by, use, tenants, subject) ==
  [bearer |-> [by |-> by, live |-> TRUE, aud |-> TRUE, use |-> use, tenants |-> tenants,
               subject |-> subject, confirmed |-> TRUE], hops |-> <<>>]

MCSent ==
  "cognito"  :> {Bearer("cognito", "id", {t1}, alice), Bearer("cognito", "access", {t1, t2}, bob)}
  @@ "token"    :> {Bearer("operator", "id", {}, alice), Anonymous}
  @@ "gcp-oidc" :> {Bearer("google", "id", {}, alice), Bearer("google", "id", {}, bob)}
  @@ "oidc-sa"  :> {Bearer("cluster", "id", {}, alice), Bearer("cluster", "id", {}, bob),
                    Bearer("google", "id", {t1}, alice)}
  @@ "mesh-id"  :> {[Anonymous EXCEPT !.hops = <<bob, alice>>], [Anonymous EXCEPT !.hops = <<alice, bob>>]}
  @@ "mesh"     :> {Bearer("google", "id", {t1}, alice), Anonymous}

MCSeeds == [MCAgents -> {NoSpec, [kind |-> "claude-code", tenant |-> NoTenant],
                         [kind |-> "loop", tenant |-> t2]}]

MCEdits == {NoSpec, [kind |-> "claude-code", tenant |-> t2]}

MCMay == (r1 :> {<<"run", "console">>, <<"read", "console">>})
         @@ (r2 :> {<<"run", "a2a">>, <<"register", "console">>, <<"delete", "console">>})
===============================================================================
