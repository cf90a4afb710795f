-------------------------- MODULE MCInfrastructure -------------------------
(***************************************************************************)
(* Infrastructure with three components, on AWS with one address pool or   *)
(* two, or documents of the user's own; on Azure with the components in    *)
(* any order of two pools, and each switch of the input file; and with     *)
(* three components of another cluster to configure, of which the balancer *)
(* selects its document.                                                   *)
(***************************************************************************)
EXTENDS Infrastructure

CONSTANTS
    master, node, kafka,                            \* components
    p1, p2, p3, za, zb, ssh, api, bus, k1, k2, k3,  \* pools, zones, rules, keys
    web, rhel, ubuntu,                              \* an availability set, distributions
    haproxy, m1, m2, m3                             \* a role, machines

MCOrder == <<master, node, kafka>>
MCPools == {p1, p2, p3}
MCRules == {ssh, api, bus}
MCZones == {za, zb}
MCKeyNames == {k1, k2, k3}
MCSets == {web}
MCDistros == {rhel, ubuntu}
MCWithCloudConfig == {rhel}

MCAwsFiles ==
  LET one == <<<<p1, za>>>>
      two == <<<<p1, za>>, <<p2, zb>>>>
      component(n, s, r, e) == [count |-> n, subnets |-> s, rules |-> r, efs |-> e]
      layout(own, n, s, t, e) ==
        [own |-> own, components |->
          [c \in {master, node, kafka} |->
            CASE c = master -> component(n[1], s, {ssh, api}, {"mount", "authorized"})
              [] c = node   -> component(n[2], t, {ssh, bus}, e)
              [] c = kafka  -> component(n[3], <<<<p2, zb>>, <<p3, zb>>>>, {bus}, {})]]
  IN {layout({}, n, s, t, {"authorized"}) :
        n \in {<<1, 1, 1>>, <<0, 2, 1>>, <<2, 1, 0>>, <<1, 0, 1>>}, s \in {one, two}, t \in {one, two}}
     \cup {layout({}, <<1, 1, 1>>, s, <<<<p3, za>>>>, {"mount", "authorized"}) : s \in {one, two}}
     \cup {layout(own, <<1, 1, 1>>, s, s, {}) : own \in {{"subnet"}, {"launch-configuration"}}, s \in {one, two}}

Letters(n) == [i \in 1..n |-> "a"]
MCAzureFiles ==
  LET component(n, p, r, d, set) == [count |-> n, pools |-> p, rules |-> r, distro |-> d, set |-> set]
      layout(counts, p, q, distro, set) ==
        [c \in {master, node, kafka} |->
            CASE c = master -> component(counts[1], <<p1>>, {ssh}, rhel, None)
              [] c = node   -> component(counts[2], <<p>>, {bus}, distro, set)
              [] c = kafka  -> component(counts[3], <<q, p1>>, {bus, ssh}, rhel, None)]
      base == [groups |-> TRUE, public |-> TRUE, cloudInit |-> TRUE, documented |-> {web},
               prefix |-> Letters(4), name |-> Letters(4),
               components |-> layout(<<1, 2, 1>>, p1, p2, rhel, web)]
  IN {[base EXCEPT !.groups = g, !.components = layout(n, p, q, rhel, set)] :
        g \in BOOLEAN, p \in {p1, p2}, q \in {p1, p2}, set \in {web, None},
        n \in {<<1, 2, 1>>, <<0, 1, 2>>, <<1, 0, 1>>}}
     \cup {[base EXCEPT !.documented = {}],
           [base EXCEPT !.public = FALSE],
           [base EXCEPT !.cloudInit = FALSE],
           [base EXCEPT !.components = layout(<<1, 2, 1>>, p1, p2, ubuntu, None)],
           [base EXCEPT !.components = layout(<<0, 2, 1>>, p1, p2, ubuntu, None)]}
     \cup {[base EXCEPT !.prefix = p, !.name = n] :
             p \in {<<>>, <<"a", "-", "a">>, Letters(8), Letters(9)},
             n \in {Letters(1), Letters(13), Letters(14), Letters(21), Letters(22), <<"a", "-", "a">>}}

MCDefinitions == <<"kubernetes-master-machine", "kubernetes-node-machine">>
MCImages == {"ubuntu-18.04", "ubuntu-20.04", "rhel-7"}
MCDefaultImage == "ubuntu-18.04"
MCDistro == [i \in MCImages |-> IF i = "rhel-7" THEN "rhel" ELSE "ubuntu"]

Written(k, n, v) == [kind |-> k, name |-> n, spec |-> v, storage |-> None]
MCConfiguredOrder == <<"masters", "balancer", "store">>
MCRoles == {haproxy, masterRole, repository, imageRegistry}
MCHosts == {m1, m2, m3}
MCDocumentNames == {"default", "own"}
MCSpecs == {"shipped", "a", "b", "c", "d", "ha", "plain"}
MCStorages == {"efs"}
MCUpgradeRoles == <<repository, imageRegistry>>
MCManifestRoles == <<haproxy, repository>>
MCApplyFiles ==
  LET component(n, s, ms) == [count |-> n, configuration |-> s, machines |-> ms]
      f(written, s, n, ms, extra) ==
        [docs |-> written, storage |-> "efs",
         enabled |-> <<repository, masterRole, haproxy>>,
         mapping |-> [c \in {"masters", "balancer", "store"} |->
                        CASE c = "masters" -> <<masterRole>>
                          [] c = "balancer" -> <<haproxy>>
                          [] c = "store" -> <<repository>> \o extra],
         components |-> [c \in {"masters", "balancer", "store"} |->
                        CASE c = "masters" -> component(1, "default", <<m1>>)
                          [] c = "balancer" -> component(n, s, ms)
                          [] c = "store" -> component(1, "default", <<m2>>)]]
  IN {f(d, s, 1, <<m3>>, <<imageRegistry, haproxy>>) : s \in {"default", "own"},
         d \in {<<Written(haproxy, "own", "a"), Written(shared, "default", "ha")>>,
                <<Written(haproxy, "default", "b"), Written(haproxy, "own", "a"), Written(masterRole, "default", "c")>>}}
     \cup {f(<<Written(shared, "default", "ha"), Written(shared, "own", "plain")>>, "default", 0, <<m3>>, <<>>),
           f(<<Written(haproxy, "default", "b")>>, "default", 1, <<m3, "m4">>, <<>>),
           f(<<>>, "own", 1, <<m3>>, <<haproxy>>), f(<<>>, "default", 1, <<>>, <<>>)}
MCUpgradeFiles == {<<>>, <<Written(haproxy, "default", "d"), Written(shared, "default", "plain")>>}
=============================================================================
