--------------------------- MODULE MCModelCluster ---------------------------
(* Values of the constants of ModelCluster for TLC.                        *)
EXTENDS ModelClusterInv

CONSTANTS m1, m2

\* The entries: model m1 with two deployments and two addresses, m2 with one.
Entry(m, d, e, i, s) ==
  [model |-> m, deployment |-> d, endpoint |-> e, infos |-> i, state |-> s]

MCUpdates ==
  {Entry(m1, 1, 1, 1, "RUNNING"), Entry(m1, 1, 1, 2, "RUNNING"),
   Entry(m1, 1, 2, 1, "RUNNING"), Entry(m1, 2, 1, 1, "RUNNING"),
   Entry(m1, 1, 1, 1, "STOPPED"), Entry(m1, 2, 1, 1, "RECOVERING"),
   Entry(m2, 3, 3, 1, "RUNNING"), Entry(m2, 3, 3, 1, "STOPPED")}

\* The well-formed lists of entries.
MCPayloads ==
  {d \in UNION {[1 .. n -> MCUpdates] : n \in 0 .. MaxData} : WellFormed(d)}

\* One model: what races on its entry need.
OneModelPayloads == {d \in MCPayloads : \A i \in DOMAIN d : d[i].model = m1}

\* Two models, one deployment of each: what siblings that outlive their event need.
OneDeploymentPayloads ==
  {d \in MCPayloads : \A i \in DOMAIN d : d[i].deployment # 2 /\ d[i].infos = 1}
=============================================================================
