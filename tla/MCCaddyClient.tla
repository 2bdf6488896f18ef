--------------------------- MODULE MCCaddyClient ---------------------------
(* CaddyClient on two identifiers and two payloads.                        *)
EXTENDS CaddyClient, TLC

CONSTANTS c1, c2, i1, i2, d1, d2

MCClients  == {c1, c2}
MCIds      == {i1, i2}
MCPayloads == {d1, d2}

Ready  == [k \in {"tls", "route"} |-> "ready"]
Apart  == c1 :> {i1} @@ c2 :> {i2}
Single == c1 :> {i1, i2} @@ c2 :> {}
Same   == c1 :> {i1} @@ c2 :> {i1}

Setup(parents, refuses, ids, before) ==
    [parent |-> parents, rejects |-> refuses, owned |-> ids, there |-> before]

(* Two callers, each with its own identifier, on a node that has both      *)
(* lists and accepts duplicates; one caller of both identifiers on a node  *)
(* in any state that refuses duplicates; two callers of one identifier     *)
(* beside the objects of another, on a node that refuses duplicates.       *)
MCSetups ==
         {Setup(Ready, FALSE, Apart, {}), Setup(Ready, TRUE, Same, {i2})}
    \cup {Setup(p, TRUE, Single, {}) : p \in [{"tls", "route"} -> {"none", "bare", "ready"}]}

(* The setups are of the kind the theorems are about.                      *)
ASSUME SafeSetups == PostSafe /\ NodeSafe

(* A node whose tls app is not configured. *)
NoTls == {Setup([Ready EXCEPT !["tls"] = "none"], TRUE, Single, {})}

=============================================================================
