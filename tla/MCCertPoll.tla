----------------------------- MODULE MCCertPoll -----------------------------
(* CertPoll on one node: an AddRoute of one domain beside a replay of two. *)
EXTENDS CertPoll, TLC

CONSTANTS c1, c2, d1, d2

MCBatches == c1 :> {{d1}} @@ c2 :> {{d1, d2}}

(* One AddRoute alone. *)
OneBatch == c1 :> {{d1}}

=============================================================================
