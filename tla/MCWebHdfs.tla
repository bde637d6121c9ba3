----------------------------- MODULE MCWebHdfs -----------------------------
(* Instances of WebHdfs for TLC. *)
EXTENDS WebHdfs

CONSTANTS n1, n2, n3

OneToThree == {<<n1>>, <<n1, n2>>, <<n1, n2, n3>>}
Three == {<<n1, n2, n3>>}
=============================================================================
