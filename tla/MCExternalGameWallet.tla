------------------------ MODULE MCExternalGameWallet ------------------------
(***************************************************************************)
(* A small instance of ExternalGameWallet: transaction ids of the session  *)
(* games are interchangeable, and so are calls.                            *)
(***************************************************************************)
EXTENDS ExternalGameWallet, TLC

Interchangeable == Permutations(Txn) \cup Permutations(Call)
=============================================================================
