----------------------------- MODULE MCReceipts -----------------------------
(* Receipts on small instances.                                            *)
EXTENDS Receipts, TLC

Symmetry == Permutations(ReceiptId) \cup Permutations(Document) \cup Permutations(Plan)

=============================================================================
