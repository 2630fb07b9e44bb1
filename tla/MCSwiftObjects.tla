--------------------------- MODULE MCSwiftObjects ---------------------------
(* Instance of SwiftObjects for TLC: the transaction "t" has the outputs "o" *)
(* and "q", which differ in their amounts, and both have the script "s".     *)
EXTENDS SwiftObjects, TLC

Types == [t |-> "Transaction", o |-> "TransactionOutput", q |-> "TransactionOutput",
          s |-> "ScriptPubkey"]
AllValues == DOMAIN Types
Parts == [t |-> {"o", "q"}, o |-> {"s"}, q |-> {"s"}, s |-> {}]
Bytes == {"t", "s"}
Symmetry == Permutations(Inst) \cup Permutations(Obj)
=============================================================================
