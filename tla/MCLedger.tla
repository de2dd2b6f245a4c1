------------------------------ MODULE MCLedger ------------------------------
(* A small instance of Ledger: two voters, one of them with a delegation     *)
(* address of its own, a finalizer that is also a voter, and the burn        *)
(* address.                                                                  *)
EXTENDS Ledger

MCVoters == {"v1", "v2"}
MCAddressesOf == [v \in MCVoters |-> IF v = "v1" THEN {"id1", "del1"} ELSE {"id2"}]

ClaimOf(to, type, amount) == [to |-> to, type |-> type, amount |-> amount]
MCRawClaims ==
  {ClaimOf("burn", "Direct", a) : a \in {0, 2}}
  \cup {ClaimOf("id1", "Fee", a) : a \in {-2, 0, 1, 2}}
  \cup {ClaimOf("id1", "Direct", 1)}
  \cup {ClaimOf("del1", "WNat", a) : a \in {-1, 2}}
  \cup {ClaimOf("id2", "Fee", 3)}

MCPasses == {0, 1}
MCPassDeltas == {-1, 0, 1}
=============================================================================
