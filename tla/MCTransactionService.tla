------------------------ MODULE MCTransactionService ------------------------
(* Instances of TransactionService for TLC. *)
EXTENDS TransactionService, TLC

CONSTANTS alice, bob, carol, r1, r2, r3

\* Opposite transfers between two users, the recipients' credits rounding down
\* (2 tokens) and up (5 tokens).
MCOrder == r1 :> [from |-> alice, via |-> "own", to |-> bob, amount |-> 2]
        @@ r2 :> [from |-> bob, via |-> "own", to |-> alice, amount |-> 5]
MCLedger == alice :> 50 @@ bob :> 30
MCHeld == alice :> 40 @@ bob :> 50
MCWalletOwner == {alice, bob}

\* Everything else a request can be, one connection for all of them: to an
\* address, to a wallet that has no balance row, a transfer that takes a balance
\* out of the column's range, and a sender given by address.
EdgeOrder == r1 :> [from |-> alice, via |-> "own", to |-> External, amount |-> 2]
          @@ r2 :> [from |-> alice, via |-> "own", to |-> carol, amount |-> 1]
          @@ r3 :> [from |-> bob, via |-> "known", to |-> alice, amount |-> 1]
\* Earlier transfers have left alice's row far below zero.
EdgeLedger == alice :> -660 @@ bob :> 30
EdgeHeld == alice :> 30 @@ bob :> 50 @@ carol :> 0
=============================================================================
