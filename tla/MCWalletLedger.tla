--------------------------- MODULE MCWalletLedger ---------------------------
(* Instances of WalletLedger for TLC. *)
EXTENDS WalletLedger, TLC

CONSTANTS reader, lister, credit, refresh

\* A balance of 2 tokens that becomes 2.5, and a credit of one token: the credit
\* finds a whole number and a fraction that it cannot be joined to, and the
\* column holds the smallest units of the first balance, not of the second.
MCHeld == <<20, 25>>
MCKind == reader :> "read" @@ credit :> "credit" @@ refresh :> "refresh"
MCCredit == {0, 10}
MCRow == NoRow

\* A client that asks for all balances: the fallback of getAllBalances shows it what
\* the refresh left in the row.
ListKind == lister :> "readAll" @@ refresh :> "refresh"
=============================================================================
