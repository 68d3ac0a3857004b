--------------------------- MODULE MC_BankServer ---------------------------
(* Two slots, a ring of two, one amount: enough for a close that moves an   *)
(* account, a stale slot that is opened again, a ring that wraps, and a     *)
(* file cut between two accounts.  The first start finds no file or that of *)
(* a bank with two accounts.                                                *)
EXTENDS BankServerAtomic

MCAmounts == {2}

Holder == CHOOSE name \in Names : TRUE
Pin    == CHOOSE pin \in Pins : TRUE

TwoAccounts == Opened(Opened(FreshHeap, Holder, Pin), Holder, Pin)

MCFirstFiles == {NoFile, Image(TwoAccounts)}
=============================================================================
