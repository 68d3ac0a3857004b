---------------------------- MODULE MC_JsonFile ----------------------------
EXTENDS JsonFile

MCNames == {<<34, 92>>, <<8, 31>>, <<65, 195>>}

Bank1 == Opened(FreshHeap, <<34, 92>>, 7)
Wrapped == Withdrawn(Deposited(Bank1, 0, 2), 0, 2)

MCHeaps == {FreshHeap, Opened(Wrapped, <<8, 31, 44>>, 7), Opened(Bank1, <<65, 195, 169>>, 7)}
=============================================================================
