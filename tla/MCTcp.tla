------------------------------- MODULE MCTcp -------------------------------
EXTENDS Tcp

Base == [mss |-> 1, rx |-> 3, writes |-> [h \in Hosts |-> IF h = "client" THEN 1 ELSE 0], closers |-> {},
         chunk |-> 2,
         closeTwice |-> FALSE, losses |-> 0, dups |-> 0, swaps |-> 0]
Writes(n) == [h \in Hosts |-> IF h = "client" THEN n ELSE 0]

\* two lost packets, and nobody closes
Transfer == {[Base EXCEPT !.writes = Writes(2), !.losses = 2]}

\* both close while a packet is repeated; a lost packet while the listener is closed, too;
\* packets of two bytes that overtake each other; packets repeated and overtaken, and a window
\* of one byte; a write that does not fit tx_buffer, while a packet is lost and both close
Failures == {[Base EXCEPT !.closers = Hosts, !.closeTwice = TRUE, !.dups = 1, !.rx = 5],
             [Base EXCEPT !.closers = Hosts \cup {"listener"}, !.losses = 1],
             [Base EXCEPT !.mss = 2, !.chunk = 1, !.writes = Writes(2), !.closers = {"client"}, !.swaps = 1],
             [Base EXCEPT !.writes = Writes(2), !.rx = 2, !.dups = 1, !.swaps = 1],
             [Base EXCEPT !.mss = 2, !.chunk = 3, !.writes = Writes(3), !.closers = Hosts, !.losses = 1]}

OneLoss == {[Base EXCEPT !.mss = 2, !.chunk = 1, !.writes = Writes(2), !.losses = 1]}
OneRepeat == {[Base EXCEPT !.closers = Hosts, !.dups = 1]}
Overtaken == {[Base EXCEPT !.closers = {"client"}, !.swaps = 1]}
TwoCloses == {[Base EXCEPT !.closers = {"client"}, !.closeTwice = TRUE]}
ListenerCloses == {[Base EXCEPT !.closers = {"listener"}]}
=============================================================================
