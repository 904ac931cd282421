-------------------------------- MODULE Tcp --------------------------------
(***************************************************************************)
(* lib/minip/tcp.c and net_timer.c: a connection between two machines that *)
(* both run this code, over a network that may lose, repeat and reorder    *)
(* packets.  The client calls tcp_connect(); the server has a socket in    *)
(* LISTEN and accepts.  On each side one thread reads, one writes, and one *)
(* closes; the driver's thread calls tcp_input() and the timer thread the  *)
(* timers' callbacks.  A socket's lock makes each part of these that holds *)
(* it one step.                                                            *)
(*                                                                         *)
(* The i-th byte of a stream is the number i.  tx_win_high and the window  *)
(* in a packet are left out: nothing reads them.                           *)
(***************************************************************************)
EXTENDS Integers, Sequences, SequencesExt, FiniteSets

CONSTANTS TxSize,                \* tx_buffer_size
          ReadLen,               \* the length passed to tcp_read()
          SeqRange,              \* sequence numbers are modulo this (2^32)
          Scenarios,             \* what the applications do, and how the network fails
          MaxSockets,            \* bound: sockets the listener creates
          NetSize                \* bound: packets on their way to a side; replies beyond are lost

Hosts == {"client", "server"}
Peer(h) == IF h = "client" THEN "server" ELSE "client"

(***************************************************************************)
(* A scenario has mss and rx_win_size, the bytes each side writes, and in  *)
(* one call, the sides that close, may it be twice, and how many packets   *)
(* the network may lose, repeat and let overtake others.                   *)
(***************************************************************************)
ASSUME TcpAssumption ==
  /\ TxSize \in Nat \ {0}
  /\ ReadLen \in Nat \ {0} /\ MaxSockets \in Nat /\ NetSize \in Nat \ {0}
  /\ \A c \in Scenarios :
       /\ c.mss \in Nat \ {0} /\ c.rx \in Nat \ {0, 1} /\ c.chunk \in Nat \ {0} /\ c.writes \in [Hosts -> Nat] /\ c.closers \subseteq Hosts \cup {"listener"} /\ c.closeTwice \in BOOLEAN
       /\ c.losses \in Nat /\ c.dups \in Nat /\ c.swaps \in Nat
       /\ SeqRange > 2 * (2 + c.writes["client"] + c.writes["server"])

VARIABLES sock,                  \* the socket of each side
          listener,              \* the socket in LISTEN
          net,                   \* the packets on their way to each side
          rx,                    \* the packet tcp_input() has, with the socket it looked up
          firing,                \* the timer whose callback runs
          app,                   \* what the application of each side has done
          reading,               \* is a thread in tcp_read()?
          writing, left,         \* bytes left to the thread in tcp_write(), and to its next calls
          written, got,          \* bytes that went into tx_buffer; those tcp_read() returned
          made,                  \* sockets the listener created
          budget,                \* the scenario, with the faults that are left
          broken                 \* an assertion failed, or a lock was never released

threads == <<app, reading, writing, left, written, got>>
vars == <<sock, listener, net, rx, firing, threads, made, budget, broken>>

Mss == budget.mss
RxSize == budget.rx
Plus(a, b) == (a + b) % SeqRange
Diff(a, b) == LET d == (a - b) % SeqRange IN IF d >= SeqRange \div 2 THEN d - SeqRange ELSE d
SEQUENCE_GTE(a, b) == Diff(a, b) >= 0
Least(a, b) == IF a < b THEN a ELSE b

ISS(h, n) == IF h = "client" THEN SeqRange - 2 ELSE (n * (SeqRange \div 4)) % SeqRange
Nobody == "none"
Up == broken = "no"
NoInput == [who |-> Nobody]

NoSocket == [state |-> "NONE", ref |-> 0, listed |-> FALSE, timers |-> {}]

create_tcp_socket(state, iss) ==
  [state |-> state, ref |-> 1, listed |-> TRUE, timers |-> {},
   rx_win_low |-> 0, rx_win_high |-> 0, rx_buffer |-> <<>>, rx_event |-> FALSE, full |-> 0,
   tx_win_low |-> iss, tx_highest_seq |-> iss, tx_buffer |-> <<>>, tx_event |-> TRUE,
   connect_event |-> FALSE]

Packet(flags, seq, ack, data) == [flags |-> flags, seq |-> seq, ack |-> ack, data |-> data]

States == {"NONE", "CLOSED", "SYN_SENT", "SYN_RCVD", "ESTABLISHED", "CLOSE_WAIT", "LAST_ACK",
           "CLOSING", "FIN_WAIT_1", "FIN_WAIT_2", "TIME_WAIT"}

TypeOK ==
  /\ \A h \in Hosts : /\ sock[h].state \in States /\ sock[h].ref \in Nat
                      /\ sock[h].timers \subseteq {"retransmit", "ack", "wait"}
                      /\ rx[h].who \in {Nobody, "socket", "listener"}
                      /\ firing[h] \in {Nobody, "retransmit", "ack", "wait"}
                      /\ app[h] \in {"idle", "waiting", "woken", "open", "eof", "closed"}
  /\ listener.state \in {"LISTEN", "CLOSED", "NONE"}
  /\ reading \in [Hosts -> BOOLEAN] /\ writing \in [Hosts -> Nat]

Init ==
  /\ sock = [h \in Hosts |-> NoSocket]
  /\ listener = [state |-> "LISTEN", ref |-> 1, accepted |-> FALSE, accept_sem |-> 0]
  /\ net = [h \in Hosts |-> <<>>] /\ rx = [h \in Hosts |-> NoInput]
  /\ firing = [h \in Hosts |-> Nobody]
  /\ app = [h \in Hosts |-> "idle"]
  /\ reading = [h \in Hosts |-> FALSE] /\ writing = [h \in Hosts |-> 0]
  /\ budget \in Scenarios /\ left = budget.writes
  /\ written = [h \in Hosts |-> 0] /\ got = [h \in Hosts |-> <<>>]
  /\ made = 0 /\ broken = "no"

(***************************************************************************)
(* References and timers.  A pending timer holds a reference, which passes *)
(* to its callback.                                                        *)
(***************************************************************************)
inc_socket_ref(s) == [s EXCEPT !.ref = @ + 1]
dec_socket_ref(s) == IF s.ref = 1 THEN NoSocket ELSE [s EXCEPT !.ref = @ - 1]

net_timer_set(s, t) == [s EXCEPT !.timers = @ \cup {t}]
net_timer_cancel(s, t) == [s EXCEPT !.timers = @ \ {t}]

tcp_timer_set(s, t) == IF t \in s.timers THEN s ELSE inc_socket_ref(net_timer_set(s, t))

\* Fault: the reference of a timer that is cancelled is kept.
CancelKeepsRef(s, t) == net_timer_cancel(s, t)

tcp_timer_cancel(s, t) ==
  IF t \in s.timers THEN dec_socket_ref(net_timer_cancel(s, t)) ELSE s

(***************************************************************************)
(* What the routines that hold the lock do to a socket, and what they      *)
(* send: a pair of the socket and a sequence of packets.                   *)
(***************************************************************************)
Only(s) == [s |-> s, out |-> <<>>]
Then(r, q) == [s |-> q.s, out |-> r.out \o q.out]

\* Fault: the window does not shrink by what waits to be read.
WholeWindow(s) == Plus(s.rx_win_low, RxSize - 1)

RightEdge(s) == Plus(s.rx_win_low, RxSize - Len(s.rx_buffer) - 1)

\* The window's right edge never moves back; the packet carries a pending acknowledgement.
tcp_socket_send(s, flags, seq, data) ==
  LET moved == [s EXCEPT !.rx_win_high =
                  IF SEQUENCE_GTE(RightEdge(s), @) THEN RightEdge(s) ELSE @]
  IN [s |-> tcp_timer_cancel(moved, "ack"),
      out |-> <<Packet(flags, seq, s.rx_win_low, data)>>]

send_ack(s) ==
  IF s.state \notin {"ESTABLISHED", "CLOSE_WAIT", "FIN_WAIT_2"} THEN Only(s)
  ELSE tcp_socket_send(s, {"ACK"}, s.tx_win_low, <<>>)

AcksNew(s, ack) == Diff(ack, s.tx_win_low) > 0 /\ Diff(ack, s.tx_highest_seq) <= 0

handle_ack(s, ack) ==
  IF ~AcksNew(s, ack) THEN s
  ELSE LET acked == [s EXCEPT !.tx_buffer = SubSeq(@, 1 + Diff(ack, s.tx_win_low), Len(@)),
                              !.tx_win_low = ack, !.tx_event = TRUE]
       IN IF ack = s.tx_highest_seq THEN tcp_timer_cancel(acked, "retransmit")
          ELSE tcp_timer_set(acked, "retransmit")

\* data behind our window's lower edge and beyond it: the assertion offset < len fails
Overlaps(s, p) == /\ p.data # <<>>
                  /\ Diff(p.seq, s.rx_win_low) < 0
                  /\ Diff(Plus(p.seq, Len(p.data) - 1), s.rx_win_low) >= 0

\* Fault: data beyond a gap is taken for the next data.
InWindow(s, p) == SEQUENCE_GTE(p.seq, s.rx_win_low)

InOrder(s, p) == p.seq = s.rx_win_low

handle_data(s, p) ==
  LET copy_len == Least(Diff(s.rx_win_high, s.rx_win_low), Len(p.data))
      full == IF copy_len >= Mss THEN s.full + 1 ELSE 0
      low == Plus(s.rx_win_low, copy_len)
      room == (RxSize - 1) - Len(s.rx_buffer)   \* cbuf_write() writes no more
      taken == [s EXCEPT !.rx_win_low = low, !.rx_event = TRUE, !.full = full,
                         !.rx_buffer = @ \o SubSeq(p.data, 1, Least(copy_len, room))]
  IN IF ~InOrder(s, p) THEN send_ack(s)
     ELSE IF full >= 2 \/ Diff(low, s.rx_win_high) + RxSize > RxSize \div 2
          THEN send_ack([taken EXCEPT !.full = 0])
          ELSE Only(tcp_timer_set(taken, "ack"))

tcp_wakeup_waiters(s) == [s EXCEPT !.rx_event = TRUE, !.tx_event = TRUE, !.connect_event = TRUE]

tcp_remote_close(s) ==
  IF s.state = "CLOSED" THEN s
  ELSE tcp_wakeup_waiters(tcp_timer_cancel(tcp_timer_cancel(
         [s EXCEPT !.state = "CLOSED"], "retransmit"), "ack"))

\* The data of tx_buffer that was not sent, in packets of up to Mss bytes.
PendingPackets(s) ==
  LET outstanding == Diff(s.tx_highest_seq, s.tx_win_low)
      pending == Len(s.tx_buffer) - outstanding
      n == (pending + Mss - 1) \div Mss
  IN [i \in 1..n |-> Packet({"ACK"}, Plus(s.tx_highest_seq, (i - 1) * Mss), s.rx_win_low,
        SubSeq(s.tx_buffer, outstanding + (i - 1) * Mss + 1,
                            outstanding + Least(i * Mss, pending)))]

tcp_write_pending_data(s) ==
  LET out == PendingPackets(s)
      sent == [tcp_socket_send(s, {"ACK"}, 0, <<>>).s
                 EXCEPT !.tx_highest_seq = Plus(s.tx_win_low, Len(s.tx_buffer))]
  IN IF out = <<>> THEN Only(s) ELSE [s |-> tcp_timer_set(sent, "retransmit"), out |-> out]

(***************************************************************************)
(* The network.  tcp_input() looks the socket up, which takes a reference, *)
(* and then waits for its lock.                                            *)
(***************************************************************************)
Reset(p) == IF "RST" \in p.flags THEN <<>> ELSE <<Packet({"RST"}, p.ack, 0, <<>>)>>

Spend(fault) == budget[fault] > 0 /\ budget' = [budget EXCEPT ![fault] = @ - 1]

Send(h, out) == [net EXCEPT ![Peer(h)] = IF Len(@) < NetSize THEN @ \o out ELSE @]

\* lookup_socket(): one that is connected, or else one that listens.
Lookup(h) ==
  IF sock[h].listed /\ sock[h].state # "CLOSED" THEN "socket"
  ELSE IF h = "server" /\ listener.state = "LISTEN" THEN "listener" ELSE Nobody

Receive(h, i, rest) ==
  LET p == net[h][i]
  IN /\ Up /\ rx[h] = NoInput
     /\ IF Lookup(h) = Nobody
        THEN net' = [Send(h, Reset(p)) EXCEPT ![h] = rest] /\ UNCHANGED rx
        ELSE /\ net' = [net EXCEPT ![h] = rest]
             /\ rx' = [rx EXCEPT ![h] = [who |-> Lookup(h), p |-> p]]
     /\ sock' = IF Lookup(h) = "socket" THEN [sock EXCEPT ![h] = inc_socket_ref(@)] ELSE sock
     /\ listener' = IF Lookup(h) = "listener" THEN [listener EXCEPT !.ref = @ + 1] ELSE listener
     /\ UNCHANGED <<firing, threads, made, broken>>

Deliver(h) == net[h] # <<>> /\ Receive(h, 1, Tail(net[h])) /\ UNCHANGED budget
Repeat(h) == net[h] # <<>> /\ Spend("dups") /\ Receive(h, 1, net[h])
Overtake(h) == /\ Spend("swaps")
               /\ \E i \in 2..Len(net[h]) : Receive(h, i, RemoveAt(net[h], i))
Lose(h) == /\ Up /\ net[h] # <<>> /\ Spend("losses") /\ net' = [net EXCEPT ![h] = Tail(@)]
           /\ UNCHANGED <<sock, listener, rx, firing, threads, made, broken>>

(***************************************************************************)
(* tcp_input(), from where it has the lock.                                *)
(***************************************************************************)
\* The socket listens.  A side has memory for one socket besides the listening one: while the one of
\* an old connection is still there, create_tcp_socket() fails.
InputListener ==
  LET p == rx["server"].p
      done == [listener EXCEPT !.ref = @ - 1]
      accepts == /\ listener.state = "LISTEN" /\ p.flags \cap {"SYN", "RST"} = {"SYN"} /\ ~listener.accepted
                 /\ sock["server"] = NoSocket /\ made < MaxSockets
      new == [create_tcp_socket("SYN_RCVD", ISS("server", made))
                EXCEPT !.rx_win_low = Plus(p.seq, 1), !.rx_win_high = Plus(p.seq, RxSize)]
      r == tcp_socket_send(new, {"SYN", "ACK"}, new.tx_win_low, <<>>)
  IN /\ Up /\ rx["server"].who = "listener"
     /\ rx' = [rx EXCEPT !["server"] = NoInput]
     /\ IF accepts
        THEN /\ sock' = [sock EXCEPT !["server"] = [r.s EXCEPT !.tx_win_low = Plus(@, 1)]]
             /\ listener' = [done EXCEPT !.accepted = TRUE, !.accept_sem = @ + 1]
             /\ net' = Send("server", r.out)
             /\ made' = made + 1
        ELSE /\ net' = IF listener.state = "CLOSED" \/ "SYN" \notin p.flags
                       THEN Send("server", Reset(p)) ELSE net
             /\ listener' = IF done.ref = 0 THEN [done EXCEPT !.state = "NONE"] ELSE done
             /\ UNCHANGED <<sock, made>>
     /\ UNCHANGED <<firing, threads, budget, broken>>

\* the end of tcp_input()
Done(h, r) ==
  /\ sock' = [sock EXCEPT ![h] = dec_socket_ref(r.s)]
  /\ net' = Send(h, r.out)
  /\ rx' = [rx EXCEPT ![h] = NoInput]
  /\ UNCHANGED <<listener, firing, threads, made, budget>>

Input(h, states) ==
  /\ Up /\ rx[h].who = "socket" /\ sock[h].state \in states
Flag(h, f) == f \in rx[h].p.flags

\* They reset us; or the socket was closed since it was looked up.
InputReset(h) ==
  /\ Input(h, States) /\ (Flag(h, "RST") \/ sock[h].state = "CLOSED")
  /\ Done(h, IF Flag(h, "RST") THEN Only(tcp_remote_close(sock[h]))
             ELSE [s |-> sock[h], out |-> Reset(rx[h].p)])
  /\ UNCHANGED broken

InputSynRcvd(h) ==
  LET s == sock[h]
      p == rx[h].p
  IN /\ Input(h, {"SYN_RCVD"}) /\ ~Flag(h, "RST")
     /\ IF p.flags \cap {"SYN", "ACK"} = {"ACK"} /\ p.ack = s.tx_win_low
        THEN Done(h, Only([s EXCEPT !.state = "ESTABLISHED", !.tx_highest_seq = s.tx_win_low]))
        ELSE Done(h, [s |-> s, out |-> Reset(p)])
     /\ UNCHANGED broken

InputSynSent(h) ==
  LET s == sock[h]
      p == rx[h].p
      up == [s EXCEPT !.state = "ESTABLISHED", !.connect_event = TRUE,
                      !.rx_win_low = Plus(p.seq, 1), !.rx_win_high = Plus(p.seq, RxSize),
                      !.tx_win_low = p.ack, !.tx_highest_seq = p.ack]
  IN /\ Input(h, {"SYN_SENT"}) /\ ~Flag(h, "RST")
     /\ IF {"SYN", "ACK"} \subseteq p.flags /\ p.ack = Plus(s.tx_win_low, 1)
        THEN Done(h, send_ack(up))
        ELSE Done(h, [s |-> s, out |-> Reset(p)])
     /\ UNCHANGED broken

FinInOrder(s, p) ==
  "FIN" \in p.flags /\ SEQUENCE_GTE(s.rx_win_low, Plus(p.seq, IF p.data = <<>> THEN 0 ELSE Len(p.data) - 1))

InputEstablished(h) ==
  LET p == rx[h].p
      acked == IF Flag(h, "ACK") THEN handle_ack(sock[h], p.ack) ELSE sock[h]
      r == IF p.data = <<>> THEN Only(acked) ELSE handle_data(acked, p)
      fin == send_ack([r.s EXCEPT !.rx_win_low = Plus(@, 1)])
      closing == [fin EXCEPT !.s = [@ EXCEPT !.state = "CLOSE_WAIT", !.rx_event = TRUE]]
  IN /\ Input(h, {"ESTABLISHED"}) /\ ~Flag(h, "RST")
     /\ IF Overlaps(sock[h], p)
        THEN broken' = "offset < len" /\ UNCHANGED <<sock, listener, net, rx, firing, threads, made, budget>>
        ELSE /\ Done(h, IF FinInOrder(r.s, p) THEN Then(r, closing) ELSE r)
             /\ UNCHANGED broken

InputCloseWait(h) ==
  LET acked == IF Flag(h, "ACK") THEN handle_ack(sock[h], rx[h].p.ack) ELSE sock[h]
  IN /\ Input(h, {"CLOSE_WAIT"}) /\ ~Flag(h, "RST")
     /\ Done(h, IF Flag(h, "FIN") THEN send_ack(acked) ELSE Only(acked))
     /\ UNCHANGED broken

\* tcp_close() was called: the creator's reference is dropped here.
InputLastAck(h) ==
  /\ Input(h, {"LAST_ACK"}) /\ ~Flag(h, "RST")
  /\ Done(h, Only(IF Flag(h, "ACK")
                  THEN dec_socket_ref([tcp_remote_close(sock[h]) EXCEPT !.listed = FALSE])
                  ELSE sock[h]))
  /\ UNCHANGED broken

\* An ACK moves FIN_WAIT_1 to FIN_WAIT_2 and CLOSING to TIME_WAIT; a FIN is acknowledged.
InputClosing(h) ==
  LET s == sock[h]
      two == [s EXCEPT !.state = "FIN_WAIT_2"]
      fin(t) == send_ack([t EXCEPT !.rx_win_low = Plus(@, 1)])
      wait(r) == [r EXCEPT !.s = tcp_timer_set([@ EXCEPT !.state = "TIME_WAIT"], "wait")]
  IN /\ Input(h, {"FIN_WAIT_1", "FIN_WAIT_2", "CLOSING", "TIME_WAIT"}) /\ ~Flag(h, "RST")
     /\ Done(h, CASE s.state = "FIN_WAIT_1" /\ Flag(h, "ACK") ->
                       IF Flag(h, "FIN") THEN wait(fin(two)) ELSE Only(two)
                  [] s.state = "FIN_WAIT_1" /\ ~Flag(h, "ACK") /\ Flag(h, "FIN") ->
                       [fin(s) EXCEPT !.s = [@ EXCEPT !.state = "CLOSING"]]
                  [] s.state = "FIN_WAIT_2" /\ Flag(h, "FIN") -> wait(fin(s))
                  [] s.state = "CLOSING" /\ Flag(h, "ACK") -> wait(Only(s))
                  [] OTHER -> Only(s))
     /\ UNCHANGED broken

(***************************************************************************)
(* The timer thread.  Time is left out: a timer that is set may fire at    *)
(* any moment and in any order, one at a time.                             *)
(***************************************************************************)
net_timer_work_routine(h, t) ==
  /\ Up /\ firing[h] = Nobody /\ t \in sock[h].timers
  /\ firing' = [firing EXCEPT ![h] = t]
  /\ sock' = [sock EXCEPT ![h].timers = @ \ {t}]
  /\ UNCHANGED <<listener, net, rx, threads, made, budget, broken>>

\* Fault: a timer that has sent the data again is not set once more.
RetransmitOnce(s) == s

RetransmitAgain(s) == tcp_timer_set(s, "retransmit")

tcp_retransmit(s) ==
  LET outstanding == Diff(s.tx_highest_seq, s.tx_win_low)
      r == tcp_socket_send(s, {"ACK"}, s.tx_win_low, SubSeq(s.tx_buffer, 1, Least(Mss, outstanding)))
  IN IF s.state \notin {"ESTABLISHED", "CLOSE_WAIT"} \/ outstanding = 0 THEN Only(s)
     ELSE [r EXCEPT !.s = RetransmitAgain(@)]

Callback(h, r) ==
  /\ Len(net[Peer(h)]) < NetSize
  /\ firing' = [firing EXCEPT ![h] = Nobody]
  /\ sock' = [sock EXCEPT ![h] = dec_socket_ref(r.s)] /\ net' = Send(h, r.out)
  /\ UNCHANGED <<listener, rx, threads, made, budget>>

handle_retransmit_timeout(h) ==
  Up /\ firing[h] = "retransmit" /\ Callback(h, tcp_retransmit(sock[h])) /\ UNCHANGED broken

handle_delayed_ack_timeout(h) ==
  Up /\ firing[h] = "ack" /\ Callback(h, send_ack(sock[h])) /\ UNCHANGED broken

handle_time_wait_timeout(h) ==
  /\ Up /\ firing[h] = "wait"
  /\ IF sock[h].state = "TIME_WAIT"
     THEN /\ Callback(h, Only(dec_socket_ref([sock[h] EXCEPT !.listed = FALSE])))
          /\ UNCHANGED broken
     ELSE broken' = "state == TIME_WAIT" /\ UNCHANGED <<sock, listener, net, rx, firing, threads, made, budget>>

(***************************************************************************)
(* The applications.                                                       *)
(***************************************************************************)
Calls(h, r) == sock' = [sock EXCEPT ![h] = r.s] /\ net' = Send(h, r.out)

tcp_connect ==
  LET s == create_tcp_socket("SYN_SENT", ISS("client", 0))
  IN /\ Up /\ app["client"] = "idle"
     /\ Calls("client", [s |-> s, out |-> <<Packet({"SYN"}, s.tx_win_low, 0, <<>>)>>])
     /\ app' = [app EXCEPT !["client"] = "waiting"]
     /\ UNCHANGED <<listener, rx, firing, reading, writing, left, written, got, made, budget, broken>>

\* connect_event is signaled, by success or by a reset
ConnectReturns ==
  /\ Up /\ app["client"] = "waiting" /\ sock["client"].connect_event
  /\ app' = [app EXCEPT !["client"] = "open"]
  /\ UNCHANGED <<sock, listener, net, rx, firing, reading, writing, left, written, got, made, budget, broken>>

\* tcp_accept(): a reference, then sem_wait() on accept_sem, then the lock
tcp_accept ==
  /\ Up
  /\ \/ /\ app["server"] = "idle" /\ listener.state = "LISTEN"
        /\ listener' = [listener EXCEPT !.ref = @ + 1]
        /\ app' = [app EXCEPT !["server"] = "waiting"]
     \/ /\ app["server"] = "waiting" /\ listener.accept_sem > 0
        /\ listener' = [listener EXCEPT !.accept_sem = @ - 1]
        /\ app' = [app EXCEPT !["server"] = "woken"]
     \/ /\ app["server"] = "woken"
        /\ listener' = [listener EXCEPT !.accepted = FALSE, !.ref = @ - 1,
                                        !.state = IF listener.ref = 1 THEN "NONE" ELSE @]
        /\ app' = [app EXCEPT !["server"] = "open"]
  /\ broken' = IF app["server"] = "woken" /\ ~listener.accepted THEN "s->accepted" ELSE broken
  /\ UNCHANGED <<sock, net, rx, firing, reading, writing, left, written, got, made, budget>>

\* tcp_accept_timeout(): sem_timedwait() gives up while there is nothing to accept
AcceptTimesOut ==
  /\ Up /\ app["server"] = "waiting" /\ listener.accept_sem = 0
  /\ listener' = [listener EXCEPT !.ref = @ - 1, !.state = IF listener.ref = 1 THEN "NONE" ELSE @]
  /\ app' = [app EXCEPT !["server"] = "idle"]
  /\ UNCHANGED <<sock, net, rx, firing, reading, writing, left, written, got, made, budget, broken>>

\* tcp_read() takes a reference and waits for rx_event; app is "eof" once it returned an error
tcp_read(h) ==
  /\ Up /\ app[h] = "open" /\ ~reading[h]
  /\ reading' = [reading EXCEPT ![h] = TRUE]
  /\ sock' = [sock EXCEPT ![h] = inc_socket_ref(@)]
  /\ UNCHANGED <<listener, net, rx, firing, app, writing, left, written, got, made, budget, broken>>

\* Fault: rx_event is cleared whatever the state, so that the next reader waits for data.
ClearAlways(s) == s.rx_buffer = <<>>

ClearRxEvent(s) == s.state = "ESTABLISHED" /\ s.rx_buffer = <<>>

ReadData(h) ==
  LET n == Least(ReadLen, Len(sock[h].rx_buffer))
      rest == [sock[h] EXCEPT !.rx_buffer = SubSeq(@, n + 1, Len(@))]
      s == [rest EXCEPT !.rx_event = ~ClearRxEvent(rest)]
      opened == RxSize - Len(s.rx_buffer) >= Mss /\ Diff(s.rx_win_high, s.rx_win_low) < Mss
      r == IF opened THEN send_ack(s) ELSE Only(s)
  IN /\ Up /\ reading[h] /\ sock[h].rx_event /\ n > 0 /\ Len(net[Peer(h)]) < NetSize
     /\ got' = [got EXCEPT ![h] = @ \o SubSeq(sock[h].rx_buffer, 1, n)]
     /\ reading' = [reading EXCEPT ![h] = FALSE]
     /\ Calls(h, [r EXCEPT !.s = dec_socket_ref(@)])
     /\ UNCHANGED <<listener, rx, firing, app, writing, left, written, made, budget, broken>>

\* Nothing to read: an error when the connection is closed, or else the thread waits again.
ReadNothing(h) ==
  LET s == sock[h]
  IN /\ Up /\ reading[h] /\ s.rx_event /\ s.rx_buffer = <<>>
     /\ IF s.state = "ESTABLISHED"
        THEN sock' = [sock EXCEPT ![h].rx_event = FALSE] /\ UNCHANGED <<app, reading>>
        ELSE /\ sock' = [sock EXCEPT ![h] = dec_socket_ref(@)]
             /\ reading' = [reading EXCEPT ![h] = FALSE]
             /\ app' = [app EXCEPT ![h] = IF @ = "open" THEN "eof" ELSE @]
     /\ UNCHANGED <<listener, net, rx, firing, writing, left, written, got, made, budget, broken>>

tcp_write(h) ==
  /\ Up /\ app[h] = "open" /\ writing[h] = 0 /\ left[h] > 0
  /\ writing' = [writing EXCEPT ![h] = Least(budget.chunk, left[h])]
  /\ sock' = [sock EXCEPT ![h] = inc_socket_ref(@)]
  /\ UNCHANGED <<listener, net, rx, firing, app, reading, left, written, got, made, budget, broken>>

\* One round of the loop.
WriteData(h) ==
  LET s == sock[h]
      to_copy == Least(TxSize - Len(s.tx_buffer), writing[h])
      data == [i \in 1..to_copy |-> written[h] + i]
      filled == [s EXCEPT !.tx_buffer = @ \o data]
      r == tcp_write_pending_data([filled EXCEPT !.tx_event = Len(filled.tx_buffer) # TxSize])
  IN /\ Up /\ writing[h] > 0 /\ s.tx_event /\ s.state \in {"ESTABLISHED", "CLOSE_WAIT"}
     /\ to_copy > 0 /\ Len(net[Peer(h)]) < NetSize
     /\ Calls(h, IF writing[h] = to_copy THEN [r EXCEPT !.s = dec_socket_ref(@)] ELSE r)
     /\ written' = [written EXCEPT ![h] = @ + to_copy]
     /\ left' = [left EXCEPT ![h] = @ - to_copy]
     /\ writing' = [writing EXCEPT ![h] = @ - to_copy]
     /\ UNCHANGED <<listener, rx, firing, app, reading, got, made, budget, broken>>

WriteFails(h) ==
  /\ Up /\ writing[h] > 0 /\ sock[h].tx_event /\ sock[h].state \notin {"ESTABLISHED", "CLOSE_WAIT"}
  /\ sock' = [sock EXCEPT ![h] = dec_socket_ref(@)]
  /\ left' = [left EXCEPT ![h] = 0] /\ writing' = [writing EXCEPT ![h] = 0]
  /\ UNCHANGED <<listener, net, rx, firing, app, reading, written, got, made, budget, broken>>

\* a FIN is sent in place of the data that was not acknowledged
SendFin(s, state) ==
  LET r == tcp_socket_send([s EXCEPT !.state = state], {"ACK", "FIN"}, s.tx_win_low, <<>>)
  IN [r EXCEPT !.s = tcp_wakeup_waiters([@ EXCEPT !.tx_win_low = Plus(@, 1)])]

Unlist(s) ==
  LET quiet == tcp_timer_cancel(tcp_timer_cancel([s EXCEPT !.listed = FALSE], "ack"), "retransmit")
      woken == tcp_wakeup_waiters(quiet)
  IN dec_socket_ref(woken)

tcp_close(h) ==
  LET s == sock[h]
  IN /\ Up /\ app[h] \in {"open", "eof"} /\ h \in budget.closers
     /\ Len(net[Peer(h)]) < NetSize
     /\ Calls(h, CASE s.state = "CLOSED" -> Only(Unlist(s))
                   [] s.state \in {"SYN_RCVD", "ESTABLISHED"} -> SendFin(s, "FIN_WAIT_1")
                   [] s.state = "CLOSE_WAIT" -> SendFin(s, "LAST_ACK"))
     /\ app' = [app EXCEPT ![h] = "closed"]
     /\ UNCHANGED <<listener, rx, firing, reading, writing, left, written, got, made, budget, broken>>

\* A second call returns an error, and keeps the lock.
CloseAgain(h) ==
  /\ Up /\ budget.closeTwice /\ app[h] = "closed"
  /\ sock[h].state \in {"FIN_WAIT_1", "FIN_WAIT_2", "CLOSING", "TIME_WAIT", "LAST_ACK"}
  /\ broken' = "lock"
  /\ UNCHANGED <<sock, listener, net, rx, firing, threads, made, budget>>

CloseListener ==
  /\ Up /\ "listener" \in budget.closers /\ listener.state = "LISTEN"
  /\ listener' = [listener EXCEPT !.state = IF listener.ref = 1 THEN "NONE" ELSE "CLOSED",
                                  !.ref = @ - 1]
  /\ UNCHANGED <<sock, net, rx, firing, threads, made, budget, broken>>

HostStep(h) ==
  \/ Deliver(h) \/ Repeat(h) \/ Overtake(h) \/ Lose(h)
  \/ InputReset(h) \/ InputSynRcvd(h) \/ InputSynSent(h)
  \/ InputEstablished(h) \/ InputCloseWait(h) \/ InputLastAck(h) \/ InputClosing(h)
  \/ \E t \in {"retransmit", "ack", "wait"} : net_timer_work_routine(h, t)
  \/ handle_retransmit_timeout(h) \/ handle_delayed_ack_timeout(h) \/ handle_time_wait_timeout(h)
  \/ tcp_read(h) \/ ReadData(h) \/ ReadNothing(h)
  \/ tcp_write(h) \/ WriteData(h) \/ WriteFails(h)
  \/ tcp_close(h) \/ CloseAgain(h)

Next ==
  \/ \E h \in Hosts : HostStep(h)
  \/ InputListener \/ tcp_connect \/ ConnectReturns \/ tcp_accept \/ AcceptTimesOut
  \/ CloseListener

Spec == Init /\ [][Next]_vars

\* Packets that are not lost arrive, timers fire, and the threads that can go on do.
Fairness ==
  /\ WF_vars((InputListener \/ tcp_accept \/ ConnectReturns))
  /\ \A h \in Hosts :
       /\ WF_vars(Deliver(h))
       /\ WF_vars((InputSynRcvd(h) \/ InputSynSent(h) \/ InputEstablished(h)))
       /\ WF_vars(\E t \in {"retransmit", "ack"} : net_timer_work_routine(h, t))
       /\ WF_vars((handle_retransmit_timeout(h) \/ handle_delayed_ack_timeout(h)))
       /\ WF_vars((tcp_read(h) \/ ReadData(h) \/ ReadNothing(h)))
       /\ WF_vars(WriteData(h))

FairSpec == Spec /\ Fairness

(***************************************************************************)
(* Properties                                                              *)
(***************************************************************************)
Live(h) == sock[h].state # "NONE"

\* What a side has read, and what waits in its buffer, is what the other side wrote, in order, from
\* the first byte on: nothing twice, nothing left out, whatever the network does.
StreamIsIntact ==
  \A h \in Hosts :
     LET stream == got[h] \o (IF Live(h) THEN sock[h].rx_buffer ELSE <<>>)
     IN Len(stream) <= written[Peer(h)] /\ \A i \in DOMAIN stream : stream[i] = i

\* Data leaves tx_buffer only when the other side has it, in its buffer or read.
AckedIsReceived ==
  \A h \in Hosts :
     Live(h) /\ sock[h].state \in {"ESTABLISHED", "CLOSE_WAIT"} =>
        written[h] - Len(sock[h].tx_buffer)
          <= Len(got[Peer(h)]) + (IF Live(Peer(h)) THEN Len(sock[Peer(h)].rx_buffer) ELSE 0)

Holders(h) ==
  LET one(b) == IF b THEN 1 ELSE 0
  IN one(sock[h].listed) + Cardinality(sock[h].timers) + one(firing[h] # Nobody)
       + one(reading[h]) + one(writing[h] > 0) + one(rx[h].who = "socket")

\* The reference count is the list's reference, the timers', and one for each thread that is using
\* the socket: a socket is freed when the last of them is gone, and not before.
RefsAreHolders == \A h \in Hosts : sock[h].ref = Holders(h)

\* Nobody sleeps for what is there: a reader only on an open connection with no data, a writer only
\* on one whose buffer is full; and data that was sent and not acknowledged has its timer.
NobodySleepsForNothing ==
  \A h \in Hosts :
     LET s == sock[h]
     IN /\ reading[h] /\ ~s.rx_event => s.state \in {"SYN_RCVD", "ESTABLISHED"} /\ s.rx_buffer = <<>>
        /\ writing[h] > 0 /\ ~s.tx_event => /\ s.state \in {"ESTABLISHED", "CLOSE_WAIT"}
                                       /\ Len(s.tx_buffer) = TxSize
        /\ (Live(h) /\ s.state \in {"ESTABLISHED", "CLOSE_WAIT"} /\ s.tx_highest_seq # s.tx_win_low) =>
              "retransmit" \in s.timers \/ firing[h] = "retransmit"

\* What is written is read in the end, unless the connection is reset or closed.
WrittenIsRead ==
  (written["client"] > Len(got["server"]))
    ~> (written["client"] = Len(got["server"])
          \/ \E h \in Hosts : sock[h].state \notin {"SYN_SENT", "SYN_RCVD", "ESTABLISHED"})

(***************************************************************************)
(* What the code does not keep.                                            *)
(***************************************************************************)
\* No assertion fails, and no lock is kept.
NothingBreaks == broken = "no"

\* A side that has taken the other's FIN has all its data.
FinAfterAllData ==
  sock["server"].state = "CLOSE_WAIT" =>
     Len(got["server"]) + Len(sock["server"].rx_buffer) = written["client"]

\* A socket that its application has closed, and that is closed, is freed once nobody uses it.
ClosedIsFreed ==
  \A h \in Hosts : ~(app[h] = "closed" /\ sock[h].state = "CLOSED" /\ Holders(h) = 1)

\* Closing the listening socket wakes a thread that waits to accept.
AcceptorWakes == app["server"] = "waiting" /\ listener.state = "CLOSED" => listener.accept_sem > 0
=============================================================================
