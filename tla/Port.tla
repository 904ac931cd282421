-------------------------------- MODULE Port --------------------------------
(***************************************************************************)
(* The ports of kernel/port.c: named write ports, the read ports opened on *)
(* them, and groups of read ports.  Packets go into a ring buffer that     *)
(* belongs to the write port while nobody listens and to the read ports    *)
(* otherwise.  A packet is modelled by the number of its write.            *)
(*                                                                         *)
(* Each critical section is one step.  port_create() and port_group_add()  *)
(* look before they take the lock, and port_close() reschedules inside its *)
(* critical section when it wakes readers, which lets others in: these     *)
(* are two steps, and so is a read that blocks.                            *)
(***************************************************************************)
EXTENDS WaitQueue, SequencesExt

CONSTANTS WPort, RPort, Group,     \* the structures that can be allocated
          Name, Mode,              \* the names and modes passed to port_create()
          NULL,
          PORT_BUFF_SIZE, PORT_BUFF_SIZE_BIG,
          Counts,                  \* the packets a port_write() brings
          MaxPacket,               \* bound: packets written in all
          MaxBuf,                  \* bound: the port_buf_t there is memory for
          Calls,                   \* the optional operations in use
          Admins,                  \* the threads that put read ports into groups
          ClosePolicy              \* when ports are closed: see MayClose

\* What the constants must be.
PortAssumption ==
  /\ Queue = RPort \cup Group
  /\ Mode \subseteq {"broadcast", "broadcast_big", "unicast", "unicast_big"}
  /\ NULL \notin WPort \cup RPort \cup Group
  /\ \E n \in 0..10 : PORT_BUFF_SIZE = 2^n
  /\ \E n \in 0..10 : PORT_BUFF_SIZE_BIG = 2^n
  /\ Calls \subseteq {"destroy", "group", "group_remove"}
  /\ Admins \subseteq Thread
  /\ ClosePolicy \in {"sleeping", "any"}

VARIABLES write_port_list,
          wmagic, name, mode, wbuf, w_rp_list,  \* write_port_t; wmagic is "free", "W" or "X"
          rmagic, rbuf, wport, gport,           \* read_port_t
          gmagic, g_rp_list,                    \* port_group_t
          nbuf,                                 \* how many port_buf_t are allocated
          written,                              \* the packets written so far
          pc                                    \* the call a thread is in the middle of

wpvars == <<write_port_list, wmagic, name, mode, wbuf, w_rp_list>>
rpvars == <<rmagic, rbuf, wport, gport>>
pgvars == <<gmagic, g_rp_list>>
pvars == <<wpvars, rpvars, pgvars, nbuf, written, pc>>
vars == <<wqvars, pvars>>

In(op, o) == [op |-> op, on |-> o, with |-> NULL, finite |-> FALSE]
Idle == In("none", NULL)
-----------------------------------------------------------------------------
(* The ring buffer. *)

make_buf(big) ==
  LET size == IF big THEN PORT_BUFF_SIZE_BIG ELSE PORT_BUFF_SIZE
  IN  [size |-> size, avail |-> size, head |-> 0, tail |-> 0, packet |-> [i \in 0..(size - 1) |-> 0]]

NoBuf == [size |-> 0, avail |-> 0, head |-> 0, tail |-> 0, packet |-> <<>>]

buf_is_empty(b) == b.avail = b.size

\* Fault: the room is not checked.
WriteUnchecked(b, first, count) ==
  [b EXCEPT !.packet = [i \in DOMAIN @ |->
                          IF \E k \in 0..(count - 1) : i = (b.tail + k) % b.size
                          THEN first + (CHOOSE k \in 0..(count - 1) : i = (b.tail + k) % b.size)
                          ELSE @[i]],
            !.tail = (@ + count) % b.size,
            !.avail = @ - count]

\* The buffer after writing the packets first .. first + count - 1: unchanged when
\* there is no room for all of them (ERR_NOT_ENOUGH_BUFFER).
buf_write(b, first, count) ==
  IF b.avail < count
  THEN b
  ELSE [b EXCEPT !.packet = [i \in DOMAIN @ |->
                               IF \E k \in 0..(count - 1) : i = (b.tail + k) % b.size
                               THEN first + (CHOOSE k \in 0..(count - 1) : i = (b.tail + k) % b.size)
                               ELSE @[i]],
                 !.tail = (@ + count) % b.size,
                 !.avail = @ - count]

\* Fault: the head stays where it is.
ReadKeepsHead(b) == [b EXCEPT !.packet[b.head] = 0, !.avail = @ + 1]

\* The buffer after reading one packet.  (The code leaves the old packet in its slot,
\* where it is overwritten before it could be read; here the slot is cleared.)
buf_read(b) == [b EXCEPT !.packet[b.head] = 0, !.head = (@ + 1) % b.size, !.avail = @ + 1]
-----------------------------------------------------------------------------
Init ==
  /\ wait_queue_init
  /\ write_port_list = <<>>
  /\ wmagic = [w \in WPort |-> "free"]
  /\ name = [w \in WPort |-> NULL]
  /\ mode = [w \in WPort |-> "broadcast"]
  /\ wbuf = [w \in WPort |-> NoBuf]
  /\ w_rp_list = [w \in WPort |-> <<>>]
  /\ rmagic = [r \in RPort |-> FALSE]
  /\ rbuf = [r \in RPort |-> NoBuf]
  /\ wport = [r \in RPort |-> NULL]
  /\ gport = [r \in RPort |-> NULL]
  /\ gmagic = [g \in Group |-> FALSE]
  /\ g_rp_list = [g \in Group |-> <<>>]
  /\ nbuf = 0
  /\ written = 0
  /\ pc = [t \in Thread |-> Idle]

Runs(t) == state[t] = "running" /\ pc[t] = Idle

\* No thread is closing the object: callers do not start a call on it while one is.
Open(o) == \A t \in Thread : ~(pc[t].op = "close" /\ pc[t].on = o)

\* No thread is in a call on the object.
NotInUse(o) == \A t \in Thread : o \notin {pc[t].on, pc[t].with}

\* Threads that have been woken for a packet and are going to look for it.
Coming(o) == {t \in Thread : pc[t].op = "read" /\ pc[t].on = o /\ state[t] = "ready"
                              /\ wait_queue_block_ret[t] = "NO_ERROR"}

\* Callers close an object that nobody uses, or whose readers they want woken; with the
\* policy "any" also when a reader has been woken for a packet and not run yet.
MayClose(o) ==
  /\ \A t \in Thread : o \in {pc[t].on, pc[t].with} => pc[t].op = "read"
  /\ ClosePolicy = "any" \/ Coming(o) = {}

Named(n) == {i \in 1..Len(write_port_list) : name[write_port_list[i]] = n}

Unicast(w) == mode[w] \in {"unicast", "unicast_big"}

\* port_create() up to the allocation.  When the name is there already, the port or
\* ERR_BUSY is returned and nothing changes.  The check that is to refuse a broadcast
\* port with a big buffer tests a bit that is never set (PORT_MODE_BROADCAST is 0).
port_create(t, w, n, m) ==
  /\ Runs(t)
  /\ Named(n) = {}
  /\ wmagic[w] = "free" /\ nbuf < MaxBuf
  /\ wmagic' = [wmagic EXCEPT ![w] = "W"]
  /\ name' = [name EXCEPT ![w] = n]
  /\ mode' = [mode EXCEPT ![w] = m]
  /\ wbuf' = [wbuf EXCEPT ![w] = make_buf(m \in {"broadcast_big", "unicast_big"})]
  /\ w_rp_list' = [w_rp_list EXCEPT ![w] = <<>>]
  /\ nbuf' = nbuf + 1
  /\ pc' = [pc EXCEPT ![t] = In("create", w)]
  /\ UNCHANGED <<wqvars, write_port_list, rpvars, pgvars, written>>

\* The rest of it: the name is not looked up again.
port_create_add(t) ==
  /\ pc[t].op = "create"
  /\ write_port_list' = Append(write_port_list, pc[t].on)
  /\ pc' = [pc EXCEPT ![t] = Idle]
  /\ UNCHANGED <<wqvars, wmagic, name, mode, wbuf, w_rp_list, rpvars, pgvars, nbuf, written>>

\* Fault: the first reader gets a new buffer and the write port keeps its own.
OpenKeepsBuffer(t, n, r) ==
  /\ Runs(t) /\ ~rmagic[r] /\ NotInUse(r) /\ nbuf < MaxBuf
  /\ Named(n) # {}
  /\ LET w == write_port_list[Min(Named(n))]
     IN  /\ w_rp_list[w] = <<>> \/ ~Unicast(w)
         /\ rbuf' = [rbuf EXCEPT ![r] = make_buf(FALSE)]
         /\ nbuf' = nbuf + 1
         /\ w_rp_list' = [w_rp_list EXCEPT ![w] = Append(@, r)]
         /\ wport' = [wport EXCEPT ![r] = w]
  /\ rmagic' = [rmagic EXCEPT ![r] = TRUE]
  /\ gport' = [gport EXCEPT ![r] = NULL]
  /\ list' = [list EXCEPT ![r] = <<>>]
  /\ UNCHANGED <<state, blocking_wait_queue, wait_queue_block_ret, timer>>
  /\ UNCHANGED <<write_port_list, wmagic, name, mode, wbuf, pgvars, written, pc>>

\* The first reader takes over the write port's buffer; further ones get their own,
\* unless the port is unicast.  On an error the structures are freed again, and nothing
\* has changed.  A new buffer is allocated in any case and freed when it is not needed.
port_open(t, n, r) ==
  /\ Runs(t) /\ ~rmagic[r] /\ NotInUse(r) /\ nbuf < MaxBuf
  /\ Named(n) # {}
  /\ LET w == write_port_list[Min(Named(n))]
     IN  /\ \/ /\ wbuf[w] # NoBuf
               /\ rbuf' = [rbuf EXCEPT ![r] = wbuf[w]]
               /\ wbuf' = [wbuf EXCEPT ![w] = NoBuf]
               /\ UNCHANGED nbuf
            \/ /\ wbuf[w] = NoBuf /\ ~Unicast(w)
               /\ rbuf' = [rbuf EXCEPT ![r] = make_buf(FALSE)]
               /\ nbuf' = nbuf + 1
               /\ UNCHANGED wbuf
         /\ w_rp_list' = [w_rp_list EXCEPT ![w] = Append(@, r)]
         /\ wport' = [wport EXCEPT ![r] = w]
  /\ rmagic' = [rmagic EXCEPT ![r] = TRUE]
  /\ gport' = [gport EXCEPT ![r] = NULL]
  /\ list' = [list EXCEPT ![r] = <<>>]
  /\ UNCHANGED <<state, blocking_wait_queue, wait_queue_block_ret, timer>>
  /\ UNCHANGED <<write_port_list, wmagic, name, mode, pgvars, written, pc>>

\* A group of the ports of the sequence s.  If one of them is in a group already (or
\* given twice), what has been linked is undone and the group freed.
port_group(t, g, s) ==
  /\ "group" \in Calls /\ t \in Admins
  /\ Runs(t) /\ ~gmagic[g] /\ NotInUse(g)
  /\ \A i \in 1..Len(s) : rmagic[s[i]] /\ Open(s[i])
  /\ \A i \in 1..Len(s) : gport[s[i]] = NULL
  /\ \A i, j \in 1..Len(s) : s[i] = s[j] => i = j
  /\ gmagic' = [gmagic EXCEPT ![g] = TRUE]
  /\ g_rp_list' = [g_rp_list EXCEPT ![g] = s]
  /\ gport' = [r \in RPort |-> IF Contains(s, r) THEN g ELSE gport[r]]
  /\ list' = [list EXCEPT ![g] = <<>>]
  /\ UNCHANGED <<state, blocking_wait_queue, wait_queue_block_ret, timer>>
  /\ UNCHANGED <<wpvars, rmagic, rbuf, wport, nbuf, written, pc>>

\* Fault: a port that is in a group is taken all the same.
GroupAddUnchecked(t, g, r) ==
  /\ "group" \in Calls /\ t \in Admins
  /\ Runs(t) /\ gmagic[g] /\ Open(g) /\ rmagic[r] /\ Open(r)
  /\ pc' = [pc EXCEPT ![t] = [In("group_add", g) EXCEPT !.with = r]]
  /\ UNCHANGED <<wqvars, wpvars, rpvars, pgvars, nbuf, written>>

\* port_group_add() checks rp->gport before it takes the lock ...
port_group_add(t, g, r) ==
  /\ "group" \in Calls /\ t \in Admins
  /\ Runs(t) /\ gmagic[g] /\ Open(g) /\ rmagic[r] /\ Open(r)
  /\ gport[r] = NULL
  /\ pc' = [pc EXCEPT ![t] = [In("group_add", g) EXCEPT !.with = r]]
  /\ UNCHANGED <<wqvars, wpvars, rpvars, pgvars, nbuf, written>>

\* ... and links the port under it.  A member that has packets wakes a reader of the
\* group.  (MAX_PORT_GROUP_COUNT is out of reach of the instances.)
port_group_add_link(t) ==
  LET g == pc[t].on
      r == pc[t].with
  IN  /\ pc[t].op = "group_add"
      /\ gport' = [gport EXCEPT ![r] = g]
      /\ g_rp_list' = [g_rp_list EXCEPT ![g] = Append(@, r)]
      /\ IF buf_is_empty(rbuf[r]) THEN UNCHANGED wqvars ELSE wait_queue_wake_one(g, "NO_ERROR")
      /\ pc' = [pc EXCEPT ![t] = Idle]
      /\ UNCHANGED <<wpvars, rmagic, rbuf, wport, gmagic, nbuf, written>>

\* The port leaves the list of the group; rp->gport stays as it is.
port_group_remove(t, g, r) ==
  /\ "group_remove" \in Calls /\ t \in Admins
  /\ Runs(t) /\ gmagic[g] /\ Open(g) /\ rmagic[r] /\ Open(r)
  /\ gport[r] = g /\ Contains(g_rp_list[g], r)
  /\ g_rp_list' = [g_rp_list EXCEPT ![g] = list_delete(@, r)]
  /\ UNCHANGED <<wqvars, wpvars, rpvars, gmagic, nbuf, written, pc>>

\* One read port's share of a port_write(): its buffer, and one thread woken, of its
\* group first and otherwise of its own.
write_to(acc, r, count) ==
  IF acc.rbuf[r].avail < count
  THEN [acc EXCEPT !.partial = TRUE]
  ELSE LET q == IF gport[r] # NULL /\ acc.list[gport[r]] # <<>> THEN gport[r] ELSE r
       IN  [acc EXCEPT !.rbuf[r] = buf_write(@, written + 1, count),
                       !.woken = IF acc.list[q] = <<>> THEN @ ELSE @ \cup {Head(acc.list[q])},
                       !.list[q] = IF @ = <<>> THEN @ ELSE Tail(@)]

\* The effect of port_write() on all the read ports of w, in the order of the list.
write_all(w, count) ==
  LET one(acc, r) == write_to(acc, r, count)
  IN  FoldLeft(one, [rbuf |-> rbuf, list |-> list, woken |-> {}, partial |-> FALSE], w_rp_list[w])

\* The thread_yield() that follows when a thread was woken is left to the scheduler.
port_write(t, w, count) ==
  /\ Runs(t) /\ wmagic[w] = "W" /\ Contains(write_port_list, w)
  /\ written + count <= MaxPacket
  /\ written' = written + count
  /\ \/ /\ wbuf[w] # NoBuf
        /\ wbuf' = [wbuf EXCEPT ![w] = buf_write(@, written + 1, count)]
        /\ UNCHANGED <<wqvars, rbuf>>
     \/ /\ wbuf[w] = NoBuf
        /\ LET acc == write_all(w, count)
           IN  /\ rbuf' = acc.rbuf
               /\ list' = acc.list
               /\ Woken(acc.woken, "NO_ERROR")
        /\ UNCHANGED <<wbuf, timer>>
  /\ UNCHANGED <<write_port_list, wmagic, name, mode, w_rp_list, rmagic, wport, gport, pgvars, nbuf, pc>>

\* The read ports a read of o looks at, in order: o itself, or the members of the group.
Sources(o) == IF o \in Group THEN g_rp_list[o] ELSE <<o>>

\* The indices of those that have a packet.
Filled(o) == {i \in 1..Len(Sources(o)) : ~buf_is_empty(rbuf[Sources(o)[i]])}

\* A packet is taken from the first source that has one.
read_packet(o) ==
  /\ Filled(o) # {}
  /\ rbuf' = [rbuf EXCEPT ![Sources(o)[Min(Filled(o))]] = buf_read(@)]

\* The body of port_read() for a thread that has the lock, at its start or after its
\* wait: take a packet, or wait for one.
read_no_lock(t, o, timeout) ==
  /\ \/ /\ read_packet(o)
        /\ state' = [state EXCEPT ![t] = "running"]
        /\ timer' = [timer EXCEPT ![t] = FALSE]
        /\ pc' = [pc EXCEPT ![t] = Idle]
        /\ UNCHANGED <<list, blocking_wait_queue, wait_queue_block_ret>>
     \/ /\ Filled(o) = {}
        /\ timeout # "zero"
        /\ wait_queue_block(t, o, timeout = "finite")
        /\ pc' = [pc EXCEPT ![t] = [In("read", o) EXCEPT !.finite = (timeout = "finite")]]
        /\ UNCHANGED rbuf
  /\ UNCHANGED <<wpvars, rmagic, wport, gport, pgvars, nbuf, written>>

\* A read that finds nothing with a timeout of zero changes nothing.
port_read(t, o, timeout) ==
  /\ Runs(t) /\ Open(o) /\ (IF o \in Group THEN gmagic[o] ELSE rmagic[o])
  /\ read_no_lock(t, o, timeout)

\* port_read() after its wait: an error is returned, otherwise it looks again.
port_read_return(t) ==
  /\ pc[t].op = "read" /\ state[t] = "ready"
  /\ \/ /\ wait_queue_block_ret[t] = "NO_ERROR"
        /\ read_no_lock(t, pc[t].on, IF pc[t].finite THEN "finite" ELSE "infinite")
     \/ /\ wait_queue_block_ret[t] # "NO_ERROR"
        /\ wait_queue_return(t)
        /\ pc' = [pc EXCEPT ![t] = Idle]
        /\ UNCHANGED <<wpvars, rpvars, pgvars, nbuf, written>>

ReadTimeout(t) == wait_queue_timeout_handler(t) /\ UNCHANGED pvars

\* A closed write port goes away; its readers are told and become orphans.
port_destroy(t, w) ==
  /\ "destroy" \in Calls
  /\ Runs(t) /\ wmagic[w] = "X"
  /\ write_port_list' = list_delete(write_port_list, w)
  /\ LET rps == ToSet(w_rp_list[w])
         qs == rps \cup {gport[r] : r \in {x \in rps : gport[x] # NULL}}
     IN  /\ list' = [q \in Queue |-> IF q \in qs THEN <<>> ELSE list[q]]
         /\ Woken(UNION {ToSet(list[q]) : q \in qs}, "ERR_CANCELLED")
         /\ wport' = [r \in RPort |-> IF r \in rps THEN NULL ELSE wport[r]]
  /\ wmagic' = [wmagic EXCEPT ![w] = "free"]
  /\ nbuf' = IF wbuf[w] # NoBuf THEN nbuf - 1 ELSE nbuf
  /\ wbuf' = [wbuf EXCEPT ![w] = NoBuf]
  /\ UNCHANGED <<timer, name, mode, w_rp_list, rmagic, rbuf, gport, pgvars, written, pc>>

\* port_close() of a write port: it can still be opened and read.
port_close_write(t, w) ==
  /\ Runs(t) /\ wmagic[w] = "W" /\ Contains(write_port_list, w)
  /\ wmagic' = [wmagic EXCEPT ![w] = "X"]
  /\ UNCHANGED <<wqvars, write_port_list, name, mode, wbuf, w_rp_list, rpvars, pgvars, nbuf, written, pc>>

\* The buffer of a closing read port: the last one gives it back to the write port,
\* the others free theirs.  An orphan's stays allocated.
close_buffer(r) ==
  IF wport[r] = NULL
  THEN UNCHANGED <<wbuf, w_rp_list, nbuf>>
  ELSE LET rest == list_delete(w_rp_list[wport[r]], r)
       IN  /\ w_rp_list' = [w_rp_list EXCEPT ![wport[r]] = rest]
           /\ wbuf' = IF rest = <<>> THEN [wbuf EXCEPT ![wport[r]] = rbuf[r]] ELSE wbuf
           /\ nbuf' = IF rest = <<>> THEN nbuf ELSE nbuf - 1

\* port_close() of a read port up to the wake-up of its readers; when there are any,
\* the scheduler runs before rp->magic is cleared.  A port that port_group_remove() took
\* out of its group is never closed here: rp->gport still names the group, and the code
\* would unlink a node that is in no list.
port_close_read(t, r) ==
  /\ Runs(t) /\ rmagic[r] /\ Open(r) /\ MayClose(r)
  /\ gport[r] # NULL => Contains(g_rp_list[gport[r]], r)
  /\ close_buffer(r)
  /\ rbuf' = [rbuf EXCEPT ![r] = NoBuf]
  /\ g_rp_list' = IF gport[r] = NULL THEN g_rp_list
                  ELSE [g_rp_list EXCEPT ![gport[r]] = list_delete(@, r)]
  /\ gport' = [gport EXCEPT ![r] = NULL]
  /\ wport' = [wport EXCEPT ![r] = NULL]
  /\ wait_queue_destroy(r)
  /\ \/ /\ list[r] = <<>>
        /\ rmagic' = [rmagic EXCEPT ![r] = FALSE]
        /\ UNCHANGED pc
     \/ /\ list[r] # <<>>
        /\ pc' = [pc EXCEPT ![t] = In("close", r)]
        /\ UNCHANGED rmagic
  /\ UNCHANGED <<write_port_list, wmagic, name, mode, gmagic, written>>

\* The members of a group are released, and its magic cleared.
release_group(g) ==
  /\ gport' = [r \in RPort |-> IF Contains(g_rp_list[g], r) THEN NULL ELSE gport[r]]
  /\ g_rp_list' = [g_rp_list EXCEPT ![g] = <<>>]
  /\ gmagic' = [gmagic EXCEPT ![g] = FALSE]

\* port_close() of a group wakes its readers first.
port_close_group(t, g) ==
  /\ Runs(t) /\ gmagic[g] /\ Open(g) /\ MayClose(g)
  /\ wait_queue_destroy(g)
  /\ \/ /\ list[g] = <<>>
        /\ release_group(g)
        /\ UNCHANGED pc
     \/ /\ list[g] # <<>>
        /\ pc' = [pc EXCEPT ![t] = In("close", g)]
        /\ UNCHANGED <<gport, pgvars>>
  /\ UNCHANGED <<wpvars, rmagic, rbuf, wport, nbuf, written>>

\* The rest of port_close() when the scheduler runs the closing thread again.
port_close_end(t) ==
  /\ pc[t].op = "close"
  /\ \/ /\ pc[t].on \in RPort
        /\ rmagic' = [rmagic EXCEPT ![pc[t].on] = FALSE]
        /\ UNCHANGED <<gport, pgvars>>
     \/ /\ pc[t].on \in Group
        /\ release_group(pc[t].on)
        /\ UNCHANGED rmagic
  /\ pc' = [pc EXCEPT ![t] = Idle]
  /\ UNCHANGED <<wqvars, wpvars, rbuf, wport, nbuf, written>>

Next ==
  \E t \in Thread :
    \/ \E w \in WPort, n \in Name, m \in Mode : port_create(t, w, n, m)
    \/ port_create_add(t)
    \/ \E n \in Name, r \in RPort : port_open(t, n, r)
    \/ \E g \in Group, s \in SeqOf(RPort, 2) : port_group(t, g, s)
    \/ \E g \in Group, r \in RPort : port_group_add(t, g, r)
    \/ port_group_add_link(t)
    \/ \E g \in Group, r \in RPort : port_group_remove(t, g, r)
    \/ \E w \in WPort, count \in Counts : port_write(t, w, count)
    \/ \E o \in Queue, timeout \in {"zero", "finite", "infinite"} : port_read(t, o, timeout)
    \/ port_read_return(t)
    \/ ReadTimeout(t)
    \/ \E w \in WPort : port_close_write(t, w)
    \/ \E w \in WPort : port_destroy(t, w)
    \/ \E r \in RPort : port_close_read(t, r)
    \/ \E g \in Group : port_close_group(t, g)
    \/ port_close_end(t)

Spec == Init /\ [][Next]_vars
-----------------------------------------------------------------------------
Bufs == {wbuf[w] : w \in WPort} \cup {rbuf[r] : r \in RPort}

TypeOK ==
  /\ WaitQueueTypeOK
  /\ write_port_list \in Seq(WPort)
  /\ wmagic \in [WPort -> {"free", "W", "X"}]
  /\ name \in [WPort -> Name \cup {NULL}]
  /\ mode \in [WPort -> Mode \cup {"broadcast"}]
  /\ w_rp_list \in [WPort -> Seq(RPort)]
  /\ rmagic \in [RPort -> BOOLEAN]
  /\ wport \in [RPort -> WPort \cup {NULL}]
  /\ gport \in [RPort -> Group \cup {NULL}]
  /\ gmagic \in [Group -> BOOLEAN]
  /\ g_rp_list \in [Group -> Seq(RPort)]
  /\ nbuf \in Nat
  /\ \A b \in Bufs : b.avail \in 0..b.size

\* The ring of every port_buf_t is a queue (buf_write, buf_read): head, tail and avail
\* agree, and from head to tail its packets are in the order they were written.
BuffersKeepOrder ==
  \A b \in Bufs \ {NoBuf} :
    LET used == b.size - b.avail
        at(k) == b.packet[(b.head + k) % b.size]
    IN  /\ (b.head + used) % b.size = b.tail
        /\ \A k \in 0..(used - 1) : at(k) \in 1..written
        /\ \A k \in 1..(used - 1) : at(k - 1) < at(k)

\* A write port has a buffer exactly while nobody listens, so no packet is written
\* where no reader looks (port_open and port_close hand the buffer over); read ports
\* and write ports name each other; a unicast port has one reader.
BufferHasOneHome ==
  /\ \A w \in {x \in WPort : wmagic[x] # "free"} :
       /\ wbuf[w] # NoBuf <=> w_rp_list[w] = <<>>
       /\ \A r \in RPort : Contains(w_rp_list[w], r) <=> wport[r] = w
       /\ Unicast(w) => Len(w_rp_list[w]) <= 1
  /\ \A r \in RPort : (rmagic[r] /\ Open(r)) <=> rbuf[r] # NoBuf

\* The list of a group holds read ports that are open and know they are in it, each
\* once: "A given port can only be assoicated with one port group" (port.h).
MembersKnowTheirGroup ==
  \A g \in Group : \A i, j \in 1..Len(g_rp_list[g]) :
    /\ gport[g_rp_list[g][i]] = g /\ rmagic[g_rp_list[g][i]]
    /\ g_rp_list[g][i] = g_rp_list[g][j] => i = j

\* A read port that says it is in a group is in the list of that group, from which
\* port_close() is going to unlink it, and the group has not been closed.
GroupHasItsMembers ==
  \A r \in RPort : gport[r] # NULL => gmagic[gport[r]] /\ Contains(g_rp_list[gport[r]], r)

\* port_read() blocks only for want of a packet: nobody sleeps in a read while one of
\* the buffers the read looks at has packets that no woken thread is coming for.
NoReaderSleepsOnPackets ==
  \A t \in Thread :
    state[t] = "blocked" =>
      LET o == pc[t].on
      IN  Filled(o) # {} => \E i \in Filled(o) :
            Coming(Sources(o)[i]) # {} \/ (gport[Sources(o)[i]] # NULL /\ Coming(gport[Sources(o)[i]]) # {})

\* Write ports in the global list have different names: port_create() looks the name
\* up and returns the port "If the write port exists" (port.h).
NamesAreUnique == \A n \in Name : Cardinality(Named(n)) <= 1

\* A reader that port_write() woke finds the port still there when it runs.
ReaderFindsItsPort ==
  \A r \in RPort : Coming(r) # {} => rmagic[r] /\ Open(r)

\* Nobody sleeps in a read of a port whose write port was destroyed: "all calls will
\* now fail on that port" (port.h).
NobodySleepsOnAnOrphan ==
  \A t \in Thread, r \in RPort : state[t] = "blocked" /\ blocking_wait_queue[t] = r => wport[r] # NULL

\* Every allocated port_buf_t belongs to a write port or a read port: port_destroy()
\* and port_close() "release all resources" (port.h).
NoBufferLeaks ==
  nbuf = Cardinality({w \in WPort : wbuf[w] # NoBuf}) + Cardinality({r \in RPort : rbuf[r] # NoBuf})

\* A port_write() that brings count packets gives them to every read port or to none:
\* "all or none atomic success" (port.h).
WritesAllOrNone ==
  [][\A w \in WPort :
       written' > written =>
         LET got == {r \in ToSet(w_rp_list[w]) : rbuf'[r] # rbuf[r]}
         IN  got = {} \/ got = ToSet(w_rp_list[w])]_vars
=============================================================================
