------------------------------ MODULE MCKernel ------------------------------
(***************************************************************************)
(* Timers and ports, for TLC: two timers on two processors while the clock *)
(* wraps around; a broadcast port with a group of two read ports; and      *)
(* ports with big buffers and unicast ports without groups. "who" says     *)
(* which a behaviour is about; the timers stay as they are created in the  *)
(* behaviours of the others, and the variables that they do not share stay *)
(* 0.                                                                      *)
(***************************************************************************)
EXTENDS Timer, TLC

CONSTANTS t1, t2, w1, r1, r2, g1, n1   \* model values

VARIABLES who,  \* the component that runs
          list, state, blocking_wait_queue, wait_queue_block_ret, timer, write_port_list,
          wmagic, name, mode, wbuf, w_rp_list, rmagic, rbuf, wport, gport, gmagic, g_rp_list,
          nbuf, written, pc2

Groups == INSTANCE Port WITH
  Thread <- {t1, t2}, WPort <- {w1}, RPort <- {r1, r2}, Name <- {n1}, PORT_BUFF_SIZE <- 2,
  PORT_BUFF_SIZE_BIG <- 4, Admins <- {t1}, ClosePolicy <- "sleeping", Group <- {g1},
  Queue <- {r1, r2, g1}, Mode <- {"broadcast"}, Counts <- {1}, MaxPacket <- 1, MaxBuf <- 4,
  Calls <- {"group", "group_remove"}, pc <- pc2
Modes == INSTANCE Port WITH
  Thread <- {t1, t2}, WPort <- {w1}, RPort <- {r1, r2}, Name <- {n1}, PORT_BUFF_SIZE <- 2,
  PORT_BUFF_SIZE_BIG <- 4, Admins <- {t1}, ClosePolicy <- "sleeping", Group <- {},
  Queue <- {r1, r2}, Mode <- {"broadcast_big", "unicast"}, Counts <- {1, 2}, MaxPacket <- 3,
  MaxBuf <- 2, Calls <- {"destroy"}, pc <- pc2

ASSUME TimerAssumption /\ DelaysAreShort /\ Groups!PortAssumption /\ Modes!PortAssumption

\* What each component leaves alone.
NotTimer ==
  <<who, list, state, blocking_wait_queue, wait_queue_block_ret, timer, write_port_list, wmagic,
  name, mode, wbuf, w_rp_list, rmagic, rbuf, wport, gport, gmagic, g_rp_list, nbuf, written,
  pc2>>
NotPort == <<who, vars>>

SumInit ==
  \/ /\ who = "timer" /\ timer_init
     /\ list = 0 /\ state = 0 /\ blocking_wait_queue = 0 /\ wait_queue_block_ret = 0
     /\ timer = 0 /\ write_port_list = 0 /\ wmagic = 0 /\ name = 0 /\ mode = 0 /\ wbuf = 0
     /\ w_rp_list = 0 /\ rmagic = 0 /\ rbuf = 0 /\ wport = 0 /\ gport = 0 /\ gmagic = 0
     /\ g_rp_list = 0 /\ nbuf = 0 /\ written = 0 /\ pc2 = 0
  \/ /\ who = "groups" /\ Groups!Init /\ timer_init
  \/ /\ who = "modes" /\ Modes!Init /\ timer_init

SumNext ==
  \/ who = "timer" /\ Next /\ UNCHANGED NotTimer
  \/ who = "groups" /\ Groups!Next /\ UNCHANGED NotPort
  \/ who = "modes" /\ Modes!Next /\ UNCHANGED NotPort

sumvars ==
  <<who, vars, list, state, blocking_wait_queue, wait_queue_block_ret, timer, write_port_list,
  wmagic, name, mode, wbuf, w_rp_list, rmagic, rbuf, wport, gport, gmagic, g_rp_list, nbuf,
  written, pc2>>

SumSpec == SumInit /\ [][SumNext]_sumvars
-----------------------------------------------------------------------------
\* The processors, the timers and the read ports are interchangeable.
Symmetry == Permutations(CPU) \cup Permutations(TimerT) \cup Permutations({r1, r2})

\* Packets come out of a buffer in the order in which they were written into it.
BuffersKeepOrder ==
  /\ who = "groups" => Groups!BuffersKeepOrder
  /\ who = "modes" => Modes!BuffersKeepOrder

\* A buffer belongs to one port, and a read port in a group knows its group.
BufferHasOneHome == who = "groups" => Groups!BufferHasOneHome /\ Groups!MembersKnowTheirGroup
=============================================================================
