-------------------------------- MODULE Klog --------------------------------
(***************************************************************************)
(* lib/klog/klog.c: several circular logs in memory that keeps its content *)
(* over a reset.  What is in that memory is hdr and logs; klog, the log    *)
(* written to, and the call in progress are lost in a reset.  Each store   *)
(* to the memory is a step of its own, and a reset may come after it.      *)
(* Every klog_create() is for the same memory, len and count, so that      *)
(* log_count and total_size are left out of the header: before the first   *)
(* klog_create() has stored the crc that covers them it is of no use.      *)
(* Memory that was never written is zero, and calls do not overlap.        *)
(***************************************************************************)
EXTENDS Integers, Sequences

CONSTANTS NumLogs, Size,   \* the count and the bufsize given to klog_create()
          Texts,           \* the strings logged, of bytes in 1..(ByteRange - 1)
          ByteRange,       \* 2^8
          SumRange,        \* 2^32
          SignedChar,      \* is char signed?
          MaxRead,         \* the longest read
          ReadOthers,      \* is klog_read() called for another log than the current one?
          MaxCalls, MaxResets,   \* bounds on the strings logged and on the resets
          NULL

VARIABLES hdr,     \* [magic, current_log, crc]: the crc is of current_log
          logs,    \* of each log: [magic, size, head, tail, sum, data], sum the data_checksum
          klog,    \* the log written to, NULL before klog_create() or klog_recover()
          call,    \* the call in progress
          unread,  \* ghost: what was logged, and neither read nor pushed out
          calls, resets,   \* counted for the bounds
          torn,    \* ghost: a reset came in the middle of a call since the last klog_create()
          cut      \* ghost: the logs that a reset left with the new head and the old tail

counts == <<calls, resets>>
vars == <<hdr, logs, klog, call, unread, torn, cut, counts>>

Logs == 0..(NumLogs - 1)
Slots == 0..(Size - 1)
Idle == [op |-> "idle"]
Wrap(n) == IF n >= Size THEN n - Size ELSE n
SumOf(data) == LET sum[i \in 0..Size] == IF i = 0 THEN 0 ELSE sum[i - 1] + data[i - 1]
               IN sum[Size] % SumRange

Init ==
  /\ hdr = [magic |-> FALSE, current_log |-> 0, crc |-> NULL]
  /\ logs = [l \in Logs |-> [magic |-> FALSE, size |-> 0, head |-> 0, tail |-> 0, sum |-> 0,
                         data |-> [i \in Slots |-> 0]]]
  /\ klog = NULL /\ call = Idle
  /\ unread = [l \in Logs |-> <<>>] /\ torn = FALSE /\ cut = {} /\ calls = 0 /\ resets = 0

\* what klog_get_buffer() returns, its two pieces put together
klog_get_buffer(l) ==
  LET k == logs[l]
      n == IF k.head >= k.tail THEN k.head - k.tail ELSE Size - k.tail + k.head
  IN [i \in 1..n |-> k.data[Wrap(k.tail + i - 1)]]

(***************************************************************************)
(* klog_create(): the header first, then one log after the other, and each *)
(* field by field.  No log is in use until klog_set_current_buffer(0) at   *)
(* its end, which finds current_log to be 0.                               *)
(***************************************************************************)
klog_create ==
  /\ call = Idle
  /\ klog' = NULL
  /\ hdr' = [hdr EXCEPT !.magic = TRUE]
  /\ call' = [op |-> "current_log"]
  /\ UNCHANGED <<logs, unread, torn, cut, counts>>

CreateCurrent ==
  /\ call.op = "current_log"
  /\ hdr' = [hdr EXCEPT !.current_log = 0]
  /\ call' = [op |-> "crc"]
  /\ UNCHANGED <<logs, klog, unread, torn, cut, counts>>

CreateCrc ==
  /\ call.op = "crc"
  /\ hdr' = [hdr EXCEPT !.crc = hdr.current_log]
  /\ call' = [op |-> "create", log |-> 0, at |-> 1]
  /\ UNCHANGED <<logs, klog, unread, torn, cut, counts>>

\* the fields of a log in the order in which they are stored, and what is stored
Order == <<"magic", "size", "head", "tail", "sum">>
Fresh == [magic |-> TRUE, size |-> Size, head |-> 0, tail |-> 0, sum |-> 0]

CreateLog ==
  LET field == Order[call.at]
  IN /\ call.op = "create"
     /\ logs' = [logs EXCEPT ![call.log][field] = Fresh[field]]
     /\ unread' = IF field = "head" THEN [unread EXCEPT ![call.log] = <<>>] ELSE unread
     /\ cut' = IF field = "tail" THEN cut \ {call.log} ELSE cut
     /\ call' = IF call.at < Len(Order) THEN [call EXCEPT !.at = @ + 1]
                ELSE [op |-> "memset", log |-> call.log, at |-> 0]
     /\ UNCHANGED <<hdr, klog, torn, counts>>

ClearData ==
  /\ call.op = "memset" /\ call.at < Size
  /\ logs' = [logs EXCEPT ![call.log].data[call.at] = 0]
  /\ call' = [call EXCEPT !.at = @ + 1]
  /\ UNCHANGED <<hdr, klog, unread, torn, cut, counts>>

checksum_klog_data ==
  /\ call.op = "memset" /\ call.at = Size
  /\ logs' = [logs EXCEPT ![call.log].sum = SumOf(logs[call.log].data)]
  /\ IF call.log + 1 < NumLogs
     THEN call' = [op |-> "create", log |-> call.log + 1, at |-> 1] /\ UNCHANGED <<klog, torn>>
     ELSE call' = Idle /\ klog' = 0 /\ torn' = FALSE
  /\ UNCHANGED <<hdr, unread, cut, counts>>

(***************************************************************************)
(* klog_recover(), after a reset                                           *)
(***************************************************************************)
Recoverable ==
  /\ hdr.magic /\ hdr.crc = hdr.current_log
  /\ \A l \in Logs :
       LET k == logs[l]
       IN k.magic /\ k.head < k.size /\ k.tail < k.size /\ (k.sum # 0 => SumOf(k.data) = k.sum)

klog_recover ==
  /\ klog = NULL /\ call = Idle /\ Recoverable
  /\ klog' = hdr.current_log
  /\ UNCHANGED <<hdr, logs, call, unread, torn, cut, counts>>

\* a reset, in the middle of a call or between two calls
Reset ==
  /\ klog # NULL \/ call # Idle
  /\ klog' = NULL /\ call' = Idle
  /\ resets < MaxResets /\ resets' = resets + 1
  /\ torn' = (torn \/ call # Idle)
  /\ cut' = IF call.op = "create" /\ Order[call.at] = "tail" THEN cut \cup {call.log} ELSE cut
  /\ UNCHANGED <<hdr, logs, unread, calls>>

(***************************************************************************)
(* klog_set_current_buffer(): current_log, then its checksum               *)
(***************************************************************************)
klog_set_current_buffer(l) ==
  /\ klog # NULL /\ call = Idle
  /\ klog' = l
  /\ IF l = hdr.current_log THEN UNCHANGED <<hdr, call>>
     ELSE hdr' = [hdr EXCEPT !.current_log = l] /\ call' = [op |-> "set"]
  /\ UNCHANGED <<logs, unread, torn, cut, counts>>

checksum_klog_buffer_header ==
  /\ call.op = "set"
  /\ hdr' = [hdr EXCEPT !.crc = hdr.current_log]
  /\ call' = Idle
  /\ UNCHANGED <<logs, klog, unread, torn, cut, counts>>

(***************************************************************************)
(* klog_puts_len()                                                         *)
(***************************************************************************)
klog_puts(text) ==
  /\ klog # NULL /\ call = Idle
  /\ calls < MaxCalls /\ calls' = calls + 1
  /\ call' = [op |-> "data", text |-> text, deltasum |-> 0]
  /\ UNCHANGED <<hdr, logs, klog, unread, torn, cut, resets>>

AsInt(c) == IF SignedChar /\ c >= ByteRange \div 2 THEN c - ByteRange ELSE c

\* Fault: the byte that is overwritten stays in the sum.
DeltaOfNew(c, old) == AsInt(c)

Delta(c, old) == AsInt(c) - old

StoreData ==
  LET k == logs[klog]
      c == Head(call.text)
  IN /\ call.op = "data" /\ call.text # <<>>
     /\ logs' = [logs EXCEPT ![klog].data[k.head] = c]
     /\ call' = [call EXCEPT !.op = "tail", !.deltasum = @ + Delta(c, k.data[k.head])]
     /\ UNCHANGED <<hdr, klog, unread, torn, cut, counts>>

\* Fault: the tail is moved after the head has passed it.
TooLate(k) == k.tail = k.head

Collides(k) == k.tail = Wrap(k.head + 1)

\* the tail moves when the head collides with it
BumpTail ==
  LET k == logs[klog]
  IN /\ call.op = "tail"
     /\ logs' = [logs EXCEPT ![klog].tail = IF Collides(k) THEN Wrap(@ + 1) ELSE @]
     /\ unread' = [unread EXCEPT ![klog] = IF Len(@) = Size - 1 THEN Tail(@) ELSE @]
     /\ call' = [call EXCEPT !.op = "head"]
     /\ UNCHANGED <<hdr, klog, torn, cut, counts>>

BumpHead ==
  /\ call.op = "head"
  /\ logs' = [logs EXCEPT ![klog].head = Wrap(@ + 1)]
  /\ unread' = [unread EXCEPT ![klog] = Append(@, Head(call.text))]
  /\ call' = [call EXCEPT !.op = "data", !.text = Tail(@)]
  /\ UNCHANGED <<hdr, klog, torn, cut, counts>>

AddDelta ==
  /\ call.op = "data" /\ call.text = <<>>
  /\ logs' = [logs EXCEPT ![klog].sum = (@ + call.deltasum) % SumRange]
  /\ call' = Idle
  /\ UNCHANGED <<hdr, klog, unread, torn, cut, counts>>

(***************************************************************************)
(* klog_read(): from the log asked for, but it is the tail of the current  *)
(* one that moves, past the end of the data at first.  klog_getc() and     *)
(* klog_getchar() are reads of one byte.                                   *)
(***************************************************************************)
klog_read(len, l) ==
  LET avail == Len(klog_get_buffer(l))
      n == IF len < avail THEN len ELSE avail
  IN /\ klog # NULL /\ call = Idle /\ avail > 0
     /\ ReadOthers \/ l = klog
     /\ logs' = [logs EXCEPT ![klog].tail = @ + n]
     /\ unread' = [unread EXCEPT ![l] = SubSeq(@, n + 1, Len(@))]
     /\ call' = IF logs[klog].tail + n >= Size THEN [op |-> "wrap"] ELSE Idle
     /\ UNCHANGED <<hdr, klog, torn, cut, counts>>

WrapTail ==
  /\ call.op = "wrap"
  /\ logs' = [logs EXCEPT ![klog].tail = @ - Size]
  /\ call' = Idle
  /\ UNCHANGED <<hdr, klog, unread, torn, cut, counts>>

Next ==
  \/ klog_create \/ CreateCurrent \/ CreateCrc \/ CreateLog \/ ClearData \/ checksum_klog_data
  \/ klog_recover \/ Reset
  \/ checksum_klog_buffer_header \/ StoreData \/ BumpTail \/ BumpHead \/ AddDelta \/ WrapTail
  \/ \E l \in Logs : klog_set_current_buffer(l) \/ \E n \in 1..MaxRead : klog_read(n, l)
  \/ \E text \in Texts : klog_puts(text)

Spec == Init /\ [][Next]_vars

(***************************************************************************)
(* Properties                                                              *)
(***************************************************************************)
TypeOK ==
  /\ hdr.magic \in BOOLEAN /\ hdr.current_log \in Logs
  /\ \A l \in Logs : /\ logs[l].head \in Slots /\ logs[l].tail \in 0..(2 * Size - 1)
                     /\ logs[l].size \in {0, Size} /\ logs[l].sum \in 0..(SumRange - 1)
  /\ klog \in Logs \cup {NULL} /\ cut \subseteq Logs

\* Whenever a log can be read it holds the last bytes logged and not read, in order, as many as fit:
\* after any number of resets between any two stores of any call, except that a reset between the
\* stores of head and tail in klog_create() leaves a log of which nothing is said (see the next one).
LogKeepsTheLast ==
  klog # NULL /\ call.op # "wrap" => \A l \in Logs \ cut : klog_get_buffer(l) = unread[l]

\* The same without the exception, of which the code falls short: klog_recover() accepts a log with
\* the new head, the old tail and the old checksum.
EveryLogKeepsTheLast ==
  klog # NULL /\ call.op # "wrap" => \A l \in Logs : klog_get_buffer(l) = unread[l]

\* A reset between two calls loses nothing: klog_recover() would accept what is in memory, and go on
\* with the log that was current.
ResetLosesNothing ==
  klog # NULL /\ call = Idle /\ ~torn => Recoverable /\ hdr.current_log = klog
=============================================================================
