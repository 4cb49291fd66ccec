------------------------------ MODULE Deadline ------------------------------
(***************************************************************************)
(* The deadline wait_timeo computes, in PosixSerialComm and in both        *)
(* schedulers: the time of day plus a timeout in milliseconds, as seconds  *)
(* and nanoseconds.  pthread_cond_timedwait refuses nanoseconds that make  *)
(* a second or more, and wait_timeo takes the refusal for a timeout: such  *)
(* a wait ends as it begins.                                               *)
(***************************************************************************)
EXTENDS Integers

Second == 1000000000   \* in nanoseconds

tv_sec(now, timeo_ms)  == now.sec + timeo_ms \div 1000
tv_nsec(now, timeo_ms) == now.usec * 1000 + (timeo_ms % 1000) * 1000000

Refused(now, timeo_ms) == tv_nsec(now, timeo_ms) >= Second

TimeOfDay == {now \in [sec: Nat, usec: Nat] : now.usec < 1000000}
=============================================================================
