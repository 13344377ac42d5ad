--------------------------- MODULE TimeArithmetic ---------------------------
(***************************************************************************)
(* How EventTimerFd turns a deadline into the timespec with which it arms  *)
(* the timerfd.  The kernel refuses a timespec whose nanoseconds are not   *)
(* less than a second (and the process ends), and takes zero to disarm.    *)
(***************************************************************************)
EXTENDS Integers, TLAPS

kMicroSecondsPerSecond == 1000000
kMinimalTimerIntervalUs == 100

(* Timestamp::now: gettimeofday in microseconds.                           *)
Now(timeval) == timeval.tv_sec * kMicroSecondsPerSecond + timeval.tv_usec

Larger(x, y) == IF x >= y THEN x ELSE y

GetRelativeTimeFromNow(expiredTime, now) ==
  LET microSeconds == Larger(kMinimalTimerIntervalUs, expiredTime - now) IN
  [tv_sec |-> microSeconds \div kMicroSecondsPerSecond,
   tv_nsec |-> (microSeconds % kMicroSecondsPerSecond) * 1000]

(* What the kernel makes of a timespec.                                    *)
Nanoseconds(timespec) == timespec.tv_sec * 1000000000 + timespec.tv_nsec

(* The clock's reading is whole microseconds and misses none: it gives a   *)
(* later time for a later timeval (Timestamp.cpp:15-21).                   *)
THEOREM NowIsMonotonic ==
  ASSUME NEW s \in Nat, NEW us \in Nat, us < kMicroSecondsPerSecond,
         NEW t \in Nat, NEW ut \in Nat, ut < kMicroSecondsPerSecond,
         s < t \/ (s = t /\ us < ut)
  PROVE  Now([tv_sec |-> s, tv_usec |-> us]) < Now([tv_sec |-> t, tv_usec |-> ut])
<1>1. s * 1000000 + us < t * 1000000 + ut
  BY SMT DEF kMicroSecondsPerSecond
<1>2. QED
  BY <1>1, SMT DEF Now, kMicroSecondsPerSecond

(* Whatever the deadline and the time are, deadlines long past included,   *)
(* triggerEventAt passes timerfd_settime a timespec that it accepts, that  *)
(* never disarms the timer, and that is exactly the time to the deadline or*)
(* the least interval (EventTimerFd.cpp:48-61).                            *)
THEOREM RelativeTimeArms ==
  ASSUME NEW expiredTime \in Int, NEW now \in Int
  PROVE  LET timespec == GetRelativeTimeFromNow(expiredTime, now) IN
         /\ timespec.tv_sec \in Nat
         /\ timespec.tv_nsec \in Nat /\ timespec.tv_nsec < 1000000000
         /\ Nanoseconds(timespec) # 0
         /\ Nanoseconds(timespec)
              = 1000 * Larger(kMinimalTimerIntervalUs, expiredTime - now)
<1> DEFINE us == Larger(kMinimalTimerIntervalUs, expiredTime - now)
<1>1. us \in Nat /\ us >= 100
  BY SMT DEF Larger, kMinimalTimerIntervalUs
<1> HIDE DEF us
<1>2. /\ us \div 1000000 \in Nat
      /\ us % 1000000 \in Nat /\ us % 1000000 < 1000000
      /\ us = 1000000 * (us \div 1000000) + (us % 1000000)
  BY <1>1, SMT
<1>3. GetRelativeTimeFromNow(expiredTime, now)
        = [tv_sec |-> us \div 1000000, tv_nsec |-> (us % 1000000) * 1000]
  BY SMT DEF GetRelativeTimeFromNow, us, kMicroSecondsPerSecond
<1>4. Nanoseconds(GetRelativeTimeFromNow(expiredTime, now)) = 1000 * us
  <2>1. (us \div 1000000) * 1000000000 + (us % 1000000) * 1000 = 1000 * us
    BY <1>1, <1>2, SMT
  <2>2. QED
    BY <1>3, <2>1, SMT DEF Nanoseconds
<1>5. QED
  BY <1>1, <1>2, <1>3, <1>4, SMT DEF us
=============================================================================
