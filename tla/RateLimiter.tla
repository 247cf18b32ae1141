----------------------------- MODULE RateLimiter -----------------------------
(***************************************************************************)
(* The token bucket that every batch passes before its handler runs:       *)
(* internal/syncengine/limiter.go, and Engine.SetRate.                     *)
(*                                                                         *)
(* Time is a clock that ticks, a token is Unit units, and a rate is units  *)
(* per tick.  Only differences of time matter: limiter.last is kept as the *)
(* ticks since then, up to the number that fills the bucket.  The window   *)
(* is history: from a moment the run chooses, it counts the ticks, the     *)
(* batches and the jobs that got through.                                  *)
(***************************************************************************)
EXTENDS Integers

CONSTANTS Callers,      \* workers that wait for a token
          Unit,         \* units of a token
          Rates,        \* rates SetRate is called with, 0 for no limit
          Bursts,       \* bursts SetRate is called with
          BatchSizes,   \* how many jobs a batch has
          WindowLength  \* bound: ticks of the window

ASSUME RateLimiterAssumption ==
    /\ Unit \in Nat \ {0} /\ Rates \subseteq Nat
    /\ Bursts \subseteq Nat \ {0} /\ BatchSizes \subseteq Nat \ {0}
    /\ WindowLength \in Nat

VARIABLES rate, burst,  \* limiter.rate, and limiter.burst in tokens
          tokens,       \* limiter.tokens, in units
          idle,         \* ticks since limiter.last
          call,         \* where each caller is
          sleep,        \* ticks until the caller's timer fires
          window,       \* history: ticks since the window was opened, -1 when there is none
          batches,      \* history: batches that got through in the window
          admitted      \* history: jobs that got through in the window

bucketVars == <<rate, burst, tokens, idle>>
callVars   == <<call, sleep>>
windowVars == <<window, batches, admitted>>
limiterVars == <<bucketVars, callVars, windowVars>>

Least(a, b) == IF a < b THEN a ELSE b

(* Ticks that fill the bucket at any rate.                                 *)
Horizon == burst * Unit

(* newLimiter: the bucket starts full.                                     *)
LimiterInit == /\ rate \in Rates /\ burst \in Bursts
               /\ tokens = burst * Unit
               /\ idle = 0
               /\ call = [c \in Callers |-> "out"] /\ sleep = [c \in Callers |-> 0]
               /\ window = -1 /\ batches = 0 /\ admitted = 0

(* refill: the tokens that the elapsed time earned, at the rate in force.  *)
Refilled == Least(tokens + idle * rate, burst * Unit)

(* Time passes.  A window ends after WindowLength ticks.                   *)
Tick == /\ idle' = Least(idle + 1, Horizon)
        /\ sleep' = [c \in Callers |-> IF sleep[c] > 0 THEN sleep[c] - 1 ELSE 0]
        /\ window' = IF window \in 0..(WindowLength - 1) THEN window + 1 ELSE -1
        /\ UNCHANGED <<rate, burst, tokens, call, batches, admitted>>

(* A worker reaches the limiter.                                           *)
Wait(c) == /\ call[c] = "out"
           /\ call' = [call EXCEPT ![c] = "asking"]
           /\ UNCHANGED <<bucketVars, sleep, windowVars>>

Granted(c) == /\ call' = [call EXCEPT ![c] = "granted"]
              /\ \E n \in BatchSizes :
                    IF window < 0 THEN UNCHANGED <<batches, admitted>>
                    ELSE batches' = batches + 1 /\ admitted' = admitted + n
              /\ UNCHANGED <<sleep, window>>

(* Mutant: time that was turned into tokens is counted again.              *)
ReserveTwice(c) ==
    /\ call[c] = "asking"
    /\ rate > 0 /\ Refilled >= Unit
    /\ tokens' = Refilled - Unit
    /\ Granted(c)
    /\ UNCHANGED <<rate, burst, idle>>

(* reserve, when there is a token or no limit.                             *)
Reserve(c) ==
    /\ call[c] = "asking"
    /\ rate = 0 \/ Refilled >= Unit
    /\ tokens' = IF rate = 0 THEN Refilled ELSE Refilled - Unit
    /\ idle' = 0
    /\ Granted(c)
    /\ UNCHANGED <<rate, burst>>

(* reserve, when the caller has to come back: the wait is rounded down and *)
(* is never zero.  Nothing is reserved for it.                             *)
ReserveLater(c) ==
    /\ call[c] = "asking"
    /\ rate > 0 /\ Refilled < Unit
    /\ tokens' = Refilled
    /\ idle' = 0
    /\ call' = [call EXCEPT ![c] = "asleep"]
    /\ sleep' = [sleep EXCEPT ![c] = LET d == (Unit - Refilled) \div rate
                                     IN  IF d = 0 THEN 1 ELSE d]
    /\ UNCHANGED <<rate, burst, windowVars>>

(* Wait: the timer fired, and the caller asks again.                       *)
Wake(c) == /\ call[c] = "asleep"
           /\ sleep[c] = 0
           /\ call' = [call EXCEPT ![c] = "asking"]
           /\ UNCHANGED <<bucketVars, sleep, windowVars>>

(* Wait: the context of the batch is cancelled.                            *)
Abandon(c) == /\ call[c] \in {"asking", "asleep"}
              /\ call' = [call EXCEPT ![c] = "out"]
              /\ sleep' = [sleep EXCEPT ![c] = 0]
              /\ UNCHANGED <<bucketVars, windowVars>>

(* The handler ran and the worker comes round.                             *)
ComeRound(c) == /\ call[c] = "granted"
                /\ call' = [call EXCEPT ![c] = "out"]
                /\ UNCHANGED <<bucketVars, sleep, windowVars>>

(* Mutant: every change of the rate empties the bucket.                    *)
SetRateEmpties(r, b) ==
    /\ tokens' = 0
    /\ idle' = 0
    /\ rate' = r /\ burst' = b
    /\ window' = -1
    /\ UNCHANGED <<callVars, batches, admitted>>

(* setRate: the time so far counts at the old rate, and the bucket keeps   *)
(* what the new burst allows.  Who sleeps goes on sleeping.                *)
SetRate(r, b) ==
    /\ tokens' = Least(Refilled, b * Unit)
    /\ idle' = 0
    /\ rate' = r /\ burst' = b
    /\ window' = -1
    /\ UNCHANGED <<callVars, batches, admitted>>

(* A window is opened, at any moment while there is a limit.               *)
Observe == /\ window = -1 /\ rate > 0
           /\ window' = 0 /\ batches' = 0 /\ admitted' = 0
           /\ UNCHANGED <<bucketVars, callVars>>

LimiterNext == \/ Tick \/ Observe
               \/ \E c \in Callers : Wait(c) \/ Reserve(c) \/ ReserveLater(c) \/ Wake(c)
                                     \/ Abandon(c) \/ ComeRound(c)
               \/ \E r \in Rates, b \in Bursts : SetRate(r, b)

LimiterSpec == LimiterInit /\ [][LimiterNext]_limiterVars

(* Time passes, and a worker that can run runs.                            *)
LimiterFairness == /\ WF_limiterVars(Tick)
                   /\ \A c \in Callers : WF_limiterVars(Reserve(c) \/ ReserveLater(c) \/ Wake(c) \/ ComeRound(c))

LimiterFairSpec == LimiterSpec /\ LimiterFairness

-----------------------------------------------------------------------------
LimiterTypeOK == /\ rate \in Rates /\ burst \in Bursts
                 /\ tokens \in 0..(burst * Unit)
                 /\ idle \in 0..Horizon
                 /\ call \in [Callers -> {"out", "asking", "asleep", "granted"}]
                 /\ sleep \in [Callers -> 0..Unit]
                 /\ window \in -1..WindowLength /\ batches \in Nat /\ admitted \in Nat

(* From any moment on, until the rate is changed, no more batches get      *)
(* through than the burst and what the rate earns in that time, however    *)
(* many workers wait ("never makes the remote see twice the traffic").     *)
RateKept == window >= 0 => batches * Unit <= burst * Unit + window * rate

(* Options.Rate "is the shared outbound limit in jobs per second, across   *)
(* the whole pool" and Burst "is how many jobs may start at once before    *)
(* the rate applies" (engine.go).                                          *)
JobRateKept == window >= 0 => admitted * Unit <= burst * Unit + window * rate

(* "The limiter delays work, it never drops it" (engine_test.go): workers  *)
(* that wait are served again and again, even while the rate is changed    *)
(* over and over, unless they give up or none waits.  Only a limit that is *)
(* removed and set again and again can starve those who sleep through it.  *)
WaitersServed ==
    <>[](rate > 0) =>
        \/ []<>(\A c \in Callers : call[c] \notin {"asking", "asleep"})
        \/ []<>(\E c \in Callers : call[c] = "granted")
        \/ []<><<\E c \in Callers : Abandon(c)>>_limiterVars
=============================================================================
