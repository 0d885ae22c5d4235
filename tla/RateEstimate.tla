---------------------------- MODULE RateEstimate ----------------------------
(***************************************************************************)
(* SpeedEstimator: a window of samples of a byte counter, and the speed    *)
(* and the time left that are shown.  Time is counted in ticks, and the    *)
(* instant of a sample by its age: the ticks since it was taken.           *)
(***************************************************************************)
EXTENDS Integers, Sequences, FiniteSetsExt

CONSTANTS
  Second,       \* ticks of a second, the unit of speeds
  SpeedWindow, MinRateSpan,
  MaxSamples,
  StabilityRatio,
  MaxRate       \* MAX_SAFE_INTEGER

ASSUME RateBounds ==
  /\ {Second, SpeedWindow, MinRateSpan} \subseteq Nat \ {0}
  /\ MaxSamples \in Nat /\ MaxSamples > 2
  /\ {StabilityRatio, MaxRate} \subseteq Nat \ {0}

Absent == -1

NoEstimate == [speed |-> Absent, eta |-> Absent, stable |-> FALSE]

Newest(samples) == samples[Len(samples)]

-----------------------------------------------------------------------------
Aged(samples, ticks) == [k \in DOMAIN samples |-> [samples[k] EXCEPT !.age = @ + ticks]]

\* trim: as many leading samples go as are not needed to reach back over the window.
Trimmed(samples) ==
  LET spare(n) == n = 0 \/ (Len(samples) - n >= 2 /\ samples[n + 1].age > SpeedWindow)
      drop == Max({n \in 0 .. Len(samples) - 1 : \A m \in 0 .. n : spare(m)})
      over == Max({0, Len(samples) - drop - MaxSamples})
  IN SubSeq(samples, drop + over + 1, Len(samples))

\* sample_at, of samples aged by the time since the last one
WithSample(samples, bytes) ==
  LET kept == IF samples # <<>> /\ bytes < Newest(samples).bytes THEN <<>> ELSE samples
      older == IF kept # <<>> /\ Newest(kept).age = 0 THEN SubSeq(kept, 1, Len(kept) - 1)
               ELSE kept
  IN Trimmed(Append(older, [age |-> 0, bytes |-> bytes]))

Rate(bytes, ticks) == Min({(bytes * Second) \div ticks, MaxRate})

IntervalRates(samples) ==
  {Rate(samples[k].bytes - samples[k - 1].bytes, samples[k - 1].age - samples[k].age) :
     k \in {j \in 2 .. Len(samples) : samples[j - 1].age > samples[j].age}}

\* rates_are_stable.  Two samples have one interval and give no estimate at all.
Stable(rates) ==
  \/ Max(rates) = 0
  \/ Min(rates) > 0 /\ Max(rates) <= Min(rates) * StabilityRatio

CeilDiv(a, b) == IF a % b = 0 THEN a \div b ELSE a \div b + 1

Estimate(samples, expected) ==
  LET first == samples[1]
      last == Newest(samples)
      speed == Rate(last.bytes - first.bytes, first.age - last.age)
      stable == Stable(IntervalRates(samples))
  IN IF Len(samples) < 3 \/ first.age - last.age < MinRateSpan
     THEN [NoEstimate EXCEPT !.eta = IF last.bytes = expected THEN 0 ELSE Absent]
     ELSE [speed |-> speed, stable |-> stable,
           eta |-> IF last.bytes = expected THEN 0
                   ELSE IF last.bytes < expected /\ speed > 0 /\ stable
                   THEN Min({CeilDiv(expected - last.bytes, speed), MaxRate})
                   ELSE Absent]
=============================================================================
