---------------------------- MODULE RttEstimator ----------------------------
(***************************************************************************)
(* The RTT estimator of a connection (tcp_rtt.rs): smoothed RTT and its    *)
(* variation with the shifts of the code, the retransmission timeout with  *)
(* its bounds, and the doubling of the timeout.  An estimator without a    *)
(* sample has srtt = 0; a sample is at least 1.                            *)
(***************************************************************************)
EXTENDS Integers

CONSTANTS
    MinRto,         \* min_rto_us
    InitialRto,     \* initial_rto_us
    MaxRto          \* max_rto_us

\* The debug assertions of RttEstimator::new.  Engine::new refuses min > max
\* only: that the initial timeout lies between them a release build takes on trust.
ASSUME RtoBounds ==
    /\ {MinRto, InitialRto, MaxRto} \subseteq Nat
    /\ MinRto <= InitialRto /\ InitialRto <= MaxRto

Clamp(x, lo, hi) == IF x < lo THEN lo ELSE IF x > hi THEN hi ELSE x
AbsDiff(a, b) == IF a < b THEN b - a ELSE a - b

\* RttEstimator::new
NewEstimator == [srtt |-> 0, rttvar |-> 0, rto |-> InitialRto]

\* Mutant: the gain of SRTT is applied to the sample only.
SmoothedDrift(srtt, rtt) == srtt + rtt \div 8

Smoothed(srtt, rtt) == srtt - srtt \div 8 + rtt \div 8

Varied(rttvar, delta) == rttvar - rttvar \div 4 + delta \div 4

\* RttEstimator::sample
Sample(e, sampled) ==
    LET rtt    == IF sampled < 1 THEN 1 ELSE sampled
        srtt   == IF e.srtt = 0 THEN rtt ELSE Smoothed(e.srtt, rtt)
        rttvar == IF e.srtt = 0 THEN rtt \div 2
                  ELSE Varied(e.rttvar, AbsDiff(e.srtt, rtt))
    IN  [srtt |-> srtt, rttvar |-> rttvar, rto |-> Clamp(srtt + 4 * rttvar, MinRto, MaxRto)]

\* RttEstimator::apply_backoff
Backoff(e) == [e EXCEPT !.rto = IF 2 * @ < MaxRto THEN 2 * @ ELSE MaxRto]
=============================================================================
