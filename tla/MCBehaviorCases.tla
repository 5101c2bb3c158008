-------------------------- MODULE MCBehaviorCases --------------------------
(* Instances of BehaviorCases for TLC. *)
EXTENDS BehaviorCases

Trial(f, o, d) == [fault |-> f, outage |-> o, delay |-> d]

\* More requests than a run sends.
MaxRequests == 60

\* How many requests later a lost one may be handled, if it ever is.
MaxDelay == 6

\* Every candidate with all its answers, and the reference without one answer, or
\* without all from some on.  A lost request is handled at once, before any one of
\* the MaxDelay requests after it, or never.
MCTrials ==
    {Trial(f, {}, 0) : f \in UNION {FaultsOf(t) : t \in Tasks}}
    \cup {Trial("none", {n}, d) : n \in 1 .. MaxRequests, d \in 0 .. MaxDelay \cup {MaxRequests}}
    \cup {Trial("none", n .. MaxRequests, d) : n \in 1 .. MaxRequests, d \in {0, 1, MaxRequests}}

=============================================================================
