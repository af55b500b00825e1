------------------------------- MODULE Backoff -------------------------------
(***************************************************************************)
(* The attempts of one delivery: deliver, backoff and sleep of             *)
(* pipeline.go, what webhook.classify makes of an answer and               *)
(* webhook.retryAfter of its header.  Durations are int64 nanoseconds and  *)
(* wrap around.  Here they count units of 256 ns, of which every duration  *)
(* computed below is a multiple, and have Bits = 56 bits.  A shift is read *)
(* bit by bit; of a negative duration only the sign matters.               *)
(***************************************************************************)
EXTENDS Integers

CONSTANTS
    Second,        \* time.Second
    Bits,          \* bits of a duration, the sign included
    MaxBackoff,    \* maxBackoff
    MaxRetryAfter, \* maxRetryAfter of the output
    MaxAttempts,   \* retry.max_attempts
    Headers,       \* what Retry-After may say
    Statuses       \* the status of an answer, 0 when there is none

Pow2[n \in Nat] == IF n = 0 THEN 1 ELSE 2 * Pow2[n - 1]

(* Products of seconds and caps have fewer than 32 bits. *)
ASSUME DurationAssumption ==
    /\ Second \in Nat /\ Second >= 2 /\ Second < Pow2[22]
    /\ Bits \in 33..64
    /\ MaxBackoff \in Nat /\ MaxBackoff >= Second /\ MaxBackoff \div 2 < Pow2[30]
    /\ MaxRetryAfter \in Nat /\ MaxRetryAfter >= Second
    /\ MaxRetryAfter \div 2 < Pow2[30]
    /\ MaxAttempts \in Nat \ {0}
    /\ Statuses \subseteq {0} \cup 200..599

(* An unusable header; a number of seconds n * 2^e; a date, as the seconds  *)
(* until then, which time.Sub saturates and so never wraps.                 *)
NoHeader == [form |-> "none", n |-> 0, e |-> 0]
Seconds(n, e) == [form |-> "seconds", n |-> n, e |-> e]
Date(n) == [form |-> "date", n |-> n, e |-> 0]

ASSUME HeadersAssumption ==
    \A h \in Headers :
        /\ h.form \in {"none", "seconds", "date"}
        /\ h.n \in -512..512 /\ h.e \in 0..62
        /\ h.n < 0 \/ h.form # "seconds" => h.e = 0

VARIABLES
    phase,    \* "send", "sleep", "done"; "panic" once rand.N was given n <= 0
    attempt,
    delay,    \* the wait under way
    status,   \* of the last answer
    header    \* and its Retry-After

vars == <<phase, attempt, delay, status, header>>

-----------------------------------------------------------------------------
Negative == -1

Smaller(a, b) == IF a < b THEN a ELSE b

(* Bit k of x << n; x has fewer than 32 bits and no sign. *)
Bit(x, n, k) == IF k - n \in 0..30 THEN (x \div Pow2[k - n]) % 2 ELSE 0

(* The number in the 31 low bits of x << n. *)
Low(x, n) ==
    IF n = 0 THEN x ELSE IF n > 30 THEN 0 ELSE (x % Pow2[31 - n]) * Pow2[n]

(* min(x << n, cap) in Bits bits. *)
Capped(x, n, cap) ==
    IF Bit(x, n, Bits - 1) = 1 THEN Negative
    ELSE IF \E k \in 31..(Bits - 2) : Bit(x, n, k) = 1 THEN cap
    ELSE Smaller(Low(x, n), cap)

(* backoff without a Retry-After: half of it fixed, half of it random.  The *)
(* ends of the random half stand for all of it.                             *)
FullJitter(d) == {0, d}                 \* mutant: all of it random
EqualJitter(d) == {d \div 2, 2 * (d \div 2)}

OwnDelay(a) == Capped(Second, a - 1, MaxBackoff)

(* webhook.retryAfter: the seconds are multiplied before the cap. *)
Wait(h) ==
    IF h.form = "seconds" /\ h.n >= 0
    THEN Capped(h.n * Second, h.e, MaxRetryAfter)
    ELSE Smaller(h.n * Second, MaxRetryAfter)

Asked(h) == IF Wait(h) < 0 THEN 0 ELSE Wait(h)

UsableAlways(h) == TRUE                 \* mutant: an unusable header is 0
Usable(h) == h.form # "none"

-----------------------------------------------------------------------------
(* classify: whether another attempt could plausibly succeed. *)
Delivers(s) == s \div 100 = 2

RetriableToo(s) == ~Delivers(s)         \* mutant: a rejection is tried again
Retriable(s) == s \in {0, 408, 429} \/ s \div 100 = 5

(* Only these two may ask for a wait. *)
Listens(s) == s \in {429, 503}

Init ==
    /\ phase = "send"
    /\ attempt = 1
    /\ delay = 0
    /\ status = 0
    /\ header = NoHeader

Answer(s, h) == status' = s /\ header' = h

Delivered ==
    /\ phase = "send"
    /\ \E s \in Statuses : Delivers(s) /\ Answer(s, NoHeader)
    /\ phase' = "done"
    /\ UNCHANGED <<attempt, delay>>

(* ErrPermanent *)
Rejected ==
    /\ phase = "send"
    /\ \E s \in Statuses : ~Delivers(s) /\ ~Retriable(s) /\ Answer(s, NoHeader)
    /\ phase' = "done"
    /\ UNCHANGED <<attempt, delay>>

LastAttempt == attempt = MaxAttempts

Exhausted ==
    /\ phase = "send"
    /\ LastAttempt
    /\ \E s \in Statuses : Retriable(s) /\ Answer(s, NoHeader)
    /\ phase' = "done"
    /\ UNCHANGED <<attempt, delay>>

(* What a Retry-After may say; where nobody answers there is none. *)
Heard(s) == IF s = 0 THEN {NoHeader} ELSE Headers

(* An attempt fails and another one is left: backoff, then sleep. *)
FailAsked ==
    /\ phase = "send" /\ ~LastAttempt
    /\ \E s \in Statuses : \E h \in Heard(s) :
          /\ Retriable(s) /\ Listens(s) /\ Usable(h)
          /\ Answer(s, h)
          /\ delay' = Asked(h)
    /\ phase' = "sleep"
    /\ UNCHANGED attempt

FailPlain ==
    /\ phase = "send" /\ ~LastAttempt
    /\ \E s \in Statuses : \E h \in Heard(s) :
          /\ Retriable(s) /\ ~(Listens(s) /\ Usable(h))
          /\ Answer(s, h)
    /\ IF OwnDelay(attempt) = Negative
       THEN phase' = "panic" /\ UNCHANGED delay
       ELSE phase' = "sleep" /\ delay' \in EqualJitter(OwnDelay(attempt))
    /\ UNCHANGED attempt

Wake ==
    /\ phase = "sleep"
    /\ phase' = "send"
    /\ attempt' = attempt + 1
    /\ delay' = 0
    /\ Answer(0, NoHeader)

Next == Delivered \/ Rejected \/ Exhausted \/ FailAsked \/ FailPlain \/ Wake

Spec == Init /\ [][Next]_vars

-----------------------------------------------------------------------------
(* Properties. *)

(* What backoff means to compute, without a width: Second * 2^(a-1), at     *)
(* most MaxBackoff.                                                         *)
Intended(a) ==
    IF a <= 31 /\ Pow2[a - 1] <= MaxBackoff \div Second
    THEN Second * Pow2[a - 1] ELSE MaxBackoff

(* The destination says when to come back, in a way that can be read. *)
Asks == status \in {429, 503} /\ header.form # "none"

(* TestBackoff, for every attempt that is followed by another: without a   *)
(* Retry-After the wait is between half and all of the doubled base, the    *)
(* cap at most.  It holds for as many attempts as the width allows.         *)
ExponentialWithJitter ==
    phase = "sleep" /\ ~Asks =>
        /\ Intended(attempt) \div 2 <= delay
        /\ delay <= Intended(attempt)

(* The wait that a header asks for, the cap at most, without a width. *)
Request(h) ==
    IF h.n < 0 THEN 0
    ELSE IF h.n * Pow2[h.e] > MaxRetryAfter \div Second THEN MaxRetryAfter
    ELSE h.n * Pow2[h.e] * Second

(* A destination that asks for a wait within the cap gets exactly that,     *)
(* one that asks for more than the cap gets the cap, one with a date that   *)
(* has passed none; a header that cannot be read is no request for none,    *)
(* and without a request no attempt follows at once.                        *)
AskedIsGiven ==
    phase = "sleep" =>
        IF Asks THEN delay = Request(header) ELSE delay > 0

(* README.md: an answer 4xx other than 408 or 429 and a redirect are not    *)
(* retried, everything else that is no delivery is, up to the configured    *)
(* attempt and not one less.                                                *)
RetriedWhileItHelps ==
    LET final == status \in 200..499 \ {408, 429}
    IN /\ phase = "sleep" => ~final
       /\ phase = "done" => final \/ attempt = MaxAttempts

(* config.go: a config that loads is a config that runs.  So it does up to  *)
(* the attempt whose doubled base is negative; validation has no bound.     *)
NeverPanics == phase # "panic"
===============================================================================
