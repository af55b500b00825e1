----------------------------- MODULE GeotabPacing -----------------------------
(***************************************************************************)
(* internal/adapter/geotab/client.go: limiter.wait before a call of        *)
(* GeotabClient.  feed_ and get_ are two limiters of their own, and a call *)
(* waits for one of them; this is one of the two, with the calls that wait *)
(* for it.  Only the call waits: what it sends after that, a resend, a     *)
(* login or a retry, goes out at once.                                     *)
(***************************************************************************)
EXTENDS GeotabClient

CONSTANTS
    Every,       \* limiter.every
    MaxTime      \* bound on the clock, and on the slots given away

ASSUME PacingAssumption == Every \in Nat \ {0} /\ MaxTime \in Nat

VARIABLES
    now,         \* the clock
    slot,        \* limiter.next
    turn,        \* turn[c]: "out", "wait" for its slot, or in a "call"
    wake,        \* wake[c]: the time of its slot
    cancelled,   \* the context of the pollers
    grants,      \* calls begun, on this limiter
    requests     \* requests[c]: what its call has sent, logins aside

waitVars == <<slot, turn, wake>>
countVars == <<grants, requests>>
pacedVars == <<vars, now, waitVars, cancelled, countVars>>

-----------------------------------------------------------------------------
PacedInit ==
    /\ Init
    /\ now = 0
    /\ slot = 0
    /\ turn = [c \in Callers |-> "out"]
    /\ wake = [c \in Callers |-> 0]
    /\ cancelled = FALSE
    /\ grants = 0
    /\ requests = [c \in Callers |-> 0]

Turn(c, t) == turn' = [turn EXCEPT ![c] = t]

Later(a, b) == IF a > b THEN a ELSE b

NextSlotFromNow(at) == now + Every      \* mutant: those who wait are forgotten
NextSlot(at) == at + Every

(* wait, under its mutex: a slot is taken, *)
Reserve(c) ==
    /\ turn[c] = "out"
    /\ ~cancelled
    /\ slot <= MaxTime
    /\ LET at == Later(slot, now)
       IN /\ wake' = [wake EXCEPT ![c] = at]
          /\ slot' = NextSlot(at)
    /\ Turn(c, "wait")
    /\ UNCHANGED <<vars, now, cancelled, countVars>>

(* and waited for, however late the timer is seen to fire. *)
Granted(c) ==
    /\ turn[c] = "wait"
    /\ wake[c] <= now
    /\ Call(c)
    /\ Turn(c, "call")
    /\ grants' = grants + 1
    /\ requests' = [requests EXCEPT ![c] = 0]
    /\ UNCHANGED <<now, slot, wake, cancelled>>

(* A waiter that is cancelled leaves its slot unused. *)
GivesUp(c) ==
    /\ turn[c] = "wait"
    /\ cancelled
    /\ Turn(c, "out")
    /\ UNCHANGED <<vars, now, slot, wake, cancelled, countVars>>

(* A step of the call.  One that leads to "send" sends a request, which a   *)
(* cancelled context no longer does a second time.                          *)
Proceed(c) ==
    /\ turn[c] = "call"
    /\ Current(c) \/ Refresh(c) \/ Authenticate(c) \/ Send(c)
    /\ cancelled => ~(pc[c] = "send" /\ pc'[c] = "send")
    /\ Turn(c, IF pc'[c] = "idle" THEN "out" ELSE "call")
    /\ requests' = [requests EXCEPT ![c] = IF pc'[c] = "send" THEN @ + 1 ELSE @]
    /\ UNCHANGED <<now, slot, wake, cancelled, grants>>

Expire == Revoke /\ UNCHANGED <<now, waitVars, cancelled, countVars>>

Tick ==
    /\ now < MaxTime
    /\ now' = now + 1
    /\ UNCHANGED <<vars, waitVars, cancelled, countVars>>

Cancel ==
    /\ ~cancelled
    /\ cancelled' = TRUE
    /\ UNCHANGED <<vars, now, waitVars, countVars>>

(* Nobody calls any more. *)
Ended ==
    /\ cancelled
    /\ \A c \in Callers : turn[c] = "out"
    /\ UNCHANGED pacedVars

PacedNext ==
    \/ \E c \in Callers : Reserve(c) \/ Granted(c) \/ GivesUp(c) \/ Proceed(c)
    \/ Expire \/ Tick \/ Cancel \/ Ended

PacedSpec == PacedInit /\ [][PacedNext]_pacedVars /\ Fairness

-----------------------------------------------------------------------------
(* Properties. *)

(* The budget of MyGeotab: the calls begun by any time are no more than one *)
(* every Every since the start, however many wait at once, give up waiting  *)
(* or are late to go.                                                       *)
GrantsPaced == grants <= now \div Every + 1

(* client.go paces calls and not requests; but what a call sends without    *)
(* waiting is bounded, whichever of its requests are lost and whichever     *)
(* sessions are refused: the request and the retry, each of them twice, and *)
(* the logins before them.                                                  *)
RequestsBounded == \A c \in Callers : requests[c] <= 4 /\ logins[c] <= 2

===============================================================================
