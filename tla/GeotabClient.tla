---------------------------- MODULE GeotabClient ----------------------------
(***************************************************************************)
(* internal/adapter/geotab/client.go: a call takes the session of the      *)
(* client, or authenticates for it, and re-authenticates once when the     *)
(* server refuses the session.  The mutex mu is held for the whole         *)
(* Authenticate call, so that callers who need a session at the same time  *)
(* share one authentication.                                               *)
(*                                                                         *)
(* A database lives on some server, which may change: Authenticate, always *)
(* asked of the configured server, answers with a session and the server   *)
(* it is good for.  Servers revoke sessions when they like.                *)
(***************************************************************************)
EXTENDS Naturals, Sequences, FiniteSets

CONSTANTS
    Callers,      \* goroutines that share the client
    Servers,
    Configured,   \* the server of the configuration
    Free,         \* mu is not held
    MaxSessions   \* bound: sessions the servers issue

ASSUME ClientAssumption ==
    /\ Configured \in Servers
    /\ Free \notin Callers
    /\ MaxSessions \in Nat

VARIABLES
    mu,        \* who holds client.mu across a step, or Free
    sess,      \* client.sess
    home,      \* home[n]: the server that session n is good for
    revoked,   \* the sessions expired or revoked
    pc,        \* where a caller is
    mine,      \* the session it uses
    stale,     \* the session it wants replaced
    reauthed,  \* it has used its one re-authentication
    sent,      \* sends of the post under way
    logins,    \* Authenticate calls of the call under way
    outcome    \* how its last call ended

serverVars == <<home, revoked>>
vars == <<mu, sess, serverVars, pc, mine, stale, reauthed, sent, logins, outcome>>

-----------------------------------------------------------------------------
(* session: a sessionId never goes without its server.  0 is nil. *)
Session == [id : Nat, url : Servers]
NoSession == [id |-> 0, url |-> Configured]

Good(s) == s.id \notin revoked /\ home[s.id] = s.url

Goto(c, l) == pc' = [pc EXCEPT ![c] = l]

(* do and post begin. *)
Use(c, s) ==
    /\ mine' = [mine EXCEPT ![c] = s]
    /\ sent' = [sent EXCEPT ![c] = 1]
    /\ Goto(c, "send")

End(c, how) ==
    /\ outcome' = [outcome EXCEPT ![c] = how]
    /\ Goto(c, "idle")

Init ==
    /\ mu = Free
    /\ sess = NoSession
    /\ home = <<>>
    /\ revoked = {}
    /\ pc = [c \in Callers |-> "idle"]
    /\ mine = [c \in Callers |-> NoSession]
    /\ stale = [c \in Callers |-> NoSession]
    /\ reauthed = [c \in Callers |-> FALSE]
    /\ sent = [c \in Callers |-> 0]
    /\ logins = [c \in Callers |-> 0]
    /\ outcome = [c \in Callers |-> "none"]

Call(c) ==
    /\ pc[c] = "idle"
    /\ Goto(c, "current")
    /\ mine' = [mine EXCEPT ![c] = NoSession]
    /\ stale' = [stale EXCEPT ![c] = NoSession]
    /\ reauthed' = [reauthed EXCEPT ![c] = FALSE]
    /\ sent' = [sent EXCEPT ![c] = 0]
    /\ logins' = [logins EXCEPT ![c] = 0]
    /\ UNCHANGED <<mu, sess, serverVars, outcome>>

(* current, under the lock. *)
Current(c) ==
    /\ pc[c] = "current"
    /\ mu = Free
    /\ \/ /\ sess # NoSession
          /\ Use(c, sess)
       \/ /\ sess = NoSession
          /\ Goto(c, "refresh")
          /\ UNCHANGED <<mine, sent>>
    /\ UNCHANGED <<mu, sess, serverVars, stale, reauthed, logins, outcome>>

ReplacedAny(c) == sess # NoSession              \* mutant: stale is not compared
ReplacedNever(c) == FALSE                       \* mutant: everyone logs in
(* Someone else has authenticated in the meantime. *)
Replaced(c) == sess # NoSession /\ sess # stale[c]

(* refresh: the lock is kept when an authentication is needed. *)
Refresh(c) ==
    /\ pc[c] = "refresh"
    /\ mu = Free
    /\ \/ /\ Replaced(c)
          /\ Use(c, sess)
          /\ UNCHANGED <<mu, logins>>
       \/ /\ ~Replaced(c)
          /\ mu' = c
          /\ logins' = [logins EXCEPT ![c] = @ + 1]
          /\ Goto(c, "auth")
          /\ UNCHANGED <<mine, sent>>
    /\ UNCHANGED <<sess, serverVars, stale, reauthed, outcome>>

(* authenticate: the path of the answer is where the session is good. *)
Endpoint(h) == h

Authenticated(c) ==
    /\ pc[c] = "auth"
    /\ Len(home) < MaxSessions
    /\ \E h \in Servers :
          /\ home' = Append(home, h)
          /\ sess' = [id |-> Len(home) + 1, url |-> Endpoint(h)]
    /\ mu' = Free
    /\ Use(c, sess')
    /\ UNCHANGED <<revoked, stale, reauthed, logins, outcome>>

(* mutant: a failed login is tried again at once, under the lock *)
AuthFailsAgain(c) ==
    /\ pc[c] = "auth"
    /\ \/ UNCHANGED home
       \/ /\ Len(home) < MaxSessions
          /\ \E h \in Servers : home' = Append(home, h)
    /\ UNCHANGED <<mu, sess, revoked, pc, mine, stale, reauthed, sent, logins, outcome>>

(* No session: refused, unreachable, cancelled, or an answer that was lost. *)
AuthFails(c) ==
    /\ pc[c] = "auth"
    /\ mu' = Free
    /\ \/ UNCHANGED home
       \/ /\ Len(home) < MaxSessions
          /\ \E h \in Servers : home' = Append(home, h)
    /\ End(c, "error")
    /\ UNCHANGED <<sess, revoked, mine, stale, reauthed, sent, logins>>

(* The server answers, with a result or with an error of another kind. *)
Answered(c) ==
    /\ pc[c] = "send"
    /\ Good(mine[c])
    /\ \E how \in {"ok", "error"} : End(c, how)
    /\ UNCHANGED <<mu, sess, serverVars, mine, stale, reauthed, sent, logins>>

MayReauthAgain(c) == TRUE                       \* mutant: not once but always
MayReauth(c) == ~reauthed[c]

(* InvalidUserException: one re-authentication, then it is given up. *)
Rejected(c) ==
    /\ pc[c] = "send"
    /\ ~Good(mine[c])
    /\ \/ /\ MayReauth(c)
          /\ stale' = [stale EXCEPT ![c] = mine[c]]
          /\ reauthed' = [reauthed EXCEPT ![c] = TRUE]
          /\ Goto(c, "refresh")
          /\ UNCHANGED outcome
       \/ /\ ~MayReauth(c)
          /\ End(c, "rejected")
          /\ UNCHANGED <<stale, reauthed>>
    /\ UNCHANGED <<mu, sess, serverVars, mine, sent, logins>>

ResendsAlways(c) == TRUE                        \* mutant: sent until it works
Resends(c) == sent[c] = 1

(* The round trip fails: a read is sent once more, unless it timed out or   *)
(* the context is cancelled.                                                *)
TransportFails(c) ==
    /\ pc[c] = "send"
    /\ \/ /\ Resends(c)
          /\ sent' = [sent EXCEPT ![c] = @ + 1]
          /\ UNCHANGED <<pc, outcome>>
       \/ /\ End(c, "error")
          /\ UNCHANGED sent
    /\ UNCHANGED <<mu, sess, serverVars, mine, stale, reauthed, logins>>

(* A session expires or is revoked. *)
Revoke ==
    /\ \E n \in DOMAIN home \ revoked : revoked' = revoked \cup {n}
    /\ UNCHANGED <<mu, sess, home, pc, mine, stale, reauthed, sent, logins, outcome>>

Authenticate(c) == Authenticated(c) \/ AuthFails(c)
Send(c) == Answered(c) \/ Rejected(c) \/ TransportFails(c)

Next ==
    \/ \E c \in Callers :
          \/ Call(c) \/ Current(c) \/ Refresh(c) \/ Authenticate(c) \/ Send(c)
    \/ Revoke

Spec == Init /\ [][Next]_vars

(* A round trip ends, by the timeout of the http client at the latest, and  *)
(* a sync.Mutex does not starve a goroutine that waits for it.              *)
Fairness ==
    \A c \in Callers :
        /\ WF_vars(Authenticate(c)) /\ WF_vars(Send(c))
        /\ SF_vars(Current(c)) /\ SF_vars(Refresh(c))

LiveSpec == Spec /\ Fairness

-----------------------------------------------------------------------------
(* Properties. *)

TypeOK ==
    /\ mu \in Callers \cup {Free}
    /\ sess \in Session
    /\ home \in Seq(Servers)
    /\ revoked \subseteq DOMAIN home
    /\ pc \in [Callers -> {"idle", "current", "refresh", "auth", "send"}]
    /\ mine \in [Callers -> Session]
    /\ stale \in [Callers -> Session]
    /\ reauthed \in [Callers -> BOOLEAN]
    /\ sent \in [Callers -> 0..2]
    /\ logins \in [Callers -> Nat]
    /\ outcome \in [Callers -> {"none", "ok", "error", "rejected"}]

(* A session is only offered to the server it is good for, so that a       *)
(* caller asks for another one only when its own was really revoked.        *)
StaleIsRevoked ==
    \A c \in Callers : stale[c].id # 0 => stale[c].id \in revoked

(* docs/adapters.md: concurrent calls that all hit the same expired session *)
(* produce one re-authentication between them: the session of the client is *)
(* never replaced while it is good.                                         *)
GoodSessionKept == [][sess.id # 0 /\ sess' # sess => sess.id \in revoked]_sess

(* The retry never goes out with the session that was refused. *)
RetryIsFresh ==
    \A c \in Callers :
        pc[c] = "send" /\ reauthed[c] => mine[c].id # stale[c].id

(* A call logs in at most twice: for the first session of the client and    *)
(* once for one that was refused.                                           *)
LoginsBounded == \A c \in Callers : logins[c] <= 2

(* One login at a time, and the mutex is kept across steps for nothing      *)
(* else: who waits for it waits for one round trip, however that ends.      *)
OneLoginAtATime == \A c \in Callers : pc[c] = "auth" <=> mu = c

(* Steps that a call takes at most from where it is: nine from the first.   *)
CallLeft(c) ==
    IF pc[c] = "idle" THEN 0
    ELSE (IF reauthed[c] THEN 0 ELSE 4)
         + CASE pc[c] = "current" -> 5
             [] pc[c] = "refresh" -> 4
             [] pc[c] = "auth"    -> 3
             [] OTHER             -> 3 - sent[c]

(* A call cannot go round: refused sessions, failed logins and lost         *)
(* requests, in any order and with any number of others at the same client, *)
(* bring it closer to its end with each step.                               *)
CallsRunOut ==
    [][\A c \in Callers :
          \/ pc[c] = "idle"
          \/ UNCHANGED <<pc[c], sent[c]>>
          \/ CallLeft(c)' < CallLeft(c)]_vars

(* Every call returns, however many wait for one authentication and however *)
(* it ends.                                                                 *)
CallReturns == \A c \in Callers : pc[c] # "idle" ~> pc[c] = "idle"

=============================================================================
