------------------------- MODULE GeotabClientProofs -------------------------
(***************************************************************************)
(* The sessions of GeotabClient, for any number of callers, servers and    *)
(* sessions.  The invariant ties every session the client knows to the     *)
(* server it is good for, and says of the caller that holds the mutex for  *)
(* an authentication that nobody has replaced its session meanwhile.       *)
(*                                                                         *)
(* Then the calls that wait for a limiter of GeotabPacing: how many of     *)
(* them begin, and how much each of them sends.                            *)
(***************************************************************************)
EXTENDS GeotabPacing, FiniteSetTheorems, TLAPS

(* nil, or a session that is with the server it is good for. *)
Known(s) == s = NoSession \/ (s.id \in DOMAIN home /\ s.url = home[s.id])

AllKnown ==
    /\ Known(sess)
    /\ \A c \in Callers : Known(mine[c]) /\ Known(stale[c])

LockHeld ==
    \A c \in Callers : pc[c] = "auth" => mu = c /\ ~Replaced(c)

InUse == \A c \in Callers : pc[c] = "send" => mine[c] # NoSession

Once(c) == IF reauthed[c] THEN 1 ELSE 0

LoginCount ==
    \A c \in Callers :
        /\ logins[c] <= 2
        /\ pc[c] = "current" => logins[c] = 0 /\ ~reauthed[c]
        /\ pc[c] = "refresh" => logins[c] <= Once(c)
        /\ pc[c] \in {"auth", "send"} => logins[c] <= Once(c) + 1

CInv ==
    /\ TypeOK /\ AllKnown /\ LockHeld /\ InUse
    /\ StaleIsRevoked /\ RetryIsFresh /\ LoginCount

(* Servers only issue more sessions: the ones they have issued stay where    *)
(* they are.                                                                *)
LEMMA HomeGrows ==
    ASSUME TypeOK, NEW h \in Servers, home' = Append(home, h)
    PROVE  /\ home' \in Seq(Servers)
           /\ DOMAIN home \subseteq DOMAIN home'
           /\ \A n \in DOMAIN home : home'[n] = home[n]
<1>1. home \in Seq(Servers) /\ Len(home) \in Nat /\ DOMAIN home = 1..Len(home)
  BY DEF TypeOK
<1>2. home' \in Seq(Servers) /\ Len(home') = Len(home) + 1
  BY <1>1
<1>3. DOMAIN home' = 1..(Len(home) + 1)
  BY <1>2
<1>4. \A n \in 1..Len(home) : home'[n] = home[n]
  BY <1>1
<1> QED
  BY <1>1, <1>2, <1>3, <1>4

(* Two known sessions with one id are the same session. *)
LEMMA KnownById ==
    ASSUME TypeOK, NEW s \in Session, NEW t \in Session,
           Known(s), Known(t), s.id = t.id
    PROVE  s = t
<1>1. 0 \notin DOMAIN home
  BY DEF TypeOK
<1>2. NoSession.id = 0
  BY DEF NoSession
<1>3. s.url = t.url
  <2>1. CASE s.id \in DOMAIN home
    BY <1>1, <1>2, <2>1 DEF Known
  <2>2. CASE s.id \notin DOMAIN home
    BY <2>2 DEF Known
  <2> QED
    BY <2>1, <2>2
<1>4. s = [id |-> s.id, url |-> s.url] /\ t = [id |-> t.id, url |-> t.url]
  BY DEF Session
<1> QED
  BY <1>3, <1>4

LEMMA NoSessionType == NoSession \in Session
  BY ClientAssumption DEF NoSession, Session

LEMMA CInit == Init => CInv
<1> SUFFICES ASSUME Init PROVE CInv
  OBVIOUS
<1> USE NoSessionType
<1>1. TypeOK
  BY DEF Init, TypeOK
<1>2. AllKnown
  BY DEF Init, AllKnown, Known
<1>3. LockHeld /\ InUse /\ RetryIsFresh
  BY DEF Init, LockHeld, InUse, RetryIsFresh
<1>4. StaleIsRevoked
  BY DEF Init, StaleIsRevoked, NoSession
<1>5. LoginCount
  BY DEF Init, LoginCount
<1> QED
  BY <1>1, <1>2, <1>3, <1>4, <1>5 DEF CInv

(* One action of a caller, or a revocation, keeps the invariant. *)
LEMMA CStep == CInv /\ [Next]_vars => CInv'
<1> SUFFICES ASSUME CInv, [Next]_vars PROVE CInv'
  OBVIOUS
<1> USE NoSessionType
<1>t. TypeOK
  BY DEF CInv
<1>1. ASSUME NEW c \in Callers, Call(c) PROVE CInv'
  <2>1. TypeOK'
    BY <1>t, <1>1 DEF Call, Goto, TypeOK, serverVars
  <2>2. AllKnown' /\ LockHeld' /\ InUse' /\ RetryIsFresh'
    BY <1>t, <1>1 DEF Call, Goto, CInv, TypeOK, AllKnown, Known, LockHeld, InUse,
                      RetryIsFresh, Replaced, serverVars
  <2>3. StaleIsRevoked'
    BY <1>t, <1>1 DEF Call, CInv, TypeOK, StaleIsRevoked, NoSession, serverVars
  <2>4. LoginCount'
    BY <1>t, <1>1 DEF Call, Goto, CInv, TypeOK, LoginCount, Once
  <2> QED
    BY <2>1, <2>2, <2>3, <2>4 DEF CInv
<1>2. ASSUME NEW c \in Callers, Current(c) PROVE CInv'
  <2>1. TypeOK'
    <3>1. /\ UNCHANGED <<sess, home, revoked, stale, reauthed, outcome>>
          /\ mu' \in Callers \cup {Free}
      BY <1>t, <1>2 DEF Current, TypeOK, serverVars
    <3>2. pc' \in [Callers -> {"idle", "current", "refresh", "auth", "send"}]
      BY <1>t, <1>2 DEF Current, Use, Goto, TypeOK
    <3>3. mine' \in [Callers -> Session] /\ sent' \in [Callers -> 0..2]
      <4>1. mine \in [Callers -> Session] /\ sent \in [Callers -> 0..2] /\ sess \in Session
        BY <1>t DEF TypeOK
      <4>2. \/ mine' = mine /\ sent' = sent
            \/ mine' = [mine EXCEPT ![c] = sess] /\ sent' = [sent EXCEPT ![c] = 1]
        BY <1>2 DEF Current, Use
      <4> QED
        BY <4>1, <4>2
    <3>4. logins' \in [Callers -> Nat]
      BY <1>t, <1>2 DEF Current, TypeOK
    <3> QED
      BY <1>t, <3>1, <3>2, <3>3, <3>4 DEF TypeOK
  <2>2. AllKnown' /\ LockHeld' /\ InUse' /\ StaleIsRevoked'
    <3>1. AllKnown' /\ StaleIsRevoked'
      BY <1>t, <1>2 DEF Current, Use, CInv, TypeOK, AllKnown, Known,
                        StaleIsRevoked, serverVars
    <3>2. LockHeld'
      BY <1>t, <1>2 DEF Current, Use, Goto, CInv, TypeOK, LockHeld, Replaced
    <3>3. InUse'
      BY <1>t, <1>2 DEF Current, Use, Goto, CInv, TypeOK, InUse
    <3> QED
      BY <3>1, <3>2, <3>3
  <2>3. RetryIsFresh'
    BY <1>t, <1>2 DEF Current, Use, Goto, CInv, TypeOK, RetryIsFresh, LoginCount
  <2>4. LoginCount'
    BY <1>t, <1>2 DEF Current, Use, Goto, CInv, TypeOK, LoginCount, Once
  <2> QED
    BY <2>1, <2>2, <2>3, <2>4 DEF CInv
<1>3. ASSUME NEW c \in Callers, Refresh(c) PROVE CInv'
  <2>1. TypeOK'
    <3>1. /\ UNCHANGED <<sess, home, revoked, stale, reauthed, outcome>>
          /\ mu' \in Callers \cup {Free}
      BY <1>t, <1>3 DEF Refresh, TypeOK, serverVars
    <3>2. pc' \in [Callers -> {"idle", "current", "refresh", "auth", "send"}]
      BY <1>t, <1>3 DEF Refresh, Use, Goto, TypeOK
    <3>3. mine' \in [Callers -> Session] /\ sent' \in [Callers -> 0..2]
      <4>1. mine \in [Callers -> Session] /\ sent \in [Callers -> 0..2] /\ sess \in Session
        BY <1>t DEF TypeOK
      <4>2. \/ mine' = mine /\ sent' = sent
            \/ mine' = [mine EXCEPT ![c] = sess] /\ sent' = [sent EXCEPT ![c] = 1]
        BY <1>3 DEF Refresh, Use
      <4> QED
        BY <4>1, <4>2
    <3>4. logins' \in [Callers -> Nat]
      <4>1. logins \in [Callers -> Nat] /\ logins[c] + 1 \in Nat
        BY <1>t DEF TypeOK
      <4>2. logins' = logins \/ logins' = [logins EXCEPT ![c] = logins[c] + 1]
        BY <1>3 DEF Refresh
      <4> QED
        BY <4>1, <4>2
    <3> QED
      BY <1>t, <3>1, <3>2, <3>3, <3>4 DEF TypeOK
  <2>2. AllKnown' /\ InUse' /\ StaleIsRevoked'
    <3>1. AllKnown' /\ StaleIsRevoked'
      BY <1>t, <1>3 DEF Refresh, Use, CInv, TypeOK, AllKnown, Known,
                        StaleIsRevoked, serverVars
    <3>2. InUse'
      BY <1>t, <1>3 DEF Refresh, Use, Goto, CInv, TypeOK, InUse, Replaced
    <3> QED
      BY <3>1, <3>2
  <2>3. LockHeld'
    BY <1>t, <1>3, ClientAssumption DEF Refresh, Use, Goto, CInv, TypeOK, LockHeld, Replaced
  <2>4. RetryIsFresh'
    <3>1. Replaced(c) => sess.id # stale[c].id
      BY <1>t, KnownById DEF CInv, AllKnown, TypeOK, Replaced
    <3> QED
      BY <1>t, <1>3, <3>1 DEF Refresh, Use, Goto, CInv, TypeOK, RetryIsFresh
  <2>5. LoginCount'
    BY <1>t, <1>3 DEF Refresh, Use, Goto, CInv, TypeOK, LoginCount, Once
  <2> QED
    BY <2>1, <2>2, <2>3, <2>4, <2>5 DEF CInv
<1>4. ASSUME NEW c \in Callers, Authenticated(c) PROVE CInv'
  <2>1. PICK h \in Servers : /\ home' = Append(home, h)
                             /\ sess' = [id |-> Len(home) + 1, url |-> h]
    BY <1>4 DEF Authenticated, Endpoint
  <2>2. /\ Len(home) \in Nat
        /\ DOMAIN home = 1..Len(home)
        /\ DOMAIN home' = 1..(Len(home) + 1)
        /\ home'[Len(home) + 1] = h
        /\ sess' \in Session
    BY <1>t, <2>1 DEF TypeOK, Session
  <2>3. mine' = [mine EXCEPT ![c] = sess']
    BY <1>4 DEF Authenticated, Use
  <2>4. TypeOK'
    BY <1>t, <1>4, <2>1, <2>2, <2>3 DEF Authenticated, Use, Goto, TypeOK
  <2>5. Known(sess)'
    BY <2>1, <2>2 DEF Known
  <2>6. AllKnown'
    <3>1. \A d \in Callers : Known(mine[d])' /\ Known(stale[d])'
      <4> SUFFICES ASSUME NEW d \in Callers PROVE Known(mine[d])' /\ Known(stale[d])'
        OBVIOUS
      <4>1. mine'[d] = (IF d = c THEN sess' ELSE mine[d]) /\ stale'[d] = stale[d]
        BY <1>t, <1>4, <2>3 DEF TypeOK, Authenticated
      <4>2. /\ mine[d] \in Session /\ Known(mine[d])
            /\ stale[d] \in Session /\ Known(stale[d])
        BY DEF CInv, TypeOK, AllKnown
      <4>3. \A s \in Session : Known(s) => (s.id \in DOMAIN home' /\ s.url = home'[s.id])
                                           \/ s = NoSession
        BY <1>t, <2>1, HomeGrows DEF Known
      <4> QED
        BY <2>5, <4>1, <4>2, <4>3 DEF Known
    <3> QED
      BY <2>5, <3>1 DEF AllKnown
  <2>7. LockHeld'
    BY <1>t, <1>4, ClientAssumption DEF Authenticated, Use, Goto, CInv, TypeOK, LockHeld
  <2>8. InUse'
    BY <1>t, <1>4, <2>1, <2>2, <2>3 DEF Authenticated, Use, Goto, CInv, TypeOK, InUse, NoSession
  <2>9. StaleIsRevoked'
    BY <1>t, <1>4 DEF Authenticated, CInv, TypeOK, StaleIsRevoked
  <2>10. RetryIsFresh'
    <3>1. stale[c].id # Len(home) + 1
      BY <1>t, <2>2 DEF CInv, AllKnown, Known, NoSession
    <3>2. sess'.id = Len(home) + 1
      BY <2>1
    <3> QED
      BY <1>t, <1>4, <2>3, <3>1, <3>2
         DEF Authenticated, Use, Goto, CInv, TypeOK, RetryIsFresh
  <2>11. LoginCount'
    BY <1>t, <1>4 DEF Authenticated, Use, Goto, CInv, TypeOK, LoginCount, Once
  <2> QED
    BY <2>4, <2>6, <2>7, <2>8, <2>9, <2>10, <2>11 DEF CInv
<1>5. ASSUME NEW c \in Callers, AuthFails(c) PROVE CInv'
  <2>1. home' = home \/ \E h \in Servers : home' = Append(home, h)
    BY <1>5 DEF AuthFails
  <2>2. home' \in Seq(Servers) /\ DOMAIN home \subseteq DOMAIN home'
    BY <1>t, <2>1, HomeGrows DEF TypeOK
  <2>3. TypeOK'
    <3>1. revoked' \subseteq DOMAIN home'
      BY <1>t, <1>5, <2>2 DEF AuthFails, TypeOK
    <3>2. /\ mu' \in Callers \cup {Free} /\ sess' \in Session
          /\ mine' \in [Callers -> Session] /\ stale' \in [Callers -> Session]
          /\ reauthed' \in [Callers -> BOOLEAN] /\ sent' \in [Callers -> 0..2]
          /\ logins' \in [Callers -> Nat]
      BY <1>t, <1>5 DEF AuthFails, TypeOK
    <3>3. /\ pc' \in [Callers -> {"idle", "current", "refresh", "auth", "send"}]
          /\ outcome' \in [Callers -> {"none", "ok", "error", "rejected"}]
      BY <1>t, <1>5 DEF AuthFails, End, Goto, TypeOK
    <3> QED
      BY <2>2, <3>1, <3>2, <3>3 DEF TypeOK
  <2>4. AllKnown'
    <3>1. \A s \in Session : Known(s) => (s.id \in DOMAIN home' /\ s.url = home'[s.id])
                                         \/ s = NoSession
      <4> SUFFICES ASSUME NEW s \in Session, Known(s), s.id \in DOMAIN home,
                          s.url = home[s.id]
                   PROVE  s.id \in DOMAIN home' /\ s.url = home'[s.id]
        BY DEF Known
      <4> QED
        BY <1>t, <2>1, HomeGrows
    <3>2. sess' = sess /\ mine' = mine /\ stale' = stale
      BY <1>5 DEF AuthFails
    <3>3. /\ sess \in Session /\ Known(sess)
          /\ \A d \in Callers : /\ mine[d] \in Session /\ Known(mine[d])
                                /\ stale[d] \in Session /\ Known(stale[d])
      BY DEF CInv, TypeOK, AllKnown
    <3> QED
      BY <3>1, <3>2, <3>3 DEF AllKnown, Known
  <2>5. LockHeld'
    BY <1>t, <1>5, ClientAssumption DEF AuthFails, End, Goto, CInv, TypeOK, LockHeld
  <2>7. InUse' /\ StaleIsRevoked' /\ RetryIsFresh'
    <3>1. pc' = [pc EXCEPT ![c] = "idle"]
      BY <1>5 DEF AuthFails, End, Goto
    <3>2. UNCHANGED <<sess, revoked, mine, stale, reauthed>>
      BY <1>5 DEF AuthFails
    <3>3. \A d \in Callers : pc'[d] = "send" => pc[d] = "send"
      BY <1>t, <3>1 DEF TypeOK
    <3> QED
      BY <3>2, <3>3 DEF CInv, InUse, StaleIsRevoked, RetryIsFresh
  <2>6. LoginCount'
    BY <1>t, <1>5 DEF AuthFails, End, Goto, CInv, TypeOK, LoginCount, Once
  <2> QED
    BY <2>3, <2>4, <2>5, <2>6, <2>7 DEF CInv
<1>6. ASSUME NEW c \in Callers, Answered(c) \/ TransportFails(c) PROVE CInv'
  <2>1. TypeOK'
    <3>1. sent' \in [Callers -> 0..2]
      <4>1. sent \in [Callers -> 0..2]
        BY <1>t DEF TypeOK
      <4>2. sent' = sent \/ (sent[c] = 1 /\ sent' = [sent EXCEPT ![c] = sent[c] + 1])
        BY <1>6 DEF Answered, TransportFails, Resends
      <4> QED
        BY <4>1, <4>2
    <3> QED
      BY <1>t, <1>6, <3>1 DEF Answered, TransportFails, End, Goto, TypeOK, serverVars
  <2>2. AllKnown' /\ LockHeld' /\ InUse' /\ StaleIsRevoked' /\ RetryIsFresh'
    <3>1. pc' = pc \/ pc' = [pc EXCEPT ![c] = "idle"]
      BY <1>6 DEF Answered, TransportFails, End, Goto
    <3>2. UNCHANGED <<mu, sess, home, revoked, mine, stale, reauthed>>
      BY <1>6 DEF Answered, TransportFails, serverVars
    <3>3. \A d \in Callers : pc'[d] \in {"auth", "send"} => pc[d] = pc'[d]
      BY <1>t, <3>1 DEF TypeOK
    <3> QED
      BY <3>2, <3>3 DEF CInv, AllKnown, Known, LockHeld, InUse, StaleIsRevoked, RetryIsFresh,
                        Replaced
  <2>3. LoginCount'
    BY <1>t, <1>6 DEF Answered, TransportFails, End, Goto, CInv, TypeOK, LoginCount, Once
  <2> QED
    BY <2>1, <2>2, <2>3 DEF CInv
<1>7. ASSUME NEW c \in Callers, Rejected(c) PROVE CInv'
  <2>1. TypeOK'
    BY <1>t, <1>7 DEF Rejected, End, Goto, TypeOK, serverVars
  <2>2. mine[c].id \in revoked
    <3>1. ~Good(mine[c]) /\ mine[c] # NoSession /\ Known(mine[c])
      BY <1>7 DEF Rejected, CInv, AllKnown, InUse
    <3> QED
      BY <3>1 DEF Good, Known
  <2>3. AllKnown' /\ LockHeld' /\ InUse' /\ RetryIsFresh'
    <3>1. AllKnown'
      BY <1>t, <1>7 DEF Rejected, CInv, TypeOK, AllKnown, Known, serverVars
    <3>2. LockHeld'
      <4>1. \A d \in Callers : pc'[d] = "auth" => d # c /\ pc[d] = "auth"
        BY <1>t, <1>7 DEF Rejected, End, Goto, TypeOK
      <4>2. mu' = mu /\ sess' = sess /\ \A d \in Callers : d # c => stale'[d] = stale[d]
        BY <1>t, <1>7 DEF Rejected, TypeOK
      <4> QED
        BY <4>1, <4>2 DEF CInv, LockHeld, Replaced
    <3>3. InUse' /\ RetryIsFresh'
      <4>1. \A d \in Callers : pc'[d] = "send" => d # c /\ pc[d] = "send"
        BY <1>t, <1>7 DEF Rejected, End, Goto, TypeOK
      <4>2. mine' = mine /\ \A d \in Callers :
                d # c => stale'[d] = stale[d] /\ reauthed'[d] = reauthed[d]
        BY <1>t, <1>7 DEF Rejected, TypeOK
      <4> QED
        BY <4>1, <4>2 DEF CInv, InUse, RetryIsFresh
    <3> QED
      BY <3>1, <3>2, <3>3
  <2>4. StaleIsRevoked'
    BY <1>t, <1>7, <2>2 DEF Rejected, CInv, TypeOK, StaleIsRevoked, serverVars
  <2>5. LoginCount'
    BY <1>t, <1>7 DEF Rejected, MayReauth, End, Goto, CInv, TypeOK, LoginCount, Once
  <2> QED
    BY <2>1, <2>3, <2>4, <2>5 DEF CInv
<1>8. CASE Revoke
  BY <1>t, <1>8 DEF Revoke, CInv, TypeOK, AllKnown, Known, LockHeld, InUse,
                    StaleIsRevoked, RetryIsFresh, LoginCount, Once, Replaced
<1>9. CASE UNCHANGED vars
  BY <1>t, <1>9 DEF vars, serverVars, CInv, TypeOK, AllKnown, Known, LockHeld, InUse,
                    StaleIsRevoked, RetryIsFresh, LoginCount, Once, Replaced
<1> QED
  BY <1>1, <1>2, <1>3, <1>4, <1>5, <1>6, <1>7, <1>8, <1>9
     DEF Next, Authenticate, Send

LEMMA CAlways == Spec => []CInv
<1>1. CInv /\ [Next]_vars => CInv'
  BY CStep
<1> QED
  BY CInit, <1>1, PTL DEF Spec

(* A caller asks for another session only when its own was revoked: a      *)
(* session never goes to a server it is not good for.                       *)
THEOREM OnlyRevokedIsStale == Spec => []StaleIsRevoked
<1>1. CInv => StaleIsRevoked
  BY DEF CInv
<1> QED
  BY CAlways, <1>1, PTL

(* After a re-authentication a call never sends the session again that was  *)
(* refused.                                                                 *)
THEOREM RetriesAreFresh == Spec => []RetryIsFresh
<1>1. CInv => RetryIsFresh
  BY DEF CInv
<1> QED
  BY CAlways, <1>1, PTL

(* A call logs in at most twice. *)
THEOREM LoginsAreBounded == Spec => []LoginsBounded
<1>1. CInv => LoginsBounded
  BY DEF CInv, LoginCount, LoginsBounded
<1> QED
  BY CAlways, <1>1, PTL

(* Callers share one re-authentication: the session of the client is only   *)
(* replaced once it has been revoked.                                       *)
THEOREM GoodSessionsAreKept == Spec => GoodSessionKept
<1>1. CInv /\ [Next]_vars => [sess.id # 0 /\ sess' # sess => sess.id \in revoked]_sess
  <2> SUFFICES ASSUME CInv, [Next]_vars, sess' # sess, sess.id # 0
               PROVE  sess.id \in revoked
    OBVIOUS
  <2>1. PICK c \in Callers : Authenticated(c)
    BY DEF Next, vars, Call, Current, Refresh, Authenticate, AuthFails, Send,
           Answered, Rejected, TransportFails, Revoke
  <2>2. ~Replaced(c)
    BY <2>1 DEF CInv, LockHeld, Authenticated
  <2>3. sess = stale[c]
    BY <2>2 DEF Replaced, NoSession
  <2> QED
    BY <2>3 DEF CInv, StaleIsRevoked
<1> QED
  BY CAlways, <1>1, PTL DEF Spec, GoodSessionKept

(* The mutex is kept across steps by the caller that logs in and by no other, *)
(* and every way out of a login gives it back: the callers of one client log *)
(* in one after the other, and who waits for the lock waits for a round trip. *)
THEOREM LoginsTakeTurns == Spec => []OneLoginAtATime
<1>1. Init => OneLoginAtATime
  BY ClientAssumption DEF Init, OneLoginAtATime
<1>2. TypeOK /\ OneLoginAtATime /\ [Next]_vars => OneLoginAtATime'
  <2> SUFFICES ASSUME TypeOK, OneLoginAtATime, [Next]_vars PROVE OneLoginAtATime'
    OBVIOUS
  <2>1. DOMAIN pc = Callers
    BY DEF TypeOK
  <2>2. ASSUME NEW c \in Callers, Call(c) \/ Current(c) \/ Send(c) PROVE OneLoginAtATime'
    <3>1. /\ UNCHANGED mu /\ pc[c] # "auth" /\ pc'[c] # "auth"
          /\ \A d \in Callers \ {c} : pc'[d] = pc[d]
      BY <2>1, <2>2 DEF Call, Current, Send, Answered, Rejected, TransportFails, Use, End,
                        Goto
    <3> QED
      BY <3>1 DEF OneLoginAtATime
  <2>3. ASSUME NEW c \in Callers, Refresh(c) PROVE OneLoginAtATime'
    <3>1. /\ mu = Free /\ pc[c] # "auth"
          /\ \/ mu' = Free /\ pc'[c] # "auth"
             \/ mu' = c /\ pc'[c] = "auth"
          /\ \A d \in Callers \ {c} : pc'[d] = pc[d]
      BY <2>1, <2>3 DEF Refresh, Use, Goto
    <3> QED
      BY <3>1, ClientAssumption DEF OneLoginAtATime
  <2>4. ASSUME NEW c \in Callers, Authenticate(c) PROVE OneLoginAtATime'
    <3>1. /\ mu' = Free /\ pc[c] = "auth" /\ pc'[c] # "auth"
          /\ \A d \in Callers \ {c} : pc'[d] = pc[d]
      BY <2>1, <2>4 DEF Authenticate, Authenticated, AuthFails, Use, End, Goto
    <3> QED
      BY <3>1, ClientAssumption DEF OneLoginAtATime
  <2>5. CASE Revoke \/ UNCHANGED vars
    BY <2>5 DEF Revoke, vars, OneLoginAtATime
  <2> QED
    BY <2>2, <2>3, <2>4, <2>5 DEF Next
<1> QED
  BY CAlways, <1>1, <1>2, PTL DEF Spec, CInv

(* Where the steps of a caller take its call, and that no other caller moves *)
(* it.                                                                       *)
LEMMA StepsOfCall ==
    ASSUME TypeOK, NEW c \in Callers, pc[c] # "idle",
           Call(c) \/ Current(c) \/ Refresh(c) \/ Authenticate(c) \/ Send(c)
    PROVE  \/ pc'[c] = "idle"
           \/ reauthed'[c] = reauthed[c] /\ pc[c] = "current" /\ pc'[c] = "refresh"
           \/ reauthed'[c] = reauthed[c] /\ pc[c] = "refresh" /\ pc'[c] = "auth"
           \/ /\ reauthed'[c] = reauthed[c] /\ pc[c] \in {"current", "refresh", "auth"}
              /\ pc'[c] = "send" /\ sent'[c] = 1
           \/ /\ reauthed'[c] = reauthed[c] /\ pc[c] = "send" /\ pc'[c] = "send"
              /\ sent[c] = 1 /\ sent'[c] = 2
           \/ ~reauthed[c] /\ reauthed'[c] /\ pc[c] = "send" /\ pc'[c] = "refresh"
<1>1. DOMAIN pc = Callers /\ DOMAIN sent = Callers /\ DOMAIN reauthed = Callers
  BY DEF TypeOK
<1>2. CASE Call(c)
  BY <1>2 DEF Call
<1>3. CASE Current(c) \/ Refresh(c)
  BY <1>1, <1>3 DEF Current, Refresh, Use, Goto
<1>4. CASE Authenticate(c)
  BY <1>1, <1>4 DEF Authenticate, Authenticated, AuthFails, Use, End, Goto
<1>5. CASE Answered(c)
  BY <1>1, <1>5 DEF Answered, End, Goto
<1>6. CASE Rejected(c)
  BY <1>1, <1>6 DEF Rejected, MayReauth, End, Goto
<1>7. CASE TransportFails(c)
  BY <1>1, <1>7 DEF TransportFails, Resends, End, Goto
<1> QED
  BY <1>2, <1>3, <1>4, <1>5, <1>6, <1>7 DEF Send

LEMMA OthersCall ==
    ASSUME TypeOK, NEW c \in Callers, NEW d \in Callers \ {c},
           Call(c) \/ Current(c) \/ Refresh(c) \/ Authenticate(c) \/ Send(c)
    PROVE  UNCHANGED <<pc[d], sent[d]>>
<1>1. DOMAIN pc = Callers /\ DOMAIN sent = Callers
  BY DEF TypeOK
<1>2. CASE Call(c) \/ Current(c) \/ Refresh(c)
  BY <1>1, <1>2 DEF Call, Current, Refresh, Use, Goto
<1>3. CASE Authenticate(c)
  BY <1>1, <1>3 DEF Authenticate, Authenticated, AuthFails, Use, End, Goto
<1>4. CASE Send(c)
  BY <1>1, <1>4 DEF Send, Answered, Rejected, TransportFails, Use, End, Goto
<1> QED
  BY <1>2, <1>3, <1>4

(* A call cannot go round between its session, its login and its request:   *)
(* whatever the servers and the other callers do, each of its steps brings  *)
(* it nearer to its end, which is at most nine steps away.                  *)
THEOREM CallsDoRunOut == Spec => CallsRunOut
<1> DEFINE Nearer(c) ==
      \/ pc[c] = "idle"
      \/ UNCHANGED <<pc[c], sent[c]>>
      \/ CallLeft(c)' < CallLeft(c)
<1>1. TypeOK /\ [Next]_vars => [\A c \in Callers : Nearer(c)]_vars
  <2> SUFFICES ASSUME TypeOK, Next, NEW c \in Callers, pc[c] # "idle" PROVE Nearer(c)
    OBVIOUS
  <2>1. CASE Call(c) \/ Current(c) \/ Refresh(c) \/ Authenticate(c) \/ Send(c)
    <3>1. /\ sent[c] \in 0..2 /\ reauthed[c] \in BOOLEAN
          /\ pc[c] \in {"current", "refresh", "auth", "send"}
      BY DEF TypeOK
    <3>2. CASE pc'[c] = "idle"
      <4>1. CallLeft(c)' = 0
        BY <3>2 DEF CallLeft
      <4>2. CallLeft(c) > 0
        BY <3>1 DEF CallLeft
      <4> QED
        BY <4>1, <4>2
    <3>3. CASE pc'[c] # "idle"
      BY <2>1, <3>1, <3>3, StepsOfCall DEF CallLeft
    <3> QED
      BY <3>2, <3>3
  <2>2. CASE \E d \in Callers \ {c} :
                Call(d) \/ Current(d) \/ Refresh(d) \/ Authenticate(d) \/ Send(d)
    BY <2>2, OthersCall
  <2>3. CASE Revoke
    BY <2>3 DEF Revoke
  <2> QED
    BY <2>1, <2>2, <2>3 DEF Next
<1> QED
  BY CAlways, <1>1, PTL DEF Spec, CInv, CallsRunOut

-----------------------------------------------------------------------------
(***************************************************************************)
(* The limiter, GeotabPacing.  Every step of it is one of the client or    *)
(* none, so that what is proved above holds of the paced calls too.        *)
(***************************************************************************)
LEMMA PacedStepIsClient == [PacedNext]_pacedVars => [Next]_vars
<1> SUFFICES ASSUME [PacedNext]_pacedVars PROVE [Next]_vars
  OBVIOUS
<1>1. CASE \E c \in Callers : Granted(c)
  BY <1>1 DEF Granted, Next
<1>2. CASE \E c \in Callers : Proceed(c)
  BY <1>2 DEF Proceed, Next
<1>3. CASE Expire
  BY <1>3 DEF Expire, Next
<1>4. CASE \/ \E c \in Callers : Reserve(c) \/ GivesUp(c)
           \/ Tick \/ Cancel \/ Ended \/ UNCHANGED pacedVars
  BY <1>4 DEF Reserve, GivesUp, Tick, Cancel, Ended, pacedVars, vars
<1> QED
  BY <1>1, <1>2, <1>3, <1>4 DEF PacedNext

(* The calls of a limiter are calls of the client. *)
THEOREM PacedIsClient == PacedSpec => Spec
<1>1. PacedInit => Init
  BY DEF PacedInit
<1> QED
  BY <1>1, PacedStepIsClient, PTL DEF PacedSpec, Spec

(* A caller is in a call of the limiter exactly while it is in one of the   *)
(* client.                                                                  *)
InTurn ==
    /\ turn \in [Callers -> {"out", "wait", "call"}]
    /\ requests \in [Callers -> Nat]
    /\ \A c \in Callers : turn[c] = "call" <=> pc[c] # "idle"

(* What a call may have sent when it is at a place: two requests for each   *)
(* session that it is done with, and those of the post under way.           *)
RequestCount ==
    \A c \in Callers :
        /\ requests[c] <= 4
        /\ pc[c] = "current" => requests[c] = 0 /\ ~reauthed[c]
        /\ pc[c] \in {"refresh", "auth"} => requests[c] <= 2 * Once(c)
        /\ pc[c] = "send" => sent[c] \in 1..2 /\ requests[c] <= 2 * Once(c) + sent[c]

RInv == CInv /\ InTurn /\ RequestCount

(* The steps of a call, as the count of its requests sees them. *)
LEMMA CallSteps ==
    ASSUME TypeOK, NEW c \in Callers,
           Current(c) \/ Refresh(c) \/ Authenticate(c) \/ Send(c)
    PROVE  /\ \A d \in Callers \ {c} : /\ pc'[d] = pc[d] /\ sent'[d] = sent[d]
                                       /\ reauthed'[d] = reauthed[d]
           /\ pc[c] \in {"current", "refresh", "auth", "send"}
           /\ \/ pc[c] # "send" /\ pc'[c] = "send" /\ sent'[c] = 1 /\ reauthed'[c] = reauthed[c]
              \/ pc[c] = "send" /\ pc'[c] = "send" /\ sent[c] = 1 /\ sent'[c] = 2
                 /\ reauthed'[c] = reauthed[c]
              \/ pc[c] \in {"current", "refresh"} /\ pc'[c] \in {"refresh", "auth"}
                 /\ reauthed'[c] = reauthed[c]
              \/ pc[c] = "send" /\ pc'[c] = "refresh" /\ ~reauthed[c] /\ reauthed'[c]
              \/ pc'[c] = "idle"
<1> USE DEF Use, Goto, End, TypeOK
<1>1. CASE Current(c)
  BY <1>1 DEF Current
<1>2. CASE Refresh(c)
  BY <1>2 DEF Refresh
<1>3. CASE Authenticate(c)
  BY <1>3 DEF Authenticate, Authenticated, AuthFails
<1>4. CASE Answered(c)
  BY <1>4 DEF Answered
<1>5. CASE Rejected(c)
  BY <1>5 DEF Rejected, MayReauth
<1>6. CASE TransportFails(c)
  BY <1>6 DEF TransportFails, Resends
<1> QED
  BY <1>1, <1>2, <1>3, <1>4, <1>5, <1>6 DEF Send

LEMMA RStep == RInv /\ [PacedNext]_pacedVars => RInv'
<1> SUFFICES ASSUME RInv, [PacedNext]_pacedVars PROVE RInv'
  OBVIOUS
<1>c. CInv'
  BY CStep, PacedStepIsClient DEF RInv
<1>t. TypeOK
  BY DEF RInv, CInv
<1>1. ASSUME NEW c \in Callers, Reserve(c) \/ GivesUp(c) PROVE RInv'
  <2>1. /\ UNCHANGED <<pc, sent, reauthed, requests>>
        /\ turn[c] # "call"
        /\ turn' = [turn EXCEPT ![c] = "wait"] \/ turn' = [turn EXCEPT ![c] = "out"]
    BY <1>1 DEF Reserve, GivesUp, Turn, vars, countVars
  <2>2. InTurn'
    BY <2>1 DEF RInv, InTurn
  <2>3. RequestCount'
    BY <2>1 DEF RInv, RequestCount, Once
  <2> QED
    BY <1>c, <2>2, <2>3 DEF RInv
<1>2. ASSUME NEW c \in Callers, Granted(c) PROVE RInv'
  <2>1. /\ pc' = [pc EXCEPT ![c] = "current"]
        /\ turn' = [turn EXCEPT ![c] = "call"]
        /\ requests' = [requests EXCEPT ![c] = 0]
        /\ reauthed' = [reauthed EXCEPT ![c] = FALSE]
        /\ sent' = [sent EXCEPT ![c] = 0]
    BY <1>2 DEF Granted, Call, Goto, Turn
  <2>2. InTurn'
    BY <1>t, <2>1 DEF RInv, InTurn, TypeOK
  <2>3. RequestCount'
    BY <1>t, <2>1 DEF RInv, InTurn, RequestCount, Once, TypeOK
  <2> QED
    BY <1>c, <2>2, <2>3 DEF RInv
<1>3. ASSUME NEW c \in Callers, Proceed(c) PROVE RInv'
  <2>1. /\ turn[c] = "call"
        /\ turn' = [turn EXCEPT ![c] = IF pc'[c] = "idle" THEN "out" ELSE "call"]
        /\ requests' = [requests EXCEPT ![c] = IF pc'[c] = "send" THEN requests[c] + 1
                                               ELSE requests[c]]
    BY <1>3 DEF Proceed, Turn
  <2>2. requests \in [Callers -> Nat] /\ turn \in [Callers -> {"out", "wait", "call"}]
    BY DEF RInv, InTurn
  <2>3. /\ \A d \in Callers \ {c} : requests'[d] = requests[d] /\ turn'[d] = turn[d]
        /\ requests'[c] = IF pc'[c] = "send" THEN requests[c] + 1 ELSE requests[c]
        /\ turn'[c] = "call" <=> pc'[c] # "idle"
        /\ requests' \in [Callers -> Nat]
        /\ turn' \in [Callers -> {"out", "wait", "call"}]
    BY <2>1, <2>2
  <2>4. Current(c) \/ Refresh(c) \/ Authenticate(c) \/ Send(c)
    BY <1>3 DEF Proceed
  <2>5. InTurn'
    BY <1>t, <2>3, <2>4, CallSteps DEF RInv, InTurn
  <2>6. RequestCount'
    <3> SUFFICES ASSUME NEW d \in Callers
                 PROVE  /\ requests'[d] <= 4
                        /\ pc'[d] = "current" => requests'[d] = 0 /\ ~reauthed'[d]
                        /\ pc'[d] \in {"refresh", "auth"} => requests'[d] <= 2 * Once(d)'
                        /\ pc'[d] = "send" => sent'[d] \in 1..2
                                              /\ requests'[d] <= 2 * Once(d)' + sent'[d]
      BY DEF RequestCount
    <3>1. CASE d # c
      BY <1>t, <2>3, <2>4, <3>1, CallSteps DEF RInv, RequestCount, Once
    <3>2. CASE d = c
      BY <1>t, <2>2, <2>3, <2>4, <3>2, CallSteps DEF RInv, RequestCount, Once
    <3> QED
      BY <3>1, <3>2
  <2> QED
    BY <1>c, <2>5, <2>6 DEF RInv
<1>4. CASE Expire \/ Tick \/ Cancel \/ Ended \/ UNCHANGED pacedVars
  <2>1. UNCHANGED <<pc, sent, reauthed, requests, turn>>
    BY <1>4 DEF Expire, Revoke, Tick, Cancel, Ended, pacedVars, vars, waitVars, countVars
  <2> QED
    BY <1>c, <2>1 DEF RInv, InTurn, RequestCount, Once
<1> QED
  BY <1>1, <1>2, <1>3, <1>4 DEF PacedNext

(* However its requests are lost and its sessions refused, a call sends at  *)
(* most four of them without waiting for the limiter again, and logs in at  *)
(* most twice.                                                              *)
THEOREM RequestsAreBounded == PacedSpec => []RequestsBounded
<1>1. PacedInit => RInv
  BY CInit DEF PacedInit, Init, RInv, InTurn, RequestCount
<1>2. RInv => RequestsBounded
  BY DEF RInv, RequestCount, RequestsBounded, CInv, LoginCount
<1> QED
  BY <1>1, RStep, <1>2, PTL DEF PacedSpec

-----------------------------------------------------------------------------
(* The callers that wait for their slot, and those of them that may go by   *)
(* a time.                                                                  *)
Waiting == {c \in Callers : turn[c] = "wait"}
DueBy(t) == {c \in Waiting : wake[c] <= t}

PaceType ==
    /\ now \in Nat /\ slot \in Nat /\ grants \in Nat
    /\ turn \in [Callers -> {"out", "wait", "call"}]
    /\ wake \in [Callers -> Nat]
    /\ IsFiniteSet(Waiting)

(* Every call that has begun or waits has a slot before the next one, and   *)
(* by any time to come no more of them can have begun than have a slot.     *)
(* The two need each other: the second says that a late caller and one      *)
(* that is on time never go together, and a new slot is bounded by the      *)
(* first, because cancelled waiters leave slots behind that nobody uses.    *)
SlotsTaken == grants + Cardinality(Waiting) <= slot \div Every
OnTime ==
    \A t \in Nat : t >= now => grants + Cardinality(DueBy(t)) <= t \div Every + 1

GInv == PaceType /\ SlotsTaken /\ OnTime

LEMMA Quotient ==
    ASSUME NEW a \in Nat
    PROVE  /\ a \div Every \in Nat
           /\ Every * (a \div Every) <= a
           /\ a < Every * (a \div Every + 1)
  BY PacingAssumption

LEMMA QuotientMonotonic ==
    ASSUME NEW a \in Nat, NEW b \in Nat, a <= b
    PROVE  a \div Every <= b \div Every
<1> DEFINE q == a \div Every
           r == b \div Every
<1>1. q \in Nat /\ r \in Nat /\ Every * q <= a /\ b < Every * (r + 1)
  BY Quotient
<1>2. Every * q < Every * (r + 1)
  BY <1>1, PacingAssumption
<1> HIDE DEF q, r
<1>3. q < r + 1
  BY <1>1, <1>2, PacingAssumption
<1>4. q <= r
  BY <1>1, <1>3
<1> QED
  BY <1>4 DEF q, r

LEMMA QuotientNext ==
    ASSUME NEW a \in Nat
    PROVE  a + Every \in Nat /\ (a + Every) \div Every = a \div Every + 1
  BY PacingAssumption

LEMMA DueFinite ==
    ASSUME PaceType, NEW t \in Nat
    PROVE  /\ IsFiniteSet(DueBy(t)) /\ Cardinality(DueBy(t)) \in Nat
           /\ Cardinality(Waiting) \in Nat
           /\ Cardinality(DueBy(t)) <= Cardinality(Waiting)
<1>1. DueBy(t) \in SUBSET Waiting /\ IsFiniteSet(Waiting)
  BY DEF DueBy, PaceType
<1> QED
  BY <1>1, FS_Subset, FS_CardinalityType

(* Leaving the wait, for a call or for good. *)
LEMMA Leaves ==
    ASSUME PaceType, NEW c \in Waiting, NEW t \in Nat,
           Waiting' = Waiting \ {c}, wake' = wake
    PROVE  /\ IsFiniteSet(Waiting')
           /\ Cardinality(Waiting') = Cardinality(Waiting) - 1
           /\ Cardinality(DueBy(t)') = IF wake[c] <= t THEN Cardinality(DueBy(t)) - 1
                                       ELSE Cardinality(DueBy(t))
<1>1. IsFiniteSet(Waiting) /\ IsFiniteSet(DueBy(t))
  BY DueFinite DEF PaceType
<1>2. DueBy(t)' = DueBy(t) \ {c}
  BY DEF DueBy
<1>3. c \in DueBy(t) <=> wake[c] <= t
  BY DEF DueBy
<1> QED
  BY <1>1, <1>2, <1>3, FS_RemoveElement

LEMMA GStep == GInv /\ [PacedNext]_pacedVars => GInv'
<1> SUFFICES ASSUME GInv, [PacedNext]_pacedVars PROVE GInv'
  OBVIOUS
<1>t. PaceType
  BY DEF GInv
<1>1. ASSUME NEW c \in Callers, Reserve(c) PROVE GInv'
  <2>1. PICK at \in Nat : at = Later(slot, now)
    BY <1>t DEF Later, PaceType
  <2>2. at >= slot /\ at >= now
    BY <1>t, <2>1 DEF Later, PaceType
  <2>3. /\ wake' = [wake EXCEPT ![c] = at] /\ slot' = at + Every
        /\ turn' = [turn EXCEPT ![c] = "wait"]
        /\ now' = now /\ grants' = grants /\ turn[c] = "out"
    BY <1>1, <2>1 DEF Reserve, NextSlot, Turn, countVars
  <2>4. c \notin Waiting /\ Waiting' = Waiting \cup {c}
    BY <1>t, <2>3 DEF Waiting, PaceType
  <2>5. /\ IsFiniteSet(Waiting')
        /\ Cardinality(Waiting) \in Nat /\ Cardinality(Waiting') = Cardinality(Waiting) + 1
    BY <1>t, <2>4, FS_AddElement, FS_CardinalityType DEF PaceType
  <2>6. PaceType'
    BY <1>t, <2>3, <2>5, QuotientNext DEF PaceType
  <2>7. /\ slot \div Every \in Nat /\ at \div Every \in Nat
        /\ slot \div Every <= at \div Every
        /\ slot' \div Every = at \div Every + 1
    BY <1>t, <2>2, <2>3, Quotient, QuotientMonotonic, QuotientNext DEF PaceType
  <2>8. grants + Cardinality(Waiting) <= at \div Every
    BY <1>t, <2>5, <2>7 DEF GInv, SlotsTaken, PaceType
  <2>9. SlotsTaken'
    BY <1>t, <2>3, <2>5, <2>7, <2>8 DEF SlotsTaken, PaceType
  <2>10. OnTime'
    <3> SUFFICES ASSUME NEW t \in Nat, t >= now
                 PROVE  grants + Cardinality(DueBy(t)') <= t \div Every + 1
      BY <2>3 DEF OnTime
    <3>1. CASE t < at
      <4>1. DueBy(t)' = DueBy(t)
        BY <1>t, <2>3, <2>4, <3>1 DEF DueBy, PaceType, Waiting
      <4> QED
        BY <4>1 DEF GInv, OnTime
    <3>2. CASE at <= t
      <4>1. DueBy(t)' = DueBy(t) \cup {c} /\ c \notin DueBy(t)
        BY <1>t, <2>3, <2>4, <3>2 DEF DueBy, PaceType, Waiting
      <4>2. /\ Cardinality(DueBy(t)') = Cardinality(DueBy(t)) + 1
            /\ Cardinality(DueBy(t)) \in Nat
            /\ Cardinality(DueBy(t)) <= Cardinality(Waiting)
        BY <1>t, <4>1, DueFinite, FS_AddElement
      <4>3. t \div Every \in Nat /\ at \div Every <= t \div Every
        BY <3>2, Quotient, QuotientMonotonic
      <4>4. grants \in Nat
        BY <1>t DEF PaceType
      <4> QED
        BY <2>5, <2>7, <2>8, <4>2, <4>3, <4>4
    <3> QED
      BY <2>1, <3>1, <3>2
  <2> QED
    BY <2>6, <2>9, <2>10 DEF GInv
<1>2. ASSUME NEW c \in Callers, Granted(c) PROVE GInv'
  <2>1. /\ turn[c] = "wait" /\ wake[c] <= now
        /\ turn' = [turn EXCEPT ![c] = "call"] /\ grants' = grants + 1
        /\ now' = now /\ slot' = slot /\ wake' = wake
    BY <1>2 DEF Granted, Turn
  <2>2. c \in Waiting /\ Waiting' = Waiting \ {c}
    BY <1>t, <2>1 DEF Waiting, PaceType
  <2>3. PaceType'
    <3>1. now \in Nat
      BY <1>t DEF PaceType
    <3>2. IsFiniteSet(Waiting')
      BY <1>t, <2>1, <2>2, <3>1, Leaves
    <3> QED
      BY <1>t, <2>1, <3>2 DEF PaceType
  <2>4. SlotsTaken'
    <3>1. Cardinality(Waiting') = Cardinality(Waiting) - 1 /\ Cardinality(Waiting) \in Nat
      BY <1>t, <2>1, <2>2, Leaves, DueFinite
    <3> QED
      BY <1>t, <2>1, <3>1 DEF GInv, SlotsTaken, PaceType
  <2>5. OnTime'
    <3> SUFFICES ASSUME NEW t \in Nat, t >= now
                 PROVE  grants + 1 + Cardinality(DueBy(t)') <= t \div Every + 1
      BY <2>1 DEF OnTime
    <3>1. wake[c] <= t
      BY <1>t, <2>1 DEF PaceType
    <3>2. /\ Cardinality(DueBy(t)') = Cardinality(DueBy(t)) - 1
          /\ Cardinality(DueBy(t)) \in Nat
      BY <1>t, <2>1, <2>2, <3>1, Leaves, DueFinite
    <3>3. grants + Cardinality(DueBy(t)) <= t \div Every + 1 /\ t \div Every \in Nat
      BY Quotient DEF GInv, OnTime
    <3> QED
      BY <1>t, <3>2, <3>3 DEF PaceType
  <2> QED
    BY <2>3, <2>4, <2>5 DEF GInv
<1>3. ASSUME NEW c \in Callers, GivesUp(c) PROVE GInv'
  <2>1. /\ turn[c] = "wait" /\ turn' = [turn EXCEPT ![c] = "out"]
        /\ grants' = grants /\ now' = now /\ slot' = slot /\ wake' = wake
    BY <1>3 DEF GivesUp, Turn, countVars
  <2>2. c \in Waiting /\ Waiting' = Waiting \ {c}
    BY <1>t, <2>1 DEF Waiting, PaceType
  <2>3. PaceType'
    <3>1. now \in Nat
      BY <1>t DEF PaceType
    <3>2. IsFiniteSet(Waiting')
      BY <1>t, <2>1, <2>2, <3>1, Leaves
    <3> QED
      BY <1>t, <2>1, <3>2 DEF PaceType
  <2>4. SlotsTaken'
    <3>1. Cardinality(Waiting') = Cardinality(Waiting) - 1 /\ Cardinality(Waiting) \in Nat
      BY <1>t, <2>1, <2>2, Leaves, DueFinite
    <3>2. slot \div Every \in Nat
      BY <1>t, Quotient DEF PaceType
    <3> QED
      BY <1>t, <2>1, <3>1, <3>2 DEF GInv, SlotsTaken, PaceType
  <2>5. OnTime'
    <3> SUFFICES ASSUME NEW t \in Nat, t >= now
                 PROVE  grants + Cardinality(DueBy(t)') <= t \div Every + 1
      BY <2>1 DEF OnTime
    <3>1. /\ \/ Cardinality(DueBy(t)') = Cardinality(DueBy(t)) - 1
             \/ Cardinality(DueBy(t)') = Cardinality(DueBy(t))
          /\ Cardinality(DueBy(t)) \in Nat
      BY <1>t, <2>1, <2>2, Leaves, DueFinite
    <3>2. grants + Cardinality(DueBy(t)) <= t \div Every + 1 /\ t \div Every \in Nat
      BY Quotient DEF GInv, OnTime
    <3> QED
      BY <1>t, <3>1, <3>2 DEF PaceType
  <2> QED
    BY <2>3, <2>4, <2>5 DEF GInv
<1>4. ASSUME NEW c \in Callers, Proceed(c) PROVE GInv'
  <2>1. /\ turn[c] = "call"
        /\ turn' = [turn EXCEPT ![c] = IF pc'[c] = "idle" THEN "out" ELSE "call"]
        /\ UNCHANGED <<now, slot, wake, grants>>
    BY <1>4 DEF Proceed, Turn
  <2>2. Waiting' = Waiting /\ turn' \in [Callers -> {"out", "wait", "call"}]
    BY <1>t, <2>1 DEF Waiting, PaceType
  <2> QED
    BY <2>1, <2>2 DEF GInv, PaceType, SlotsTaken, OnTime, DueBy
<1>5. CASE Tick
  <2>1. now' = now + 1 /\ UNCHANGED <<slot, turn, wake, grants>>
    BY <1>5 DEF Tick, waitVars, countVars
  <2>2. Waiting' = Waiting /\ now' \in Nat
    BY <1>t, <2>1 DEF Waiting, PaceType
  <2>3. \A t \in Nat : t >= now' => t >= now
    BY <1>t, <2>1 DEF PaceType
  <2> QED
    BY <2>1, <2>2, <2>3 DEF GInv, PaceType, SlotsTaken, OnTime, DueBy
<1>6. CASE Expire \/ Cancel \/ Ended \/ UNCHANGED pacedVars
  <2>1. UNCHANGED <<now, slot, turn, wake, grants>>
    BY <1>6 DEF Expire, Cancel, Ended, pacedVars, waitVars, countVars
  <2> QED
    BY <2>1 DEF GInv, PaceType, SlotsTaken, OnTime, DueBy, Waiting
<1> QED
  BY <1>1, <1>2, <1>3, <1>4, <1>5, <1>6 DEF PacedNext

LEMMA GInit == PacedInit => GInv
<1> SUFFICES ASSUME PacedInit PROVE GInv
  OBVIOUS
<1>1. now = 0 /\ slot = 0 /\ grants = 0 /\ Waiting = {}
  BY DEF PacedInit, Waiting
<1>2. /\ IsFiniteSet(Waiting) /\ Cardinality(Waiting) = 0
      /\ \A t \in Nat : Cardinality(DueBy(t)) = 0
  BY <1>1, FS_EmptySet DEF DueBy
<1>3. PaceType
  BY <1>1, <1>2 DEF PacedInit, PaceType
<1>4. \A t \in Nat : t \div Every \in Nat
  BY Quotient
<1>5. SlotsTaken
  BY <1>1, <1>2, <1>4 DEF SlotsTaken
<1>6. OnTime
  BY <1>1, <1>2, <1>4 DEF OnTime
<1> QED
  BY <1>3, <1>5, <1>6 DEF GInv

(* The budget of the feed, for any number of callers and any interval: by   *)
(* any time no more calls have begun than one for every interval since the  *)
(* start, and the first.                                                    *)
THEOREM GrantsArePaced == PacedSpec => []GrantsPaced
<1>1. GInv => GrantsPaced
  <2> SUFFICES ASSUME GInv PROVE grants <= now \div Every + 1
    BY DEF GrantsPaced
  <2>1. PaceType /\ now \in Nat /\ grants \in Nat
    BY DEF GInv, PaceType
  <2>2. grants + Cardinality(DueBy(now)) <= now \div Every + 1
    BY <2>1 DEF GInv, OnTime
  <2>3. Cardinality(DueBy(now)) \in Nat /\ now \div Every \in Nat
    BY <2>1, DueFinite, Quotient
  <2> QED
    BY <2>1, <2>2, <2>3
<1> QED
  BY GInit, GStep, <1>1, PTL DEF PacedSpec
=============================================================================
