----------------------------- MODULE AccessProofs -----------------------------
(***************************************************************************)
(* Sessions and API keys, for any number of users, session ids, keys and   *)
(* overlapping calls.                                                      *)
(***************************************************************************)
EXTENDS Access, TLAPS

\* A call in progress carries what its second half writes.
CallsCarry ==
    \A c \in Calls : /\ calls[c].pc = "write" => calls[c].user \in Users
                     /\ calls[c].pc = "touch" => calls[c].key \in Keys

\* The row of a revoked key is deleted for good, so no call read it since.
RevokedDeleted ==
    /\ \A k \in revoked : keys[k].status = "deleted"
    /\ \A c \in Calls : ~calls[c].late

\* In strict mode a refresh knows the session it read, and its user.
StrictRefresh ==
    strict => \A c \in Calls : calls[c].pc = "write" =>
        /\ calls[c].sid \in Sids
        /\ calls[c].user = origin[calls[c].sid]
        /\ calls[c].sid \notin ended \ raced

\* An id in use, or that ended, is never free again.
IdsKnown == \A s \in Sids : s \in ended \/ sessions[s] # None => origin[s] # None

IInv ==
    /\ TypeOK /\ CallsCarry /\ RevokedDeleted /\ StrictRefresh /\ IdsKnown
    /\ SessionKeepsItsUser /\ SessionEndsForGoodUnlessRaced

-----------------------------------------------------------------------------
LEMMA Names == None \notin Users /\ None \notin Sids /\ None \notin Keys /\ Bad \notin Users
  BY AccessAssumption

\* Which users a refresh can act for.
LEMMA RefreshUserIs ==
    ASSUME TypeOK, NEW s \in Sids \cup {None}, NEW proxy \in BOOLEAN,
           NEW body \in Users \cup {None, Bad},
           RefreshUser(s, proxy, body) \in Users
    PROVE  strict => /\ s \in Sids /\ Readable(s)
                     /\ sessions[s] # EmptyTokens
                     /\ RefreshUser(s, proxy, body) = sessions[s].user
  BY Names DEF RefreshUser, Readable, TypeOK, EmptyTokens

LEMMA InitEstablishes == Init => IInv
<1> SUFFICES ASSUME Init PROVE IInv
  OBVIOUS
<1>1. TypeOK
  BY DEF Init, TypeOK, Idle, NoKey
<1>2. CallsCarry /\ RevokedDeleted /\ IdsKnown
  BY DEF Init, CallsCarry, RevokedDeleted, IdsKnown, Idle
<1>3. StrictRefresh /\ SessionKeepsItsUser /\ SessionEndsForGoodUnlessRaced
  BY DEF Init, StrictRefresh, SessionKeepsItsUser, SessionEndsForGoodUnlessRaced, Idle, Readable
<1> QED BY <1>1, <1>2, <1>3 DEF IInv

-----------------------------------------------------------------------------
(* The steps on sessions *)

LEMMA LoginInv == ASSUME IInv, NEW u \in Users, NEW s \in Sids, Login(u, s)
                  PROVE  IInv'
<1> USE Names DEF IInv, Login, Free
<1>1. TypeOK'
  BY DEF TypeOK, Tokens
<1>2. (CallsCarry /\ RevokedDeleted /\ IdsKnown)'
  BY DEF CallsCarry, RevokedDeleted, IdsKnown, TypeOK
<1>3. StrictRefresh'
  BY DEF StrictRefresh, TypeOK, CallsCarry
<1>4. SessionKeepsItsUser'
  BY DEF SessionKeepsItsUser, Readable, Tokens, TypeOK
<1>5. SessionEndsForGoodUnlessRaced'
  BY DEF SessionEndsForGoodUnlessRaced, IdsKnown, TypeOK
<1> QED BY <1>1, <1>2, <1>3, <1>4, <1>5

LEMMA LoginUseSessionInv ==
    ASSUME IInv, NEW u \in Users, NEW plain \in Sids, NEW s \in Sids,
           LoginUseSession(u, plain, s)
    PROVE  IInv'
<1> USE Names DEF IInv, LoginUseSession, Free
<1>1. TypeOK'
  BY DEF TypeOK
<1>2. (CallsCarry /\ RevokedDeleted /\ IdsKnown)'
  BY DEF CallsCarry, RevokedDeleted, IdsKnown, TypeOK
<1>3. StrictRefresh'
  BY DEF StrictRefresh, TypeOK, CallsCarry
<1>4. SessionKeepsItsUser'
  BY DEF SessionKeepsItsUser, Readable, TypeOK
<1>5. SessionEndsForGoodUnlessRaced'
  BY DEF SessionEndsForGoodUnlessRaced, IdsKnown, TypeOK
<1> QED BY <1>1, <1>2, <1>3, <1>4, <1>5

LEMMA RefreshReadInv ==
    ASSUME IInv, NEW c \in Calls, NEW s \in Sids \cup {None}, NEW proxy \in BOOLEAN,
           NEW body \in Users \cup {None, Bad}, RefreshRead(c, s, proxy, body)
    PROVE  IInv'
<1> DEFINE u == RefreshUser(s, proxy, body)
           r == IF u \in Users THEN [Idle EXCEPT !.pc = "write", !.user = u, !.sid = s] ELSE Idle
<1> USE Names DEF IInv
<1>1. calls' = [calls EXCEPT ![c] = r] /\ UNCHANGED <<strict, keys, store, revoked>>
  BY DEF RefreshRead
<1>2. /\ r \in [pc : {"idle", "write"}, user : Users \cup {None}, sid : {s, None},
                key : {None}, late : {FALSE}]
      /\ r.pc = "write" => r.user = u /\ r.sid = s /\ u \in Users
  BY DEF Idle
<1>3. u \in Users /\ strict => /\ s \in Sids /\ u = origin[s]
                               /\ s \notin ended \ raced
  BY RefreshUserIs DEF SessionKeepsItsUser, SessionEndsForGoodUnlessRaced, Readable
<1> HIDE DEF r, u
<1>4. TypeOK'
  BY <1>1, <1>2 DEF TypeOK, store
<1>5. (CallsCarry /\ RevokedDeleted /\ IdsKnown)'
  BY <1>1, <1>2 DEF CallsCarry, RevokedDeleted, IdsKnown, TypeOK, store
<1>6. StrictRefresh'
  BY <1>1, <1>2, <1>3 DEF StrictRefresh, TypeOK, store
<1>7. (SessionKeepsItsUser /\ SessionEndsForGoodUnlessRaced)'
  BY <1>1 DEF SessionKeepsItsUser, SessionEndsForGoodUnlessRaced, Readable, store
<1> QED BY <1>4, <1>5, <1>6, <1>7

LEMMA RefreshWriteInv == ASSUME IInv, NEW c \in Calls, RefreshWrite(c) PROVE IInv'
<1> USE Names DEF IInv
<1>1. PICK s \in Sids :
          /\ sessions' = [sessions EXCEPT ![s] = Tokens(calls[c].user)]
          /\ origin' = [origin EXCEPT ![s] = IF @ = None THEN calls[c].user ELSE @]
          /\ calls[c].sid \in Sids => s = calls[c].sid
  BY DEF RefreshWrite, TypeOK, Free
<1>2. /\ calls[c].pc = "write" /\ calls[c].user \in Users
      /\ calls' = [calls EXCEPT ![c] = [Idle EXCEPT !.pc = "accepted"]]
      /\ UNCHANGED <<strict, keys, ended, raced, revoked>>
  BY DEF RefreshWrite, CallsCarry
<1>3. [Idle EXCEPT !.pc = "accepted"] \in
          [pc : {"accepted"}, user : {None}, sid : {None}, key : {None}, late : {FALSE}]
  BY DEF Idle
<1>4. strict => calls[c].user = origin[s] /\ s \notin ended \ raced /\ s = calls[c].sid
  BY <1>1, <1>2 DEF StrictRefresh
<1>5. TypeOK'
  BY <1>1, <1>2, <1>3 DEF TypeOK, Tokens
<1>6. (CallsCarry /\ RevokedDeleted /\ IdsKnown)'
  BY <1>1, <1>2, <1>3 DEF CallsCarry, RevokedDeleted, IdsKnown, TypeOK
<1>7. StrictRefresh'
  BY <1>1, <1>2, <1>3, <1>4 DEF StrictRefresh, TypeOK, CallsCarry
<1>8. SessionKeepsItsUser'
  BY <1>1, <1>2, <1>4 DEF SessionKeepsItsUser, Readable, Tokens, TypeOK
<1>9. SessionEndsForGoodUnlessRaced'
  BY <1>1, <1>2, <1>4 DEF SessionEndsForGoodUnlessRaced, TypeOK
<1> QED BY <1>5, <1>6, <1>7, <1>8, <1>9

\* Calls that end, or wait with a key, without touching a session
LEMMA CallInv ==
    ASSUME IInv, NEW c \in Calls,
           NEW r \in [pc : {"idle", "touch", "accepted"}, user : Users \cup {None},
                      sid : {None}, key : Keys \cup {None}, late : {FALSE}],
           r.pc = "touch" => r.key \in Keys,
           calls' = [calls EXCEPT ![c] = r],
           keys' \in [Keys -> [owner : Users \cup {None},
                               status : {"none", "active", "inactive", "deleted"}]],
           \A k \in Keys : keys[k].status = "deleted" => keys'[k].status = "deleted",
           UNCHANGED <<strict, store, revoked>>
    PROVE  IInv'
<1> USE DEF IInv, store
<1>1. TypeOK'
  BY DEF TypeOK
<1>2. (CallsCarry /\ RevokedDeleted /\ IdsKnown)'
  BY DEF CallsCarry, RevokedDeleted, IdsKnown, TypeOK
<1>3. StrictRefresh'
  BY DEF StrictRefresh, TypeOK
<1>4. (SessionKeepsItsUser /\ SessionEndsForGoodUnlessRaced)'
  BY DEF SessionKeepsItsUser, SessionEndsForGoodUnlessRaced, Readable
<1> QED BY <1>1, <1>2, <1>3, <1>4

LEMMA EndInv ==
    ASSUME IInv, NEW s \in Sids, origin[s] # None,
           End(s), UNCHANGED <<strict, keys, calls, origin, revoked>>
    PROVE  IInv'
<1> USE Names DEF IInv, End
<1>1. TypeOK'
  BY DEF TypeOK
<1>2. (CallsCarry /\ RevokedDeleted /\ IdsKnown)'
  BY DEF CallsCarry, RevokedDeleted, IdsKnown, TypeOK
<1>3. StrictRefresh'
  BY DEF StrictRefresh, Refreshing
<1>4. SessionKeepsItsUser'
  BY DEF SessionKeepsItsUser, Readable, TypeOK
<1>5. SessionEndsForGoodUnlessRaced'
  BY DEF SessionEndsForGoodUnlessRaced, TypeOK
<1> QED BY <1>1, <1>2, <1>3, <1>4, <1>5

LEMMA SameInv == ASSUME IInv, UNCHANGED vars PROVE IInv'
  BY DEF vars, IInv, TypeOK, CallsCarry, RevokedDeleted, StrictRefresh, IdsKnown,
         SessionKeepsItsUser, SessionEndsForGoodUnlessRaced, Readable

LEMMA TimeInv ==
    ASSUME IInv, NEW s \in Sids, AccessExpires(s) \/ RefreshExpires(s)
    PROVE  IInv'
<1> USE Names DEF IInv
<1>1. UNCHANGED <<strict, keys, calls, origin, ended, raced, revoked>>
  BY DEF AccessExpires, RefreshExpires
<1>2. /\ \A t \in Sids : t # s => sessions'[t] = sessions[t]
      /\ sessions' = [t \in Sids |-> sessions'[t]]
      /\ sessions[s] \notin {None, Unreadable, EmptyTokens}
      /\ sessions'[s] \in [user : {sessions[s].user}, access : {"live", "expired"},
                           refresh : {"live", "expired"}]
      /\ sessions[s].user \in Users
  <2>2. CASE AccessExpires(s)
    <3>1. sessions[s] \notin {None, Unreadable, EmptyTokens}
      BY <2>2 DEF AccessExpires, Readable, EmptyTokens
    <3>2. sessions[s] \in [user : Users, access : {"live", "expired"},
                           refresh : {"live", "expired"}]
      BY <3>1 DEF TypeOK
    <3>3. sessions' = [sessions EXCEPT ![s] = [sessions[s] EXCEPT !.access = "expired"]]
      BY <2>2 DEF AccessExpires
    <3> QED BY <3>1, <3>2, <3>3 DEF TypeOK
  <2>3. CASE RefreshExpires(s)
    <3>1. sessions[s] \notin {None, Unreadable, EmptyTokens}
      BY <2>3 DEF RefreshExpires, Readable, EmptyTokens
    <3>2. sessions[s] \in [user : Users, access : {"live", "expired"},
                           refresh : {"live", "expired"}]
      BY <3>1 DEF TypeOK
    <3>3. sessions' = [sessions EXCEPT ![s] = [sessions[s] EXCEPT !.refresh = "expired"]]
      BY <2>3 DEF RefreshExpires
    <3> QED BY <3>1, <3>2, <3>3 DEF TypeOK
  <2> QED BY <2>2, <2>3
<1>3. TypeOK'
  BY <1>1, <1>2 DEF TypeOK
<1>4. (CallsCarry /\ RevokedDeleted /\ IdsKnown /\ StrictRefresh)'
  BY <1>1, <1>2 DEF CallsCarry, RevokedDeleted, IdsKnown, StrictRefresh
<1>5. SessionKeepsItsUser'
  BY <1>1, <1>2 DEF SessionKeepsItsUser, Readable
<1>6. SessionEndsForGoodUnlessRaced'
  BY <1>1, <1>2 DEF SessionEndsForGoodUnlessRaced, TypeOK
<1> QED BY <1>3, <1>4, <1>5, <1>6

-----------------------------------------------------------------------------
(* The steps on keys *)

\* Steps that change a key's row and nothing else but the set of revoked keys
LEMMA KeyInv ==
    ASSUME IInv, NEW k \in Keys,
           \/ \E u \in Users : CreateApiKey(u, k) \/ RevokeApiKey(u, k)
           \/ KeyDeactivated(k)
    PROVE  IInv'
<1> USE Names DEF IInv
<1>1. UNCHANGED <<strict, calls, store>>
  BY DEF CreateApiKey, RevokeApiKey, KeyDeactivated
<1>2. TypeOK' /\ RevokedDeleted'
  <2>1. ASSUME NEW u \in Users, CreateApiKey(u, k) PROVE TypeOK' /\ RevokedDeleted'
    BY <2>1, <1>1 DEF CreateApiKey, TypeOK, RevokedDeleted, store
  <2>2. ASSUME NEW u \in Users, RevokeApiKey(u, k) PROVE TypeOK' /\ RevokedDeleted'
    BY <2>2, <1>1 DEF RevokeApiKey, TypeOK, RevokedDeleted, store
  <2>3. CASE KeyDeactivated(k)
    BY <2>3, <1>1 DEF KeyDeactivated, TypeOK, RevokedDeleted, store
  <2> QED BY <2>1, <2>2, <2>3
<1>3. (CallsCarry /\ IdsKnown /\ StrictRefresh)'
  BY <1>1 DEF CallsCarry, IdsKnown, StrictRefresh, store
<1>4. (SessionKeepsItsUser /\ SessionEndsForGoodUnlessRaced)'
  BY <1>1 DEF SessionKeepsItsUser, SessionEndsForGoodUnlessRaced, Readable, store
<1> QED BY <1>2, <1>3, <1>4

\* What a request can become when it is authenticated or refused.
LEMMA RequestInv ==
    ASSUME IInv, NEW c \in Calls, UNCHANGED <<strict, keys, store, revoked>>,
           \/ Accept(c) \/ Refuse(c)
           \/ \E u \in Users \cup {None}, k \in Keys : keys[k].status = "active" /\ ByKey(c, u, k)
    PROVE  IInv'
<1>1. keys \in [Keys -> [owner : Users \cup {None},
                         status : {"none", "active", "inactive", "deleted"}]]
  BY DEF IInv, TypeOK
<1>2. CASE Accept(c)
  <2>1. [Idle EXCEPT !.pc = "accepted"] \in
            [pc : {"accepted"}, user : {None}, sid : {None}, key : {None}, late : {FALSE}]
    BY DEF Idle
  <2> QED BY <1>1, <1>2, <2>1, CallInv DEF Accept
<1>3. CASE Refuse(c)
  <2>1. Idle \in [pc : {"idle"}, user : {None}, sid : {None}, key : {None}, late : {FALSE}]
    BY DEF Idle
  <2> QED BY <1>1, <1>3, <2>1, CallInv DEF Refuse
<1>4. ASSUME NEW u \in Users \cup {None}, NEW k \in Keys, keys[k].status = "active", ByKey(c, u, k)
      PROVE  IInv'
  <2> DEFINE r == [Idle EXCEPT !.pc = "touch", !.user = u, !.key = k, !.late = FALSE]
  <2>1. k \notin revoked
    BY <1>4 DEF IInv, RevokedDeleted
  <2>2. (k \in revoked) = FALSE
    BY <2>1
  <2>3. r \in [pc : {"touch"}, user : {u}, sid : {None}, key : {k}, late : {FALSE}]
    BY DEF Idle
  <2>4. calls' = [calls EXCEPT ![c] = r]
    BY <1>4, <2>2, Zenon DEF ByKey
  <2> HIDE DEF r
  <2> QED BY <1>1, <2>3, <2>4, CallInv
<1> QED BY <1>2, <1>3, <1>4

LEMMA TouchKeyInv == ASSUME IInv, NEW c \in Calls, NEW partner \in BOOLEAN, TouchKey(c, partner)
                     PROVE  IInv'
<1> DEFINE r == IF partner /\ calls[c].user \notin Merchants THEN Idle
                ELSE [Idle EXCEPT !.pc = "accepted", !.late = calls[c].late]
<1>1. calls[c].key \in Keys /\ ~calls[c].late
  BY DEF TouchKey, IInv, CallsCarry, RevokedDeleted
<1>2. r \in [pc : {"idle", "accepted"}, user : {None}, sid : {None}, key : {None}, late : {FALSE}]
  <2>1. calls[c].late = FALSE
    BY <1>1 DEF IInv, TypeOK
  <2> QED BY <2>1 DEF Idle
<1>3. calls' = [calls EXCEPT ![c] = r] /\ UNCHANGED <<strict, store, revoked>>
  BY DEF TouchKey
<1>4. /\ keys' \in [Keys -> [owner : Users \cup {None},
                             status : {"none", "active", "inactive", "deleted"}]]
      /\ \A k \in Keys : keys[k].status = "deleted" => keys'[k].status = "deleted"
  BY <1>1 DEF TouchKey, UpdateKey, IInv, TypeOK
<1> HIDE DEF r
<1> QED BY <1>2, <1>3, <1>4, CallInv

LEMMA StepPreserves == IInv /\ [Next]_vars => IInv'
<1> SUFFICES ASSUME IInv, [Next]_vars PROVE IInv'
  OBVIOUS
<1>1. ASSUME NEW u \in Users, NEW s \in Sids, Login(u, s) PROVE IInv'
  BY <1>1, LoginInv
<1>2. ASSUME NEW u \in Users, NEW plain \in Sids, NEW s \in Sids, LoginUseSession(u, plain, s)
      PROVE  IInv'
  BY <1>2, LoginUseSessionInv
<1>3. ASSUME NEW c \in Calls, NEW s \in Sids \cup {None}, NEW proxy \in BOOLEAN,
             NEW body \in Users \cup {None, Bad}, RefreshRead(c, s, proxy, body)
      PROVE  IInv'
  BY <1>3, RefreshReadInv
<1>4. ASSUME NEW c \in Calls, RefreshWrite(c) PROVE IInv'
  BY <1>4, RefreshWriteInv
<1>5. ASSUME NEW c \in Calls, RefreshFails(c) PROVE IInv'
  BY <1>5, RequestInv DEF RefreshFails, Refuse
<1>6. ASSUME NEW s \in Sids,
             Logout(s) \/ AccessExpires(s) \/ RefreshExpires(s) \/ SessionExpires(s)
      PROVE  IInv'
  <2>1. CASE Logout(s) /\ UNCHANGED <<sessions, ended, raced>>
    BY <2>1, SameInv DEF Logout, vars
  <2>2. CASE Logout(s) /\ End(s)
    BY <2>2, EndInv DEF Logout
  <2>3. CASE SessionExpires(s)
    <3>1. origin[s] # None
      BY <2>3 DEF SessionExpires, IInv, IdsKnown
    <3> QED BY <2>3, <3>1, EndInv DEF SessionExpires
  <2> QED BY <1>6, <2>1, <2>2, <2>3, TimeInv DEF Logout
<1>7. ASSUME NEW u \in Users, NEW k \in Keys, CreateApiKey(u, k) \/ RevokeApiKey(u, k)
      PROVE  IInv'
  BY <1>7, KeyInv
<1>8. ASSUME NEW k \in Keys, KeyDeactivated(k) PROVE IInv'
  BY <1>8, KeyInv
<1>9. ASSUME NEW c \in Calls, NEW s \in Sids \cup {None}, NEW proxy \in BOOLEAN,
             NEW bearer \in Users \cup {None, Bad}, AuthMiddleware(c, s, proxy, bearer)
      PROVE  IInv'
  BY <1>9, RequestInv DEF AuthMiddleware
<1>10. ASSUME NEW c \in Calls, NEW s \in Sids \cup {None}, NEW proxy \in BOOLEAN,
              NEW bearer \in Users \cup {None, Bad}, NEW sig \in Keys \cup {None, Bad},
              DualAuthToken(c, s, proxy, bearer, sig)
       PROVE  IInv'
  BY <1>10, RequestInv DEF DualAuthToken, SignedBy
<1>11. ASSUME NEW c \in Calls, NEW k \in Keys, NEW sig \in Keys \cup {Bad}, ValidateApiKey(c, k, sig)
       PROVE  IInv'
  <2>1. keys[k].owner \in Users \cup {None}
    BY DEF IInv, TypeOK
  <2> QED BY <1>11, <2>1, RequestInv DEF ValidateApiKey, ValidApiKey
<1>12. ASSUME NEW c \in Calls, NEW partner \in BOOLEAN, TouchKey(c, partner) PROVE IInv'
  BY <1>12, TouchKeyInv
<1>13. CASE UNCHANGED vars
  BY <1>13, SameInv
<1> QED
  BY <1>1, <1>2, <1>3, <1>4, <1>5, <1>6, <1>7, <1>8, <1>9, <1>10, <1>11, <1>12, <1>13
  DEF Next, SessionSteps, KeySteps

-----------------------------------------------------------------------------
\* The inductive invariant holds in every reachable state.
THEOREM AccessInvariance == Spec => []IInv
  BY InitEstablishes, StepPreserves, PTL DEF Spec

\* Sessions, keys and calls keep their types.
THEOREM AccessTypeCorrect == Spec => []TypeOK
<1>1. IInv => TypeOK
  BY DEF IInv
<1> QED BY <1>1, AccessInvariance, PTL

\* No request that began after a key was revoked is accepted by it, whatever
\* writes of LastUsedAt were still under way.
THEOREM RevocationCorrect == Spec => []RevocationIsFinal
<1>1. IInv => RevocationIsFinal
  BY DEF IInv, RevokedDeleted, RevocationIsFinal
<1> QED BY <1>1, AccessInvariance, PTL

\* With a proxy secret, a session keeps the user who logged in.
THEOREM SessionUserCorrect == Spec => []SessionKeepsItsUser
<1>1. IInv => SessionKeepsItsUser
  BY DEF IInv
<1> QED BY <1>1, AccessInvariance, PTL

\* With a proxy secret, only a refresh that had read a session before it expired
\* or was deleted brings it back.
THEOREM EndCorrect == Spec => []SessionEndsForGoodUnlessRaced
<1>1. IInv => SessionEndsForGoodUnlessRaced
  BY DEF IInv
<1> QED BY <1>1, AccessInvariance, PTL

=============================================================================
