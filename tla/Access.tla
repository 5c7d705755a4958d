------------------------------- MODULE Access -------------------------------
(***************************************************************************)
(* Sessions, tokens and API keys: login, refresh and logout (auth_handler, *)
(* auth_usecase, session_store), the three authenticating middlewares      *)
(* (auth, dual_auth, apikey_partner_middleware) and the life of an API key *)
(* (api_key_usecase, api_key_repo).                                        *)
(*                                                                         *)
(* A session in Redis holds an access and a refresh token. A token is its  *)
(* user and whether it has expired; the signature of a request is the key  *)
(* whose secret made it, or Bad for a wrong or stale one. A refresh reads  *)
(* the session, then writes it: between the two anything may happen. A     *)
(* request by API key reads the key's row and then writes the whole row    *)
(* back with its time of use.                                              *)
(***************************************************************************)
EXTENDS Naturals, FiniteSets

CONSTANTS
    Users, Sids, Keys, Calls,
    Merchants,      \* users with a merchant account
    None, Bad

ASSUME AccessAssumption ==
    /\ Merchants \subseteq Users
    /\ {None, Bad} \cap (Users \cup Sids \cup Keys) = {}

VARIABLES
    strict,     \* INTERNAL_PROXY_SECRET is set
    sessions,   \* Redis: session id -> tokens, "unreadable", or None
    keys,       \* api_keys
    calls,      \* refreshes and authenticated requests in progress
    origin,     \* history: the user of the login that made the session id
    ended,      \* history: session ids that expired or were deleted by a logout
    raced,      \* history: session ids that ended while a refresh had read them
    revoked     \* history: keys whose revocation was answered

store == <<sessions, origin, ended, raced>>
vars == <<strict, sessions, keys, calls, origin, ended, raced, revoked>>

NoKey == [owner |-> None, status |-> "none"]
\* No call, or one that was refused
Idle == [pc |-> "idle", user |-> None, sid |-> None, key |-> None, late |-> FALSE]
Tokens(u) == [user |-> u, access |-> "live", refresh |-> "live"]
EmptyTokens == [user |-> None, access |-> "none", refresh |-> "none"]
Unreadable == [user |-> None, access |-> "plain", refresh |-> "plain"]

\* Types of the sessions, the keys and the calls
TypeOK ==
    /\ strict \in BOOLEAN
    /\ sessions \in [Sids -> {None, EmptyTokens, Unreadable}
                              \cup [user : Users, access : {"live", "expired"},
                                    refresh : {"live", "expired"}]]
    /\ keys \in [Keys -> [owner : Users \cup {None},
                          status : {"none", "active", "inactive", "deleted"}]]
    /\ calls \in [Calls -> [pc : {"idle", "write", "touch", "accepted"},
                            user : Users \cup {None}, sid : Sids \cup {None},
                            key : Keys \cup {None}, late : BOOLEAN]]
    /\ origin \in [Sids -> Users \cup {None}]
    /\ ended \subseteq Sids /\ raced \subseteq Sids /\ revoked \subseteq Keys

Init ==
    /\ strict \in BOOLEAN
    /\ sessions = [s \in Sids |-> None] /\ origin = [s \in Sids |-> None]
    /\ keys = [k \in Keys |-> NoKey]
    /\ calls = [c \in Calls |-> Idle]
    /\ ended = {} /\ raced = {} /\ revoked = {}

-----------------------------------------------------------------------------
(* Sessions *)

\* Faulty variant: the id follows from the user, so that it comes again.
FreeReused(s) == sessions[s] = None

\* An id that was never used, as the random ids of a login are
Free(s) == sessions[s] = None /\ origin[s] = None

\* The password was right; the handler stores the pair under a new id.
Login(u, s) ==
    /\ Free(s)
    /\ sessions' = [sessions EXCEPT ![s] = Tokens(u)]
    /\ origin' = [origin EXCEPT ![s] = u]
    /\ UNCHANGED <<strict, keys, calls, ended, raced, revoked>>

\* useSession: the use case stores the tokens itself, as plain JSON under an id
\* the handler does not use, and returns none; the handler's own session is empty.
LoginUseSession(u, plain, s) ==
    /\ plain # s /\ Free(plain) /\ Free(s)
    /\ sessions' = [sessions EXCEPT ![plain] = Unreadable, ![s] = EmptyTokens]
    /\ origin' = [origin EXCEPT ![plain] = u, ![s] = u]
    /\ UNCHANGED <<strict, keys, calls, ended, raced, revoked>>

\* SessionStore.GetSession: a value that does not decrypt is an error.
Readable(s) == s # None /\ sessions[s] \notin {None, Unreadable}

\* Without a configured secret every request counts as the proxy's.
IsTrustedProxyRequest(proxy) == strict => proxy

\* Faulty variant: the request's body is read in strict mode too.
RefreshUserAnyMode(s, proxy, body) ==
    IF /\ Readable(s) /\ IsTrustedProxyRequest(proxy)
       /\ sessions[s].refresh # "none"
    THEN IF sessions[s].refresh = "live" THEN sessions[s].user ELSE Bad
    ELSE body

\* Whose refresh token the handler finds: the session's, else, outside strict
\* mode, the one in the body or cookie. None for no token, Bad for an expired one.
RefreshUser(s, proxy, body) ==
    IF /\ Readable(s) /\ IsTrustedProxyRequest(proxy)
       /\ sessions[s].refresh # "none"
    THEN IF sessions[s].refresh = "live" THEN sessions[s].user ELSE Bad
    ELSE IF strict THEN None ELSE body

Available(c) == calls[c].pc \notin {"write", "touch"}

RefreshRead(c, s, proxy, body) ==
    LET u == RefreshUser(s, proxy, body) IN
    /\ Available(c)
    /\ calls' = [calls EXCEPT ![c] =
                    IF u \in Users THEN [Idle EXCEPT !.pc = "write", !.user = u, !.sid = s]
                    ELSE Idle]
    /\ UNCHANGED <<strict, keys, store, revoked>>

\* The new pair is stored, under a new id when the request named none. Nobody
\* looks whether the session is still there.
RefreshWrite(c) ==
    /\ calls[c].pc = "write"
    /\ \E s \in IF calls[c].sid # None THEN {calls[c].sid} ELSE {t \in Sids : Free(t)} :
          /\ sessions' = [sessions EXCEPT ![s] = Tokens(calls[c].user)]
          /\ origin' = [origin EXCEPT ![s] = IF @ = None THEN calls[c].user ELSE @]
    /\ calls' = [calls EXCEPT ![c] = [Idle EXCEPT !.pc = "accepted"]]
    /\ UNCHANGED <<strict, keys, ended, raced, revoked>>

\* The user is gone, the pair cannot be made, or Redis does not take it.
RefreshFails(c) ==
    /\ calls[c].pc = "write"
    /\ calls' = [calls EXCEPT ![c] = Idle]
    /\ UNCHANGED <<strict, keys, store, revoked>>

Refreshing(s) == \E c \in Calls : calls[c].pc = "write" /\ calls[c].sid = s

\* The session is gone from Redis. Its tokens stay valid.
End(s) ==
    /\ sessions' = [sessions EXCEPT ![s] = None]
    /\ ended' = ended \cup {s}
    /\ raced' = IF Refreshing(s) THEN raced \cup {s} ELSE raced

\* The session of the cookie, an id the server set, is deleted; a failing
\* deletion is answered with success all the same. routes.go does not register
\* the handler.
Logout(s) ==
    /\ origin[s] # None
    /\ End(s) \/ UNCHANGED <<sessions, ended, raced>>
    /\ UNCHANGED <<strict, keys, calls, origin, revoked>>

\* External: time passes for the tokens of a session, or for the session.
AccessExpires(s) ==
    /\ Readable(s) /\ sessions[s].access = "live"
    /\ sessions' = [sessions EXCEPT ![s].access = "expired"]
    /\ UNCHANGED <<strict, keys, calls, origin, ended, raced, revoked>>
RefreshExpires(s) ==
    /\ Readable(s) /\ sessions[s].access = "expired" /\ sessions[s].refresh = "live"
    /\ sessions' = [sessions EXCEPT ![s].refresh = "expired"]
    /\ UNCHANGED <<strict, keys, calls, origin, ended, raced, revoked>>
SessionExpires(s) ==
    /\ sessions[s] # None
    /\ End(s)
    /\ UNCHANGED <<strict, keys, calls, origin, revoked>>

-----------------------------------------------------------------------------
(* API keys *)

CreateApiKey(u, k) ==
    /\ keys[k].status = "none"
    /\ keys' = [keys EXCEPT ![k] = [owner |-> u, status |-> "active"]]
    /\ UNCHANGED <<strict, calls, store, revoked>>

\* The row is soft deleted, for its owner only.
RevokeApiKey(u, k) ==
    /\ keys[k].status \in {"active", "inactive"} /\ keys[k].owner = u
    /\ keys' = [keys EXCEPT ![k].status = "deleted"]
    /\ revoked' = revoked \cup {k}
    /\ UNCHANGED <<strict, calls, store>>

\* External: an operator switches a key off in the database.
KeyDeactivated(k) ==
    /\ keys[k].status = "active"
    /\ keys' = [keys EXCEPT ![k].status = "inactive"]
    /\ UNCHANGED <<strict, calls, store, revoked>>

\* Faulty variant: the row is saved by its id, deleted or not.
SaveKey(k) == [keys EXCEPT ![k].status = "active"]

\* ApiKeyRepository.Update of the row that was read active: every column but
\* deleted_at is written, of a row that is not soft deleted.
UpdateKey(k) ==
    IF keys[k].status = "deleted" THEN keys ELSE [keys EXCEPT ![k].status = "active"]

\* The session a request names through the proxy was found; it may be empty.
FromTrustedSession(s, proxy) == Readable(s) /\ IsTrustedProxyRequest(proxy)

\* The user of the access token a request carries: of its session, else, outside
\* strict mode, of its Authorization header.
TokenUser(s, proxy, bearer) ==
    IF FromTrustedSession(s, proxy) /\ sessions[s].access # "none"
    THEN IF sessions[s].access = "live" THEN sessions[s].user ELSE Bad
    ELSE IF strict THEN None ELSE bearer

Accept(c) == calls' = [calls EXCEPT ![c] = [Idle EXCEPT !.pc = "accepted"]]
Refuse(c) == calls' = [calls EXCEPT ![c] = Idle]
ByKey(c, u, k) ==
    calls' = [calls EXCEPT ![c] = [Idle EXCEPT !.pc = "touch", !.user = u, !.key = k,
                                               !.late = k \in revoked]]

\* AuthMiddleware: a live access token
AuthMiddleware(c, s, proxy, bearer) ==
    LET u == TokenUser(s, proxy, bearer) IN
    /\ Available(c)
    /\ IF u \in Users THEN Accept(c) ELSE Refuse(c)
    /\ UNCHANGED <<strict, keys, store, revoked>>

\* validateAPIKeyWithCanonicalString: the row of the presented key, active, and
\* the signature made with its secret
ValidApiKey(k, sig) == keys[k].status = "active" /\ sig = k

\* The key's owner, for ApiKeyPartnerMiddleware and path A of DualAuthMiddleware
ValidateApiKey(c, k, sig) ==
    /\ Available(c)
    /\ IF ValidApiKey(k, sig) THEN ByKey(c, keys[k].owner, k) ELSE Refuse(c)
    /\ UNCHANGED <<strict, keys, store, revoked>>

\* ValidateSignatureForJWT: any active key of the token's user
SignedBy(u, sig) == sig \in Keys /\ keys[sig].owner = u /\ keys[sig].status = "active"

\* Path B of DualAuthMiddleware: a token, with a signature unless a session was
\* found; a signature that is there is verified in any case.
DualAuthToken(c, s, proxy, bearer, sig) ==
    LET u == TokenUser(s, proxy, bearer) IN
    /\ Available(c)
    /\ IF u \notin Users THEN Refuse(c)
       ELSE IF sig = None THEN IF FromTrustedSession(s, proxy) THEN Accept(c) ELSE Refuse(c)
       ELSE IF SignedBy(u, sig) THEN ByKey(c, u, sig) ELSE Refuse(c)
    /\ UNCHANGED <<strict, keys, store, revoked>>

\* The time of use is written with the rest of the row that was read; an error
\* is ignored. A partner's request then needs a merchant.
TouchKey(c, partner) ==
    /\ calls[c].pc = "touch"
    /\ keys' \in {keys, UpdateKey(calls[c].key)}
    /\ calls' = [calls EXCEPT ![c] =
                    IF partner /\ calls[c].user \notin Merchants THEN Idle
                    ELSE [Idle EXCEPT !.pc = "accepted", !.late = calls[c].late]]
    /\ UNCHANGED <<strict, store, revoked>>

-----------------------------------------------------------------------------

SessionSteps ==
    \/ \E u \in Users, s \in Sids : Login(u, s)
    \/ \E u \in Users, plain, s \in Sids : LoginUseSession(u, plain, s)
    \/ \E c \in Calls, s \in Sids \cup {None}, proxy \in BOOLEAN, body \in Users \cup {None, Bad} :
          RefreshRead(c, s, proxy, body)
    \/ \E c \in Calls : RefreshWrite(c) \/ RefreshFails(c)
    \/ \E s \in Sids : \/ Logout(s) \/ AccessExpires(s)
                       \/ RefreshExpires(s) \/ SessionExpires(s)

KeySteps ==
    \/ \E u \in Users, k \in Keys : CreateApiKey(u, k) \/ RevokeApiKey(u, k)
    \/ \E k \in Keys : KeyDeactivated(k)
    \/ \E c \in Calls, s \in Sids \cup {None}, proxy \in BOOLEAN, bearer \in Users \cup {None, Bad} :
          \/ AuthMiddleware(c, s, proxy, bearer)
          \/ \E sig \in Keys \cup {None, Bad} : DualAuthToken(c, s, proxy, bearer, sig)
    \/ \E c \in Calls, k \in Keys, sig \in Keys \cup {Bad} : ValidateApiKey(c, k, sig)
    \/ \E c \in Calls, partner \in BOOLEAN : TouchKey(c, partner)

Next == SessionSteps \/ KeySteps

Spec == Init /\ [][Next]_vars

-----------------------------------------------------------------------------

\* A request that begins after a key's revocation was answered is not
\* authenticated by that key, although requests that read the key before write
\* its row back (api_key_usecase.go, LastUsedAt).
RevocationIsFinal ==
    \A c \in Calls : calls[c].pc = "accepted" => ~calls[c].late

\* With a proxy secret a session holds its login's user for as long as it lives:
\* no sequence of refreshes puts another user's tokens under the id.
SessionKeepsItsUser ==
    strict => \A s \in Sids : Readable(s) /\ sessions[s] # EmptyTokens
                                => sessions[s].user = origin[s]

\* With a proxy secret a session that expired, or that a logout deleted, stays
\* gone: only a refresh that had read it before can bring it back, because the
\* refresh writes the new pair without looking (auth_handler.go, RefreshToken).
SessionEndsForGoodUnlessRaced ==
    strict => \A s \in ended \ raced : sessions[s] = None

=============================================================================
