------------------------------ MODULE Accounts ------------------------------
(***************************************************************************)
(* Users, wallets and merchants: Register (auth_usecase), connecting,      *)
(* choosing and disconnecting wallets (wallet_usecase, wallet_repo) and    *)
(* the merchant application (merchant_usecase).                            *)
(*                                                                         *)
(* Every use case reads first and inserts later, and no unique index       *)
(* stands behind the wallets and the merchants: only users.email is        *)
(* unique, so a user is named by the email. The repositories of these      *)
(* tables use their own connection, not the one of the unit of work in the *)
(* context: every insert commits by itself. A soft deleted row is seen by  *)
(* no query and is left out.                                               *)
(***************************************************************************)
EXTENDS Naturals, FiniteSets

CONSTANTS
    Users, Addresses, Calls,
    Wallets,        \* wallet ids: how many wallets live at once
    Applications,   \* merchant ids
    Admins,         \* users with the role admin or sub_admin
    None, NilId     \* NilId is uuid.Nil, the id of no user

ASSUME AccountsAssumption == /\ Admins \subseteq Users
                             /\ NilId \notin Users /\ None \notin Users

VARIABLES
    users,      \* users with a row
    verified,   \* users whose kyc_status is fully verified
    wallets,    \* wallets: id -> row or None
    merchants,  \* merchants: id -> user or None
    calls,      \* the calls in progress
    contended   \* history: users and addresses two calls held at once

vars == <<users, verified, wallets, merchants, calls, contended>>

Idle == [pc |-> "idle", user |-> None, addr |-> None, first |-> FALSE, made |-> FALSE]

\* Types of the rows and the calls
TypeOK ==
    /\ users \subseteq Users /\ verified \subseteq Users
    /\ wallets \in [Wallets -> {None} \cup [owner : Users, addr : Addresses, primary : BOOLEAN]]
    /\ merchants \in [Applications -> Users \cup {None}]
    /\ calls \in [Calls -> [pc : {"idle", "failed", "regAddress", "regUser", "regWallet",
                                  "lookup", "insert", "apply"},
                            user : Users \cup {None}, addr : Addresses \cup {None},
                            first : BOOLEAN, made : BOOLEAN]]
    /\ contended \subseteq Users \cup Addresses

Init ==
    /\ users = {} /\ verified = {}
    /\ wallets = [w \in Wallets |-> None]
    /\ merchants = [m \in Applications |-> None]
    /\ calls = [c \in Calls |-> Idle]
    /\ contended = {}

Live == {w \in Wallets : wallets[w] # None}
GetByUserID(u) == {w \in Live : wallets[w].owner = u}
GetByAddress(a) == {w \in Live : wallets[w].addr = a}

Available(c) == calls[c].pc \in {"idle", "failed"}
Holds(r, x) == r.pc \notin {"idle", "failed"} /\ x \in {r.user, r.addr}

\* The call c goes on as r; the history notes what it shares with another call.
Becomes(c, r) ==
    /\ calls' = [calls EXCEPT ![c] = r]
    /\ contended' = contended \cup
          {x \in Users \cup Addresses : Holds(r, x) /\ \E d \in Calls \ {c} : Holds(calls[d], x)}

At(c, pc) == [calls[c] EXCEPT !.pc = pc]
Ends(c) == Becomes(c, Idle)
Fails(c) == Becomes(c, [Idle EXCEPT !.pc = "failed", !.made = calls[c].made])

-----------------------------------------------------------------------------
(* Register *)

\* No user has the email yet.
RegisterBegin(c, u, a) ==
    /\ Available(c) /\ u \notin users
    /\ Becomes(c, [Idle EXCEPT !.pc = "regAddress", !.user = u, !.addr = a])
    /\ UNCHANGED <<users, verified, wallets, merchants>>

\* The wallet must not belong to a user.
RegisterAddress(c) ==
    /\ calls[c].pc = "regAddress"
    /\ IF GetByAddress(calls[c].addr) # {} THEN Fails(c) ELSE Becomes(c, At(c, "regUser"))
    /\ UNCHANGED <<users, verified, wallets, merchants>>

\* The row of the user, unless another call took the email.
RegisterUser(c) ==
    /\ calls[c].pc = "regUser"
    /\ IF calls[c].user \in users
       THEN Fails(c) /\ UNCHANGED users
       ELSE /\ users' = users \cup {calls[c].user}
            /\ Becomes(c, [At(c, "regWallet") EXCEPT !.made = TRUE])
    /\ UNCHANGED <<verified, wallets, merchants>>

\* UserRepository.Create gave the id to its own copy of the user: the wallet is
\* for uuid.Nil, and the foreign key of wallets.user_id is not met. The merchant
\* and the verification token that would follow are not reached.
RegisterWallet(c) ==
    /\ calls[c].pc = "regWallet"
    /\ NilId \notin users
    /\ Fails(c)
    /\ UNCHANGED <<users, verified, wallets, merchants>>

-----------------------------------------------------------------------------
(* Wallets *)

\* More than one wallet needs a verified user, or an administrator.
MayConnect(u) == GetByUserID(u) # {} => u \in Admins \cup verified

ConnectBegin(c, u, a) ==
    /\ Available(c) /\ u \in users
    /\ IF MayConnect(u)
       THEN Becomes(c, [Idle EXCEPT !.pc = "lookup", !.user = u, !.addr = a,
                                    !.first = GetByUserID(u) = {}])
       ELSE Fails(c)
    /\ UNCHANGED <<users, verified, wallets, merchants>>

\* Faulty variant: only the user's own wallets are looked at.
TakenByUser(u, a) == GetByAddress(a) \cap GetByUserID(u)

\* The wallets in the way of connecting the address
Taken(u, a) == GetByAddress(a)

\* The user's own wallet is returned, another user's is a conflict.
ConnectLookup(c) ==
    LET found == Taken(calls[c].user, calls[c].addr) IN
    /\ calls[c].pc = "lookup"
    /\ IF found = {} THEN Becomes(c, At(c, "insert"))
       ELSE \E w \in found : IF wallets[w].owner = calls[c].user THEN Ends(c) ELSE Fails(c)
    /\ UNCHANGED <<users, verified, wallets, merchants>>

ConnectInsert(c) ==
    /\ calls[c].pc = "insert" /\ Live # Wallets
    /\ LET w == CHOOSE v \in Wallets \ Live : TRUE IN
       wallets' = [wallets EXCEPT ![w] = [owner |-> calls[c].user, addr |-> calls[c].addr,
                                          primary |-> calls[c].first]]
    /\ Ends(c)
    /\ UNCHANGED <<users, verified, merchants>>

\* Faulty variant: the wallets of the user that are not chosen keep their mark.
SetPrimaryOnly(u, w) ==
    /\ w \in GetByUserID(u)
    /\ wallets' = [wallets EXCEPT ![w].primary = TRUE]
    /\ UNCHANGED <<users, verified, merchants, calls, contended>>

\* One transaction: all of the user's wallets are unset, the chosen one is set;
\* when it is not the user's, the first update is rolled back.
SetPrimary(u, w) ==
    /\ w \in GetByUserID(u)
    /\ wallets' = [v \in Wallets |-> IF v \in GetByUserID(u)
                                     THEN [wallets[v] EXCEPT !.primary = v = w] ELSE wallets[v]]
    /\ UNCHANGED <<users, verified, merchants, calls, contended>>

\* The wallet is read, its owner compared, and the row soft deleted.
DisconnectWallet(u, w) ==
    /\ w \in GetByUserID(u)
    /\ wallets' = [wallets EXCEPT ![w] = None]
    /\ UNCHANGED <<users, verified, merchants, calls, contended>>

\* External: the identity check of a user ends well.
Verified(u) ==
    /\ u \in users \ verified
    /\ verified' = verified \cup {u}
    /\ UNCHANGED <<users, wallets, merchants, calls, contended>>

-----------------------------------------------------------------------------
(* Merchants *)

ApplicationsOf(u) == {m \in Applications : merchants[m] = u}

\* An application that is there is returned; a bad merchant type is refused.
ApplyMerchant(c, u) ==
    /\ Available(c) /\ u \in users
    /\ \/ ApplicationsOf(u) = {} /\ Becomes(c, [Idle EXCEPT !.pc = "apply", !.user = u])
       \/ Ends(c)
    /\ UNCHANGED <<users, verified, wallets, merchants>>

ApplyInsert(c) ==
    /\ calls[c].pc = "apply"
    /\ ApplicationsOf(None) # {}
    /\ LET m == CHOOSE n \in ApplicationsOf(None) : TRUE IN
       merchants' = [merchants EXCEPT ![m] = calls[c].user]
    /\ Ends(c)
    /\ UNCHANGED <<users, verified, wallets>>

-----------------------------------------------------------------------------

Next ==
    \/ \E c \in Calls, u \in Users, a \in Addresses :
          RegisterBegin(c, u, a) \/ ConnectBegin(c, u, a)
    \/ \E c \in Calls : \/ RegisterAddress(c) \/ RegisterUser(c) \/ RegisterWallet(c)
                        \/ ConnectLookup(c) \/ ConnectInsert(c) \/ ApplyInsert(c)
    \/ \E c \in Calls, u \in Users : ApplyMerchant(c, u)
    \/ \E u \in Users, w \in Wallets : SetPrimary(u, w) \/ DisconnectWallet(u, w)
    \/ \E u \in Users : Verified(u)

Spec == Init /\ [][Next]_vars

-----------------------------------------------------------------------------

\* A user whose calls never overlapped has at most one primary wallet and at most
\* one merchant, through any sequence of registering, connecting, choosing,
\* disconnecting and applying: no unique index says so, only the reads do.
OnePerUser ==
    \A u \in Users \ contended :
        /\ \A v, w \in GetByUserID(u) : wallets[v].primary /\ wallets[w].primary => v = w
        /\ \A m, n \in ApplicationsOf(u) : m = n

\* An address is connected to one user at most, unless two calls about it
\* overlapped between the look and the insert.
AddressHasOneOwner ==
    \A a \in Addresses \ contended : \A v, w \in GetByAddress(a) : v = w

\* "Execute User + Wallet + Merchant creation in a transaction"
\* (auth_usecase.go:110): a registration that fails leaves no user behind.
RegisterIsAtomic ==
    \A c \in Calls : calls[c].pc = "failed" => ~calls[c].made

=============================================================================
