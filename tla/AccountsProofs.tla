---------------------------- MODULE AccountsProofs ----------------------------
(***************************************************************************)
(* Wallets and merchants, for any number of users, addresses and           *)
(* overlapping calls: what the reads before the inserts guarantee.         *)
(***************************************************************************)
EXTENDS Accounts, TLAPS

Busy(r) == r.pc \notin {"idle", "failed"}

\* A call in progress has a user, and unless it applies an address.
CallsCarry ==
    \A c \in Calls : Busy(calls[c]) =>
        /\ calls[c].user \in Users
        /\ calls[c].pc # "apply" => calls[c].addr \in Addresses

\* What two calls hold at once is contended.
SharedContended ==
    \A c, d \in Calls : \A x \in Users \cup Addresses :
        c # d /\ Holds(calls[c], x) /\ Holds(calls[d], x) => x \in contended

\* What a call has read is still so, unless it is contended.
Read(r) ==
    /\ r.pc \in {"lookup", "insert"} /\ r.first => GetByUserID(r.user) = {} \/ r.user \in contended
    /\ r.pc = "insert" => GetByAddress(r.addr) = {} \/ r.addr \in contended
    /\ r.pc = "apply" => ApplicationsOf(r.user) = {} \/ r.user \in contended

ReadsHold == \A c \in Calls : Read(calls[c])

IInv == TypeOK /\ CallsCarry /\ SharedContended /\ ReadsHold /\ OnePerUser /\ AddressHasOneOwner

Record == [pc : {"idle", "failed", "regAddress", "regUser", "regWallet",
                 "lookup", "insert", "apply"},
           user : Users \cup {None}, addr : Addresses \cup {None},
           first : BOOLEAN, made : BOOLEAN]

-----------------------------------------------------------------------------
LEMMA InitEstablishes == Init => IInv
<1> SUFFICES ASSUME Init PROVE IInv
  OBVIOUS
<1>1. TypeOK /\ CallsCarry /\ SharedContended /\ ReadsHold
  BY DEF Init, TypeOK, CallsCarry, Busy, SharedContended, Holds, ReadsHold, Read, Idle
<1>2. OnePerUser /\ AddressHasOneOwner
  BY AccountsAssumption
  DEF Init, OnePerUser, AddressHasOneOwner, GetByUserID, GetByAddress, Live, ApplicationsOf
<1> QED BY <1>1, <1>2 DEF IInv

\* A call that goes on keeps the history true.
LEMMA BecomesShares ==
    ASSUME SharedContended, TypeOK, NEW c \in Calls, NEW r \in Record, Becomes(c, r)
    PROVE  SharedContended' /\ contended \subseteq contended' /\ calls'[c] = r
           /\ contended' \subseteq Users \cup Addresses
           /\ \A d \in Calls : d # c => calls'[d] = calls[d]
<1>1. calls' = [calls EXCEPT ![c] = r] /\ calls'[c] = r
      /\ \A d \in Calls : d # c => calls'[d] = calls[d]
  BY DEF Becomes, TypeOK
<1>2. contended \subseteq contended' /\ contended' \subseteq Users \cup Addresses
  BY DEF Becomes, TypeOK
<1>3. \A d \in Calls \ {c} : \A x \in Users \cup Addresses :
          Holds(r, x) /\ Holds(calls[d], x) => x \in contended'
  BY DEF Becomes
<1>4. SharedContended'
  <2> SUFFICES ASSUME NEW e \in Calls, NEW d \in Calls, NEW x \in Users \cup Addresses,
                      e # d, Holds(calls'[e], x), Holds(calls'[d], x)
               PROVE  x \in contended'
    BY DEF SharedContended, Holds
  <2>1. CASE e = c
    BY <2>1, <1>1, <1>3
  <2>2. CASE d = c
    BY <2>2, <1>1, <1>3
  <2>3. CASE e # c /\ d # c
    BY <2>3, <1>1, <1>2 DEF SharedContended
  <2> QED BY <2>1, <2>2, <2>3
<1> QED BY <1>1, <1>2, <1>4

\* Steps of a call that only reads, or inserts a user
LEMMA ReadInv ==
    ASSUME IInv, NEW c \in Calls, NEW r \in Record, Becomes(c, r), Read(r),
           Busy(r) => r.user \in Users /\ (r.pc # "apply" => r.addr \in Addresses),
           users' \subseteq Users, UNCHANGED <<verified, wallets, merchants>>
    PROVE  IInv'
<1> USE DEF IInv
<1>1. /\ SharedContended' /\ contended \subseteq contended' /\ calls'[c] = r
      /\ contended' \subseteq Users \cup Addresses
      /\ \A d \in Calls : d # c => calls'[d] = calls[d]
  BY BecomesShares
<1>2. TypeOK'
  BY <1>1 DEF TypeOK, Becomes, Record
<1>3. CallsCarry'
  BY <1>1 DEF CallsCarry, Busy
<1>4. ReadsHold'
  BY <1>1 DEF ReadsHold, Read, GetByUserID, GetByAddress, Live, ApplicationsOf
<1>5. (OnePerUser /\ AddressHasOneOwner)'
  BY <1>1 DEF OnePerUser, AddressHasOneOwner, GetByUserID, GetByAddress, Live, ApplicationsOf
<1> QED BY <1>1, <1>2, <1>3, <1>4, <1>5

LEMMA IdleRecords ==
    ASSUME NEW b \in BOOLEAN
    PROVE  /\ Idle \in Record /\ [Idle EXCEPT !.pc = "failed", !.made = b] \in Record
           /\ ~Busy(Idle) /\ ~Busy([Idle EXCEPT !.pc = "failed", !.made = b])
           /\ Read(Idle) /\ Read([Idle EXCEPT !.pc = "failed", !.made = b])
  BY DEF Idle, Record, Busy, Read

LEMMA OverInv ==
    ASSUME IInv, NEW c \in Calls, Ends(c) \/ Fails(c),
           users' \subseteq Users, UNCHANGED <<verified, wallets, merchants>>
    PROVE  IInv'
<1>1. calls[c].made \in BOOLEAN
  BY DEF IInv, TypeOK
<1> QED BY <1>1, IdleRecords, ReadInv DEF Ends, Fails

-----------------------------------------------------------------------------
LEMMA RegisterInv ==
    ASSUME IInv, NEW c \in Calls,
           \/ \E u \in Users, a \in Addresses : RegisterBegin(c, u, a)
           \/ RegisterAddress(c) \/ RegisterUser(c) \/ RegisterWallet(c)
    PROVE  IInv'
<1>t. calls[c] \in Record /\ users \subseteq Users
  BY DEF IInv, TypeOK, Record
<1>1. ASSUME NEW u \in Users, NEW a \in Addresses, RegisterBegin(c, u, a) PROVE IInv'
  <2> DEFINE r == [Idle EXCEPT !.pc = "regAddress", !.user = u, !.addr = a]
  <2>1. r \in Record /\ r.user = u /\ r.addr = a /\ r.pc = "regAddress"
    BY DEF Idle, Record
  <2>2. Becomes(c, r) /\ UNCHANGED <<users, verified, wallets, merchants>>
    BY <1>1 DEF RegisterBegin
  <2> HIDE DEF r
  <2> QED BY <2>1, <2>2, <1>t, ReadInv DEF Read
<1>2. CASE RegisterAddress(c)
  <2> DEFINE r == At(c, "regUser")
  <2>1. r \in Record /\ r.pc = "regUser" /\ r.user = calls[c].user /\ r.addr = calls[c].addr
    BY <1>t DEF At, Record
  <2>2. calls[c].user \in Users /\ calls[c].addr \in Addresses
    BY <1>2 DEF RegisterAddress, IInv, CallsCarry, Busy
  <2>3. /\ Fails(c) \/ Becomes(c, r)
        /\ UNCHANGED <<users, verified, wallets, merchants>>
    BY <1>2 DEF RegisterAddress
  <2> HIDE DEF r
  <2> QED BY <2>1, <2>2, <2>3, <1>t, ReadInv, OverInv DEF Read
<1>3. CASE RegisterUser(c)
  <2> DEFINE r == [At(c, "regWallet") EXCEPT !.made = TRUE]
  <2>1. r \in Record /\ r.pc = "regWallet" /\ r.user = calls[c].user /\ r.addr = calls[c].addr
    BY <1>t DEF At, Record
  <2>2. calls[c].user \in Users /\ calls[c].addr \in Addresses
    BY <1>3 DEF RegisterUser, IInv, CallsCarry, Busy
  <2>3. /\ Fails(c) \/ Becomes(c, r)
        /\ users' \subseteq Users /\ UNCHANGED <<verified, wallets, merchants>>
    BY <1>3, <1>t, <2>2 DEF RegisterUser
  <2> HIDE DEF r
  <2> QED BY <2>1, <2>2, <2>3, ReadInv, OverInv DEF Read
<1>4. CASE RegisterWallet(c)
  BY <1>4, <1>t, OverInv DEF RegisterWallet
<1> QED BY <1>1, <1>2, <1>3, <1>4

LEMMA ConnectInv ==
    ASSUME IInv, NEW c \in Calls,
           (\E u \in Users, a \in Addresses : ConnectBegin(c, u, a)) \/ ConnectLookup(c)
    PROVE  IInv'
<1>t. calls[c] \in Record /\ users \subseteq Users
  BY DEF IInv, TypeOK, Record
<1>1. ASSUME NEW u \in Users, NEW a \in Addresses, ConnectBegin(c, u, a) PROVE IInv'
  <2> DEFINE none == GetByUserID(u) = {}
             r == [Idle EXCEPT !.pc = "lookup", !.user = u, !.addr = a, !.first = none]
  <2>0. none \in BOOLEAN
    OBVIOUS
  <2>1. r \in Record /\ r.user = u /\ r.addr = a /\ r.pc = "lookup" /\ r.first = none
    <3> HIDE DEF none
    <3> QED BY <2>0 DEF Idle, Record
  <2>2. /\ Fails(c) \/ Becomes(c, r)
        /\ UNCHANGED <<users, verified, wallets, merchants>>
    BY <1>1 DEF ConnectBegin
  <2>3. r.first => GetByUserID(r.user) = {}
    BY <2>1
  <2> HIDE DEF r
  <2> QED BY <2>1, <2>2, <2>3, <1>t, ReadInv, OverInv DEF Read
<1>2. CASE ConnectLookup(c)
  <2> DEFINE r == At(c, "insert")
  <2>1. /\ r \in Record /\ r.pc = "insert" /\ r.user = calls[c].user /\ r.addr = calls[c].addr
        /\ r.first = calls[c].first
    BY <1>t DEF At, Record
  <2>2. calls[c].user \in Users /\ calls[c].addr \in Addresses
    BY <1>2 DEF ConnectLookup, IInv, CallsCarry, Busy
  <2>3. \/ Fails(c) \/ Ends(c)
        \/ Becomes(c, r) /\ GetByAddress(calls[c].addr) = {}
    BY <1>2 DEF ConnectLookup, Taken
  <2>4. UNCHANGED <<users, verified, wallets, merchants>> /\ calls[c].pc = "lookup"
    BY <1>2 DEF ConnectLookup
  <2>5. calls[c].first => GetByUserID(calls[c].user) = {} \/ calls[c].user \in contended
    BY <2>4 DEF IInv, ReadsHold, Read
  <2> HIDE DEF r
  <2>6. CASE Becomes(c, r) /\ GetByAddress(calls[c].addr) = {}
    <3>1. Read(r)
      BY <2>1, <2>5, <2>6 DEF Read
    <3> QED BY <3>1, <2>1, <2>2, <2>4, <2>6, <1>t, ReadInv
  <2> QED BY <2>3, <2>4, <2>6, <1>t, OverInv
<1> QED BY <1>1, <1>2

\* The insert of a wallet: no other call read that there is none.
LEMMA ConnectInsertInv == ASSUME IInv, NEW c \in Calls, ConnectInsert(c) PROVE IInv'
<1> USE DEF IInv
<1>2. /\ calls[c].pc = "insert" /\ Becomes(c, Idle)
      /\ UNCHANGED <<users, verified, merchants>>
  BY DEF ConnectInsert, Ends
<1>3. calls[c].user \in Users /\ calls[c].addr \in Addresses /\ calls[c].first \in BOOLEAN
  BY <1>2 DEF CallsCarry, Busy, TypeOK
<1>u. PICK u \in Users : u = calls[c].user
  BY <1>3
<1>a. PICK a \in Addresses : a = calls[c].addr
  BY <1>3
<1>x. PICK x \in [owner : Users, addr : Addresses, primary : BOOLEAN] :
         x = [owner |-> u, addr |-> a, primary |-> calls[c].first]
  BY <1>3
<1>1. PICK w \in Wallets : wallets[w] = None /\ wallets' = [wallets EXCEPT ![w] = x]
  <2>1. \E v \in Wallets \ Live : TRUE
    BY DEF ConnectInsert, Live
  <2>2. (CHOOSE v \in Wallets \ Live : TRUE) \in Wallets \ Live
    BY <2>1
  <2> QED BY <2>2, <1>u, <1>a, <1>x DEF ConnectInsert, Live
<1>4. Idle \in Record /\ ~Busy(Idle) /\ Idle.pc = "idle"
  BY DEF Idle, Record, Busy
<1>5. /\ SharedContended' /\ contended \subseteq contended' /\ calls'[c] = Idle
      /\ contended' \subseteq Users \cup Addresses
      /\ \A d \in Calls : d # c => calls'[d] = calls[d]
  BY <1>2, <1>4, BecomesShares
<1>6. /\ x.owner = u /\ x.addr = a /\ x.primary = calls[c].first
      /\ x \in [owner : Users, addr : Addresses, primary : BOOLEAN]
  BY <1>x
<1>7. TypeOK'
  BY <1>1, <1>2, <1>4, <1>5, <1>6 DEF TypeOK, Becomes, Record
<1>8. CallsCarry'
  BY <1>4, <1>5 DEF CallsCarry
<1>9. /\ \A v \in Wallets : v # w => wallets'[v] = wallets[v]
      /\ wallets'[w] = x
  BY <1>1 DEF TypeOK
<1>10. /\ \A e \in Users : e # u => GetByUserID(e)' \subseteq GetByUserID(e)
       /\ GetByUserID(u)' \subseteq GetByUserID(u) \cup {w}
       /\ \A b \in Addresses : b # a => GetByAddress(b)' \subseteq GetByAddress(b)
       /\ GetByAddress(a)' \subseteq GetByAddress(a) \cup {w}
       /\ w \notin Live
  BY <1>1, <1>6, <1>9 DEF GetByUserID, GetByAddress, Live
<1>11. ReadsHold'
  <2> SUFFICES ASSUME NEW d \in Calls, NEW r, r = calls'[d] PROVE Read(r)'
    BY DEF ReadsHold, Read
  <2>1. CASE d = c
    BY <2>1, <1>4, <1>5 DEF Read
  <2>2. CASE d # c
    <3>1. r = calls[d] /\ Read(r) /\ r \in Record
      BY <2>2, <1>5 DEF ReadsHold, TypeOK, Record
    <3>2. Busy(r) => r.user \in Users /\ (r.pc # "apply" => r.addr \in Addresses)
      BY <3>1 DEF CallsCarry
    <3>3. /\ Busy(r) /\ r.user = u => u \in contended
          /\ Busy(r) /\ r.addr = a => a \in contended
      BY <2>2, <3>1, <1>2, <1>u, <1>a DEF SharedContended, Holds, Busy
    <3>5. r.pc = "apply" => ApplicationsOf(r.user)' = {} \/ r.user \in contended'
      BY <3>1, <1>2, <1>5 DEF Read, ApplicationsOf
    <3>6. r.pc \in {"lookup", "insert"} /\ r.first =>
              GetByUserID(r.user)' = {} \/ r.user \in contended'
      BY <3>1, <3>2, <3>3, <1>5, <1>10 DEF Read, Busy
    <3>7. r.pc = "insert" => GetByAddress(r.addr)' = {} \/ r.addr \in contended'
      BY <3>1, <3>2, <3>3, <1>5, <1>10 DEF Read, Busy
    <3> QED BY <3>5, <3>6, <3>7 DEF Read
  <2> QED BY <2>1, <2>2
<1>12. OnePerUser'
  <2> SUFFICES ASSUME NEW e \in Users, e \notin contended'
               PROVE  /\ \A v1, v2 \in GetByUserID(e)' :
                             wallets'[v1].primary /\ wallets'[v2].primary => v1 = v2
                      /\ \A m, n \in ApplicationsOf(e)' : m = n
    BY DEF OnePerUser
  <2>1. e \notin contended
    BY <1>5
  <2>2. \A m, n \in ApplicationsOf(e)' : m = n
    BY <2>1, <1>2 DEF OnePerUser, ApplicationsOf
  <2>3. CASE e # u
    <3>1. \A v \in GetByUserID(e)' : v \in GetByUserID(e) /\ v \in Live /\ v \in Wallets
      BY <2>3, <1>10 DEF GetByUserID, Live
    <3>2. \A v \in GetByUserID(e)' : wallets'[v] = wallets[v]
      BY <3>1, <1>9, <1>10
    <3> QED BY <2>1, <2>2, <3>1, <3>2 DEF OnePerUser
  <2>4. CASE e = u /\ calls[c].first
    <3>1. GetByUserID(u) = {}
      BY <2>1, <2>4, <1>2, <1>u DEF ReadsHold, Read
    <3> QED BY <2>2, <2>4, <3>1, <1>10
  <2>5. CASE e = u /\ ~calls[c].first
    <3>1. ~wallets'[w].primary
      BY <2>5, <1>6, <1>9
    <3> QED BY <2>1, <2>2, <2>5, <3>1, <1>9, <1>10 DEF OnePerUser, GetByUserID, Live
  <2> QED BY <2>3, <2>4, <2>5
<1>13. AddressHasOneOwner'
  <2> SUFFICES ASSUME NEW b \in Addresses, b \notin contended'
               PROVE  \A v1, v2 \in GetByAddress(b)' : v1 = v2
    BY DEF AddressHasOneOwner
  <2>1. b \notin contended
    BY <1>5
  <2>2. CASE b # a
    BY <2>1, <2>2, <1>10 DEF AddressHasOneOwner
  <2>3. CASE b = a
    <3>1. GetByAddress(a) = {}
      BY <2>1, <2>3, <1>2, <1>a DEF ReadsHold, Read
    <3> QED BY <2>3, <3>1, <1>10
  <2> QED BY <2>2, <2>3
<1> QED BY <1>5, <1>7, <1>8, <1>11, <1>12, <1>13

\* Choosing a primary wallet and disconnecting one
LEMMA ChooseInv ==
    ASSUME IInv, NEW u \in Users, NEW w \in Wallets, SetPrimary(u, w) \/ DisconnectWallet(u, w)
    PROVE  IInv'
<1> USE DEF IInv
<1>1. UNCHANGED <<users, verified, merchants, calls, contended>>
  BY DEF SetPrimary, DisconnectWallet
<1>2. \A v \in Live : wallets[v] \in [owner : Users, addr : Addresses, primary : BOOLEAN]
  BY DEF TypeOK, Live
<1>3. /\ \A v \in Wallets \ GetByUserID(u) : wallets'[v] = wallets[v]
      /\ \A v \in GetByUserID(u) :
            wallets'[v] = None \/ (/\ wallets'[v].owner = u
                                   /\ wallets'[v].addr = wallets[v].addr
                                   /\ wallets'[v].primary => wallets[v].primary \/ v = w)
      /\ SetPrimary(u, w) =>
            \A v \in GetByUserID(u) : wallets'[v] # None /\ wallets'[v].primary => v = w
      /\ DisconnectWallet(u, w) =>
            \A v \in GetByUserID(u) : wallets'[v] # None => wallets'[v] = wallets[v]
      /\ wallets' \in [Wallets -> {None} \cup [owner : Users, addr : Addresses, primary : BOOLEAN]]
  <2>1. CASE SetPrimary(u, w)
    <3>1. \A v \in GetByUserID(u) :
              /\ wallets'[v] = [wallets[v] EXCEPT !.primary = v = w]
              /\ wallets[v] \in [owner : Users, addr : Addresses, primary : BOOLEAN]
      BY <2>1, <1>2 DEF SetPrimary, GetByUserID, Live
    <3>2. \A v \in GetByUserID(u) :
              /\ wallets'[v] \in [owner : Users, addr : Addresses, primary : BOOLEAN]
              /\ wallets'[v].owner = u /\ wallets'[v].addr = wallets[v].addr
              /\ wallets'[v].primary => v = w
      BY <3>1 DEF GetByUserID
    <3>3. \A v \in Wallets \ GetByUserID(u) : wallets'[v] = wallets[v]
      BY <2>1 DEF SetPrimary
    <3>4. wallets' = [v \in Wallets |-> wallets'[v]]
      BY <2>1 DEF SetPrimary
    <3>5. wallets' \in [Wallets -> {None} \cup [owner : Users, addr : Addresses, primary : BOOLEAN]]
      BY <3>2, <3>3, <3>4 DEF TypeOK
    <3>6. DisconnectWallet(u, w) =>
              \A v \in GetByUserID(u) : wallets'[v] # None => wallets'[v] = wallets[v]
      BY DEF DisconnectWallet, TypeOK, GetByUserID, Live
    <3> QED BY <3>2, <3>3, <3>5, <3>6
  <2>2. CASE DisconnectWallet(u, w)
    <3>1. /\ wallets'[w] = None /\ w \in GetByUserID(u)
          /\ \A v \in Wallets : v # w => wallets'[v] = wallets[v]
          /\ wallets' \in [Wallets -> {None} \cup [owner : Users, addr : Addresses, primary : BOOLEAN]]
      BY <2>2 DEF DisconnectWallet, TypeOK
    <3>2. \A v \in GetByUserID(u) : v # w => wallets'[v].owner = u
      BY <3>1 DEF GetByUserID, Live
    <3> QED BY <3>1, <3>2 DEF GetByUserID, Live, SetPrimary
  <2> QED BY <2>1, <2>2
<1>4. /\ \A e \in Users : GetByUserID(e)' \subseteq GetByUserID(e)
      /\ \A b \in Addresses : GetByAddress(b)' \subseteq GetByAddress(b)
  BY <1>3 DEF GetByUserID, GetByAddress, Live
<1>5. TypeOK' /\ CallsCarry' /\ SharedContended'
  BY <1>1, <1>3 DEF TypeOK, CallsCarry, SharedContended
<1>6. ReadsHold'
  BY <1>1, <1>4 DEF ReadsHold, Read, ApplicationsOf, CallsCarry, Busy
<1>7. OnePerUser'
  <2> SUFFICES ASSUME NEW e \in Users, e \notin contended
               PROVE  /\ \A v1, v2 \in GetByUserID(e)' :
                             wallets'[v1].primary /\ wallets'[v2].primary => v1 = v2
                      /\ \A m, n \in ApplicationsOf(e)' : m = n
    BY <1>1 DEF OnePerUser
  <2>1. \A m, n \in ApplicationsOf(e)' : m = n
    BY <1>1 DEF OnePerUser, ApplicationsOf
  <2>2. CASE e # u
    <3>1. \A v \in GetByUserID(e)' : v \in GetByUserID(e) /\ wallets'[v] = wallets[v]
      BY <2>2, <1>3, <1>4 DEF GetByUserID, Live
    <3> QED BY <2>1, <3>1 DEF OnePerUser
  <2>3. CASE e = u /\ SetPrimary(u, w)
    <3>1. \A v \in GetByUserID(u)' : v \in GetByUserID(u) /\ wallets'[v] # None
      BY <1>4 DEF GetByUserID, Live
    <3> QED BY <2>1, <2>3, <3>1, <1>3
  <2>4. CASE e = u /\ DisconnectWallet(u, w)
    <3>1. \A v \in GetByUserID(u)' : v \in GetByUserID(u) /\ wallets'[v] = wallets[v]
      BY <2>4, <1>3, <1>4 DEF GetByUserID, Live
    <3> QED BY <2>1, <2>4, <3>1 DEF OnePerUser
  <2> QED BY <2>2, <2>3, <2>4
<1>8. AddressHasOneOwner'
  BY <1>1, <1>4 DEF AddressHasOneOwner
<1> QED BY <1>5, <1>6, <1>7, <1>8

LEMMA ApplyInv ==
    ASSUME IInv, NEW c \in Calls, (\E u \in Users : ApplyMerchant(c, u)) \/ ApplyInsert(c)
    PROVE  IInv'
<1> USE DEF IInv
<1>1. ASSUME NEW u \in Users, ApplyMerchant(c, u) PROVE IInv'
  <2> DEFINE r == [Idle EXCEPT !.pc = "apply", !.user = u]
  <2>1. r \in Record /\ r.pc = "apply" /\ r.user = u
    BY DEF Idle, Record
  <2>2. /\ Ends(c) \/ (Becomes(c, r) /\ ApplicationsOf(u) = {})
        /\ UNCHANGED <<users, verified, wallets, merchants>> /\ users \subseteq Users
    BY <1>1 DEF ApplyMerchant, TypeOK
  <2> HIDE DEF r
  <2>3. CASE Becomes(c, r) /\ ApplicationsOf(u) = {}
    <3>1. Read(r)
      BY <2>1, <2>3 DEF Read
    <3> QED BY <2>1, <2>2, <2>3, <3>1, ReadInv
  <2> QED BY <2>2, <2>3, OverInv
<1>2. CASE ApplyInsert(c)
  <2>2. /\ calls[c].pc = "apply" /\ Becomes(c, Idle) /\ UNCHANGED <<users, verified, wallets>>
    BY <1>2 DEF ApplyInsert, Ends
  <2>3. PICK u \in Users : u = calls[c].user
    BY <2>2 DEF CallsCarry, Busy
  <2>1. PICK m \in Applications : merchants[m] = None /\ merchants' = [merchants EXCEPT ![m] = u]
    <3>1. \E n \in ApplicationsOf(None) : TRUE
      BY <1>2 DEF ApplyInsert
    <3>2. (CHOOSE n \in ApplicationsOf(None) : TRUE) \in ApplicationsOf(None)
      BY <3>1
    <3> QED BY <1>2, <2>3, <3>2 DEF ApplyInsert, ApplicationsOf
  <2>4. Idle \in Record /\ ~Busy(Idle) /\ Idle.pc = "idle"
    BY DEF Idle, Record, Busy
  <2>5. /\ SharedContended' /\ contended \subseteq contended' /\ calls'[c] = Idle
        /\ contended' \subseteq Users \cup Addresses
        /\ \A d \in Calls : d # c => calls'[d] = calls[d]
    BY <2>2, <2>4, BecomesShares
  <2>6. TypeOK' /\ CallsCarry'
    BY <2>1, <2>2, <2>3, <2>4, <2>5 DEF TypeOK, CallsCarry, Becomes, Record
  <2>7. /\ \A e \in Users : e # u => ApplicationsOf(e)' = ApplicationsOf(e)
        /\ ApplicationsOf(u)' \subseteq ApplicationsOf(u) \cup {m}
        /\ \A e : GetByUserID(e)' = GetByUserID(e)
        /\ \A b : GetByAddress(b)' = GetByAddress(b)
    BY <2>1, <2>2, <2>3, AccountsAssumption DEF ApplicationsOf, TypeOK, GetByUserID, GetByAddress, Live
  <2>8. \A d \in Calls : d # c /\ Busy(calls[d]) /\ calls[d].user = u => u \in contended
    BY <2>2, <2>3 DEF SharedContended, Holds, Busy
  <2>9. ReadsHold'
    <3> SUFFICES ASSUME NEW d \in Calls, NEW r, r = calls'[d] PROVE Read(r)'
      BY DEF ReadsHold, Read
    <3>1. CASE d = c
      BY <3>1, <2>4, <2>5 DEF Read
    <3>2. CASE d # c
      <4>1. r = calls[d] /\ Read(r) /\ (Busy(r) => r.user \in Users)
        BY <3>2, <2>5 DEF ReadsHold, CallsCarry
      <4>2. Busy(r) /\ r.user = u => u \in contended
        BY <3>2, <4>1, <2>8
      <4>3. r.pc = "apply" => ApplicationsOf(r.user)' = {} \/ r.user \in contended'
        BY <4>1, <4>2, <2>5, <2>7 DEF Read, Busy
      <4>4. /\ GetByUserID(r.user)' = GetByUserID(r.user)
            /\ GetByAddress(r.addr)' = GetByAddress(r.addr)
        BY <2>2 DEF GetByUserID, GetByAddress, Live
      <4> QED BY <4>1, <4>3, <4>4, <2>5 DEF Read
    <3> QED BY <3>1, <3>2
  <2>10. OnePerUser'
    <3> SUFFICES ASSUME NEW e \in Users, e \notin contended'
                 PROVE  /\ \A v1, v2 \in GetByUserID(e)' :
                               wallets'[v1].primary /\ wallets'[v2].primary => v1 = v2
                        /\ \A n1, n2 \in ApplicationsOf(e)' : n1 = n2
      BY DEF OnePerUser
    <3>1. e \notin contended
      BY <2>5
    <3>2. \A v1, v2 \in GetByUserID(e)' :
              wallets'[v1].primary /\ wallets'[v2].primary => v1 = v2
      BY <3>1, <2>2, <2>7 DEF OnePerUser
    <3>3. CASE e # u
      BY <3>1, <3>2, <3>3, <2>7 DEF OnePerUser
    <3>4. CASE e = u
      <4>1. ApplicationsOf(u) = {}
        BY <3>1, <3>4, <2>2, <2>3 DEF ReadsHold, Read
      <4> QED BY <3>2, <3>4, <4>1, <2>7
    <3> QED BY <3>3, <3>4
  <2>11. AddressHasOneOwner'
    BY <2>5, <2>7 DEF AddressHasOneOwner
  <2> QED BY <2>5, <2>6, <2>9, <2>10, <2>11
<1> QED BY <1>1, <1>2

LEMMA StepPreserves == IInv /\ [Next]_vars => IInv'
<1> SUFFICES ASSUME IInv, [Next]_vars PROVE IInv'
  OBVIOUS
<1>1. ASSUME NEW c \in Calls, NEW u \in Users, NEW a \in Addresses,
             RegisterBegin(c, u, a) \/ ConnectBegin(c, u, a)
      PROVE  IInv'
  BY <1>1, RegisterInv, ConnectInv
<1>2. ASSUME NEW c \in Calls, RegisterAddress(c) \/ RegisterUser(c) \/ RegisterWallet(c)
      PROVE  IInv'
  BY <1>2, RegisterInv
<1>3. ASSUME NEW c \in Calls, ConnectLookup(c) PROVE IInv'
  BY <1>3, ConnectInv
<1>4. ASSUME NEW c \in Calls, ConnectInsert(c) PROVE IInv'
  BY <1>4, ConnectInsertInv
<1>5. ASSUME NEW c \in Calls, ApplyInsert(c) PROVE IInv'
  BY <1>5, ApplyInv
<1>6. ASSUME NEW c \in Calls, NEW u \in Users, ApplyMerchant(c, u) PROVE IInv'
  BY <1>6, ApplyInv
<1>7. ASSUME NEW u \in Users, NEW w \in Wallets, SetPrimary(u, w) \/ DisconnectWallet(u, w)
      PROVE  IInv'
  BY <1>7, ChooseInv
<1>8. ASSUME NEW u \in Users, Verified(u) PROVE IInv'
  BY <1>8 DEF Verified, IInv, TypeOK, CallsCarry, SharedContended, ReadsHold, Read, OnePerUser,
              AddressHasOneOwner, GetByUserID, GetByAddress, Live, ApplicationsOf
<1>9. CASE UNCHANGED vars
  BY <1>9 DEF vars, IInv, TypeOK, CallsCarry, SharedContended, ReadsHold, Read, OnePerUser,
              AddressHasOneOwner, GetByUserID, GetByAddress, Live, ApplicationsOf
<1> QED BY <1>1, <1>2, <1>3, <1>4, <1>5, <1>6, <1>7, <1>8, <1>9 DEF Next

-----------------------------------------------------------------------------
\* The inductive invariant holds in every reachable state.
THEOREM AccountsInvariance == Spec => []IInv
  BY InitEstablishes, StepPreserves, PTL DEF Spec

\* A user whose calls never overlap has one primary wallet and one merchant at
\* most, although no unique index says so.
THEOREM OnePerUserCorrect == Spec => []OnePerUser
<1>1. IInv => OnePerUser
  BY DEF IInv
<1> QED BY <1>1, AccountsInvariance, PTL

\* ConnectWallet gives an address to one user only, unless two calls about it
\* overlap.
THEOREM OwnerCorrect == Spec => []AddressHasOneOwner
<1>1. IInv => AddressHasOneOwner
  BY DEF IInv
<1> QED BY <1>1, AccountsInvariance, PTL

=============================================================================
