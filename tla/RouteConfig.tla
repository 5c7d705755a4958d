----------------------------- MODULE RouteConfig -----------------------------
(***************************************************************************)
(* The on-chain configuration of one route, as administrators read and     *)
(* change it: RegisterAdapter, SetDefaultBridgeType, the four Set...Config  *)
(* operations, ConfigureStargateE2E, AutoFix and Preflight.                *)
(*                                                                         *)
(* Every operation is a script of reads and transactions, all signed by    *)
(* one owner key. sendTx returns the hash as soon as the node has accepted *)
(* the transaction and never waits for it to be mined, so a later step may *)
(* still read the old state; and calls that overlap compete for nonces.    *)
(***************************************************************************)
EXTENDS Integers, Sequences, FiniteSets

CONSTANTS
    Calls,          \* calls of the administrators' endpoints that may overlap
    Ops,            \* what each of them may ask for: records of Op
    InitAdapters,   \* the registrations that the route may start with
    Others,         \* adapters that are not the active contract of the database
    Deployed,       \* active adapter contracts of the source chain
    HasSetChainConfig,  \* does the CCIP adapter's ABI have setChainConfig?
    Quoted,         \* bridges whose fee quotes may be healthy
    Outages,        \* sets of reads of one GetStatus that may fail together
    MaxAttempts,    \* maxAttempts of sendTx (4 in the code)
    MaxFaults       \* bound: reverts, replacements, changes of quotes, failed reads

Bridges == 0 .. 3
Unset == 9          \* an AutoFix request without bridgeType

\* The reads of GetStatus whose errors it ignores: has... and get... of each
\* bridge and of the default one, and whether a destination is configured. (For
\* the default one it makes no difference which of the two fails.)
Reads == ({"hasAdapter", "getAdapter", "configured"} \X Bridges) \cup {<<"default", 0>>}

Zero == "0x0"
Receiver == "receiver"   \* the contracts of the destination chain
Adapters == {"hyper", "ccip", "stargate"} \cup Others

\* A step of an operation: what it does, and for a setter the settings it sets.
Do(d) == [do |-> d, names |-> {}]

\* A setter is called if its field was given.
SetIf(d, n, asked) == IF n \in asked THEN << [do |-> d, names |-> {n}] >> ELSE <<>>

\* The setters in the order in which each operation calls them. (The compose
\* gas limit and the source vault of ConfigureStargateE2E are missing: the
\* handler does not pass the one, and resolveContext never finds the other. A
\* receiver, vault or gateway that the database cannot give is one that was not
\* asked for: its steps are left out.)
HyperSetters(d, asked) ==
    SetIf(d, "stateMachineId", asked) \o SetIf(d, "destinationContract", asked)
TokenGatewaySetters(asked) ==
    SetIf("set", "stateMachineId", asked) \o SetIf("set", "settlementExecutor", asked)
    \o SetIf("set", "nativeCost", asked) \o SetIf("set", "relayerFee", asked)
CCIPSetters(asked) ==
    SetIf("set", "chainSelector", asked) \o SetIf("set", "destinationAdapter", asked)
    \o SetIf("set", "gasLimit", asked) \o SetIf("set", "extraArgs", asked)
    \o SetIf("set", "feeToken", asked)
CCIPReceiverSetters(asked) ==
    SetIf("remote", "trustedSender", asked) \o SetIf("remote", "sourceChainAllowed", asked)
StargateSetters(asked) == SetIf("set", "route", asked) \o SetIf("set", "options", asked)
E2ESetters(asked) ==
    SetIf("setNew", "route", asked) \o SetIf("setNew", "options", asked)
    \o SetIf("setNew", "delegate", asked)
E2EReceiverSetters(asked) ==
    SetIf("remoteNew", "peer", asked) \o SetIf("remoteNew", "vaultSpender", asked)
    \o SetIf("remoteNew", "gatewayAdapter", asked)

Names == {"stateMachineId", "destinationContract", "settlementExecutor", "nativeCost",
          "relayerFee", "chainSelector", "destinationAdapter", "gasLimit", "extraArgs",
          "feeToken", "trustedSender", "sourceChainAllowed", "route", "options",
          "delegate", "peer", "vaultSpender", "gatewayAdapter"}
Flags == {"register", "default"}   \* of ConfigureStargateE2E

\* The fields of each operation's input.
InputFields(o) ==
    IF o.kind = "AutoFix" \/ (o.kind = "Config" /\ o.b = 0)
      THEN {"stateMachineId", "destinationContract"}
    ELSE IF o.kind = "Config" /\ o.b = 1
      THEN {"chainSelector", "destinationAdapter", "gasLimit", "extraArgs", "feeToken",
            "trustedSender", "sourceChainAllowed"}
    ELSE IF o.kind = "Config" /\ o.b = 2 THEN {"route", "options"}
    ELSE IF o.kind = "Config" /\ o.b = 3
      THEN {"stateMachineId", "settlementExecutor", "nativeCost", "relayerFee"}
    ELSE IF o.kind = "E2E"
      THEN Flags \cup {"route", "options", "delegate", "peer", "vaultSpender", "gatewayAdapter"}
    ELSE {}

Kinds == {"none", "Preflight", "Register", "SetDefault", "Config", "E2E", "AutoFix"}

Op == [kind : Kinds, b : Bridges \cup {Unset}, addr : Adapters \cup {Zero},
       names : SUBSET (Names \cup Flags)]

\* A request carries the fields of its operation; only AutoFix may leave the
\* bridge open, and RegisterAdapter refuses the zero address.
ASSUME OpsAssumption ==
    /\ Ops \in [Calls -> SUBSET Op]
    /\ \A c \in Calls : \A o \in Ops[c] :
          /\ o.names \subseteq InputFields(o)
          /\ o.b = Unset => o.kind = "AutoFix"
          /\ o.kind = "Register" => o.addr # Zero
ASSUME InitAdaptersAssumption == InitAdapters \subseteq [Bridges -> Adapters \cup {Zero}]
ASSUME OthersAssumption == Zero \notin Others /\ Receiver \notin Others
ASSUME DeployedAssumption == Deployed \subseteq {"hyper", "ccip", "stargate"}
ASSUME RouteBoundsAssumption == MaxAttempts \in Nat \ {0} /\ MaxFaults \in Nat
ASSUME QuotedAssumption == Quoted \subseteq Bridges
ASSUME OutagesAssumption == Outages \subseteq SUBSET Reads
ASSUME SetChainConfigAssumption == HasSetChainConfig \in BOOLEAN

VARIABLES
    adapter,        \* router: the adapter of each bridge type
    default,        \* gateway: the default bridge type
    settings,       \* adapters and receiver: which of their settings are set
    quotes,         \* bridges whose fee quote (and vault authorisation) is healthy
    pool, mined,    \* per chain: accepted transactions of the owner, number mined
    pc, op, at,     \* per call: state, request, position in its script
    view,           \* what GetStatus returned to it
    target,         \* the adapter that it configures
    nonce, tries,   \* of the transaction that it is sending
    issues,         \* Preflight: RecheckRoute found something wrong
    executable,     \* Preflight: policyExecutable
    changed,        \* history: Preflights during which something changed
    disturbed,      \* history: calls since whose start another's transaction was mined
    spoilt,         \* history: calls with a transaction that reverted or was replaced
    misread,        \* history: calls that went on although a read had failed
    faults          \* history: reverts, replacements, changes of quotes, failed reads

route == <<adapter, default, settings, quotes>>
chains == <<pool, mined>>
locals == <<view, target, nonce, tries, issues, executable>>
history == <<changed, disturbed, spoilt, misread>>
routeVars == <<route, chains, pc, op, at, locals, history, faults>>

NoOp == [kind |-> "none", b |-> 0, addr |-> Zero, names |-> {}]

NoView == [default |-> 0, adapter |-> [b \in Bridges |-> Zero], registered |-> {},
           atDefault |-> FALSE, configured |-> {}]

\* A route on which some adapters of the database have been registered.
RouteInit ==
    /\ adapter \in InitAdapters
    /\ default = 0
    /\ settings = {}
    /\ quotes = Quoted
    /\ pool = [n \in {"source", "dest"} |-> <<>>]
    /\ mined = [n \in {"source", "dest"} |-> 0]
    /\ pc = [c \in Calls |-> "idle"]
    /\ op = [c \in Calls |-> NoOp]
    /\ at = [c \in Calls |-> 0]
    /\ view = [c \in Calls |-> NoView]
    /\ target = [c \in Calls |-> Zero]
    /\ nonce = [c \in Calls |-> 0]
    /\ tries = [c \in Calls |-> 0]
    /\ issues = [c \in Calls |-> FALSE]
    /\ executable = [c \in Calls |-> FALSE]
    /\ changed = {} /\ disturbed = {} /\ spoilt = {} /\ misread = {}
    /\ faults = 0

Fault == faults < MaxFaults /\ faults' = faults + 1

\* A read of call c is answered, or its error goes unnoticed.
Answered(c, up) ==
    IF up THEN UNCHANGED <<misread, faults>> ELSE Fault /\ misread' = misread \cup {c}

-----------------------------------------------------------------------------
(* Scripts *)

\* Selector and destination go into one transaction where the ABI allows it.
CCIPConfig(asked) ==
    LET both == {"chainSelector", "destinationAdapter"}
        rest == IF HasSetChainConfig /\ both \subseteq asked THEN asked \ both ELSE asked
    IN  (IF rest # asked THEN << [do |-> "set", names |-> both] >> ELSE <<>>)
        \o CCIPSetters(rest) \o CCIPReceiverSetters(asked)

\* GetStatus, RecheckRoute; GetStatus again for the rows.
Preflight == << Do("readDefault"), Do("readRest"), Do("recheck"),
                Do("readDefault"), Do("readRest"), Do("rows") >>

\* Faulty variant: the default bridge is switched first.
AutoFixDefaultFirst ==
    << Do("readDefault"), Do("readRest"), Do("default"), Do("register"), Do("hyperbridge") >>

AutoFix ==
    << Do("readDefault"), Do("readRest"), Do("register"), Do("default"), Do("hyperbridge") >>

ConfigureStargateE2E(asked) ==
    (IF "default" \in asked THEN << Do("sender"), Do("register"), Do("default") >>
                            ELSE << Do("sender"), Do("register") >>)
    \o (E2ESetters(asked) \o E2EReceiverSetters(asked))

SetConfig(b, asked) ==
    << Do("find") >> \o (IF b = 0 THEN HyperSetters("set", asked)
                        ELSE IF b = 1 THEN CCIPConfig(asked)
                        ELSE IF b = 2 THEN StargateSetters(asked)
                        ELSE TokenGatewaySetters(asked))

Script(o) ==
    IF o.kind = "Preflight" THEN Preflight
    ELSE IF o.kind = "Register" THEN << Do("register") >>
    ELSE IF o.kind = "SetDefault" THEN << Do("default") >>
    ELSE IF o.kind = "AutoFix" THEN AutoFix \o HyperSetters("setHyper", o.names)
    ELSE IF o.kind = "E2E" THEN ConfigureStargateE2E(o.names)
    ELSE SetConfig(o.b, o.names)

Scripts == [o \in UNION {Ops[c] : c \in Calls} |-> Script(o)]

Step(c) == Scripts[op[c]][at[c]]

\* The bridge that a call is about: AutoFix may leave it to the route's default.
Bridge(c) == IF op[c].b = Unset THEN view[c].default ELSE op[c].b

\* At step d of a call that is running.
AtStep(c, d) == pc[c] = "running" /\ at[c] <= Len(Scripts[op[c]]) /\ Step(c).do = d

Advance(c) == at' = [at EXCEPT ![c] = @ + 1]

-----------------------------------------------------------------------------
(* Reads *)

\* What isChainConfigured, isRouteConfigured and the CCIP test look at.
Required(b) == IF b = 0 THEN {"stateMachineId", "destinationContract"}
               ELSE IF b = 1 THEN {"chainSelector", "destinationAdapter"}
               ELSE {"route"}

Configured(b) == adapter[b] # Zero /\ \A n \in Required(b) : <<adapter[b], n>> \in settings

Begin(c, o) ==
    /\ pc[c] = "idle"
    /\ pc' = [pc EXCEPT ![c] = "running"]
    /\ op' = [op EXCEPT ![c] = o]
    /\ at' = [at EXCEPT ![c] = 1]
    /\ UNCHANGED <<route, chains, locals, history, faults>>

\* GetStatus asks for the default bridge type, then for all the rest.
ReadDefault(c) ==
    /\ AtStep(c, "readDefault")
    /\ view' = [view EXCEPT ![c] = [NoView EXCEPT !.default = default]]
    /\ Advance(c)
    /\ UNCHANGED <<route, chains, pc, op, target, nonce, tries, issues, executable,
                   history, faults>>

\* What GetStatus returns if the reads in lost fail: no adapter, or one that is
\* not configured. The configuration is read only where an adapter was found.
StatusRead(d, lost) ==
    LET got(r, b) == <<r, b>> \notin lost
        address == [b \in Bridges |-> IF got("getAdapter", b) THEN adapter[b] ELSE Zero]
        found == {b \in Bridges : got("hasAdapter", b) /\ address[b] # Zero}
    IN  [default |-> d, adapter |-> address, registered |-> found,
         atDefault |-> got("default", 0) /\ adapter[d] # Zero,
         configured |-> {b \in found \cap 0 .. 2 : got("configured", b) /\ Configured(b)}]

ReadRest(c) ==
    /\ AtStep(c, "readRest")
    /\ \E lost \in Outages \cup {{}} :
          /\ Answered(c, lost = {})
          /\ view' = [view EXCEPT ![c] = StatusRead(@.default, lost)]
    /\ Advance(c)
    /\ UNCHANGED <<route, chains, pc, op, target, nonce, tries, issues, executable,
                   changed, disturbed, spoilt>>

\* The fee of a small payment can be quoted, by some node of the chain, and
\* the adapter may use the vault. No answer is a bad answer.
FeeQuoteHealthy(b, up) == up /\ b \in quotes

\* Faulty variant: the destination of the bridge is not looked at.
RouteIssuesUnconfigured(v, up) == ~v.atDefault \/ ~FeeQuoteHealthy(v.default, up)

\* RecheckRoute: anything wrong with the default bridge. There is no test of
\* the destination for bridge type 3.
RouteIssues(v, up) == \/ ~v.atDefault
                      \/ v.default \in 0 .. 2 /\ v.default \notin v.configured
                      \/ ~FeeQuoteHealthy(v.default, up)

Recheck(c) ==
    /\ AtStep(c, "recheck")
    /\ \E up \in BOOLEAN :
          /\ Answered(c, up)
          /\ issues' = [issues EXCEPT ![c] = RouteIssues(view[c], up)]
    /\ Advance(c)
    /\ UNCHANGED <<route, chains, pc, op, view, target, nonce, tries, executable,
                   changed, disturbed, spoilt>>

\* buildPreflightRow
RowReady(v, b, up) ==
    b \in v.registered /\ b \in v.configured /\ FeeQuoteHealthy(b, up)

\* The rows of bridges 0, 1 and 2; the one of the default bridge decides.
Rows(c) ==
    /\ AtStep(c, "rows")
    /\ \E up \in BOOLEAN :
          /\ Answered(c, up)
          /\ executable' = [executable EXCEPT ![c] =
                 \E b \in 0 .. 2 : b = view[c].default /\ RowReady(view[c], b, up)]
    /\ Advance(c)
    /\ UNCHANGED <<route, chains, pc, op, view, target, nonce, tries, issues,
                   changed, disturbed, spoilt>>

\* getAdapter: the adapter that a Set...Config will configure.
FindAdapter(c) ==
    /\ AtStep(c, "find")
    /\ adapter[op[c].b] # Zero
    /\ target' = [target EXCEPT ![c] = adapter[op[c].b]]
    /\ Advance(c)
    /\ UNCHANGED <<route, chains, pc, op, view, nonce, tries, issues, executable,
                   history, faults>>

\* AutoFix goes on to SetHyperbridgeConfig, which asks the router again.
FindHyperbridge(c) ==
    /\ AtStep(c, "hyperbridge")
    /\ IF Bridge(c) # 0
         THEN at' = [at EXCEPT ![c] = Len(Scripts[op[c]]) + 1] /\ UNCHANGED target
         ELSE /\ adapter[0] # Zero
              /\ target' = [target EXCEPT ![c] = adapter[0]]
              /\ Advance(c)
    /\ UNCHANGED <<route, chains, pc, op, view, nonce, tries, issues, executable,
                   history, faults>>

\* The sender of ConfigureStargateE2E: the one given, or the one of the database
\* (if up), or the one registered.
Sender(o, up) == IF o.addr # Zero THEN o.addr
                 ELSE IF up /\ "stargate" \in Deployed THEN "stargate"
                 ELSE adapter[2]

FindSender(c) ==
    /\ AtStep(c, "sender")
    /\ adapter[2] = Zero => "register" \in op[c].names
    /\ view' = [view EXCEPT ![c] = [NoView EXCEPT !.adapter = adapter]]
    /\ \E up \in BOOLEAN :
          /\ IF up THEN UNCHANGED faults ELSE Fault
          /\ Sender(op[c], up) # Zero
          /\ target' = [target EXCEPT ![c] = Sender(op[c], up)]
    /\ Advance(c)
    /\ UNCHANGED <<route, chains, pc, op, nonce, tries, issues, executable, history>>

-----------------------------------------------------------------------------
(* Transactions *)

\* The active contract that AutoFix registers for a bridge type.
ActiveContract(b) == IF b = 1 THEN "ccip" ELSE IF b = 2 THEN "stargate" ELSE "hyper"

\* The adapter that AutoFix takes for the registered one: everything but 0 and
\* 1 counts as Stargate.
SeenAdapter(c) ==
    view[c].adapter[IF Bridge(c) \in {0, 1} THEN Bridge(c) ELSE 2]

\* Faulty variant: a registered adapter is never replaced.
RegisterSkippedIfAny(c) ==
    IF op[c].kind = "AutoFix" THEN SeenAdapter(c) # Zero
    ELSE op[c].kind = "E2E" /\ view[c].adapter[2] # Zero

\* Is the registration already as wanted?
RegisterSkipped(c) ==
    IF op[c].kind = "AutoFix" THEN SeenAdapter(c) # Zero
    ELSE /\ op[c].kind = "E2E"
         /\ view[c].adapter[2] # Zero
         /\ "register" \in op[c].names => view[c].adapter[2] = target[c]

\* Is the default bridge already as wanted? AutoFix goes by its status,
\* ConfigureStargateE2E asks again, SetDefaultBridgeType does not ask.
DefaultSkipped(c) ==
    IF op[c].kind = "AutoFix" THEN view[c].default = Bridge(c)
    ELSE op[c].kind = "E2E" /\ default = 2

\* registerDelegate is sent whatever the state; the other steps of
\* ConfigureStargateE2E are skipped when the value read is the wanted one.
SetSkipped(c) ==
    LET s == Step(c)
        on == IF s.do = "remoteNew" THEN Receiver ELSE target[c]
    IN  /\ s.do \in {"setNew", "remoteNew"}
        /\ s.names # {"delegate"}
        /\ \A n \in s.names : <<on, n>> \in settings

Setting == {"set", "setHyper", "setNew", "remote", "remoteNew"}

\* Decided once, before the first attempt to send.
Skipped(c) == /\ tries[c] = 0
              /\ \/ Step(c).do = "register" /\ RegisterSkipped(c)
                 \/ Step(c).do = "default" /\ DefaultSkipped(c)
                 \/ Step(c).do \in Setting /\ SetSkipped(c)

Transacting(c) == /\ pc[c] = "running" /\ at[c] <= Len(Scripts[op[c]])
                  /\ Step(c).do \in {"register", "default"} \cup Setting

SkipStep(c) ==
    /\ Transacting(c)
    /\ Skipped(c)
    /\ Advance(c)
    /\ UNCHANGED <<route, chains, pc, op, locals, history, faults>>

\* The transaction of the current step.
TxOf(c) ==
    IF Step(c).do = "register"
      THEN [kind |-> "adapter", b |-> IF op[c].kind = "E2E" THEN 2 ELSE Bridge(c),
            addr |-> IF op[c].kind = "AutoFix" THEN ActiveContract(Bridge(c))
                     ELSE IF op[c].kind = "E2E" THEN target[c] ELSE op[c].addr,
            names |-> {}, by |-> c]
    ELSE IF Step(c).do = "default"
      THEN [kind |-> "default", b |-> IF op[c].kind = "E2E" THEN 2 ELSE Bridge(c),
            addr |-> Zero, names |-> {}, by |-> c]
    ELSE [kind |-> "set", b |-> 0,
          addr |-> IF Step(c).do \in {"remote", "remoteNew"} THEN Receiver ELSE target[c],
          names |-> Step(c).names, by |-> c]

ChainOf(tx) == IF tx.addr = Receiver THEN "dest" ELSE "source"

\* AutoFix needs an active contract to register.
Available(c) ==
    Step(c).do = "register" /\ op[c].kind = "AutoFix" => ActiveContract(Bridge(c)) \in Deployed

\* ConfigureStargateE2E goes on if it cannot read the current value, and sets it
\* again.
SetAgain(c) == op[c].kind = "E2E" /\ Step(c).do # "register"

\* One attempt of sendTx begins: the node is asked for the pending nonce.
PickNonce(c) ==
    /\ Transacting(c)
    /\ IF Skipped(c) THEN SetAgain(c) /\ Fault ELSE UNCHANGED faults
    /\ Available(c)
    /\ tries[c] < MaxAttempts
    /\ LET n == ChainOf(TxOf(c))
       IN  nonce' = [nonce EXCEPT ![c] = mined[n] + Len(pool[n])]
    /\ tries' = [tries EXCEPT ![c] = @ + 1]
    /\ pc' = [pc EXCEPT ![c] = "sending"]
    /\ UNCHANGED <<route, chains, op, at, view, target, issues, executable, history>>

\* The node accepts the transaction, and its hash is all that is waited for.
Accepted(c) ==
    /\ pc[c] = "sending"
    /\ LET n == ChainOf(TxOf(c))
       IN  /\ nonce[c] = mined[n] + Len(pool[n])
           /\ pool' = [pool EXCEPT ![n] = Append(@, TxOf(c))]
    /\ pc' = [pc EXCEPT ![c] = "running"]
    /\ nonce' = [nonce EXCEPT ![c] = 0]
    /\ tries' = [tries EXCEPT ![c] = 0]
    /\ Advance(c)
    /\ UNCHANGED <<route, mined, op, view, target, issues, executable, history, faults>>

\* With a higher gas price it takes the place of another's with the same nonce.
Replaces(c) ==
    /\ pc[c] = "sending"
    /\ Fault
    /\ LET n == ChainOf(TxOf(c))
           i == nonce[c] - mined[n] + 1
       IN  /\ i \in 1 .. Len(pool[n])
           /\ spoilt' = spoilt \cup {pool[n][i].by}
           /\ pool' = [pool EXCEPT ![n] = [@ EXCEPT ![i] = TxOf(c)]]
    /\ pc' = [pc EXCEPT ![c] = "running"]
    /\ nonce' = [nonce EXCEPT ![c] = 0]
    /\ tries' = [tries EXCEPT ![c] = 0]
    /\ Advance(c)
    /\ UNCHANGED <<route, mined, op, view, target, issues, executable, changed, disturbed,
                   misread>>

\* A call fails, and all that it knew is forgotten.
Abandon(c) ==
    /\ pc' = [pc EXCEPT ![c] = "failed"]
    /\ at' = [at EXCEPT ![c] = 0]
    /\ view' = [view EXCEPT ![c] = NoView]
    /\ target' = [target EXCEPT ![c] = Zero]
    /\ nonce' = [nonce EXCEPT ![c] = 0]
    /\ tries' = [tries EXCEPT ![c] = 0]
    /\ issues' = [issues EXCEPT ![c] = FALSE]
    /\ UNCHANGED <<op, executable>>

\* "nonce too low" or "replacement transaction underpriced": try again, up to
\* MaxAttempts times.
NonceTaken(c) ==
    /\ pc[c] = "sending"
    /\ LET n == ChainOf(TxOf(c)) IN nonce[c] < mined[n] + Len(pool[n])
    /\ IF tries[c] < MaxAttempts
         THEN /\ pc' = [pc EXCEPT ![c] = "running"]
              /\ nonce' = [nonce EXCEPT ![c] = 0]
              /\ UNCHANGED <<op, at, view, target, tries, issues, executable>>
         ELSE Abandon(c)
    /\ UNCHANGED <<route, chains, history, faults>>

\* The step cannot be done: an adapter or an active contract is missing.
Refused(c) ==
    \/ AtStep(c, "find") /\ adapter[op[c].b] = Zero
    \/ AtStep(c, "hyperbridge") /\ Bridge(c) = 0 /\ adapter[0] = Zero
    \/ /\ AtStep(c, "sender")
       /\ Sender(op[c], TRUE) = Zero \/ (adapter[2] = Zero /\ "register" \notin op[c].names)
    \/ Transacting(c) /\ ~Skipped(c) /\ ~Available(c)

\* The call ends, and what it has sent stays sent.
Refuse(c) ==
    /\ Refused(c)
    /\ Abandon(c)
    /\ UNCHANGED <<route, chains, history, faults>>

\* Likewise if an input is invalid, or a node or the database does not answer and
\* the error is not ignored.
Fail(c) ==
    /\ pc[c] \in {"running", "sending"}
    /\ at[c] <= Len(Scripts[op[c]])
    /\ Abandon(c)
    /\ UNCHANGED <<route, chains, history, faults>>

Finish(c) ==
    /\ pc[c] = "running"
    /\ at[c] > Len(Scripts[op[c]])
    /\ pc' = [pc EXCEPT ![c] = "ok"]
    /\ UNCHANGED <<route, chains, op, at, locals, history, faults>>

-----------------------------------------------------------------------------
(* The chains *)

\* The calls that a change may concern: a Preflight while it runs, any other
\* also after it has succeeded.
Reading == {c \in Calls : op[c].kind = "Preflight" /\ pc[c] = "running"}
Writing == {c \in Calls : op[c].kind # "Preflight" /\ pc[c] \in {"running", "sending", "ok"}}

\* What a transaction does when it is mined.
Apply(tx) ==
    /\ adapter' = IF tx.kind = "adapter" THEN [adapter EXCEPT ![tx.b] = tx.addr] ELSE adapter
    /\ default' = IF tx.kind = "default" THEN tx.b ELSE default
    /\ settings' = IF tx.kind = "set" THEN settings \cup ({tx.addr} \X tx.names) ELSE settings

\* The owner's transactions are mined in the order of their nonces.
Mine(n) ==
    /\ pool[n] # <<>>
    /\ Apply(Head(pool[n]))
    /\ pool' = [pool EXCEPT ![n] = Tail(@)]
    /\ mined' = [mined EXCEPT ![n] = @ + 1]
    /\ changed' = changed \cup Reading
    /\ disturbed' = disturbed \cup (Writing \ {Head(pool[n]).by})
    /\ UNCHANGED <<quotes, pc, op, at, locals, spoilt, misread, faults>>

Revert(n) ==
    /\ pool[n] # <<>>
    /\ Fault
    /\ pool' = [pool EXCEPT ![n] = Tail(@)]
    /\ mined' = [mined EXCEPT ![n] = @ + 1]
    /\ spoilt' = spoilt \cup {Head(pool[n]).by}
    /\ UNCHANGED <<route, pc, op, at, locals, changed, disturbed, misread>>

\* Fees, liquidity or the vault's authorisations change.
QuotesChange(b) ==
    /\ Fault
    /\ quotes' = IF b \in quotes THEN quotes \ {b} ELSE quotes \cup {b}
    /\ changed' = changed \cup Reading
    /\ UNCHANGED <<adapter, default, settings, chains, pc, op, at, locals, disturbed, spoilt,
                   misread>>

-----------------------------------------------------------------------------
Run(c) == \/ ReadDefault(c) \/ ReadRest(c) \/ Recheck(c) \/ Rows(c)
          \/ FindAdapter(c) \/ FindHyperbridge(c) \/ FindSender(c)
          \/ SkipStep(c) \/ PickNonce(c) \/ Accepted(c) \/ Replaces(c) \/ NonceTaken(c)
          \/ Refuse(c) \/ Finish(c)

RouteNext == \/ \E c \in Calls : \E o \in Ops[c] : Begin(c, o)
             \/ \E c \in Calls : Run(c) \/ Fail(c)
             \/ \E n \in {"source", "dest"} : Mine(n) \/ Revert(n)
             \/ \E b \in Quoted : QuotesChange(b)

\* A call that was received runs on: every request to a node returns. That it
\* fails is not assumed.
Fairness == \A c \in Calls : WF_routeVars(Run(c))

RouteSpec == RouteInit /\ [][RouteNext]_routeVars /\ Fairness

-----------------------------------------------------------------------------
(* Properties *)

\* Preflight looks at the route twice, once for its issues and once for its
\* rows: if nothing changes in between and none of its reads fails unnoticed they
\* agree, for every default bridge that has a row.
PreflightAgrees ==
    \A c \in Calls :
        /\ pc[c] = "ok" /\ op[c].kind = "Preflight"
        /\ c \notin changed \cup misread /\ view[c].default \in 0 .. 2
        => (executable[c] <=> ~issues[c])

\* AutoFix never makes a bridge the default that has no adapter, although it
\* does not wait for the registration: the nonces keep the order, unless a
\* transaction reverts or is replaced. (Bridge type 3 is excepted: AutoFix takes
\* the Stargate adapter for its own.)
DefaultAfterAdapter ==
    [][LET tx == Head(pool["source"])
       IN  /\ Mine("source") /\ tx.kind = "default" /\ tx.b \in 0 .. 2
           /\ op[tx.by].kind = "AutoFix" /\ tx.by \notin spoilt
           => adapter[tx.b] # Zero]_routeVars

\* What a call that reported success has asked for.
Achieved(c) ==
    LET o == op[c]
        b == IF o.kind = "E2E" THEN 2 ELSE Bridge(c)
        configures == \/ o.kind = "Config"
                      \/ o.kind = "AutoFix" /\ b = 0
                      \/ o.kind = "E2E" /\ "register" \in o.names
        remote == {"trustedSender", "sourceChainAllowed", "peer", "vaultSpender", "gatewayAdapter"}
    IN  /\ o.kind = "Register" => adapter[b] = o.addr
        /\ o.kind = "AutoFix" /\ b \in 0 .. 2 => adapter[b] # Zero
        /\ o.kind \in {"SetDefault", "AutoFix"} \/ (o.kind = "E2E" /\ "default" \in o.names)
              => default = b
        /\ configures => \A n \in (o.names \cap Names) \ remote : <<adapter[b], n>> \in settings
        /\ \A n \in o.names \cap remote : <<Receiver, n>> \in settings

\* A call that reported success, whose transactions have been mined and that
\* nobody disturbed has left the route as it was asked to, although each of its
\* steps may have read the state before the last one was mined. This also holds
\* where ConfigureStargateE2E ignored errors of its reads, but not for an AutoFix
\* whose status was incomplete: it registers the active contract once more, and
\* configures the adapter that it replaces.
SuccessIsAchieved ==
    \A c \in Calls :
        /\ pc[c] = "ok" /\ c \notin disturbed \cup spoilt \cup misread
        /\ \A n \in {"source", "dest"} : \A i \in 1 .. Len(pool[n]) : pool[n][i].by # c
        => Achieved(c)

=============================================================================
