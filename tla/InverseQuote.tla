---------------------------- MODULE InverseQuote ----------------------------
(***************************************************************************)
(* solveRequiredInputForTargetOutput: how much of the payer's token has to *)
(* be asked for so that the merchant receives the invoiced amount. The     *)
(* on-chain quoter only answers the opposite question, so the code probes  *)
(* it: once with the target itself, then doubling until the output is      *)
(* enough, then by binary search. Both loops are cut off after a fixed     *)
(* number of probes, and the pool may move between two of them.            *)
(***************************************************************************)
EXTENDS Integers

CONSTANTS
    Targets,        \* outputs asked for
    MaxInput,       \* the input at which the pools are exhausted
    Curves,         \* the quotes a pool can give: output for each input
    MaxDoublings,   \* maxCreatePaymentUpperBoundDoublings (32 in the code)
    MaxSearch,      \* maxCreatePaymentBinarySearchIterations (64 in the code)
    MaxMoves        \* bound: how often the pool moves during one solution

ASSUME MaxInputAssumption == MaxInput \in Nat \ {0}
ASSUME TargetsAssumption == Targets \subseteq Nat \ {0}
ASSUME CurvesAssumption == Curves \subseteq [1 .. MaxInput -> Nat]
ASSUME LimitsAssumption == MaxDoublings \in Nat /\ MaxSearch \in Nat /\ MaxMoves \in Nat

VARIABLES
    target,         \* the output that is asked for
    curve,          \* what the pool quotes now
    stage,          \* where the solver is
    low, high,      \* the interval of inputs under consideration
    iter,           \* iterations of the current loop
    result,         \* the required input that is returned
    source,         \* what it comes from
    enough,         \* history: inputs that a probe found to be enough
    floor, span,    \* history: low, and high - low, when the binary search began
    moves           \* history: how often the pool moved

solverVars == <<target, curve, stage, low, high, iter, result, source, enough, floor, span, moves>>

Stages == {"start", "anchor", "upper", "search", "done", "failed"}
Sources == {"none", "preview", "anchor", "search"}

SolverTypeOK ==
    /\ target \in Targets
    /\ curve \in Curves
    /\ stage \in Stages
    /\ low \in Nat \ {0} /\ high \in Nat \ {0}
    /\ iter \in Nat
    /\ result \in Nat
    /\ source \in Sources
    /\ enough \subseteq Nat \ {0}
    /\ floor \in Nat /\ span \in Nat
    /\ moves \in Nat

\* The quoted output for input x. Errors that shouldTreatQuoteProbeAsZero
\* accepts count as a quote of 0.
Output(x) == curve[IF x <= MaxInput THEN x ELSE MaxInput]

SolverInit ==
    /\ target \in Targets
    /\ curve \in Curves
    /\ stage = "start"
    /\ low = 1 /\ high = target
    /\ iter = 0
    /\ result = 0
    /\ source = "none"
    /\ enough = {}
    /\ floor = 0 /\ span = 0
    /\ moves = 0

\* The answer of a probe is remembered if it is enough.
Seen(x) == enough' = IF Output(x) >= target THEN enough \cup {x} ELSE enough

Return(x, s) == stage' = "done" /\ result' = x /\ source' = s

-----------------------------------------------------------------------------
\* PreviewRequiredInputForOutput answers directly.
InversePreview(x) ==
    /\ stage = "start"
    /\ Return(x, "preview")
    /\ UNCHANGED <<target, curve, low, high, iter, enough, floor, span, moves>>

\* It fails, answers nothing usable, or is skipped in favour of dry runs.
NoInversePreview ==
    /\ stage = "start"
    /\ stage' = "anchor"
    /\ UNCHANGED <<target, curve, low, high, iter, result, source, enough, floor, span, moves>>

\* The input at which a linear pool would give the target, rounded up.
Guess(out) == (target * target + out - 1) \div out

AtLeastOne(x) == IF x <= 0 THEN 1 ELSE x

\* The first probe asks with the target itself, and centres the interval on
\* the guess; an exact answer ends the search.
AnchorProbe ==
    /\ stage = "anchor"
    /\ Output(target) > 0
    /\ Seen(target)
    /\ IF Output(target) = target
         THEN Return(target, "anchor") /\ UNCHANGED <<low, high>>
         ELSE /\ low' = AtLeastOne(Guess(Output(target)) \div 2)
              /\ high' = AtLeastOne(Guess(Output(target)) * 2)
              /\ stage' = "upper"
              /\ UNCHANGED <<result, source>>
    /\ UNCHANGED <<target, curve, iter, floor, span, moves>>

\* The first probe gives 0 or an error, which is not reported: the interval
\* stays as it was initialised.
AnchorUseless ==
    /\ stage = "anchor"
    /\ stage' = "upper"
    /\ UNCHANGED <<target, curve, low, high, iter, result, source, enough, floor, span, moves>>

-----------------------------------------------------------------------------
\* One iteration of the first loop.
UpperBoundProbe ==
    /\ stage = "upper"
    /\ iter < MaxDoublings
    /\ Seen(high)
    /\ IF Output(high) >= target
         THEN /\ stage' = "search" /\ iter' = 0
              /\ floor' = low /\ span' = high - low
              /\ UNCHANGED high
         ELSE /\ high' = high * 2 /\ iter' = iter + 1
              /\ UNCHANGED <<stage, floor, span>>
    /\ UNCHANGED <<target, curve, low, result, source, moves>>

NoUpperBound ==
    /\ stage = "upper"
    /\ iter >= MaxDoublings
    /\ stage' = "failed"
    /\ UNCHANGED <<target, curve, low, high, iter, result, source, enough, floor, span, moves>>

Searching == stage = "search" /\ iter < MaxSearch /\ low < high

Mid == AtLeastOne((low + high) \div 2)

\* Faulty variant: the bound moves past the probe that was enough.
NarrowPastMid == IF Output(Mid) >= target
                   THEN high' = Mid - 1 /\ UNCHANGED low
                   ELSE low' = Mid + 1 /\ UNCHANGED high

\* Faulty variant: an exact answer is taken for too little.
NarrowStrictly == IF Output(Mid) > target
                    THEN high' = Mid /\ UNCHANGED low
                    ELSE low' = Mid + 1 /\ UNCHANGED high

\* Faulty variant: a probe that was too little stays in the interval.
NarrowKeepingMid == IF Output(Mid) >= target
                      THEN high' = Mid /\ UNCHANGED low
                      ELSE low' = Mid /\ UNCHANGED high

\* The half that is kept.
Narrow == IF Output(Mid) >= target
            THEN high' = Mid /\ UNCHANGED low
            ELSE low' = Mid + 1 /\ UNCHANGED high

\* One iteration of the second loop.
BinarySearchProbe ==
    /\ Searching
    /\ Seen(Mid)
    /\ Narrow
    /\ iter' = iter + 1
    /\ UNCHANGED <<target, curve, stage, result, source, floor, span, moves>>

\* The search has converged or used up its probes.
SearchEnds ==
    /\ stage = "search"
    /\ ~Searching
    /\ Return(high, "search")
    /\ UNCHANGED <<target, curve, low, high, iter, enough, floor, span, moves>>

\* A probe of either loop reports an error.
ProbeFails ==
    /\ (stage = "upper" /\ iter < MaxDoublings) \/ Searching
    /\ stage' = "failed"
    /\ UNCHANGED <<target, curve, low, high, iter, result, source, enough, floor, span, moves>>

\* Other trades change what the pool quotes.
PoolMoves ==
    /\ stage \in {"anchor", "upper", "search"}
    /\ moves < MaxMoves
    /\ moves' = moves + 1
    /\ curve' \in Curves \ {curve}
    /\ UNCHANGED <<target, stage, low, high, iter, result, source, enough, floor, span>>

-----------------------------------------------------------------------------
Solve == \/ \E x \in 1 .. MaxInput : InversePreview(x)
         \/ NoInversePreview
         \/ AnchorProbe
         \/ AnchorUseless
         \/ UpperBoundProbe
         \/ NoUpperBound
         \/ BinarySearchProbe
         \/ SearchEnds
         \/ ProbeFails

SolverNext == Solve \/ PoolMoves

\* The solver is straight-line code in one request; every probe returns.
SolverSpec == SolverInit /\ [][SolverNext]_solverVars /\ WF_solverVars(Solve)

-----------------------------------------------------------------------------
(* Properties *)

\* What is returned from the search or the anchor was quoted, by some probe, to
\* be enough: neither loop returns an untested bound, however it ends.
ResultWasEnough ==
    stage = "done" /\ source \in {"anchor", "search"} => result \in enough

Monotone == \A x, y \in 1 .. MaxInput : x <= y => curve[x] <= curve[y]

\* If the pool is monotone and did not move, a converged search returns the
\* least sufficient input of the interval it began with.
LeastWhenSteady ==
    stage = "done" /\ source = "search" /\ moves = 0 /\ low = high /\ Monotone =>
        /\ Output(result) >= target
        /\ \A x \in floor .. result - 1 : Output(x) < target

\* The search converges in the number of probes it has, if the interval it
\* began with is narrower than 2^64 (2^MaxSearch).
SearchConverges ==
    stage = "done" /\ source = "search" /\ span < 2 ^ MaxSearch => low = high

\* The arithmetic of the powers of two below 2^MaxSearch.
PowersDouble ==
    /\ 2 ^ 0 = 1
    /\ \A n \in 0 .. MaxSearch - 1 : 2 ^ n \in Nat /\ 2 ^ (n + 1) = 2 * 2 ^ n

=============================================================================
