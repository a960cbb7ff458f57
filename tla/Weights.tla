------------------------------ MODULE Weights -------------------------------
(***************************************************************************)
(* The weights of instances on the client: InstancesInfo.UseScheduler of   *)
(* naming/naming.go and newAddress of naming/grpc/resolver.go.             *)
(*                                                                         *)
(* Every Fetch of an appid returns the same InstancesInfo, until a poll    *)
(* brings another, and UseScheduler writes the weights it computes into    *)
(* the metadata of the instances in it: the next call, and a grpc resolver *)
(* of the appid, start from them.  An instance is its weight, with NoMap   *)
(* for one whose Metadata is nil; a weight of zero is one that is missing  *)
(* or no number.  Integers go from -Half to Half - 1 (Half is 2^63 in the  *)
(* code).  A loop over a sequence is the function of its values: at i, the *)
(* value after i turns.                                                    *)
(***************************************************************************)
EXTENDS Integers, FiniteSets, Sequences, SequencesExt

CONSTANTS Zones,
          Weight0,        \* the weights that instances register with
          MaxInstances,   \* bound on the instances of a zone
          Shares,         \* the weights that a schedule may give a zone
          DefaultWeight,  \* 10 in the code
          Half,
          MaxCalls        \* bound on the calls of UseScheduler

ASSUME WeightsAssumption ==
  /\ IsFiniteSet(Zones) /\ MaxInstances \in Nat /\ MaxCalls \in Nat
  /\ Half \in Nat \ {0} /\ DefaultWeight \in 1..(Half - 1)
  /\ Weight0 \subseteq 0..(Half - 1) /\ Shares \subseteq 0..(Half - 1)

VARIABLES
  weights,   \* InstancesInfo.Instances, by zone; none is << >>
  dst,       \* the Dst of the scheduler entry for the client's zone
  first,     \* the weights that came with the poll
  calls, outcome,
  overflow,  \* whether a call of UseScheduler left the range of integers
  addrs      \* what newAddress made last, of which instances

vars == <<weights, dst, first, calls, outcome, overflow, addrs>>

NoMap == -1
NoAddress == [inss |-> << >>, skipped |-> {}, told |-> << >>]

Init ==
  /\ weights \in [Zones -> UNION {[1..n -> Weight0 \cup {NoMap}] : n \in 0..MaxInstances}]
  /\ dst \in UNION {[S -> Shares] : S \in SUBSET Zones}
  /\ first = weights
  /\ calls = 0 /\ outcome = "none" /\ overflow = FALSE
  /\ addrs = NoAddress

-----------------------------------------------------------------------------
Integer == -Half..(Half - 1)

Wrap(n) == ((n + Half) % (2 * Half)) - Half

\* Go's division truncates.
Abs(n) == IF n < 0 THEN -n ELSE n
Quotient(a, b) ==
  LET q == Abs(a) \div Abs(b)
  IN IF (a < 0) # (b < 0) THEN -q ELSE q

\* Mutant: a weight of zero counts.
EffectiveFromZero(w) == IF w < 0 THEN DefaultWeight ELSE w

Effective(w) == IF w <= 0 THEN DefaultWeight ELSE w

\* totalWeight, over the instances of a zone.
Totals(s) ==
  LET total[i \in 0..Len(s)] ==
        IF i = 0 THEN 0 ELSE Wrap(total[i - 1] + Effective(s[i]))
  IN total

ZoneTotal(z) == Totals(weights[z])[Len(weights[z])]

\* comMulti, over the zones of the schedule in the order of its map.
Products(order) ==
  LET product[i \in 0..Len(order)] ==
        IF i = 0 THEN 1 ELSE Wrap(product[i - 1] * ZoneTotal(order[i]))
  IN product

Product(order) == Products(order)[Len(order)]

\* Mutant: the product leaves out the zone's own total, and the quotient is
\* taken all the same.
FixWeightOfShare(z, order) == Quotient(dst[z], ZoneTotal(z))

\* What the weights of a zone are multiplied with, when no zone is a gap.
FixWeight(z, order) == Quotient(Wrap(dst[z] * Product(order)), ZoneTotal(z))

\* Mutant: the correction is added.
RescaledBySum(w, fix) == Wrap(Effective(w) + fix)

Rescaled(w, fix) == Wrap(Effective(w) * fix)

\* No zone of the schedule has instances, or there is no schedule.
Unscheduled == \A z \in DOMAIN dst : weights[z] = << >>

\* oriWeights[i] is out of range when a zone has no instances, a total that
\* overflowed may be zero, and a nil map cannot be written.
Panics ==
  \E z \in DOMAIN dst :
    weights[z] = << >> \/ ZoneTotal(z) = 0 \/ NoMap \in Range(weights[z])

\* Whether an addition, or a multiplication, leaves the range of integers.
SumsOverflow ==
  \E z \in DOMAIN dst : \E i \in DOMAIN weights[z] :
    Totals(weights[z])[i - 1] + Effective(weights[z][i]) \notin Integer

ProductsOverflow(order) ==
  \/ \E i \in DOMAIN order : Products(order)[i - 1] * ZoneTotal(order[i]) \notin Integer
  \/ \E z \in DOMAIN dst : dst[z] * Product(order) \notin Integer

Scheduled(order) ==
  [z \in Zones |->
     IF z \in DOMAIN dst
     THEN [j \in DOMAIN weights[z] |-> Rescaled(weights[z][j], FixWeight(z, order))]
     ELSE weights[z]]

UseScheduler ==
  /\ calls < MaxCalls /\ outcome # "panic"
  /\ calls' = calls + 1
  /\ \/ /\ Unscheduled
        /\ outcome' = "unscheduled"
        /\ UNCHANGED <<weights, overflow>>
     \/ /\ ~Unscheduled /\ Panics
        /\ outcome' = "panic"
        /\ overflow' = (overflow \/ SumsOverflow)
        /\ UNCHANGED weights
     \/ /\ ~Unscheduled /\ ~Panics
        /\ outcome' = "scheduled"
        /\ \E order \in SetToSeqs(DOMAIN dst) :
             /\ overflow' = (overflow \/ SumsOverflow \/ ProductsOverflow(order))
             /\ weights' = Scheduled(order)
  /\ UNCHANGED <<dst, first, addrs>>

-----------------------------------------------------------------------------
(* The grpc resolver. *)

\* Mutant: the instance itself is counted.
AverageWithSelf(total, n) == Quotient(total, n + 1)

\* The weight of the instance with index n (from zero) that has none.
Average(total, n) == Quotient(total, n)

Told(w, total, n) ==
  IF w > 0 THEN w
  ELSE IF total = 0 THEN DefaultWeight
  ELSE Average(total, n)

\* totalWeight, over instances of which those in skipped are left out: of
\* another cluster, or without a grpc address.
AddressTotals(inss, skipped) ==
  LET total[i \in 0..Len(inss)] ==
        IF i = 0 THEN 0
        ELSE IF i \in skipped THEN total[i - 1]
        ELSE Wrap(total[i - 1] + Told(inss[i], total[i - 1], i - 1))
  IN total

\* Mutant: the slice has a place for every instance, and those that are left
\* out keep an empty address in it.
newAddressPadded(inss, skipped) ==
  LET totals == AddressTotals(inss, skipped)
  IN [i \in DOMAIN inss |-> IF i \in skipped THEN 0 ELSE Told(inss[i], totals[i - 1], i - 1)]

\* The weight in the address of every instance that has one.
newAddress(inss, skipped) ==
  LET totals == AddressTotals(inss, skipped)
  IN [i \in DOMAIN inss \ skipped |-> Told(inss[i], totals[i - 1], i - 1)]

\* An event makes the resolver read the instances of its zone, or else of all.
Resolve(z) ==
  /\ outcome # "panic"
  /\ \E order \in SetToSeqs(Zones) :
       LET inss == IF weights[z] # << >> THEN weights[z]
                   ELSE FlattenSeq([i \in DOMAIN order |-> weights[order[i]]])
       IN /\ inss # << >>
          /\ \E skipped \in SUBSET DOMAIN inss :
               addrs' = [inss |-> inss, skipped |-> skipped,
                         told |-> newAddress(inss, skipped)]
  /\ UNCHANGED <<weights, dst, first, calls, outcome, overflow>>

Next == UseScheduler \/ \E z \in Zones : Resolve(z)

Spec == Init /\ [][Next]_vars

-----------------------------------------------------------------------------
(* Properties. *)

\* Every variable keeps its type; weights stay within the integers, and the
\* resolver hands on an address for exactly the instances that are not left out.
TypeOK ==
  /\ \A z \in Zones :
       /\ Len(first[z]) <= MaxInstances
       /\ DOMAIN weights[z] = DOMAIN first[z]
       /\ Range(weights[z]) \subseteq Integer
  /\ calls \in 0..MaxCalls /\ overflow \in BOOLEAN
  /\ outcome \in {"none", "unscheduled", "scheduled", "panic"}
  /\ DOMAIN addrs.told = DOMAIN addrs.inss \ addrs.skipped
  /\ Range(addrs.told) \subseteq Integer

Sums(s) ==
  LET sum[i \in 0..Len(s)] == IF i = 0 THEN 0 ELSE sum[i - 1] + s[i]
  IN sum

Sum(s) == Sums(s)[Len(s)]

\* The zones of a schedule get their shares of the weight exactly, at the first
\* call and at every later one on the weights that the call before wrote, until
\* a sum or a product leaves the integers (UseScheduler, lines 112-129).
SharesFollowSchedule ==
  outcome = "scheduled" /\ ~overflow =>
    \A y, z \in DOMAIN dst : Sum(weights[y]) * dst[z] = Sum(weights[z]) * dst[y]

\* Within a zone the instances keep the proportions they registered with, a
\* missing weight counting as the default (UseScheduler, lines 120-129).
ProportionsKept ==
  outcome = "scheduled" /\ ~overflow =>
    \A z \in DOMAIN dst : \A i, j \in DOMAIN weights[z] :
      weights[z][i] * Effective(first[z][j]) = weights[z][j] * Effective(first[z][i])

\* UseScheduler fails only on a schedule with a zone that has no instances, on
\* an instance without metadata, and on a total that overflowed to zero: never
\* on weights that earlier calls made zero (UseScheduler, lines 85-118 and 128).
PanicsOnlyOnGaps ==
  outcome = "panic" =>
    \/ \E z \in DOMAIN dst : weights[z] = << >>
    \/ \E z \in DOMAIN dst : NoMap \in Range(weights[z])
    \/ overflow

\* When no instance is left out, and the total has not overflowed, an address
\* without a weight gets one between the least and the greatest before it, and
\* so none gets zero (newAddress, lines 129-154).
AveragesAreWithin ==
  LET told == addrs.told
      totals == AddressTotals(addrs.inss, addrs.skipped)
  IN addrs.skipped = {} =>
       \A k \in DOMAIN told :
         (\A i \in 1..(k - 1) : totals[i] = totals[i - 1] + told[i]) =>
           /\ told[k] > 0
           /\ addrs.inss[k] <= 0 /\ k > 1 =>
                /\ \E i \in 1..(k - 1) : told[k] >= told[i]
                /\ \E i \in 1..(k - 1) : told[k] <= told[i]
=============================================================================
