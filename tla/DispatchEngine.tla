--------------------------- MODULE DispatchEngine ---------------------------
(***************************************************************************)
(* The engine while it is configured: ranges and actions are added in any   *)
(* order (internal/pkg/dispatch, as bootstrapDispatcher uses it).           *)
(***************************************************************************)
EXTENDS Dispatch

CONSTANTS Bounds,     \* upper bounds that may be configured
          Values,     \* values that may be evaluated
          Flags,      \* flags of ranges
          NoFlag,     \* the flag 0
          Masks,      \* composite masks actions may be registered for
          Actions,    \* the policy actions
          NoAction,   \* no action registered
          MaxRanges   \* bound on the number of ranges (up to 12 sort.Slice is stable)

ASSUME IntegersAssumption == Bounds \subseteq Int /\ Values \subseteq Int

VARIABLES rangeBounds,  \* the sorted table
          registry,     \* [Masks -> Actions \cup {NoAction}]
          added         \* history: the ranges in the order they were added

engineVars == <<rangeBounds, registry, added>>

RangeConfig == [upperBound : Bounds, flag : Flags]

\* The types; bisection relies on the table being sorted.
EngineTypeOK ==
    /\ rangeBounds \in Seq(RangeConfig)
    /\ \A i, j \in DOMAIN rangeBounds :
          i < j => rangeBounds[i].upperBound <= rangeBounds[j].upperBound
    /\ registry \in [Masks -> Actions \cup {NoAction}]
    /\ added \in Seq(RangeConfig)

EngineInit ==
    /\ rangeBounds = <<>>
    /\ registry = [m \in Masks |-> NoAction]
    /\ added = <<>>

AddRangeConfig(b, f) ==
    /\ Len(added) < MaxRanges
    /\ rangeBounds' = AddRange(rangeBounds, b, f)
    /\ added' = Append(added, [upperBound |-> b, flag |-> f])
    /\ UNCHANGED registry

RegisterAction(m, a) ==
    /\ registry' = [registry EXCEPT ![m] = a]
    /\ UNCHANGED <<rangeBounds, added>>

EngineNext ==
    \/ \E b \in Bounds, f \in Flags : AddRangeConfig(b, f)
    \/ \E m \in Masks, a \in Actions : RegisterAction(m, a)

EngineSpec == EngineInit /\ [][EngineNext]_engineVars

-----------------------------------------------------------------------------
(***************************************************************************)
(* The reference: the flag of value v is that of the tightest bound not     *)
(* below v, or of the widest bound if v exceeds them all; of equal bounds   *)
(* the first added wins in the first case, the last in the second.          *)
(***************************************************************************)
RangeOf(v) ==
    LET idx == DOMAIN added
        b(i) == added[i].upperBound
        above == {i \in idx : b(i) >= v}
        tightest == {i \in above : \A j \in above : b(i) <= b(j)}
        widest == {i \in idx : \A j \in idx : b(i) >= b(j)}
    IN  IF above # {}
          THEN added[CHOOSE i \in tightest : \A j \in tightest : i <= j].flag
          ELSE added[CHOOSE i \in widest : \A j \in widest : i >= j].flag

(***************************************************************************)
(* EvaluateRange finds the right range for every value, boundary values and *)
(* values beyond the table included, whatever the order of configuration    *)
(* and even with bounds configured twice; the table it bisects is sorted.   *)
(***************************************************************************)
RangesFound ==
    /\ EngineTypeOK
    /\ \A v \in Values : EvaluateRange(rangeBounds, v, NoFlag) =
                            IF added = <<>> THEN NoFlag ELSE RangeOf(v)
=============================================================================
