------------------------- MODULE ArithmeticsCounter -------------------------
(***************************************************************************)
(* The aggregating performance counters /arithmetics/add, subtract,       *)
(* multiply and divide (arithmetics_counter.cpp): the creator that         *)
(* validates a counter path and its comma separated base counter names,    *)
(* the constructor's own check, and get_counter_value, which reads every   *)
(* base value through get_value<double>, folds them with Operation from    *)
(* init_value<Operation> and scales the result into base_values[0].value_. *)
(*                                                                         *)
(* A double is modelled by the exact rational it holds (small integers     *)
(* and their quotients are exact or rounded the same way in the code and  *)
(* in the reference), as a pair <<numerator, denominator>>, denominator    *)
(* > 0; a division by zero gives Inf (the code's +-inf or NaN).            *)
(***************************************************************************)
EXTENDS Integers, Sequences, SequencesExt

\* The four instantiations, by their counter names.
Ops == {"add", "subtract", "multiply", "divide"}

Inf == <<"inf">>

Rat(n) == <<n, 1>>

RatEq(x, y) == IF x = Inf \/ y = Inf THEN x = y ELSE x[1] * y[2] = y[1] * x[2]

\* Operation()(value, base_value.get_value<double>()): std::plus, minus,
\* multiplies and divides.
Apply(op, x, y) ==
    IF x = Inf \/ y = Inf THEN Inf
    ELSE CASE op = "add"      -> <<x[1] * y[2] + y[1] * x[2], x[2] * y[2]>>
           [] op = "subtract" -> <<x[1] * y[2] - y[1] * x[2], x[2] * y[2]>>
           [] op = "multiply" -> <<x[1] * y[1], x[2] * y[2]>>
           [] op = "divide"   -> IF y[1] = 0 THEN Inf
                                 ELSE IF y[1] > 0 THEN <<x[1] * y[2], x[2] * y[1]>>
                                 ELSE <<-(x[1] * y[2]), -(x[2] * y[1])>>

\* Mutant: the initial values of std::plus and std::multiplies swapped.
InitValueSwapped(op) == IF op \in {"multiply", "divide"} THEN Rat(0) ELSE Rat(1)

\* init_value<Operation>::call(): 0 for plus and minus, 1 for multiplies
\* and divides.
InitValue(op) == IF op \in {"add", "subtract"} THEN Rat(0) ELSE Rat(1)

\* static_cast<std::int64_t>: truncation towards zero.
Trunc(x) == IF x[1] >= 0 THEN x[1] \div x[2] ELSE -((-x[1]) \div x[2])

\* The scaling step and the cast into base_values[0].value_: value
\* multiplied by scaling_ when scale_inverse_ and scaling_ != 1, divided by
\* it otherwise.
Scale(value, scaling, scaleInverse) ==
    IF value = Inf THEN Inf
    ELSE IF scaleInverse /\ scaling # 1 THEN Trunc(<<value[1] * scaling, value[2]>>)
    ELSE IF scaling = 0 THEN Inf
    ELSE Trunc(<<value[1], value[2] * scaling>>)

\* A read that throws instead of returning a value.
Throws == <<"throws">>

\* base_value.get_value<double>(): counter_value::get_value (the
\* performance counters library) returns value_ scaled to the counter's
\* real value, divided by scaling_ when scale_inverse_ and multiplied
\* otherwise, and throws uninitialized_value for a scaling_ of 0.  A base
\* value b is a record of value_, scaling_ and scale_inverse_.
GetValue(b) ==
    CASE b.scaling = 0 -> Throws
      [] b.scaling = 1 -> Rat(b.value)
      [] b.scaleInverse -> <<b.value, b.scaling>>
      [] OTHER -> Rat(b.value * b.scaling)

\* The loop of get_counter_value: Operation folded over the base values
\* from init_value; the first get_value that throws ends the read.
FoldValue(op, base) ==
    FoldLeft(LAMBDA acc, b : IF acc = Throws \/ GetValue(b) = Throws THEN Throws
                             ELSE Apply(op, acc, GetValue(b)),
             InitValue(op), base)

\* get_counter_value: the fold, then the result scaled like base_values[0]
\* and stored in its value_.
GetCounterValue(op, base) ==
    LET v == FoldValue(op, base)
    IN  IF v = Throws THEN Throws ELSE Scale(v, base[1].scaling, base[1].scaleInverse)

\* The constructor: a divide counter needs at least two base counters,
\* otherwise it throws bad_parameter.
ConstructorAccepts(op, names) == op = "divide" => Len(names) >= 2

\* arithmetics_counter_creator(info, ec): the counter type must be
\* aggregating; an empty parameter list is rejected; the parameters are
\* split at ',' (a non-empty list splits into at least one name, so the
\* names.empty() branch is never taken); every name must be a validly formed
\* counter name; then create_arithmetics_counter runs the constructor.
\* names: the split parameter list, each name "valid" or "malformed"; the
\* empty sequence is an empty parameters_ string.
Creator(type, op, names) ==
    IF type # "aggregating" THEN "invalid_gid"
    ELSE IF names = <<>> THEN "invalid_gid"
    ELSE IF \E k \in DOMAIN names : names[k] # "valid" THEN "invalid_gid"
    ELSE IF ~ConstructorAccepts(op, names) THEN "exception"
    ELSE "counter"

\* Reference: what the counter names mean, the real values of the base
\* counters combined as v0 op v1 op ... op vn.
Meaning(op, base) ==
    LET r == [k \in DOMAIN base |-> GetValue(base[k])]
    IN  FoldLeft(LAMBDA acc, v : Apply(op, acc, v), r[1], Tail(r))

=============================================================================
