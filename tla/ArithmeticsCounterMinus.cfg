\* The counter requests of PureFunctions.cfg; the subtract and divide
\* counters compared.
CONSTANT OpsChecked = {"subtract", "divide"}
SPECIFICATION Spec
INVARIANT AggregateMeaning
