SPECIFICATION GlobalSpec
CONSTANT Workloads <- MCWorkloads
INVARIANT LookupFindsTheLastWrite
CHECK_DEADLOCK FALSE
