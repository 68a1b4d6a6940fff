---------------------------- MODULE MCGpuLedger -----------------------------
(***************************************************************************)
(* A small instance of GpuLedger: two GPUs, one of them a MIG instance,    *)
(* FastPods and an Exclusive pod on both, MPS pods on the first.           *)
(***************************************************************************)
EXTENDS GpuLedger

CONSTANTS f1, f2, f3, m1, m2, e1, e2, g1, g2

PodsOf(fast, mps, excl) ==
    [p \in fast \cup mps \cup excl |->
        IF p \in fast THEN "FastPod" ELSE IF p \in mps THEN "MPS" ELSE "Exclusive"]

MCPods == {f1, f2, f3, m1, m2, e1, e2}
MCGPUs == {g1, g2}
MCTypeOf == PodsOf({f1, f2, f3}, {m1, m2}, {e1, e2})
MCGpuOf == [p \in MCPods |-> IF p \in {f3, e2} THEN g2 ELSE g1]
MCMemOf == [p \in MCPods |-> IF p = m2 THEN 2 ELSE 1]
MCSmOf == [p \in MCPods |-> 1]
MCMemTotal == [g \in MCGPUs |-> 2]
MCSmTotal == [g \in MCGPUs |-> 1]

-----------------------------------------------------------------------------
CONSTANT MaxDrift   \* bound on how far reconfigurations push a usage below 0

DriftBound == \A g \in DOMAIN vGPUID2GPU : vGPUID2GPU[g].usage >= -MaxDrift

MCSpec == LedgerInit /\ [][LedgerNext /\ DriftBound']_ledgerVars

=============================================================================
