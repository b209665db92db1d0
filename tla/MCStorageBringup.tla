-------------------------- MODULE MCStorageBringup --------------------------
(* The RPMh resource controller, which also stands for the power domains,  *)
(* the clocks that need it, the IOMMU, the pin controller, which this      *)
(* kernel may not have, and three disks.                                   *)
EXTENDS StorageBringup

CONSTANTS rsc, clk, smmu, d1, d2, d3

FourProviders  == {rsc, clk, smmu, Tlmm}
Chain          == [p \in FourProviders |-> IF p = clk THEN {rsc} ELSE {}]
ByCall         == [s \in Deferring |->
                    CASE s = "dma"          -> {smmu}
                      [] s = "power_domain" -> {rsc}
                      [] s = "hba_init"     -> {clk}
                      [] OTHER              -> {}]
NoTlmm         == {Tlmm}
ThreeDisks     == {d1, d2, d3}

==============================================================================
