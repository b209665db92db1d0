------------------------------ MODULE MCPortJob ------------------------------
(***************************************************************************)
(* A GKI tree with every anchor the scripts look for, a downstream tree    *)
(* with every feature they adapt, include graphs with a circle, a file GKI *)
(* has as well, a binding header to merge, one to copy, and names nobody   *)
(* has; and downstream trees the scripts must refuse.                      *)
(***************************************************************************)
EXTENDS PortJob

Raw(who, features) == [i \in DOMAIN features |-> <<who, features[i]>>]
GkiText(features) == Raw("gki", features)
TgText(features) == Raw("tg", features)

McGki ==
    "clk/qcom/Makefile" :> GkiText(<<"common.o">>)
    @@ "clk/qcom/Kconfig" :> GkiText(<<"COMMON_CLK_QCOM">>)
    @@ "clk/clk-alpha-pll.h" :> GkiText(<<"type enum", "endif">>)
    @@ "clk/clk-alpha-pll.c" :> GkiText(<<"regs end", "pll ops">>)
    @@ "clk/common.h" :> GkiText(<<"qcom_cc_desc">>)
    @@ "clk/common.c" :> GkiText(<<"qcom_cc_probe">>)
    @@ "soc/llcc-qcom.c" :> GkiText(<<"sc7180_cfg", "of_match">>)
    @@ "pinctrl/Kconfig" :> GkiText(<<"PINCTRL_MSM", "endif", "comment">>)
    @@ "pinctrl/Makefile" :> GkiText(<<"pinctrl-msm.o">>)
    @@ "interconnect/Makefile" :> GkiText(<<"qnoc-sc7180-objs">>)
    @@ "interconnect/Kconfig" :> GkiText(<<"INTERCONNECT_QCOM">>)
    @@ [p \in {"icc-core", "qcom-bcm-voter", "legacy-cgroups", "qcom-scm", "rpmh-core",
               "interconnect-core", "arm-smmu", "erofs", "spmi-core", "geni-i2c"}
           |-> GkiText(<<"driver">>)]
    @@ "iommu/Makefile" :> GkiText(<<"iommu.o">>)
    @@ "linux/iommu.h" :> GkiText(<<"iommu_domain">>)
    @@ "arm-smmu/arm-smmu.c" :>
           GkiText(<<"match", "data", "reset", "impl-reset", "aarch64-format">>)
    @@ "arm-smmu/arm-smmu.h" :> GkiText(<<"features">>)
    @@ "arm-smmu/arm-smmu-impl.c" :> GkiText(<<"implementation">>)
    @@ "dt/pm.dtsi" :> GkiText(<<"gki pm nodes">>)
    @@ "dt-bindings/clock.h" :>
           <<<<"ifndef", "CLOCK_H">>, <<"gki define", "CLK_A">>, <<"gki", "endif">>>>
    @@ "dt-bindings/gki-only.h" :> GkiText(<<"irq types">>)

SmmuSource == TgText(<<"trailing whitespace", "smmu driver">>)
    \o <<<<"system", "linux/msm.h">>, <<"system", "linux/iommu.h">>,
         <<"system", "asm/dma-iommu.h">>, <<"system", "linux/sec_debug.h">>>>

Everything ==
    [p \in ToSet(SubSeq(Staged53, 1, 6)) \cup {Staged59[2], Staged59[3],
            "soc/llcc-lagoon.c", "dt-bindings/qcom,npucc-lagoon.h", "tg/arm-smmu-regs.h",
            "tg/arm-smmu-debug.h", "tg/iommu-logger.h"} |-> TgText(<<"text">>)]
    @@ "clk/gcc-lagoon.c" :> TgText(<<"vdd level", "vdd rate", "branch2_hw_ctl_ops",
           "vdd rate", "safe config", "vdd regulator", "vdd regulator", "gcc clocks">>)
    @@ "pinctrl/pinctrl-lagoon.c" :> TgText(<<"dir_conn table", "dir_conn field", "pins">>)
    @@ [p \in {Source54[c] : c \in DOMAIN Source54} |->
           TgText(<<"vdd level", "hwclks", "branch2_hw_ctl_ops", "cal_l", "clocks">>)]
    @@ "clk/npucc-lagoon.c" :>
           TgText(<<"pll config", "npu probe", "npu clock domain", "custom register">>)
    @@ "clk/clk-debug.c" :> TgText(<<"msm-bus", "bus vote", "measure get", "measure add",
                                      "WARN_CLK">>)
    @@ "clk/clk-debug.h" :> TgText(<<"clk_measure">>)
    @@ "clk/debugcc-lagoon.c" :> TgText(<<"clk_dummy", "l3_clk">>)
    @@ "interconnect/sm6350.c" :>
           TgText(<<"const array", "qcom_icc_rpmh_probe", "of_match", "trailing whitespace">>)
    @@ Root :> TgText(<<"trailing whitespace", "lagoon nodes">>)
               \o <<<<"local", "dt/pm.dtsi">>, <<"local", "dt/cam.dtsi">>,
                    <<"angle", "dt-bindings/clock.h">>, <<"angle", Staged53[1]>>,
                    <<"outside", "../skeleton.dtsi">>>>
    @@ "dt/pm.dtsi" :> TgText(<<"pm nodes">>) \o <<<<"angle", "dt-bindings/new.h">>>>
    @@ "dt/cam.dtsi" :> TgText(<<"camera nodes">>)
               \o <<<<"local", "dt/cam.dtsi">>, <<"local", "dt/nowhere.dtsi">>,
                    <<"angle", "dt-bindings/gki-only.h">>, <<"angle", "dt-bindings/none.h">>>>
    @@ "dt-bindings/clock.h" :>
           <<<<"ifndef", "CLOCK_H">>, <<"tg define", "CLOCK_H">>, <<"tg define", "CLK_A">>,
             <<"tg define", "CLK_B">>, <<"tg", "endif">>>>
    @@ "dt-bindings/new.h" :> <<<<"tg define", "NEW">>, <<"tg", "endif">>>>
    @@ "tg/arm-smmu.c" :> SmmuSource
    @@ "linux/msm.h" :> TgText(<<"trailing whitespace", "msm">>)
               \o <<<<"system", "linux/msm2.h">>, <<"system", "linux/nowhere.h">>>>
    @@ "linux/msm2.h" :> <<<<"system", "linux/msm.h">>, <<"system", "linux/iommu.h">>>>

Without(paths) == [p \in DOMAIN Everything \ paths |-> Everything[p]]

OneRegulator ==
    [Everything EXCEPT !["clk/gcc-lagoon.c"] = SubSeq(@, 1, 6)]

McSourceTrees == {Everything, OneRegulator,
                  Without({"clk/videocc-lagoon.c", "tg/iommu-logger.h", Staged59[2]})}
McComplete == {Everything}
=============================================================================
