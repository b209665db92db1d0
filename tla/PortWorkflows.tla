---------------------------- MODULE PortWorkflows ----------------------------
(***************************************************************************)
(* The scripts that walk include graphs (56, 66), the interconnect script  *)
(* (59), the SMMU scripts (67, 68), the inventories (57, 58, 60, 61, 64),  *)
(* and the workflows: which scripts each stages, in which order, which     *)
(* probes it compiles and what its report counts.                          *)
(***************************************************************************)
EXTENDS PortPhases

(* The plan lists each probe with the sources GKI lacks for it.  A report  *)
(* wants a row for exactly the planned probes and counts results by kind.  *)
Plan(probes) == <<[op |-> "plan", probes |-> ToSet(probes)]>>

Report(probes, counts) == [probes |-> probes, counts |-> counts]

(* Mutant: a report that does not count what its configuration blocked.    *)
PlannedUnblocked == {"compiled", "compile-failed", "source-missing"}

Planned == {"compiled", "compile-failed", "config-blocked", "source-missing"}

IntentWalked(paths) == [op |-> "intent_walked", files |-> paths]

(***************************************************************************)
(* Script 56: the device tree source with everything it includes.          *)
(***************************************************************************)
Root == "dt/lagoon.dtsi"
RootCopy == "dt/lagoon-earlyboot-probe.dtsi"
Wrapper == "dt/lagoon-earlyboot-probe.dts"

Program56 ==
    <<Do("seed_root"), Do("local_include"),
      Write(Wrapper, <<"56", "probe-board">>),
      Do("binding"), IntentWalked({RootCopy, Wrapper}),
      Diff(TRUE)>>

Finalize56 == Report(<<"lagoon-base-dt">>, {"compiled", "failed", "skipped"})

(***************************************************************************)
(* Script 59: the interconnect provider of Linux 6.1, adapted to 5.10.     *)
(***************************************************************************)
Probes59 == <<"icc-core", "qcom-bcm-voter", "qcom-icc-rpmh", "sm6350-provider">>

AdaptSm6350 ==
    [needs |-> [what \in {"of_match"} |-> <<1, Many>>],
     drops |-> {},
     forbids |-> {"other icc_rpmh call"},
     renames |-> "const array" :> <<"59", "array">>
                 @@ "qcom_icc_rpmh_probe" :> <<"59", "qnoc_probe">>,
     adds |-> <<<<"59", "qnoc_probe body">>>>]

Staged59 == <<"interconnect/sm6350.c", "interconnect/sm6350.h",
              "dt-bindings/qcom,sm6350.h">>

Program59 ==
    <<Copy(Staged59[1]), Adapt(Staged59[1], AdaptSm6350),
      Copy(Staged59[2]), Copy(Staged59[3]),
      Edit("interconnect/Makefile",
           <<AppendOnce("qnoc-sm6350-objs", <<"59", "qnoc-sm6350-objs">>)>>),
      Edit("interconnect/Kconfig",
           <<AppendOnce("INTERCONNECT_QCOM_SM6350",
                        <<"59", "INTERCONNECT_QCOM_SM6350">>)>>),
      Plan(Probes59)[1],
      Intent(ToSet(Staged59) \cup {"interconnect/Makefile", "interconnect/Kconfig"}),
      Diff(FALSE)>>

Finalize59 == Report(Probes59, Planned)

(***************************************************************************)
(* Script 66: the downstream SMMU driver beside GKI's, with the headers    *)
(* GKI lacks.                                                              *)
(***************************************************************************)
Driver66 == "iommu/legacy-qsmmu/arm-smmu-downstream.c"
Sources66 == <<Driver66, "iommu/legacy-qsmmu/arm-smmu-regs.h",
               "iommu/legacy-qsmmu/arm-smmu-debug.h",
               "iommu/legacy-qsmmu/iommu-logger.h">>
Downstream66 == <<"tg/arm-smmu.c", "tg/arm-smmu-regs.h", "tg/arm-smmu-debug.h",
                  "tg/iommu-logger.h">>
Compat66 == "iommu/legacy-qsmmu/qsmmu-compat.h"
Makefile66 == "iommu/legacy-qsmmu/Makefile"

AdaptDownstream ==
    [needs |-> <<>>, drops |-> {"asm/dma-iommu.h"}, forbids |-> {},
     renames |-> "linux/sec_debug.h" :> <<"66", "qsmmu-compat.h">>,
     adds |-> <<>>]

CompatHeader == Write(Compat66, <<"66", "no-op-hooks">>)

Program66 ==
    <<CopyStripped(Downstream66[1], Driver66), Adapt(Driver66, AdaptDownstream),
      CopyStripped(Downstream66[2], Sources66[2]),
      CopyStripped(Downstream66[3], Sources66[3]),
      CopyStripped(Downstream66[4], Sources66[4]),
      CompatHeader,
      Do("seed_headers"), Do("header"),
      Write(Makefile66, <<"66", "arm-smmu-downstream.o">>),
      Edit("iommu/Makefile", <<AppendOnce("legacy-qsmmu/", <<"66", "legacy-qsmmu/">>)>>),
      IntentWalked(ToSet(Sources66) \cup {Compat66, Makefile66}),
      Diff(TRUE)>>

Finalize66 == Report(<<"arm-smmu-downstream.o">>, {"compiled", "compile-failed"})

(***************************************************************************)
(* Scripts 67 and 68: GKI's own SMMU driver accepts the QSMMU v500, and    *)
(* takes it over from the firmware.                                        *)
(***************************************************************************)
SmmuC == "arm-smmu/arm-smmu.c"
SmmuH == "arm-smmu/arm-smmu.h"
ImplC == "arm-smmu/arm-smmu-impl.c"

Replace(path, anchor, part) == Edit(path, <<ReplaceOnce(anchor, part)>>)

Program67 ==
    <<Need(SmmuC, AnyText), Need(ImplC, AnyText),
      Replace(SmmuC, "match", <<"67", "qsmmu-v500">>),
      Replace(ImplC, "implementation", <<"67", "qsmmu-v500">>),
      DiffOf({SmmuC, ImplC})>>

Program68 ==
    <<Need(SmmuC, AnyText), Need(SmmuH, AnyText), Need(SmmuC, "qsmmu-v500"),
      Replace(SmmuH, "features", <<"68", "skip_init">>),
      Replace(SmmuC, "data", <<"68", "skip-init-property">>),
      Replace(SmmuC, "reset", <<"68", "guarded-reset">>),
      Replace(SmmuC, "impl-reset", <<"68", "guarded-impl-reset">>),
      Replace(SmmuC, "aarch64-format", <<"68", "39-bits">>),
      Do("normalize"),
      DiffOf({SmmuC, SmmuH})>>

(***************************************************************************)
(* Reports of the phases of PortPhases.  Their workflows compile without a *)
(* plan, so no row can say source-missing.                                 *)
(***************************************************************************)
Unplanned == {"compiled", "compile-failed", "config-blocked"}

Probes53 == <<"gcc-lagoon", "pinctrl-lagoon", "llcc-lagoon">>
Probes55 == <<"npucc-lagoon", "clk-debug-core", "debugcc-lagoon">>

Finalize53 == Report(Probes53, Unplanned)
Finalize54 == Report(Clocks54, Unplanned)
Finalize55 == Report(Probes55, Unplanned)

(***************************************************************************)
(* Script 62: the whole chain, an audited configuration, Image and DTB.    *)
(***************************************************************************)
Audit62 == <<Do("audit"), Diff(FALSE)>>
Targets62 == <<"Image", "Lagoon-DTB">>
(* The Image row says built and the DTB row compiled; both count as built. *)
Finalize62 == Report(Targets62, {"built", "failed"})

(***************************************************************************)
(* The inventories stage nothing: they list which sources GKI has.         *)
(***************************************************************************)
Probes57Rpmh == <<"command-db", "rpmh-core", "rpmh-rsc", "rpmh-regulator",
                  "rpmh-clock", "rpmh-power-domain">>
Inventory57Rpmh == Plan(Probes57Rpmh)
Finalize57Rpmh == Report(Probes57Rpmh, Planned)

Probes57Core == <<"qcom-scm", "qcom-smem", "qcom-command-db", "qcom-rpmh",
                  "qcom-aoss-qmp", "qcom-geni-se">>
Inventory57Core == Plan(Probes57Core)
Finalize57Core == Report(Probes57Core, Planned)

Probes58Bus == <<"interconnect-core", "interconnect-bulk", "qcom-bcm-voter",
                 "qcom-icc-rpmh", "qcom-sc7180", "qcom-sm8250">>
Inventory58Bus == Plan(Probes58Bus)
Finalize58Bus == Report(Probes58Bus, Planned)

Probes58Memory == <<"arm-smmu", "rpmh-regulator", "qmp-phy", "ufs-core",
                    "ufs-qcom", "ufs-inline-crypto">>
Inventory58Memory == Plan(Probes58Memory)
Finalize58Memory == Report(Probes58Memory, Planned)

Probes60 == <<"erofs", "f2fs", "dm-core", "dm-verity", "dm-crypt", "dm-default-key">>
Inventory60 == Plan(Probes60)
Finalize60 == Report(Probes60, Planned)

Probes61 == <<"legacy-cgroups", "geni-console", "pstore-core", "ramoops">>
Inventory61 == Plan(Probes61)
Finalize61 == Report(Probes61, Planned)

Probes64 == <<"spmi-core", "spmi-pmic-arb", "spmi-pmic-mfd", "spmi-pmic-pinctrl",
              "spmi-temp-alarm", "spmi-adc5", "spmi-pmic-clkdiv",
              "qcom-watchdog", "geni-i2c">>
Inventory64 == Plan(Probes64)
Finalize64 == Report(Probes64, Planned)

(***************************************************************************)
(* What each workflow stages, after GKI has been checked out clean.        *)
(***************************************************************************)
Lagoon == Program53 \o Program54 \o Program55 \o Program56 \o Program59
Check == <<Do("check")>>  \* git diff --check

Staging ==
    [w53 |-> Program53, w54 |-> Program53 \o Program54,
     w55 |-> Program53 \o Program54 \o Program55,
     w56 |-> Program53 \o Program54 \o Program55 \o Program56,
     w57r |-> Inventory57Rpmh, w57c |-> Inventory57Core,
     w58b |-> Inventory58Bus, w58m |-> Inventory58Memory,
     w59 |-> Program59, w60 |-> Inventory60, w61 |-> Inventory61,
     w62 |-> Lagoon \o Audit62, w64 |-> Inventory64,
     w66 |-> Program66 \o Check, w67 |-> Program67 \o Check,
     w68 |-> Lagoon \o Program67 \o Program68 \o Check \o <<Diff(FALSE)>>]

Finalize ==
    [w53 |-> Finalize53, w54 |-> Finalize54, w55 |-> Finalize55,
     w56 |-> Finalize56, w57r |-> Finalize57Rpmh, w57c |-> Finalize57Core,
     w58b |-> Finalize58Bus, w58m |-> Finalize58Memory, w59 |-> Finalize59,
     w60 |-> Finalize60, w61 |-> Finalize61, w62 |-> Finalize62,
     w64 |-> Finalize64, w66 |-> Finalize66,
     w67 |-> Report(<<"arm-smmu.o">>, {"compiled", "compile-failed"}),
     w68 |-> Finalize62]

(* What the workflow's shell can write into a row of the status file.      *)
Results(w, probe, missing) ==
    IF w \in {"w62", "w66", "w67", "w68"} THEN Finalize[w].counts
    ELSE IF w = "w56" THEN {"compiled", "failed", "skipped"}
    ELSE IF probe \in missing THEN {"source-missing"}
    ELSE {"compiled", "compile-failed", "config-blocked"}

(* Workflows whose last step demands that everything was built.            *)
MustBuild == {"w62", "w67", "w68"}
=============================================================================
