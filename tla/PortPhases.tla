----------------------------- MODULE PortPhases -----------------------------
(***************************************************************************)
(* The porting scripts 53 to 68 as programs: for each script the files it  *)
(* copies, the adaptations and edits it makes, in the order it makes them, *)
(* the probes its workflow compiles and what its report counts.  PortJob   *)
(* interprets them.                                                        *)
(***************************************************************************)
EXTENDS StagedTree

(***************************************************************************)
(* Steps.  "need" refuses to go on without a file, or without a part of    *)
(* it; "source" without a downstream file; "copy" without its source;      *)
(* "edit" and "adapt" rewrite one file; "intent" is git add -N; "diff" is  *)
(* git diff into the patch file.                                           *)
(***************************************************************************)
AnyText == ""
Need(path, marker) == [op |-> "need", file |-> path, marker |-> marker]
NeedSource(path) == [op |-> "source", file |-> path]
CopyTo(path, to) == [op |-> "copy", file |-> path, to |-> to, strip |-> FALSE]
Copy(path) == CopyTo(path, path)
CopyStripped(path, to) == [op |-> "copy", file |-> path, to |-> to, strip |-> TRUE]
Adapt(path, how) == [op |-> "adapt", file |-> path, how |-> how]
Write(path, part) == [op |-> "write", file |-> path, text |-> <<part>>]
Edit(path, edits) == [op |-> "edit", file |-> path, edits |-> edits, always |-> FALSE]
Rewrite(path, edits) == [op |-> "edit", file |-> path, edits |-> edits, always |-> TRUE]
Intent(paths) == [op |-> "intent", files |-> paths]
Diff(empty) == [op |-> "diff", only |-> {}, mayBeEmpty |-> empty]
DiffOf(paths) == [op |-> "diff", only |-> paths, mayBeEmpty |-> FALSE]
Do(op) == [op |-> op]

Copies(paths) == [i \in DOMAIN paths |-> Copy(paths[i])]

Many == 99  \* "at least": no source has as many of a feature

ClkMakefile == "clk/qcom/Makefile"
ClkKconfig == "clk/qcom/Kconfig"

Obj(script, object) == Edit(ClkMakefile, <<AppendOnce(object, <<script, object>>)>>)

(***************************************************************************)
(* Script 53: the first clock controller, the pin controller, the cache.   *)
(***************************************************************************)
Staged53 ==
    <<"dt-bindings/qcom,gcc-lagoon.h", "dt-bindings/qcom,camcc-lagoon.h",
      "dt-bindings/qcom,dispcc-lagoon.h", "dt-bindings/qcom,gpucc-lagoon.h",
      "dt-bindings/qcom,videocc-lagoon.h", "dt-bindings/qcom,lagoon-qmp-usb3.h",
      "clk/gcc-lagoon.c", "pinctrl/pinctrl-lagoon.c">>

AdaptGcc ==
    [needs |-> [what \in {"vdd rate", "vdd regulator"} |->
                   IF what = "vdd rate" THEN <<2, Many>> ELSE <<2, 2>>],
     drops |-> {"vdd level", "vdd rate", "vdd regulator", "safe config"},
     forbids |-> {},
     renames |-> "branch2_hw_ctl_ops" :> <<"53", "branch2_ops">>,
     adds |-> <<>>]

AdaptPinctrl ==
    [needs |-> [what \in {"dir_conn table"} |-> <<1, 1>>],
     drops |-> {"dir_conn table", "dir_conn field"},
     forbids |-> {}, renames |-> <<>>, adds |-> <<>>]

IntegrateLlcc ==
    Rewrite("soc/llcc-qcom.c",
        <<Insert("before", "sc7180_cfg", <<"53", "lagoon_cfg">>),
          Insert("after", "of_match", <<"53", "lagoon-llcc-v1">>)>>)

Program53 ==
    Copies(SubSeq(Staged53, 1, 7))
    \o <<Adapt("clk/gcc-lagoon.c", AdaptGcc),
         Copy("pinctrl/pinctrl-lagoon.c"),
         Adapt("pinctrl/pinctrl-lagoon.c", AdaptPinctrl),
         NeedSource("soc/llcc-lagoon.c"), IntegrateLlcc,
         Edit(ClkKconfig, <<AppendOnce("SDM_GCC_LAGOON", <<"53", "SDM_GCC_LAGOON">>)>>),
         Obj("53", "gcc-lagoon.o"),
         Edit("pinctrl/Kconfig",
              <<InsertBeforeLast("endif", "PINCTRL_LAGOON", <<"53", "PINCTRL_LAGOON">>)>>),
         Edit("pinctrl/Makefile",
              <<AppendOnce("pinctrl-lagoon.o", <<"53", "pinctrl-lagoon.o">>)>>),
         Intent(ToSet(Staged53)),
         Diff(FALSE)>>

(***************************************************************************)
(* Script 54: four more clock controllers, and the PLL type they need.     *)
(***************************************************************************)
Clocks54 == <<"camcc", "dispcc", "gpucc", "videocc">>

Source54 == [camcc |-> "clk/camcc-lagoon.c", dispcc |-> "clk/dispcc-lagoon.c",
             gpucc |-> "clk/gpucc-lagoon.c", videocc |-> "clk/videocc-lagoon.c"]
Object54 == [camcc |-> "camcc-lagoon.o", dispcc |-> "dispcc-lagoon.o",
             gpucc |-> "gpucc-lagoon.o", videocc |-> "videocc-lagoon.o"]

AdaptClock ==
    [needs |-> <<>>,
     drops |-> {"vdd level", "vdd rate", "vdd regulator", "safe config", "cal_l"},
     forbids |-> {"other regulator"},
     renames |-> "branch2_hw_ctl_ops" :> <<"54", "branch2_ops">>
                 @@ "hwclks" :> <<"54", "clk_hws">>,
     adds |-> <<>>]

BackportAgera ==
    <<Edit("clk/clk-alpha-pll.h",
           <<Insert("before", "type enum", <<"54", "TYPE_AGERA">>),
             Insert("before", "endif", <<"54", "agera declarations">>)>>),
      Rewrite("clk/clk-alpha-pll.c",
           <<Insert("before", "regs end", <<"54", "agera registers">>),
             AppendOnce("agera_ops", <<"54", "agera_ops">>)>>)>>

PhaseTwo(clock) ==
    <<Copy(Source54[clock]), Adapt(Source54[clock], AdaptClock),
      Obj("54", Object54[clock])>>

ClockApi ==
    <<Need("clk/clk-alpha-pll.h", AnyText), Need("clk/clk-alpha-pll.c", AnyText),
      Need("clk/common.h", AnyText), Need("clk/common.c", AnyText)>>

Program54 ==
    <<Need("clk/gcc-lagoon.c", AnyText), Need("soc/llcc-qcom.c", "lagoon_cfg")>>
    \o ClockApi \o BackportAgera \o ClockApi
    \o FlattenSeq([i \in DOMAIN Clocks54 |-> PhaseTwo(Clocks54[i])])
    \o <<Edit(ClkKconfig, <<AppendOnce("CAM_CC_LAGOON", <<"54", "CAM_CC_LAGOON">>)>>),
         Intent({Source54[clock] : clock \in DOMAIN Source54}),
         Diff(FALSE)>>

(***************************************************************************)
(* Script 55: the remaining clock controllers and the debug core.          *)
(***************************************************************************)
(* Mutant: the list of staged paths forgets a header.                      *)
Paths55Short == {"clk/npucc-lagoon.c", "clk/clk-debug.c", "clk/debugcc-lagoon.c",
                 "dt-bindings/qcom,npucc-lagoon.h"}

Paths55 == {"clk/npucc-lagoon.c", "clk/clk-debug.c", "clk/debugcc-lagoon.c",
            "clk/clk-debug.h", "dt-bindings/qcom,npucc-lagoon.h"}

StripNpu ==
    [AdaptClock EXCEPT !.drops = @ \cup {"custom register", "pll config"},
                       !.renames = "branch2_hw_ctl_ops" :> <<"55", "branch2_ops">>]

PreserveCrc ==
    [needs |-> [what \in {"npu probe", "npu clock domain"} |-> <<1, Many>>],
     drops |-> {}, forbids |-> {}, renames |-> <<>>,
     adds |-> <<<<"55", "crc writes">>>>]

AdaptDebugHeader ==
    [needs |-> <<>>, drops |-> {}, forbids |-> {}, renames |-> <<>>,
     adds |-> <<<<"55", "bitops">>, <<"55", "CLK_IS_MEASURE">>>>]

AdaptDebugCore ==
    [needs |-> [what \in {"bus vote", "measure get", "measure add", "WARN_CLK"} |->
                   <<1, Many>>],
     drops |-> {"msm-bus", "WARN_CLK"}, forbids |-> {},
     renames |-> "bus vote" :> <<"55", "empty vote">>,
     adds |-> <<<<"55", "debugfs">>>>]

AdaptDebugcc ==
    [needs |-> [what \in {"l3_clk"} |-> <<1, Many>>], drops |-> {}, forbids |-> {},
     renames |-> "clk_dummy" :> <<"55", "lagoon_clk_dummy">>,
     adds |-> <<<<"55", "lagoon_clk_dummy_ops">>>>]

Program55 ==
    <<Need("clk/gcc-lagoon.c", AnyText)>>
    \o [i \in DOMAIN Clocks54 |-> Need(Source54[Clocks54[i]], AnyText)]
    \o <<Copy("clk/npucc-lagoon.c"),
         Adapt("clk/npucc-lagoon.c", StripNpu),
         Adapt("clk/npucc-lagoon.c", PreserveCrc),
         Copy("clk/clk-debug.c"), Adapt("clk/clk-debug.c", AdaptDebugCore),
         Copy("clk/debugcc-lagoon.c"), Adapt("clk/debugcc-lagoon.c", AdaptDebugcc),
         Copy("clk/clk-debug.h"), Adapt("clk/clk-debug.h", AdaptDebugHeader),
         Copy("dt-bindings/qcom,npucc-lagoon.h"),
         Obj("55", "npucc-lagoon.o"), Obj("55", "clk-debug.o"),
         Obj("55", "debugcc-lagoon.o"),
         Edit(ClkKconfig, <<AppendOnce("NPU_CC_LAGOON", <<"55", "NPU_CC_LAGOON">>)>>),
         Intent(Paths55),
         Diff(FALSE)>>
=============================================================================
