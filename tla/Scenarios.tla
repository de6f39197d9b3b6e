------------------------------ MODULE Scenarios -----------------------------
(***************************************************************************)
(* The traffic the repository declares: the profiles, the scenarios that   *)
(* compose them, and the cases of the L1 campaign (firmware/experiment-    *)
(* bench/scenarios).  They are data; the engines execute the profile of    *)
(* one scenario at a time.                                                 *)
(***************************************************************************)
EXTENDS Integers, FiniteSetsExt

CONSTANT MaxCount   \* bound: transactions of a run, 64 and 512 in the profiles

Declared(count, packetSize, interDelay, timeout, irqPolicy) ==
  [count |-> Min({count, MaxCount}), packetSize |-> packetSize,
   interDelay |-> interDelay, timeout |-> timeout, irqPolicy |-> irqPolicy,
   crcEvery |-> 0, crcByte |-> 0, timeoutEvery |-> 0, export |-> FALSE]

DemoProfile     == Declared(64, 32, 10, 500, "per_transaction")
L1ScreenProfile == Declared(512, 256, 2, 2000, "never")
L1ModuleProfile == Declared(512, 32, 20, 1000, "per_transaction")

\* bench_scenario_t: the identifier and the profile it composes.
Scenario(id, profile) == [id |-> id, profile |-> profile]

DemoScenario     == Scenario("demo", DemoProfile)
L1ScreenScenario == Scenario("l1-screen", L1ScreenProfile)
L1ModuleScenario == Scenario("l1-module", L1ModuleProfile)

Topologies == {"spi-shared", "spi-separated"}
LoadModes  == {"screen-only", "module-only", "concurrent"}

\* l1_cases: two topologies by three modes; a source of load that is inactive
\* is no scenario at all.
L1Cases ==
  {[topology |-> t, mode |-> m,
    sources |-> CASE m = "screen-only" -> {L1ScreenScenario}
                  [] m = "module-only" -> {L1ModuleScenario}
                  [] m = "concurrent"  -> {L1ScreenScenario, L1ModuleScenario}]
     : t \in Topologies, m \in LoadModes}

\* One engine runs one source: a concurrent case is two runs of it.
DeclaredProfiles ==
  {DemoScenario.profile}
    \cup {s.profile : s \in UNION {c.sources : c \in L1Cases}}

=============================================================================
