----------------------------- MODULE MCSentinel -----------------------------
(* Two checks and their collector.  Five probes fill the channel, which      *)
(* holds four results, and leave one goroutine with a result to send.        *)
EXTENDS Sentinel, TLC

CONSTANTS c1, c2

MCChecks == {c1, c2}
MCMaxRuns == (c1 :> 3) @@ (c2 :> 2)
MCMaxRunsFew == [c \in MCChecks |-> 2]
=============================================================================
