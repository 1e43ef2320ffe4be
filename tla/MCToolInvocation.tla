-------------------------- MODULE MCToolInvocation --------------------------
(***************************************************************************)
(* Two calls of the runs of two Goals, created in two conversations: one   *)
(* Goal may write the workspace, the other may only read.                  *)
(***************************************************************************)
EXTENDS ToolInvocation, TLC

CONSTANTS g1, g2, s1, s2, f1

SessionsOfGoals == g1 :> s1 @@ g2 :> s2

Tool(key, tier, reads) == [key |-> key, tier |-> tier, always |-> FALSE, reads |-> reads,
                           egress |-> FALSE, file |-> NoFile]

ReadKeys == Tool("keys", "forbidden", "sensitive")
ReadHome == Tool("home", "auto", "sensitive")
Page == Tool("page", "gated", "internal")
Curl(tier) == [Tool("curl", tier, "none") EXCEPT !.egress = TRUE]
CurlAndRun == [Tool("curl | sh", "auto", "none") EXCEPT !.egress = TRUE, !.always = TRUE]
Write(tier) == [Tool("write", tier, "none") EXCEPT !.file = f1]

CallsOfGoals ==
    g1 :> {ReadKeys, ReadHome, Page, Curl("auto"), CurlAndRun, Write("auto")}
 @@ g2 :> {ReadHome, Page, Curl("gated"), CurlAndRun, Write("gated")}
=============================================================================
