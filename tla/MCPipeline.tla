----------------------------- MODULE MCPipeline -----------------------------
(* Pipeline with every line of one or two stages, and longer lines without  *)
(* redirections.                                                            *)
EXTENDS Pipeline

Plain(c) == [cmd |-> c, in |-> "none", out |-> "none"]
Programs == {Plain("filter"), Plain("quitter")}
Ends == Programs \cup {Plain("builtin"), Plain("missing")}
Redirected == {s \in Stage : s.cmd = "filter"}

MCLines == {<<s>> : s \in Redirected \cup Ends \cup {Plain("badpath")}}
           \cup {<<s, t>> : s \in Ends, t \in Redirected \cup Ends}
           \cup {<<s, Plain("filter"), t>> : s \in Programs, t \in Ends}
           \cup {<<Plain("filter"), Plain("quitter"), Plain("filter")>>}
=============================================================================
