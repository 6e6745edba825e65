------------------------------- MODULE MCGateway -------------------------------
(* A small instance of Gateway: one model that the registry has found without     *)
(* thinking, and a request of each kind that the pipeline tells apart.            *)
EXTENDS Gateway

FoundModels == {[ref |-> <<"router", "anthropic", "small">>, thinks |-> FALSE]}

Says(role, marks) == [role |-> role, marks |-> marks]
Turn == [api |-> "messages", model |-> <<"claude-opus-4">>, system |-> {}, tools |-> {},
         said |-> <<Says("user", {})>>, probe |-> FALSE, forced |-> "none"]
Quota == [Turn EXCEPT !.said = <<Says("user", {"quota"})>>, !.probe = TRUE]
Judge == [Turn EXCEPT !.said = <<Says("system", {"verdict"}), Says("user", {"transcript"})>>]
Suggest == [Turn EXCEPT !.said = <<Says("user", {"suggestion"}), Says("assistant", {})>>]
Fetch == [Turn EXCEPT !.tools = {"web_fetch"}, !.forced = "web_fetch"]
AllRequests ==
    {Turn, Quota, Judge, Suggest, Fetch, [Fetch EXCEPT !.api = "responses"],
     [Turn EXCEPT !.api = "count"]}

MCInit == GwInit /\ legacy \in {<<>>, "MODEL" :> <<"router", "opus-x">>}

MCSpec == MCInit /\ [][GwNext]_all
=============================================================================
