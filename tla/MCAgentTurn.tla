---------------------------- MODULE MCAgentTurn ----------------------------
(* AgentTurn with two rounds of tools and two calls in each. *)
EXTENDS AgentTurn, TLC

CONSTANTS asked, landed, p1

MCUrls == {asked, landed}
\* `asked' redirects to `landed'.
MCLandsAt == (asked :> landed) @@ (landed :> landed)
MCResultLists == {<<landed, asked, landed>>}
MCPaths == {p1}
MCTools == {"web_search", "image_search", "read_page", "view_image", "doc_read", "ws_write"}
MCBreaks == {2, 5}
MCAmounts == {1, 3}
=============================================================================
