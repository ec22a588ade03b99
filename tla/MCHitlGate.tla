---- MODULE MCHitlGate ----
(***************************************************************************)
(* Small instances of HitlGate for TLC.                                    *)
(***************************************************************************)
EXTENDS HitlGate, TLC

CONSTANTS c1, c2, u1, u2, site, sub, other, star, web, soul, domain, shell, mcp

MCUsers == {u1, u2}
MCTools == {web, soul, domain, shell, mcp}
MCKeys == {site, sub, other, star}
MCSubdomain == {<<sub, site>>}

Ask(u, t, k) == [user |-> u, tool |-> t, key |-> k, tier |-> "require-approval",
                 explicit |-> TRUE, mcpTier |-> "none"]

(* The default of classifyAction with the tier of an MCP server            *)
Mcp(t) == [Ask(u1, mcp, star) EXCEPT !.explicit = FALSE, !.mcpTier = t]

(* Every branch of the gate, two calls at a time *)
WideRequests ==
  {Ask(u1, web, k) : k \in {site, sub, star}}
  \cup {Ask(u2, web, site), Ask(u1, shell, other), Mcp("notify"),
        [Ask(u1, soul, star) EXCEPT !.tier = "auto-approve"],
        [Ask(u1, shell, other) EXCEPT !.tier = "auto-approve"]}

(* Two calls of one user that share grants and domains *)
WebRequests == {Ask(u1, web, site), Ask(u1, web, sub)}

OneRequest == {Ask(u1, web, site)}

Symmetry == Permutations(Calls)
====
