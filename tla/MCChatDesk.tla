------------------------------ MODULE MCChatDesk ------------------------------
(* The conversation and the desk that takes over from it, one at a time: they  *)
(* share the identity of a run, which ChatRuns keeps and Desk is given.        *)
EXTENDS MCChatRuns, Desk

VARIABLE side

\* Ann's token ends with the skew, Bob is of another tenant, the last has no tenant.
Token(tenant, subject, scopes, exp) ==
    [tenant |-> tenant, subject |-> subject, scopes |-> scopes, exp |-> exp, genuine |-> TRUE]
Ann == Token("A", "ann", {}, 0)
Rev == Token("A", "rev", {"review", "chat"}, 2)
Bob == Token("B", "bob", {"chat", "other"}, 2)
Nameless == Token("none", "bob", {"admin"}, 2)
Ask(route, token, to, fits) ==
    [route |-> route, token |-> token, session |-> "s", run |-> "r", to |-> to, fits |-> fits]
SomeAsks ==
    {Ask("chat", Ann, "open", TRUE), Ask("chat", Rev, "open", TRUE),
     Ask("handoff", Ann, "open", TRUE), Ask("handoff", Bob, "open", TRUE),
     Ask("patch", Rev, "claimed", TRUE), Ask("patch", Rev, "resolved", TRUE),
     Ask("list", Ann, "open", TRUE), Ask("feedback", Nameless, "open", TRUE)}
SomeEnvs == {[mode |-> "single_tenant", blank |-> {}, skew |-> 0],
             [mode |-> "enforced", blank |-> {}, skew |-> 1],
             [mode |-> "enforced", blank |-> {"jwks"}, skew |-> 1]}

ChatDeskInit ==
    /\ side \in {"chat", "desk"}
    /\ Init
    /\ DeskInit /\ (side # "desk" => oidc.kind = "noop")

ChatDeskNext ==
    /\ UNCHANGED side
    /\ IF side = "chat" THEN Next ELSE UNCHANGED chatVars
    /\ IF side = "desk" THEN DeskNext ELSE UNCHANGED deskVars

ChatDeskSpec == ChatDeskInit /\ [][ChatDeskNext]_<<side, chatVars, deskVars>> /\ ChatFairness

\* The states of both have the shapes their modules give them.
ChatDeskTypeOK == ChatTypeOK /\ DeskTypeOK
=============================================================================
