----------------------------- MODULE MCCommands -----------------------------
(* Two commands, three contents of the file, one restart. *)
EXTENDS Commands, TLC

CONSTANTS c1, c2

\* ::ffff:127.0.0.1, what a dual-stack socket shows of this machine, and
\* ::127.0.0.1, which is another host.
Mapped == [form |-> "mapped", addr |-> "loopback", here |-> TRUE]
Compatible == [form |-> "compatible", addr |-> "loopback", here |-> FALSE]

Run(k, i, g) == [kind |-> k, ip |-> i, given |-> g]

Setup(t, x, y, e, r, s) ==
    [token |-> t, client |-> (c1 :> x @@ c2 :> y), edits |-> e, restarts |-> r, signals |-> s,
     configured |-> TRUE]

MCSetups ==
    {Setup("none", Run("add", Mapped, "none"), Run("add", Mapped, "none"), 2, 0, FALSE),
     Setup("none", Run("add", Mapped, "none"), Run("query", Mapped, "none"), 1, 1, FALSE),
     Setup("none", Run("reload", Compatible, "secret"), Run("query", Mapped, "none"), 0, 0, TRUE),
     Setup("secret", Run("add", Compatible, "secret"), Run("reload", Mapped, "none"), 1, 0, TRUE),
     Setup("none", Run("status", Mapped, "none"), Run("query_tcp", Mapped, "none"), 0, 0, TRUE),
     Setup("none", Run("healthcheck", Mapped, "none"), Run("healthcheck", Mapped, "none"), 0, 0, TRUE),
     [Setup("none", Run("reload", Mapped, "none"), Run("healthcheck", Mapped, "none"), 0, 1, FALSE)
        EXCEPT !.configured = FALSE]}
=============================================================================
