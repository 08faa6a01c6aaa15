----------------------- MODULE MCProviderCoordinator ------------------------
(* Small instances of ProviderCoordinator: one or two widgets, few workers. *)
EXTENDS ProviderCoordinator

CONSTANTS w1, w2

\* Widgets that are not configured or have one of two domain configurations.
TwoDomains == [Widgets -> 0..2]

\* A polled and a chat-log widget: either is removed or added, the domain of
\* the polled one changes, or both.
PolledAndChat == {conf \in [Widgets -> 0..2] : conf[w1] + conf[w2] > 0 /\ conf[w2] < 2}

\* No guard and no other variable depends on what was sent to the hydration
\* state or to the clients, and every step that writes them writes another
\* variable too, so a run whose properties are about the rest of the state,
\* liveness included, need not tell them apart.
CacheView == <<configVars, readers, stopped, workers, wk, eventSink, act, cache>>
=============================================================================
