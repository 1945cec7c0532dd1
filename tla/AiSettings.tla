------------------------------ MODULE AiSettings ------------------------------
(***************************************************************************)
(* What the stored AI-assistance setting and the configuration of the      *)
(* installation amount to (product_settings.py, ai_provider/location.py),  *)
(* and what four routes tell a client about it: the setting itself         *)
(* (api/v1/settings.py), the status (ai_status.py), and the checklist and  *)
(* the connection test (ai_readiness.py).  Words are left out.             *)
(***************************************************************************)

Providers == {"disabled", "mock", "llama_cpp"}

\* LLM_MODEL names a model, or is one whose name leaves no label to show once
\* its quantization is taken off, or is blank, or empty.
Models == {"named", "unlabelled", "blank", "empty"}

\* override: LLM_PROVIDER was configured, and not just left at its default.
\* here: the host of LLM_BASE_URL is this machine (_names_this_machine).
Deployments ==
    {d \in [override : BOOLEAN, provider : Providers, model : Models,
            here : BOOLEAN] : ~ d.override => d.provider = "disabled"}

\* A value that is not there, was reset, or cannot be read counts as unset.
StoredValues == {"on", "off", "unset"}

HasModel(d) == d.model \in {"named", "unlabelled"}

\* model_location_for
Location(provider, d) ==
    IF provider = "mock" \/ (provider = "llama_cpp" /\ d.here)
    THEN "local" ELSE "unknown"

\* Why a stored "on" cannot run.
Unavailable(d) ==
    IF ~ HasModel(d) THEN "no_runtime"
    ELSE IF Location("llama_cpp", d) # "local" THEN "not_local" ELSE "none"

\* Mutation: the address is not looked at.
ResolveAnywhere(d, stored) ==
    IF d.override
    THEN [enabled |-> d.provider # "disabled", source |-> "deployment",
          managed |-> TRUE, reason |-> "none", provider |-> d.provider]
    ELSE [enabled |-> stored = "on",
          source |-> IF stored = "unset" THEN "default" ELSE "stored",
          managed |-> FALSE, reason |-> "none",
          provider |-> IF stored = "on" /\ HasModel(d) THEN "llama_cpp"
                       ELSE d.provider]

\* resolve_ai_assistance: the override, then the stored value, then off.
\* provider: what every consumer of the settings is given.
Resolve(d, stored) ==
    LET reason == IF stored = "on" THEN Unavailable(d) ELSE "none" IN
    IF d.override
    THEN [enabled |-> d.provider # "disabled", source |-> "deployment",
          managed |-> TRUE, reason |-> "none", provider |-> d.provider]
    ELSE [enabled |-> stored = "on",
          source |-> IF stored = "unset" THEN "default" ELSE "stored",
          managed |-> FALSE, reason |-> reason,
          provider |-> IF stored = "on" /\ reason = "none" THEN "llama_cpp"
                       ELSE d.provider]

\* What the setting's own note says (_item).
Note(res) == IF res.managed THEN "managed" ELSE res.reason

\* GET /settings/advanced shows an address and a model if there is a runtime.
ShowsRuntime(res) == res.provider # "disabled"

\* probe_runtime: the factory refuses an empty model name, and a blank one
\* does not keep a runtime from answering.
Probe(res, d, up) ==
    \/ res.provider = "mock"
    \/ (res.provider = "llama_cpp" /\ d.model # "empty" /\ up)

\* describe_provenance: the mock provider shows whatever name it was given.
HasLabel(res, d) ==
    d.model = "named" \/ (res.provider = "mock" /\ d.model = "unlabelled")

\* compute_ai_status
Status(res, d, up) ==
    IF res.provider = "disabled"
    THEN [assistance |-> IF res.reason # "none" THEN "on" ELSE "off",
          state |-> IF res.reason # "none" THEN "unavailable" ELSE "disabled",
          location |-> "none", labelled |-> FALSE]
    ELSE [assistance |-> "on",
          state |-> IF Probe(res, d, up) THEN "ready" ELSE "unavailable",
          location |-> Location(res.provider, d), labelled |-> HasLabel(res, d)]

CheckKeys == {"assistance_on", "runtime_configured", "runtime_on_this_machine",
              "runtime_answers", "model_named"}

\* The checklist when the steps of `done` are complete and `key` is not: the
\* steps after it are not checked.
StopsAt(done, key) ==
    [k \in CheckKeys |-> IF k \in done THEN "done"
                         ELSE IF k = key THEN "todo" ELSE "not_checked"]

\* compute_readiness
Readiness(res, status) ==
    IF ~ res.enabled THEN StopsAt({}, "assistance_on")
    ELSE IF res.reason = "not_local"
    THEN StopsAt({"assistance_on", "runtime_configured"}, "runtime_on_this_machine")
    ELSE IF res.reason = "no_runtime" \/ status.location = "none"
    THEN StopsAt({"assistance_on"}, "runtime_configured")
    ELSE [assistance_on |-> "done",
          runtime_configured |-> "done",
          runtime_on_this_machine |->
              IF status.location = "local" THEN "done" ELSE "attention",
          runtime_answers |-> IF status.state = "ready" THEN "done" ELSE "todo",
          model_named |-> IF status.labelled THEN "done" ELSE "attention"]

Ready(checks) == \A k \in CheckKeys : checks[k] = "done"

NothingToProbe(res, d) ==
    \/ res.reason = "no_runtime"
    \/ res.provider = "disabled"
    \/ (res.provider # "mock" /\ ~ HasModel(d))

\* Mutation: an operator's own choice of address is not looked at.
RefusalUnlocated(res, d) ==
    IF ~ res.enabled THEN "assistance_off"
    ELSE IF res.reason = "not_local" THEN "not_local"
    ELSE IF NothingToProbe(res, d) THEN "no_runtime"
    ELSE "none"

\* run_connection_test, up to the gate: why nothing is probed.
Refusal(res, d) ==
    IF ~ res.enabled THEN "assistance_off"
    ELSE IF res.reason = "not_local" THEN "not_local"
    ELSE IF NothingToProbe(res, d) THEN "no_runtime"
    ELSE IF Location(res.provider, d) # "local" THEN "not_local"
    ELSE "none"
=============================================================================
