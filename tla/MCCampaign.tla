----------------------------- MODULE MCCampaign -----------------------------
(* Two campaigns on one ledger: one meets every configuration and result, the
   other competes with it for the file. *)
EXTENDS Campaign

CONSTANTS a, b

MCLast == [p \in Campaigns |-> IF p = a THEN 1 ELSE 0]

Plain ==
    [framework |-> "vllm", mode |-> "serve", filename |-> "plain", ids |-> "unique",
     artifacts |-> "runs", ledger |-> "inside", base |-> {}, parameters |-> {},
     minimum |-> 100, direction |-> "maximize", improvement |-> 0, regression |-> 0, noise |-> 0]

Exact(option) == [option |-> option, exact |-> TRUE]
Other(option) == [option |-> option, exact |-> FALSE]

Param(name) ==
    [name |-> name, exact |-> TRUE, dashed |-> FALSE, positive |-> TRUE, values |-> {}]

\* Gates the loader accepts, tuned so that each of improvement, regression and
\* noise decides some comparison of the results below.
Gated ==
    {[Plain EXCEPT !.direction = dir, !.improvement = t[1], !.regression = t[2], !.noise = t[3]] :
        dir \in {"maximize", "minimize"},
        t \in {<<0, 0, 0>>, <<50, 0, 0>>, <<0, 50, 0>>, <<0, 0, 50>>, <<25, 0, 50>>}}

\* Base arguments and parameters: one of them at a time, but for the last.
Arguments ==
    {<<base, {}>> : base \in {{}, {Exact("profile")}, {Exact("output_file")}, {Exact("num_prompts")},
                              {Other("output_file")}, {Other("profile")}}}
    \cup
    {<<{}, ps>> :
        ps \in {{Param("serve_cmd"), Param("bench_cmd")}, {Param("profile")},
                {Param("output_file")}, {Param("result_dir")}, {Param("output_json")},
                {Param("num_prompts")}, {[Param("num_prompts") EXCEPT !.dashed = TRUE]},
                {[Param("num_prompts") EXCEPT !.positive = FALSE]},
                {[Param("result_dir") EXCEPT !.exact = FALSE]},
                {[Param("save_detailed") EXCEPT !.values = {Exact("result_dir")}]},
                {[Param("save_detailed") EXCEPT !.values = {Exact("profile")}]}}}
    \cup
    {<<{Exact("num_prompts")}, {Param("serve_cmd"), Param("bench_cmd")}>>}

\* Configurations that only differ in the command they lead to.
Commanded ==
    {[Plain EXCEPT !.framework = m[1], !.mode = m[2], !.base = given[1], !.parameters = given[2]] :
        m \in {<<"sglang", "serve">>, <<"sglang", "latency">>, <<"vllm", "serve">>,
               <<"vllm", "latency">>, <<"vllm", "throughput">>, <<"vllm", "sweep">>},
        given \in Arguments}

\* Configurations that are refused, by the loader or by the gates.
Malformed ==
    {[Plain EXCEPT !.framework = "other"], [Plain EXCEPT !.filename = "path"],
     [Plain EXCEPT !.ids = "twice"], [Plain EXCEPT !.direction = "up"],
     [Plain EXCEPT !.noise = -1], [Plain EXCEPT !.artifacts = "home"],
     [Plain EXCEPT !.ledger = "outside"], [Plain EXCEPT !.regression = NaN],
     [Plain EXCEPT !.minimum = NaN]}

MCDocuments ==
    [p \in Campaigns |-> IF p = a THEN Gated \cup Commanded \cup Malformed ELSE {Plain}]

Result(completed, failed, perf) ==
    [exit |-> "zero", content |-> "object", completed |-> completed, failed |-> failed,
     requested |-> 2, perf |-> perf]

MCResults ==
    [p \in Campaigns |->
        IF p = a
        THEN {Result(2, 0, perf) : perf \in {0, 2, 3, 4}}
             \cup {Result(1, 1, 4), Result(2, None, 3), Result(NaN, 0, 3), Result(2, 0, NaN),
                   [Result(2, 0, 3) EXCEPT !.content = "absent"],
                   [Result(2, 0, 3) EXCEPT !.exit = "timeout"]}
        ELSE {Result(2, 0, 3)}]
=============================================================================
