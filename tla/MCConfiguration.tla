---------------------------- MODULE MCConfiguration ----------------------------
(* Files with two settings, with services or with an empty section; environments *)
(* and overrides that complete, contradict or spoil them.                        *)
EXTENDS Configuration, TLC

\* The dictionary of a set of <<section, field, value>>.
MCDict(S) == [s \in {t[1] : t \in S} |->
    Dict([f \in {t[2] : t \in {u \in S : u[1] = s}} |->
            Leaf((CHOOSE t \in S : t[1] = s /\ t[2] = f)[3])])]
MCServices(l) == "services" :> Leaf(l)

MCFiles == {NoFile, <<>>, MCServices(<<[name |-> "a", port |-> "65535"]>>),
    MCServices(<<[name |-> "a", port |-> "8080"], [name |-> "a", port |-> "9090"]>>),
    "runtime" :> Leaf("None"),
    MCDict({<<"runtime", "thread_pool_size", "8080">>, <<"logging", "level", "debug">>}),
    MCDict({<<"logging", "output", "file">>, <<"logging", "file_path", "p">>}),
    MCDict({<<"logging", "output", "file">>, <<"logging", "colour", "p">>}),
    MCDict({<<"observability", "enable_tracing", "True">>, <<"observability", "tracing_endpoint", "e">>}),
    MCDict({<<"observability", "enable_tracing", "True">>, <<"logging", "output", "file">>})}

MCEnvironments == {<<>>, <<"runtime">> :> "1", <<"metrics", "port">> :> "1",
    <<"runtime", "thread_pool_size">> :> "0", <<"runtime", "thread_pool_size">> :> "1",
    <<"logging", "file_path">> :> "q", <<"logging", "level">> :> "DEBUG",
    <<"observability", "tracing_endpoint">> :> "no",
    <<"observability", "enable_tracing">> :> "yes" @@ <<"observability", "metrics_port">> :> "0"}

MCOverrides == {<<>>, "logging" :> Leaf("None"), MCServices(<<[name |-> "b", port |-> "1"]>>),
    MCDict({<<"runtime", "thread_pool_size", "10">>, <<"logging", "file_path", "r">>}),
    MCDict({<<"observability", "metrics_port", "65536">>}),
    MCDict({<<"observability", "metrics_port", "65535">>, <<"observability", "tracing_endpoint", "f">>}),
    MCDict({<<"logging", "level", "error">>, <<"logging", "output", "stdout">>})}
===============================================================================
