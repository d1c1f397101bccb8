------------------------------- MODULE MCCli --------------------------------
(***************************************************************************)
(* Instances of Cli for TLC: every file within MaxEdits changes of a valid *)
(* one, each field with the values that matter to somebody.                *)
(***************************************************************************)
EXTENDS Cli

Action == [name |-> Clean("hello"), command |-> <<Clean("true")>>,
           shell_command |-> Clean(""), cwd |-> Clean(""), timeout |-> Clean(""),
           env |-> <<>>, concurrency_policy |-> Clean(""),
           max_output_bytes |-> <<>>, enabled |-> <<>>]
Token == [name |-> Clean("ops"), value |-> Clean("mhv1_A"), actions |-> <<Clean("hello")>>]

Example ==
    [form |-> "ok", listen |-> Clean(""), log_format |-> Clean(""),
     path |-> Clean("runs.db"), retention_days |-> 0, max_runs |-> 0,
     tokens |-> <<Token>>, actions |-> <<Action>>]

AnyFileValues ==
    [form |-> {"missing", "malformed"},
     listen |-> {Flawed("", "padded"), Clean("localhost:1")},
     log_format |-> {Flawed("text", "padded"), Clean("xml")},
     path |-> {Clean(""), Flawed("", "padded")},
     retention_days |-> {-1, 1}, max_runs |-> {-1, 1},
     tokens |-> {<<>>}, actions |-> {<<>>}]

Env(key, value) == [k \in {key} |-> value]

AnyActionValues ==
    [name |-> {Clean("backup"), Flawed("hello", "padded"), Flawed("", "padded")},
     command |-> {<<>>, <<Clean("tar"), Flawed("", "padded")>>, <<Flawed("true", "bytes")>>},
     shell_command |-> {Clean("date"), Flawed("", "padded")},
     cwd |-> {Flawed("home", "nul")},
     timeout |-> {Clean("30s"), Flawed("-30s", "padded"), Clean("soon")},
     env |-> {Env(Clean("TZ"), Clean("UTC")), Env(Clean("PATH"), Clean("bin")),
              Env(Clean("MICROHOOK_ACTION"), Clean("other")),
              Env(Flawed("PATH", "eq"), Clean("bin")), Env(Flawed("", "padded"), Clean("x")),
              Env(Clean("TZ"), Flawed("UTC", "bytes")), Env(Clean("TZ"), Flawed("UTC", "nul")),
              Env(Flawed("TZ", "nul"), Clean("UTC"))},
     concurrency_policy |-> {Flawed("reject", "padded"), Clean("queue")},
     max_output_bytes |-> {<<0>>, <<-1>>},
     enabled |-> {<<FALSE>>}]

AnyTokenValues ==
    [name |-> {Clean("ci"), Flawed("ops", "padded"), Clean("")},
     value |-> {Flawed("mhv1_B", "padded"), Clean("secret"), Clean("")},
     actions |-> {<<>>, <<Flawed("", "padded")>>, <<Flawed("hello", "padded")>>,
                  <<Clean("hello"), Flawed("hello", "padded")>>, <<Clean("backup")>>,
                  <<Clean("hello"), Clean("")>>}]

(* Only the age limit changes. *)
DaysOnly == [retention_days |-> 0..13]
Nothing == [f \in {} |-> {}]
BlankPath == Clean("")
=============================================================================
