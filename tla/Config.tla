------------------------------- MODULE Config -------------------------------
(***************************************************************************)
(* internal/config: from the decoded YAML file to the Config the service   *)
(* runs with.  normalize fills in defaults and trims, Validate collects    *)
(* what is wrong, newActionRegistry indexes the actions, and Load accepts  *)
(* or refuses.                                                             *)
(*                                                                         *)
(* A text is a word and what may be wrong with it: white space around it,  *)
(* a NUL byte, a '=', bytes that are not UTF-8 (!!binary) or U+FFFD in it. *)
(* A blank text has the word "".  An optional field is a sequence of       *)
(* length 0 or 1.                                                          *)
(***************************************************************************)
EXTENDS Integers, Sequences, FiniteSets, SequencesExt

Flaws == {"none", "padded", "nul", "eq", "bytes", "replaced"}
Text == [word : STRING, flaw : Flaws]

Clean(w) == [word |-> w, flaw |-> "none"]
Flawed(w, f) == [word |-> w, flaw |-> f]
Empty == Clean("")

TrimSpace(t) == IF t.flaw = "padded" THEN Clean(t.word) ELSE t
Blank(t) == TrimSpace(t) = Empty

(* if v := TrimSpace(...); v # "" { field = v } *)
OrDefault(t, w) == IF Blank(t) THEN Clean(w) ELSE TrimSpace(t)
OrElse(option, v) == IF option = <<>> THEN v ELSE option[1]

DefaultMaxOutputBytes == 65536

(* time.ParseDuration, on the texts the model knows, in seconds. *)
Durations == {"30s", "0s", "-30s"}
IsDuration(t) == t.flaw = "none" /\ t.word \in Durations
ParseDuration(w) == CASE w = "30s" -> 30 [] w = "0s" -> 0 [] w = "-30s" -> -30

-----------------------------------------------------------------------------
(* normalize *)

Timeout(a) ==
    LET t == TrimSpace(a.timeout)
    IN  IF IsDuration(t) THEN ParseDuration(t.word) ELSE 0

TimeoutErrors(a) ==
    IF ~Blank(a.timeout) /\ ~IsDuration(TrimSpace(a.timeout))
    THEN {"timeout must be a valid duration"} ELSE {}

(* The zero ActionMode. *)
NoMode == ""

Mode(a) ==
    LET hasCommand == a.command # <<>>
        hasShellCommand == ~Blank(a.shell_command)
    IN  CASE hasCommand /\ ~hasShellCommand -> "command"
          [] ~hasCommand /\ hasShellCommand -> "shell"
          [] OTHER -> NoMode

normalizeAction(a) ==
    [name |-> TrimSpace(a.name), mode |-> Mode(a),
     command |-> a.command, shell_command |-> a.shell_command,
     cwd |-> a.cwd, timeout |-> Timeout(a), env |-> a.env,
     concurrency_policy |-> OrDefault(a.concurrency_policy, "allow"),
     max_output_bytes |-> OrElse(a.max_output_bytes, DefaultMaxOutputBytes),
     enabled |-> OrElse(a.enabled, TRUE)]

(* Mutant: blank entries are dropped instead of kept for validation. *)
normalizeActionNamesSkippingBlank(names) ==
    SelectSeq([k \in DOMAIN names |-> TrimSpace(names[k])], LAMBDA t : t # Empty)

normalizeActionNames(names) == [k \in DOMAIN names |-> TrimSpace(names[k])]

normalizeToken(t) ==
    [name |-> TrimSpace(t.name), value |-> TrimSpace(t.value),
     actions |-> normalizeActionNames(t.actions)]

normalize(file) ==
    [server |-> [listen |-> OrDefault(file.listen, "127.0.0.1:9464"),
                 log_format |-> OrDefault(file.log_format, "json")],
     storage |-> [path |-> TrimSpace(file.path),
                  retention_days |-> file.retention_days, max_runs |-> file.max_runs],
     tokens |-> [k \in DOMAIN file.tokens |-> normalizeToken(file.tokens[k])],
     actions |-> [k \in DOMAIN file.actions |-> normalizeAction(file.actions[k])]]

-----------------------------------------------------------------------------
(* Validate: the set of messages. *)

When(condition, message) == IF condition THEN {message} ELSE {}

validateServer(server) ==
    When(Blank(server.listen), "server.listen is required")
    \cup When(server.log_format \notin {Clean("json"), Clean("text")},
              "server.log_format must be one of: json, text")

validateStorage(storage) ==
    When(Blank(storage.path), "storage.path is required")
    \cup When(storage.retention_days < 0, "storage.retention_days must be >= 0")
    \cup When(storage.max_runs < 0, "storage.max_runs must be >= 0")

validateEnv(env) ==
    When(\E k \in DOMAIN env : Blank(k) \/ k.flaw \in {"eq", "nul"} \/ env[k].flaw = "nul",
         "env")

(* Mutant: only an action without any command is refused. *)
validateActionSomeCommand(a) ==
    When(a.command = <<>> /\ Blank(a.shell_command), "command or shell_command")
    \cup When(\E k \in DOMAIN a.command : Blank(a.command[k]), "command[] must not be empty")
    \cup When(a.concurrency_policy \notin {Clean("allow"), Clean("reject")}, "concurrency_policy")
    \cup When(a.max_output_bytes < 0, "max_output_bytes")
    \cup When(a.cwd.flaw = "nul", "cwd must not contain NUL bytes")
    \cup validateEnv(a.env)

validateAction(a) ==
    When((a.command # <<>>) = ~Blank(a.shell_command), "command or shell_command")
    \cup When(\E k \in DOMAIN a.command : Blank(a.command[k]), "command[] must not be empty")
    \cup When(a.concurrency_policy \notin {Clean("allow"), Clean("reject")}, "concurrency_policy")
    \cup When(a.max_output_bytes < 0, "max_output_bytes")
    \cup When(a.cwd.flaw = "nul", "cwd must not contain NUL bytes")
    \cup validateEnv(a.env)

(* The loops that remember the names they have seen. *)
Names(items) == {items[k].name : k \in DOMAIN items}
validateNames(items) ==
    When(Empty \in Names(items), "name is required")
    \cup When(\E j, k \in DOMAIN items :
                  j < k /\ items[j].name = items[k].name /\ items[k].name # Empty,
              "name duplicates")

(* tokenformat.Validate: the model's well-formed tokens. *)
WellFormed(value) == value.flaw = "none" /\ value.word \in {"mhv1_A", "mhv1_B"}

validateToken(t, actionNames) ==
    When(~WellFormed(t.value), "value must be a valid Microhook token")
    \cup When(Empty \in Range(t.actions), "actions[] must not be empty")
    \cup When(~IsInjective(SelectSeq(t.actions, LAMBDA n : n # Empty)),
              "actions[] duplicates")
    \cup When(Range(t.actions) \ (actionNames \cup {Empty}) # {},
              "actions[] references unknown action")

Validate(cfg) ==
    LET actionNames == Names(cfg.actions) \ {Empty}
    IN  validateServer(cfg.server) \cup validateStorage(cfg.storage)
        \cup validateNames(cfg.actions)
        \cup (UNION {validateAction(cfg.actions[k]) : k \in DOMAIN cfg.actions})
        \cup validateNames(cfg.tokens)
        \cup (UNION {validateToken(cfg.tokens[k], actionNames) : k \in DOMAIN cfg.tokens})

-----------------------------------------------------------------------------
(* The registry, and Load. *)

RegistryErrors(actions) ==
    validateNames([k \in DOMAIN actions |-> [name |-> TrimSpace(actions[k].name)]])

(* byName; enabledByName is its restriction to the enabled actions. *)
newActionRegistry(actions) ==
    [n \in Names(actions) |->
        actions[CHOOSE k \in DOMAIN actions : actions[k].name = n]]
Enabled(registry) == {n \in DOMAIN registry : registry[n].enabled}

Errors(file) ==
    (UNION {TimeoutErrors(file.actions[k]) : k \in DOMAIN file.actions})
    \cup Validate(normalize(file))

(* os.ReadFile and the decoder (KnownFields) come first. *)
Loads(file) ==
    /\ file.form = "ok"
    /\ Errors(file) = {}
    /\ RegistryErrors(normalize(file).actions) = {}
=============================================================================
