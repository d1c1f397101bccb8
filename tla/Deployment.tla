----------------------------- MODULE Deployment -----------------------------
(***************************************************************************)
(* What the rest of microhook makes of a configuration that Load accepted: *)
(* auth.New and Identity.AllowsAction, the registry lookups of Invoke, and *)
(* buildCommand and buildEnv of the runner.  Each checks again, or takes   *)
(* for granted, something internal/config is responsible for; the          *)
(* predicates at the end say that the two sides agree.                     *)
(***************************************************************************)
EXTENDS Config

CONSTANTS
    ServicePath,   \* PATH in the environment of the service: a text, maybe blank
    ExampleFile,   \* the file the operator starts from
    FileValues,    \* FileValues[f]: what may be written into field f of the file
    ActionValues,  \* the same for the fields of an action
    TokenValues,   \* the same for the fields of a token
    MaxEdits,      \* bound on the changes to the file
    MaxItems       \* bound on the actions, and on the tokens

ASSUME EditsAssumption == MaxEdits \in Nat

-----------------------------------------------------------------------------
(* The types of the decoder's structs: fileConfig and what it is made of.  A
   field that is not in the file has its zero value. *)

IsStruct(s, fields) == s = [f \in fields |-> s[f]]
IsMap(m) == IsStruct(m, DOMAIN m) /\ DOMAIN m \subseteq Text /\ Range(m) \subseteq Text
IsSlice(s) == s \in Seq(Range(s))

ActionFields == {"name", "command", "shell_command", "cwd", "timeout", "env",
                 "concurrency_policy", "max_output_bytes", "enabled"}
ActionField(f, v) ==
    CASE f = "command" -> v \in Seq(Text)
      [] f = "env" -> IsMap(v)
      [] f = "max_output_bytes" -> v \in Seq(Int) /\ Len(v) <= 1
      [] f = "enabled" -> v \in Seq(BOOLEAN) /\ Len(v) <= 1
      [] OTHER -> v \in Text
IsAction(a) == IsStruct(a, ActionFields) /\ \A f \in ActionFields : ActionField(f, a[f])

TokenFields == {"name", "value", "actions"}
TokenField(f, v) == IF f = "actions" THEN v \in Seq(Text) ELSE v \in Text
IsToken(t) == IsStruct(t, TokenFields) /\ \A f \in TokenFields : TokenField(f, t[f])

FileFields == {"form", "listen", "log_format", "path", "retention_days", "max_runs",
               "tokens", "actions"}
FileField(f, v) ==
    CASE f = "form" -> v \in {"ok", "missing", "malformed"}
      [] f \in {"retention_days", "max_runs"} -> v \in Int
      [] f = "tokens" -> IsSlice(v) /\ \A k \in DOMAIN v : IsToken(v[k])
      [] f = "actions" -> IsSlice(v) /\ \A k \in DOMAIN v : IsAction(v[k])
      [] OTHER -> v \in Text
IsFile(s) == IsStruct(s, FileFields) /\ \A f \in FileFields : FileField(f, s[f])

(* Whatever is written into the file, the decoder makes these structs of it. *)
ASSUME FileAssumption ==
    /\ IsFile(ExampleFile)
    /\ \A f \in DOMAIN FileValues :
          f \in FileFields /\ \A v \in FileValues[f] : FileField(f, v)
    /\ \A f \in DOMAIN ActionValues :
          f \in ActionFields /\ \A v \in ActionValues[f] : ActionField(f, v)
    /\ \A f \in DOMAIN TokenValues :
          f \in TokenFields /\ \A v \in TokenValues[f] : TokenField(f, v)

-----------------------------------------------------------------------------
VARIABLES
    file,   \* the configuration file, as the decoder sees it
    edits   \* changes made to it

-----------------------------------------------------------------------------
(* The operator and a text editor. *)

EditInit == file = ExampleFile /\ edits = 0

EditFile(f) == \E v \in FileValues[f] : file' = [file EXCEPT ![f] = v]
EditAction(f) == \E k \in DOMAIN file.actions, v \in ActionValues[f] :
                    file' = [file EXCEPT !.actions[k][f] = v]
EditToken(f) == \E k \in DOMAIN file.tokens, v \in TokenValues[f] :
                    file' = [file EXCEPT !.tokens[k][f] = v]

(* Copy and paste. *)
AddAction == /\ Len(file.actions) \in 1..(MaxItems - 1)
             /\ file' = [file EXCEPT !.actions = Append(@, Last(@))]
AddToken == /\ Len(file.tokens) \in 1..(MaxItems - 1)
            /\ file' = [file EXCEPT !.tokens = Append(@, Last(@))]

Edit ==
    /\ edits < MaxEdits
    /\ edits' = edits + 1
    /\ \/ \E f \in DOMAIN FileValues : EditFile(f)
       \/ \E f \in DOMAIN ActionValues : EditAction(f)
       \/ \E f \in DOMAIN TokenValues : EditToken(f)
       \/ AddAction \/ AddToken

-----------------------------------------------------------------------------
(* The packages that use the configuration. *)

(* auth.New *)
AuthNewFails(cfg) ==
    \E k \in DOMAIN cfg.tokens :
        cfg.tokens[k].name = Empty \/ ~WellFormed(cfg.tokens[k].value)

(* newIdentity and AllowsAction, asked with the name AuthorizeAction trims. *)
AllowsAction(token, name) ==
    token.actions = <<>> \/ TrimSpace(name) \in Range(token.actions)

(* Service.Invoke up to invokeAllow and invokeReject. *)
Invoked(registry, name) ==
    LET n == TrimSpace(name)
    IN  CASE n = Empty -> "error"
          [] n \notin DOMAIN registry -> "not found"
          [] ~registry[n].enabled -> "disabled"
          [] registry[n].concurrency_policy = Clean("allow") -> "allow"
          [] registry[n].concurrency_policy = Clean("reject") -> "reject"
          [] OTHER -> "error"

(* The run is created with a snapshot of the action and executes what comes
   back from the database.  JSON keeps every string that is UTF-8 and puts
   U+FFFD for the bytes of one that is not. *)
JSONRoundTrip(t) == IF t.flaw = "bytes" THEN Flawed(t.word, "replaced") ELSE t

validateActionSnapshot(a) ==
    a.mode # NoMode /\ ~Blank(a.concurrency_policy) /\ a.max_output_bytes >= 0

storedEnv(env) ==
    [k \in {JSONRoundTrip(j) : j \in DOMAIN env} |->
        JSONRoundTrip(env[CHOOSE j \in DOMAIN env : JSONRoundTrip(j) = k])]

JSONTexts(a) == Range(a.command) \cup DOMAIN a.env \cup Range(a.env)

actionFromStoredRun(a) ==
    [a EXCEPT !.command = [k \in DOMAIN @ |-> JSONRoundTrip(@[k])], !.env = storedEnv(@)]

buildCommand(a) ==
    CASE a.mode = "command" /\ a.command # <<>> -> a.command
      [] a.mode = "shell" /\ ~Blank(a.shell_command) ->
            <<Clean("/bin/sh"), Clean("-c"), a.shell_command>>
      [] OTHER -> <<>>

Reserved == {"MICROHOOK_RUN_ID", "MICROHOOK_ACTION", "MICROHOOK_REQUEST_ID"}
reservedEnv == [k \in {Clean(w) : w \in Reserved} |-> Clean("microhook")]
pathEnv == [k \in {Clean("PATH")} |->
              IF Blank(ServicePath) THEN Clean("default path") ELSE ServicePath]

(* g wins. *)
Over(f, g) == [k \in DOMAIN f \cup DOMAIN g |-> IF k \in DOMAIN g THEN g[k] ELSE f[k]]

(* Mutant: the configured variables are copied last. *)
buildEnvConfiguredLast(configured) == Over(Over(pathEnv, reservedEnv), configured)

(* PATH, then the configured variables, then microhook's own. *)
buildEnv(configured) == Over(Over(pathEnv, configured), reservedEnv)

(* getenv in the child, given the strings key=value (a NUL byte would end one
   early, or fail the start): the name ends at the first '='. *)
Getenv(env, w) ==
    {IF k.flaw = "eq" THEN Flawed(env[k].word, "eq") ELSE env[k] :
        k \in {k \in DOMAIN env : k.word = w /\ k.flaw \in {"none", "eq"}}}

-----------------------------------------------------------------------------
(* A configuration that Load accepted leaves nothing for the later checks to
   find: authentication starts, every action answers to its own name, with a
   policy Invoke knows or because it is disabled, and its stored copy, which
   is the action as long as its texts are UTF-8, is one that CreateRun takes
   and buildCommand can make an argument vector of. *)
AcceptedIsUsable ==
    LET cfg == normalize(file)
        registry == newActionRegistry(cfg.actions)
    IN  Loads(file) =>
          /\ ~AuthNewFails(cfg)
          /\ \A k \in DOMAIN file.actions :
               /\ registry[TrimSpace(file.actions[k].name)] = cfg.actions[k]
               /\ Invoked(registry, file.actions[k].name) \in {"allow", "reject", "disabled"}
               /\ validateActionSnapshot(cfg.actions[k])
               /\ buildCommand(actionFromStoredRun(cfg.actions[k])) # <<>>
               /\ \/ actionFromStoredRun(cfg.actions[k]) = cfg.actions[k]
                  \/ \E t \in JSONTexts(cfg.actions[k]) : t.flaw = "bytes"

(* A token allows exactly the actions its entry in the file names, and every
   action only if the entry names none: no way of writing a name, the blank
   one included, widens or narrows a scope unnoticed. *)
ScopeAsWritten ==
    LET cfg == normalize(file)
    IN  Loads(file) =>
          \A k \in DOMAIN file.tokens, n \in Names(file.actions) :
             AllowsAction(cfg.tokens[k], n) <=>
                \/ file.tokens[k].actions = <<>>
                \/ \E t \in Range(file.tokens[k].actions) : TrimSpace(t) = TrimSpace(n)

(* The child of an accepted action sees each variable once: microhook's own
   whatever the file says, the configured ones as written if they are UTF-8,
   and a PATH. *)
EnvironmentAsWritten ==
    LET cfg == normalize(file)
    IN  Loads(file) =>
          \A k \in DOMAIN cfg.actions :
             LET env == cfg.actions[k].env
                 child == buildEnv(actionFromStoredRun(cfg.actions[k]).env)
             IN  /\ \A w \in Reserved : Getenv(child, w) = {Clean("microhook")}
                 /\ \A t \in DOMAIN env :
                      t.flaw = "none" /\ t.word \notin Reserved /\ env[t].flaw # "bytes"
                      => Getenv(child, t.word) = {env[t]}
                 /\ Cardinality(Getenv(child, "PATH")) = 1
=============================================================================
