------------------------------ MODULE CliProofs ------------------------------
(***************************************************************************)
(* Theorems about the commands, for any file, any changes to it and any    *)
(* sequence of command lines, signals and failures.                        *)
(***************************************************************************)
EXTENDS Cli, SequenceTheorems, FiniteSetTheorems, TLAPS

InServe == {"retention", "recovery", "listen", "serving", "draining", "drained", "overrun"}

(* A command that runs has delivered nothing and has no exit code. *)
Running == at # "shell" => code = -1 /\ ~delivered

(* Only a well-formed `serve` on a file that loads gets past its first step,
   and it holds the Store from there until Shutdown has returned. *)
Serving ==
    /\ at \in InServe => cmd = [name |-> "serve", wellFormed |-> TRUE] /\ Loads(file)
    /\ at \in InServe \ {"drained", "overrun"} <=> store = "open"
    /\ at \in {"drained", "overrun"} => store = "closed"
    /\ at = "parsed" => store = "none"

CliInv == Running /\ Serving /\ ExitCodeTruthful

-----------------------------------------------------------------------------
(* A slice is a function on 1..n. *)
LEMMA SliceIsFunction ==
    ASSUME NEW s
    PROVE  IsSlice(s) <=> \E n \in Nat : IsStruct(s, 1..n)
  <1>1. ASSUME IsSlice(s)
        PROVE  \E n \in Nat : IsStruct(s, 1..n)
    <2>1. PICK n \in Nat : s \in [1..n -> Range(s)]
      BY <1>1, SeqDef DEF IsSlice
    <2> QED
      BY <2>1 DEF IsStruct
  <1>2. ASSUME NEW n \in Nat, IsStruct(s, 1..n)
        PROVE  IsSlice(s)
    <2>1. DOMAIN s = 1..n
      BY <1>2 DEF IsStruct
    <2>2. s \in [1..n -> Range(s)]
      BY <1>2, <2>1 DEF IsStruct, Range
    <2> QED
      BY <2>2, SeqDef DEF IsSlice
  <1> QED
    BY <1>1, <1>2

(* Writing into a field of a struct. *)
LEMMA StructExcept ==
    ASSUME NEW s, NEW fields, IsStruct(s, fields), NEW f \in fields, NEW v
    PROVE  /\ IsStruct([s EXCEPT ![f] = v], fields)
           /\ [s EXCEPT ![f] = v][f] = v
           /\ \A g \in fields : g # f => [s EXCEPT ![f] = v][g] = s[g]
  <1>1. DOMAIN s = fields
    BY DEF IsStruct
  <1> QED
    BY <1>1 DEF IsStruct

LEMMA WriteFile ==
    ASSUME NEW s, IsFile(s), NEW f \in FileFields, NEW v, FileField(f, v)
    PROVE  IsFile([s EXCEPT ![f] = v])
  <1>1. /\ IsStruct(s, FileFields)
        /\ \A g \in FileFields : FileField(g, s[g])
    BY DEF IsFile
  <1>2. /\ IsStruct([s EXCEPT ![f] = v], FileFields)
        /\ [s EXCEPT ![f] = v][f] = v
        /\ \A g \in FileFields : g # f => [s EXCEPT ![f] = v][g] = s[g]
    BY <1>1, StructExcept
  <1> QED
    BY <1>1, <1>2 DEF IsFile

LEMMA WriteAction ==
    ASSUME NEW a, IsAction(a), NEW f \in ActionFields, NEW v, ActionField(f, v)
    PROVE  IsAction([a EXCEPT ![f] = v])
  <1>1. /\ IsStruct(a, ActionFields)
        /\ \A g \in ActionFields : ActionField(g, a[g])
    BY DEF IsAction
  <1>2. /\ IsStruct([a EXCEPT ![f] = v], ActionFields)
        /\ [a EXCEPT ![f] = v][f] = v
        /\ \A g \in ActionFields : g # f => [a EXCEPT ![f] = v][g] = a[g]
    BY <1>1, StructExcept
  <1> QED
    BY <1>1, <1>2 DEF IsAction

LEMMA WriteToken ==
    ASSUME NEW t, IsToken(t), NEW f \in TokenFields, NEW v, TokenField(f, v)
    PROVE  IsToken([t EXCEPT ![f] = v])
  <1>1. /\ IsStruct(t, TokenFields)
        /\ \A g \in TokenFields : TokenField(g, t[g])
    BY DEF IsToken
  <1>2. /\ IsStruct([t EXCEPT ![f] = v], TokenFields)
        /\ [t EXCEPT ![f] = v][f] = v
        /\ \A g \in TokenFields : g # f => [t EXCEPT ![f] = v][g] = t[g]
    BY <1>1, StructExcept
  <1> QED
    BY <1>1, <1>2 DEF IsToken

(* Replacing, or copying the last, item of a slice. *)
LEMMA SliceExcept ==
    ASSUME NEW s, IsSlice(s), NEW k \in DOMAIN s, NEW v
    PROVE  /\ IsSlice([s EXCEPT ![k] = v])
           /\ DOMAIN [s EXCEPT ![k] = v] = DOMAIN s
           /\ \A j \in DOMAIN s : [s EXCEPT ![k] = v][j] = IF j = k THEN v ELSE s[j]
  <1>1. PICK n \in Nat : IsStruct(s, 1..n)
    BY SliceIsFunction
  <1>2. DOMAIN s = 1..n
    BY <1>1 DEF IsStruct
  <1>3. IsStruct([s EXCEPT ![k] = v], 1..n)
    BY <1>1, <1>2, StructExcept
  <1>4. IsSlice([s EXCEPT ![k] = v])
    BY <1>3, SliceIsFunction
  <1> QED
    BY <1>1, <1>2, <1>3, <1>4 DEF IsStruct

LEMMA SeqIsSlice ==
    ASSUME NEW S, NEW s \in Seq(S)
    PROVE  IsSlice(s) /\ Range(s) \subseteq S
  <1>1. PICK n \in Nat : s \in [1..n -> S]
    BY SeqDef
  <1>2. IsStruct(s, 1..n)
    BY <1>1 DEF IsStruct
  <1> QED
    BY <1>1, <1>2, SliceIsFunction DEF Range

LEMMA SliceAppend ==
    ASSUME NEW s, IsSlice(s), Len(s) >= 1
    PROVE  /\ IsSlice(Append(s, Last(s)))
           /\ Range(Append(s, Last(s))) \subseteq Range(s)
  <1>1. s \in Seq(Range(s))
    BY DEF IsSlice
  <1>2. Last(s) \in Range(s)
    BY <1>1 DEF Last, Range
  <1>3. Append(s, Last(s)) \in Seq(Range(s))
    BY <1>1, <1>2
  <1> QED
    BY <1>3, SeqIsSlice

(* A change to the file leaves it one the decoder can have made. *)
LEMMA EditKeepsFile ==
    ASSUME IsFile(file), Edit
    PROVE  IsFile(file')
  <1>1. /\ IsSlice(file.actions) /\ \A k \in DOMAIN file.actions : IsAction(file.actions[k])
        /\ IsSlice(file.tokens) /\ \A k \in DOMAIN file.tokens : IsToken(file.tokens[k])
    <2>1. FileField("actions", file.actions) /\ FileField("tokens", file.tokens)
      BY DEF IsFile, FileFields
    <2> QED
      BY <2>1 DEF FileField
  <1>2. ASSUME NEW v, IsSlice(v), \A k \in DOMAIN v : IsAction(v[k])
        PROVE  IsFile([file EXCEPT !["actions"] = v])
    <2>1. FileField("actions", v)
      BY <1>2 DEF FileField
    <2> QED
      BY <2>1, WriteFile DEF FileFields
  <1>3. ASSUME NEW v, IsSlice(v), \A k \in DOMAIN v : IsToken(v[k])
        PROVE  IsFile([file EXCEPT !["tokens"] = v])
    <2>1. FileField("tokens", v)
      BY <1>3 DEF FileField
    <2> QED
      BY <2>1, WriteFile DEF FileFields
  <1>4. ASSUME NEW f \in DOMAIN FileValues, EditFile(f)
        PROVE  IsFile(file')
    <2>1. PICK v \in FileValues[f] : file' = [file EXCEPT ![f] = v]
      BY <1>4 DEF EditFile
    <2>2. f \in FileFields /\ FileField(f, v)
      BY FileAssumption
    <2> QED
      BY <2>1, <2>2, WriteFile
  <1>5. ASSUME NEW f \in DOMAIN ActionValues, EditAction(f)
        PROVE  IsFile(file')
    <2>1. PICK k \in DOMAIN file.actions, v \in ActionValues[f] :
              file' = [file EXCEPT !.actions[k][f] = v]
      BY <1>5 DEF EditAction
    <2> DEFINE a == [file.actions[k] EXCEPT ![f] = v]
               s == [file.actions EXCEPT ![k] = a]
    <2>2. IsAction(a)
      BY <1>1, FileAssumption, WriteAction
    <2>3. file' = [file EXCEPT !["actions"] = s]
      BY <2>1
    <2> HIDE DEF a
    <2>4. IsSlice(s) /\ DOMAIN s = DOMAIN file.actions
      BY <1>1, SliceExcept
    <2>5. \A j \in DOMAIN s : s[j] = IF j = k THEN a ELSE file.actions[j]
      BY <1>1, <2>4, SliceExcept
    <2> HIDE DEF s
    <2>6. \A j \in DOMAIN s : IsAction(s[j])
      BY <1>1, <2>2, <2>4, <2>5
    <2> QED
      BY <1>2, <2>3, <2>4, <2>6
  <1>6. ASSUME NEW f \in DOMAIN TokenValues, EditToken(f)
        PROVE  IsFile(file')
    <2>1. PICK k \in DOMAIN file.tokens, v \in TokenValues[f] :
              file' = [file EXCEPT !.tokens[k][f] = v]
      BY <1>6 DEF EditToken
    <2> DEFINE t == [file.tokens[k] EXCEPT ![f] = v]
               s == [file.tokens EXCEPT ![k] = t]
    <2>2. IsToken(t)
      BY <1>1, FileAssumption, WriteToken
    <2>3. file' = [file EXCEPT !["tokens"] = s]
      BY <2>1
    <2> HIDE DEF t
    <2>4. IsSlice(s) /\ DOMAIN s = DOMAIN file.tokens
      BY <1>1, SliceExcept
    <2>5. \A j \in DOMAIN s : s[j] = IF j = k THEN t ELSE file.tokens[j]
      BY <1>1, <2>4, SliceExcept
    <2> HIDE DEF s
    <2>6. \A j \in DOMAIN s : IsToken(s[j])
      BY <1>1, <2>2, <2>4, <2>5
    <2> QED
      BY <1>3, <2>3, <2>4, <2>6
  <1>7. CASE AddAction
    <2> DEFINE s == Append(file.actions, Last(file.actions))
    <2>1. Len(file.actions) \in 1..(MaxItems - 1) /\ file' = [file EXCEPT !["actions"] = s]
      BY <1>7 DEF AddAction
    <2>2. IsSlice(s) /\ Range(s) \subseteq Range(file.actions)
      BY <1>1, <2>1, SliceAppend
    <2> HIDE DEF s
    <2>3. \A k \in DOMAIN s : IsAction(s[k])
      BY <1>1, <2>2 DEF Range
    <2> QED
      BY <1>2, <2>1, <2>2, <2>3
  <1>8. CASE AddToken
    <2> DEFINE s == Append(file.tokens, Last(file.tokens))
    <2>1. Len(file.tokens) \in 1..(MaxItems - 1) /\ file' = [file EXCEPT !["tokens"] = s]
      BY <1>8 DEF AddToken
    <2>2. IsSlice(s) /\ Range(s) \subseteq Range(file.tokens)
      BY <1>1, <2>1, SliceAppend
    <2> HIDE DEF s
    <2>3. \A k \in DOMAIN s : IsToken(s[k])
      BY <1>1, <2>2 DEF Range
    <2> QED
      BY <1>3, <2>1, <2>2, <2>3
  <1> QED
    BY <1>4, <1>5, <1>6, <1>7, <1>8 DEF Edit

-----------------------------------------------------------------------------
(* Nothing that Validate looks at is wrong with a file that loads. *)
LEMMA ValidatedParts ==
    ASSUME NEW cfg, Validate(cfg) = {}
    PROVE  /\ validateNames(cfg.actions) = {} /\ validateNames(cfg.tokens) = {}
           /\ UNION {validateAction(cfg.actions[k]) : k \in DOMAIN cfg.actions} = {}
           /\ UNION {validateToken(cfg.tokens[k], Names(cfg.actions) \ {Empty}) :
                        k \in DOMAIN cfg.tokens} = {}
  <1> DEFINE A == validateServer(cfg.server)
             B == validateStorage(cfg.storage)
             C == validateNames(cfg.actions)
             D == UNION {validateAction(cfg.actions[k]) : k \in DOMAIN cfg.actions}
             E == validateNames(cfg.tokens)
             F == UNION {validateToken(cfg.tokens[k], Names(cfg.actions) \ {Empty}) :
                            k \in DOMAIN cfg.tokens}
  <1>1. Validate(cfg) = A \cup B \cup C \cup D \cup E \cup F
    BY DEF Validate
  <1> HIDE DEF A, B, C, D, E, F
  <1>2. C = {} /\ D = {} /\ E = {} /\ F = {}
    BY <1>1
  <1> QED
    BY <1>2 DEF C, D, E, F

LEMMA AcceptedFile ==
    ASSUME Loads(file)
    PROVE  Validate(normalize(file)) = {}
  <1> DEFINE A == UNION {TimeoutErrors(file.actions[k]) : k \in DOMAIN file.actions}
             B == Validate(normalize(file))
  <1>1. A \cup B = {}
    BY DEF Loads, Errors
  <1> HIDE DEF A, B
  <1>2. B = {}
    BY <1>1
  <1> QED
    BY <1>2 DEF B

(* What Load has checked of an action. *)
LEMMA AcceptedAction ==
    ASSUME Loads(file), NEW k \in DOMAIN file.actions
    PROVE  LET a == normalize(file).actions[k]
           IN  /\ a = normalizeAction(file.actions[k])
               /\ (a.command # <<>>) # ~Blank(a.shell_command)
               /\ a.concurrency_policy \in {Clean("allow"), Clean("reject")}
               /\ ~(a.max_output_bytes < 0)
               /\ validateEnv(a.env) = {}
  <1> DEFINE cfg == normalize(file)
             a == normalizeAction(file.actions[k])
  <1>1. k \in DOMAIN cfg.actions /\ cfg.actions[k] = a
    BY DEF normalize
  <1>2. Validate(cfg) = {}
    BY AcceptedFile
  <1> HIDE DEF cfg, a
  <1>3. validateAction(cfg.actions[k]) = {}
    <2>1. validateAction(cfg.actions[k]) \in {validateAction(cfg.actions[j]) : j \in DOMAIN cfg.actions}
      BY <1>1
    <2>2. UNION {validateAction(cfg.actions[j]) : j \in DOMAIN cfg.actions} = {}
      BY <1>2, ValidatedParts
    <2> QED
      BY <2>1, <2>2
  <1>4. validateAction(a) = {}
    BY <1>1, <1>3
  <1>5. /\ When((a.command # <<>>) = ~Blank(a.shell_command), "command or shell_command") = {}
        /\ When(a.concurrency_policy \notin {Clean("allow"), Clean("reject")},
                "concurrency_policy") = {}
        /\ When(a.max_output_bytes < 0, "max_output_bytes") = {}
        /\ validateEnv(a.env) = {}
    BY <1>4 DEF validateAction
  <1>6. /\ ~((a.command # <<>>) = ~Blank(a.shell_command))
        /\ a.concurrency_policy \in {Clean("allow"), Clean("reject")}
        /\ ~(a.max_output_bytes < 0)
    BY <1>5 DEF When
  <1> QED
    BY <1>1, <1>5, <1>6 DEF cfg, a

(* Names are there, and no two are the same. *)
LEMMA AcceptedNames ==
    ASSUME NEW items, validateNames(items) = {}, IsSlice(items)
    PROVE  /\ \A k \in DOMAIN items : items[k].name # Empty
           /\ \A j, k \in DOMAIN items : items[j].name = items[k].name => j = k
  <1>1. /\ ~(Empty \in Names(items))
        /\ ~(\E j, k \in DOMAIN items :
                  j < k /\ items[j].name = items[k].name /\ items[k].name # Empty)
    BY DEF validateNames, When
  <1>2. \A k \in DOMAIN items : items[k].name # Empty
    BY <1>1 DEF Names
  <1>3. PICK n \in Nat : DOMAIN items = 1..n
    BY SliceIsFunction DEF IsStruct
  <1>4. ASSUME NEW j \in 1..n, NEW k \in 1..n, j # k
        PROVE  j < k \/ k < j
    BY <1>4
  <1> QED
    BY <1>1, <1>2, <1>3, <1>4

(* The path from the entries of a token to its set of names changes no
   scope. *)
LEMMA ScopeIsAsWritten == IsFile(file) => ScopeAsWritten
  <1> SUFFICES ASSUME IsFile(file), NEW k \in DOMAIN file.tokens, NEW n
               PROVE  AllowsAction(normalize(file).tokens[k], n) <=>
                        \/ file.tokens[k].actions = <<>>
                        \/ \E t \in Range(file.tokens[k].actions) : TrimSpace(t) = TrimSpace(n)
    BY DEF ScopeAsWritten
  <1> DEFINE written == file.tokens[k].actions
             names == normalizeActionNames(written)
  <1>1. written \in Seq(Text)
    <2>1. FileField("tokens", file.tokens)
      BY DEF IsFile, FileFields
    <2>2. IsToken(file.tokens[k])
      BY <2>1 DEF FileField
    <2>3. TokenField("actions", file.tokens[k]["actions"])
      BY <2>2 DEF IsToken, TokenFields
    <2> QED
      BY <2>3 DEF TokenField
  <1>2. normalize(file).tokens[k].actions = names
    BY DEF normalize, normalizeToken
  <1> HIDE DEF written
  <1>3. names = <<>> <=> written = <<>>
    BY <1>1 DEF normalizeActionNames
  <1>4. Range(names) = {TrimSpace(t) : t \in Range(written)}
    BY DEF normalizeActionNames, Range
  <1> HIDE DEF names
  <1>5. AllowsAction(normalize(file).tokens[k], n) <=>
            names = <<>> \/ TrimSpace(n) \in Range(names)
    BY <1>2 DEF AllowsAction
  <1> QED
    BY <1>3, <1>4, <1>5 DEF written

(* The configuration has the slices of the file. *)
LEMMA NormalizedSlices ==
    ASSUME IsFile(file)
    PROVE  /\ IsSlice(normalize(file).actions) /\ IsSlice(normalize(file).tokens)
           /\ DOMAIN normalize(file).actions = DOMAIN file.actions
           /\ DOMAIN normalize(file).tokens = DOMAIN file.tokens
  <1>1. IsSlice(file.actions) /\ IsSlice(file.tokens)
    <2>1. FileField("actions", file["actions"]) /\ FileField("tokens", file["tokens"])
      BY DEF IsFile, FileFields
    <2> QED
      BY <2>1 DEF FileField
  <1>2. /\ normalize(file).actions = [k \in DOMAIN file.actions |-> normalizeAction(file.actions[k])]
        /\ normalize(file).tokens = [k \in DOMAIN file.tokens |-> normalizeToken(file.tokens[k])]
    BY DEF normalize
  <1>3. ASSUME NEW s, NEW t, IsSlice(s), IsStruct(t, DOMAIN s)
        PROVE  IsSlice(t)
    <2>1. PICK n \in Nat : DOMAIN s = 1..n
      BY <1>3, SliceIsFunction DEF IsStruct
    <2> QED
      BY <1>3, <2>1, SliceIsFunction
  <1>4. /\ IsStruct(normalize(file).actions, DOMAIN file.actions)
        /\ IsStruct(normalize(file).tokens, DOMAIN file.tokens)
    BY <1>2 DEF IsStruct
  <1> QED
    BY <1>1, <1>2, <1>3, <1>4

(* auth.New finds nothing that Validate let through. *)
LEMMA AuthenticationStarts ==
    ASSUME IsFile(file), Loads(file)
    PROVE  ~AuthNewFails(normalize(file))
  <1> DEFINE cfg == normalize(file)
  <1>1. Validate(cfg) = {}
    BY AcceptedFile
  <1>2. IsSlice(cfg.tokens)
    BY NormalizedSlices
  <1> HIDE DEF cfg
  <1>3. validateNames(cfg.tokens) = {}
    BY <1>1, ValidatedParts
  <1>4. \A k \in DOMAIN cfg.tokens : cfg.tokens[k].name # Empty
    BY <1>2, <1>3, AcceptedNames
  <1>5. ASSUME NEW k \in DOMAIN cfg.tokens
        PROVE  WellFormed(cfg.tokens[k].value)
    <2> DEFINE names == Names(cfg.actions) \ {Empty}
    <2>1. UNION {validateToken(cfg.tokens[j], names) : j \in DOMAIN cfg.tokens} = {}
      BY <1>1, ValidatedParts
    <2> HIDE DEF names
    <2>2. validateToken(cfg.tokens[k], names) = {}
      BY <2>1
    <2>3. When(~WellFormed(cfg.tokens[k].value), "value must be a valid Microhook token") = {}
      BY <2>2 DEF validateToken
    <2> QED
      BY <2>3 DEF When
  <1>6. ~AuthNewFails(cfg)
    BY <1>4, <1>5 DEF AuthNewFails
  <1> QED
    BY <1>6 DEF cfg

(* Every action answers to its own name. *)
LEMMA ActionIsFound ==
    ASSUME IsFile(file), Loads(file), NEW k \in DOMAIN file.actions
    PROVE  LET cfg == normalize(file)
               registry == newActionRegistry(cfg.actions)
               n == TrimSpace(file.actions[k].name)
           IN  n # Empty /\ n \in DOMAIN registry /\ registry[n] = cfg.actions[k]
  <1> DEFINE actions == normalize(file).actions
             n == TrimSpace(file.actions[k].name)
  <1>1. IsSlice(actions) /\ k \in DOMAIN actions
    BY NormalizedSlices
  <1>2. actions[k].name = n
    BY DEF normalize, normalizeAction
  <1>3. validateNames(actions) = {}
    <2>1. Validate(normalize(file)) = {}
      BY AcceptedFile
    <2> QED
      BY <2>1, ValidatedParts
  <1> HIDE DEF actions, n
  <1>4. n # Empty
    BY <1>1, <1>2, <1>3, AcceptedNames
  <1>5. (CHOOSE j \in DOMAIN actions : actions[j].name = n) = k
    BY <1>1, <1>2, <1>3, AcceptedNames
  <1>6. n \in Names(actions)
    BY <1>1, <1>2 DEF Names
  <1>7. n \in DOMAIN newActionRegistry(actions) /\ newActionRegistry(actions)[n] = actions[k]
    BY <1>5, <1>6 DEF newActionRegistry
  <1> QED
    BY <1>4, <1>7 DEF actions, n

LEMMA ActionTypes ==
    ASSUME IsFile(file), NEW k \in DOMAIN file.actions
    PROVE  LET a == file.actions[k]
           IN  /\ a.command \in Seq(Text) /\ IsMap(a.env)
               /\ a.max_output_bytes \in Seq(Int)
  <1>1. FileField("actions", file["actions"])
    BY DEF IsFile, FileFields
  <1>2. IsAction(file.actions[k])
    BY <1>1 DEF FileField
  <1> DEFINE a == file.actions[k]
  <1>3. /\ ActionField("command", a["command"]) /\ ActionField("env", a["env"])
        /\ ActionField("max_output_bytes", a["max_output_bytes"])
    BY <1>2 DEF IsAction, ActionFields
  <1> HIDE DEF a
  <1>4. a.command \in Seq(Text) /\ IsMap(a.env) /\ a.max_output_bytes \in Seq(Int)
    BY <1>3 DEF ActionField
  <1> QED
    BY <1>4 DEF a

(* JSON changes nothing that is UTF-8. *)
LEMMA RoundTrip ==
    /\ \A t : t.flaw # "bytes" => JSONRoundTrip(t) = t
    /\ \A t : JSONRoundTrip(t).flaw = "none" => t.flaw = "none"
    /\ \A t : JSONRoundTrip(t).flaw = "eq" => t.flaw = "eq"
  BY DEF JSONRoundTrip, Flawed

LEMMA StoredCommand ==
    ASSUME NEW a, a.command \in Seq(Text), IsStruct(a, DOMAIN a),
           "command" \in DOMAIN a, "env" \in DOMAIN a
    PROVE  LET stored == actionFromStoredRun(a)
           IN  /\ stored.command = [k \in DOMAIN a.command |-> JSONRoundTrip(a.command[k])]
               /\ stored.env = storedEnv(a.env)
               /\ stored = [a EXCEPT !["command"] = stored.command, !["env"] = stored.env]
               /\ \A f \in DOMAIN a \ {"command", "env"} : stored[f] = a[f]
  BY DEF actionFromStoredRun, IsStruct

(* The stored copy is the action if its texts are UTF-8. *)
LEMMA StoredIsSame ==
    ASSUME NEW a, a.command \in Seq(Text), IsMap(a.env), IsStruct(a, DOMAIN a),
           "command" \in DOMAIN a, "env" \in DOMAIN a,
           \A t \in JSONTexts(a) : t.flaw # "bytes"
    PROVE  actionFromStoredRun(a) = a
  <1>1. [k \in DOMAIN a.command |-> JSONRoundTrip(a.command[k])] = a.command
    <2>1. \A k \in DOMAIN a.command : a.command[k].flaw # "bytes"
      BY DEF JSONTexts, Range
    <2>2. \A k \in DOMAIN a.command : JSONRoundTrip(a.command[k]) = a.command[k]
      BY <2>1, RoundTrip
    <2> QED
      BY <2>2
  <1>2. storedEnv(a.env) = a.env
    <2> DEFINE env == a.env
    <2>1. \A j \in DOMAIN env : j.flaw # "bytes" /\ env[j].flaw # "bytes"
      BY DEF JSONTexts, Range
    <2>2. env = [j \in DOMAIN env |-> env[j]]
      BY DEF IsMap, IsStruct
    <2> HIDE DEF env
    <2>3. \A j \in DOMAIN env : JSONRoundTrip(j) = j /\ JSONRoundTrip(env[j]) = env[j]
      BY <2>1, RoundTrip
    <2>4. {JSONRoundTrip(j) : j \in DOMAIN env} = DOMAIN env
      BY <2>3
    <2>5. \A k \in DOMAIN env : (CHOOSE j \in DOMAIN env : JSONRoundTrip(j) = k) = k
      BY <2>3
    <2>6. storedEnv(env) = [j \in DOMAIN env |-> env[j]]
      BY <2>3, <2>4, <2>5 DEF storedEnv
    <2> QED
      BY <2>2, <2>6 DEF env
  <1> QED
    BY <1>1, <1>2 DEF actionFromStoredRun, IsStruct

LEMMA PoliciesKnown == ~Blank(Clean("allow")) /\ ~Blank(Clean("reject"))
  <1>1. "allow" # "" /\ "reject" # ""
    BY Zenon
  <1>2. Clean("allow") # Empty /\ Clean("reject") # Empty
    BY <1>1, Zenon DEF Clean, Empty
  <1> QED
    BY <1>2 DEF Blank, TrimSpace, Clean

LEMMA ModesKnown == NoMode # "command" /\ NoMode # "shell"
  BY Zenon DEF NoMode

(* Exactly one of command and shell_command gives a mode. *)
LEMMA ModeIsKnown ==
    ASSUME NEW a, (a.command # <<>>) # ~Blank(a.shell_command)
    PROVE  \/ Mode(a) = "command" /\ a.command # <<>>
           \/ Mode(a) = "shell" /\ ~Blank(a.shell_command)
  BY DEF Mode

(* The rest of the code can use an accepted action. *)
LEMMA ActionIsUsable ==
    ASSUME IsFile(file), Loads(file), NEW k \in DOMAIN file.actions
    PROVE  LET a == normalize(file).actions[k]
               registry == newActionRegistry(normalize(file).actions)
           IN  /\ Invoked(registry, file.actions[k].name) \in {"allow", "reject", "disabled"}
               /\ validateActionSnapshot(a)
               /\ buildCommand(actionFromStoredRun(a)) # <<>>
               /\ \/ actionFromStoredRun(a) = a
                  \/ \E t \in JSONTexts(a) : t.flaw = "bytes"
  <1> DEFINE w == file.actions[k]
             a == normalize(file).actions[k]
             registry == newActionRegistry(normalize(file).actions)
             n == TrimSpace(w.name)
  <1>1. n # Empty /\ n \in DOMAIN registry /\ registry[n] = a
    BY ActionIsFound
  <1>2. w.command \in Seq(Text) /\ IsMap(w.env) /\ w.max_output_bytes \in Seq(Int)
    BY ActionTypes
  <1>3. /\ a = normalizeAction(w)
        /\ (a.command # <<>>) # ~Blank(a.shell_command)
        /\ a.concurrency_policy \in {Clean("allow"), Clean("reject")}
        /\ ~(a.max_output_bytes < 0)
    BY AcceptedAction
  <1> HIDE DEF w, a, registry, n
  <1>4. /\ a.mode = Mode(w) /\ a.command = w.command /\ a.shell_command = w.shell_command
        /\ a.env = w.env
        /\ a.max_output_bytes = OrElse(w.max_output_bytes, DefaultMaxOutputBytes)
        /\ IsStruct(a, DOMAIN a)
        /\ {"mode", "command", "shell_command", "env"} \subseteq DOMAIN a
    BY <1>3 DEF normalizeAction, IsStruct
  <1>5. \/ a.mode = "command" /\ a.command # <<>>
        \/ a.mode = "shell" /\ ~Blank(a.shell_command)
    BY <1>3, <1>4, ModeIsKnown
  <1>6. Invoked(registry, w.name) \in {"allow", "reject", "disabled"}
    <2>1. TrimSpace(w.name) = n
      BY DEF n
    <2> QED
      BY <1>1, <1>3, <2>1 DEF Invoked
  <1>7. validateActionSnapshot(a)
    <2>1. a.max_output_bytes \in Int
      BY <1>2, <1>4 DEF OrElse, DefaultMaxOutputBytes
    <2>2. a.mode # NoMode
      BY <1>5, ModesKnown
    <2>3. ~Blank(a.concurrency_policy)
      BY <1>3, PoliciesKnown
    <2> QED
      BY <1>3, <2>1, <2>2, <2>3 DEF validateActionSnapshot
  <1>8. buildCommand(actionFromStoredRun(a)) # <<>>
    <2> DEFINE stored == actionFromStoredRun(a)
    <2>1. /\ stored.command = [j \in DOMAIN a.command |-> JSONRoundTrip(a.command[j])]
          /\ stored.mode = a.mode /\ stored.shell_command = a.shell_command
      BY <1>2, <1>4, StoredCommand
    <2> HIDE DEF stored
    <2>2. a.command # <<>> => stored.command # <<>>
      <3>1. a.command \in Seq(Text)
        BY <1>2, <1>4
      <3>2. a.command # <<>> => 1 \in DOMAIN a.command
        BY <3>1
      <3>3. stored.command = <<>> => DOMAIN stored.command = {}
        OBVIOUS
      <3>4. DOMAIN stored.command = DOMAIN a.command
        BY <2>1
      <3> QED
        BY <3>2, <3>3, <3>4
    <2>3. buildCommand(stored) # <<>>
      BY <1>5, <2>1, <2>2 DEF buildCommand
    <2> QED
      BY <2>3 DEF stored
  <1>9. \/ actionFromStoredRun(a) = a
        \/ \E t \in JSONTexts(a) : t.flaw = "bytes"
    BY <1>2, <1>4, StoredIsSame
  <1> QED
    BY <1>6, <1>7, <1>8, <1>9 DEF w, a, registry

LEMMA FileIsUsable == IsFile(file) => AcceptedIsUsable
  <1> SUFFICES ASSUME IsFile(file), Loads(file)
               PROVE  AcceptedIsUsable
    BY DEF AcceptedIsUsable
  <1> QED
    BY AuthenticationStarts, ActionIsFound, ActionIsUsable DEF AcceptedIsUsable

(* A key without a flaw is its word. *)
LEMMA CleanKey ==
    /\ \A t \in Text : t.flaw = "none" => t = Clean(t.word)
    /\ \A w : Clean(w).word = w /\ Clean(w).flaw = "none"
  BY DEF Text, Clean

(* What the stored copy of an accepted environment holds. *)
LEMMA StoredKeys ==
    ASSUME NEW env, IsMap(env), validateEnv(env) = {},
           NEW x \in DOMAIN storedEnv(env), x.flaw \in {"none", "eq"}
    PROVE  /\ x \in DOMAIN env /\ x = Clean(x.word)
           /\ storedEnv(env)[x] = JSONRoundTrip(env[x])
  <1>1. PICK j \in DOMAIN env : JSONRoundTrip(j) = x
    BY DEF storedEnv
  <1>2. \A i \in DOMAIN env : ~(i.flaw \in {"eq", "nul"})
    BY DEF validateEnv, When
  <1>3. \A i \in DOMAIN env : JSONRoundTrip(i) = x => i.flaw = "none" /\ i = x
    <2> SUFFICES ASSUME NEW i \in DOMAIN env, JSONRoundTrip(i) = x
                 PROVE  i.flaw = "none" /\ i = x
      OBVIOUS
    <2>1. i.flaw \in {"none", "eq"}
      BY RoundTrip
    <2>2. i.flaw = "none"
      BY <1>2, <2>1
    <2> QED
      BY <2>2, RoundTrip
  <1>4. x \in DOMAIN env /\ x.flaw = "none"
    BY <1>1, <1>3
  <1>5. x = Clean(x.word)
    BY <1>4, CleanKey DEF IsMap
  <1>6. (CHOOSE i \in DOMAIN env : JSONRoundTrip(i) = x) = x
    BY <1>1, <1>3
  <1>7. storedEnv(env)[x] = JSONRoundTrip(env[CHOOSE i \in DOMAIN env : JSONRoundTrip(i) = x])
    BY DEF storedEnv
  <1> QED
    BY <1>4, <1>5, <1>6, <1>7

LEMMA KeptKeys ==
    ASSUME NEW env, NEW t \in DOMAIN env, t.flaw = "none"
    PROVE  t \in DOMAIN storedEnv(env)
  BY RoundTrip DEF storedEnv

(* getenv in the child of an accepted action finds one variable at most. *)
LEMMA OneVariable ==
    ASSUME NEW env, IsMap(env), validateEnv(env) = {}, NEW w,
           Clean(w) \in DOMAIN buildEnv(storedEnv(env))
    PROVE  Getenv(buildEnv(storedEnv(env)), w) = {buildEnv(storedEnv(env))[Clean(w)]}
  <1> DEFINE child == buildEnv(storedEnv(env))
  <1>1. DOMAIN child = DOMAIN pathEnv \cup DOMAIN storedEnv(env) \cup DOMAIN reservedEnv
    BY DEF buildEnv, Over
  <1>2. \A x \in DOMAIN pathEnv \cup DOMAIN reservedEnv : x = Clean(x.word)
    BY CleanKey DEF pathEnv, reservedEnv
  <1> HIDE DEF child
  <1>3. \A x \in DOMAIN child : x.flaw \in {"none", "eq"} => x = Clean(x.word)
    BY <1>1, <1>2, StoredKeys
  <1>4. {x \in DOMAIN child : x.word = w /\ x.flaw \in {"none", "eq"}} = {Clean(w)}
    BY <1>3, CleanKey DEF child
  <1>5. Getenv(child, w) = {IF Clean(w).flaw = "eq" THEN Flawed(child[Clean(w)].word, "eq")
                            ELSE child[Clean(w)]}
    BY <1>4 DEF Getenv
  <1>6. Getenv(child, w) = {child[Clean(w)]}
    BY <1>5, CleanKey
  <1> QED
    BY <1>6 DEF child

LEMMA EnvironmentIsAsWritten == IsFile(file) => EnvironmentAsWritten
  <1> SUFFICES ASSUME IsFile(file), Loads(file), NEW k \in DOMAIN file.actions
               PROVE  LET env == normalize(file).actions[k].env
                          child == buildEnv(actionFromStoredRun(normalize(file).actions[k]).env)
                      IN  /\ \A w \in Reserved : Getenv(child, w) = {Clean("microhook")}
                          /\ \A t \in DOMAIN env :
                                t.flaw = "none" /\ t.word \notin Reserved /\ env[t].flaw # "bytes"
                                => Getenv(child, t.word) = {env[t]}
                          /\ Cardinality(Getenv(child, "PATH")) = 1
    BY NormalizedSlices DEF EnvironmentAsWritten
  <1> DEFINE a == normalize(file).actions[k]
             env == a.env
             child == buildEnv(storedEnv(env))
  <1>1. /\ a = normalizeAction(file.actions[k]) /\ validateEnv(a.env) = {}
    BY AcceptedAction
  <1>2. a.env = file.actions[k].env /\ a.command = file.actions[k].command
    BY <1>1 DEF normalizeAction
  <1>3. IsMap(env) /\ a.command \in Seq(Text)
    BY <1>2, ActionTypes
  <1>4. actionFromStoredRun(a).env = storedEnv(env)
    <2>1. IsStruct(a, DOMAIN a) /\ "command" \in DOMAIN a /\ "env" \in DOMAIN a
      BY <1>1 DEF normalizeAction, IsStruct
    <2> HIDE DEF a
    <2> QED
      BY <1>3, <2>1, StoredCommand
  <1> HIDE DEF a, env
  <1>5. DOMAIN child = DOMAIN pathEnv \cup DOMAIN storedEnv(env) \cup DOMAIN reservedEnv
    BY DEF buildEnv, Over
  <1>6. \A w : Clean(w) \in DOMAIN child => Getenv(child, w) = {child[Clean(w)]}
    BY <1>1, <1>3, OneVariable DEF env
  <1>7. ASSUME NEW w \in Reserved
        PROVE  Getenv(child, w) = {Clean("microhook")}
    <2>1. Clean(w) \in DOMAIN reservedEnv /\ reservedEnv[Clean(w)] = Clean("microhook")
      BY DEF reservedEnv
    <2>2. child[Clean(w)] = Clean("microhook")
      BY <2>1 DEF buildEnv, Over
    <2> QED
      BY <1>5, <1>6, <2>1, <2>2
  <1>8. ASSUME NEW t \in DOMAIN env, t.flaw = "none", t.word \notin Reserved,
               env[t].flaw # "bytes"
        PROVE  Getenv(child, t.word) = {env[t]}
    <2>1. t \in DOMAIN storedEnv(env)
      BY <1>8, KeptKeys
    <2>2. t = Clean(t.word) /\ storedEnv(env)[t] = JSONRoundTrip(env[t])
      BY <1>1, <1>3, <1>8, <2>1, StoredKeys DEF env
    <2>3. storedEnv(env)[t] = env[t]
      BY <1>8, <2>2, RoundTrip
    <2>4. t \notin DOMAIN reservedEnv
      BY <1>8, CleanKey DEF reservedEnv
    <2>5. child[t] = storedEnv(env)[t]
      BY <2>1, <2>4 DEF buildEnv, Over
    <2> QED
      BY <1>5, <1>6, <2>1, <2>2, <2>3, <2>5
  <1>9. Cardinality(Getenv(child, "PATH")) = 1
    <2>1. Clean("PATH") \in DOMAIN child
      BY <1>5 DEF pathEnv
    <2>2. Getenv(child, "PATH") = {child[Clean("PATH")]}
      BY <1>6, <2>1
    <2> QED
      BY <2>2, FS_Singleton
  <1> QED
    BY <1>4, <1>7, <1>8, <1>9 DEF a, env

-----------------------------------------------------------------------------
LEMMA CliInit == Init => TypeOK /\ CliInv
  <1> SUFFICES ASSUME Init
               PROVE  TypeOK /\ CliInv
    OBVIOUS
  <1>1. edits \in 0..MaxEdits
    BY EditsAssumption DEF Init, EditInit
  <1>2. TypeOK
    BY <1>1, FileAssumption DEF Init, EditInit, TypeOK, Commands
  <1>3. CliInv
    BY DEF Init, CliInv, Running, Serving, ExitCodeTruthful, InServe
  <1> QED
    BY <1>2, <1>3

(* The operator is at the shell, or sends a signal. *)
LEMMA OperatorStep ==
    ASSUME TypeOK, CliInv, Operator
    PROVE  TypeOK' /\ CliInv'
  <1>1. CASE ChangeFile
    <2>1. /\ at = "shell" /\ edits' \in 0..MaxEdits
          /\ Edit
          /\ approved' = FALSE /\ code' = -1 /\ delivered' = FALSE /\ store' = "none"
          /\ cmd' = [name |-> "none", wellFormed |-> FALSE]
          /\ UNCHANGED <<at, server, serveErrs, signalled>>
      BY <1>1, EditsAssumption DEF ChangeFile, Edit, TypeOK
    <2>2. IsFile(file')
      BY <2>1, EditKeepsFile DEF TypeOK
    <2>3. TypeOK'
      BY <2>1, <2>2 DEF TypeOK
    <2>4. CliInv'
      BY <2>1 DEF CliInv, Running, Serving, ExitCodeTruthful, InServe
    <2> QED
      BY <2>3, <2>4
  <1>2. ASSUME NEW name \in Commands \cup {"none", "unknown"}, NEW wellFormed \in BOOLEAN,
               Run(name, wellFormed)
        PROVE  TypeOK' /\ CliInv'
    <2>1. /\ cmd' = [name |-> name, wellFormed |-> wellFormed] /\ at' = "parsed"
          /\ delivered' = FALSE /\ code' = -1 /\ store' = "none"
          /\ UNCHANGED <<file, edits, server, serveErrs, signalled, approved>>
      BY <1>2 DEF Run
    <2>2. TypeOK'
      BY <2>1 DEF TypeOK
    <2>3. CliInv'
      BY <2>1 DEF CliInv, Running, Serving, ExitCodeTruthful, InServe
    <2> QED
      BY <2>2, <2>3
  <1>3. CASE Signal \/ AcceptFails
    <2>1. /\ UNCHANGED <<file, edits, cmd, at, delivered, store, server, code, approved>>
          /\ signalled' \in BOOLEAN /\ serveErrs' \in {"empty", "ErrServerClosed", "error"}
      BY <1>3 DEF Signal, AcceptFails, TypeOK
    <2>2. TypeOK'
      BY <2>1 DEF TypeOK
    <2>3. CliInv'
      BY <2>1 DEF CliInv, Running, Serving, ExitCodeTruthful
    <2> QED
      BY <2>2, <2>3
  <1> QED
    BY <1>1, <1>2, <1>3 DEF Operator

(* The process is left, with a code that says no more than was done. *)
LEMMA Left ==
    ASSUME TypeOK, CliInv, NEW c \in {0, 1, 2}, Exit(c), at # "shell",
           store' \in {"none", "closed"}, delivered' \in BOOLEAN, approved' \in BOOLEAN,
           c = 0 => /\ cmd.wellFormed /\ delivered'
                    /\ cmd.name = "validate-config" => Loads(file)
                    /\ cmd.name = "serve" => Loads(file) /\ store' = "closed",
           c = 2 => ~cmd.wellFormed /\ ~delivered' /\ store' = "none"
    PROVE  TypeOK' /\ CliInv'
  <1>1. /\ at' = "shell" /\ code' = c /\ UNCHANGED <<file, edits, cmd>>
        /\ server' = "idle" /\ serveErrs' = "empty" /\ signalled' = FALSE
    BY DEF Exit
  <1>2. TypeOK'
    BY <1>1 DEF TypeOK
  <1>3. Running' /\ Serving'
    BY <1>1 DEF Running, Serving, InServe
  <1>4. ExitCodeTruthful'
    BY <1>1 DEF ExitCodeTruthful
  <1> QED
    BY <1>2, <1>3, <1>4 DEF CliInv

(* A message and a code other than 0 are always truthful. *)
LEMMA Complained ==
    ASSUME TypeOK, CliInv, at # "shell", Complain(1),
           store' \in {"none", "closed"}, delivered' \in BOOLEAN, approved' \in BOOLEAN
    PROVE  TypeOK' /\ CliInv'
  <1>1. Exit(1)
    BY DEF Complain
  <1> QED
    BY <1>1, Left

(* The short commands hold no Store. *)
LEMMA ShortCommand ==
    ASSUME TypeOK, CliInv,
           UsageError \/ runValidateConfig \/ runGenerateToken \/ runVersion
    PROVE  TypeOK' /\ CliInv'
  <1>1. at = "parsed" /\ store' = store
    BY DEF UsageError, runValidateConfig, runGenerateToken, runVersion, Started
  <1>2. store' = "none" /\ at # "shell" /\ ~delivered
    BY <1>1 DEF CliInv, Serving, Running
  <1>3. delivered \in BOOLEAN /\ approved \in BOOLEAN
    BY DEF TypeOK
  <1>4. CASE UsageError
    <2>1. ~cmd.wellFormed /\ UNCHANGED <<delivered, approved>> /\ (Exit(2) \/ Exit(1))
      BY <1>4 DEF UsageError, Complain
    <2>2. CASE Exit(2)
      <3>1. ~delivered' /\ delivered' \in BOOLEAN /\ approved' \in BOOLEAN
        BY <1>2, <1>3, <2>1
      <3> QED
        BY <1>2, <2>1, <2>2, <3>1, Left
    <2>3. CASE Exit(1)
      <3>1. Complain(1)
        BY <2>3 DEF Complain
      <3> QED
        BY <1>2, <1>3, <2>1, <3>1, Complained
    <2> QED
      BY <2>1, <2>2, <2>3
  <1>5. ASSUME cmd.wellFormed, cmd.name # "serve", approved' \in BOOLEAN, Deliver,
               cmd.name = "validate-config" => Loads(file)
        PROVE  TypeOK' /\ CliInv'
    <2>1. (delivered' = TRUE /\ Exit(0)) \/ (delivered' = FALSE /\ Exit(1))
      BY <1>5 DEF Deliver
    <2>2. CASE delivered' = TRUE /\ Exit(0)
      BY <1>2, <1>5, <2>2, Left
    <2>3. CASE delivered' = FALSE /\ Exit(1)
      <3>1. Complain(1)
        BY <2>3 DEF Complain
      <3>2. delivered' \in BOOLEAN
        BY <2>3
      <3> QED
        BY <1>2, <1>5, <3>1, <3>2, Complained
    <2> QED
      BY <2>1, <2>2, <2>3
  <1>6. CASE runValidateConfig
    <2>1. cmd.wellFormed /\ cmd.name # "serve"
      BY <1>6 DEF runValidateConfig, Started
    <2>2. CASE Loads(file)
      <3>1. Deliver /\ approved' = (delivered' \/ approved)
        BY <1>6, <2>2 DEF runValidateConfig
      <3>2. approved' \in BOOLEAN
        BY <3>1
      <3> QED
        BY <1>5, <2>1, <2>2, <3>1, <3>2
    <2>3. CASE ~Loads(file)
      <3>1. Complain(1) /\ UNCHANGED <<delivered, approved>>
        BY <1>6, <2>3 DEF runValidateConfig
      <3> QED
        BY <1>2, <1>3, <3>1, Complained
    <2> QED
      BY <2>2, <2>3
  <1>7. CASE runGenerateToken
    <2>1. /\ cmd.wellFormed /\ cmd.name = "generate-token" /\ approved' = approved
          /\ Deliver \/ (Complain(1) /\ UNCHANGED delivered)
      BY <1>7 DEF runGenerateToken, Started
    <2>2. CASE Deliver
      BY <1>3, <1>5, <2>1, <2>2
    <2>3. CASE Complain(1) /\ UNCHANGED delivered
      BY <1>2, <1>3, <2>1, <2>3, Complained
    <2> QED
      BY <2>1, <2>2, <2>3
  <1>8. CASE runVersion
    <2>1. cmd.wellFormed /\ cmd.name = "version" /\ approved' = approved /\ Deliver
      BY <1>8 DEF runVersion, Started
    <2> QED
      BY <1>3, <1>5, <2>1
  <1> QED
    BY <1>4, <1>6, <1>7, <1>8

(* A failing step of `serve` closes the Store. *)
LEMMA ClosedAndComplained ==
    ASSUME TypeOK, CliInv, at # "shell", CloseAndComplain
    PROVE  TypeOK' /\ CliInv'
  <1>1. store' = "closed" /\ Complain(1) /\ UNCHANGED <<delivered, approved>>
    BY DEF CloseAndComplain
  <1>2. delivered' \in BOOLEAN /\ approved' \in BOOLEAN
    BY <1>1 DEF TypeOK
  <1> QED
    BY <1>1, <1>2, Complained

(* `serve` goes on to l. *)
LEMMA Proceeded ==
    ASSUME TypeOK, CliInv, NEW l \in InServe, at # "shell",
           at' = l, UNCHANGED <<file, edits, cmd, delivered, code, approved>>,
           server' \in {"idle", "serving", "shutdown"},
           serveErrs' \in {"empty", "ErrServerClosed", "error"}, signalled' \in BOOLEAN,
           cmd = [name |-> "serve", wellFormed |-> TRUE], Loads(file),
           store' = IF l \in {"drained", "overrun"} THEN "closed" ELSE "open"
    PROVE  TypeOK' /\ CliInv'
  <1>1. TypeOK'
    BY DEF TypeOK, InServe
  <1>2. Running'
    BY DEF CliInv, Running, InServe
  <1>3. Serving'
    BY DEF Serving, InServe
  <1>4. ExitCodeTruthful'
    BY DEF CliInv, Running, ExitCodeTruthful
  <1> QED
    BY <1>1, <1>2, <1>3, <1>4 DEF CliInv

(* runServe, from Load to the last receive from serveErrs. *)
LEMMA ServeStep ==
    ASSUME TypeOK, CliInv,
           \/ runServe \/ ApplyRetention \/ Recover \/ Listen \/ ServeReturns
           \/ SelectServeErrs \/ SelectSignal \/ ShutdownReturns \/ Collect
    PROVE  TypeOK' /\ CliInv'
  <1>1. /\ server \in {"idle", "serving", "shutdown"} /\ signalled \in BOOLEAN
        /\ serveErrs \in {"empty", "ErrServerClosed", "error"}
        /\ delivered \in BOOLEAN /\ approved \in BOOLEAN
    BY DEF TypeOK
  <1>2. at \in InServe => /\ cmd = [name |-> "serve", wellFormed |-> TRUE] /\ Loads(file)
                          /\ store = IF at \in {"drained", "overrun"} THEN "closed" ELSE "open"
    BY DEF CliInv, Serving
  <1>3. CASE runServe
    <2>1. at = "parsed" /\ cmd = [name |-> "serve", wellFormed |-> TRUE]
      BY <1>3 DEF runServe, Started
    <2>2. CASE Loads(file) /\ store' = "open" /\ Proceed("retention")
      BY <1>1, <2>1, <2>2, Proceeded DEF Proceed, InServe
    <2>3. CASE Complain(1) /\ UNCHANGED <<delivered, store, approved>>
      <3>1. store' = "none"
        BY <2>1, <2>3 DEF CliInv, Serving
      <3> QED
        BY <1>1, <2>1, <2>3, <3>1, Complained
    <2> QED
      BY <1>3, <2>2, <2>3 DEF runServe
  <1>4. CASE ApplyRetention
    <2>1. at = "retention" /\ ((Proceed("recovery") /\ UNCHANGED store) \/ CloseAndComplain)
      BY <1>4 DEF ApplyRetention
    <2>2. CASE Proceed("recovery") /\ UNCHANGED store
      BY <1>1, <1>2, <2>1, <2>2, Proceeded DEF Proceed, InServe
    <2> QED
      BY <2>1, <2>2, ClosedAndComplained
  <1>5. CASE Recover
    <2>1. at = "recovery" /\ ((Proceed("listen") /\ UNCHANGED store) \/ CloseAndComplain)
      BY <1>5 DEF Recover
    <2>2. CASE Proceed("listen") /\ UNCHANGED store
      BY <1>1, <1>2, <2>1, <2>2, Proceeded DEF Proceed, InServe
    <2> QED
      BY <2>1, <2>2, ClosedAndComplained
  <1>6. CASE Listen
    <2>1. /\ at = "listen"
          /\ \/ /\ at' = "serving" /\ server' = "serving"
                /\ UNCHANGED <<file, edits, cmd, delivered, store, serveErrs, signalled,
                               code, approved>>
             \/ CloseAndComplain
      BY <1>6 DEF Listen
    <2>2. CASE at' = "serving" /\ server' = "serving" /\
               UNCHANGED <<file, edits, cmd, delivered, store, serveErrs, signalled,
                           code, approved>>
      BY <1>1, <1>2, <2>1, <2>2, Proceeded DEF InServe
    <2> QED
      BY <2>1, <2>2, ClosedAndComplained
  <1>7. CASE ServeReturns
    <2>1. /\ serveErrs' = "ErrServerClosed"
          /\ UNCHANGED <<file, edits, cmd, at, delivered, store, server, signalled, code,
                         approved>>
      BY <1>7 DEF ServeReturns
    <2>2. TypeOK'
      BY <2>1 DEF TypeOK
    <2>3. CliInv'
      BY <2>1 DEF CliInv, Running, Serving, ExitCodeTruthful
    <2> QED
      BY <2>2, <2>3
  <1>8. CASE SelectServeErrs
    <2>1. at = "serving" /\ CloseAndComplain
      BY <1>8 DEF SelectServeErrs
    <2> QED
      BY <2>1, ClosedAndComplained
  <1>9. CASE SelectSignal
    <2>1. /\ at = "serving" /\ at' = "draining" /\ server' = "shutdown"
          /\ UNCHANGED <<file, edits, cmd, delivered, store, serveErrs, signalled, code,
                         approved>>
      BY <1>9 DEF SelectSignal
    <2> QED
      BY <1>1, <1>2, <2>1, Proceeded DEF InServe
  <1>10. CASE ShutdownReturns
    <2>1. PICK l \in {"drained", "overrun"} : Proceed(l)
      BY <1>10 DEF ShutdownReturns
    <2>2. at = "draining" /\ store' = "closed"
      BY <1>10 DEF ShutdownReturns
    <2> QED
      BY <1>1, <1>2, <2>1, <2>2, Proceeded DEF Proceed, InServe
  <1>11. CASE Collect
    <2>1. /\ at \in {"drained", "overrun"} /\ serveErrs # "empty"
          /\ delivered' = (serveErrs = "ErrServerClosed" /\ at = "drained")
          /\ UNCHANGED <<store, approved>>
      BY <1>11 DEF Collect
    <2>2. /\ store' = "closed" /\ at # "shell" /\ delivered' \in BOOLEAN
          /\ cmd = [name |-> "serve", wellFormed |-> TRUE] /\ Loads(file)
      BY <1>2, <2>1 DEF InServe
    <2>3. CASE serveErrs = "error" \/ at = "overrun"
      <3>1. Complain(1)
        BY <1>11, <2>3 DEF Collect
      <3> QED
        BY <1>1, <2>1, <2>2, <3>1, Complained
    <2>4. CASE ~(serveErrs = "error" \/ at = "overrun")
      <3>1. Exit(0)
        BY <1>11, <2>4 DEF Collect
      <3>2. delivered'
        BY <1>1, <2>1, <2>4
      <3>3. cmd.wellFormed /\ cmd.name = "serve"
        BY <2>2
      <3> QED
        BY <1>1, <2>1, <2>2, <3>1, <3>2, <3>3, Left
    <2> QED
      BY <2>3, <2>4
  <1> QED
    BY <1>3, <1>4, <1>5, <1>6, <1>7, <1>8, <1>9, <1>10, <1>11

LEMMA CliInvariant == FairSpec => [](TypeOK /\ CliInv)
  <1>1. TypeOK /\ CliInv /\ [Next]_vars => TypeOK' /\ CliInv'
    <2> SUFFICES ASSUME TypeOK, CliInv, [Next]_vars
                 PROVE  TypeOK' /\ CliInv'
      OBVIOUS
    <2>1. CASE Process
      BY <2>1, ShortCommand, ServeStep DEF Process
    <2>2. CASE Operator
      BY <2>2, OperatorStep
    <2>3. CASE UNCHANGED vars
      <3>1. UNCHANGED <<file, edits, cmd, at, delivered, store, server, serveErrs, signalled,
                        code, approved>>
        BY <2>3 DEF vars, command
      <3>2. TypeOK'
        BY <3>1 DEF TypeOK
      <3>3. CliInv'
        BY <3>1 DEF CliInv, Running, Serving, ExitCodeTruthful
      <3> QED
        BY <3>2, <3>3
    <2> QED
      BY <2>1, <2>2, <2>3 DEF Next
  <1> QED
    BY CliInit, <1>1, PTL DEF FairSpec

-----------------------------------------------------------------------------
(* The state of the process is one runServe and the short commands know. *)
THEOREM CliTypeCorrect == FairSpec => []TypeOK
  BY CliInvariant, PTL

(* Exit code 0 means that the command did what it is for, and 2 that it did
   nothing, whichever write, step of Bootstrap, Listen, Serve or Shutdown
   failed and whenever the signals came. *)
THEOREM ExitCodesAreTrue == FairSpec => []ExitCodeTruthful
  <1>1. CliInv => ExitCodeTruthful
    BY DEF CliInv
  <1> QED
    BY <1>1, CliInvariant, PTL

(* `serve` never leaves its Store open. *)
THEOREM StoreIsClosed == FairSpec => []StoreClosedOnExit
  <1>1. CliInv => StoreClosedOnExit
    BY DEF CliInv, Serving, StoreClosedOnExit, InServe
  <1> QED
    BY <1>1, CliInvariant, PTL

(* Whatever file an operator writes, one that loads leaves nothing for
   auth.New, Invoke, CreateRun and buildCommand to find. *)
THEOREM AcceptedFilesWork == FairSpec => []AcceptedIsUsable
  <1>1. TypeOK => AcceptedIsUsable
    BY FileIsUsable DEF TypeOK
  <1> QED
    BY <1>1, CliInvariant, PTL

(* No way of writing the names of a token's actions widens or narrows its
   scope. *)
THEOREM ScopesAreAsWritten == FairSpec => []ScopeAsWritten
  <1>1. TypeOK => ScopeAsWritten
    BY ScopeIsAsWritten DEF TypeOK
  <1> QED
    BY <1>1, CliInvariant, PTL

(* No key or value in env hides microhook's own variables, is lost, or leaves
   the child two values for one name. *)
THEOREM EnvironmentsAreAsWritten == FairSpec => []EnvironmentAsWritten
  <1>1. TypeOK => EnvironmentAsWritten
    BY EnvironmentIsAsWritten DEF TypeOK
  <1> QED
    BY <1>1, CliInvariant, PTL
=============================================================================
