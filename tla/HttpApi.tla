------------------------------- MODULE HttpApi ------------------------------
(***************************************************************************)
(* The HTTP API (internal/httpapi) and the tokens behind it                *)
(* (internal/auth): who may start and see which runs, and what the status  *)
(* code a client hears says about the history.  The execution service is   *)
(* RunLifecycle, which HistoryProofs shows a single service to implement.  *)
(*                                                                         *)
(* A connection c has one request at a time.  What a handler decides from  *)
(* the request and the configuration alone, before it first calls the      *)
(* execution service or the store, is one step: the configuration cannot   *)
(* change under a handler.                                                 *)
(***************************************************************************)
EXTENDS Naturals, Sequences

CONSTANTS
    Runs,            \* run r is the one that the POST asking for r creates
    Connections,
    Tokens,          \* bearer token values
    Actions,         \* names in the action registry
    EnabledActions,
    UnknownAction,   \* any name that is not in the registry
    Configs,         \* auth.tokens the service may be (re)started with
    StatusFilters    \* values of the status parameter of a listing

Credential == [value : Tokens, actions : SUBSET Actions]

ASSUME ConfigsAssumption == Configs \subseteq Seq(Credential)
ASSUME EnabledAssumption == EnabledActions \subseteq Actions /\ UnknownAction \notin Actions
ASSUME NamesAssumption == "" \notin Actions \cup {UnknownAction}   \* validateAction

VARIABLES
    conf,     \* Service.credentials, in the order of the file
    record,   \* the history: status of each run
    answer,   \* what Invoke has returned
    action,   \* action[r]: the action asked for with r
    handler,  \* handler[c]: the request in progress on c
    heard,    \* heard[r]: the status code the client that asked for r got
    told      \* <<token, run>>: runs that token was shown by this process

History == INSTANCE RunLifecycle

vars == <<conf, record, answer, action, handler, heard, told>>

Statuses == {"running"} \cup History!Terminal
Bodies == {"sync", "async", "oversized", "malformed", "badmode"}
Refusals == {400, 401, 403, 404, 409, 413}
Codes == {0, 200, 202, 500} \cup Refusals   \* 0: none yet
Cut == 1                                    \* the connection broke instead
Idle == [stage |-> "idle"]

(* late: the write deadline of the connection has passed.  known: the token
   had been shown the run when the request arrived.  run: none for a list. *)
Invoking == [stage : {"invoking"}, token : Tokens, run : Runs, name : Actions,
             mode : {"sync", "async"}, late : BOOLEAN]
Getting == [stage : {"getting"}, token : Tokens, run : Runs, known : BOOLEAN]
Listing == [stage : {"listing"}, token : Tokens, name : Actions \cup {""},
            status : StatusFilters]
Writing == [stage : {"writing"}, post : BOOLEAN, token : Tokens, run : SUBSET Runs,
            known : BOOLEAN, late : BOOLEAN, code : Codes, shown : SUBSET Runs]
Handler == Invoking \cup Getting \cup Listing \cup Writing

TypeOK ==
    /\ conf \in Configs
    /\ record \in [Runs -> {"absent", "pruned"} \cup Statuses]
    /\ answer \in [Runs -> {"none", "refused", "conflict", "accepted", "error"}
                           \cup History!Terminal]
    /\ action \in [Runs -> Actions \cup {"", UnknownAction}]
    /\ handler \in [Connections -> Handler \cup {Idle}]
    /\ heard \in [Runs -> Codes \cup {Cut}]
    /\ told \subseteq Tokens \X Runs

Init ==
    /\ conf \in Configs
    /\ History!Init
    /\ action = [r \in Runs |-> ""]
    /\ handler = [c \in Connections |-> Idle]
    /\ heard = [r \in Runs |-> 0]
    /\ told = {}

-----------------------------------------------------------------------------
(* internal/auth *)

Matching(v) == {k \in DOMAIN conf : conf[k].value = v}

(* Mutant: the last one decides, as if the file were loaded into a map. *)
AuthenticateTokenLast(v) == conf[CHOOSE k \in Matching(v) : \A j \in Matching(v) : j <= k]

(* AuthenticateToken: the first credential with this value decides. *)
AuthenticateToken(v) == conf[CHOOSE k \in Matching(v) : \A j \in Matching(v) : k <= j]

(* AllowsAction: a token without actions is global. *)
AllowsAction(credential, a) == credential.actions = {} \/ a \in credential.actions

-----------------------------------------------------------------------------
(* The three handlers up to the first call out of the package. *)

rest == <<conf, record, answer, heard, told>>

(* A request arrives on c; with a code, its handler has only to write it. *)
Begin(c, request, code, refusal) ==
    /\ handler[c] = Idle
    /\ handler' = [handler EXCEPT ![c] = IF code = 0 THEN request ELSE refusal]

Response(post, v, run, known, late, code, shown) ==
    [stage |-> "writing", post |-> post, token |-> v, run |-> run, known |-> known,
     late |-> late, code |-> code, shown |-> shown]

(* Mutant: a mode that is neither sync nor async is let through. *)
InvokeRefusalAnyMode(v, a, body) ==
    IF Matching(v) = {} THEN 401
    ELSE IF a \notin Actions THEN 404
    ELSE IF ~AllowsAction(AuthenticateToken(v), a) THEN 403
    ELSE IF body = "oversized" THEN 413
    ELSE IF body = "malformed" THEN 400 ELSE 0

(* The early returns of authenticate and invokeAction, in their order. *)
InvokeRefusal(v, a, body) ==
    IF Matching(v) = {} THEN 401
    ELSE IF a \notin Actions THEN 404
    ELSE IF ~AllowsAction(AuthenticateToken(v), a) THEN 403
    ELSE IF body = "oversized" THEN 413
    ELSE IF body \in {"malformed", "badmode"} THEN 400 ELSE 0

invokeAction(c, r, v, a, body) ==
    LET code == InvokeRefusal(v, a, body)
    IN  /\ action[r] = ""
        /\ action' = [action EXCEPT ![r] = a]
        /\ Begin(c, [stage |-> "invoking", token |-> v, run |-> r, name |-> a,
                     mode |-> body, late |-> FALSE],
                 code, Response(TRUE, v, {r}, FALSE, FALSE, code, {}))
        /\ UNCHANGED rest

getRun(c, r, v) ==
    LET code == IF Matching(v) = {} THEN 401 ELSE 0
        known == <<v, r>> \in told
    IN  /\ Begin(c, [stage |-> "getting", token |-> v, run |-> r, known |-> known],
                 code, Response(FALSE, v, {r}, known, FALSE, code, {}))
        /\ UNCHANGED <<rest, action>>

(* A filter on an action out of scope is refused before the query. *)
listRuns(c, v, a, s) ==
    LET code == IF Matching(v) = {} THEN 401
                ELSE IF a # "" /\ ~AllowsAction(AuthenticateToken(v), a) THEN 403 ELSE 0
    IN  /\ Begin(c, [stage |-> "listing", token |-> v, name |-> a, status |-> s],
                 code, Response(FALSE, v, {}, FALSE, FALSE, code, {}))
        /\ UNCHANGED <<rest, action>>

-----------------------------------------------------------------------------
(* The calls they make. *)

Respond(c, response) ==
    /\ handler' = [handler EXCEPT ![c] = response]
    /\ UNCHANGED <<rest, action>>

(* Service.Invoke on behalf of the handler: nothing but what RunLifecycle
   says.  It refuses a disabled action by itself. *)
Invoke(c) ==
    LET r == handler[c].run
    IN  /\ handler[c].stage = "invoking"
        /\ IF handler[c].name \in EnabledActions
           THEN \/ History!Create(r)
                \/ record[r] = "absent" /\ History!Tell(r, "conflict")
                \/ handler[c].mode = "async" /\ History!Accept(r)
                \/ handler[c].mode = "sync" /\ History!Report(r)
                \/ History!Apologise(r)
           ELSE record[r] = "absent" /\ History!Tell(r, "refused")
        /\ UNCHANGED <<conf, action, handler, heard, told>>

(* The goroutine of an asynchronous run, recovery and retention. *)
Background ==
    /\ History!Prune \/ \E r \in Runs : History!Settle(r)
    /\ UNCHANGED <<conf, action, handler, heard, told>>

(* Mutant: an unexpected error is reported as a conflict. *)
InvocationCodeDefaultConflict(a) ==
    IF a = "refused" THEN 404
    ELSE IF a = "accepted" THEN 202 ELSE IF a \in History!Terminal THEN 200 ELSE 409

(* writeInvocationError, and the code of a success.  Its 400 is for a mode that
   decodeInvokeActionRequest has already refused and for a row that CreateRun
   would refuse, which no accepted configuration asks for. *)
InvocationCode(a) ==
    IF a = "refused" THEN 404 ELSE IF a = "conflict" THEN 409
    ELSE IF a = "accepted" THEN 202 ELSE IF a \in History!Terminal THEN 200 ELSE 500

invokeReturns(c) ==
    LET h == handler[c]
        code == InvocationCode(answer[h.run])
    IN  /\ h.stage = "invoking" /\ answer[h.run] # "none"
        /\ Respond(c, Response(TRUE, h.token, {h.run}, FALSE, h.late, code,
                               IF code \in {200, 202} THEN {h.run} ELSE {}))

Present == {r \in Runs : record[r] \in Statuses}

(* Mutant: scoped tokens may read nothing but by listing. *)
runReadGlobalOnly(c) ==
    LET h == handler[c]
        Get(code, shown) == Respond(c, Response(FALSE, h.token, {h.run}, h.known, FALSE,
                                                code, shown))
    IN  /\ h.stage = "getting"
        /\ IF h.run \notin Present THEN Get(404, {})
           ELSE IF AuthenticateToken(h.token).actions # {} THEN Get(403, {})
           ELSE Get(200, {h.run})

(* getRun: the row is looked up first, its action is checked after that. *)
runRead(c) ==
    LET h == handler[c]
        Get(code, shown) == Respond(c, Response(FALSE, h.token, {h.run}, h.known, FALSE,
                                                code, shown))
    IN  /\ h.stage = "getting"
        /\ IF h.run \notin Present THEN Get(404, {})
           ELSE IF ~AllowsAction(AuthenticateToken(h.token), action[h.run]) THEN Get(403, {})
           ELSE Get(200, {h.run})

(* listRuns: the store filters by action and status, the handler by scope. *)
runsListed(c) ==
    LET h == handler[c]
        rows == {r \in Present : /\ h.name # "" => action[r] = h.name
                                 /\ h.status # "" => record[r] = h.status}
        List(code, shown) == Respond(c, Response(FALSE, h.token, {}, FALSE, FALSE, code, shown))
    IN  /\ h.stage = "listing"
        /\ IF h.status \notin Statuses \cup {""} THEN List(400, {})
           ELSE List(200, {r \in rows : AllowsAction(AuthenticateToken(h.token), action[r])})

readFails(c) ==
    /\ handler[c].stage \in {"getting", "listing"}
    /\ Respond(c, Response(FALSE, handler[c].token, {}, FALSE, FALSE, 500, {}))

-----------------------------------------------------------------------------
(* Responses and the process. *)

(* http.Server.WriteTimeout: the deadline was set when the request arrived;
   only a run takes longer than that. *)
WriteDeadline(c) ==
    /\ handler[c].stage = "invoking" /\ ~handler[c].late
    /\ handler' = [handler EXCEPT ![c].late = TRUE]
    /\ UNCHANGED <<rest, action>>

(* writeJSON ignores errors: a response in time arrives, unless the client is
   gone; a late one breaks the connection. *)
writeJSON(c) ==
    LET h == handler[c]
    IN  /\ h.stage = "writing"
        /\ \/ UNCHANGED <<heard, told>>
           \/ /\ heard' = [r \in Runs |-> IF ~(h.post /\ r \in h.run) THEN heard[r]
                                         ELSE IF h.late THEN Cut ELSE h.code]
              /\ told' = IF h.late THEN told ELSE told \cup ({h.token} \X h.shown)
        /\ handler' = [handler EXCEPT ![c] = Idle]
        /\ UNCHANGED <<conf, record, answer, action>>

(* The process ends and another one starts, perhaps with other tokens. *)
Restart ==
    /\ conf' \in Configs
    /\ handler' = [c \in Connections |-> Idle]
    /\ told' = {}
    /\ UNCHANGED <<record, answer, action, heard>>

Next ==
    \/ \E c \in Connections :
          \/ \E v \in Tokens :
                \/ \E r \in Runs, a \in Actions \cup {UnknownAction}, body \in Bodies :
                      invokeAction(c, r, v, a, body)
                \/ \E r \in Runs : getRun(c, r, v)
                \/ \E a \in Actions \cup {""}, s \in StatusFilters :
                      listRuns(c, v, a, s)
          \/ Invoke(c) \/ invokeReturns(c) \/ runRead(c) \/ runsListed(c) \/ readFails(c)
          \/ WriteDeadline(c) \/ writeJSON(c)
    \/ Background \/ Restart

Spec == Init /\ [][Next]_vars

-----------------------------------------------------------------------------
(* The first credential with this value grants a, read off the file. *)
Granted(v, a) ==
    \E k \in DOMAIN conf :
        /\ conf[k].value = v /\ \A j \in 1..(k - 1) : conf[j].value # v
        /\ conf[k].actions = {} \/ a \in conf[k].actions

(* No run is started for a token, and none shown to it, whose action the token
   was not granted, by whichever endpoint, filter or interleaving; a later entry
   of the file with the same value widens nothing. *)
ScopeRespected ==
    \A c \in Connections :
        LET h == handler[c]
        IN  /\ h.stage = "invoking" => Granted(h.token, h.name)
            /\ h.stage = "writing" => \A r \in h.shown : Granted(h.token, action[r])

(* What a token was shown stays readable for it: once a response has named a
   run, a later GET with the same token finds it until retention deletes it. *)
ReadableOnceTold ==
    \A c \in Connections :
        LET h == handler[c]
        IN  h.stage = "writing" /\ h.known =>
                h.code = 200 \/ (h.code = 404 /\ \A r \in h.run : record[r] = "pruned")

(* The status code is the truth about the history, now and later: a refusal
   leaves no trace in it, 202 means the run is there, 200 that it is over. *)
CodesMatchHistory ==
    \A r \in Runs :
        /\ heard[r] \in Refusals => record[r] = "absent"
        /\ heard[r] = 202 => record[r] # "absent"
        /\ heard[r] = 200 => record[r] \in History!Terminal \cup {"pruned"}

(* The client that waits for a synchronous run hears when it has completed. *)
CompletedRunIsAnswered ==
    \A r \in Runs : heard[r] = Cut => answer[r] \notin History!Terminal
=============================================================================
