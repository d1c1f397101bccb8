-------------------------------- MODULE Cli ---------------------------------
(***************************************************************************)
(* internal/cli: the commands an operator runs on a configuration file,    *)
(* and what their exit codes say.  `serve` is followed from Load through   *)
(* app.Bootstrap and net.Listen to the select between the server and the   *)
(* signals; what the service does meanwhile is Execution and HttpApi.      *)
(***************************************************************************)
EXTENDS Deployment

CONSTANTS
    Day,       \* 24 * time.Hour
    DayBits    \* width of a time.Duration

ASSUME DurationAssumption == Day \in Nat \ {0} /\ DayBits \in Nat \ {0}

VARIABLES
    cmd,        \* the command line: the command, and whether it is well formed
    at,         \* where the command is; "shell": none runs
    delivered,  \* the command did what it is for (history)
    store,      \* the Store of `serve`
    server,     \* http.Server of `serve`
    serveErrs,  \* the channel of capacity 1 the goroutine of Serve sends to
    signalled,  \* SIGINT or SIGTERM arrived
    code,       \* exit code of the last command; -1: none yet, or one runs
    approved    \* validate-config has said of this file that it is valid

command == <<cmd, at, delivered, store, server, serveErrs, signalled, code, approved>>
vars == <<file, edits, command>>

Commands == {"serve", "validate-config", "generate-token", "version"}

TypeOK ==
    /\ IsFile(file)
    /\ edits \in 0..MaxEdits
    /\ cmd \in [name : Commands \cup {"none", "unknown"}, wellFormed : BOOLEAN]
    /\ at \in {"shell", "parsed", "retention", "recovery", "listen", "serving",
              "draining", "drained", "overrun"}
    /\ delivered \in BOOLEAN /\ signalled \in BOOLEAN /\ approved \in BOOLEAN
    /\ store \in {"none", "open", "closed"}
    /\ server \in {"idle", "serving", "shutdown"}
    /\ serveErrs \in {"empty", "ErrServerClosed", "error"}
    /\ code \in {-1, 0, 1, 2}

Init ==
    /\ EditInit
    /\ cmd = [name |-> "none", wellFormed |-> FALSE]
    /\ at = "shell"
    /\ delivered = FALSE /\ signalled = FALSE /\ approved = FALSE
    /\ store = "none" /\ server = "idle" /\ serveErrs = "empty"
    /\ code = -1

(* The operator changes the file between two commands. *)
ChangeFile ==
    /\ at = "shell" /\ Edit
    /\ approved' = FALSE /\ code' = -1 /\ delivered' = FALSE /\ store' = "none"
    /\ cmd' = [name |-> "none", wellFormed |-> FALSE]
    /\ UNCHANGED <<at, server, serveErrs, signalled>>

Run(name, wellFormed) ==
    /\ at = "shell"
    /\ cmd' = [name |-> name, wellFormed |-> wellFormed]
    /\ at' = "parsed"
    /\ delivered' = FALSE /\ code' = -1 /\ store' = "none"
    /\ UNCHANGED <<file, edits, server, serveErrs, signalled, approved>>

-----------------------------------------------------------------------------
(* Leaving the process.                                                    *)

(* os.Exit: the goroutine, the channel and the signal handler go with it. *)
Exit(c) ==
    /\ at' = "shell" /\ code' = c
    /\ server' = "idle" /\ serveErrs' = "empty" /\ signalled' = FALSE
    /\ UNCHANGED <<file, edits, cmd>>

(* Mutant: a failed write gets an exit code of its own. *)
ComplainOtherCode(c) == Exit(c) \/ Exit(3)

(* A message to stderr and exit(c).  A failed write is an error of its own,
   which commandExitCode makes 1 of. *)
Complain(c) == Exit(c) \/ Exit(1)

(* Mutant: the write of the result is not checked. *)
DeliverUnchecked == delivered' \in BOOLEAN /\ Exit(0)

(* The result goes to stdout. *)
Deliver == \E ok \in BOOLEAN : delivered' = ok /\ Exit(IF ok THEN 0 ELSE 1)

-----------------------------------------------------------------------------
(* The short commands.                                                     *)

Started(name) == at = "parsed" /\ cmd = [name |-> name, wellFormed |-> TRUE]

(* runRoot without or with an unknown command, onUsageError for a bad flag,
   rejectPositionalArgs. *)
UsageError ==
    /\ at = "parsed" /\ ~cmd.wellFormed
    /\ Complain(2)
    /\ UNCHANGED <<delivered, store, approved>>

runValidateConfig ==
    /\ Started("validate-config")
    /\ IF Loads(file)
       THEN Deliver /\ approved' = (delivered' \/ approved)
       ELSE Complain(1) /\ UNCHANGED <<delivered, approved>>
    /\ UNCHANGED store

(* crypto/rand may fail. *)
runGenerateToken ==
    /\ Started("generate-token")
    /\ Deliver \/ (Complain(1) /\ UNCHANGED delivered)
    /\ UNCHANGED <<store, approved>>

(* All lines, or as many as stdout takes. *)
runVersion ==
    /\ Started("version")
    /\ Deliver
    /\ UNCHANGED <<store, approved>>

-----------------------------------------------------------------------------
(* runServe.                                                               *)

(* Two's complement of DayBits bits. *)
Wrap(n) == ((n + 2^(DayBits - 1)) % 2^DayBits) - 2^(DayBits - 1)

(* time.Duration(cfg.Storage.RetentionDays) * 24 * time.Hour *)
MaxAge == Wrap(file.retention_days * Day)

Proceed(l) == at' = l /\ UNCHANGED <<file, edits, cmd, delivered, server, serveErrs, signalled,
                                     code, approved>>

(* store.Close or application.Close, then the message. *)
CloseAndComplain ==
    /\ store' = "closed"
    /\ Complain(1)
    /\ UNCHANGED <<delivered, approved>>

runServe ==
    /\ Started("serve")
    /\ \/ Loads(file) /\ store' = "open" /\ Proceed("retention")
       \/ Complain(1) /\ UNCHANGED <<delivered, store, approved>>

(* Bootstrap from here on: whatever fails, the deferred Close runs. *)
ApplyRetention ==
    /\ at = "retention"
    /\ \/ MaxAge >= 0 /\ file.max_runs >= 0 /\ Proceed("recovery") /\ UNCHANGED store
       \/ CloseAndComplain

Recover ==
    /\ at = "recovery"
    /\ \/ ~AuthNewFails(normalize(file)) /\ Proceed("listen") /\ UNCHANGED store
       \/ CloseAndComplain

(* Mutant: the address is taken, and the Store stays open. *)
ListenLeavesStoreOpen ==
    /\ at = "listen"
    /\ \/ /\ at' = "serving" /\ server' = "serving"
          /\ UNCHANGED <<file, edits, cmd, delivered, store, serveErrs, signalled, code, approved>>
       \/ Complain(1) /\ UNCHANGED <<delivered, store, approved>>

(* net.Listen, the goroutine of Serve, and signal.NotifyContext. *)
Listen ==
    /\ at = "listen"
    /\ \/ /\ at' = "serving" /\ server' = "serving"
          /\ UNCHANGED <<file, edits, cmd, delivered, store, serveErrs, signalled, code, approved>>
       \/ CloseAndComplain

(* NotifyContext swallows signals until runServe returns. *)
Signal ==
    /\ at \in {"serving", "draining", "drained", "overrun"}
    /\ signalled' = TRUE
    /\ UNCHANGED <<file, edits, cmd, at, delivered, store, server, serveErrs, code, approved>>

(* Accept fails for good. *)
AcceptFails ==
    /\ server = "serving" /\ serveErrs = "empty"
    /\ serveErrs' = "error"
    /\ UNCHANGED <<file, edits, cmd, at, delivered, store, server, signalled, code, approved>>

(* Mutant: the goroutine sends what went wrong, and nothing after a Shutdown. *)
ServeReturnsSilently == FALSE /\ UNCHANGED vars

(* Shutdown closes the listener, so Serve returns. *)
ServeReturns ==
    /\ server = "shutdown" /\ serveErrs = "empty"
    /\ serveErrs' = "ErrServerClosed"
    /\ UNCHANGED <<file, edits, cmd, at, delivered, store, server, signalled, code, approved>>

(* The select, when only the channel or both are ready ... *)
SelectServeErrs ==
    /\ at = "serving" /\ serveErrs = "error"
    /\ CloseAndComplain

(* ... and when only the signal or both are. *)
SelectSignal ==
    /\ at = "serving" /\ signalled
    /\ at' = "draining" /\ server' = "shutdown"
    /\ UNCHANGED <<file, edits, cmd, delivered, store, serveErrs, signalled, code, approved>>

(* App.Shutdown returns when the handlers are done or after shutdownTimeout
   ("overrun", as when closing the Store fails), and has closed the Store. *)
ShutdownReturns ==
    /\ at = "draining"
    /\ store' = "closed"
    /\ \E l \in {"drained", "overrun"} : Proceed(l)

(* <-serveErrs *)
Collect ==
    /\ at \in {"drained", "overrun"} /\ serveErrs # "empty"
    /\ IF serveErrs = "error" \/ at = "overrun" THEN Complain(1) ELSE Exit(0)
    /\ delivered' = (serveErrs = "ErrServerClosed" /\ at = "drained")
    /\ UNCHANGED <<store, approved>>

Process ==
    \/ UsageError \/ runValidateConfig \/ runGenerateToken \/ runVersion
    \/ runServe \/ ApplyRetention \/ Recover \/ Listen
    \/ ServeReturns \/ SelectServeErrs \/ SelectSignal \/ ShutdownReturns \/ Collect

Operator ==
    \/ ChangeFile \/ Signal \/ AcceptFails
    \/ \E name \in Commands, wellFormed \in BOOLEAN : Run(name, wellFormed)
    \/ \E name \in {"none", "unknown"} : Run(name, FALSE)

Next == Process \/ Operator

(* A process that can go on is scheduled: Shutdown has a deadline, Serve
   returns once its listener is closed. *)
FairSpec == Init /\ [][Next]_vars /\ WF_vars(Process)

-----------------------------------------------------------------------------
(* Exit code 0 is never wrong, whatever write or step failed: the file was
   valid and stdout says so, the token or the version is on stdout, the
   service was stopped in order and has let go of its Store.  And 2 is kept
   for command lines that nothing was done for. *)
ExitCodeTruthful ==
    /\ code = 0 => /\ cmd.wellFormed /\ delivered
                   /\ cmd.name = "validate-config" => Loads(file)
                   /\ cmd.name = "serve" => Loads(file) /\ store = "closed"
    /\ code = 2 => ~cmd.wellFormed /\ ~delivered /\ store = "none"

(* Every way out of `serve`, through each failing step of Bootstrap, Listen,
   Serve and Shutdown, closes the Store it opened. *)
StoreClosedOnExit == at = "shell" => store # "open"

(* A signal ends `serve`: the wait for the goroutine of Serve cannot hang,
   whichever of the two the select had picked. *)
SignalEndsServe == signalled ~> at = "shell"

(* What `serve` does with a file of which validate-config said "config is
   valid": the age limit it hands to ApplyRetention is retention_days. *)
RetentionAsConfigured ==
    approved /\ at = "retention" => MaxAge = file.retention_days * Day
=============================================================================
