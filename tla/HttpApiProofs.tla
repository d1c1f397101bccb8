--------------------------- MODULE HttpApiProofs ----------------------------
(***************************************************************************)
(* Theorems about the HTTP API, for any number of runs, connections and    *)
(* tokens, any files of tokens and any number of restarts.                 *)
(***************************************************************************)
EXTENDS HttpApi, NaturalsInduction, WellFoundedInduction, TLAPS

(* The request h is the one that asked for r. *)
Asks(h, r) ==
    \/ h.stage = "invoking" /\ h.run = r
    \/ h.stage = "writing" /\ h.post /\ r \in h.run

(* AuthorizeAction succeeds. *)
Authorized(v, a) == Matching(v) # {} /\ AllowsAction(AuthenticateToken(v), a)

(* A run nobody has asked for is nowhere. *)
Fresh ==
    \A r \in Runs : action[r] = "" =>
        record[r] = "absent" /\ answer[r] = "none" /\ heard[r] = 0

(* One request asks for a run, and its client has heard nothing meanwhile. *)
Owner ==
    \A c \in Connections, r \in Runs : Asks(handler[c], r) =>
        /\ action[r] # "" /\ heard[r] = 0
        /\ \A d \in Connections : Asks(handler[d], r) => d = c

(* What the call to Invoke returned stays true of the history. *)
Answered ==
    \A r \in Runs :
        /\ answer[r] \in {"refused", "conflict"} => record[r] = "absent"
        /\ answer[r] = "accepted" => record[r] # "absent"
        /\ answer[r] \in History!Terminal => record[r] \in History!Terminal \cup {"pruned"}

(* What a code says about the run r, now and later. *)
CodeTrue(code, r) ==
    /\ code \in Refusals => record[r] = "absent"
    /\ code = 202 => record[r] # "absent"
    /\ code = 200 => record[r] \in History!Terminal \cup {"pruned"}

(* A token was shown what exists and is in its scope. *)
ShownTo(v, r) == Authorized(v, action[r]) /\ record[r] # "absent"

Shown == \A v \in Tokens, r \in Runs : <<v, r>> \in told => ShownTo(v, r)

(* The code for a run that the token had been shown. *)
Honest(known, code, run) ==
    known => code = 200 \/ (code = 404 /\ \A r \in run : record[r] = "pruned")

(* What a handler has established by the time it is at its stage. *)
Sound(h) ==
    /\ h.stage = "invoking" => action[h.run] = h.name /\ Authorized(h.token, h.name)
    /\ h.stage = "getting" => /\ Matching(h.token) # {}
                              /\ h.known => <<h.token, h.run>> \in told
    /\ h.stage = "listing" => Matching(h.token) # {}
    /\ h.stage = "writing" =>
          /\ \A r \in h.shown : ShownTo(h.token, r)
          /\ h.post => \A r \in h.run : CodeTrue(h.code, r)
          /\ Honest(h.known, h.code, h.run)

ApiInv ==
    /\ Fresh /\ Owner /\ Answered /\ Shown /\ CodesMatchHistory
    /\ \A c \in Connections : Sound(handler[c])

-----------------------------------------------------------------------------
(* A set of indices has a first one. *)
LEMMA FirstIndex ==
    ASSUME NEW T \in SUBSET Nat, T # {}
    PROVE  \E n \in T : \A m \in T : n <= m
  <1> DEFINE Less == {p \in Nat \X Nat : p[1] < p[2]}
  <1>1. IsWellFoundedOn(Less, Nat)
    BY NatLessThanWellFounded DEF OpToRel
  <1>2. \E n \in T : \A m \in T : ~(<<m, n>> \in Less)
    BY <1>1, WFMin
  <1>3. \A n, m \in T : ~(<<m, n>> \in Less) => n <= m
    OBVIOUS
  <1> HIDE DEF Less
  <1> QED
    BY <1>2, <1>3

(* AuthenticateToken picks a credential of the file with the token's value, so
   what it allows is granted. *)
LEMMA AuthorizedIsGranted ==
    ASSUME TypeOK, NEW v, NEW a, Authorized(v, a)
    PROVE  Granted(v, a)
  <1>1. Matching(v) \in SUBSET Nat /\ Matching(v) # {}
    <2>1. conf \in Seq(Credential)
      BY ConfigsAssumption DEF TypeOK
    <2>2. DOMAIN conf = 1..Len(conf) /\ Len(conf) \in Nat
      BY <2>1
    <2> QED
      BY <2>2 DEF Matching, Authorized
  <1> DEFINE k == CHOOSE i \in Matching(v) : \A j \in Matching(v) : i <= j
  <1>2. \E i \in Matching(v) : \A j \in Matching(v) : i <= j
    BY <1>1, FirstIndex
  <1>3. k \in Matching(v) /\ \A j \in Matching(v) : k <= j
    BY <1>2
  <1>4. AuthenticateToken(v) = conf[k]
    BY DEF AuthenticateToken
  <1> HIDE DEF k
  <1>5. ASSUME NEW j \in 1..(k - 1)
        PROVE  conf[j].value # v
    <2>1. conf \in Seq(Credential)
      BY ConfigsAssumption DEF TypeOK
    <2>2. k \in DOMAIN conf /\ DOMAIN conf = 1..Len(conf) /\ Len(conf) \in Nat
      BY <1>3, <2>1 DEF Matching
    <2>3. j \in DOMAIN conf /\ ~(k <= j)
      BY <2>2
    <2> QED
      BY <1>3, <2>3 DEF Matching
  <1> QED
    BY <1>3, <1>4, <1>5 DEF Matching, Authorized, AllowsAction, Granted

(* The stage of a request tells its fields. *)
LEMMA Stages ==
    ASSUME NEW h \in Handler \cup {Idle}
    PROVE  /\ h.stage \in {"idle", "invoking", "getting", "listing", "writing"}
           /\ h.stage = "invoking" => h \in Invoking
           /\ h.stage = "getting" => h \in Getting
           /\ h.stage = "listing" => h \in Listing
           /\ h.stage = "writing" => h \in Writing
           /\ h.stage = "idle" => h = Idle
  <1>1. \A g \in Invoking : g.stage = "invoking"
    BY DEF Invoking
  <1>2. \A g \in Getting : g.stage = "getting"
    BY DEF Getting
  <1>3. \A g \in Listing : g.stage = "listing"
    BY DEF Listing
  <1>4. \A g \in Writing : g.stage = "writing"
    BY DEF Writing
  <1>5. Idle.stage = "idle"
    BY DEF Idle
  <1> QED
    BY <1>1, <1>2, <1>3, <1>4, <1>5 DEF Handler

(* A response is well formed. *)
LEMMA ResponseType ==
    ASSUME NEW post \in BOOLEAN, NEW v \in Tokens, NEW run \in SUBSET Runs,
           NEW known \in BOOLEAN, NEW late \in BOOLEAN, NEW code \in Codes,
           NEW shown \in SUBSET Runs
    PROVE  /\ Response(post, v, run, known, late, code, shown) \in Handler \cup {Idle}
           /\ Response(post, v, run, known, late, code, shown).stage = "writing"
  BY DEF Response, Handler, Writing

-----------------------------------------------------------------------------
(* Nothing has been asked for. *)
LEMMA ApiInit == Init => TypeOK /\ ApiInv
  <1> SUFFICES ASSUME Init
               PROVE  TypeOK /\ ApiInv
    OBVIOUS
  <1>1. TypeOK
    BY DEF Init, TypeOK, History!Init, Codes
  <1>2. \A c \in Connections : handler[c].stage = "idle"
    BY DEF Init, Idle
  <1>3. Owner /\ \A c \in Connections : Sound(handler[c])
    BY <1>2 DEF Owner, Asks, Sound
  <1>4. \A r \in Runs : record[r] = "absent" /\ answer[r] = "none" /\ heard[r] = 0
    BY DEF Init, History!Init
  <1>5. Fresh /\ Answered /\ CodesMatchHistory
    <2>1. "none" \notin History!Terminal \cup {"refused", "conflict", "accepted"}
      BY DEF History!Terminal
    <2>2. PICK nothing : nothing = 0
      OBVIOUS
    <2>3. nothing \notin Refusals /\ nothing # 200 /\ nothing # 202
      BY <2>2 DEF Refusals
    <2>4. \A r \in Runs : heard[r] = nothing
      BY <1>4, <2>2
    <2>5. Fresh
      BY <1>4 DEF Fresh
    <2>6. Answered
      BY <1>4, <2>1 DEF Answered
    <2>7. CodesMatchHistory
      BY <2>3, <2>4, ZenonT(60) DEF CodesMatchHistory
    <2> QED
      BY <2>5, <2>6, <2>7
  <1>6. Shown
    BY DEF Init, Shown
  <1> QED
    BY <1>1, <1>3, <1>5, <1>6 DEF ApiInv

(* Sound of a value, and of the variable that holds it in the next state. *)
LEMMA SoundPrimed ==
    ASSUME \A c \in Connections : \A h : h = handler'[c] => Sound(h)'
    PROVE  \A c \in Connections : Sound(handler[c])'
  <1> TAKE c \in Connections
  <1>1. PICK h : h = handler'[c]
    OBVIOUS
  <1>2. Sound(h)'
    BY <1>1
  <1> QED
    BY <1>1, <1>2 DEF Sound

(* What a handler has established survives a step of somebody else that
   leaves alone the actions it relies on, and that forgets no run. *)
LEMMA SoundKept ==
    ASSUME NEW g \in Handler \cup {Idle}, Sound(g),
           UNCHANGED conf, told \subseteq told',
           g.stage = "invoking" => action'[g.run] = action[g.run],
           g.stage = "writing" =>
               /\ \A r \in g.shown : /\ action'[r] = action[r]
                                     /\ record[r] # "absent" => record'[r] # "absent"
               /\ \A r \in g.run : record[r] = "pruned" => record'[r] = "pruned",
           g.stage = "writing" /\ g.post => \A r \in g.run : CodeTrue(g.code, r)'
    PROVE  Sound(g)'
  <1>1. CASE g.stage = "invoking"
    <2>1. action'[g.run] = g.name /\ Authorized(g.token, g.name)
      BY <1>1 DEF Sound
    <2> QED
      BY <1>1, <2>1 DEF Sound, Authorized, Matching, AuthenticateToken
  <1>2. CASE g.stage = "getting"
    BY <1>2 DEF Sound, Matching
  <1>3. CASE g.stage = "listing"
    BY <1>3 DEF Sound, Matching
  <1>4. CASE g.stage = "writing"
    <2>1. \A r \in g.shown : ShownTo(g.token, r)'
      <3> TAKE r \in g.shown
      <3>1. Authorized(g.token, action[r]) /\ record[r] # "absent"
        BY <1>4 DEF Sound, ShownTo
      <3>2. action'[r] = action[r] /\ record'[r] # "absent"
        BY <1>4, <3>1
      <3> QED
        BY <3>1, <3>2 DEF ShownTo, Authorized, Matching, AuthenticateToken
    <2>2. Honest(g.known, g.code, g.run)'
      BY <1>4 DEF Sound, Honest
    <2> QED
      BY <1>4, <2>1, <2>2 DEF Sound
  <1> QED
    BY <1>1, <1>2, <1>3, <1>4, Stages DEF Sound

(* A handler goes on to a stage that is sound: nobody else notices. *)
LEMMA OneHandler ==
    ASSUME TypeOK, ApiInv, NEW c \in Connections, NEW h \in Handler \cup {Idle},
           handler' = [handler EXCEPT ![c] = h],
           UNCHANGED <<rest, action>>,
           Sound(h),
           \A r \in Runs : Asks(h, r) => Asks(handler[c], r)
    PROVE  TypeOK' /\ ApiInv'
  <1> USE DEF rest
  <1>1. /\ handler \in [Connections -> Handler \cup {Idle}]
        /\ handler' \in [Connections -> Handler \cup {Idle}]
        /\ \A d \in Connections : handler'[d] = IF d = c THEN h ELSE handler[d]
    BY DEF TypeOK
  <1>2. TypeOK'
    BY <1>1 DEF TypeOK
  <1>3. Owner'
    <2> SUFFICES ASSUME NEW d \in Connections, NEW r \in Runs, Asks(handler'[d], r)
                 PROVE  /\ action[r] # "" /\ heard[r] = 0
                        /\ \A e \in Connections : Asks(handler'[e], r) => e = d
      BY DEF Owner, Asks
    <2>1. \A e \in Connections : Asks(handler'[e], r) => Asks(handler[e], r)
      BY <1>1
    <2>2. Owner
      BY DEF ApiInv
    <2> QED
      BY <2>1, <2>2 DEF Owner
  <1>4. \A d \in Connections : Sound(handler[d])'
    <2> TAKE d \in Connections
    <2>1. Sound(handler'[d])
      BY <1>1 DEF ApiInv
    <2> QED
      BY <2>1 DEF Sound, ShownTo, Authorized, Matching, AuthenticateToken, CodeTrue, Honest
  <1>5. Shown'
    BY DEF ApiInv, Shown, ShownTo, Authorized, Matching, AuthenticateToken
  <1>6. Fresh'
    BY DEF ApiInv, Fresh
  <1>7. Answered'
    BY DEF ApiInv, Answered
  <1>8. CodesMatchHistory'
    BY DEF ApiInv, CodesMatchHistory
  <1> QED
    BY <1>2, <1>3, <1>4, <1>5, <1>6, <1>7, <1>8 DEF ApiInv

-----------------------------------------------------------------------------
(* A request that creates a run takes a run nobody has asked for.  What was
   decided about the other runs does not depend on it. *)
LEMMA Invoked ==
    ASSUME TypeOK, ApiInv, NEW c \in Connections, NEW r \in Runs, NEW v \in Tokens,
           NEW a \in Actions \cup {UnknownAction}, NEW body \in Bodies,
           invokeAction(c, r, v, a, body)
    PROVE  TypeOK' /\ ApiInv'
  <1> PICK code : code = InvokeRefusal(v, a, body)
    OBVIOUS
  <1>1. /\ action[r] = "" /\ a # ""
        /\ action' = [action EXCEPT ![r] = a]
        /\ UNCHANGED <<conf, record, answer, heard, told>>
        /\ record[r] = "absent" /\ heard[r] = 0
    BY NamesAssumption DEF invokeAction, rest, ApiInv, Fresh
  <1>2. /\ action' \in [Runs -> Actions \cup {"", UnknownAction}]
        /\ \A q \in Runs : action'[q] = IF q = r THEN a ELSE action[q]
    BY <1>1 DEF TypeOK
  <1>3. /\ code \in Refusals \cup {0}
        /\ code = 0 => Authorized(v, a) /\ a \in Actions /\ body \in {"sync", "async"}
    BY DEF InvokeRefusal, Authorized, Refusals, Bodies
  <1>4. PICK h : /\ handler' = [handler EXCEPT ![c] = h]
                 /\ code = 0 => h = [stage |-> "invoking", token |-> v, run |-> r, name |-> a,
                                     mode |-> body, late |-> FALSE]
                 /\ code # 0 => h = Response(TRUE, v, {r}, FALSE, FALSE, code, {})
    BY DEF invokeAction, Begin
  <1>5. h \in Handler \cup {Idle}
    <2>1. CASE code = 0
      <3>1. h = [stage |-> "invoking", token |-> v, run |-> r, name |-> a,
                 mode |-> body, late |-> FALSE]
        BY <2>1, <1>4
      <3>2. a \in Actions /\ body \in {"sync", "async"}
        BY <2>1, <1>3
      <3>3. h \in Invoking
        BY <3>1, <3>2 DEF Invoking
      <3> QED
        BY <3>3 DEF Handler
    <2>2. CASE code # 0
      <3>1. code \in Codes
        BY <1>3, <2>2 DEF Codes
      <3>2. h = Response(TRUE, v, {r}, FALSE, FALSE, code, {})
        BY <1>4, <2>2
      <3>3. {r} \in SUBSET Runs /\ {} \in SUBSET Runs
        OBVIOUS
      <3> QED
        BY <3>1, <3>2, <3>3, ResponseType
    <2> QED
      BY <2>1, <2>2
  <1>6. /\ handler \in [Connections -> Handler \cup {Idle}]
        /\ handler' \in [Connections -> Handler \cup {Idle}]
        /\ \A d \in Connections : handler'[d] = IF d = c THEN h ELSE handler[d]
    BY <1>4, <1>5 DEF TypeOK
  <1>7. TypeOK'
    BY <1>1, <1>2, <1>6 DEF TypeOK
  <1>8. \A q \in Runs : Asks(h, q) => q = r
    BY <1>4 DEF Asks, Response
  <1>9. \A d \in Connections : ~Asks(handler[d], r)
    BY <1>1 DEF ApiInv, Owner
  <1>10. Owner'
    <2> SUFFICES ASSUME NEW d \in Connections, NEW q \in Runs, Asks(handler'[d], q)
                 PROVE  /\ action'[q] # "" /\ heard[q] = 0
                        /\ \A e \in Connections : Asks(handler'[e], q) => e = d
      BY <1>1 DEF Owner, Asks
    <2>1. CASE q = r
      BY <2>1, <1>1, <1>2, <1>6, <1>9
    <2>2. CASE q # r
      BY <2>2, <1>2, <1>6, <1>8 DEF ApiInv, Owner
    <2> QED
      BY <2>1, <2>2
  <1>11. \A w, q : q \in Runs /\ ShownTo(w, q) => ShownTo(w, q)'
    <2> SUFFICES ASSUME NEW w, NEW q \in Runs, ShownTo(w, q)
                 PROVE  ShownTo(w, q)'
      OBVIOUS
    <2>1. q # r /\ action'[q] = action[q]
      BY <1>1, <1>2 DEF ShownTo
    <2> QED
      BY <2>1, <1>1 DEF ShownTo, Authorized, Matching, AuthenticateToken
  <1>12. Shown'
    BY <1>1, <1>11 DEF ApiInv, Shown
  <1>13. Fresh' /\ Answered' /\ CodesMatchHistory'
    <2>1. Fresh'
      BY <1>1, <1>2 DEF ApiInv, Fresh
    <2>2. Answered' /\ CodesMatchHistory'
      BY <1>1, ZenonT(60) DEF ApiInv, Answered, CodesMatchHistory
    <2> QED
      BY <2>1, <2>2
  <1>14. \A d \in Connections : \A g : d # c /\ g = handler[d] => Sound(g)'
    <2> SUFFICES ASSUME NEW d \in Connections, NEW g, d # c, g = handler[d]
                 PROVE  Sound(g)'
      OBVIOUS
    <2>1. g \in Handler \cup {Idle} /\ Sound(g)
      BY <1>6 DEF ApiInv
    <2>2. g.stage = "invoking" => action'[g.run] = action[g.run]
      BY <1>2, <1>9, <2>1, Stages DEF Asks, Invoking
    <2>3. g.stage = "writing" => \A q \in g.shown : action'[q] = action[q]
      <3>1. g.stage = "writing" => g.shown \in SUBSET Runs
        BY <2>1, Stages DEF Writing
      <3>2. g.stage = "writing" => \A q \in g.shown : record[q] # "absent"
        BY <2>1 DEF Sound, ShownTo
      <3> QED
        BY <3>1, <3>2, <1>1, <1>2
    <2>4. g.stage = "writing" /\ g.post => \A q \in g.run : CodeTrue(g.code, q)'
      BY <2>1, <1>1 DEF Sound, CodeTrue
    <2> QED
      BY <2>1, <2>2, <2>3, <2>4, <1>1, SoundKept
  <1>15. Sound(h)'
    <2>1. CASE code = 0
      <3>1. h.stage = "invoking" /\ h.run = r /\ h.name = a /\ h.token = v
        BY <2>1, <1>4
      <3>2. action'[r] = a /\ Authorized(v, a)
        BY <2>1, <1>2, <1>3
      <3> QED
        BY <3>1, <3>2, <1>1 DEF Sound, Authorized, Matching, AuthenticateToken
    <2>2. CASE code # 0
      <3>1. CodeTrue(code, r)'
        <4>1. code \notin {200, 202}
          BY <1>3, <2>2 DEF Refusals
        <4> QED
          BY <1>1, <4>1 DEF CodeTrue
      <3>2. h.stage = "writing" /\ h.shown = {} /\ h.run = {r} /\ h.code = code /\ ~h.known
        BY <2>2, <1>4 DEF Response
      <3> QED
        BY <3>1, <3>2 DEF Sound, Honest
    <2> QED
      BY <2>1, <2>2
  <1>16. \A d \in Connections : Sound(handler[d])'
    <2>1. \A d \in Connections : \A g : g = handler'[d] => Sound(g)'
      BY <1>6, <1>14, <1>15
    <2> QED
      BY <2>1, SoundPrimed
  <1> QED
    BY <1>7, <1>10, <1>12, <1>13, <1>16 DEF ApiInv

-----------------------------------------------------------------------------
(* A run is asked for by its id. *)
LEMMA GetAsked ==
    ASSUME TypeOK, ApiInv, NEW c \in Connections, NEW v \in Tokens, NEW r \in Runs,
           getRun(c, r, v)
    PROVE  TypeOK' /\ ApiInv'
  <1>1. PICK code, known :
           /\ code = IF Matching(v) = {} THEN 401 ELSE 0
           /\ known = (<<v, r>> \in told)
           /\ Begin(c, [stage |-> "getting", token |-> v, run |-> r, known |-> known],
                    code, Response(FALSE, v, {r}, known, FALSE, code, {}))
           /\ UNCHANGED <<rest, action>>
    BY ZenonT(60) DEF getRun
  <1>2. code \in Codes /\ known \in BOOLEAN /\ (code = 0 <=> Matching(v) # {})
    <2>1. code = IF Matching(v) = {} THEN 401 ELSE 0
      BY <1>1
    <2>2. known \in BOOLEAN
      BY <1>1
    <2> QED
      BY <2>1, <2>2 DEF Codes, Refusals
  <1>3. CASE code = 0
    <2>1. PICK h : /\ h = [stage |-> "getting", token |-> v, run |-> r, known |-> known]
                   /\ handler' = [handler EXCEPT ![c] = h]
      BY <1>1, <1>3 DEF Begin
    <2>2. h \in Handler \cup {Idle}
      BY <1>2, <2>1 DEF Handler, Getting
    <2>3. Sound(h) /\ \A q \in Runs : ~Asks(h, q)
      <3>1. h.stage = "getting" /\ h.token = v /\ h.run = r /\ h.known = known
        BY <2>1
      <3>2. Matching(v) # {} /\ (known => <<v, r>> \in told)
        BY <1>1, <1>2, <1>3
      <3> QED
        BY <3>1, <3>2 DEF Sound, Asks
    <2> QED
      BY <1>1, <2>1, <2>2, <2>3, OneHandler
  <1>4. CASE code # 0
    <2>1. PICK h : /\ h = Response(FALSE, v, {r}, known, FALSE, code, {})
                   /\ handler' = [handler EXCEPT ![c] = h]
      BY <1>1, <1>4 DEF Begin
    <2>2. h \in Handler \cup {Idle}
      BY <1>2, <2>1, ResponseType
    <2>3. ~known
      BY <1>1, <1>2, <1>4 DEF ApiInv, Shown, ShownTo, Authorized
    <2>4. h.stage = "writing" /\ h.shown = {} /\ h.post = FALSE /\ h.known = known
      BY <2>1 DEF Response
    <2>5. Sound(h) /\ \A q \in Runs : ~Asks(h, q)
      BY <2>3, <2>4 DEF Sound, Asks, Honest
    <2> QED
      BY <1>1, <2>1, <2>2, <2>5, OneHandler
  <1> QED
    BY <1>3, <1>4

(* Action names, and none for a listing without a filter. *)
Filter == Actions \cup {""}

(* A listing is asked for. *)
LEMMA ListAsked ==
    ASSUME TypeOK, ApiInv, NEW c \in Connections, NEW v \in Tokens,
           NEW a \in Filter, NEW s \in StatusFilters, listRuns(c, v, a, s)
    PROVE  TypeOK' /\ ApiInv'
  <1>1. PICK code, none :
           /\ code = IF Matching(v) = {} THEN 401
                     ELSE IF a # none /\ ~AllowsAction(AuthenticateToken(v), a) THEN 403 ELSE 0
           /\ Begin(c, [stage |-> "listing", token |-> v, name |-> a, status |-> s],
                    code, Response(FALSE, v, {}, FALSE, FALSE, code, {}))
           /\ UNCHANGED <<rest, action>>
    BY ZenonT(60) DEF listRuns
  <1>2. code = 401 \/ code = 403 \/ (code = 0 /\ Matching(v) # {})
    <2>1. code = IF Matching(v) = {} THEN 401
                 ELSE IF a # none /\ ~AllowsAction(AuthenticateToken(v), a) THEN 403 ELSE 0
      BY <1>1
    <2> QED
      BY <2>1 DEF AllowsAction
  <1>3. CASE code = 0
    <2>1. PICK h : /\ h = [stage |-> "listing", token |-> v, name |-> a, status |-> s]
                   /\ handler' = [handler EXCEPT ![c] = h]
      BY <1>1, <1>3 DEF Begin
    <2>2. h \in Handler \cup {Idle}
      BY <2>1 DEF Handler, Listing, Filter
    <2>3. Sound(h) /\ \A q \in Runs : ~Asks(h, q)
      <3>1. h.stage = "listing" /\ h.token = v
        BY <2>1
      <3> QED
        BY <1>2, <1>3, <3>1 DEF Sound, Asks
    <2> QED
      BY <1>1, <2>1, <2>2, <2>3, OneHandler
  <1>4. CASE code # 0
    <2>1. PICK h : /\ h = Response(FALSE, v, {}, FALSE, FALSE, code, {})
                   /\ handler' = [handler EXCEPT ![c] = h]
      BY <1>1, <1>4 DEF Begin
    <2>2. h \in Handler \cup {Idle}
      <3>1. code \in Codes
        BY <1>2, <1>4 DEF Codes, Refusals
      <3> QED
        BY <2>1, <3>1, ResponseType
    <2>3. h.stage = "writing" /\ h.shown = {} /\ h.post = FALSE /\ h.known = FALSE
      BY <2>1 DEF Response
    <2>4. Sound(h) /\ \A q \in Runs : ~Asks(h, q)
      BY <2>3 DEF Sound, Asks, Honest
    <2> QED
      BY <1>1, <2>1, <2>2, <2>4, OneHandler, ZenonT(60)
  <1> QED
    BY <1>3, <1>4

(* Invoke has returned: the code says about the run what the answer says. *)
LEMMA InvokeReturned ==
    ASSUME TypeOK, ApiInv, NEW c \in Connections, invokeReturns(c)
    PROVE  TypeOK' /\ ApiInv'
  <1>1. PICK g : g = handler[c] /\ g \in Handler \cup {Idle} /\ Sound(g)
    BY DEF TypeOK, ApiInv
  <1>2. g.stage = "invoking" /\ g \in Invoking /\ answer[g.run] # "none"
    BY <1>1, Stages DEF invokeReturns
  <1>3. g.token \in Tokens /\ g.run \in Runs /\ g.late \in BOOLEAN
    BY <1>2 DEF Invoking
  <1>4. PICK code, shown :
           /\ code = InvocationCode(answer[g.run])
           /\ shown = IF code \in {200, 202} THEN {g.run} ELSE {}
    OBVIOUS
  <1>5. PICK h : /\ h = Response(TRUE, g.token, {g.run}, FALSE, g.late, code, shown)
                 /\ handler' = [handler EXCEPT ![c] = h]
                 /\ UNCHANGED <<rest, action>>
    BY <1>1, <1>4 DEF invokeReturns, Respond
  <1>6. code \in Codes /\ shown \in SUBSET Runs
    BY <1>3, <1>4 DEF InvocationCode, Codes, Refusals
  <1>7. h \in Handler \cup {Idle}
    BY <1>3, <1>5, <1>6, ResponseType
  <1>8. /\ h.stage = "writing" /\ h.shown = shown /\ h.run = {g.run} /\ h.code = code
        /\ h.known = FALSE /\ h.token = g.token
    BY <1>5 DEF Response
  <1>9. /\ code \in Refusals => answer[g.run] \in {"refused", "conflict"}
        /\ code = 202 => answer[g.run] = "accepted"
        /\ code = 200 => answer[g.run] \in History!Terminal
    BY <1>4 DEF InvocationCode, Refusals
  <1>10. CodeTrue(code, g.run)
    BY <1>3, <1>9 DEF ApiInv, Answered, CodeTrue
  <1>11. \A r \in shown : ShownTo(g.token, r)
    <2>1. Authorized(g.token, action[g.run])
      BY <1>1, <1>2 DEF Sound
    <2>2. code \in {200, 202} => record[g.run] # "absent"
      BY <1>10 DEF CodeTrue, History!Terminal
    <2> QED
      BY <2>1, <2>2, <1>4 DEF ShownTo
  <1>12. Sound(h)
    BY <1>8, <1>10, <1>11 DEF Sound, Honest
  <1>13. \A r \in Runs : Asks(h, r) => Asks(handler[c], r)
    BY <1>1, <1>2, <1>8 DEF Asks
  <1> QED
    BY <1>5, <1>7, <1>12, <1>13, OneHandler

(* The response to a read is sound if it shows no more than the token may see
   and does not deny what the token was shown before. *)
LEMMA ReadSound ==
    ASSUME NEW v, NEW run, NEW known \in BOOLEAN, NEW code, NEW shown, NEW h,
           h = Response(FALSE, v, run, known, FALSE, code, shown),
           \A r \in shown : ShownTo(v, r),
           Honest(known, code, run)
    PROVE  Sound(h) /\ \A r \in Runs : ~Asks(h, r)
  <1>1. /\ h.stage = "writing" /\ h.post = FALSE /\ h.token = v /\ h.run = run
        /\ h.known = known /\ h.code = code /\ h.shown = shown
    BY DEF Response
  <1>2. \A r \in h.shown : ShownTo(h.token, r)
    BY <1>1
  <1>3. Honest(h.known, h.code, h.run)
    BY <1>1
  <1>4. h.stage = "writing" /\ ~h.post
    BY <1>1
  <1> QED
    BY <1>2, <1>3, <1>4 DEF Sound, Asks

(* So the others do not notice it. *)
LEMMA ReadResponse ==
    ASSUME TypeOK, ApiInv, NEW c \in Connections, NEW v \in Tokens, NEW run \in SUBSET Runs,
           NEW known \in BOOLEAN, NEW code \in Codes, NEW shown \in SUBSET Runs, NEW h,
           h = Response(FALSE, v, run, known, FALSE, code, shown),
           handler' = [handler EXCEPT ![c] = h], UNCHANGED <<rest, action>>,
           \A r \in shown : ShownTo(v, r),
           Honest(known, code, run)
    PROVE  TypeOK' /\ ApiInv'
  <1>1. h \in Handler \cup {Idle}
    BY ResponseType
  <1>2. Sound(h) /\ \A r \in Runs : ~Asks(h, r)
    BY ReadSound
  <1> QED
    BY <1>1, <1>2, OneHandler

(* The row was looked up. *)
LEMMA RowRead ==
    ASSUME TypeOK, ApiInv, NEW c \in Connections, runRead(c)
    PROVE  TypeOK' /\ ApiInv'
  <1>1. PICK g : g = handler[c] /\ g \in Handler \cup {Idle} /\ Sound(g)
    BY DEF TypeOK, ApiInv
  <1>2. \A r \in Present : record[r] # "absent"
    BY DEF Present, Statuses, History!Terminal
  <1>3. g.stage = "getting" /\ g \in Getting
    BY <1>1, Stages DEF runRead
  <1>4. g.token \in Tokens /\ g.run \in Runs /\ g.known \in BOOLEAN
    BY <1>3 DEF Getting
  <1>5. Matching(g.token) # {} /\ (g.known => ShownTo(g.token, g.run))
    BY <1>1, <1>3, <1>4 DEF Sound, ApiInv, Shown
  <1>6. CASE g.run \notin Present
    <2>1. PICK code, none : code = 404 /\ none = {}
      OBVIOUS
    <2>2. g.known = FALSE \/ record[g.run] = "pruned"
      BY <1>4, <1>5, <1>6 DEF ShownTo, TypeOK, Present
    <2>3. code \in Codes /\ Honest(g.known, code, {g.run}) /\ none \in SUBSET Runs
          /\ \A r \in none : ShownTo(g.token, r)
      BY <2>1, <2>2 DEF Codes, Refusals, Honest
    <2>4. PICK h : /\ h = Response(FALSE, g.token, {g.run}, g.known, FALSE, code, none)
                   /\ handler' = [handler EXCEPT ![c] = h] /\ UNCHANGED <<rest, action>>
      BY <1>1, <1>6, <2>1 DEF runRead, Respond
    <2> QED
      BY <1>4, <2>3, <2>4, ReadResponse
  <1>7. CASE g.run \in Present /\ ~AllowsAction(AuthenticateToken(g.token), action[g.run])
    <2>1. PICK code, none : code = 403 /\ none = {}
      OBVIOUS
    <2>2. ~g.known
      BY <1>5, <1>7 DEF ShownTo, Authorized
    <2>3. code \in Codes /\ Honest(g.known, code, {g.run}) /\ none \in SUBSET Runs
          /\ \A r \in none : ShownTo(g.token, r)
      BY <2>1, <2>2 DEF Codes, Refusals, Honest
    <2>4. PICK h : /\ h = Response(FALSE, g.token, {g.run}, g.known, FALSE, code, none)
                   /\ handler' = [handler EXCEPT ![c] = h] /\ UNCHANGED <<rest, action>>
      BY <1>1, <1>7, <2>1 DEF runRead, Respond
    <2> QED
      BY <1>4, <2>3, <2>4, ReadResponse
  <1>8. CASE g.run \in Present /\ AllowsAction(AuthenticateToken(g.token), action[g.run])
    <2>1. PICK code, mine : code = 200 /\ mine = {g.run}
      OBVIOUS
    <2>2. mine \in SUBSET Runs /\ \A r \in mine : ShownTo(g.token, r)
      BY <1>2, <1>4, <1>5, <1>8, <2>1 DEF ShownTo, Authorized
    <2>3. code \in Codes /\ Honest(g.known, code, {g.run})
      BY <2>1 DEF Codes, Honest
    <2>4. PICK h : /\ h = Response(FALSE, g.token, {g.run}, g.known, FALSE, code, mine)
                   /\ handler' = [handler EXCEPT ![c] = h] /\ UNCHANGED <<rest, action>>
      BY <1>1, <1>8, <2>1 DEF runRead, Respond
    <2> QED
      BY <1>4, <2>2, <2>3, <2>4, ReadResponse
  <1> QED
    BY <1>6, <1>7, <1>8

(* The rows were listed. *)
LEMMA RowsListed ==
    ASSUME TypeOK, ApiInv, NEW c \in Connections, runsListed(c)
    PROVE  TypeOK' /\ ApiInv'
  <1>1. PICK g : g = handler[c] /\ g \in Handler \cup {Idle} /\ Sound(g)
    BY DEF TypeOK, ApiInv
  <1>2. \A r \in Present : r \in Runs /\ record[r] # "absent"
    BY DEF Present, Statuses, History!Terminal
  <1>3. g.stage = "listing" /\ g \in Listing
    BY <1>1, Stages DEF runsListed
  <1>4. g.token \in Tokens /\ Matching(g.token) # {}
    BY <1>1, <1>3 DEF Listing, Sound
  <1>5. \A code : Honest(FALSE, code, {})
    BY DEF Honest
  <1>6. CASE g.status \notin Statuses \cup {""}
    <2>1. PICK code, none : code = 400 /\ none = {}
      OBVIOUS
    <2>2. code \in Codes /\ none \in SUBSET Runs /\ \A r \in none : ShownTo(g.token, r)
      BY <2>1 DEF Codes, Refusals
    <2>3. PICK h : /\ h = Response(FALSE, g.token, {}, FALSE, FALSE, code, none)
                   /\ handler' = [handler EXCEPT ![c] = h] /\ UNCHANGED <<rest, action>>
      BY <1>1, <1>6, <2>1 DEF runsListed, Respond
    <2> QED
      BY <1>4, <1>5, <2>2, <2>3, ReadResponse
  <1>7. CASE g.status \in Statuses \cup {""}
    <2> DEFINE rows == {r \in Present : /\ g.name # "" => action[r] = g.name
                                        /\ g.status # "" => record[r] = g.status}
    <2>1. PICK shown : shown = {r \in rows : AllowsAction(AuthenticateToken(g.token), action[r])}
      OBVIOUS
    <2>2. PICK code, none : code = 200 /\ none = {}
      OBVIOUS
    <2>3. code \in Codes
      BY <2>2 DEF Codes
    <2>4. PICK h : /\ h = Response(FALSE, g.token, {}, FALSE, FALSE, code, shown)
                   /\ handler' = [handler EXCEPT ![c] = h] /\ UNCHANGED <<rest, action>>
      BY <1>1, <1>7, <2>1, <2>2, ZenonT(60) DEF runsListed, Respond
    <2>5. rows \in SUBSET Present
      OBVIOUS
    <2> HIDE DEF rows
    <2>6. shown \in SUBSET Runs /\ \A r \in shown : ShownTo(g.token, r)
      BY <1>2, <1>4, <2>1, <2>5 DEF ShownTo, Authorized
    <2> QED
      BY <1>4, <1>5, <2>3, <2>4, <2>6, ReadResponse
  <1> QED
    BY <1>6, <1>7

(* The store failed. *)
LEMMA ReadFailed ==
    ASSUME TypeOK, ApiInv, NEW c \in Connections, readFails(c)
    PROVE  TypeOK' /\ ApiInv'
  <1>1. PICK g : g = handler[c] /\ g \in Handler \cup {Idle} /\ Sound(g)
    BY DEF TypeOK, ApiInv
  <1>2. PICK v \in Tokens : v = g.token
    <2>1. g \in Getting \cup Listing
      BY <1>1, Stages DEF readFails
    <2> QED
      BY <2>1 DEF Getting, Listing
  <1>3. PICK code, none : code = 500 /\ none = {}
    OBVIOUS
  <1>4. /\ code \in Codes /\ Honest(FALSE, code, none)
        /\ none \in SUBSET Runs /\ \A r \in none : ShownTo(v, r)
    BY <1>3 DEF Codes, Honest
  <1>5. PICK h : /\ h = Response(FALSE, v, none, FALSE, FALSE, code, none)
                 /\ handler' = [handler EXCEPT ![c] = h] /\ UNCHANGED <<rest, action>>
    BY <1>1, <1>2, <1>3 DEF readFails, Respond
  <1> QED
    BY <1>4, <1>5, ReadResponse

(* The deadline changes nothing that the others rely on. *)
LEMMA DeadlinePassed ==
    ASSUME TypeOK, ApiInv, NEW c \in Connections, WriteDeadline(c)
    PROVE  TypeOK' /\ ApiInv'
  <1>1. PICK g : g = handler[c] /\ g \in Handler \cup {Idle} /\ Sound(g)
    BY DEF TypeOK, ApiInv
  <1>2. g.stage = "invoking" /\ g \in Invoking
    BY <1>1, Stages DEF WriteDeadline
  <1>3. PICK h : h = [g EXCEPT !.late = TRUE]
    OBVIOUS
  <1>4. handler' = [handler EXCEPT ![c] = h] /\ UNCHANGED <<rest, action>>
    BY <1>1, <1>3 DEF WriteDeadline, TypeOK
  <1>5. h \in Invoking /\ h.stage = "invoking" /\ h.run = g.run /\ h.name = g.name
        /\ h.token = g.token
    BY <1>2, <1>3 DEF Invoking
  <1>6. h \in Handler \cup {Idle}
    BY <1>5 DEF Handler
  <1>7. Sound(h) /\ \A r \in Runs : Asks(h, r) => Asks(handler[c], r)
    BY <1>1, <1>2, <1>5 DEF Sound, Asks
  <1> QED
    BY <1>4, <1>6, <1>7, OneHandler

-----------------------------------------------------------------------------
(* What a step of the execution service may do to the run r.  A run only
   appears on behalf of the handler that waits for it. *)
Evolves(r) ==
    /\ record[r] # "absent" => record'[r] # "absent"
    /\ record[r] = "pruned" => record'[r] = "pruned"
    /\ record[r] \in History!Terminal \cup {"pruned"} =>
           record'[r] \in History!Terminal \cup {"pruned"}
    /\ record'[r] # record[r] /\ record[r] = "absent" =>
           \E c \in Connections : handler[c].stage = "invoking" /\ handler[c].run = r
    /\ action[r] = "" => record'[r] = record[r] /\ answer'[r] = answer[r]

(* Such a step, which may happen at any time between two of a handler, makes no
   code wrong that was written or decided on. *)
LEMMA HistoryMoves ==
    ASSUME TypeOK, ApiInv, UNCHANGED <<conf, action, handler, heard, told>>,
           record' \in [Runs -> {"absent", "pruned"} \cup Statuses],
           answer' \in [Runs -> {"none", "refused", "conflict", "accepted", "error"}
                                \cup History!Terminal],
           \A r \in Runs : Evolves(r), Answered'
    PROVE  TypeOK' /\ ApiInv'
  <1>1. TypeOK'
    BY DEF TypeOK
  <1>2. \A r \in Runs :
          /\ record[r] # "absent" => record'[r] # "absent"
          /\ record[r] = "pruned" => record'[r] = "pruned"
          /\ record[r] \in History!Terminal \cup {"pruned"} =>
                 record'[r] \in History!Terminal \cup {"pruned"}
          /\ action[r] = "" => record'[r] = record[r] /\ answer'[r] = answer[r]
    BY DEF Evolves
  <1>3. ASSUME NEW r \in Runs, record[r] = "absent", record'[r] # "absent"
        PROVE  /\ heard[r] = 0
               /\ \A d \in Connections : ~(handler[d].stage = "writing" /\ handler[d].post
                                           /\ r \in handler[d].run)
    <2>1. PICK c \in Connections : handler[c].stage = "invoking" /\ handler[c].run = r
      BY <1>3 DEF Evolves
    <2>2. Asks(handler[c], r)
      BY <2>1 DEF Asks
    <2>3. heard[r] = 0 /\ \A d \in Connections : Asks(handler[d], r) => d = c
      BY <2>2 DEF ApiInv, Owner
    <2> QED
      BY <2>1, <2>3 DEF Asks
  <1>4. Fresh'
    BY <1>2 DEF ApiInv, Fresh
  <1>5. Owner'
    BY ZenonT(60) DEF ApiInv, Owner, Asks
  <1>6. CodesMatchHistory'
    <2> SUFFICES ASSUME NEW r \in Runs
                 PROVE  /\ heard[r] \in Refusals => record'[r] = "absent"
                        /\ heard[r] = 202 => record'[r] # "absent"
                        /\ heard[r] = 200 => record'[r] \in History!Terminal \cup {"pruned"}
      BY DEF CodesMatchHistory
    <2>1. heard[r] \in Refusals => heard[r] # 0
      BY DEF Refusals
    <2>2. /\ heard[r] \in Refusals => record[r] = "absent"
          /\ heard[r] = 202 => record[r] # "absent"
          /\ heard[r] = 200 => record[r] \in History!Terminal \cup {"pruned"}
      BY DEF ApiInv, CodesMatchHistory
    <2> QED
      BY <1>2, <1>3, <2>1, <2>2
  <1>7. Shown'
    <2> SUFFICES ASSUME NEW v \in Tokens, NEW r \in Runs, <<v, r>> \in told
                 PROVE  ShownTo(v, r)'
      BY DEF Shown
    <2>1. Authorized(v, action[r]) /\ record[r] # "absent"
      BY DEF ApiInv, Shown, ShownTo
    <2>2. record'[r] # "absent"
      BY <1>2, <2>1
    <2> QED
      BY <2>1, <2>2 DEF ShownTo, Authorized, Matching, AuthenticateToken
  <1>8. \A d \in Connections : \A g : g = handler'[d] => Sound(g)'
    <2> SUFFICES ASSUME NEW d \in Connections, NEW g, g = handler[d]
                 PROVE  Sound(g)'
      OBVIOUS
    <2>1. g \in Handler \cup {Idle} /\ Sound(g)
      BY DEF TypeOK, ApiInv
    <2>2. g.stage = "writing" => g.run \in SUBSET Runs /\ g.shown \in SUBSET Runs
      BY <2>1, Stages DEF Writing
    <2>3. g.stage = "writing" =>
             /\ \A r \in g.shown : /\ action'[r] = action[r]
                                   /\ record[r] # "absent" => record'[r] # "absent"
             /\ \A r \in g.run : record[r] = "pruned" => record'[r] = "pruned"
      BY <1>2, <2>2
    <2>4. ASSUME g.stage = "writing", g.post, NEW r \in g.run
          PROVE  CodeTrue(g.code, r)'
      <3>1. r \in Runs /\ CodeTrue(g.code, r)
        BY <2>1, <2>2, <2>4 DEF Sound
      <3>2. record[r] = "absent" => record'[r] = "absent"
        BY <1>3, <2>4, <3>1
      <3> QED
        BY <1>2, <3>1, <3>2 DEF CodeTrue
    <2> QED
      BY <2>1, <2>3, <2>4, SoundKept
  <1> QED
    BY <1>1, <1>4, <1>5, <1>6, <1>7, <1>8, SoundPrimed DEF ApiInv

(* Service.Invoke works for the handler of c. *)
LEMMA InvokeWorks ==
    ASSUME TypeOK, ApiInv, NEW c \in Connections, Invoke(c)
    PROVE  TypeOK' /\ ApiInv'
  <1>1. PICK g : g = handler[c] /\ g \in Handler \cup {Idle}
    BY DEF TypeOK
  <1>2. g.stage = "invoking" /\ g \in Invoking
    BY <1>1, Stages DEF Invoke
  <1>3. PICK r \in Runs : r = g.run
    BY <1>2 DEF Invoking
  <1>4. action[r] # ""
    BY <1>1, <1>2, <1>3 DEF ApiInv, Owner, Asks
  <1>5. UNCHANGED <<conf, action, handler, heard, told>>
    BY DEF Invoke
  <1>6. \/ History!Create(r)
        \/ record[r] = "absent" /\ History!Tell(r, "conflict")
        \/ History!Accept(r)
        \/ History!Report(r)
        \/ History!Apologise(r)
        \/ record[r] = "absent" /\ History!Tell(r, "refused")
    BY <1>1, <1>3 DEF Invoke
  <1>7. CASE History!Create(r)
    <2>1. /\ record[r] = "absent" /\ answer[r] = "none" /\ UNCHANGED answer
          /\ record' = [record EXCEPT ![r] = "running"]
      BY <1>7 DEF History!Create
    <2>2. /\ record' \in [Runs -> {"absent", "pruned"} \cup Statuses]
          /\ answer' \in [Runs -> {"none", "refused", "conflict", "accepted", "error"}
                                  \cup History!Terminal]
          /\ \A q \in Runs : record'[q] = IF q = r THEN "running" ELSE record[q]
      BY <2>1 DEF TypeOK, Statuses
    <2>3. \A q \in Runs : Evolves(q)
      BY <1>1, <1>2, <1>3, <1>4, <2>1, <2>2 DEF Evolves, History!Terminal
    <2>4. Answered'
      BY <2>1, <2>2 DEF ApiInv, Answered, History!Terminal
    <2> QED
      BY <1>5, <2>2, <2>3, <2>4, HistoryMoves
  <1>8. ASSUME NEW a, History!Tell(r, a),
               \/ a \in {"refused", "conflict"} /\ record[r] = "absent"
               \/ a = "accepted" /\ record[r] = "running"
               \/ a = record[r] /\ a \in History!Terminal
               \/ a = "error"
        PROVE  TypeOK' /\ ApiInv'
    <2>1. answer' = [answer EXCEPT ![r] = a] /\ UNCHANGED record
      BY <1>8 DEF History!Tell
    <2>2. /\ record' \in [Runs -> {"absent", "pruned"} \cup Statuses]
          /\ answer' \in [Runs -> {"none", "refused", "conflict", "accepted", "error"}
                                  \cup History!Terminal]
          /\ \A q \in Runs : answer'[q] = IF q = r THEN a ELSE answer[q]
      BY <1>8, <2>1 DEF TypeOK
    <2>3. \A q \in Runs : Evolves(q)
      BY <1>4, <2>1, <2>2 DEF Evolves
    <2>4. Answered'
      BY <1>8, <2>1, <2>2 DEF ApiInv, Answered, History!Terminal
    <2> QED
      BY <1>5, <2>2, <2>3, <2>4, HistoryMoves
  <1> QED
    BY <1>6, <1>7, <1>8 DEF History!Accept, History!Report, History!Apologise

(* A run ends, or retention deletes some. *)
LEMMA BackgroundWorks ==
    ASSUME TypeOK, ApiInv, Background
    PROVE  TypeOK' /\ ApiInv'
  <1>1. UNCHANGED <<conf, action, handler, heard, told>>
    BY DEF Background
  <1>2. /\ UNCHANGED answer
        /\ record' \in [Runs -> {"absent", "pruned"} \cup Statuses]
        /\ \A r \in Runs :
             \/ record'[r] = record[r]
             \/ record[r] \in History!Terminal /\ record'[r] = "pruned"
             \/ record[r] = "running" /\ record'[r] \in History!Terminal
    <2>1. CASE History!Prune
      <3>1. PICK S \in SUBSET {r \in Runs : record[r] \in History!Terminal} :
                record' = [r \in Runs |-> IF r \in S THEN "pruned" ELSE record[r]]
        BY <2>1 DEF History!Prune
      <3>2. UNCHANGED answer
        BY <2>1 DEF History!Prune
      <3> QED
        BY <3>1, <3>2 DEF TypeOK
    <2>2. CASE \E r \in Runs : History!Settle(r)
      <3>1. PICK r \in Runs : History!Settle(r)
        BY <2>2
      <3>2. PICK s \in History!Terminal : record' = [record EXCEPT ![r] = s]
        BY <3>1 DEF History!Settle
      <3>3. record[r] = "running" /\ UNCHANGED answer
        BY <3>1 DEF History!Settle
      <3> QED
        BY <3>2, <3>3 DEF TypeOK, Statuses
    <2> QED
      BY <2>1, <2>2 DEF Background
  <1>3. \A r \in Runs : Evolves(r)
    <2> TAKE r \in Runs
    <2>1. action[r] = "" => record[r] = "absent"
      BY DEF ApiInv, Fresh
    <2>2. record[r] = "absent" => record'[r] = record[r]
      BY <1>2 DEF History!Terminal
    <2>3. /\ record[r] # "absent" => record'[r] # "absent"
          /\ record[r] = "pruned" => record'[r] = "pruned"
          /\ record[r] \in History!Terminal \cup {"pruned"} =>
                 record'[r] \in History!Terminal \cup {"pruned"}
      BY <1>2 DEF History!Terminal
    <2>4. answer'[r] = answer[r]
      BY <1>2
    <2> QED
      BY <2>1, <2>2, <2>3, <2>4 DEF Evolves
  <1>4. Answered'
    BY <1>2 DEF ApiInv, Answered, History!Terminal
  <1>5. answer' \in [Runs -> {"none", "refused", "conflict", "accepted", "error"}
                             \cup History!Terminal]
    BY <1>2 DEF TypeOK
  <1> QED
    BY <1>1, <1>2, <1>3, <1>4, <1>5, HistoryMoves

-----------------------------------------------------------------------------
(* The response is written, or the connection is gone. *)
LEMMA Written ==
    ASSUME TypeOK, ApiInv, NEW c \in Connections, writeJSON(c)
    PROVE  TypeOK' /\ ApiInv'
  <1>1. PICK g : g = handler[c] /\ g \in Handler \cup {Idle} /\ Sound(g)
    BY DEF TypeOK, ApiInv
  <1>2. g.stage = "writing" /\ g \in Writing
    BY <1>1, Stages DEF writeJSON
  <1>3. /\ g.post \in BOOLEAN /\ g.token \in Tokens /\ g.run \in SUBSET Runs
        /\ g.late \in BOOLEAN /\ g.code \in Codes /\ g.shown \in SUBSET Runs
    BY <1>2 DEF Writing
  <1>4. /\ handler' = [handler EXCEPT ![c] = Idle]
        /\ UNCHANGED <<conf, record, answer, action>>
    BY DEF writeJSON
  <1>5. /\ handler \in [Connections -> Handler \cup {Idle}]
        /\ handler' \in [Connections -> Handler \cup {Idle}]
        /\ \A d \in Connections : handler'[d] = IF d = c THEN Idle ELSE handler[d]
    BY <1>4 DEF TypeOK
  <1>6. /\ told \subseteq told'
        /\ \A v \in Tokens, r \in Runs :
              <<v, r>> \in told' => <<v, r>> \in told \/ (v = g.token /\ r \in g.shown)
        /\ told' \subseteq Tokens \X Runs
    BY <1>1, <1>3 DEF writeJSON, TypeOK
  <1>7. /\ heard' \in [Runs -> Codes \cup {Cut}]
        /\ \A r \in Runs : heard'[r] = heard[r] \/ (Asks(g, r) /\ heard'[r] \in {g.code, Cut})
    <2>1. CASE UNCHANGED <<heard, told>>
      BY <2>1 DEF TypeOK
    <2>2. CASE heard' = [r \in Runs |-> IF ~(g.post /\ r \in g.run) THEN heard[r]
                                       ELSE IF g.late THEN Cut ELSE g.code]
      <3>1. \A r \in Runs : ~(g.post /\ r \in g.run) => heard'[r] = heard[r]
        BY <2>2
      <3>2. \A r \in Runs : g.post /\ r \in g.run => heard'[r] \in {g.code, Cut}
        BY <2>2, <1>3
      <3>3. heard \in [Runs -> Codes \cup {Cut}]
        BY DEF TypeOK
      <3>4. heard' \in [Runs -> Codes \cup {Cut}]
        BY <2>2, <1>3, <3>3
      <3> QED
        BY <1>2, <3>1, <3>2, <3>4 DEF Asks
    <2> QED
      BY <1>1, <2>1, <2>2 DEF writeJSON
  <1>8. TypeOK'
    BY <1>4, <1>5, <1>6, <1>7 DEF TypeOK
  <1>9. \A r \in Runs : ~Asks(Idle, r)
    BY DEF Asks, Idle
  <1>10. \A d \in Connections, r \in Runs :
            Asks(handler'[d], r) => d # c /\ Asks(handler[d], r) /\ heard'[r] = heard[r]
    <2> SUFFICES ASSUME NEW d \in Connections, NEW r \in Runs, Asks(handler'[d], r)
                 PROVE  d # c /\ Asks(handler[d], r) /\ heard'[r] = heard[r]
      OBVIOUS
    <2>1. d # c /\ handler'[d] = handler[d]
      BY <1>5, <1>9
    <2>2. Asks(handler[d], r)
      BY <2>1
    <2>3. ~Asks(g, r)
      BY <1>1, <2>1, <2>2 DEF ApiInv, Owner
    <2> QED
      BY <1>7, <2>1, <2>2, <2>3
  <1>11. Owner'
    <2> SUFFICES ASSUME NEW d \in Connections, NEW r \in Runs, Asks(handler'[d], r)
                 PROVE  /\ action[r] # "" /\ heard'[r] = 0
                        /\ \A e \in Connections : Asks(handler'[e], r) => e = d
      BY <1>4 DEF Owner, Asks
    <2> QED
      BY <1>10 DEF ApiInv, Owner
  <1>12. Fresh'
    <2>1. \A r \in Runs : action[r] = "" => heard'[r] = heard[r]
      BY <1>1, <1>7 DEF ApiInv, Owner
    <2> QED
      BY <1>4, <2>1 DEF ApiInv, Fresh
  <1>13. Answered'
    BY <1>4 DEF ApiInv, Answered
  <1>14. \A r \in Runs : CodeTrue(heard'[r], r)
    <2> TAKE r \in Runs
    <2>1. CASE heard'[r] = heard[r]
      BY <2>1 DEF ApiInv, CodesMatchHistory, CodeTrue
    <2>2. CASE Asks(g, r) /\ heard'[r] = g.code
      BY <1>1, <1>2, <2>2 DEF Sound, Asks
    <2>3. CASE heard'[r] = Cut
      BY <2>3 DEF CodeTrue, Cut, Refusals
    <2> QED
      BY <1>7, <2>1, <2>2, <2>3
  <1>15. CodesMatchHistory'
    BY <1>4, <1>14 DEF CodesMatchHistory, CodeTrue
  <1>16. \A v, r : ShownTo(v, r) => ShownTo(v, r)'
    BY <1>4 DEF ShownTo, Authorized, Matching, AuthenticateToken
  <1>17. Shown'
    <2> SUFFICES ASSUME NEW v \in Tokens, NEW r \in Runs, <<v, r>> \in told'
                 PROVE  ShownTo(v, r)'
      BY DEF Shown
    <2>1. ShownTo(v, r)
      BY <1>1, <1>2, <1>6 DEF ApiInv, Shown, Sound
    <2> QED
      BY <1>16, <2>1
  <1>18. \A d \in Connections : \A h : h = handler'[d] => Sound(h)'
    <2> SUFFICES ASSUME NEW d \in Connections, NEW h, h = handler'[d]
                 PROVE  Sound(h)'
      OBVIOUS
    <2>1. CASE d = c
      <3>1. h.stage = "idle"
        BY <2>1, <1>5 DEF Idle
      <3> QED
        BY <3>1 DEF Sound
    <2>2. CASE d # c
      <3>1. h = handler[d] /\ h \in Handler \cup {Idle} /\ Sound(h)
        BY <2>2, <1>5 DEF ApiInv
      <3>2. h.stage = "writing" /\ h.post => \A r \in h.run : CodeTrue(h.code, r)'
        BY <1>4, <3>1 DEF Sound, CodeTrue
      <3> QED
        BY <1>4, <1>6, <3>1, <3>2, SoundKept
    <2> QED
      BY <2>1, <2>2
  <1> QED
    BY <1>8, <1>11, <1>12, <1>13, <1>15, <1>17, <1>18, SoundPrimed DEF ApiInv

(* A new process knows of no request, and has told nobody anything. *)
LEMMA Restarted ==
    ASSUME TypeOK, ApiInv, Restart
    PROVE  TypeOK' /\ ApiInv'
  <1>1. /\ conf' \in Configs /\ handler' = [c \in Connections |-> Idle] /\ told' = {}
        /\ UNCHANGED <<record, answer, action, heard>>
    BY DEF Restart
  <1>2. \A c \in Connections : handler'[c] = Idle /\ handler'[c].stage = "idle"
    BY <1>1 DEF Idle
  <1>3. TypeOK'
    BY <1>1 DEF TypeOK
  <1>4. Owner' /\ \A c \in Connections : Sound(handler[c])'
    BY <1>2 DEF Owner, Asks, Sound
  <1>5. Fresh'
    BY <1>1 DEF ApiInv, Fresh
  <1>6. Answered' /\ CodesMatchHistory'
    BY <1>1 DEF ApiInv, Answered, CodesMatchHistory
  <1>7. Shown'
    BY <1>1 DEF Shown
  <1> QED
    BY <1>3, <1>4, <1>5, <1>6, <1>7 DEF ApiInv

(* Nobody moves. *)
LEMMA NobodyMoves ==
    ASSUME TypeOK, ApiInv, UNCHANGED vars
    PROVE  TypeOK' /\ ApiInv'
  <1>1. UNCHANGED <<conf, record, answer, action, handler, heard, told>>
    BY DEF vars
  <1>2. TypeOK'
    BY <1>1 DEF TypeOK
  <1>3. Fresh'
    BY <1>1 DEF ApiInv, Fresh
  <1>4. Owner' /\ Answered' /\ CodesMatchHistory'
    <2>1. Owner'
      BY <1>1, ZenonT(60) DEF ApiInv, Owner, Asks
    <2>2. Answered' /\ CodesMatchHistory'
      BY <1>1 DEF ApiInv, Answered, CodesMatchHistory
    <2> QED
      BY <2>1, <2>2
  <1>5. Shown'
    BY <1>1, SMTT(30) DEF ApiInv, Shown, ShownTo, Authorized, Matching, AuthenticateToken
  <1>6. \A c \in Connections : Sound(handler[c])'
    BY <1>1, SMTT(30) DEF ApiInv, Sound, ShownTo, Authorized, Matching, AuthenticateToken, CodeTrue, Honest
  <1> QED
    BY <1>2, <1>3, <1>4, <1>5, <1>6 DEF ApiInv

LEMMA ApiStep == TypeOK /\ ApiInv /\ [Next]_vars => TypeOK' /\ ApiInv'
  <1> SUFFICES ASSUME TypeOK, ApiInv, [Next]_vars
               PROVE  TypeOK' /\ ApiInv'
    OBVIOUS
  <1>1. ASSUME NEW c \in Connections, NEW v \in Tokens, NEW r \in Runs,
               NEW a \in Actions \cup {UnknownAction}, NEW body \in Bodies,
               invokeAction(c, r, v, a, body)
        PROVE  TypeOK' /\ ApiInv'
    BY <1>1, Invoked
  <1>2. ASSUME NEW c \in Connections, NEW v \in Tokens, NEW r \in Runs, getRun(c, r, v)
        PROVE  TypeOK' /\ ApiInv'
    BY <1>2, GetAsked
  <1>3. ASSUME NEW c \in Connections, NEW v \in Tokens, NEW a \in Filter,
               NEW s \in StatusFilters, listRuns(c, v, a, s)
        PROVE  TypeOK' /\ ApiInv'
    BY <1>3, ListAsked
  <1>4. ASSUME NEW c \in Connections, Invoke(c)
        PROVE  TypeOK' /\ ApiInv'
    BY <1>4, InvokeWorks
  <1>5. ASSUME NEW c \in Connections, invokeReturns(c)
        PROVE  TypeOK' /\ ApiInv'
    BY <1>5, InvokeReturned
  <1>6. ASSUME NEW c \in Connections, runRead(c)
        PROVE  TypeOK' /\ ApiInv'
    BY <1>6, RowRead
  <1>7. ASSUME NEW c \in Connections, runsListed(c)
        PROVE  TypeOK' /\ ApiInv'
    BY <1>7, RowsListed
  <1>8. ASSUME NEW c \in Connections, readFails(c)
        PROVE  TypeOK' /\ ApiInv'
    BY <1>8, ReadFailed
  <1>9. ASSUME NEW c \in Connections, WriteDeadline(c)
        PROVE  TypeOK' /\ ApiInv'
    BY <1>9, DeadlinePassed
  <1>10. ASSUME NEW c \in Connections, writeJSON(c)
         PROVE  TypeOK' /\ ApiInv'
    BY <1>10, Written
  <1>11. CASE Background
    BY <1>11, BackgroundWorks
  <1>12. CASE Restart
    BY <1>12, Restarted
  <1>13. CASE UNCHANGED vars
    BY <1>13, NobodyMoves
  <1> QED
    BY <1>1, <1>2, <1>3, <1>4, <1>5, <1>6, <1>7, <1>8, <1>9, <1>10, <1>11, <1>12, <1>13
       DEF Next, Filter

LEMMA ApiInvariant == Spec => [](TypeOK /\ ApiInv)
  BY ApiInit, ApiStep, PTL DEF Spec

-----------------------------------------------------------------------------
(* A request has the fields its stage needs, and a code is one the API knows. *)
THEOREM ApiTypeCorrect == Spec => []TypeOK
  BY ApiInvariant, PTL

(* No token starts or sees a run out of its scope: the three handlers ask for
   the scope at different moments, invokeAction before the run exists, getRun
   after the row was read and listRuns row by row, and the credential that
   decides is the first of the file with the token's value. *)
THEOREM ScopeIsRespected == Spec => []ScopeRespected
  <1>1. TypeOK /\ ApiInv => ScopeRespected
    <2> SUFFICES ASSUME TypeOK, ApiInv, NEW c \in Connections
                 PROVE  /\ handler[c].stage = "invoking" =>
                              Granted(handler[c].token, handler[c].name)
                        /\ handler[c].stage = "writing" =>
                              \A r \in handler[c].shown : Granted(handler[c].token, action[r])
      BY DEF ScopeRespected
    <2>1. Sound(handler[c])
      BY DEF ApiInv
    <2>2. handler[c].stage = "invoking" => Authorized(handler[c].token, handler[c].name)
      BY <2>1 DEF Sound
    <2>3. handler[c].stage = "writing" =>
              \A r \in handler[c].shown : Authorized(handler[c].token, action[r])
      BY <2>1 DEF Sound, ShownTo
    <2> QED
      BY <2>2, <2>3, AuthorizedIsGranted
  <1> QED
    BY <1>1, ApiInvariant, PTL

(* Once a token was shown a run, a GET with it answers 200, or 404 when
   retention has deleted the run: neither 401, 403 nor a 404 while it exists. *)
THEOREM ReadableOnceShown == Spec => []ReadableOnceTold
  <1>1. ApiInv => ReadableOnceTold
    BY DEF ApiInv, ReadableOnceTold, Sound, Honest
  <1> QED
    BY <1>1, ApiInvariant, PTL

(* A refusal leaves no trace, 202 means that the run is in the history and 200
   that it is over, when the code was decided on, when it is heard and ever
   after: nobody but the handler that answers can create the run. *)
THEOREM CodesAreTrue == Spec => []CodesMatchHistory
  <1>1. ApiInv => CodesMatchHistory
    BY DEF ApiInv
  <1> QED
    BY <1>1, ApiInvariant, PTL
=============================================================================
