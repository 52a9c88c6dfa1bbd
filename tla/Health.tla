------------------------------- MODULE Health -------------------------------
(***************************************************************************)
(* internal/health: the server that answers /health and /ready, with the   *)
(* checkers main() registers, beside the components they check.  Every     *)
(* request is a goroutine; it copies the checkers and the ready flag under *)
(* a read lock, then calls the checkers one after another, in whatever     *)
(* order the map gives them, under one context with one deadline.          *)
(***************************************************************************)
EXTENDS Naturals, FiniteSets

CONSTANTS
    Requests,        \* requests to the server
    Path,            \* the path each asks for: "health" or "ready"
    Components,      \* names of the checkers: "docker", "technitium"
    Nothing,         \* no checker is being called
    CheckTimeout,    \* 5 s, in ticks
    ShutdownTimeout  \* 10 s, in ticks

ASSUME HealthAssumption ==
    /\ Path \in [Requests -> {"health", "ready"}]
    /\ IsFiniteSet(Components)
    /\ Nothing \notin Components
    /\ CheckTimeout \in Nat \ {0}
    /\ ShutdownTimeout \in Nat
    /\ CheckTimeout < ShutdownTimeout

VARIABLES
    checkers,  \* names registered so far
    ready,     \* what SetReady has set
    server,    \* "off", "serving", "failed", "closing", "closed" or "killed"
    closing,   \* ticks since Shutdown was called
    notified,  \* signal.Notify has been called
    component, \* "up", "down" (answers with an error) or "hung"
    pc,        \* where each request is
    sawReady,  \* the ready flag it copied
    todo,      \* the checkers it copied and has not called yet
    calling,   \* the checker it is calling
    good, bad, \* Components of its answer: healthy, unhealthy
    age,       \* ticks since its context was made
    code,      \* status code of its answer
    trouble    \* components that were not up while it ran (history)

mainVars == <<checkers, ready, server, closing, notified>>
checkVars == <<todo, calling, good, bad, age>>
vars == <<mainVars, component, pc, sawReady, checkVars, code, trouble>>

States == {"up", "down", "hung"}
Codes  == {0, 200, 503}
Places == {"none", "accepted", "checking", "answered", "lost"}
InFlight(r) == pc[r] \in {"accepted", "checking"}

Init ==
    /\ checkers = {}
    /\ ready = FALSE
    /\ server = "off"
    /\ closing = 0
    /\ notified = FALSE
    /\ component \in [Components -> States]
    /\ pc = [r \in Requests |-> "none"]
    /\ sawReady = [r \in Requests |-> FALSE]
    /\ todo = [r \in Requests |-> {}]
    /\ calling = [r \in Requests |-> Nothing]
    /\ good = [r \in Requests |-> {}]
    /\ bad = [r \in Requests |-> {}]
    /\ age = [r \in Requests |-> 0]
    /\ code = [r \in Requests |-> 0]
    /\ trouble = [r \in Requests |-> {}]

-----------------------------------------------------------------------------
(* main(): register, start, reconcile, ready, wait, shut down.             *)

RegisterChecker(c) ==
    /\ server = "off"
    /\ c \notin checkers
    /\ checkers' = checkers \union {c}
    /\ UNCHANGED <<ready, server, closing, notified, component, pc, sawReady, checkVars, code,
                   trouble>>

\* Slip: the server is started before its checkers are registered.
MayStartEarly == server = "off"

MayStart == server = "off" /\ checkers = Components

\* The goroutine of ListenAndServe: the port may be taken.
Start ==
    /\ MayStart
    /\ server' \in {"serving", "failed"}
    /\ UNCHANGED <<checkers, ready, closing, notified, component, pc, sawReady, checkVars, code,
                   trouble>>

\* After the startup reconciliation, however it ended.
SetReady ==
    /\ server \in {"serving", "failed"}
    /\ ~ready
    /\ ready' = TRUE
    /\ UNCHANGED <<checkers, server, closing, notified, component, pc, sawReady, checkVars, code,
                   trouble>>

\* From here on a signal ends the select and nothing else.
Notify ==
    /\ ready
    /\ ~notified
    /\ server \in {"serving", "failed"}
    /\ notified' = TRUE
    /\ UNCHANGED <<checkers, ready, server, closing, component, pc, sawReady, checkVars, code,
                   trouble>>

\* After the select: no new request, wait for those in flight.
Shutdown ==
    /\ server \in {"serving", "failed"}
    /\ notified
    /\ server' = "closing"
    /\ UNCHANGED <<checkers, ready, closing, notified, component, pc, sawReady, checkVars, code,
                   trouble>>

\* What is in flight when the process ends is never answered.
CutOff == [r \in Requests |-> IF InFlight(r) THEN "lost" ELSE pc[r]]

\* A signal before signal.Notify, during the startup reconciliation above all:
\* the process ends at once.
Killed ==
    /\ ~notified
    /\ server \in {"off", "serving", "failed"}
    /\ server' = "killed"
    /\ pc' = CutOff
    /\ UNCHANGED <<checkers, ready, closing, notified, component, sawReady, checkVars, code, trouble>>

\* Shutdown returns, and with it run().
ShutdownReturns ==
    /\ server = "closing"
    /\ (\A r \in Requests : ~InFlight(r)) \/ closing >= ShutdownTimeout
    /\ server' = "closed"
    /\ pc' = CutOff
    /\ UNCHANGED <<checkers, ready, closing, notified, component, sawReady, checkVars, code, trouble>>

-----------------------------------------------------------------------------
(* A request.                                                              *)

Accept(r) ==
    /\ server = "serving"
    /\ pc[r] = "none"
    /\ pc' = [pc EXCEPT ![r] = "accepted"]
    /\ UNCHANGED <<mainVars, component, sawReady, checkVars, code, trouble>>

\* Slip: only /health copies the checkers.
CopiedForHealthOnly(r) == IF Path[r] = "health" THEN checkers ELSE {}

Copied(r) == checkers

Answers(r, status) ==
    /\ pc' = [pc EXCEPT ![r] = "answered"]
    /\ code' = [code EXCEPT ![r] = status]

\* The copy under the read lock; /ready goes no further before SetReady.
Copy(r) ==
    /\ pc[r] = "accepted"
    /\ sawReady' = [sawReady EXCEPT ![r] = ready]
    /\ trouble' = [trouble EXCEPT ![r] = {c \in Components : component[c] # "up"}]
    /\ IF Path[r] = "ready" /\ ~ready
         THEN Answers(r, 503) /\ UNCHANGED todo
         ELSE /\ todo' = [todo EXCEPT ![r] = Copied(r)]
              /\ pc' = [pc EXCEPT ![r] = "checking"]
              /\ UNCHANGED code
    /\ UNCHANGED <<mainVars, component, calling, good, bad, age>>

\* Slip: every call has a deadline of its own.
AgeOfCall(r) == [age EXCEPT ![r] = 0]

\* One deadline for all calls.
AgeAtCall(r) == age

\* The loop's next checker.
CallChecker(r, c) ==
    /\ pc[r] = "checking"
    /\ calling[r] = Nothing
    /\ c \in todo[r]
    /\ todo' = [todo EXCEPT ![r] = @ \ {c}]
    /\ calling' = [calling EXCEPT ![r] = c]
    /\ age' = AgeAtCall(r)
    /\ UNCHANGED <<mainVars, component, pc, sawReady, good, bad, code, trouble>>

\* Slip: the context is cancelled at once, not when the handler returns.
CancelledAtOnce(r) == TRUE

\* Slip: the context of the request, which has no deadline.
NeverExpires(r) == FALSE

Expired(r) == age[r] >= CheckTimeout

\* The checker returns nil.
CheckerSucceeds(r) ==
    /\ pc[r] = "checking" /\ calling[r] # Nothing
    /\ component[calling[r]] = "up" /\ ~Expired(r)
    /\ good' = [good EXCEPT ![r] = @ \union {calling[r]}]
    /\ calling' = [calling EXCEPT ![r] = Nothing]
    /\ UNCHANGED <<mainVars, component, pc, sawReady, todo, bad, age, code, trouble>>

\* The checker returns an error: the component's, or that of the context.
CheckerFails(r) ==
    /\ pc[r] = "checking" /\ calling[r] # Nothing
    /\ component[calling[r]] = "down" \/ Expired(r)
    /\ bad' = [bad EXCEPT ![r] = @ \union {calling[r]}]
    /\ calling' = [calling EXCEPT ![r] = Nothing]
    /\ UNCHANGED <<mainVars, component, pc, sawReady, todo, good, age, code, trouble>>

\* Slip: an internal error for a failed check.
ServerError(r) == IF bad[r] = {} THEN 200 ELSE 500

\* handleHealth knows healthy and degraded: 200 both.  handleReady: 503 when
\* a checker has failed.
StatusCode(r) == IF Path[r] = "ready" /\ bad[r] # {} THEN 503 ELSE 200

Respond(r) ==
    /\ pc[r] = "checking"
    /\ todo[r] = {} /\ calling[r] = Nothing
    /\ Answers(r, StatusCode(r))
    /\ UNCHANGED <<mainVars, component, sawReady, checkVars, trouble>>

-----------------------------------------------------------------------------
(* The surroundings.                                                       *)

\* As long as there is a process to check it.
ComponentChanges(c) ==
    /\ server \notin {"closed", "killed"}
    /\ \E s \in States \ {component[c]} :
          /\ component' = [component EXCEPT ![c] = s]
          /\ trouble' = [r \in Requests |->
                IF InFlight(r) /\ s # "up" THEN trouble[r] \union {c} ELSE trouble[r]]
    /\ UNCHANGED <<mainVars, pc, sawReady, checkVars, code>>

\* A request that waits for a component: nothing else can be waited for.
Waits(r) ==
    /\ pc[r] = "checking" /\ calling[r] # Nothing
    /\ component[calling[r]] = "hung" /\ ~Expired(r)

\* Time passes once all that can run has run; nothing here takes long but a
\* component that does not answer.
Tick ==
    /\ \E r \in Requests : InFlight(r)
    /\ \A r \in Requests : InFlight(r) => Waits(r)
    /\ server = "closing" => closing < ShutdownTimeout
    /\ age' = [r \in Requests |-> IF InFlight(r) /\ age[r] < CheckTimeout
                                     THEN age[r] + 1 ELSE age[r]]
    /\ closing' = IF server = "closing" THEN closing + 1 ELSE closing
    /\ UNCHANGED <<checkers, ready, server, notified, component, pc, sawReady, todo, calling,
                   good, bad, code, trouble>>

-----------------------------------------------------------------------------
Main ==
    \/ \E c \in Components : RegisterChecker(c)
    \/ Start \/ SetReady \/ Notify \/ Killed \/ Shutdown \/ ShutdownReturns

Handler(r) ==
    \/ Copy(r)
    \/ \E c \in Components : CallChecker(r, c)
    \/ CheckerSucceeds(r) \/ CheckerFails(r)
    \/ Respond(r)

Next ==
    \/ Main
    \/ \E r \in Requests : Accept(r) \/ Handler(r)
    \/ \E c \in Components : ComponentChanges(c)
    \/ Tick

Spec == Init /\ [][Next]_vars

(* Goroutines that can run do; a component that keeps coming back answers   *)
(* at last; and time does not stop for one that keeps changing its mind.   *)
Fairness == SF_vars(Tick) /\ \A r \in Requests : SF_vars(Handler(r))
FairSpec == Spec /\ Fairness

-----------------------------------------------------------------------------
(* Properties.                                                             *)

\* Every variable keeps its type.
TypeOK ==
    /\ checkers \subseteq Components
    /\ ready \in BOOLEAN
    /\ server \in {"off", "serving", "failed", "closing", "closed", "killed"}
    /\ notified \in BOOLEAN
    /\ closing \in 0 .. ShutdownTimeout
    /\ component \in [Components -> States]
    /\ pc \in [Requests -> Places]
    /\ sawReady \in [Requests -> BOOLEAN]
    /\ todo \in [Requests -> SUBSET Components]
    /\ calling \in [Requests -> Components \union {Nothing}]
    /\ good \in [Requests -> SUBSET Components]
    /\ bad \in [Requests -> SUBSET Components]
    /\ age \in [Requests -> 0 .. CheckTimeout]
    /\ code \in [Requests -> Codes]
    /\ trouble \in [Requests -> SUBSET Components]

\* server.go:200-256, main.go:102-137: /ready answers 200 only after SetReady,
\* and only if every component there is has answered this very request.
ReadyMeansAllAnswered == \A r \in Requests :
    (Path[r] = "ready" /\ code[r] = 200) => sawReady[r] /\ good[r] = Components

\* server.go:225-246: a component reported unhealthy was not up while the
\* request ran, or another one used up the deadline they share.
UnhealthyHasACause == \A r \in Requests : \A c \in bad[r] :
    c \in trouble[r] \/ (Expired(r) /\ trouble[r] # {})

\* main.go:162-190, server.go:167, 225: once main() listens for signals, the
\* process ends only after every request it accepted has been answered: the
\* deadline of the checks is shorter than that of the shutdown.  (A signal
\* before that cuts off what is in flight.)
NoRequestIsCutOff == notified => \A r \in Requests : pc[r] # "lost"

\* What a request has before it: its own steps, and the ticks it may have to
\* wait until its deadline.
Remaining(r) ==
    CASE pc[r] = "accepted" -> 2 * Cardinality(Components) + CheckTimeout + 2
      [] pc[r] = "checking" -> 2 * Cardinality(todo[r]) + (IF calling[r] = Nothing THEN 0 ELSE 1)
                                  + (CheckTimeout - age[r]) + 1
      [] OTHER -> 0

\* server.go:166-187, 224-246: whatever the components, the other requests and
\* main do, no request in flight gets further from its answer, and each step
\* of its own and each tick brings it nearer: the deadline is one for all its
\* checkers, and ends every wait.  (A request that is cut off waits no more.)
AnswersDrawNear ==
    [][\A r \in Requests : InFlight(r) =>
          /\ Remaining(r)' <= Remaining(r)
          /\ Handler(r) \/ Tick => Remaining(r)' < Remaining(r)]_vars

\* server.go:166-195, 224-256, README.md:294, "Liveness probe; returns 200 if
\* service is running": every request is answered, however many components
\* hang and although the server may be shut down, and /health with 200; but
\* for those a signal before signal.Notify cuts off.
EveryRequestIsAnswered == \A r \in Requests :
    pc[r] = "accepted" ~>
        \/ pc[r] = "answered" /\ (Path[r] = "health" => code[r] = 200)
        \/ server = "killed"
=============================================================================
