---------------------------- MODULE HealthProofs ----------------------------
(* Proofs about the specification of Health, for any number of requests,   *)
(* components and ticks.                                                   *)
EXTENDS Health, FiniteSetTheorems, TLAPS

\* The server is started with every checker; time is counted from Shutdown on.
Started ==
    /\ server \notin {"off", "killed"} => checkers = Components
    /\ server \in {"off", "serving", "failed"} => closing = 0
    /\ server = "closing" => notified
    /\ server = "off" => \A r \in Requests : pc[r] = "none"

\* A request that has not copied the checkers has done nothing yet.
Untouched(r) ==
    /\ todo[r] = {} /\ calling[r] = Nothing /\ good[r] = {} /\ bad[r] = {}
    /\ age[r] = 0 /\ code[r] = 0

\* A request that runs has each component in one of four places, and cannot
\* be younger than the shutdown it holds up.
Running(r) ==
    /\ todo[r] \union good[r] \union bad[r] \union ({calling[r]} \ {Nothing}) = Components
    /\ Path[r] = "ready" => sawReady[r]
    /\ closing <= age[r]
    /\ code[r] = 0
    /\ \A c \in Components : component[c] # "up" => c \in trouble[r]

\* An answer of 200 to /ready; no checker is called any more.
Answered(r) ==
    /\ calling[r] = Nothing
    /\ (Path[r] = "ready" /\ code[r] = 200) => sawReady[r] /\ good[r] = Components

\* Time passes for a request only while a component is not up.
Blamed(r) ==
    /\ age[r] > 0 => trouble[r] # {}
    /\ \A c \in bad[r] : c \in trouble[r] \/ (Expired(r) /\ trouble[r] # {})

OfRequest(r) ==
    /\ pc[r] = "lost" => ~notified /\ code[r] = 0 /\ server = "killed"
    /\ pc[r] \in {"none", "accepted"} => Untouched(r)
    /\ InFlight(r) => server \notin {"off", "killed"}
    /\ pc[r] = "accepted" => closing = 0
    /\ pc[r] = "checking" => Running(r)
    /\ pc[r] = "answered" => Answered(r)
    /\ Blamed(r)

HealthInv == TypeOK /\ Started /\ \A r \in Requests : OfRequest(r)

LEMMA InitInv == Init => HealthInv
<1> SUFFICES ASSUME Init
             PROVE  HealthInv
  OBVIOUS
<1> USE HealthAssumption DEF Init
<1>1. TypeOK
  <2>1. 0 \in 0 .. CheckTimeout /\ 0 \in 0 .. ShutdownTimeout
    OBVIOUS
  <2>2. age \in [Requests -> 0 .. CheckTimeout] /\ closing \in 0 .. ShutdownTimeout
    BY <2>1
  <2>3. /\ checkers \subseteq Components /\ ready \in BOOLEAN
        /\ server = "off" /\ component \in [Components -> States]
    OBVIOUS
  <2>4. pc \in [Requests -> Places] /\ code \in [Requests -> Codes]
    BY DEF Places, Codes
  <2>5. /\ sawReady \in [Requests -> BOOLEAN]
        /\ calling \in [Requests -> Components \union {Nothing}]
    OBVIOUS
  <2>6. /\ todo \in [Requests -> SUBSET Components]
        /\ good \in [Requests -> SUBSET Components]
        /\ bad \in [Requests -> SUBSET Components]
        /\ trouble \in [Requests -> SUBSET Components]
    OBVIOUS
  <2> QED BY <2>2, <2>3, <2>4, <2>5, <2>6 DEF TypeOK
<1>2. Started
  BY DEF Started
<1>3. ASSUME NEW r \in Requests
      PROVE  OfRequest(r)
  <2>1. Untouched(r) /\ pc[r] = "none" /\ trouble[r] = {}
    BY DEF Untouched
  <2>2. Blamed(r)
    BY <2>1 DEF Untouched, Blamed
  <2> QED BY <2>1, <2>2 DEF InFlight, OfRequest
<1> QED BY <1>1, <1>2, <1>3 DEF HealthInv

-----------------------------------------------------------------------------
(* The steps of main().                                                    *)

LEMMA MainInv ==
    ASSUME HealthInv, Main
    PROVE  HealthInv'
<1> USE HealthAssumption DEF HealthInv
<1>1. ASSUME NEW c \in Components, RegisterChecker(c)
      PROVE  HealthInv'
  <2>1. TypeOK' /\ Started'
    BY <1>1 DEF RegisterChecker, checkVars, TypeOK, Started
  <2>2. \A r \in Requests : OfRequest(r)'
    BY <1>1 DEF RegisterChecker, checkVars, InFlight, OfRequest, Untouched, Running,
                Answered, Blamed, Expired
  <2> QED BY <2>1, <2>2
<1>2. CASE Start \/ SetReady \/ Notify \/ Shutdown
  <2>1. TypeOK'
    BY <1>2 DEF Start, SetReady, Notify, Shutdown, checkVars, TypeOK
  <2>2. Started'
    BY <1>2 DEF Start, MayStart, SetReady, Notify, Shutdown, Started
  <2>3. \A r \in Requests : OfRequest(r)'
    BY <1>2 DEF Start, MayStart, SetReady, Notify, Shutdown, checkVars, InFlight,
                OfRequest, Untouched, Running, Answered, Blamed, Expired
  <2> QED BY <2>1, <2>2, <2>3
<1>3. CASE ShutdownReturns
  <2>1. ASSUME NEW r \in Requests
        PROVE  ~InFlight(r)
    <3>1. CASE closing >= ShutdownTimeout
      <4>1. closing > CheckTimeout /\ closing > 0
        BY <3>1 DEF TypeOK
      <4>2. age[r] <= CheckTimeout /\ age[r] \in Nat
        BY DEF TypeOK
      <4>3. pc[r] # "accepted"
        BY <4>1 DEF InFlight, OfRequest
      <4>4. pc[r] = "checking" => closing <= age[r]
        BY DEF InFlight, OfRequest, Running
      <4> QED BY <4>1, <4>2, <4>3, <4>4 DEF InFlight, TypeOK
    <3>2. CASE \A q \in Requests : ~InFlight(q)
      BY <3>2
    <3> QED BY <1>3, <3>1, <3>2 DEF ShutdownReturns
  <2>2. pc' = pc
    BY <1>3, <2>1 DEF ShutdownReturns, CutOff, TypeOK
  <2>3. TypeOK' /\ Started'
    BY <1>3, <2>2 DEF ShutdownReturns, checkVars, TypeOK, Started
  <2>4. \A r \in Requests : OfRequest(r)'
    BY <1>3, <2>2 DEF ShutdownReturns, checkVars, InFlight, OfRequest, Untouched, Running,
                      Answered, Blamed, Expired
  <2> QED BY <2>3, <2>4
<1>4. CASE Killed
  <2>1. pc' \in [Requests -> Places]
    BY <1>4 DEF Killed, CutOff, Places, TypeOK
  <2>2. TypeOK' /\ Started'
    BY <1>4, <2>1 DEF Killed, checkVars, TypeOK, Started
  <2>3. ASSUME NEW r \in Requests
        PROVE  OfRequest(r)'
    <3>1. /\ server' = "killed" /\ ~notified'
          /\ UNCHANGED <<closing, component, sawReady, todo, calling, good, bad, age, code,
                         trouble>>
      BY <1>4 DEF Killed, checkVars
    <3>2. CASE InFlight(r)
      <4>1. pc'[r] = "lost" /\ code[r] = 0
        BY <1>4, <3>2 DEF Killed, CutOff, InFlight, OfRequest, Untouched, Running
      <4> QED BY <3>1, <4>1 DEF InFlight, OfRequest, Blamed, Expired
    <3>3. CASE ~InFlight(r)
      <4>1. pc'[r] = pc[r] /\ pc[r] # "accepted" /\ pc[r] # "checking"
        BY <1>4, <3>3 DEF Killed, CutOff, InFlight
      <4> QED BY <3>1, <4>1 DEF InFlight, OfRequest, Untouched, Answered, Blamed, Expired
    <3> QED BY <3>2, <3>3
  <2> QED BY <2>2, <2>3
<1> QED BY <1>1, <1>2, <1>3, <1>4 DEF Main

-----------------------------------------------------------------------------
(* The steps of a request.                                                 *)

\* They leave the others alone.
LEMMA OthersKeep ==
    ASSUME HealthInv, NEW r \in Requests, Accept(r) \/ Handler(r),
           NEW q \in Requests, q # r
    PROVE  OfRequest(q)'
<1>1. /\ pc'[q] = pc[q] /\ sawReady'[q] = sawReady[q] /\ todo'[q] = todo[q]
      /\ calling'[q] = calling[q] /\ good'[q] = good[q] /\ bad'[q] = bad[q]
      /\ age'[q] = age[q] /\ code'[q] = code[q] /\ trouble'[q] = trouble[q]
  <2> USE DEF HealthInv, TypeOK, mainVars, checkVars
  <2>1. CASE Accept(r)
    BY <2>1 DEF Accept
  <2>2. CASE Copy(r)
    BY <2>2 DEF Copy, Answers
  <2>3. CASE \E c \in Components : CallChecker(r, c)
    BY <2>3 DEF CallChecker, AgeAtCall
  <2>4. CASE CheckerSucceeds(r) \/ CheckerFails(r)
    BY <2>4 DEF CheckerSucceeds, CheckerFails
  <2>5. CASE Respond(r)
    BY <2>5 DEF Respond, Answers
  <2> QED BY <2>1, <2>2, <2>3, <2>4, <2>5 DEF Handler
<1>2. UNCHANGED <<server, closing, notified, component>>
  BY DEF Accept, Handler, Copy, CallChecker, CheckerSucceeds, CheckerFails, Respond, mainVars
<1>3. OfRequest(q)
  BY DEF HealthInv
<1> QED
  BY <1>1, <1>2, <1>3 DEF InFlight, OfRequest, Untouched, Running, Answered, Blamed, Expired

LEMMA RequestTypes ==
    ASSUME HealthInv, NEW r \in Requests, Accept(r) \/ Handler(r)
    PROVE  TypeOK' /\ Started'
<1> USE DEF HealthInv, TypeOK, mainVars, checkVars, Places, Codes
<1>1. CASE Accept(r)
  BY <1>1 DEF Accept, Started
<1>2. CASE Copy(r)
  <2>1. TypeOK'
    BY <1>2 DEF Copy, Answers, Copied
  <2>2. pc[r] # "none"
    BY <1>2 DEF Copy
  <2> QED BY <1>2, <2>1, <2>2 DEF Copy, Started
<1>3. ASSUME NEW c \in Components, CallChecker(r, c)
      PROVE  TypeOK' /\ Started'
  BY <1>3 DEF CallChecker, AgeAtCall, Started
<1>4. CASE CheckerSucceeds(r) \/ CheckerFails(r)
  BY <1>4 DEF CheckerSucceeds, CheckerFails, Started
<1>5. CASE Respond(r)
  <2>1. TypeOK'
    BY <1>5 DEF Respond, Answers, StatusCode
  <2> QED BY <1>5, <2>1 DEF Respond, Started
<1> QED BY <1>1, <1>2, <1>3, <1>4, <1>5 DEF Handler

LEMMA RequestInv ==
    ASSUME HealthInv, NEW r \in Requests, Accept(r) \/ Handler(r)
    PROVE  HealthInv'
<1> USE HealthAssumption DEF HealthInv, mainVars, checkVars
<1>1. TypeOK' /\ Started'
  BY RequestTypes
<1>2. OfRequest(r)'
  <2>1. CASE Accept(r)
    BY <2>1 DEF Accept, InFlight, OfRequest, Untouched, Blamed, Expired, Started, TypeOK
  <2>2. CASE Copy(r)
    <3>1. /\ Untouched(r) /\ closing = 0 /\ checkers = Components
          /\ UNCHANGED <<server, closing, component, good, bad, age, calling>>
      BY <2>2 DEF Copy, InFlight, OfRequest, Started
    <3>2. /\ trouble'[r] = {c \in Components : component[c] # "up"}
          /\ sawReady'[r] = ready
      BY <2>2 DEF Copy, TypeOK
    <3>3. CASE Path[r] = "ready" /\ ~ready
      <4>1. pc'[r] = "answered" /\ code'[r] = 503
        BY <2>2, <3>3 DEF Copy, Answers, TypeOK
      <4> QED BY <3>1, <3>3, <4>1 DEF InFlight, OfRequest, Untouched, Answered, Blamed
    <3>4. CASE ~(Path[r] = "ready" /\ ~ready)
      <4>1. pc'[r] = "checking" /\ code'[r] = 0 /\ todo'[r] = Components
        BY <2>2, <3>1, <3>4 DEF Copy, Copied, Untouched, TypeOK
      <4>2. Running(r)' /\ Blamed(r)'
        BY <3>1, <3>2, <3>4, <4>1 DEF Untouched, Running, Blamed, TypeOK
      <4>3. server \notin {"off", "killed"}
        BY <2>2 DEF Copy, InFlight, OfRequest
      <4> QED BY <3>1, <4>1, <4>2, <4>3 DEF InFlight, OfRequest
    <3> QED BY <3>3, <3>4
  <2>3. ASSUME NEW c \in Components, CallChecker(r, c)
        PROVE  OfRequest(r)'
    <3>1. /\ pc[r] = "checking" /\ calling[r] = Nothing /\ c \in todo[r]
          /\ todo'[r] = todo[r] \ {c} /\ calling'[r] = c
          /\ UNCHANGED <<server, closing, component, pc, sawReady, good, bad, age, code,
                         trouble>>
      BY <2>3 DEF CallChecker, AgeAtCall, TypeOK
    <3>2. Running(r) /\ Blamed(r)
      BY <3>1 DEF InFlight, OfRequest
    <3>3. Running(r)'
      BY <3>1, <3>2 DEF Running
    <3> QED BY <3>1, <3>2, <3>3 DEF InFlight, OfRequest, Blamed, Expired
  <2>4. CASE CheckerSucceeds(r) \/ CheckerFails(r)
    <3>0. /\ calling[r] # Nothing /\ calling' = [calling EXCEPT ![r] = Nothing]
          /\ UNCHANGED <<server, closing, component, pc, sawReady, todo, age, code, trouble>>
      BY <2>4 DEF CheckerSucceeds, CheckerFails
    <3>1. calling[r] \in Components /\ calling'[r] = Nothing /\ pc[r] = "checking"
      BY <2>4, <3>0 DEF CheckerSucceeds, CheckerFails, TypeOK
    <3>2. Running(r) /\ Blamed(r)
      BY <3>1 DEF InFlight, OfRequest
    <3>3. CASE CheckerSucceeds(r)
      <4>1. good'[r] = good[r] \union {calling[r]} /\ bad' = bad
        BY <3>3 DEF CheckerSucceeds, TypeOK
      <4> QED BY <3>0, <3>1, <3>2, <4>1 DEF InFlight, OfRequest, Running, Blamed, Expired
    <3>4. CASE CheckerFails(r)
      <4>1. bad'[r] = bad[r] \union {calling[r]} /\ good' = good
        BY <3>4 DEF CheckerFails, TypeOK
      <4>2. calling[r] \in trouble[r] \/ (Expired(r) /\ trouble[r] # {})
        BY <3>1, <3>2, <3>4 DEF CheckerFails, Running, Blamed, Expired, TypeOK
      <4>3. Running(r)'
        BY <3>0, <3>1, <3>2, <4>1 DEF Running
      <4>4. Blamed(r)'
        BY <3>0, <3>1, <3>2, <4>1, <4>2 DEF Blamed, Expired
      <4> QED BY <3>0, <3>1, <4>3, <4>4 DEF InFlight, OfRequest
    <3> QED BY <2>4, <3>3, <3>4
  <2>5. CASE Respond(r)
    <3>1. /\ pc[r] = "checking" /\ todo[r] = {} /\ calling[r] = Nothing
          /\ pc'[r] = "answered" /\ code'[r] = StatusCode(r)
          /\ UNCHANGED <<closing, component, sawReady, todo, calling, good, bad, age, trouble>>
      BY <2>5 DEF Respond, Answers, TypeOK
    <3>2. Running(r) /\ Blamed(r)
      BY <3>1 DEF InFlight, OfRequest
    <3>3. (Path[r] = "ready" /\ code'[r] = 200) => sawReady[r] /\ bad[r] = {}
      BY <3>1, <3>2 DEF Running, StatusCode
    <3>4. bad[r] = {} => good[r] = Components
      BY <3>1, <3>2 DEF Running
    <3>5. Answered(r)'
      BY <3>1, <3>3, <3>4 DEF Answered
    <3> QED BY <3>1, <3>2, <3>5 DEF InFlight, OfRequest, Blamed, Expired
  <2> QED BY <2>1, <2>2, <2>3, <2>4, <2>5 DEF Handler
<1>3. ASSUME NEW q \in Requests, q # r
      PROVE  OfRequest(q)'
  BY <1>3, OthersKeep
<1> QED BY <1>1, <1>2, <1>3

-----------------------------------------------------------------------------
(* The surroundings.                                                       *)

LEMMA ComponentInv ==
    ASSUME HealthInv, NEW c \in Components, ComponentChanges(c)
    PROVE  HealthInv'
<1> USE DEF HealthInv, mainVars, checkVars
<1>1. PICK s \in States :
        /\ component' = [component EXCEPT ![c] = s]
        /\ trouble' = [r \in Requests |->
              IF InFlight(r) /\ s # "up" THEN trouble[r] \union {c} ELSE trouble[r]]
  BY DEF ComponentChanges
<1>2. TypeOK' /\ Started'
  BY <1>1 DEF ComponentChanges, TypeOK, Started
<1>3. ASSUME NEW r \in Requests
      PROVE  OfRequest(r)'
  <2>1. UNCHANGED <<server, closing, notified, pc, sawReady, todo, calling, good, bad, age, code>>
    BY DEF ComponentChanges
  <2>2. trouble[r] \subseteq trouble'[r]
    BY <1>1
  <2>3. Blamed(r)'
    BY <2>1, <2>2 DEF InFlight, OfRequest, Blamed, Expired
  <2>4. pc[r] = "checking" => Running(r)'
    BY <1>1, <2>1 DEF InFlight, OfRequest, Running, TypeOK
  <2> QED BY <2>1, <2>3, <2>4 DEF InFlight, OfRequest, Untouched, Answered
<1> QED BY <1>2, <1>3

LEMMA TickInv == HealthInv /\ Tick => HealthInv'
<1> SUFFICES ASSUME HealthInv, Tick
             PROVE  HealthInv'
  OBVIOUS
<1> USE HealthAssumption DEF HealthInv
<1>1. /\ UNCHANGED <<checkers, ready, server, notified, component, pc, sawReady, todo,
                     calling, good, bad, code, trouble>>
      /\ age' = [r \in Requests |-> IF InFlight(r) /\ age[r] < CheckTimeout
                                      THEN age[r] + 1 ELSE age[r]]
      /\ closing' = IF server = "closing" THEN closing + 1 ELSE closing
      /\ server = "closing" => closing < ShutdownTimeout
  BY DEF Tick
<1>2. closing' \in 0 .. ShutdownTimeout /\ closing' <= closing + 1
  BY <1>1 DEF TypeOK
<1>3. age' \in [Requests -> 0 .. CheckTimeout]
  BY <1>1 DEF TypeOK
<1>4. TypeOK' /\ Started'
  BY <1>1, <1>2, <1>3 DEF TypeOK, Started
<1>5. ASSUME NEW r \in Requests
      PROVE  OfRequest(r)'
  <2>1. CASE ~InFlight(r)
    <3>1. age'[r] = age[r] /\ pc[r] # "accepted" /\ pc[r] # "checking"
      BY <1>1, <2>1 DEF InFlight
    <3> QED
      BY <1>1, <3>1 DEF InFlight, OfRequest, Untouched, Answered, Blamed, Expired
  <2>2. CASE InFlight(r)
    <3>1. Waits(r)
      BY <2>2 DEF Tick
    <3>2. /\ pc[r] = "checking" /\ calling[r] \in Components
          /\ component[calling[r]] = "hung" /\ age[r] < CheckTimeout
      BY <3>1 DEF Waits, Expired, TypeOK
    <3>3. age'[r] = age[r] + 1 /\ age[r] \in Nat
      BY <1>1, <2>2, <3>2 DEF TypeOK
    <3>4. Running(r) /\ Blamed(r)
      BY <3>2 DEF InFlight, OfRequest
    <3>5. trouble[r] # {}
      BY <3>2, <3>4 DEF Running
    <3>6. closing' <= age'[r]
      BY <1>2, <3>3, <3>4 DEF Running, TypeOK
    <3>7. Running(r)'
      BY <1>1, <3>4, <3>6 DEF Running
    <3>8. Blamed(r)'
      BY <1>1, <3>3, <3>4, <3>5 DEF Blamed, Expired
    <3> QED BY <1>1, <3>2, <3>7, <3>8 DEF InFlight, OfRequest
  <2> QED BY <2>1, <2>2
<1> QED BY <1>4, <1>5

LEMMA NextInv == HealthInv /\ [Next]_vars => HealthInv'
<1> SUFFICES ASSUME HealthInv, [Next]_vars
             PROVE  HealthInv'
  OBVIOUS
<1>1. CASE UNCHANGED vars
  BY <1>1 DEF vars, mainVars, checkVars, HealthInv, TypeOK, Started, InFlight, OfRequest,
              Untouched, Running, Answered, Blamed, Expired
<1> QED BY <1>1, MainInv, RequestInv, ComponentInv, TickInv DEF Next

-----------------------------------------------------------------------------
THEOREM Invariance == Spec => []HealthInv
BY InitInv, NextInv, PTL DEF Spec

\* Types.
THEOREM TypeCorrect == Spec => []TypeOK
<1>1. HealthInv => TypeOK
  BY DEF HealthInv
<1> QED BY <1>1, Invariance, PTL

\* 200 on /ready: SetReady was before, and every component has answered.
THEOREM ReadyIsTrue == Spec => []ReadyMeansAllAnswered
<1>1. HealthInv => ReadyMeansAllAnswered
  <2> SUFFICES ASSUME HealthInv, NEW r \in Requests, Path[r] = "ready", code[r] = 200
               PROVE  sawReady[r] /\ good[r] = Components
    BY DEF ReadyMeansAllAnswered
  <2>1. pc[r] = "answered"
    BY DEF HealthInv, TypeOK, Places, InFlight, OfRequest, Untouched, Running
  <2> QED BY <2>1 DEF HealthInv, OfRequest, Answered
<1> QED BY <1>1, Invariance, PTL

\* A component is called unhealthy for a reason.
THEOREM BlameIsJust == Spec => []UnhealthyHasACause
<1>1. HealthInv => UnhealthyHasACause
  BY DEF HealthInv, OfRequest, Blamed, UnhealthyHasACause
<1> QED BY <1>1, Invariance, PTL

\* From signal.Notify on the process does not end with a request in flight,
\* because CheckTimeout is less than ShutdownTimeout.
THEOREM Graceful == Spec => []NoRequestIsCutOff
<1>1. HealthInv => NoRequestIsCutOff
  BY DEF HealthInv, OfRequest, NoRequestIsCutOff
<1> QED BY <1>1, Invariance, PTL

-----------------------------------------------------------------------------
(* How far a request is from its answer.                                   *)

LEMMA RemainingIs ==
    ASSUME HealthInv, NEW r \in Requests
    PROVE  /\ Cardinality(todo[r]) \in Nat /\ Cardinality(Components) \in Nat
           /\ Cardinality(todo[r]) <= Cardinality(Components)
           /\ IsFiniteSet(todo[r])
           /\ CheckTimeout \in Nat /\ age[r] \in Nat /\ age[r] <= CheckTimeout
           /\ Remaining(r) \in Nat
<1>1. IsFiniteSet(Components) /\ CheckTimeout \in Nat
  BY HealthAssumption
<1>2. todo[r] \subseteq Components
  BY DEF HealthInv, TypeOK
<1>3. IsFiniteSet(todo[r]) /\ Cardinality(todo[r]) <= Cardinality(Components)
  BY <1>1, <1>2, FS_Subset
<1>4. Cardinality(todo[r]) \in Nat /\ Cardinality(Components) \in Nat
  BY <1>1, <1>3, FS_CardinalityType
<1>5. age[r] \in Nat /\ age[r] <= CheckTimeout
  BY <1>1 DEF HealthInv, TypeOK
<1>6. Remaining(r) \in Nat
  <2>1. CASE pc[r] = "accepted"
    BY <1>1, <1>4, <2>1 DEF Remaining
  <2>2. CASE pc[r] = "checking"
    BY <1>1, <1>4, <1>5, <2>2 DEF Remaining
  <2>3. CASE pc[r] \notin {"accepted", "checking"}
    BY <2>3 DEF Remaining
  <2> QED BY <2>1, <2>2, <2>3
<1> QED BY <1>1, <1>3, <1>4, <1>5, <1>6

LEMMA RemainingWillBe == HealthInv' => (\A r \in Requests : Remaining(r) \in Nat)'
<1>1. HealthInv => \A r \in Requests : Remaining(r) \in Nat
  BY RemainingIs
<1> QED BY <1>1, PTL

LEMMA OneFewer ==
    ASSUME NEW S, IsFiniteSet(S), NEW x \in S
    PROVE  Cardinality(S \ {x}) = Cardinality(S) - 1
BY FS_RemoveElement

\* Each step of its own is one of those it has left.
LEMMA HandlerDraws ==
    ASSUME HealthInv, NEW r \in Requests, InFlight(r), Handler(r)
    PROVE  Remaining(r)' < Remaining(r)
<1> DEFINE n == Cardinality(todo[r])
           all == Cardinality(Components)
           left == CheckTimeout - age[r]
<1>1. n \in Nat /\ all \in Nat /\ n <= all /\ left \in Nat /\ IsFiniteSet(todo[r])
  BY RemainingIs
<1> USE DEF HealthInv, TypeOK
<1>2. CASE Copy(r)
  <2>1. pc[r] = "accepted" /\ age[r] = 0 /\ calling[r] = Nothing
        /\ UNCHANGED <<calling, age>>
    BY <1>2 DEF Copy, InFlight, OfRequest, Untouched
  <2>2. Remaining(r) = 2 * all + CheckTimeout + 2
    BY <2>1 DEF Remaining
  <2>3. CASE pc'[r] = "answered"
    <3>1. Remaining(r)' = 0
      BY <2>3 DEF Remaining
    <3> QED BY <1>1, <2>2, <3>1, HealthAssumption
  <2>4. CASE pc'[r] = "checking" /\ todo'[r] = checkers
    <3>1. Cardinality(checkers) \in Nat /\ Cardinality(checkers) <= all
      BY HealthAssumption, FS_Subset, FS_CardinalityType
    <3>2. Remaining(r)' = 2 * Cardinality(checkers) + CheckTimeout + 1
      BY <2>1, <2>4, <3>1, HealthAssumption DEF Remaining
    <3> HIDE DEF all
    <3> QED BY <1>1, <2>2, <3>1, <3>2, HealthAssumption
  <2> QED BY <1>2, <2>3, <2>4 DEF Copy, Answers, Copied
<1>3. ASSUME NEW c \in Components, CallChecker(r, c)
      PROVE  Remaining(r)' < Remaining(r)
  <2>1. /\ pc[r] = "checking" /\ calling[r] = Nothing /\ c \in todo[r]
        /\ todo'[r] = todo[r] \ {c} /\ calling'[r] = c /\ UNCHANGED <<pc, age>>
    BY <1>3 DEF CallChecker, AgeAtCall
  <2>2. Cardinality(todo[r] \ {c}) = n - 1
    BY <1>1, <2>1, OneFewer
  <2>3. Remaining(r) = 2 * n + 0 + left + 1
    BY <2>1 DEF Remaining
  <2>4. Remaining(r)' = 2 * (n - 1) + 1 + left + 1
    BY <2>1, <2>2, HealthAssumption DEF Remaining
  <2> HIDE DEF n, left
  <2> QED BY <1>1, <2>3, <2>4
<1>4. CASE CheckerSucceeds(r) \/ CheckerFails(r)
  <2>1. /\ calling[r] # Nothing /\ calling'[r] = Nothing /\ UNCHANGED <<pc, age, todo>>
    BY <1>4 DEF CheckerSucceeds, CheckerFails
  <2>2. pc[r] = "checking"
    BY <2>1 DEF InFlight, OfRequest, Untouched
  <2>3. Remaining(r) = 2 * n + 1 + left + 1
    BY <2>1, <2>2 DEF Remaining
  <2>4. Remaining(r)' = 2 * n + 0 + left + 1
    BY <2>1, <2>2 DEF Remaining
  <2> HIDE DEF n, left
  <2> QED BY <1>1, <2>3, <2>4
<1>5. CASE Respond(r)
  <2>1. /\ pc[r] = "checking" /\ calling[r] = Nothing /\ pc'[r] = "answered"
    BY <1>5 DEF Respond, Answers
  <2>2. Remaining(r) = 2 * n + 0 + left + 1
    BY <2>1 DEF Remaining
  <2>3. Remaining(r)' = 0
    BY <2>1 DEF Remaining
  <2> HIDE DEF n, left
  <2> QED BY <1>1, <2>2, <2>3
<1> QED BY <1>2, <1>3, <1>4, <1>5 DEF Handler

\* Time passes only for requests that wait, and have not waited long enough.
LEMMA TickDraws ==
    ASSUME HealthInv, NEW r \in Requests, InFlight(r), Tick
    PROVE  Remaining(r)' < Remaining(r)
<1> USE DEF HealthInv, TypeOK
<1>1. Waits(r) /\ UNCHANGED <<pc, todo, calling>>
  BY DEF Tick
<1>2. pc[r] = "checking" /\ age[r] < CheckTimeout
  BY <1>1, HealthAssumption DEF Waits, Expired
<1>3. age'[r] = age[r] + 1
  BY <1>2 DEF Tick
<1> DEFINE n == Cardinality(todo[r])
           k == IF calling[r] = Nothing THEN 0 ELSE 1
<1>4. n \in Nat /\ k \in Nat /\ age[r] \in Nat /\ CheckTimeout \in Nat
  BY RemainingIs
<1>5. Remaining(r) = 2 * n + k + (CheckTimeout - age[r]) + 1
  BY <1>2 DEF Remaining
<1>6. Remaining(r)' = 2 * n + k + (CheckTimeout - (age[r] + 1)) + 1
  BY <1>1, <1>2, <1>3 DEF Remaining
<1> HIDE DEF n, k
<1> QED BY <1>4, <1>5, <1>6

\* Nobody else delays it.
LEMMA OthersDoNotDelay ==
    ASSUME HealthInv, [Next]_vars, NEW r \in Requests, InFlight(r), ~Handler(r), ~Tick,
           ~Killed
    PROVE  Remaining(r)' = Remaining(r)
<1> USE DEF HealthInv, TypeOK, mainVars, checkVars
<1>1. /\ pc'[r] = pc[r] /\ todo'[r] = todo[r] /\ calling'[r] = calling[r]
      /\ age'[r] = age[r]
  <2>1. CASE UNCHANGED vars
    BY <2>1 DEF vars
  <2>2. CASE Main
    <3>1. CASE ShutdownReturns
      <4>1. pc'[r] = "lost" /\ HealthInv' /\ notified'
        BY <2>2, <3>1, MainInv DEF ShutdownReturns, CutOff, Started
      <4> QED BY <4>1 DEF InFlight, OfRequest
    <3>2. CASE ~ShutdownReturns
      BY <2>2, <3>2 DEF Main, RegisterChecker, Start, SetReady, Notify, Shutdown
    <3> QED BY <3>1, <3>2
  <2>3. ASSUME NEW q \in Requests, Accept(q)
        PROVE  /\ pc'[r] = pc[r] /\ todo'[r] = todo[r] /\ calling'[r] = calling[r]
               /\ age'[r] = age[r]
    BY <2>3 DEF Accept, InFlight
  <2>4. ASSUME NEW q \in Requests, Handler(q)
        PROVE  /\ pc'[r] = pc[r] /\ todo'[r] = todo[r] /\ calling'[r] = calling[r]
               /\ age'[r] = age[r]
    <3>1. q # r
      BY <2>4
    <3>2. CASE Copy(q)
      BY <3>1, <3>2 DEF Copy, Answers
    <3>3. CASE \E c \in Components : CallChecker(q, c)
      BY <3>1, <3>3 DEF CallChecker, AgeAtCall
    <3>4. CASE CheckerSucceeds(q) \/ CheckerFails(q)
      BY <3>1, <3>4 DEF CheckerSucceeds, CheckerFails
    <3>5. CASE Respond(q)
      BY <3>1, <3>5 DEF Respond, Answers
    <3> QED BY <2>4, <3>2, <3>3, <3>4, <3>5 DEF Handler
  <2>5. ASSUME NEW c \in Components, ComponentChanges(c)
        PROVE  /\ pc'[r] = pc[r] /\ todo'[r] = todo[r] /\ calling'[r] = calling[r]
               /\ age'[r] = age[r]
    BY <2>5 DEF ComponentChanges
  <2> QED BY <2>1, <2>2, <2>3, <2>4, <2>5 DEF Next
<1> QED BY <1>1 DEF Remaining

\* Every request has a bounded way to go: 2 * Cardinality(Components) + 2
\* steps of its own and CheckTimeout ticks, from its acceptance to its answer,
\* and nothing that happens in between makes it longer; a signal before
\* signal.Notify may cut it off.
THEOREM AnswersAreBounded == Spec => AnswersDrawNear
<1> DEFINE Draws == \A r \in Requests : InFlight(r) =>
              /\ Remaining(r)' <= Remaining(r)
              /\ Handler(r) \/ Tick => Remaining(r)' < Remaining(r)
<1>1. ASSUME HealthInv, [Next]_vars
      PROVE  Draws
  <2> SUFFICES ASSUME NEW r \in Requests, InFlight(r)
               PROVE  /\ Remaining(r)' <= Remaining(r)
                      /\ Handler(r) \/ Tick => Remaining(r)' < Remaining(r)
    OBVIOUS
  <2>1. Remaining(r) \in Nat /\ Remaining(r)' \in Nat
    BY <1>1, NextInv, RemainingIs, RemainingWillBe
  <2>2. Handler(r) \/ Tick => Remaining(r)' < Remaining(r)
    BY <1>1, HandlerDraws, TickDraws
  <2>3. ~Handler(r) /\ ~Tick /\ ~Killed => Remaining(r)' = Remaining(r)
    BY <1>1, OthersDoNotDelay
  <2>4. Killed => Remaining(r)' = 0
    BY <1>1 DEF Killed, CutOff, Remaining, HealthInv, TypeOK
  <2> QED BY <2>1, <2>2, <2>3, <2>4
<1>2. HealthInv /\ [Next]_vars => [Draws]_vars
  BY <1>1
<1>3. AnswersDrawNear <=> [][Draws]_vars
  BY DEF AnswersDrawNear
<1> QED BY <1>2, <1>3, Invariance, PTL DEF Spec
=============================================================================
