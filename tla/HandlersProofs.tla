----------------------------- MODULE HandlersProofs -----------------------------
(***************************************************************************)
(* Proofs about Handlers, for any budget and any timeout of the client     *)
(* that is shorter.                                                        *)
(***************************************************************************)
EXTENDS Handlers, TLAPS

(* The first steps of a handler: reading the request, and asking Hydra for its own. *)
Read == ReadQuery \/ ReadForm \/ Health
GetRequest == GetLoginRequest \/ GetConsentRequest \/ GetLogoutRequest

(***************************************************************************)
(* Types                                                                   *)
(***************************************************************************)
(* The part of TypeOK that calls are about, and the part answers are about. *)
CallTypes ==
    /\ endpoint \in Starts \cup Completions \cup Probes
    /\ left \in 0 .. Budget /\ formTime \in 0 .. Budget
    /\ troubled \subseteq Services /\ asked \subseteq Services /\ failed \subseteq asked

AnswerTypes ==
    /\ pc \in {"read", "request", "create", "transaction", "consume", "whoami", "policy",
               "tell", "ready", "done"}
    /\ consumed \in BOOLEAN
    /\ verdict \in Verdicts /\ public \subseteq Kinds /\ decision \in Verdicts
    /\ oddity \in {"none", "userinfo", "foreign"}
    /\ status \in {0, 200, 302, 400, 401, 403, 500, 502}

(* A request that nobody has read is well typed (Handler). *)
LEMMA TypeInit == Init => TypeOK
<1> SUFFICES ASSUME Init PROVE TypeOK
  OBVIOUS
<1>1. CallTypes
  BY TimeoutAssumption DEF Init, CallTypes
<1>2. AnswerTypes
  BY DEF Init, AnswerTypes, Verdicts, Rejections
<1> QED
  BY <1>1, <1>2 DEF TypeOK, CallTypes, AnswerTypes

(* What a call does to the variables it is about (Call). *)
LEMMA CallStep ==
    ASSUME CallTypes, NEW s \in Services, Answers(s) \/ Fails(s)
    PROVE  CallTypes'
<1>1. /\ left' \in 0 .. Budget
      /\ UNCHANGED <<endpoint, formTime, troubled>>
  BY TimeoutAssumption DEF CallTypes, Answers, Fails, Call
<1>2. asked' \subseteq Services /\ failed' \subseteq asked'
  BY DEF CallTypes, Answers, Fails, Call
<1> QED
  BY <1>1, <1>2 DEF CallTypes

(* Every answer has one of the statuses of statusForError. *)
LEMMA ErrorStatus == \A errors : statusForError(errors) \in {400, 401, 403, 500, 502}
  BY DEF statusForError

(* Hydra is told one of the verdicts when a check fails (FailureCode). *)
LEMMA FailureVerdict == \A errors, cause : FailureCode(errors, cause) \in Verdicts
  BY DEF FailureCode, Verdicts, Rejections

(* Every step of a handler keeps the types of calls. *)
LEMMA CallTypesStep == CallTypes /\ [Next]_vars => CallTypes'
<1> SUFFICES ASSUME CallTypes, [Next]_vars PROVE CallTypes'
  OBVIOUS
<1>1. CASE Read
  BY <1>1, TimeoutAssumption DEF Read, ReadQuery, ReadForm, Health, CallTypes
<1>2. CASE GetRequest
  BY <1>2, CallStep
     DEF GetRequest, GetLoginRequest, GetConsentRequest, GetLogoutRequest, NoRequest,
         Services
<1>3. CASE CreateTransaction
  <2>1. CASE UNCHANGED <<endpoint, left, formTime, troubled, asked, failed>>
    BY <2>1 DEF CallTypes
  <2> QED
    BY <1>3, <2>1, CallStep DEF CreateTransaction, Services
<1>4. CASE LoadTransaction
  BY <1>4, CallStep DEF LoadTransaction, Services
<1>5. CASE ConsumeTransaction
  BY <1>5, CallStep DEF ConsumeTransaction, Services
<1>6. CASE NoCredentials
  BY <1>6 DEF NoCredentials, CallTypes
<1>7. CASE WhoAmI
  BY <1>7, CallStep DEF WhoAmI, Services
<1>8. CASE AskPolicy
  BY <1>8, CallStep DEF AskPolicy, Services
<1>9. CASE TellHydra
  BY <1>9, CallStep DEF TellHydra, Services
<1>10. CASE Probe
  <2>1. \A i \in DOMAIN Dependencies : Dependencies[i] \in Services
    BY DEF Dependencies, Services
  <2> QED
    BY <1>10, <2>1, CallStep DEF Probe
<1>11. CASE UNCHANGED vars
  BY <1>11 DEF vars, CallTypes
<1> QED
  BY <1>1, <1>2, <1>3, <1>4, <1>5, <1>6, <1>7, <1>8, <1>9, <1>10, <1>11 DEF Next, Read, GetRequest

(* Every step of a handler keeps the types of answers. *)
LEMMA AnswerTypesStep == AnswerTypes /\ [Next]_vars => AnswerTypes'
<1> SUFFICES ASSUME AnswerTypes, [Next]_vars PROVE AnswerTypes'
  OBVIOUS
<1> USE DEF AnswerTypes, Answer, writeError, Continue
<1>1. CASE Read
  BY <1>1, ErrorStatus DEF Read, ReadQuery, ReadForm, Health
<1>2. CASE GetRequest
  BY <1>2, ErrorStatus
     DEF GetRequest, GetLoginRequest, GetConsentRequest, GetLogoutRequest, NoRequest, Tell,
         Verdicts, Rejections
<1>3. CASE CreateTransaction
  BY <1>3, ErrorStatus DEF CreateTransaction
<1>4. CASE LoadTransaction
  <2>1. UNCHANGED <<consumed, decision, oddity>>
    BY <1>4 DEF LoadTransaction
  <2>2. /\ pc' \in {"whoami", "consume", "tell", "done"}
        /\ status' \in {status, 400, 401, 403, 500, 502}
    BY <1>4, ErrorStatus DEF LoadTransaction, RejectFailure, Tell
  <2>3. public' \in {public, {"request"}}
    BY <1>4 DEF LoadTransaction, RejectFailure, Tell
  <2>4. verdict' \in Verdicts
    <3>1. {"none", "accepted", "access_denied"} \subseteq Verdicts
      BY DEF Verdicts, Rejections
    <3>2. Prepared \in Verdicts
      BY <3>1 DEF Prepared
    <3> QED
      BY <1>4, <3>1, <3>2, FailureVerdict DEF LoadTransaction, RejectFailure, Tell
  <2> QED
    BY <2>1, <2>2, <2>3, <2>4 DEF Kinds
<1>5. CASE ConsumeTransaction
  <2>1. AfterConsume \in {"tell", "whoami", "policy"}
    BY DEF AfterConsume
  <2>2. UNCHANGED <<verdict, public, decision, oddity>> /\ consumed' \in BOOLEAN
    BY <1>5 DEF ConsumeTransaction
  <2>3. /\ pc' \in {"tell", "whoami", "policy", "done"}
        /\ status' \in {status, 400, 401, 403, 500, 502}
    BY <1>5, <2>1, ErrorStatus DEF ConsumeTransaction
  <2> QED
    BY <2>2, <2>3
<1>6. CASE NoCredentials
  BY <1>6, FailureVerdict DEF NoCredentials, RejectFailure, Tell, Kinds
<1>7. CASE WhoAmI
  <2>1. UNCHANGED <<consumed, decision, oddity, status>>
    BY <1>7 DEF WhoAmI, RejectFailure, Tell
  <2>2. pc' \in {"tell", "policy", "consume"}
    BY <1>7 DEF WhoAmI, RejectFailure, Tell
  <2>3. public' \in {public, {}, {"unauthenticated"}, {"assurance"}, {"request"}}
    BY <1>7 DEF WhoAmI, RejectFailure, Tell
  <2>4. verdict' \in Verdicts
    <3>1. "login_required" \in Verdicts
      BY DEF Verdicts, Rejections
    <3> QED
      BY <1>7, <3>1, FailureVerdict DEF WhoAmI, RejectFailure, Tell
  <2> QED
    BY <2>1, <2>2, <2>3, <2>4 DEF Kinds
<1>8. CASE AskPolicy
  <2>1. UNCHANGED <<consumed, decision>> /\ oddity' \in {oddity, "userinfo"}
    BY <1>8 DEF AskPolicy
  <2>2. /\ pc' \in {"tell", "done"}
        /\ status' \in {status, 400, 401, 403, 500, 502}
    BY <1>8, ErrorStatus DEF AskPolicy, RejectFailure, Tell
  <2>3. public' \in {public, {}, {"upstream"}}
    BY <1>8 DEF AskPolicy, RejectFailure, Tell
  <2>4. verdict' \in Verdicts
    <3>1. {"access_denied", "accepted"} \subseteq Verdicts
      BY DEF Verdicts, Rejections
    <3> QED
      BY <1>8, <3>1, FailureVerdict DEF AskPolicy, RejectFailure, Tell
  <2> QED
    BY <2>1, <2>2, <2>3, <2>4 DEF Kinds
<1>9. CASE TellHydra
  BY <1>9, ErrorStatus DEF TellHydra
<1>10. CASE Probe
  BY <1>10, ErrorStatus DEF Probe
<1>11. CASE UNCHANGED vars
  BY <1>11 DEF vars
<1> QED
  BY <1>1, <1>2, <1>3, <1>4, <1>5, <1>6, <1>7, <1>8, <1>9, <1>10, <1>11 DEF Next, Read, GetRequest

(* Every variable of a request keeps its type. *)
THEOREM HandlersTypeCorrect == Spec => []TypeOK
<1>1. TypeOK <=> CallTypes /\ AnswerTypes
  BY DEF TypeOK, CallTypes, AnswerTypes
<1> QED
  BY <1>1, TypeInit, CallTypesStep, AnswerTypesStep, PTL DEF Spec

(***************************************************************************)
(* What a refusal means                                                    *)
(***************************************************************************)
(* Nothing is told or answered before its time, and what is accepted has   *)
(* no error that the browser could be shown instead.                       *)
Undecided ==
    /\ pc # "done" => decision = "none" /\ status = 0
    /\ pc \notin {"tell", "done"} => public = {}
    /\ verdict = "accepted" => public = {}

(* A verdict and the errors that go with it are chosen together (Tell). *)
LEMMA UndecidedStep == Undecided /\ [Next]_vars => Undecided'
<1> SUFFICES ASSUME Undecided, [Next]_vars PROVE Undecided'
  OBVIOUS
<1> USE DEF Undecided, Answer, writeError, Continue, Tell, RejectFailure
<1>1. CASE Read
  BY <1>1 DEF Read, ReadQuery, ReadForm, Health
<1>2. CASE GetRequest
  BY <1>2 DEF GetRequest, GetLoginRequest, GetConsentRequest, GetLogoutRequest, NoRequest
<1>3. CASE CreateTransaction
  BY <1>3 DEF CreateTransaction
<1>4. CASE LoadTransaction
  BY <1>4 DEF LoadTransaction, FailureCode
<1>5. CASE ConsumeTransaction
  BY <1>5 DEF ConsumeTransaction
<1>6. CASE NoCredentials
  BY <1>6 DEF NoCredentials, FailureCode
<1>7. CASE WhoAmI
  BY <1>7 DEF WhoAmI, FailureCode
<1>8. CASE AskPolicy
  BY <1>8 DEF AskPolicy, FailureCode
<1>9. CASE TellHydra
  BY <1>9 DEF TellHydra
<1>10. CASE Probe
  BY <1>10 DEF Probe
<1>11. CASE UNCHANGED vars
  BY <1>11 DEF vars
<1> QED
  BY <1>1, <1>2, <1>3, <1>4, <1>5, <1>6, <1>7, <1>8, <1>9, <1>10, <1>11 DEF Next, Read, GetRequest

(* An error of Hydra alone is never the browser's fault (statusForError).  *)
LEMMA UpstreamStatus == statusForError({"upstream"}) = 502
  BY DEF statusForError

(* An answer of Hydra that tells the browser it was at fault is a rejection, *)
(* or comes with a foreign redirect.                                         *)
LEMMA RefusedStep ==
    Undecided /\ RefusedMeansNotAccepted /\ [Next]_vars => RefusedMeansNotAccepted'
<1> SUFFICES ASSUME Undecided, RefusedMeansNotAccepted, [Next]_vars
             PROVE  RefusedMeansNotAccepted'
  OBVIOUS
<1>1. CASE TellHydra
  <2>1. CASE decision' = "accepted" /\ verdict = "accepted"
    <3>1. public = {}
      BY <2>1 DEF Undecided
    <3>2. status' \in {502, 302} \/ oddity' = "foreign"
      BY <1>1, <3>1, UpstreamStatus DEF TellHydra, Answer, writeError, EmptyRedirect
    <3> QED
      BY <3>2 DEF RefusedMeansNotAccepted
  <2>2. CASE decision' # "accepted"
    BY <2>2 DEF RefusedMeansNotAccepted
  <2> QED
    BY <1>1, <2>1, <2>2 DEF TellHydra, Undecided
<1>2. CASE UNCHANGED vars
  BY <1>2 DEF vars, RefusedMeansNotAccepted
<1>3. CASE pc # "done" /\ UNCHANGED decision
  BY <1>3 DEF Undecided, RefusedMeansNotAccepted
<1> QED
  BY <1>1, <1>2, <1>3
     DEF Next, Read, ReadQuery, ReadForm, Health, GetRequest, GetLoginRequest,
         GetConsentRequest, GetLogoutRequest, NoRequest, CreateTransaction, LoadTransaction,
         ConsumeTransaction, NoCredentials, WhoAmI, AskPolicy, Probe

(***************************************************************************)
(* Whoever is told that the request was at fault has not been let in.      *)
(***************************************************************************)
THEOREM RefusalsHonest == Spec => []RefusedMeansNotAccepted
<1>1. Init => Undecided /\ RefusedMeansNotAccepted
  BY DEF Init, Undecided, RefusedMeansNotAccepted
<1> QED
  BY <1>1, UndecidedStep, RefusedStep, PTL DEF Spec

(***************************************************************************)
(* Outages                                                                 *)
(***************************************************************************)
(* A service that could not be asked ends the handler, but for the rejection. *)
OutageLeadsToRejection ==
    failed \cap {"kratos", "policy"} # {} =>
        /\ pc \in {"tell", "done"}
        /\ pc = "tell" => verdict = "temporarily_unavailable"
        /\ decision \in {"none", "temporarily_unavailable"}

(* Calls of Hydra and the store do not report an outage of the other two. *)
LEMMA OtherCalls ==
    ASSUME NEW s \in {"hydra", "store"}, Answers(s) \/ Fails(s)
    PROVE  failed' \cap {"kratos", "policy"} = failed \cap {"kratos", "policy"}
  BY DEF Answers, Fails

(* A call that fails is classified as an outage (FailureCode). *)
LEMMA OutageStep ==
    Undecided /\ OutageLeadsToRejection /\ [Next]_vars => OutageLeadsToRejection'
<1> SUFFICES ASSUME Undecided, OutageLeadsToRejection, [Next]_vars
             PROVE  OutageLeadsToRejection'
  OBVIOUS
<1>1. CASE /\ pc \notin {"tell", "done"}
           /\ failed' \cap {"kratos", "policy"} = failed \cap {"kratos", "policy"}
  BY <1>1 DEF OutageLeadsToRejection
<1>2. CASE WhoAmI
  <2>1. CASE UNCHANGED failed
    BY <1>1, <1>2, <2>1 DEF WhoAmI
  <2>2. CASE RejectFailure({"unauthenticated"}, {"upstream"})
    <3>1. pc' = "tell" /\ verdict' = "temporarily_unavailable"
      BY <2>2 DEF RejectFailure, Tell, FailureCode
    <3> QED
      BY <1>2, <3>1 DEF WhoAmI, Undecided, OutageLeadsToRejection
  <2> QED
    BY <1>2, <2>1, <2>2 DEF WhoAmI, Answers
<1>3. CASE AskPolicy
  <2>1. CASE UNCHANGED failed
    BY <1>1, <1>3, <2>1 DEF AskPolicy
  <2>2. CASE RejectFailure({"upstream"}, {"upstream"})
    <3>1. pc' = "tell" /\ verdict' = "temporarily_unavailable"
      BY <2>2 DEF RejectFailure, Tell, FailureCode
    <3> QED
      BY <1>3, <3>1 DEF AskPolicy, Undecided, OutageLeadsToRejection
  <2> QED
    BY <1>3, <2>1, <2>2 DEF AskPolicy, Answers
<1>4. CASE TellHydra
  <2>1. /\ failed' \cap {"kratos", "policy"} = failed \cap {"kratos", "policy"}
        /\ pc = "tell" /\ pc' = "done"
        /\ decision' \in {decision, verdict}
    BY <1>4, OtherCalls DEF TellHydra, Answer, writeError
  <2> QED
    BY <2>1 DEF OutageLeadsToRejection
<1>5. CASE Probe
  BY <1>5 DEF Probe, Undecided, OutageLeadsToRejection, Answers, Answer, writeError
<1>6. CASE UNCHANGED vars
  BY <1>6 DEF vars, OutageLeadsToRejection
<1>7. CASE GetRequest \/ CreateTransaction \/ LoadTransaction \/ ConsumeTransaction
  BY <1>1, <1>7, OtherCalls
     DEF GetRequest, GetLoginRequest, GetConsentRequest, GetLogoutRequest, NoRequest,
         CreateTransaction, LoadTransaction, ConsumeTransaction
<1>8. CASE Read \/ NoCredentials
  BY <1>1, <1>8 DEF Read, ReadQuery, ReadForm, Health, NoCredentials
<1> QED
  BY <1>2, <1>3, <1>4, <1>5, <1>6, <1>7, <1>8 DEF Next, Read, GetRequest

(***************************************************************************)
(* An outage of Kratos or the policy is reported as one.                   *)
(***************************************************************************)
THEOREM OutagesReported == Spec => []OutageIsReported
<1>1. Init => Undecided /\ OutageLeadsToRejection
  BY DEF Init, Undecided, OutageLeadsToRejection
<1>2. OutageLeadsToRejection => OutageIsReported
  BY DEF OutageLeadsToRejection, OutageIsReported
<1> QED
  BY <1>1, <1>2, UndecidedStep, OutageStep, PTL DEF Spec

(***************************************************************************)
(* The budget                                                              *)
(***************************************************************************)
(* How far a handler can be when it has asked what it has asked. *)
Progress ==
    /\ pc = "read" => left = Budget /\ formTime = 0
    /\ pc \in {"read", "request", "transaction"} => asked = {}
    /\ pc = "consume" /\ endpoint = "login_callback" => asked = {"store"}
    /\ pc \in {"read", "request", "create", "transaction", "consume", "ready"} => ~ consumed
    /\ pc = "whoami" => asked = {"store"} /\ (endpoint # "login_callback" => ~ consumed)
    /\ pc \notin {"tell", "done"} => "policy" \notin asked
    /\ pc = "tell" => verdict # "none"

(* What is left of the budget, while only one service may take its time. *)
TimeLeft ==
    SingleOutage =>
        /\ left >= Budget - formTime - ClientTimeout
        /\ asked \cap troubled = {} => left = Budget - formTime

(* While only one service may take its time, there is time for another call. *)
LEMMA TimeForACall == TypeOK /\ TimeLeft /\ SingleOutage => left > 0
  BY TimeoutAssumption DEF TypeOK, TimeLeft, SingleOutage

(* A handler asks every service at most once that may take its time (Continue). *)
LEMMA ProgressStep == Progress /\ [Next]_vars => Progress'
<1> SUFFICES ASSUME Progress, [Next]_vars PROVE Progress'
  OBVIOUS
<1> USE DEF Answer, writeError, Continue, Tell, RejectFailure
<1>1. CASE Read
  <2>1. UNCHANGED <<endpoint, asked, consumed, verdict>> /\ asked = {} /\ ~ consumed
    BY <1>1 DEF Read, ReadQuery, ReadForm, Health, Progress
  <2>2. pc' \in {"request", "transaction", "ready", "done"}
    BY <1>1 DEF Read, ReadQuery, ReadForm, Health
  <2> QED
    BY <2>1, <2>2 DEF Progress
<1>2. CASE GetRequest
  <2>1. "policy" \notin asked' /\ UNCHANGED consumed /\ ~ consumed
    BY <1>2
       DEF GetRequest, GetLoginRequest, GetConsentRequest, GetLogoutRequest, NoRequest,
           Progress, Answers, Fails, Call
  <2>2. \/ pc' \in {"done", "policy", "create"}
        \/ pc' = "tell" /\ verdict' \in {"login_required", "consent_required"}
    BY <1>2 DEF GetRequest, GetLoginRequest, GetConsentRequest, GetLogoutRequest, NoRequest
  <2> QED
    BY <2>1, <2>2 DEF Progress
<1>3. CASE CreateTransaction
  BY <1>3 DEF CreateTransaction, Progress
<1>4. CASE LoadTransaction
  <2>1. CASE Answers("store")
    <3>1. asked' = {"store"} /\ UNCHANGED <<endpoint, consumed>> /\ ~ consumed
      BY <1>4, <2>1 DEF LoadTransaction, Progress, Answers, Call
    <3>2. \/ pc' \in {"done", "whoami", "consume"}
          \/ pc' = "tell" /\ verdict' \in {"temporarily_unavailable", "access_denied"}
      BY <1>4 DEF LoadTransaction, FailureCode
    <3> QED
      BY <3>1, <3>2 DEF Progress
  <2>2. CASE writeError({"internal"})
    BY <2>2, <1>4 DEF Progress
  <2> QED
    BY <1>4, <2>1, <2>2 DEF LoadTransaction
<1>5. CASE ConsumeTransaction
  <2>1. CASE pc' = "done"
    BY <2>1 DEF Progress
  <2>2. CASE Answers("store") /\ pc' = AfterConsume /\ consumed' = TRUE
    <3>1. UNCHANGED <<endpoint, verdict>> /\ asked' = asked \cup {"store"} /\ "policy" \notin asked
      BY <1>5, <2>2 DEF ConsumeTransaction, Answers, Call, Progress
    <3>2. CASE pc' = "tell" /\ verdict # "none"
      BY <3>1, <3>2 DEF Progress
    <3>3. CASE pc' = "whoami" /\ endpoint = "login_callback"
      BY <1>5, <3>1, <3>3 DEF Progress, ConsumeTransaction
    <3>4. CASE pc' = "policy"
      BY <3>1, <3>4 DEF Progress
    <3> QED
      BY <2>2, <3>2, <3>3, <3>4 DEF AfterConsume
  <2> QED
    BY <1>5, <2>1, <2>2 DEF ConsumeTransaction
<1>6. CASE NoCredentials
  BY <1>6 DEF NoCredentials, Progress, FailureCode
<1>7. CASE WhoAmI
  <2>1. asked' = {"store", "kratos"} /\ UNCHANGED <<endpoint, consumed>>
    BY <1>7 DEF WhoAmI, Progress, Answers, Fails, Call
  <2>2. CASE pc' = "tell" /\ verdict' # "none"
    BY <2>2 DEF Progress
  <2>3. CASE Continue(IF endpoint = "login_callback" THEN "policy" ELSE "consume")
    BY <1>7, <2>1, <2>3 DEF WhoAmI, Progress
  <2> QED
    BY <1>7, <2>2, <2>3 DEF WhoAmI, FailureCode
<1>8. CASE AskPolicy
  BY <1>8 DEF AskPolicy, Progress, FailureCode
<1>9. CASE TellHydra
  BY <1>9 DEF TellHydra, Progress
<1>10. CASE Probe
  <2>1. \A i \in DOMAIN Dependencies : Dependencies[i] # "policy"
    BY DEF Dependencies
  <2> QED
    BY <1>10, <2>1 DEF Probe, Progress, Answers, Fails, Call
<1>11. CASE UNCHANGED vars
  BY <1>11 DEF vars, Progress
<1> QED
  BY <1>1, <1>2, <1>3, <1>4, <1>5, <1>6, <1>7, <1>8, <1>9, <1>10, <1>11 DEF Next, Read, GetRequest

(* A call takes no time unless its service is in trouble, and then no more *)
(* than the client's timeout (Call).                                       *)
LEMMA TimeOfACall ==
    ASSUME TypeOK, TimeLeft, NEW s \in Services, Answers(s) \/ Fails(s),
           s \notin asked \/ s \notin troubled
    PROVE  TimeLeft'
<1> SUFFICES ASSUME SingleOutage' PROVE /\ left' >= Budget - formTime' - ClientTimeout
                                        /\ (asked \cap troubled = {})' => left' = Budget - formTime'
  BY DEF TimeLeft
<1>1. /\ asked' = asked \cup {s} /\ UNCHANGED <<formTime, troubled>>
      /\ \E d \in 0 .. left :
            /\ s \notin troubled => d = 0
            /\ s # "store" => d <= ClientTimeout
            /\ left' = left - d
  BY DEF Answers, Fails, Call
<1>2. SingleOutage
  BY <1>1 DEF SingleOutage
<1>3. left \in Nat /\ formTime \in Nat
  BY TimeoutAssumption DEF TypeOK
<1>4. CASE s \notin troubled
  <2>1. left' = left
    BY <1>1, <1>3, <1>4
  <2>2. asked' \cap troubled' = asked \cap troubled
    BY <1>1, <1>4
  <2> QED
    BY <1>1, <1>2, <2>1, <2>2 DEF TimeLeft
<1>5. CASE s \in troubled
  <2>1. s \in {"kratos", "policy"} /\ s \notin asked
    BY <1>2, <1>5 DEF SingleOutage, Services
  <2>2. asked \cap troubled = {}
    BY <1>2, <2>1, <1>5 DEF SingleOutage, TypeOK, Services
  <2>3. left = Budget - formTime
    BY <1>2, <2>2 DEF TimeLeft
  <2>4. left' >= left - ClientTimeout
    BY <1>1, <1>3, <2>1, TimeoutAssumption
  <2>5. s \in asked' \cap troubled'
    BY <1>1, <1>5
  <2> QED
    BY <1>1, <1>3, <2>3, <2>4, <2>5, TimeoutAssumption
<1> QED
  BY <1>4, <1>5

(* The budget is spent on one slow service at most. *)
LEMMA TimeLeftStep == TypeOK /\ Progress /\ TimeLeft /\ [Next]_vars => TimeLeft'
<1> SUFFICES ASSUME TypeOK, Progress, TimeLeft, [Next]_vars PROVE TimeLeft'
  OBVIOUS
<1>1. CASE UNCHANGED <<left, formTime, troubled, asked>>
  BY <1>1 DEF TimeLeft, SingleOutage
<1>2. CASE Read
  <2>1. left' = Budget - formTime' /\ left' \in Int /\ formTime' \in Int
    BY <1>2, TimeoutAssumption DEF Read, ReadQuery, ReadForm, Health, Progress, TypeOK
  <2>2. Budget \in Int /\ ClientTimeout \in Int /\ 0 <= ClientTimeout
    BY TimeoutAssumption
  <2>3. \A l, f \in Int : l = Budget - f => l >= Budget - f - ClientTimeout
    BY <2>2
  <2>4. left' >= Budget - formTime' - ClientTimeout
    BY <2>1, <2>3
  <2> QED
    BY <2>1, <2>4 DEF TimeLeft
<1>3. CASE GetRequest
  <2>1. asked = {}
    BY <1>3
       DEF GetRequest, GetLoginRequest, GetConsentRequest, GetLogoutRequest, NoRequest,
           Progress
  <2> QED
    BY <1>3, <2>1, TimeOfACall
       DEF GetRequest, GetLoginRequest, GetConsentRequest, GetLogoutRequest, NoRequest,
           Services
<1>4. CASE CreateTransaction \/ LoadTransaction \/ ConsumeTransaction
  <2>1. CASE Answers("store") \/ Fails("store")
    <3>1. CASE "store" \in troubled
      BY <2>1, <3>1 DEF TimeLeft, SingleOutage, Answers, Fails, Call
    <3>2. CASE "store" \notin troubled
      BY <2>1, <3>2, TimeOfACall DEF Services
    <3> QED
      BY <3>1, <3>2
  <2> QED
    BY <1>1, <1>4, <2>1 DEF CreateTransaction, LoadTransaction, ConsumeTransaction
<1>5. CASE NoCredentials
  BY <1>1, <1>5 DEF NoCredentials
<1>6. CASE WhoAmI
  <2>1. asked = {"store"}
    BY <1>6 DEF WhoAmI, Progress
  <2> QED
    BY <1>6, <2>1, TimeOfACall DEF WhoAmI, Services
<1>7. CASE AskPolicy
  <2>1. "policy" \notin asked
    BY <1>7 DEF AskPolicy, Progress
  <2> QED
    BY <1>7, <2>1, TimeOfACall DEF AskPolicy, Services
<1>8. CASE TellHydra
  <2>1. CASE "hydra" \in troubled
    BY <1>8, <2>1 DEF TellHydra, TimeLeft, SingleOutage, Answers, Fails, Call
  <2>2. CASE "hydra" \notin troubled
    BY <1>8, <2>2, TimeOfACall DEF TellHydra, Services
  <2> QED
    BY <2>1, <2>2
<1>9. CASE Probe
  <2>1. PICK i \in DOMAIN Dependencies :
            /\ asked = {Dependencies[j] : j \in 1 .. (i - 1)}
            /\ Answers(Dependencies[i]) \/ Fails(Dependencies[i])
    BY <1>9 DEF Probe
  <2>2. i \in 1 .. 3 /\ Dependencies[i] \in Services
    BY DEF Dependencies, Services
  <2>3. Dependencies[i] \notin asked
    BY <2>1, <2>2 DEF Dependencies
  <2> QED
    BY <2>1, <2>2, <2>3, TimeOfACall
<1>10. CASE UNCHANGED vars
  BY <1>1, <1>10 DEF vars
<1> QED
  BY <1>2, <1>3, <1>4, <1>5, <1>6, <1>7, <1>8, <1>9, <1>10 DEF Next, Read, GetRequest

(* While there is time, what a handler has consumed is told to Hydra. *)
LEMMA AnsweredStep ==
    TypeOK /\ Progress /\ TimeLeft /\ OneOutageIsAnswered /\ [Next]_vars => OneOutageIsAnswered'
<1> SUFFICES ASSUME TypeOK, Progress, TimeLeft, OneOutageIsAnswered, [Next]_vars
             PROVE  OneOutageIsAnswered'
  OBVIOUS
<1>1. CASE pc' # "done"
  BY <1>1 DEF OneOutageIsAnswered
<1>2. CASE ~ consumed'
  BY <1>2 DEF OneOutageIsAnswered
<1>3. CASE Read \/ GetRequest \/ CreateTransaction \/ LoadTransaction \/ Probe
  BY <1>2, <1>3
     DEF Read, ReadQuery, ReadForm, Health, GetRequest, GetLoginRequest, GetConsentRequest,
         GetLogoutRequest, NoRequest, CreateTransaction, LoadTransaction, Probe, Progress
<1>4. ASSUME SingleOutage', NEW s \in {"hydra", "store"}, Fails(s) PROVE FALSE
  BY <1>4, TimeForACall DEF SingleOutage, Fails, Call
<1>5. CASE ConsumeTransaction
  <2>1. CASE Fails("store")
    BY <1>4, <2>1 DEF OneOutageIsAnswered
  <2>2. CASE UNCHANGED consumed
    BY <1>2, <1>5, <2>2 DEF ConsumeTransaction, Progress
  <2>3. CASE pc' = AfterConsume
    BY <1>1, <2>3 DEF AfterConsume
  <2> QED
    BY <1>5, <2>1, <2>2, <2>3 DEF ConsumeTransaction
<1>6. CASE NoCredentials \/ WhoAmI
  BY <1>1, <1>6 DEF NoCredentials, WhoAmI, RejectFailure, Tell, Continue
<1>7. CASE AskPolicy
  <2>1. CASE oddity' = "userinfo"
    BY <2>1 DEF OneOutageIsAnswered
  <2> QED
    BY <1>1, <1>7, <2>1 DEF AskPolicy, RejectFailure, Tell
<1>8. CASE TellHydra
  <2>1. CASE Fails("hydra")
    BY <1>4, <2>1 DEF OneOutageIsAnswered
  <2>2. CASE decision' = verdict
    BY <1>8, <2>2 DEF TellHydra, Progress, OneOutageIsAnswered
  <2> QED
    BY <1>8, <2>1, <2>2 DEF TellHydra
<1>9. CASE UNCHANGED vars
  BY <1>9 DEF vars, OneOutageIsAnswered, SingleOutage
<1> QED
  BY <1>3, <1>5, <1>6, <1>7, <1>8, <1>9 DEF Next, Read, GetRequest

(***************************************************************************)
(* One outage does not strand a login, whatever the budget and the timeout *)
(* are, as long as the timeout is the shorter of the two.                  *)
(***************************************************************************)
THEOREM SingleOutagesAnswered == Spec => []OneOutageIsAnswered
<1>1. Init => Progress /\ TimeLeft /\ OneOutageIsAnswered
  <2>1. Init => Progress
    BY DEF Init, Progress, Starts, Completions, Probes
  <2>2. Init => TimeLeft
    BY TimeoutAssumption DEF Init, TimeLeft
  <2>3. Init => OneOutageIsAnswered
    BY DEF Init, OneOutageIsAnswered
  <2> QED
    BY <2>1, <2>2, <2>3
<1>2. TypeOK <=> CallTypes /\ AnswerTypes
  BY DEF TypeOK, CallTypes, AnswerTypes
<1> QED
  BY <1>1, <1>2, TypeInit, CallTypesStep, AnswerTypesStep, ProgressStep, TimeLeftStep,
     AnsweredStep, PTL DEF Spec

===============================================================================
