------------------------------ MODULE Endpoints ------------------------------
(***************************************************************************)
(* Addresses that the user declares for names ("my server is ..."):        *)
(* memory/capture.go, memory/endpoints.go, state/store_endpoints.go.       *)
(* A turn reads what is saved, saves its declaration in a transaction and  *)
(* reads it back; a turn that was interrupted may be resumed and do all of *)
(* this again, after the name was forgotten or given to another address.   *)
(***************************************************************************)
EXTENDS Integers, FiniteSets

CONSTANTS Turns, Names,
          Declares,        \* the name and the address that a turn declares
          MaxResumes, NoAddress

VARIABLES endpoints,       \* the address of a name
          captures,        \* turns that settled a name
          turn,            \* where a turn is, and what it reported last
          resumes,
          author, forgotten  \* who saved a name; who had settled it when it was forgotten
epvars == <<endpoints, captures, turn, resumes, author, forgotten>>

EndpointsInit ==
  /\ endpoints = [n \in Names |-> NoAddress] /\ captures = {} /\ resumes = 0
  /\ turn = [t \in Turns |-> [at |-> "idle", report |-> "none"]]
  /\ author = [n \in Names |-> Turns] /\ forgotten = {}

\* The user says it, or the turn is resumed.
Declare(t) ==
  /\ turn[t].at = "idle"
  /\ turn[t].report = "none" \/ resumes < MaxResumes
  /\ turn' = [turn EXCEPT ![t] = [at |-> "capture", report |-> "none"]]
  /\ resumes' = IF turn[t].report = "none" THEN resumes ELSE resumes + 1
  /\ UNCHANGED <<endpoints, captures, author, forgotten>>

Report(t, at, status) == turn' = [turn EXCEPT ![t] = [at |-> at, report |-> status]]

\* One transaction: a name that has another address, and a turn that settled
\* the name before it was forgotten, need a clarification.
CaptureUserEndpoint(t) ==
  LET n == Declares[t].name
      a == Declares[t].address
      new == endpoints[n] = NoAddress
  IN /\ turn[t].at = "capture" /\ UNCHANGED <<resumes, forgotten>>
     /\ \/ /\ endpoints[n] \notin {NoAddress, a} \/ (new /\ <<t, n>> \in captures)
           /\ Report(t, "idle", "needs_clarification") /\ UNCHANGED <<endpoints, captures, author>>
        \/ /\ endpoints[n] \in {NoAddress, a} /\ ~(new /\ <<t, n>> \in captures)
           /\ captures' = captures \cup {<<t, n>>}
           /\ endpoints' = [endpoints EXCEPT ![n] = a]
           /\ author' = IF new THEN [author EXCEPT ![n] = {t}] ELSE author
           /\ Report(t, "verify", IF new THEN "saved" ELSE "unchanged")

\* Success is reported only for what can be read back.
VerifyReadback(t) ==
  /\ turn[t].at = "verify"
  /\ Report(t, "idle", IF endpoints[Declares[t].name] = Declares[t].address THEN turn[t].report ELSE "failed")
  /\ UNCHANGED <<endpoints, captures, resumes, author, forgotten>>

\* Variant: forgetting a name forgets who settled it.
ForgetEverything(n) ==
  /\ endpoints[n] # NoAddress
  /\ endpoints' = [endpoints EXCEPT ![n] = NoAddress]
  /\ forgotten' = forgotten \cup {c \in captures : c[2] = n}
  /\ captures' = {c \in captures : c[2] # n}
  /\ UNCHANGED <<turn, resumes, author>>

ForgetUserEndpoint(n) ==
  /\ endpoints[n] # NoAddress
  /\ endpoints' = [endpoints EXCEPT ![n] = NoAddress]
  /\ forgotten' = forgotten \cup {c \in captures : c[2] = n}
  /\ UNCHANGED <<captures, turn, resumes, author>>

EndpointsNext ==
  \/ \E t \in Turns : Declare(t) \/ CaptureUserEndpoint(t) \/ VerifyReadback(t)
  \/ \E n \in Names : ForgetUserEndpoint(n)
EndpointsSpec == EndpointsInit /\ [][EndpointsNext]_epvars

\* A turn that settled a name before the user forgot it does not bring the name
\* back when it is resumed, whatever other turns declared meanwhile
\* (CaptureUserEndpoint, ForgetUserEndpoint).
ForgottenStaysForgotten ==
  \A n \in Names, t \in Turns :
    endpoints[n] # NoAddress /\ author[n] = {t} => <<t, n>> \notin forgotten
=============================================================================
