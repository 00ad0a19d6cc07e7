------------------------------ MODULE HostInputs ------------------------------
(***************************************************************************)
(* The invocation store of one transition that takes host inputs           *)
(* (boatstack/invocation): immutable input requests, which form a chain of *)
(* generations per context, and immutable receipts for their answers.  A   *)
(* context is what a request is bound to: the state revision and the       *)
(* control bundle.                                                         *)
(*                                                                         *)
(* `id` stands for the fingerprint of a request: the first request of a    *)
(* context is a function of the context, a later one also covers its       *)
(* author, its reason and its time, so each has an identity of its own.    *)
(* The value of an answer is left out: what matters of a second answer to  *)
(* the same request is whether it differs from the first.                  *)
(***************************************************************************)
EXTENDS Integers, FiniteSets

CONSTANTS
  None,
  Parameters       \* the host inputs the transition declares

FirstRequest(context) ==
  [context |-> context, generation |-> 1, id |-> 0, previous |-> 0]

NextRequest(prior, id) ==
  [context |-> prior.context, generation |-> prior.generation + 1, id |-> id,
   previous |-> prior.id]

Matching(requests, context) == {r \in requests : r.context = context}

\* One request per generation, no generation skipped, each naming the one before.
IsChain(chain) ==
  /\ {r.generation : r \in chain} = 1..Cardinality(chain)
  /\ \A r, q \in chain : q.generation = r.generation + 1 => q.previous = r.id

Ambiguous(requests, context) == ~IsChain(Matching(requests, context))

\* The current generation; a context without a request gets its first one.
LatestRequest(requests, context) ==
  LET chain == Matching(requests, context) IN
  IF chain = {} THEN FirstRequest(context)
  ELSE CHOOSE r \in chain : \A q \in chain : q.generation <= r.generation

Receipt(request, parameter) == [request |-> request, parameter |-> parameter]

Answers(receipts, request) == {r \in receipts : r.request = request}
Answered(receipts, request) == {r.parameter : r \in Answers(receipts, request)}

IsReady(receipts, request) == Answered(receipts, request) = Parameters

\* Evidence is bound to one request, by the answers it was given.
Evidence(receipts, request) ==
  [request |-> request, answered |-> Answered(receipts, request)]

\* Mutant: any answered request may be superseded.
CanSupersedeAny(requests, receipts, request) == IsReady(receipts, request)

\* A request is superseded once, when it is the latest and fully answered.
CanSupersede(requests, receipts, request) ==
  /\ ~Ambiguous(requests, request.context)
  /\ LatestRequest(requests, request.context) = request
  /\ IsReady(receipts, request)
===============================================================================
