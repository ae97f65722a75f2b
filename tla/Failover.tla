------------------------------ MODULE Failover ------------------------------
(***************************************************************************)
(* rpc.js: a batch of requests goes to the endpoint that answered last,    *)
(* then to the others in their order, until one of them answers.  Callers  *)
(* await their batches side by side and share what answered last.  What    *)
(* they make of an error: chainStateFromError and historyPruned.           *)
(***************************************************************************)
EXTENDS Integers, Sequences

CONSTANTS
  ENDPOINTS,     \* in their order
  Callers,       \* batches that may be under way together
  Soft,          \* those that go by rpcSoft, the rest by rpc
  Slots          \* the requests of a batch

FailoverAssumption ==
  /\ ENDPOINTS \in Seq({ENDPOINTS[i] : i \in DOMAIN ENDPOINTS}) /\ Len(ENDPOINTS) > 0
  /\ \A i, j \in DOMAIN ENDPOINTS : ENDPOINTS[i] = ENDPOINTS[j] => i = j
  /\ Soft \subseteq Callers

\* A reply is a refusal, for the key ("auth") or otherwise (a status, a timeout,
\* no network: "other"), or a body: per request a result, an error, the error that
\* history is pruned, or no item at all.
Refusals == {"auth", "other"}
Bodies == [Slots -> {"result", "error", "pruned", "absent"}]
Refusal(status) == [status |-> status, items |-> <<>>]
Body(items) == [status |-> "ok", items |-> items]
Undefined == "undefined"

VARIABLES
  endpoint,  \* net.endpoint
  call,      \* per caller: [stage, todo, allAuth, causes, out]
  heard      \* history, per caller: who was asked for this batch and what it said

vars == <<endpoint, call, heard>>

Idle == [stage |-> "idle", todo |-> <<>>, allAuth |-> TRUE, causes |-> <<>>, out |-> <<>>]

Init ==
  /\ endpoint = ENDPOINTS[1]
  /\ call = [c \in Callers |-> Idle]
  /\ heard = [c \in Callers |-> <<>>]

\* tryEndpoints: the order is fixed when the batch goes out, the k-th endpoint
\* before the others in theirs.
First(k) == [i \in DOMAIN ENDPOINTS |->
               IF i = 1 THEN ENDPOINTS[k] ELSE IF i <= k THEN ENDPOINTS[i - 1] ELSE ENDPOINTS[i]]
Ordered == First(CHOOSE k \in DOMAIN ENDPOINTS : ENDPOINTS[k] = endpoint)
Begin(c) ==
  /\ call[c].stage # "asking"
  /\ call' = [call EXCEPT ![c] = [Idle EXCEPT !.stage = "asking", !.todo = Ordered]]
  /\ heard' = [heard EXCEPT ![c] = <<>>]
  /\ UNCHANGED endpoint

\* The endpoints left after one has failed: a batch keeps to its own order.
Rest_ReadAgain(c) == SubSeq(Ordered, Len(call[c].causes) + 2, Len(Ordered))
Rest(c) == Tail(call[c].todo)

\* The catch: the next endpoint, or the error with what each of them said.
Failed(c, cause) ==
  /\ call' = [call EXCEPT ![c].todo = Rest(c),
                          ![c].stage = IF Rest(c) = <<>> THEN "failed" ELSE @,
                          ![c].allAuth = @ /\ cause = "auth",
                          ![c].causes = Append(@, cause)]
  /\ UNCHANGED endpoint

Heard(c, reply) ==
  heard' = [heard EXCEPT ![c] = Append(@, [from |-> Head(call[c].todo), said |-> reply])]

Refuse(c) ==
  /\ call[c].stage = "asking"
  /\ \E status \in Refusals : Failed(c, status) /\ Heard(c, Refusal(status))

\* rpcBatchOne: the items that make a batch fail, any of which may be the first
\* in the body; and what is left of one that does not.
Failing(c, body) == IF c \in Soft THEN {} ELSE {s \in Slots : body[s] \in {"error", "pruned"}}
Out(body) == [s \in Slots |-> IF body[s] = "result" THEN "result" ELSE Undefined]

Answer(c) ==
  /\ call[c].stage = "asking"
  /\ \E body \in Bodies :
       /\ Heard(c, Body(body))
       /\ IF Failing(c, body) = {}
          THEN /\ endpoint' = Head(call[c].todo)
               /\ call' = [call EXCEPT ![c] = [Idle EXCEPT !.stage = "answered", !.out = Out(body)]]
          ELSE \E s \in Failing(c, body) : Failed(c, body[s])

Next == \E c \in Callers : Begin(c) \/ Refuse(c) \/ Answer(c)

Spec == Init /\ [][Next]_vars

----------------------------------------------------------------------------
(* Properties.                                                              *)

StateFromError(c) == IF call[c].allAuth THEN "unauthorized" ELSE "unreachable"
HistoryPruned(c) == \E i \in DOMAIN call[c].causes : call[c].causes[i] = "pruned"

SaidPruned(reply) == reply.status = "ok" /\ \E s \in Slots : reply.items[s] = "pruned"

\* chainStateFromError, historyPruned: an error is told only when every endpoint
\* was asked, each once, whichever other batches moved the endpoint in use
\* meanwhile; the key is blamed for it when and only when all of them refused the
\* key, and history is taken for pruned only if one of them said so.  (One is
\* enough, though another may have been busy only.)
BlameIsFair ==
  \A c \in Callers : call[c].stage = "failed" =>
    /\ Len(heard[c]) = Len(ENDPOINTS)
    /\ {heard[c][i].from : i \in DOMAIN heard[c]} = {ENDPOINTS[i] : i \in DOMAIN ENDPOINTS}
    /\ (StateFromError(c) = "unauthorized") <=> \A i \in DOMAIN heard[c] : heard[c][i].said.status = "auth"
    /\ HistoryPruned(c) => \E i \in DOMAIN heard[c] : SaidPruned(heard[c][i].said)

\* rpc and rpcSoft: an answer is one endpoint's, never put together of two; one
\* error discards a strict batch, but an item that is absent passes as undefined.
AnswerIsWhole ==
  \A c \in Callers : call[c].stage = "answered" =>
    LET reply == heard[c][Len(heard[c])].said
    IN  /\ reply.status = "ok"
        /\ \A s \in Slots :
             IF reply.items[s] = "result" THEN call[c].out[s] = "result"
             ELSE call[c].out[s] = Undefined /\ (c \in Soft \/ reply.items[s] = "absent")
=============================================================================
