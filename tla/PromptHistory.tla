---------------------------- MODULE PromptHistory ----------------------------
(***************************************************************************)
(* PromptService with a history variable: which calls were accepted, that  *)
(* is, went on from the document they found or published a task            *)
(* themselves.  Polls, and submissions answered from the document, are     *)
(* not.  The variable says how many tasks a request may have, and when     *)
(* nothing can have gone wrong with it.                                    *)
(***************************************************************************)
EXTENDS PromptService

VARIABLE accepted   \* the calls accepted so far; no action reads it

hvars == <<vars, accepted>>

\* Call c takes its first step, to the semantic cache or by publishing a task.
Accepted(c) ==
    /\ cpc[c] = "new"
    /\ \/ cpc'[c] = "lookup"
       \/ cpc'[c] = "done" /\ queue' # queue

HInit == Init /\ accepted = {}

HNext == Next /\ accepted' = accepted \cup {c \in Calls : Accepted(c)}

HSpec == HInit /\ [][HNext]_hvars

-----------------------------------------------------------------------------
AcceptedFor(k) == {c \in accepted : req[c].key = k}

\* The tasks in circulation for request k: copies of its messages that wait
\* in the broker, workers whose task has not ended, calls that may publish one.
CopiesIn(q, k) == UNION {{m} \X (1..q[m]) : m \in {n \in Message : n.key = k}}

Copies(k) == CopiesIn(queue, k)

Holding(k) ==
    {w \in Workers : job[w] # NoJob /\ job[w].key = k /\ wpc[w] # "ack"}

UnderWay(k) ==
    {c \in Calls : req[c].key = k /\ cpc[c] \in {"lookup", "persist", "upsert", "enqueue"}}

Tasks(k) ==
    Cardinality(Copies(k)) + Cardinality(Holding(k)) + Cardinality(UnderWay(k))

\* Retries never multiply: acks_late, self.retry and the requeueing of lost
\* messages keep at most one task in circulation per accepted call and fault.
TasksAccounted == \A k \in Keys : Tasks(k) <= Cardinality(AcceptedFor(k)) + faults

\* Nothing has failed and no second call was accepted while the first had not
\* written the document.  Any number of polls and repeated submissions may
\* have been answered from the document.
Alone(k) == faults = 0 /\ Cardinality(AcceptedFor(k)) <= 1

\* A request that fails met a fault or was accepted more than once: errors and
\* rate limits of the provider alone never make it "failed", as the claim of a
\* retry finds the status its own last attempt left.
FailureHasCause == \A k \in Keys : doc[k].status = "failed" => ~Alone(k)

\* What DESIGN.md:8 and README.md:101-102 call idempotent, where it is: the
\* document of a settled request stays exactly as it is while nothing has
\* failed and it was accepted once, however often it is submitted, polled or
\* was retried.
SettledIsFinal == [][\A k \in Keys : Alone(k) /\ Settled(k) => doc'[k] = doc[k]]_hvars
=============================================================================
