---------------------------- MODULE TxBroadcast ----------------------------
(***************************************************************************)
(* TransactionBroadcaster                                                  *)
(* (packages/ordinalsplus/src/transactions/transaction-broadcasting.ts):   *)
(* one broadcast posts a transaction to the active nodes in their order,   *)
(* round after round with a back-off between them, until a node answers    *)
(* with a txid or the rounds are used up.  A broadcast awaits three        *)
(* things: the headers of a POST (which the abort timer bounds), the body  *)
(* of the answer (which nothing bounds: the timer is cleared by then) and  *)
(* the back-off.  What it does in between is one action.                   *)
(***************************************************************************)
EXTENDS TxTracker, SequencesExt

CONSTANTS
    Nodes,         \* nodes of the broadcast's network
    Priority,      \* their priority, the lowest first
    MaxRetries,    \* maxRetries
    MaxToggles     \* bound: calls of setNodeEnabled

ASSUME NodesAssumption ==
    /\ IsFiniteSet(Nodes)
    /\ Priority \in [Nodes -> Nat]
    /\ MaxRetries \in Nat
    /\ MaxToggles \in Nat

VARIABLES
    enabled,        \* nodes whose enabled flag is set
    toggles,        \* calls of setNodeEnabled so far
    phase,          \* what each broadcast awaits, or how it settled
    plan,           \* activeNodes: the snapshot a broadcast works through
    pos,            \* the node of plan it is at
    retry,          \* currentRetry
    answerOk,       \* response.ok of the POST whose body is awaited
    activeRetries,  \* keys of activeRetries
    inProgress,     \* inProgressBroadcasts
    posts,          \* history: POSTs of a broadcast until it resolves, by node
    cancelled       \* history: broadcasts the caller cancelled

loopVars == <<phase, plan, pos, retry, answerOk, activeRetries, inProgress,
              posts>>
broadcastVars == <<enabled, toggles, loopVars, cancelled>>

Running == {"headers", "body", "backoff"}
Settled == {"resolved", "rejected"}

BroadcastInit ==
    /\ enabled = Nodes
    /\ toggles = 0
    /\ phase = [t \in Ids |-> "new"]
    /\ plan = [t \in Ids |-> <<>>]
    /\ pos = [t \in Ids |-> 0]
    /\ retry = [t \in Ids |-> 0]
    /\ answerOk = [t \in Ids |-> FALSE]
    /\ activeRetries = {}
    /\ inProgress = {}
    /\ posts = [t \in Ids |-> [n \in Nodes |-> 0]]
    /\ cancelled = {}

\* getActiveNodes: by priority, the preferred ones first.  Of two nodes that
\* are alike in both the one configured first comes first: either order.
ActiveNodes(preferred) ==
    LET Before(m, n) ==
            IF m \in preferred <=> n \in preferred
            THEN Priority[m] <= Priority[n]
            ELSE m \in preferred
    IN  {nodes \in SetToSeqs(enabled) :
           \A i, j \in DOMAIN nodes : i < j => Before(nodes[i], nodes[j])}

\* The loop marks node i of the plan and posts to it.  A marked node would be
\* skipped, but the markers of t are only ever those of its own loop.
Post(t, nodes, i, marks) ==
    /\ phase' = [phase EXCEPT ![t] = "headers"]
    /\ pos' = [pos EXCEPT ![t] = i]
    /\ inProgress' = marks \cup {<<t, nodes[i]>>}
    /\ posts' = [posts EXCEPT ![t][nodes[i]] = @ + 1]

\* setTransactionError and FAILED; the catch does both once more.
Failed(tr, t) == SetStatus(SetError(tr, t, "failed"), t, "FAILED")

\* broadcastTransaction up to its first await
Start(t, preferred) ==
    /\ phase[t] = "new"
    /\ \E nodes \in ActiveNodes(preferred) :
         plan' = [plan EXCEPT ![t] = nodes]
    /\ \/ /\ plan'[t] # <<>>
          /\ tracker' = Add(tracker, t, NewEntry(NoTxid))
          /\ activeRetries' = activeRetries \cup {t}
          /\ Post(t, plan'[t], 1, inProgress)
       \/ /\ plan'[t] = <<>>
          /\ tracker' = Failed(Add(tracker, t, NewEntry(NoTxid)), t)
          /\ phase' = [phase EXCEPT ![t] = "rejected"]
          /\ UNCHANGED <<pos, activeRetries, inProgress, posts>>
    /\ UNCHANGED <<enabled, toggles, retry, answerOk, cancelled, mempool,
                   depth>>

Current(t) == <<t, plan[t][pos[t]]>>

\* The current node failed: the next node, the back-off, or the end, when
\* that many retries are made.
AfterFailureOf(t, retries) ==
    LET marks == inProgress \ {Current(t)}
    IN  \/ /\ pos[t] < Len(plan[t])
           /\ Post(t, plan[t], pos[t] + 1, marks)
           /\ UNCHANGED <<tracker, activeRetries>>
        \/ /\ pos[t] = Len(plan[t])
           /\ retry[t] < retries
           /\ phase' = [phase EXCEPT ![t] = "backoff"]
           /\ inProgress' = marks
           /\ UNCHANGED <<tracker, pos, activeRetries, posts>>
        \/ /\ pos[t] = Len(plan[t])
           /\ retry[t] >= retries
           /\ phase' = [phase EXCEPT ![t] = "rejected"]
           /\ tracker' = Failed(tracker, t)
           /\ inProgress' = marks
           /\ activeRetries' = activeRetries \ {t}
           /\ UNCHANGED <<pos, posts>>

AfterFailure(t) == AfterFailureOf(t, MaxRetries)

\* The POST is aborted by its timer or fails on the wire; the node may have
\* taken the transaction all the same.
PostFails(t) ==
    /\ phase[t] = "headers"
    /\ AfterFailure(t)
    /\ mempool' \in {mempool, mempool \cup {TxidOf[t]}}
    /\ UNCHANGED <<enabled, toggles, plan, retry, answerOk, cancelled, depth>>

\* The headers arrive: an ok answer means the node took the transaction, any
\* other may mean that it had it already.
HeadersArrive(t, ok) ==
    /\ phase[t] = "headers"
    /\ phase' = [phase EXCEPT ![t] = "body"]
    /\ answerOk' = [answerOk EXCEPT ![t] = ok]
    /\ mempool' = IF ok THEN mempool \cup {TxidOf[t]} ELSE mempool
    /\ UNCHANGED <<enabled, toggles, plan, pos, retry, activeRetries,
                   inProgress, posts, cancelled, tracker, depth>>

\* The locals of a broadcast that resolved are gone.
Leave(t) ==
    /\ phase' = [phase EXCEPT ![t] = "resolved"]
    /\ plan' = [plan EXCEPT ![t] = <<>>]
    /\ pos' = [pos EXCEPT ![t] = 0]
    /\ retry' = [retry EXCEPT ![t] = 0]
    /\ answerOk' = [answerOk EXCEPT ![t] = FALSE]
    /\ posts' = [posts EXCEPT ![t] = [n \in Nodes |-> 0]]

\* (mutant of Resolve: the markers of a resolved broadcast are left behind)
ResolveLeaving(t) ==
    /\ phase[t] = "body"
    /\ answerOk[t]
    /\ Leave(t)
    /\ tracker' = SetTxid(tracker, t, TxidOf[t])
    /\ inProgress' = inProgress \ {Current(t)}
    /\ UNCHANGED <<enabled, toggles, activeRetries, cancelled, mempool,
                   depth>>

\* The body of an ok answer is a txid; the status is not touched.
Resolve(t) ==
    /\ phase[t] = "body"
    /\ answerOk[t]
    /\ Leave(t)
    /\ tracker' = SetTxid(tracker, t, TxidOf[t])
    /\ inProgress' = inProgress \ {Current(t)}
    /\ activeRetries' = activeRetries \ {t}
    /\ UNCHANGED <<enabled, toggles, cancelled, mempool, depth>>

\* The body of an error answer, an ok body that is no txid, or one that
\* cannot be read.
BodyFails(t) ==
    /\ phase[t] = "body"
    /\ AfterFailure(t)
    /\ UNCHANGED <<enabled, toggles, plan, retry, answerOk, cancelled,
                   mempool, depth>>

\* (mutant of NextRound: a cancelled loop just stops)
NextRoundUnlessCancelled(t) ==
    /\ phase[t] = "backoff"
    /\ t \in activeRetries
    /\ retry' = [retry EXCEPT ![t] = @ + 1]
    /\ Post(t, plan[t], 1, inProgress)
    /\ UNCHANGED <<enabled, toggles, plan, answerOk, activeRetries,
                   cancelled, tracker, mempool, depth>>

\* The back-off is over: the next round starts.
NextRound(t) ==
    /\ phase[t] = "backoff"
    /\ retry' = [retry EXCEPT ![t] = @ + 1]
    /\ activeRetries' = activeRetries \cup {t}
    /\ Post(t, plan[t], 1, inProgress)
    /\ UNCHANGED <<enabled, toggles, plan, answerOk, cancelled, tracker,
                   mempool, depth>>

\* cancelBroadcast, once, and when it has an effect: the loop is not told.
Cancel(t) ==
    /\ phase[t] # "new"
    /\ phase[t] \in Running \/ tracker[t].status = "PENDING"
    /\ t \notin cancelled
    /\ cancelled' = cancelled \cup {t}
    /\ activeRetries' = activeRetries \ {t}
    /\ inProgress' = {m \in inProgress : m[1] # t}
    /\ tracker' = IF Tracked(tracker, t) /\ tracker[t].status = "PENDING"
                  THEN SetError(SetStatus(tracker, t, "FAILED"), t, "cancelled")
                  ELSE tracker
    /\ UNCHANGED <<enabled, toggles, phase, plan, pos, retry, answerOk, posts,
                   mempool, depth>>

\* setNodeEnabled
ToggleNode(n) ==
    /\ toggles < MaxToggles
    /\ toggles' = toggles + 1
    /\ enabled' = IF n \in enabled THEN enabled \ {n} ELSE enabled \cup {n}
    /\ UNCHANGED <<loopVars, cancelled, tracker, mempool, depth>>

\* What a running broadcast awaits is answered.
BroadcastStep(t) ==
    \/ PostFails(t)
    \/ \E ok \in BOOLEAN : HeadersArrive(t, ok)
    \/ Resolve(t)
    \/ BodyFails(t)
    \/ NextRound(t)

BroadcastNext ==
    \/ \E t \in Ids :
         \/ \E preferred \in SUBSET Nodes : Start(t, preferred)
         \/ BroadcastStep(t)
         \/ Cancel(t)
    \/ \E n \in Nodes : ToggleNode(n)

-----------------------------------------------------------------------------
BroadcastTypeOK ==
    /\ enabled \subseteq Nodes
    /\ toggles \in 0..MaxToggles
    /\ phase \in [Ids -> Running \cup Settled \cup {"new"}]
    /\ \A t \in Ids : plan[t] \in Seq(Nodes) /\ pos[t] \in 0..Len(plan[t])
    /\ retry \in [Ids -> 0..MaxRetries]
    /\ answerOk \in [Ids -> BOOLEAN]
    /\ activeRetries \subseteq Ids
    /\ inProgress \subseteq Ids \X Nodes
    /\ posts \in [Ids -> [Nodes -> Nat]]
    /\ cancelled \subseteq Ids

\* A broadcast is only given up after every node of its plan was tried once
\* per round, MaxRetries + 1 rounds, and no node is ever posted to more often.
RejectedWhenExhausted ==
    \A t \in Ids : \A n \in Nodes :
        /\ posts[t][n] <= MaxRetries + 1
        /\ phase[t] = "rejected" /\ n \in ToSet(plan[t])
             => posts[t][n] = MaxRetries + 1

\* What the two public getters show agrees with what runs: an entry only for
\* a broadcast that runs, and the right one unless the caller cancelled it.
GettersAgree ==
    \A t \in Ids :
        LET Marks == IF phase[t] \in {"headers", "body"} THEN {Current(t)}
                     ELSE {}
        IN  /\ {m \in inProgress : m[1] = t} \subseteq Marks
            /\ t \in activeRetries => phase[t] \in Running
            /\ t \notin cancelled =>
                 /\ Marks \subseteq inProgress
                 /\ phase[t] \in Running => t \in activeRetries

\* The books of the broadcaster are true, whatever was toggled, cancelled or
\* answered late: what it shows as running runs, and what it reports as rejected
\* was put to every node of its plan in every round (transaction-broadcasting.ts:
\* 291-431, 553-575).
BookkeepingMatches == GettersAgree /\ RejectedWhenExhausted

\* Every broadcast settles, given that every body arrives.
BroadcastSettles ==
    \A t \in Ids : phase[t] \in Running ~> phase[t] \in Settled

\* transaction-broadcasting.ts:550 "Cancel an active broadcast": no node is
\* posted to once the broadcast is cancelled.
CancelStops ==
    [][\A t \in cancelled : \A n \in Nodes :
           posts'[t][n] <= posts[t][n]]_<<cancelled, posts>>
=============================================================================
