----------------------------- MODULE Rendezvous -----------------------------
(***************************************************************************)
(* What the endpoint kind promises its users (docs/CAP_ABI.md and the doc  *)
(* comments of ep_send and ep_recv), without tables, parking or domains:   *)
(* callers post requests on channels, a channel holds at most one request, *)
(* and a request ends only by meeting its opposite, when both callers get  *)
(* their results in the same step.                                         *)
(***************************************************************************)
CONSTANTS
    Caller,         \* the tasks
    Channel,        \* the endpoints
    Message,        \* message words
    Empty,          \* the zero word
    Error,          \* the statuses of a failed call
    Handle,         \* the slots a granted capability may land in
    NoHandle,       \* the "no capability" sentinel
    Fresh           \* the result field of a task that has made no call

VARIABLES
    request,        \* the pending request of each caller
    result          \* the outcome of its last finished request

Idle == [op |-> "none"]

Sends == [op: {"send"}, channel: Channel, msg: Message, grant: BOOLEAN]
Recvs == [op: {"recv"}, channel: Channel]

Failed(e) == [status |-> e, reply |-> Empty, cptr |-> NoHandle]
Sent      == [status |-> "Ok", reply |-> Empty, cptr |-> NoHandle]
Got(m, h) == [status |-> "Ok", reply |-> m, cptr |-> h]

Pending(c, q) == request[c] # Idle /\ request[c].channel = q.channel

Init ==
    /\ request = [c \in Caller |-> Idle]
    /\ result = [c \in Caller |-> Fresh]

\* A call that fails on its own.
Refuse(c, e) ==
    /\ request[c] = Idle
    /\ result' = [result EXCEPT ![c] = Failed(e)]
    /\ UNCHANGED request

\* A request nobody is waiting for waits.
Post(c, q) ==
    /\ request[c] = Idle
    /\ \A u \in Caller : ~Pending(u, q)
    /\ request' = [request EXCEPT ![c] = q]
    /\ UNCHANGED result

\* Sender s with request q and receiver r: the message arrives exactly once,
\* with a handle if and only if a capability was granted.
Deliver(s, r, q, h) ==
    /\ (h # NoHandle) <=> q.grant
    /\ result' = [result EXCEPT ![s] = Sent, ![r] = Got(q.msg, h)]

\* A grant that fails fails for both, and nothing is delivered.
Abort(s, r, q, e) ==
    /\ q.grant
    /\ result' = [result EXCEPT ![s] = Failed(e), ![r] = Failed(e)]

Ends(s, r, q) ==
    \/ \E h \in Handle \cup {NoHandle} : Deliver(s, r, q, h)
    \/ \E e \in Error : Abort(s, r, q, e)

\* c calls and finds its opposite u waiting.
MeetReceiver(c, q, u) ==
    /\ request[c] = Idle
    /\ request[u] \in Recvs /\ Pending(u, q)
    /\ Ends(c, u, q)
    /\ request' = [request EXCEPT ![u] = Idle]

MeetSender(c, q, u) ==
    /\ request[c] = Idle
    /\ request[u] \in Sends /\ Pending(u, q)
    /\ Ends(u, c, request[u])
    /\ request' = [request EXCEPT ![u] = Idle]

\* A new task takes the slot of a dead one, which was not waiting.
Renew(c) ==
    /\ request[c] = Idle
    /\ result' = [result EXCEPT ![c] = Fresh]
    /\ UNCHANGED request

Next ==
    \E c \in Caller :
        \/ \E e \in Error : Refuse(c, e)
        \/ \E q \in Sends \cup Recvs : Post(c, q)
        \/ \E u \in Caller \ {c}, q \in Sends : MeetReceiver(c, q, u)
        \/ \E u \in Caller \ {c}, q \in Recvs : MeetSender(c, q, u)
        \/ Renew(c)

Spec == Init /\ [][Next]_<<request, result>>

=============================================================================
