-------------------------------- MODULE Proxy --------------------------------
(***************************************************************************)
(* The standalone proxy data path of repust for the Redis protocol:       *)
(* per-client Front tasks (src/proxy/standalone/front.rs), per-backend    *)
(* Back and BlackHole tasks (src/proxy/standalone/back.rs), the bounded   *)
(* crossbeam channels between them (src/proxy/standalone.rs), the shared  *)
(* Command objects with their DONE flag and reply slot                    *)
(* (src/protocol/redis.rs), and the backend servers behind the TCP links. *)
(*                                                                         *)
(* Each task's poll is split at the points where the code moves from one  *)
(* of its phases to the next, so other tasks (running on other runtime    *)
(* threads) interleave between phases.  A task is polled only after it    *)
(* has been woken, as the tokio runtime does.                             *)
(***************************************************************************)
EXTENDS Naturals, Sequences, FiniteSets, SequencesExt

CONSTANTS
    Clients,        \* client connections, one Front task each
    Nodes,          \* backend addresses, one Back (or BlackHole) task each
    Keys,           \* the keys the clients use
    Requests,       \* Requests[c]: the pipeline client c writes, in order
    NodeOf,         \* NodeOf[k]: the node the hash ring maps key k to
    BlackHoles,     \* nodes whose initial TCP connect failed
    CHAN_CAP,       \* capacity of a backend channel (1024 * 8 in the code)
    MAX_CYCLE,      \* retries of a send (1 in the code)
    FRONTEND_MAX_POLL_ERROR,   \* 10 in the code
    DOWNSTREAM_MAX_POLL_ERROR, \* 10 in the code
    Protocol,       \* "redis" (protocol/redis.rs) or "memcache" (protocol/mc.rs)
    WIRE_CAP,       \* requests the backend link buffers before poll_ready is Pending
    RespTimeouts,   \* TRUE when a backend may answer later than resp_timeout
    ClientFaults,   \* subset of {"close", "break", "block"} the clients may show
    BackendFaults,  \* subset of {"reset", "close"} the backend links may show
    Auth            \* TRUE when the cluster is configured with an auth password

Verbs == {"GET", "MGET", "PING", "NOTSUP"}
Request == [verb : Verbs, keys : Seq(Keys)]

ASSUME /\ \A c \in Clients : Requests[c] \in Seq(Request)
       /\ NodeOf \in [Keys -> Nodes]
       /\ BlackHoles \subseteq Nodes
       /\ CHAN_CAP \in Nat \ {0}
       /\ ClientFaults \subseteq {"close", "break", "block"}
       /\ BackendFaults \subseteq {"reset", "close"}
       /\ Protocol \in {"redis", "memcache"}
       /\ WIRE_CAP \in Nat \ {0}
       /\ RespTimeouts \in BOOLEAN
       /\ Auth \in BOOLEAN
       \* a memcached request is a get of one key or a multi-key get
       /\ Protocol = "memcache" =>
             \A c \in Clients : \A i \in 1..Len(Requests[c]) :
                Requests[c][i].verb \in {"GET", "MGET"}

-----------------------------------------------------------------------------
(* Commands.  The Command created for request i of client c is <<c, i, 0>>;*)
(* an MGET also creates one sub-Command <<c, i, j>> per key j (mk_subs).   *)

NSubs(c, i) == IF Requests[c][i].verb = "MGET" THEN Len(Requests[c][i].keys) ELSE 0

CmdIds == UNION {UNION {{<<c, i, j>> : j \in 0..NSubs(c, i)} :
                           i \in 1..Len(Requests[c])} : c \in Clients}

Root(id) == <<id[1], id[2], 0>>

HasSubs(id) == id[3] = 0 /\ NSubs(id[1], id[2]) > 0

SubsOf(id) == [j \in 1..NSubs(id[1], id[2]) |-> <<id[1], id[2], j>>]

\* Leaves are the Commands a Back sends to a backend.
LeafIds == {id \in CmdIds : ~HasSubs(id)}

\* The key a Command is routed by: key_pos is 1 for GET and MGET, so a
\* parent is routed by its first key and a sub by its own key.
KeyOf(id) == Requests[id[1]][id[2]].keys[IF id[3] = 0 THEN 1 ELSE id[3]]

NoCmd == <<>>

\* The AUTH Command StandaloneCluster::connect builds with auth_request and
\* sends into node n's channel before the Back task exists.
AuthCmd(n) == <<"auth", n>>
AuthCmds == {AuthCmd(n) : n \in Nodes}

\* A Command carries a waker when a Front registered one before dispatching
\* it; auth_request leaves it None.
HasWaker(id) == id \in CmdIds

\* Reply values.  A backend reply is tagged with the request it answers.
NoReply == [k |-> "none"]
Pong == [k |-> "pong"]
Val(id) == [k |-> "val", of |-> id]
Err(e) == [k |-> "err", e |-> e]
Errors == {"NotSupport", "CmdTimeout", "ClusterFailDispatch", "ProxyFail",
           "BackendClosed", "IoError"}
Replies == {NoReply, Pong} \cup [k : {"val"}, of : CmdIds] \cup [k : {"err"}, e : Errors]

-----------------------------------------------------------------------------
VARIABLES
    \* the shared Command state (Command in src/protocol/redis.rs)
    done,       \* the DONE flag of the Command's own flags
    reply,      \* the reply slot
    sent,       \* remote_tracker is armed (mark_sent; cleared by set_reply)
    cycle,      \* retry counter
    \* the client side and the Front task
    written,    \* requests client c has written to its socket
    eof,        \* client c has closed its write half
    sinkBroken, \* client c's socket fails on write
    nread,      \* requests the Front has decoded
    queue,      \* sent_queue: request indices, oldest first
    out,        \* replies written to the client socket
    upErr,      \* upstream_poll_error
    woken,      \* the Front task has a pending wake-up
    fpc,        \* phase of the Front's poll: "idle", "read", "exited"
    \* the Back task and its channel
    chan,       \* the bounded channel into node n
    backUp,     \* the task holding the receiver is running
    store,      \* the single-slot store
    subStack,   \* sub_cmds, top of the stack last
    delayed,    \* replies still to be skipped
    downErr,    \* downstream_poll_error
    bpc,        \* phase of the Back's poll: "refill", "send", "recv", "exited"
    \* the TCP link and the backend server
    wire,       \* requests the backend has received and not answered
    inbuf,      \* replies waiting in the Back's read buffer
    sinkOk,     \* writes to the backend succeed
    stream      \* "open", "error" (next read fails), "ended" (EOF)

cmdVars == <<done, reply, sent, cycle>>
frontVars == <<written, eof, sinkBroken, nread, queue, out, upErr, woken, fpc>>
backVars == <<chan, backUp, store, subStack, delayed, downErr, bpc>>
linkVars == <<wire, inbuf, sinkOk, stream>>
vars == <<cmdVars, frontVars, backVars, linkVars>>

-----------------------------------------------------------------------------
(* Cmd::is_done: a Command with subs is done iff all of its subs are.     *)
IsDone(id) ==
    IF HasSubs(id) THEN \A j \in 1..NSubs(id[1], id[2]) : done[<<id[1], id[2], j>>]
                   ELSE done[id]

\* The Commands a step drops the last handle of, and that the Drop of
\* mc::Cmd fails with ProxyFail: each dropped Command not done yet, and
\* each sub not done yet of a dropped parent (the Drop asks is_done, which
\* clones the subs and drops the clones).  C are the Commands the step
\* completes just before it drops them.  A redis Cmd has no Drop.
DropFailed(S, C) ==
    IF Protocol = "redis" THEN {}
    ELSE {id \in LeafIds \ C : ~done[id] /\ (id \in S \/ Root(id) \in S)}
         \cup {id \in S : HasSubs(id) /\ ~IsDone(id)}

\* The subs that mc::Cmd::is_done fails when it is asked of the parents in
\* S: it clones the subs, and each clone not done fails when dropped.
DoneCheckFailed(S) ==
    IF Protocol = "redis" THEN {}
    ELSE {id \in LeafIds : id[3] # 0 /\ Root(id) \in S /\ ~done[id]}

NoReplies == [id \in {} |-> NoReply]

\* One step's change of the shared Command state, in the order the code
\* makes it: Command::set_reply of R[id] for each id in DOMAIN R (reply
\* stored, DONE set, remote tracker dropped), mark_sent of the Commands in
\* M, then ProxyFail on the Commands in F.
UpdateCmds(R, M, F) ==
    /\ done' = [id \in CmdIds |-> done[id] \/ id \in DOMAIN R \/ id \in F]
    /\ reply' = [id \in CmdIds |-> IF id \in F THEN Err("ProxyFail")
                                   ELSE IF id \in DOMAIN R THEN R[id]
                                   ELSE reply[id]]
    /\ sent' = [id \in CmdIds |-> (sent[id] \/ id \in M)
                                  /\ id \notin (DOMAIN R \cup F)]

\* Command::set_reply on one Command.
Complete(id, r) == UpdateCmds([x \in {id} |-> r], {}, {})

\* Cmd::wakeup: wake the waker registered on the handle, the one of the
\* Front of client c.
Wakeup(c) == woken' = [woken EXCEPT ![c] = TRUE]

\* Cmd::set_reply: the redis Cmd then wakes the waker registered on the
\* handle; the mc Cmd does not.
SetReply(id, r) ==
    /\ Complete(id, r)
    /\ IF Protocol = "redis" THEN Wakeup(id[1]) ELSE UNCHANGED woken

\* Cmd::get_sent_time is Some while the remote tracker is armed.
GetSentTime(id) == sent[id]

\* Command::can_cycle: the Command may still be retried.
CanCycle(id) == cycle[id] < MAX_CYCLE

\* Cmd::set_error stores the error reply and sets ERROR, without a wake-up.
SetError(id, e) == Complete(id, Err(e))

\* The bytes RedisHandleCodec::encode writes for request i: the reply of the
\* Command, or for an MGET the raw reply of every sub in key order.
Encode(c, i) ==
    [req |-> i,
     rep |-> IF HasSubs(<<c, i, 0>>)
               THEN [j \in 1..NSubs(c, i) |-> reply[<<c, i, j>>]]
               ELSE <<reply[<<c, i, 0>>]>>]

-----------------------------------------------------------------------------
(* The client and its socket.  These are the environment: no fairness.    *)

\* The client writes its next request; the readable socket wakes the Front.
ClientWrite(c) ==
    /\ ~eof[c]
    /\ written[c] < Len(Requests[c])
    /\ written' = [written EXCEPT ![c] = @ + 1]
    /\ woken' = [woken EXCEPT ![c] = TRUE]
    /\ UNCHANGED <<cmdVars, eof, sinkBroken, nread, queue, out, upErr, fpc,
                   backVars, linkVars>>

\* The client shuts down its write half; the Front reads end of stream.
ClientClose(c) ==
    /\ "close" \in ClientFaults
    /\ ~eof[c]
    /\ eof' = [eof EXCEPT ![c] = TRUE]
    /\ woken' = [woken EXCEPT ![c] = TRUE]
    /\ UNCHANGED <<cmdVars, written, sinkBroken, nread, queue, out, upErr, fpc,
                   backVars, linkVars>>

\* The client connection breaks: every later write to it fails.
ClientBreak(c) ==
    /\ "break" \in ClientFaults
    /\ ~sinkBroken[c]
    /\ sinkBroken' = [sinkBroken EXCEPT ![c] = TRUE]
    /\ UNCHANGED <<cmdVars, written, eof, nread, queue, out, upErr, woken, fpc,
                   backVars, linkVars>>

-----------------------------------------------------------------------------
(* The Front task (Front::poll).                                          *)

\* sent_queue after pop_front and, for a Command that is not done yet,
\* push_front.
RequeueAtBack(c) ==
    IF queue[c] = <<>> THEN queue[c] ELSE Append(Tail(queue[c]), Head(queue[c]))

Requeue(c) ==
    IF queue[c] = <<>> THEN queue[c] ELSE <<Head(queue[c])>> \o Tail(queue[c])

\* The oldest Command of sent_queue is done.
HeadDone(c) == queue[c] # <<>> /\ IsDone(<<c, Head(queue[c]), 0>>)

\* The Commands of sent_queue, which the Front drops when it ends.
Queued(c) == {<<c, i, 0>> : i \in ToSet(queue[c])}

\* First phase of a poll: pop the head of sent_queue; if it is done, write
\* its reply, otherwise push it back.  The runtime clears the wake-up when
\* the poll starts.
FrontDrain(c) ==
    /\ fpc[c] = "idle"
    /\ woken[c]
    /\ woken' = [woken EXCEPT ![c] = FALSE]
    /\ \/ /\ ~HeadDone(c)
          /\ queue' = [queue EXCEPT ![c] = Requeue(c)]
          /\ fpc' = [fpc EXCEPT ![c] = "read"]
          /\ UpdateCmds(NoReplies, {},
                DoneCheckFailed(IF queue[c] = <<>> THEN {}
                                ELSE {<<c, Head(queue[c]), 0>>}))
          /\ UNCHANGED <<out, upErr>>
       \/ /\ HeadDone(c)
          /\ queue' = [queue EXCEPT ![c] = Tail(@)]
          /\ \/ \* poll_ready is Ready(Ok): start_send encodes the reply
                /\ ~sinkBroken[c]
                /\ out' = [out EXCEPT ![c] = Append(@, Encode(c, Head(queue[c])))]
                /\ fpc' = [fpc EXCEPT ![c] = "read"]
                /\ UNCHANGED <<cmdVars, upErr>>
             \/ \* poll_ready is Pending: the popped Command is dropped
                /\ "block" \in ClientFaults
                /\ ~sinkBroken[c]
                /\ fpc' = [fpc EXCEPT ![c] = "read"]
                /\ UNCHANGED <<cmdVars, out, upErr>>
             \/ \* poll_ready is Ready(Err): count it, give up past the cap
                /\ sinkBroken[c]
                /\ upErr' = [upErr EXCEPT ![c] = @ + 1]
                /\ IF upErr[c] + 1 > FRONTEND_MAX_POLL_ERROR
                   THEN /\ fpc' = [fpc EXCEPT ![c] = "exited"]
                        /\ UpdateCmds(NoReplies, {},
                                      DropFailed(Queued(c), {}))
                   ELSE /\ fpc' = [fpc EXCEPT ![c] = "read"]
                        /\ UNCHANGED cmdVars
                /\ UNCHANGED out
    /\ UNCHANGED <<cycle, written, eof, sinkBroken, nread, backVars, linkVars>>

\* RingKeeper::get_sender: the channel of the node the ring gives for the
\* hash of the Command's key.  Its None arms need an empty ring or a node
\* without a connection, and init connects every node of the ring.
GetSender(id) == NodeOf[KeyOf(id)]

\* Send a decoded Command to the channel of the node its key hashes to.
\* send_timeout fails with Disconnected once the Back has dropped the
\* receiver, and with Timeout while the channel stays full.  F are the
\* Commands the decoding failed.
Dispatch(id, F) ==
    LET n == GetSender(id) IN
    \/ /\ ~backUp[n]
       /\ UpdateCmds([x \in {id} |-> Err("ClusterFailDispatch")], {}, F)
       /\ UNCHANGED chan
    \/ /\ backUp[n]
       /\ Len(chan[n]) < CHAN_CAP
       /\ chan' = [chan EXCEPT ![n] = Append(@, id)]
       /\ UpdateCmds(NoReplies, {}, F)
    \/ /\ backUp[n]
       /\ Len(chan[n]) = CHAN_CAP
       /\ UpdateCmds([x \in {id} |-> Err("CmdTimeout")], {}, F)
       /\ UNCHANGED chan

\* Build the Command for a request (From<MessageMut> for Cmd, check_valid)
\* and dispatch it unless it was answered locally.  The Front asks
\* is_done of the new Command before it dispatches it.
Decode(id) ==
    CASE Requests[id[1]][id[2]].verb = "PING" ->
            Complete(id, Pong) /\ UNCHANGED chan
      [] Requests[id[1]][id[2]].verb = "NOTSUP" ->
            Complete(id, Err("NotSupport")) /\ UNCHANGED chan
      [] OTHER -> Dispatch(id, DoneCheckFailed({id}))

\* Second phase of a poll: read one request from the client stream.
FrontRead(c) ==
    /\ fpc[c] = "read"
    /\ \/ /\ nread[c] < written[c]
          /\ nread' = [nread EXCEPT ![c] = @ + 1]
          /\ Decode(<<c, nread[c] + 1, 0>>)
          /\ UNCHANGED cycle
          /\ queue' = [queue EXCEPT ![c] = Append(@, nread[c] + 1)]
          /\ woken' = [woken EXCEPT ![c] = TRUE]
          /\ fpc' = [fpc EXCEPT ![c] = "idle"]
       \/ /\ nread[c] = written[c]
          /\ eof[c]
          /\ fpc' = [fpc EXCEPT ![c] = "exited"]
          /\ UpdateCmds(NoReplies, {}, DropFailed(Queued(c), {}))
          /\ UNCHANGED <<cycle, nread, queue, woken, chan>>
       \/ /\ nread[c] = written[c]
          /\ ~eof[c]
          /\ fpc' = [fpc EXCEPT ![c] = "idle"]
          /\ UNCHANGED <<cmdVars, nread, queue, woken, chan>>
    /\ UNCHANGED <<written, eof, sinkBroken, out, upErr, backUp, store,
                   subStack, delayed, downErr, bpc, linkVars>>

-----------------------------------------------------------------------------
(* The Back task (Back::poll).  It wakes itself at the end of every poll, *)
(* so it is polled again and again while it runs.                         *)

ExitKeepStore(n) ==
    /\ backUp' = [backUp EXCEPT ![n] = FALSE]
    /\ chan' = [chan EXCEPT ![n] = <<>>]
    /\ store' = store
    /\ subStack' = [subStack EXCEPT ![n] = <<>>]
    /\ bpc' = [bpc EXCEPT ![n] = "exited"]

\* The Commands a Back holds: its store, its stacked subs and its channel.
HeldBy(n) ==
    (ToSet(chan[n]) \cap CmdIds) \cup ToSet(subStack[n]) \cup ({store[n]} \ {NoCmd})

\* The task returns Poll::Ready: the receiver, the store and the stacked
\* subs are dropped with it, and senders now see Disconnected.  The
\* channel discards what it buffers once its receiver is gone.
Exit(n) ==
    /\ backUp' = [backUp EXCEPT ![n] = FALSE]
    /\ chan' = [chan EXCEPT ![n] = <<>>]
    /\ store' = [store EXCEPT ![n] = NoCmd]
    /\ subStack' = [subStack EXCEPT ![n] = <<>>]
    /\ bpc' = [bpc EXCEPT ![n] = "exited"]

\* With the store empty, take the next stacked sub, or else the next
\* Command from the channel; a Command with subs is split, its subs are
\* stacked in reverse and the first one goes to the store.  A Command
\* without a waker is dropped ("incorrect arrival path"), and with the
\* store still empty the poll skips the send and read phases.
BackRefill(n) ==
    /\ n \notin BlackHoles
    /\ bpc[n] = "refill"
    /\ \/ /\ subStack[n] # <<>>
          /\ store' = [store EXCEPT ![n] = Last(subStack[n])]
          /\ subStack' = [subStack EXCEPT ![n] = Front(@)]
          /\ bpc' = [bpc EXCEPT ![n] = "send"]
          /\ UNCHANGED <<chan, cmdVars>>
       \/ /\ subStack[n] = <<>>
          /\ chan[n] # <<>>
          /\ ~HasWaker(Head(chan[n]))
          /\ chan' = [chan EXCEPT ![n] = Tail(@)]
          /\ UNCHANGED <<store, subStack, bpc, cmdVars>>
       \/ /\ subStack[n] = <<>>
          /\ chan[n] # <<>>
          /\ HasWaker(Head(chan[n]))
          /\ chan' = [chan EXCEPT ![n] = Tail(@)]
          /\ bpc' = [bpc EXCEPT ![n] = "send"]
          /\ LET id == Head(chan[n]) IN
             IF HasSubs(id)
             THEN /\ store' = [store EXCEPT ![n] = SubsOf(id)[1]]
                  /\ subStack' = [subStack EXCEPT ![n] = Reverse(Tail(SubsOf(id)))]
                  \* the parent is dropped once its subs are stacked
                  /\ UpdateCmds(NoReplies, {}, DropFailed({id}, {}))
             ELSE /\ store' = [store EXCEPT ![n] = id]
                  /\ UNCHANGED <<subStack, cmdVars>>
    /\ UNCHANGED <<cycle, frontVars, backUp, delayed, downErr, linkVars>>

BackTimeoutNoSkip(n) ==
    /\ bpc[n] = "send"
    /\ GetSentTime(store[n])
    /\ RespTimeouts
    /\ SetError(store[n], "CmdTimeout")
    /\ store' = [store EXCEPT ![n] = NoCmd]
    /\ bpc' = [bpc EXCEPT ![n] = "refill"]
    /\ UNCHANGED <<cycle, frontVars, chan, backUp, subStack, delayed, downErr,
                   linkVars>>

\* Second phase of a poll, the stored Command was sent and resp_timeout has
\* elapsed: fail it with CmdTimeout and count its reply as one to skip.
BackTimeout(n) ==
    /\ bpc[n] = "send"
    /\ GetSentTime(store[n])
    /\ RespTimeouts
    /\ SetError(store[n], "CmdTimeout")
    /\ delayed' = [delayed EXCEPT ![n] = @ + 1]
    /\ store' = [store EXCEPT ![n] = NoCmd]
    /\ bpc' = [bpc EXCEPT ![n] = "refill"]
    /\ UNCHANGED <<cycle, frontVars, chan, backUp, subStack, downErr, linkVars>>

BackAwaitDropped(n) ==
    /\ bpc[n] = "send"
    /\ GetSentTime(store[n])
    /\ store' = [store EXCEPT ![n] = NoCmd]
    /\ bpc' = [bpc EXCEPT ![n] = "refill"]
    /\ UNCHANGED <<cmdVars, frontVars, chan, backUp, subStack, delayed,
                   downErr, linkVars>>

\* The stored Command was sent and is within resp_timeout: keep it.
BackAwait(n) ==
    /\ bpc[n] = "send"
    /\ GetSentTime(store[n])
    /\ bpc' = [bpc EXCEPT ![n] = "recv"]
    /\ UNCHANGED <<cmdVars, frontVars, chan, backUp, store, subStack, delayed,
                   downErr, linkVars>>

\* The stored Command is not sent and poll_ready is Ready(Ok): mark_sent,
\* start_send (the codec encodes and drops the handle it is given), and
\* poll_flush.  On a working link the request reaches the backend; on a
\* broken one it stays in the write buffer, as poll_ready only flushes once
\* the buffer is past its limit and the poll_flush error is ignored.
BackWrite(n) ==
    /\ bpc[n] = "send"
    /\ ~GetSentTime(store[n])
    /\ ~sinkOk[n] \/ Len(wire[n]) < WIRE_CAP
    /\ UpdateCmds(NoReplies, {store[n]}, DropFailed({store[n]}, {}))
    /\ wire' = [wire EXCEPT ![n] = IF sinkOk[n] THEN Append(@, store[n]) ELSE @]
    /\ bpc' = [bpc EXCEPT ![n] = "recv"]
    /\ UNCHANGED <<cycle, frontVars, chan, backUp, store, subStack,
                   delayed, downErr, inbuf, sinkOk, stream>>

\* poll_ready is Pending while the link's buffer is full: the Command stays
\* in the store and the poll goes on to read.
BackSinkPending(n) ==
    /\ bpc[n] = "send"
    /\ ~GetSentTime(store[n])
    /\ sinkOk[n]
    /\ Len(wire[n]) >= WIRE_CAP
    /\ bpc' = [bpc EXCEPT ![n] = "recv"]
    /\ UNCHANGED <<cmdVars, frontVars, chan, backUp, store, subStack, delayed,
                   downErr, linkVars>>

\* poll_ready is Ready(Err) on a broken link: the Command was taken out of
\* the store and is not put back, whether it may still cycle or is failed
\* with ProxyFail; past DOWNSTREAM_MAX_POLL_ERROR the task ends.
BackWriteErr(n) ==
    /\ bpc[n] = "send"
    /\ ~GetSentTime(store[n])
    /\ ~sinkOk[n]
    /\ LET id == store[n]
           retry == CanCycle(id)
           exit == downErr[n] + 1 > DOWNSTREAM_MAX_POLL_ERROR
           R == IF retry THEN NoReplies ELSE [x \in {id} |-> Err("ProxyFail")]
       IN /\ cycle' = IF retry THEN [cycle EXCEPT ![id] = @ + 1] ELSE cycle
          /\ UpdateCmds(R, {}, DropFailed(IF exit THEN HeldBy(n) ELSE {id},
                                          DOMAIN R))
          /\ IF exit
             THEN Exit(n)
             ELSE /\ store' = [store EXCEPT ![n] = NoCmd]
                  /\ bpc' = [bpc EXCEPT ![n] = "refill"]
                  /\ UNCHANGED <<chan, backUp, subStack>>
    /\ downErr' = [downErr EXCEPT ![n] = @ + 1]
    /\ UNCHANGED <<frontVars, delayed, linkVars>>

BackSend(n) == BackTimeout(n) \/ BackAwait(n) \/ BackWrite(n) \/ BackSinkPending(n)
               \/ BackWriteErr(n)

BackReplyKeepDelayed(n) ==
    /\ bpc[n] = "recv"
    /\ inbuf[n] # <<>>
    /\ inbuf' = [inbuf EXCEPT ![n] = Tail(@)]
    /\ IF delayed[n] > 0
       THEN /\ bpc' = [bpc EXCEPT ![n] = "send"]
            /\ UNCHANGED <<cmdVars, woken, store, delayed>>
       ELSE /\ SetReply(store[n], Val(Head(inbuf[n])))
            /\ store' = [store EXCEPT ![n] = NoCmd]
            /\ bpc' = [bpc EXCEPT ![n] = "refill"]
            /\ UNCHANGED <<cycle, delayed>>
    /\ UNCHANGED <<written, eof, sinkBroken, nread, queue, out, upErr, fpc,
                   chan, backUp, subStack, downErr, wire, sinkOk, stream>>

\* Third phase of a poll: a reply was read.  While late replies are owed it
\* is skipped; otherwise it completes the stored Command.
BackReply(n) ==
    /\ bpc[n] = "recv"
    /\ inbuf[n] # <<>>
    /\ inbuf' = [inbuf EXCEPT ![n] = Tail(@)]
    /\ IF delayed[n] > 0
       THEN /\ delayed' = [delayed EXCEPT ![n] = @ - 1]
            /\ bpc' = [bpc EXCEPT ![n] = "send"]
            /\ UNCHANGED <<cmdVars, woken, store>>
       ELSE /\ SetReply(store[n], Val(Head(inbuf[n])))
            /\ store' = [store EXCEPT ![n] = NoCmd]
            /\ bpc' = [bpc EXCEPT ![n] = "refill"]
            /\ UNCHANGED <<cycle, delayed>>
    /\ UNCHANGED <<written, eof, sinkBroken, nread, queue, out, upErr, fpc,
                   chan, backUp, subStack, downErr, wire, sinkOk, stream>>

\* No reply yet (Pending): the next poll starts again at the send phase.
BackPending(n) ==
    /\ bpc[n] = "recv"
    /\ inbuf[n] = <<>>
    /\ stream[n] = "open"
    /\ bpc' = [bpc EXCEPT ![n] = "send"]
    /\ UNCHANGED <<cmdVars, frontVars, chan, backUp, store, subStack, delayed,
                   downErr, linkVars>>

\* The read fails: the stored Command gets the io error.  The framed
\* stream ends after an error.
BackReadErr(n) ==
    /\ bpc[n] = "recv"
    /\ inbuf[n] = <<>>
    /\ stream[n] = "error"
    /\ SetError(store[n], "IoError")
    /\ store' = [store EXCEPT ![n] = NoCmd]
    /\ stream' = [stream EXCEPT ![n] = "ended"]
    /\ bpc' = [bpc EXCEPT ![n] = "refill"]
    /\ UNCHANGED <<cycle, frontVars, chan, backUp, subStack, delayed, downErr,
                   wire, inbuf, sinkOk>>

\* The stream is at its end (Ready(None)): the task ends.
BackEof(n) ==
    /\ bpc[n] = "recv"
    /\ inbuf[n] = <<>>
    /\ stream[n] = "ended"
    /\ Exit(n)
    /\ UpdateCmds(NoReplies, {}, DropFailed(HeldBy(n), {}))
    /\ UNCHANGED <<cycle, frontVars, delayed, downErr, linkVars>>

BackRecv(n) == BackReply(n) \/ BackPending(n) \/ BackReadErr(n) \/ BackEof(n)

\* BlackHole::poll: fail every Command of the channel with
\* BackendClosedError.
BlackHoleRecv(n) ==
    /\ n \in BlackHoles
    /\ chan[n] # <<>>
    \* the reply slot of the AUTH Command is read by nobody
    /\ LET id == Head(chan[n]) IN
       IF id \in CmdIds
       THEN UpdateCmds([x \in {id} |-> Err("BackendClosed")], {}, DropFailed({id}, {id}))
       ELSE UNCHANGED cmdVars
    /\ chan' = [chan EXCEPT ![n] = Tail(@)]
    /\ UNCHANGED <<cycle, frontVars, backUp, store, subStack, delayed, downErr,
                   bpc, linkVars>>

-----------------------------------------------------------------------------
(* The backend server and the TCP link.                                   *)

\* The backend answers its oldest request.
Serve(n) ==
    /\ stream[n] = "open"
    /\ wire[n] # <<>>
    /\ wire' = [wire EXCEPT ![n] = Tail(@)]
    /\ inbuf' = [inbuf EXCEPT ![n] = Append(@, Head(wire[n]))]
    /\ UNCHANGED <<cmdVars, frontVars, backVars, sinkOk, stream>>

\* The connection is reset: writes fail, and the next read fails.
LinkReset(n) ==
    /\ "reset" \in BackendFaults
    /\ n \notin BlackHoles
    /\ stream[n] = "open"
    /\ sinkOk' = [sinkOk EXCEPT ![n] = FALSE]
    /\ stream' = [stream EXCEPT ![n] = "error"]
    /\ UNCHANGED <<cmdVars, frontVars, backVars, wire, inbuf>>

\* The backend closes the connection: reads reach end of stream.
BackendClose(n) ==
    /\ "close" \in BackendFaults
    /\ n \notin BlackHoles
    /\ stream[n] = "open"
    /\ stream' = [stream EXCEPT ![n] = "ended"]
    /\ UNCHANGED <<cmdVars, frontVars, backVars, wire, inbuf, sinkOk>>

-----------------------------------------------------------------------------
Init ==
    /\ done = [id \in CmdIds |-> FALSE]
    /\ reply = [id \in CmdIds |-> NoReply]
    /\ sent = [id \in CmdIds |-> FALSE]
    /\ cycle = [id \in CmdIds |-> 0]
    /\ written = [c \in Clients |-> 0]
    /\ eof = [c \in Clients |-> FALSE]
    /\ sinkBroken = [c \in Clients |-> FALSE]
    /\ nread = [c \in Clients |-> 0]
    /\ queue = [c \in Clients |-> <<>>]
    /\ out = [c \in Clients |-> <<>>]
    /\ upErr = [c \in Clients |-> 0]
    /\ woken = [c \in Clients |-> TRUE]
    /\ fpc = [c \in Clients |-> "idle"]
    /\ chan = [n \in Nodes |-> IF Auth THEN <<AuthCmd(n)>> ELSE <<>>]
    /\ backUp = [n \in Nodes |-> TRUE]
    /\ store = [n \in Nodes |-> NoCmd]
    /\ subStack = [n \in Nodes |-> <<>>]
    /\ delayed = [n \in Nodes |-> 0]
    /\ downErr = [n \in Nodes |-> 0]
    /\ bpc = [n \in Nodes |-> "refill"]
    /\ wire = [n \in Nodes |-> <<>>]
    /\ inbuf = [n \in Nodes |-> <<>>]
    /\ sinkOk = [n \in Nodes |-> TRUE]
    /\ stream = [n \in Nodes |-> "open"]

Next ==
    \/ \E c \in Clients :
          \/ ClientWrite(c) \/ ClientClose(c) \/ ClientBreak(c)
          \/ FrontDrain(c) \/ FrontRead(c)
    \/ \E n \in Nodes :
          \/ BackRefill(n) \/ BackSend(n) \/ BackRecv(n)
          \/ BlackHoleRecv(n)
          \/ Serve(n) \/ LinkReset(n) \/ BackendClose(n)

\* The runtime polls every woken task; a Back wakes itself every poll; a
\* backend answers every request it has received.  The clients and the
\* faults are the environment and get no fairness.
Fairness ==
    /\ \A c \in Clients : WF_vars(FrontDrain(c)) /\ WF_vars(FrontRead(c))
    /\ \A n \in Nodes : /\ WF_vars(BackRefill(n)) /\ WF_vars(BackSend(n))
                        /\ WF_vars(BackRecv(n)) /\ WF_vars(BlackHoleRecv(n))
                        /\ WF_vars(Serve(n))

\* A Back or BlackHole whose recv_timeout(CHANNEL_FETCH_TIMEOUT) times out
\* on an empty channel only wakes itself: a stuttering step.  A state in
\* which every task waits on a socket or has ended is a normal end.
Spec == Init /\ [][Next]_vars /\ Fairness

-----------------------------------------------------------------------------
(* Properties.                                                            *)

TypeOK ==
    /\ done \in [CmdIds -> BOOLEAN]
    /\ reply \in [CmdIds -> Replies]
    /\ sent \in [CmdIds -> BOOLEAN]
    /\ cycle \in [CmdIds -> 0..MAX_CYCLE]
    /\ \A c \in Clients :
          /\ nread[c] <= written[c] /\ written[c] <= Len(Requests[c])
          /\ queue[c] \in Seq(1..nread[c])
          /\ fpc[c] \in {"idle", "read", "exited"}
    /\ \A n \in Nodes :
          /\ chan[n] \in Seq(CmdIds \cup AuthCmds) /\ Len(chan[n]) <= CHAN_CAP
          /\ wire[n] \in Seq(LeafIds) /\ Len(wire[n]) <= WIRE_CAP
          /\ store[n] \in LeafIds \cup {NoCmd}
          /\ subStack[n] \in Seq(LeafIds)
          /\ bpc[n] \in {"refill", "send", "recv", "exited"}
          /\ (bpc[n] \in {"send", "recv"}) = (store[n] # NoCmd)
          /\ stream[n] \in {"open", "error", "ended"}

\* The reply a Back stores in a Command is the backend's answer to that
\* Command: the count of late replies to skip (delayed, raised by the read
\* timeout in Back::poll) keeps the backend's replies and the Commands
\* lined up across timeouts.
ReplyBelongsToCommand ==
    \A id \in CmdIds : reply[id].k = "val" => reply[id].of = id

\* The k-th reply Front::poll writes to a client answers the client's k-th
\* request, and every value in it (each key of an MGET) is the backend's
\* answer for that request and key: sent_queue keeps pipelined replies in
\* request order.
ReplyOrder ==
    \A c \in Clients : \A k \in 1..Len(out[c]) :
       /\ out[c][k].req = k
       /\ \A j \in DOMAIN out[c][k].rep :
             out[c][k].rep[j].k = "val" =>
                out[c][k].rep[j].of = <<c, k, IF NSubs(c, k) > 0 THEN j ELSE 0>>

\* Spec section 8, property 4, on a link that works: the replies the backend
\* still owes (requests on the wire and replies not read yet) are exactly
\* the late replies Back::poll has counted in delayed, plus one for the
\* stored Command once it has been sent.  So the next reply read is always
\* either a late one, skipped, or the answer to the store.
Owed(n) == Len(wire[n]) + Len(inbuf[n])

DelayedAccounting ==
    \A n \in Nodes \ BlackHoles :
       backUp[n] /\ sinkOk[n] /\ stream[n] = "open" =>
          Owed(n) = delayed[n] + (IF store[n] # NoCmd /\ sent[store[n]] THEN 1 ELSE 0)

\* A parent Command that was failed as a whole (set_error on the parent by
\* the Front's send_timeout error or by a BlackHole) reads as done.
FanOutErrorVisible ==
    \A id \in CmdIds : HasSubs(id) /\ done[id] => IsDone(id)

\* Every Command a Back sends goes to the node its own key hashes to: each
\* sub of an MGET is routed by its own key (the spec's routing of subs).
SubsOnOwnNode ==
    \A n \in Nodes : \A id \in ({store[n]} \cup ToSet(subStack[n])) \ {NoCmd} :
       NodeOf[KeyOf(id)] = n

\* A leaf Command that was handed to a Back is either done or still held by
\* a running Back (in its channel, its store or its sub stack): no step of
\* Back::poll drops a Command without completing it.
Held(id) ==
    \E n \in Nodes :
       /\ backUp[n]
       /\ \/ id \in ToSet(chan[n]) \/ Root(id) \in ToSet(chan[n])
          \/ store[n] = id \/ id \in ToSet(subStack[n])

NoOrphan ==
    \A id \in LeafIds :
       /\ id[2] <= nread[id[1]]
       /\ Requests[id[1]][id[2]].verb \in {"GET", "MGET"}
       /\ ~done[id] /\ ~done[Root(id)]
       => Held(id)

\* No client is answered ProxyFail while every link and client socket
\* works: ProxyFail stands for a send to the backend that failed (the
\* poll_ready error in Back::poll), not for a Command that was only dropped
\* or asked whether it is done.
NoSpuriousProxyFail ==
    \A c \in Clients : \A k \in 1..Len(out[c]) :
       \A j \in DOMAIN out[c][k].rep : out[c][k].rep[j] # Err("ProxyFail")

\* Spec 4.8: on a cluster with an auth password, the Back sends the AUTH
\* Command that StandaloneCluster::connect put first into its channel.  So
\* a running Back (not a BlackHole, which answers nothing) takes the AUTH
\* Command out of its channel only into its store, to be written to the
\* backend before any client Command.
AuthSent ==
    [][\A n \in Nodes \ BlackHoles :
          AuthCmd(n) \in ToSet(chan[n]) /\ AuthCmd(n) \notin ToSet(chan'[n])
          /\ backUp'[n]
          => store'[n] = AuthCmd(n)]_vars

\* Every Command put into a Back's channel is eventually done: Back::poll
\* takes it, sends it and stores the reply or an error.
BackCompletes ==
    \A n \in Nodes : \A id \in CmdIds :
       id \in ToSet(chan[n]) ~> IsDone(id)

\* Every request the Front has read is eventually answered on the client
\* connection: the Front is woken when a reply it waits for is ready.
FrontEventuallyReplies ==
    \A c \in Clients : \A i \in 1..Len(Requests[c]) :
       nread[c] >= i ~> Len(out[c]) >= i

-----------------------------------------------------------------------------
(* Refinement of BackendFifo.  A Command handed to a Back is pending at    *)
(* that node from the moment it enters the channel until a reply or an   *)
(* error is stored in it: in the store, then the stacked subs from the    *)
(* top, then the channel, each Command of the channel standing for its    *)
(* subs when it has some.                                                 *)

Parts(id) ==
    IF id \in AuthCmds THEN <<>> ELSE IF HasSubs(id) THEN SubsOf(id) ELSE <<id>>

Issued == UNION {{<<c, i, 0>> : i \in 1..nread[c]} : c \in Clients}

PendingAt(n) ==
    (IF store[n] = NoCmd THEN <<>> ELSE <<store[n]>>)
    \o Reverse(subStack[n])
    \o FlattenSeq([k \in 1..Len(chan[n]) |-> Parts(chan[n][k])])

Fifo == INSTANCE BackendFifo
            WITH Cmds <- {id \in CmdIds : id[3] = 0}, Ids <- CmdIds,
                 Value <- Val, Failures <- {Err(e) : e \in Errors},
                 LocalAnswers <- {Pong}, NoAnswer <- NoReply,
                 issued <- Issued,
                 pending <- [n \in Nodes |-> PendingAt(n)],
                 res <- reply

\* The Fronts and Backs together implement BackendFifo: each Back completes
\* what its channel delivers in channel order (the sub stack in mk_subs
\* order), each Command once and with its own backend answer or an error,
\* the delayed count of Back::poll discarding the late answers of timed-out
\* Commands; and, under the fairness of the runtime, everything handed to
\* a Back or a BlackHole is completed.
FifoRefinement == Fifo!Spec

=============================================================================
